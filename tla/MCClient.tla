------------------------------ MODULE MCClient ------------------------------
(***************************************************************************)
(* A small instance of the web client for TLC.                             *)
(***************************************************************************)
EXTENDS LinksView, TLC

CONSTANTS f1, f2, u1, u2

\* A login of each user, one by RegisterPage, and a link of the first.
MCUserOf == (f1 :> u1) @@ (f2 :> u2)
MCOwner == [l \in LinkIds |-> u1]

=============================================================================
