--------------------------- MODULE MCLinkQueries ---------------------------
(***************************************************************************)
(* A small instance of the reads for TLC.                                  *)
(***************************************************************************)
EXTENDS LinkQueries, TLC

\* No filter, a tag, a text that occurs in what request r wrote.
All == [tags |-> {}, q |-> NULL]
Tagged(n) == [tags |-> {n}, q |-> NULL]
Containing(r) == [tags |-> {}, q |-> {r}]

MCQueries == {All} \cup {Tagged(n) : n \in Names} \cup {Containing(r) : r \in Reqs}

UserSymmetry == Permutations(Users)

=============================================================================
