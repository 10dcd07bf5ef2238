------------------------------ MODULE MCOverlap ------------------------------
(***************************************************************************)
(* The instances of MCLinks, with the memory of overlaps.                  *)
(***************************************************************************)
EXTENDS MCLinks, LinksOverlap
=============================================================================
