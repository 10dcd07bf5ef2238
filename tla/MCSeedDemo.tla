----------------------------- MODULE MCSeedDemo -----------------------------
(***************************************************************************)
(* A small instance of the accounts and the demo script for TLC.           *)
(***************************************************************************)
EXTENDS SeedDemo, TLC

\* Like DEMO_LINKS, lists that share a tag.
MCNames == {"docs", "nestjs"}
MCFold == [x \in MCNames |-> x]
MCDemoTags == <<{"docs"}, {"docs", "nestjs"}>>

Symmetry == Permutations(Users) \cup Permutations(LinkIds) \cup Permutations(Calls)
                \cup Permutations(Reqs)

=============================================================================
