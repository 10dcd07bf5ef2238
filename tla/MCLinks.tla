------------------------------- MODULE MCLinks -------------------------------
(***************************************************************************)
(* Small instances of the link service for TLC.                            *)
(***************************************************************************)
EXTENDS LinksServiceProps, TLC

\* " React " and "react" fold to one tag, "  " to none.
MCRawNames == {" React ", "react", "ts", "  "}
MCNames == {"react", "ts"}
MCFold == [x \in MCRawNames |->
             CASE x \in {" React ", "react"} -> "react"
               [] x = "ts" -> "ts"
               [] x = "  " -> ""]

\* What the LLM answers: two spellings of one tag, or two tags.  The schema
\* asks for three to five strings, which need not differ.
OneTag == {{" React ", "react", "  "}}
OneOrTwoTags == OneTag \cup {{"react", "ts"}}

\* What a PATCH asks for: no tag at all, or one the LLM does not choose alone.
Clear == {{}}
ClearOrTs == {{}, {"ts"}}

RequestSymmetry == Permutations(Reqs)
Symmetry == RequestSymmetry \cup Permutations(Users) \cup Permutations(LinkIds)

=============================================================================
