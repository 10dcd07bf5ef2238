---------------------------- MODULE LinkLifecycle ----------------------------
(***************************************************************************)
(* What the pipeline promises of a link, without requests, statements or   *)
(* tags: it is saved PENDING, every save or reprocess owes it a run, a     *)
(* run settles it as READY or FAILED, and a PENDING link is never left     *)
(* without a run that still owes it an outcome.                            *)
(***************************************************************************)

CONSTANTS LinkIds, Runs

VARIABLES
    status,    \* of each link
    runs       \* of each link, the runs that may still settle it

vars == <<status, runs>>

Live(l) == status[l] \in {"PENDING", "READY", "FAILED"}

TypeOK ==
    /\ status \in [LinkIds -> {"unborn", "PENDING", "READY", "FAILED", "deleted"}]
    /\ runs \in [LinkIds -> SUBSET Runs]

Init ==
    /\ status = [l \in LinkIds |-> "unborn"]
    /\ runs = [l \in LinkIds |-> {}]

Save(l, r) ==
    /\ status[l] = "unborn"
    /\ status' = [status EXCEPT ![l] = "PENDING"]
    /\ runs' = [runs EXCEPT ![l] = {r}]

Reprocess(l, r) ==
    /\ Live(l)
    /\ status' = [status EXCEPT ![l] = "PENDING"]
    /\ runs' = [runs EXCEPT ![l] = @ \cup {r}]

\* A run settles the link; it may do so again (its tags fail after READY).
Settle(l, r) ==
    /\ r \in runs[l]
    /\ Live(l)
    /\ \E s \in {"READY", "FAILED"} : status' = [status EXCEPT ![l] = s]
    /\ \/ runs' = [runs EXCEPT ![l] = @ \ {r}]
       \/ UNCHANGED runs

\* A run ends without a word, but not the last one of a PENDING link.
Retire(l, r) ==
    /\ r \in runs[l]
    /\ status[l] = "PENDING" => runs[l] # {r}
    /\ runs' = [runs EXCEPT ![l] = @ \ {r}]
    /\ UNCHANGED status

Delete(l) ==
    /\ Live(l)
    /\ status' = [status EXCEPT ![l] = "deleted"]
    /\ UNCHANGED runs

Next ==
    \E l \in LinkIds :
        \/ Delete(l)
        \/ \E r \in Runs :
              Save(l, r) \/ Reprocess(l, r) \/ Settle(l, r) \/ Retire(l, r)

Fairness == \A l \in LinkIds : WF_vars(\E r \in Runs : Settle(l, r))

Spec == Init /\ [][Next]_vars /\ Fairness

=============================================================================
