-------------------------------- MODULE Pool --------------------------------
(***************************************************************************)
(* What the coordinator may rely on when it hands work items to            *)
(* ProcessSupervisor.execute_shards: every item gets one verdict, in the   *)
(* order of its shard, and a cancellation is not followed by any success.  *)
(* Nothing is said of processes, pipes, signals or clocks.                 *)
(***************************************************************************)
CONSTANTS Items, Earlier, Timed

VARIABLES verdict, cancelled

vars == <<verdict, cancelled>>

Verdicts == {"VALUE", "INFRA_ERROR", "CRASH", "TIMEOUT", "CANCELLED"}

Init ==
  /\ verdict = [i \in Items |-> "none"]
  /\ cancelled = FALSE

Cancel == ~cancelled /\ cancelled' = TRUE /\ UNCHANGED verdict

\* A timeout is only ever reported of an item that has a deadline; after a
\* cancellation an item is cancelled, unless its process could not be started.
Finish(i, status) ==
  /\ verdict[i] = "none"
  /\ \A j \in Earlier[i] : verdict[j] # "none"
  /\ IF cancelled THEN status \in {"CANCELLED", "INFRA_ERROR"} ELSE status # "CANCELLED"
  /\ status = "TIMEOUT" => i \in Timed
  /\ verdict' = [verdict EXCEPT ![i] = status]
  /\ UNCHANGED cancelled

Next == Cancel \/ \E i \in Items, status \in Verdicts : Finish(i, status)

Spec == Init /\ [][Next]_vars
=============================================================================
