----------------------------- MODULE StepLedger -----------------------------
(***************************************************************************)
(* What a run of a runbook promises about its execution_steps rows: steps  *)
(* start in order, one at a time, each only when everything before it      *)
(* passed; a step that was not started never becomes one that may have     *)
(* changed something; what is recorded is never rewritten.  Engine         *)
(* implements it through crashes, failed writes and aborts.                *)
(***************************************************************************)
EXTENDS Naturals

CONSTANT Positions    \* step numbers

VARIABLES
  status,    \* status of each row
  effect     \* what the row says the step did to the host

vars == <<status, effect>>

Ended == {"passed", "failed", "skipped", "aborted"}

Init ==
  /\ status = [m \in Positions |-> "none"]
  /\ effect = [m \in Positions |-> "none"]

Create ==
  /\ \A m \in Positions : status[m] = "none"
  /\ \E S \in SUBSET Positions :
       status' = [m \in Positions |-> IF m \in S THEN "pending" ELSE "none"]
  /\ UNCHANGED effect

Start(m) ==
  /\ status[m] = "pending"
  /\ \A k \in Positions : k < m => status[k] = "passed"
  /\ \A k \in Positions : status[k] # "dispatched"
  /\ status' = [status EXCEPT ![m] = "dispatched"]
  /\ UNCHANGED effect

(* Only a started step can pass or leave something changed behind.         *)
End(m) ==
  /\ \/ /\ status[m] = "dispatched"
        /\ \E s \in {"passed", "failed"}, e \in {"applied", "not_applied", "unknown"} :
             /\ s = "passed" => e # "unknown"
             /\ status' = [status EXCEPT ![m] = s]
             /\ effect' = [effect EXCEPT ![m] = e]
     \/ /\ status[m] = "pending"
        /\ status' = [status EXCEPT ![m] = "failed"]
        /\ effect' = [effect EXCEPT ![m] = "not_applied"]
     \/ /\ status[m] = "pending"
        /\ \E s \in {"skipped", "aborted"} : status' = [status EXCEPT ![m] = s]
        /\ UNCHANGED effect

Next == Create \/ \E m \in Positions : Start(m) \/ End(m)

Spec == Init /\ [][Next]_vars
=============================================================================
