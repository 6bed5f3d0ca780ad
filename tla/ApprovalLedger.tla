--------------------------- MODULE ApprovalLedger ---------------------------
(***************************************************************************)
(* What planet_express/core/store.py promises about approvals, whoever     *)
(* calls it and in whatever order: the life of one approval is             *)
(*                                                                         *)
(*   unborn -> pending -> approved | denied | expired                      *)
(*   unborn -> approved                       (an operator's direct order) *)
(*                                                                         *)
(* it has an execution exactly when it is approved, in the same step, that *)
(* execution ends once, and at most one approval of a target waits.        *)
(***************************************************************************)
EXTENDS Naturals

CONSTANTS
  Ids,       \* identities approvals may get
  Targets,   \* (action, target key) pairs
  NoTarget

VARIABLES
  verdict,   \* the approval's place in its life
  subject,   \* the target it was proposed for
  runs       \* its executions: the sequence number of the last one and its status

ledger == <<verdict, subject, runs>>

Verdicts == {"unborn", "pending", "approved", "denied", "expired"}
RunStates == {"none", "running", "passed", "failed", "interrupted"}

NoRun == [count |-> 0, status |-> "none"]
FirstRun == [count |-> 1, status |-> "running"]

Init ==
  /\ verdict = [i \in Ids |-> "unborn"]
  /\ subject = [i \in Ids |-> NoTarget]
  /\ runs = [i \in Ids |-> NoRun]

Born(i) ==
  /\ verdict[i] = "unborn" /\ verdict'[i] \in {"pending", "approved"}
  /\ subject'[i] \in Targets
  /\ runs'[i] = IF verdict'[i] = "approved" THEN FirstRun ELSE NoRun

Approved(i) ==
  /\ verdict[i] = "pending" /\ verdict'[i] = "approved"
  /\ runs'[i] = FirstRun
  /\ subject'[i] = subject[i]

Closed(i) ==
  /\ verdict[i] = "pending" /\ verdict'[i] \in {"denied", "expired"}
  /\ runs'[i] = runs[i]
  /\ subject'[i] = subject[i]

Ended(i) ==
  /\ runs[i].status = "running"
  /\ runs'[i].status \in {"passed", "failed", "interrupted"}
  /\ runs'[i].count = runs[i].count
  /\ verdict'[i] = verdict[i]
  /\ subject'[i] = subject[i]

Same(i) ==
  verdict'[i] = verdict[i] /\ subject'[i] = subject[i] /\ runs'[i] = runs[i]

OnePendingPerTarget ==
  \A i, j \in Ids : verdict[i] = "pending" /\ verdict[j] = "pending"
                      /\ subject[i] = subject[j] => i = j

(* One transaction may expire several approvals and settle one more.       *)
Next ==
  /\ verdict' \in [Ids -> Verdicts]
  /\ subject' \in [Ids -> Targets \cup {NoTarget}]
  /\ runs' \in [Ids -> [count : Nat, status : RunStates]]
  /\ \A i \in Ids : Born(i) \/ Approved(i) \/ Closed(i) \/ Ended(i) \/ Same(i)
  /\ OnePendingPerTarget'

Spec == Init /\ [][Next]_ledger
=============================================================================
