------------------------------- MODULE Engine -------------------------------
(***************************************************************************)
(* planet_express/execution/engine.py: RunbookEngine.run of one execution, *)
(* its executors, and what puts the tables right afterwards:               *)
(* settle_crashed_execution when run() raises, startup_reconcile and       *)
(* interrupt_unfinished when core itself died.  The mutation lock lets     *)
(* only one execution run at a time (CommandService), so one is modelled.  *)
(*                                                                         *)
(* Every store transaction is a step of its own; between any two of them   *)
(* core may crash, the operator may ask for an abort, and a transaction    *)
(* may raise.  update.canary has a module of its own (Canary).             *)
(***************************************************************************)
EXTENDS Naturals, Sequences

CONSTANTS
  Runbooks,     \* approved plans: sequences of step kinds
  Stacks,       \* how many stacks an "all stacks" step walks over
  MaxCrashes,   \* bound: crashes of core
  MaxFaults     \* bound: store transactions that raise

(* The step types of runbook.py, by what their executors do.  "read" is    *)
(* every check.* and read.*, "write" is compose.write and compose.restore, *)
(* "stacks" is every stack.*.                                              *)
Kinds == {"read", "wait", "restart", "start", "stop", "stacks", "write", "unit", "prune"}

ASSUME RunbooksAssumption ==
  /\ Runbooks # {} /\ Runbooks \subseteq Seq(Kinds) \ {<<>>}
  /\ Stacks \in Nat \ {0}
  /\ MaxCrashes \in Nat /\ MaxFaults \in Nat

VARIABLES
  plan,       \* the approved runbook
  exec,       \* executions: status of this run
  abort,      \* executions: abort_requested_at is set
  step,       \* execution_steps: status and effect of each step
  attempt,    \* attempts: state of each step's reservation
  at,         \* where the worker thread, or core's startup, is
  n,          \* run(): the step in hand
  outcome,    \* run(): its StepOutcome so far
  local,      \* the locals of the executor and of the loops that end steps
  touched,    \* history: the steps that really changed the host
  abortAt,    \* history: the last step run() had already let through when abort was asked
  crashes, faults,
  lost        \* history: a settling procedure itself failed

tables == <<exec, abort, step, attempt>>
history == <<touched, abortAt, crashes, faults, lost>>
vars == <<plan, exec, abort, step, attempt, at, n, outcome, local, touched, abortAt,
          crashes, faults, lost>>

Positions == 1..Len(plan)
Kind == plan[n]
R0(m) == plan[m] \in {"read", "wait"}
(* Steps the attempt ledger counts: neither R0 nor limited=False.          *)
Counted(m) == ~R0(m) /\ plan[m] # "write"
Mutating == {m \in Positions : Counted(m)}

Active == {"running", "verifying"}
Terminal == {"passed", "failed", "aborted", "interrupted"}
Open == {m \in Positions : step[m].status \in {"pending", "dispatched"}}

(* Loops over steps take them in the order of the runbook.                 *)
IsFirst(m, S) == m \in S /\ \A k \in S : m <= k

NoOutcome == [status |-> "none", effect |-> "none"]
Outcome(s, e) == [status |-> s, effect |-> e]
Refusal == Outcome("failed", "not_applied")

NoLocals == [was |-> FALSE,       \* _service_start_stop: the service ran before
             done |-> 0,          \* _stack: stacks that are through
             todo |-> {},         \* steps a loop still has to end
             as |-> "skipped",    \* ... with this status
             from |-> 0,          \* _abandon: first_n
             verdict |-> "none",  \* EngineResult.status
             handling |-> FALSE]  \* _run_execution is in its except clause

Init ==
  /\ plan \in Runbooks
  /\ exec = "running"
  /\ abort = FALSE
  /\ step = [m \in Positions |-> [status |-> "none", effect |-> "none"]]
  /\ attempt = [m \in Positions |-> "none"]
  /\ at = "create"
  /\ n = 1
  /\ outcome = NoOutcome
  /\ local = NoLocals
  /\ touched = [m \in Positions |-> FALSE]
  /\ abortAt = 0
  /\ crashes = 0
  /\ faults = 0
  /\ lost = FALSE

----------------------------------------------------------------------------
(* Store operations: the tables a transaction changes.                     *)

(* finish_step and the rows it accepts; anything else raises ValueError.   *)
AllowedFrom(s, e) ==
  IF s = "failed" /\ e = "not_applied" THEN {"dispatched", "pending"}
  ELSE IF s \in {"passed", "failed"} THEN {"dispatched"} ELSE {"pending"}

FinishStep(m, s, e) ==
  /\ step[m].status \in AllowedFrom(s, e)
  /\ step' = [step EXCEPT ![m] = [status |-> s, effect |-> e]]

(* Mutant: attempts are never given back.                                  *)
ReleaseNone(S) == UNCHANGED attempt

(* release_attempts: of those, the ones still reserved.                    *)
Release(S) ==
  attempt' = [m \in Positions |->
                IF m \in S /\ attempt[m] = "reserved" THEN "released" ELSE attempt[m]]

----------------------------------------------------------------------------
(* run().                                                                  *)

CreateSteps ==
  /\ at = "create"
  /\ step' = [m \in Positions |-> [status |-> "pending", effect |-> "none"]]
  /\ at' = "reserve"
  /\ UNCHANGED <<plan, exec, abort, attempt, n, outcome, local, history>>

(* reserve_runbook_attempts: all of the runbook's attempts or, when some   *)
(* target is at its limit, none and the step to blame.                     *)
Reserve ==
  /\ at = "reserve"
  /\ \/ /\ attempt' = [m \in Positions |-> IF m \in Mutating THEN "reserved" ELSE "none"]
        /\ at' = "check"
        /\ UNCHANGED local
     \/ \E blamed \in Mutating :
          /\ local' = [local EXCEPT !.todo = {blamed}, !.as = "failed", !.verdict = "failed"]
          /\ at' = "refuse"
          /\ UNCHANGED attempt
  /\ UNCHANGED <<plan, exec, abort, step, n, outcome, history>>

Refuse ==
  /\ at = "refuse"
  /\ \E blamed \in local.todo :
       /\ FinishStep(blamed, "failed", "not_applied")
       /\ local' = [local EXCEPT !.todo = Positions \ {blamed}, !.as = "skipped",
                                 !.from = Len(plan) + 1]
  /\ at' = "abandon"
  /\ UNCHANGED <<plan, exec, abort, attempt, n, outcome, history>>

Abandon(first, s, verdict) ==
  /\ local' = [NoLocals EXCEPT !.todo = {m \in Positions : m >= first}, !.as = s,
                               !.from = first, !.verdict = verdict]
  /\ at' = "abandon"

(* Mutant: run() does not poll the abort flag.                             *)
SkipAbortCheck ==
  /\ at = "check"
  /\ at' = "execute"
  /\ UNCHANGED <<plan, tables, n, outcome, local, history>>

(* The top of the loop: an abort is honoured between steps.                *)
CheckAbort ==
  /\ at = "check"
  /\ IF abort THEN Abandon(n, "aborted", "aborted")
     ELSE at' = "execute" /\ UNCHANGED local
  /\ UNCHANGED <<plan, tables, n, outcome, history>>

(* Before anything is dispatched an executor resolves its references and   *)
(* its binding; drift since the approval refuses the step.  A read is then *)
(* over; a start or stop looks whether the service runs.                   *)
Prepare ==
  /\ at = "execute" /\ Kind # "unit"
  /\ \/ /\ Kind # "wait"
        /\ outcome' = Refusal /\ at' = "close" /\ UNCHANGED local
     \/ /\ Kind = "read"
        /\ outcome' = Outcome("passed", "not_applied") /\ at' = "close" /\ UNCHANGED local
     \/ /\ Kind # "read"
        /\ \E r \in IF Kind \in {"start", "stop"} THEN BOOLEAN ELSE {FALSE} :
             local' = [NoLocals EXCEPT !.was = r]
        /\ at' = "dispatch" /\ UNCHANGED outcome
  /\ UNCHANGED <<plan, tables, n, history>>

(* unit.action: the allowlist may refuse; otherwise the provider acts and  *)
(* reports, and only then is the step dispatched.                          *)
UnitAction ==
  /\ at = "execute" /\ Kind = "unit"
  /\ \/ outcome' = Refusal /\ at' = "close" /\ UNCHANGED touched
     \/ /\ \E o \in {Outcome("passed", "applied"), Outcome("passed", "not_applied"),
                     Outcome("failed", "not_applied"), Outcome("failed", "unknown")},
              t \in BOOLEAN :
             /\ o.effect = "applied" => t
             /\ o.effect = "not_applied" => ~t
             /\ outcome' = o
             /\ touched' = [touched EXCEPT ![n] = t]
        /\ at' = "dispatch"
  /\ UNCHANGED <<plan, tables, n, local, abortAt, crashes, faults, lost>>

(* Mutant: the dispatch does not consume.                                  *)
DispatchFree ==
  /\ at = "dispatch" /\ Counted(n)
  /\ at' = "mark"
  /\ UNCHANGED <<plan, tables, n, outcome, local, history>>

(* _Dispatch: consume the attempt, then mark the row (set_step_pre_state,  *)
(* before both, writes what only a later rollback reads).                  *)
Consume ==
  /\ at = "dispatch" /\ Counted(n)
  /\ attempt[n] = "reserved"
  /\ attempt' = [attempt EXCEPT ![n] = "consumed"]
  /\ at' = "mark"
  /\ UNCHANGED <<plan, exec, abort, step, n, outcome, local, history>>

Mark ==
  /\ at = "mark" \/ (at = "dispatch" /\ ~Counted(n))
  /\ step[n].status = "pending"
  /\ step' = [step EXCEPT ![n].status = "dispatched"]
  /\ at' = IF outcome = NoOutcome THEN "command" ELSE "record"
  /\ UNCHANGED <<plan, exec, abort, attempt, n, outcome, local, history>>

(* A step that never dispatched: a pass dispatches now, a failure changed  *)
(* nothing and gives its attempt back.                                     *)
Close ==
  /\ at = "close"
  /\ IF outcome.status = "passed"
       THEN at' = "dispatch" /\ UNCHANGED attempt
       ELSE at' = "record" /\ Release({n})
  /\ UNCHANGED <<plan, exec, abort, step, n, outcome, local, history>>

----------------------------------------------------------------------------
(* The executors, once dispatched.                                         *)

Touch(t) == touched' = [touched EXCEPT ![n] = @ \/ t]

(* service.restart, start, stop and each stack's compose command: exit     *)
(* non-zero leaves it open what happened.                                  *)
CommandFails ==
  /\ at = "command" /\ Kind \in {"restart", "start", "stop", "stacks"}
  /\ \E t \in BOOLEAN : Touch(t)
  /\ outcome' = Outcome("failed", IF local.done > 0 THEN "applied" ELSE "unknown")
  /\ at' = "record"
  /\ UNCHANGED <<plan, tables, n, local, abortAt, crashes, faults, lost>>

(* A stop that the service survives reads as "still running": unknown.     *)
CommandExits ==
  /\ at = "command" /\ Kind \in {"restart", "start", "stop", "stacks"}
  /\ \/ Touch(CASE Kind = "start" -> ~local.was [] Kind = "stop" -> local.was [] OTHER -> TRUE)
        /\ UNCHANGED outcome
     \/ Kind = "stop" /\ Touch(FALSE) /\ outcome' = Outcome("failed", "unknown")
  /\ at' = "verify"
  /\ UNCHANGED <<plan, tables, n, local, abortAt, crashes, faults, lost>>

(* Status "verifying", then the health watch.                              *)
Applied ==
  CASE Kind = "start" -> IF local.was THEN "not_applied" ELSE "applied"
    [] Kind = "stop" -> IF local.was THEN "applied" ELSE "not_applied"
    [] OTHER -> "applied"

Verify ==
  /\ at = "verify"
  /\ exec' = "verifying"
  /\ at' = "judge"
  /\ UNCHANGED <<plan, abort, step, attempt, n, outcome, local, history>>

Judge ==
  /\ at = "judge"
  /\ \/ /\ outcome # NoOutcome                        \* still running after stop
        /\ at' = "record" /\ UNCHANGED <<exec, outcome, local>>
     \/ /\ outcome = NoOutcome /\ Kind = "stop"       \* unreadable after stop
        /\ outcome' = Outcome("failed", "unknown")
        /\ at' = "record" /\ UNCHANGED <<exec, local>>
     \/ /\ outcome = NoOutcome /\ Kind # "stop"
        /\ outcome' = Outcome("failed", Applied)
        /\ at' = "record" /\ UNCHANGED <<exec, local>>
     \/ /\ outcome = NoOutcome
        /\ Kind = "stacks" => local.done + 1 = Stacks
        /\ outcome' = Outcome("passed", Applied)
        /\ at' = "record" /\ UNCHANGED <<exec, local>>
     \/ /\ outcome = NoOutcome
        /\ Kind = "stacks" /\ local.done + 1 < Stacks
        /\ local' = [local EXCEPT !.done = @ + 1]
        /\ exec' = "running"
        /\ at' = "command" /\ UNCHANGED outcome
  /\ UNCHANGED <<plan, abort, step, attempt, n, history>>

(* compose.write and compose.restore: the compare-and-swap refuses, the    *)
(* file system fails half way, or the file is replaced and noted.          *)
WriteCompose ==
  /\ at = "command" /\ Kind = "write"
  /\ \/ Touch(FALSE) /\ outcome' = Refusal /\ at' = "record"
     \/ \E t \in BOOLEAN : Touch(t) /\ outcome' = Outcome("failed", "unknown") /\ at' = "record"
     \/ Touch(TRUE) /\ at' = "note" /\ UNCHANGED outcome
  /\ UNCHANGED <<plan, tables, n, local, abortAt, crashes, faults, lost>>

NoteWritten ==
  /\ at = "note"
  /\ outcome' = Outcome("passed", "applied")
  /\ at' = "record"
  /\ UNCHANGED <<plan, tables, n, local, history>>

(* prune.safe: several commands, each may fail.                            *)
Prune ==
  /\ at = "command" /\ Kind = "prune"
  /\ \/ /\ Touch(TRUE)
        /\ outcome' \in {Outcome("passed", "applied"), Outcome("failed", "applied")}
     \/ /\ \E t \in BOOLEAN : Touch(t)
        /\ outcome' = Outcome("failed", "unknown")
  /\ at' = "record"
  /\ UNCHANGED <<plan, tables, n, local, abortAt, crashes, faults, lost>>

Wait ==
  /\ at = "command" /\ Kind = "wait"
  /\ \/ outcome' = Outcome("passed", "not_applied")
     \/ abort /\ outcome' = Outcome("aborted", "not_applied")
  /\ at' = "record"
  /\ UNCHANGED <<plan, tables, n, local, history>>

----------------------------------------------------------------------------
(* run() again: record the outcome, go on, or give up the rest.            *)

(* Mutant: a failed step does not end the run.                             *)
RecordAndGoOn ==
  /\ at = "record"
  /\ FinishStep(n, IF outcome.status = "aborted" THEN "failed" ELSE outcome.status,
                   outcome.effect)
  /\ local' = [NoLocals EXCEPT !.verdict = IF n < Len(plan) THEN "none" ELSE "passed"]
  /\ at' = IF n < Len(plan) THEN "continue" ELSE "finish"
  /\ UNCHANGED <<plan, exec, abort, attempt, n, outcome, history>>

Record ==
  /\ at = "record"
  /\ FinishStep(n, IF outcome.status = "aborted" THEN "failed" ELSE outcome.status,
                   outcome.effect)
  /\ \/ outcome.status = "aborted" /\ Abandon(n + 1, "aborted", "aborted")
     \/ outcome.status = "failed" /\ Abandon(n + 1, "skipped", "failed")
     \/ /\ outcome.status = "passed" /\ n < Len(plan)
        /\ at' = "continue" /\ local' = NoLocals
     \/ /\ outcome.status = "passed" /\ n = Len(plan)
        /\ at' = "finish" /\ local' = [NoLocals EXCEPT !.verdict = "passed"]
  /\ UNCHANGED <<plan, exec, abort, attempt, n, outcome, history>>

Continue ==
  /\ at = "continue"
  /\ exec' = "running"
  /\ n' = n + 1
  /\ outcome' = NoOutcome
  /\ at' = "check"
  /\ UNCHANGED <<plan, abort, step, attempt, local, history>>

(* _abandon: one transaction per remaining step, then their attempts.      *)
AbandonStep ==
  /\ at = "abandon"
  /\ \E m \in local.todo :
       /\ IsFirst(m, local.todo)
       /\ FinishStep(m, local.as, "none")
       /\ local' = [local EXCEPT !.todo = @ \ {m}]
  /\ UNCHANGED <<plan, exec, abort, attempt, at, n, outcome, history>>

ReleaseRest ==
  /\ at = "abandon" /\ local.todo = {}
  /\ Release({m \in Positions : m >= local.from})
  /\ at' = "finish"
  /\ UNCHANGED <<plan, exec, abort, step, n, outcome, local, history>>

(* _finish: the execution's last status.                                   *)
Finish ==
  /\ at = "finish"
  /\ exec' = local.verdict
  /\ at' = "idle"
  /\ UNCHANGED <<plan, abort, step, attempt, n, outcome, local, history>>

----------------------------------------------------------------------------
(* settle_crashed_execution: run() raised.                                 *)

(* Mutant: what was cut short is taken for undone.                         *)
NothingHappened(m) == "not_applied"

(* The effect of a dispatched step nobody saw the end of.                  *)
CutShort(m) == IF R0(m) THEN "not_applied" ELSE "unknown"

SettleRow(m) ==
  IF step[m].status = "dispatched" THEN FinishStep(m, "failed", CutShort(m))
                                   ELSE FinishStep(m, "skipped", "none")

SettleStep ==
  /\ at = "settle"
  /\ \E m \in Open : IsFirst(m, Open) /\ SettleRow(m)
  /\ UNCHANGED <<plan, exec, abort, attempt, at, n, outcome, local, history>>

SettleAttempts ==
  /\ at = "settle" /\ Open = {}
  /\ attempt' = [m \in Positions |->
                   IF attempt[m] # "reserved" THEN attempt[m]
                   ELSE IF step[m].effect = "unknown" THEN "consumed" ELSE "released"]
  /\ at' = "finish"
  /\ UNCHANGED <<plan, exec, abort, step, n, outcome, local, history>>

----------------------------------------------------------------------------
(* A store transaction raises: it changed nothing.                         *)

Fault ==
  /\ faults < MaxFaults
  /\ faults' = faults + 1

(* Inside an executor the exception becomes the step's outcome.            *)
ExecutorRaises ==
  /\ Fault
  /\ \/ at \in {"dispatch", "mark"} /\ Kind # "read"
     \/ at \in {"verify", "judge", "note"}
     \/ at = "command" /\ Kind = "wait"               \* its abort poll
  /\ outcome' = Outcome("failed", IF step[n].status = "dispatched" THEN "unknown"
                                  ELSE "not_applied")
  /\ at' = IF step[n].status = "dispatched" THEN "record" ELSE "close"
  /\ UNCHANGED <<plan, tables, n, local, touched, abortAt, crashes, lost>>

(* Anywhere else run() raises, and so may the first attempt to record its  *)
(* result; _run_execution settles what is open.                            *)
RunRaises ==
  /\ Fault
  /\ \/ at \in {"create", "reserve", "refuse", "check", "close", "record", "continue", "abandon"}
     \/ at \in {"dispatch", "mark"} /\ Kind = "read"
     \/ at = "finish" /\ ~local.handling
  /\ local' = [NoLocals EXCEPT !.verdict = "failed", !.handling = TRUE]
  /\ at' = "settle"
  /\ UNCHANGED <<plan, tables, n, outcome, touched, abortAt, crashes, lost>>

SettleRaises ==
  /\ Fault
  /\ at = "settle"
  /\ lost' = TRUE
  /\ at' = "finish"
  /\ UNCHANGED <<plan, tables, n, outcome, local, touched, abortAt, crashes>>

(* The except clause raises too: the thread is gone, its run still open.   *)
FinishRaises ==
  /\ Fault
  /\ at = "finish" /\ local.handling
  /\ at' = "gone"
  /\ UNCHANGED <<plan, tables, n, outcome, local, touched, abortAt, crashes, lost>>

----------------------------------------------------------------------------
(* Core dies, and starts again.                                            *)

Crash ==
  /\ crashes < MaxCrashes /\ at # "down"
  /\ crashes' = crashes + 1
  /\ at' = "down"
  /\ outcome' = NoOutcome
  /\ local' = NoLocals
  /\ UNCHANGED <<plan, tables, n, touched, abortAt, faults, lost>>

(* startup_reconcile: the open steps of executions still running.          *)
BeginReconcile ==
  /\ at = "down"
  /\ local' = [NoLocals EXCEPT !.todo = IF exec \in Active THEN Open ELSE {}]
  /\ at' = "reconcile"
  /\ UNCHANGED <<plan, tables, n, outcome, history>>

ReconcileStep ==
  /\ at = "reconcile"
  /\ \E m \in local.todo :
       /\ IsFirst(m, local.todo)
       /\ SettleRow(m)
       /\ local' = [local EXCEPT !.todo = @ \ {m}]
  /\ UNCHANGED <<plan, exec, abort, attempt, at, n, outcome, history>>

(* reconcile_reserved_attempts: every execution's, in one transaction.     *)
ReconcileAttempts ==
  /\ at = "reconcile" /\ local.todo = {}
  /\ attempt' = [m \in Positions |->
                   IF attempt[m] # "reserved" THEN attempt[m]
                   ELSE IF step[m].status = "dispatched" \/ step[m].effect = "unknown"
                        THEN "consumed" ELSE "released"]
  /\ at' = "interrupt"
  /\ UNCHANGED <<plan, exec, abort, step, n, outcome, local, history>>

(* reconcile_on_startup logs the exception and goes on.                    *)
ReconcileRaises ==
  /\ Fault
  /\ at = "reconcile"
  /\ lost' = TRUE
  /\ at' = "interrupt"
  /\ UNCHANGED <<plan, tables, n, outcome, local, touched, abortAt, crashes>>

(* Mutant: executions that were running stay so.                           *)
InterruptNothing ==
  /\ at = "interrupt"
  /\ at' = "idle"
  /\ UNCHANGED <<plan, tables, n, outcome, local, history>>

InterruptUnfinished ==
  /\ at = "interrupt"
  /\ exec' = IF exec \in Active THEN "interrupted" ELSE exec
  /\ at' = "idle"
  /\ UNCHANGED <<plan, abort, step, attempt, n, outcome, local, history>>

(* request_abort, from a front end: a running execution only.              *)
RequestAbort ==
  /\ at \notin {"down", "reconcile", "interrupt"}
  /\ exec \in Active /\ ~abort
  /\ abort' = TRUE
  /\ abortAt' = IF at \in {"create", "reserve", "refuse"} THEN 0
                ELSE IF at = "check" THEN n - 1 ELSE n
  /\ UNCHANGED <<plan, exec, step, attempt, at, n, outcome, local, touched, crashes, faults, lost>>

(* The run is over, or its thread is gone: nothing more has to happen.     *)
Rest ==
  /\ at \in {"idle", "gone"}
  /\ UNCHANGED vars

Worker ==
  \/ CreateSteps \/ Reserve \/ Refuse \/ CheckAbort \/ Prepare \/ UnitAction \/ Consume \/ Mark
  \/ Close \/ CommandFails \/ CommandExits \/ Verify \/ Judge \/ WriteCompose \/ NoteWritten
  \/ Prune \/ Wait \/ Record \/ Continue \/ AbandonStep \/ ReleaseRest \/ Finish
  \/ SettleStep \/ SettleAttempts

Startup ==
  BeginReconcile \/ ReconcileStep \/ ReconcileAttempts \/ InterruptUnfinished

Raises ==
  ExecutorRaises \/ RunRaises \/ SettleRaises \/ FinishRaises \/ ReconcileRaises

Next == Worker \/ Startup \/ Raises \/ Crash \/ RequestAbort \/ Rest

Spec == Init /\ [][Next]_vars

(* The worker thread runs on, and core is started again after a crash.     *)
FairSpec == Spec /\ WF_vars(Worker) /\ WF_vars(Startup)

----------------------------------------------------------------------------
(* Properties.                                                             *)

Places == {"create", "reserve", "refuse", "check", "execute", "dispatch", "mark", "close",
           "command", "verify", "judge", "note", "record", "continue", "abandon", "finish",
           "settle", "gone", "idle", "down", "reconcile", "interrupt"}

Effects == {"none", "applied", "not_applied", "unknown"}

StepRow == [status : {"none", "pending", "dispatched", "passed", "failed", "skipped", "aborted"},
            effect : Effects]

OutcomeRow == [status : {"none", "passed", "failed", "aborted"}, effect : Effects]

Locals == [was : BOOLEAN, done : 0..(Stacks - 1), todo : SUBSET Positions,
           as : {"skipped", "aborted", "failed"}, from : 0..(Len(plan) + 1),
           verdict : {"none", "passed", "failed", "aborted"}, handling : BOOLEAN]

TypeOK ==
  /\ plan \in Runbooks
  /\ exec \in Active \cup Terminal
  /\ abort \in BOOLEAN
  /\ step \in [Positions -> StepRow]
  /\ attempt \in [Positions -> {"none", "reserved", "consumed", "released"}]
  /\ at \in Places
  /\ n \in Positions
  /\ outcome \in OutcomeRow
  /\ local \in Locals
  /\ touched \in [Positions -> BOOLEAN]
  /\ abortAt \in 0..Len(plan)
  /\ crashes \in 0..MaxCrashes /\ faults \in 0..MaxFaults /\ lost \in BOOLEAN

(* Every executor but unit.action dispatches before it acts; the run       *)
(* engine_unit shows what comes of the exception.                          *)
Announced(m) == plan[m] # "unit"

(* What the tables say a step did is what it did, after every crash, raise *)
(* and abort: an operator reads "not_applied" (or a step that never ran)   *)
(* as "the host is as it was", and rollback undoes what is "applied".      *)
EffectIsHonest ==
  \A m \in Positions :
    /\ step[m].effect = "applied" => touched[m]
    /\ touched[m] /\ Announced(m) =>
         /\ step[m].effect # "not_applied"
         /\ step[m].status \notin {"pending", "skipped", "aborted"}

(* The cooldown and daily cap count every mutation that reached the host:  *)
(* no order of crash, raise and release gives such an attempt back.        *)
MutationsAreCharged ==
  \A m \in Mutating : touched[m] /\ Announced(m) => attempt[m] = "consumed"

(* A run that is over has no step still open and holds no attempt, unless  *)
(* the procedure that settles them raised as well.                         *)
NothingLeftOpen ==
  exec \in Terminal /\ ~lost =>
    Open = {} /\ \A m \in Positions : attempt[m] # "reserved"

(* "The engine honours it between steps": once an abort is asked for, no   *)
(* step starts that run() had not already let through.                     *)
NothingNewAfterAbort ==
  abort => \A m \in Positions : m > abortAt => ~touched[m] /\ step[m].status # "dispatched"

(* The rows follow the order a runbook promises (StepLedger).              *)
AllPositions == UNION {1..Len(p) : p \in Runbooks}
Row(m) == IF m \in Positions THEN step[m] ELSE [status |-> "none", effect |-> "none"]
Rows == INSTANCE StepLedger
          WITH Positions <- AllPositions,
               status <- [m \in AllPositions |-> Row(m).status],
               effect <- [m \in AllPositions |-> Row(m).effect]

StepsInOrder == Rows!Spec

(* Every run comes to an end: by its own thread, or at the next start.     *)
RunEnds == exec \in Active ~> exec \in Terminal \/ at = "gone"

(* startup_reconcile: "their pending steps never ran".                     *)
PendingNeverRan == \A m \in Positions : step[m].status = "pending" => ~touched[m]

(* Runbooks for model checking: between them every step kind, at the       *)
(* front, in the middle and at the end of a run.                           *)
Mixed == {<<"restart", "read", "stacks">>, <<"write", "wait", "start">>,
          <<"wait", "stop", "prune">>, <<"read", "restart">>}
Unit == {<<"read", "unit", "restart">>, <<"unit">>}
All == Mixed \cup Unit
=============================================================================
