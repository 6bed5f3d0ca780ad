---------------------------- MODULE EngineProofs ----------------------------
(***************************************************************************)
(* The safety of the runbook engine for any set of runbooks and any number *)
(* of crashes and failing transactions.  EngineInv is the inductive        *)
(* invariant: what the rows, the attempts, the outcome in hand and the     *)
(* history are at each place of the worker and of the startup.             *)
(***************************************************************************)
EXTENDS Engine, TLAPS

Before == {"check", "execute", "dispatch", "mark", "close"}
Acting == {"command", "verify", "judge", "note"}
Running == Before \cup Acting \cup {"record", "continue"}
Starting == {"create", "reserve", "refuse"}
Over == {"abandon", "continue", "finish", "settle", "gone", "idle", "down", "reconcile",
         "interrupt"}

Status(m) == step[m].status
Effect(m) == step[m].effect

(* The rows before the step in hand passed, those after it wait.           *)
RowsFit ==
  /\ at \in Starting => n = 1
  /\ at = "create" => \A m \in Positions : Status(m) = "none"
  /\ at \in {"reserve", "refuse"} => \A m \in Positions : Status(m) = "pending"
  /\ at \in Before => Status(n) = "pending"
  /\ at \in Acting => Status(n) = "dispatched"
  /\ at = "record" => Status(n) \in {"pending", "dispatched"}
  /\ at = "continue" => Status(n) = "passed" /\ n < Len(plan)
  /\ at \in Running => \A m \in Positions : /\ m < n => Status(m) = "passed"
                                            /\ m > n => Status(m) = "pending"
  /\ \A m \in Positions : m > n => Status(m) # "dispatched"
  /\ \A m \in Positions :
       Status(m) \in {"none", "pending", "dispatched", "skipped", "aborted"} => Effect(m) = "none"

(* What run() knows of the step in hand.                                   *)
Ends(o) ==
  /\ o.status \in {"passed", "failed", "aborted"}
  /\ o.effect \in {"applied", "not_applied", "unknown"}
  /\ o.status = "passed" => o.effect # "unknown"
  /\ o.status = "aborted" => o.effect = "not_applied"

OutcomeFits ==
  /\ at \in Starting \cup {"check", "execute", "command", "note"} => outcome = NoOutcome
  /\ at \in {"dispatch", "mark"} =>
       IF Kind \in {"read", "unit"} THEN Ends(outcome) ELSE outcome = NoOutcome
  /\ at = "close" => outcome = Refusal \/ (outcome = Outcome("passed", "not_applied") /\ Kind = "read")
  /\ at \in {"verify", "judge"} =>
       /\ Kind \in {"restart", "start", "stop", "stacks"}
       /\ outcome = NoOutcome \/ (outcome = Outcome("failed", "unknown") /\ Kind = "stop")
  /\ at = "note" => Kind = "write"
  /\ at = "record" => /\ Ends(outcome)
                      /\ Status(n) = "pending" => outcome = Refusal

(* An outcome in hand is as honest as the row it becomes.                  *)
Honest(e, m) ==
  /\ e = "applied" => touched[m]
  /\ touched[m] /\ Announced(m) => e # "not_applied"

TouchFits ==
  /\ \A m \in Positions : R0(m) \/ m > n => ~touched[m]
  /\ at \in Starting \cup {"check", "execute"} => ~touched[n]
  /\ at \in {"dispatch", "mark"} /\ outcome = NoOutcome => ~touched[n] /\ local.done = 0
  /\ at = "close" => Honest("not_applied", n)
  /\ at = "command" /\ Kind # "stacks" => ~touched[n]
  /\ at \in {"command", "verify", "judge"} =>
       /\ local.done > 0 => touched[n]
       /\ Kind # "stacks" => local.done = 0
  /\ at \in {"verify", "judge"} /\ outcome = NoOutcome => (touched[n] <=> Applied = "applied")
  /\ at = "note" => touched[n]
  /\ at = "record" \/ (at \in {"dispatch", "mark"} /\ outcome # NoOutcome) =>
       Honest(outcome.effect, n)

(* Attempts are taken before a step acts, and given back only of others.   *)
AttemptsFit ==
  /\ \A m \in Positions \ Mutating : attempt[m] = "none"
  /\ at \in Starting => \A m \in Positions : attempt[m] = "none"
  /\ at \in Running => \A m \in Positions : m < n => attempt[m] # "reserved"
  /\ at = "mark" => Counted(n)
  /\ at \in Acting \cup {"mark"} /\ Counted(n) => attempt[n] = "consumed"
  /\ at \in Acting \cup {"record", "continue"} => attempt[n] # "reserved"
  /\ at = "abandon" => \A m \in Positions : m < local.from => attempt[m] # "reserved"

AllSettled == Open = {} /\ \A m \in Positions : attempt[m] # "reserved"

(* Every way out of run() leaves nothing open, unless it raised itself.    *)
EndFits ==
  /\ exec \in Terminal => at \in {"idle", "down", "reconcile", "interrupt"}
  /\ at = "refuse" => local.verdict = "failed"
  /\ at = "abandon" =>
       /\ Open = local.todo
       /\ \A m \in local.todo : Status(m) = "pending"
       /\ local.as \in {"skipped", "aborted"} /\ local.verdict # "none"
  /\ at = "settle" => local.verdict # "none"
  /\ at = "finish" => local.verdict \in Terminal /\ (~lost => AllSettled)
  /\ at = "reconcile" => local.todo \subseteq Open /\ (~lost => local.todo = Open)
  /\ at = "interrupt" /\ ~lost => AllSettled
  /\ NothingLeftOpen

(* After an abort, run() lets no further step through.                     *)
AbortFits ==
  abort =>
    /\ at \in Running \ {"check"} => n <= abortAt
    /\ at = "check" => n <= abortAt + 1

EngineInv ==
  /\ TypeOK
  /\ RowsFit
  /\ OutcomeFits
  /\ TouchFits
  /\ AttemptsFit
  /\ EndFits
  /\ AbortFits
  /\ EffectIsHonest
  /\ MutationsAreCharged
  /\ NothingNewAfterAbort

----------------------------------------------------------------------------
(* The data of the engine, one field at a time.                            *)

LEMMA Setting ==
  ASSUME TypeOK
  PROVE  /\ plan \in Seq(Kinds) /\ Len(plan) \in Nat
         /\ Positions = 1..Len(plan)
         /\ n \in Nat /\ 1 <= n /\ n <= Len(plan) /\ n \in Positions
         /\ Positions \subseteq Nat /\ abortAt \in Nat
<1>1. plan \in Runbooks /\ n \in Positions /\ abortAt \in 0..Len(plan)
  BY DEF TypeOK
<1>2. plan \in Seq(Kinds)
  BY <1>1, RunbooksAssumption
<1>3. Len(plan) \in Nat
  BY <1>2
<1>4. QED BY <1>1, <1>2, <1>3 DEF Positions

LEMMA PlanFixed ==
  ASSUME Next
  PROVE  plan' = plan
BY DEF Next, Worker, Startup, Raises, CreateSteps, Reserve, Refuse, CheckAbort, Prepare,
  UnitAction, Consume, Mark, Close, CommandFails, CommandExits, Verify, Judge, WriteCompose,
  NoteWritten, Prune, Wait, Record, Continue, AbandonStep, ReleaseRest, Finish, SettleStep,
  SettleAttempts, BeginReconcile, ReconcileStep, ReconcileAttempts, InterruptUnfinished,
  ExecutorRaises, RunRaises, SettleRaises, FinishRaises, ReconcileRaises, Crash, RequestAbort,
  Rest, vars

LEMMA PositionsFixed ==
  ASSUME Next
  PROVE  /\ Positions' = Positions /\ Mutating' = Mutating
         /\ \A m : R0(m)' = R0(m) /\ Counted(m)' = Counted(m) /\ Announced(m)' = Announced(m)
BY PlanFixed DEF Positions, Mutating, R0, Counted, Announced

LEMMA OutcomeFields ==
  /\ NoOutcome.status = "none" /\ NoOutcome.effect = "none"
  /\ \A s, e : Outcome(s, e).status = s /\ Outcome(s, e).effect = e
  /\ \A s, e : s # "none" => Outcome(s, e) # NoOutcome
  /\ Refusal.status = "failed" /\ Refusal.effect = "not_applied"
  /\ Refusal # NoOutcome /\ Refusal = Outcome("failed", "not_applied")
<1>1. NoOutcome.status = "none" /\ NoOutcome.effect = "none"
  BY DEF NoOutcome
<1>2. \A s, e : Outcome(s, e).status = s /\ Outcome(s, e).effect = e
  BY DEF Outcome
<1>3. \A s, e : s # "none" => Outcome(s, e) # NoOutcome
  BY <1>1, <1>2
<1>4. Refusal = Outcome("failed", "not_applied")
  BY DEF Refusal
<1>5. Refusal.status = "failed" /\ Refusal.effect = "not_applied" /\ Refusal # NoOutcome
  BY <1>2, <1>3, <1>4
<1>6. QED BY <1>1, <1>2, <1>3, <1>4, <1>5

LEMMA OutcomeTyped ==
  /\ NoOutcome \in OutcomeRow
  /\ \A s \in {"none", "passed", "failed", "aborted"}, e \in Effects : Outcome(s, e) \in OutcomeRow
BY DEF NoOutcome, Outcome, OutcomeRow, Effects

(* finish_step ends one row and leaves the others.                         *)
LEMMA FinishEnds ==
  ASSUME TypeOK, NEW m \in Positions, NEW s, NEW e, FinishStep(m, s, e)
  PROVE  /\ Status(m) \in AllowedFrom(s, e)
         /\ Status(m)' = s /\ Effect(m)' = e
         /\ \A k \in Positions : k # m => Status(k)' = Status(k) /\ Effect(k)' = Effect(k)
<1>1. step \in [Positions -> StepRow]
  BY DEF TypeOK
<1>2. step' = [step EXCEPT ![m] = [status |-> s, effect |-> e]]
  BY DEF FinishStep
<1>3. step'[m] = [status |-> s, effect |-> e]
  BY <1>1, <1>2
<1>4. \A k \in Positions : k # m => step'[k] = step[k]
  BY <1>1, <1>2
<1>5. Status(m)' = s /\ Effect(m)' = e
  BY <1>3 DEF Status, Effect
<1>6. \A k \in Positions : k # m => Status(k)' = Status(k) /\ Effect(k)' = Effect(k)
  BY <1>4 DEF Status, Effect
<1>7. QED BY <1>5, <1>6 DEF FinishStep, Status

(* mark_step_dispatched starts one.                                        *)
LEMMA MarkStarts ==
  ASSUME TypeOK, Mark
  PROVE  /\ Status(n) = "pending"
         /\ Status(n)' = "dispatched" /\ Effect(n)' = Effect(n)
         /\ \A k \in Positions : k # n => Status(k)' = Status(k) /\ Effect(k)' = Effect(k)
<1>0. n \in Positions /\ n' = n
  BY DEF TypeOK, Mark
<1>1. step \in [Positions -> StepRow] /\ step[n] \in StepRow
  BY <1>0 DEF TypeOK
<1>2. step' = [step EXCEPT ![n].status = "dispatched"]
  BY DEF Mark
<1>3. step'[n] = [step[n] EXCEPT !.status = "dispatched"]
  BY <1>0, <1>1, <1>2
<1>4. \A k \in Positions : k # n => step'[k] = step[k]
  BY <1>1, <1>2
<1>5. step'[n].status = "dispatched" /\ step'[n].effect = step[n].effect
  BY <1>1, <1>3 DEF StepRow
<1>6. \A k \in Positions : k # n => Status(k)' = Status(k) /\ Effect(k)' = Effect(k)
  BY <1>4 DEF Status, Effect
<1>7. QED BY <1>0, <1>5, <1>6 DEF Mark, Status, Effect

(* _Dispatch consumes one attempt, release_attempts gives some back.       *)
LEMMA ConsumeTakes ==
  ASSUME TypeOK, Consume
  PROVE  /\ attempt'[n] = "consumed"
         /\ \A k \in Positions : k # n => attempt'[k] = attempt[k]
<1>1. attempt \in [Positions -> {"none", "reserved", "consumed", "released"}] /\ n \in Positions
  BY DEF TypeOK
<1>2. attempt' = [attempt EXCEPT ![n] = "consumed"]
  BY DEF Consume
<1>3. QED BY <1>1, <1>2

LEMMA CreateBegins ==
  ASSUME CreateSteps
  PROVE  \A m \in Positions : Status(m)' = "pending" /\ Effect(m)' = "none"
BY DEF CreateSteps, Status, Effect

LEMMA RowsKept ==
  ASSUME UNCHANGED step
  PROVE  \A m : Status(m)' = Status(m) /\ Effect(m)' = Effect(m)
BY DEF Status, Effect

(* The fields of the locals.                                               *)
LEMMA LocalFields ==
  ASSUME TypeOK
  PROVE  /\ \A t, a, v : LET r == [local EXCEPT !.todo = t, !.as = a, !.verdict = v]
                         IN  r.todo = t /\ r.as = a /\ r.verdict = v /\ r.done = local.done
         /\ \A t, a, f : LET r == [local EXCEPT !.todo = t, !.as = a, !.from = f]
                         IN  r.todo = t /\ r.as = a /\ r.from = f /\ r.verdict = local.verdict
         /\ \A t : LET r == [local EXCEPT !.todo = t]
                   IN  /\ r.todo = t /\ r.as = local.as /\ r.from = local.from
                       /\ r.verdict = local.verdict /\ r.done = local.done
                       /\ r.handling = local.handling /\ r.was = local.was
         /\ \A d : LET r == [local EXCEPT !.done = d]
                   IN  r.done = d /\ r.was = local.was
         /\ local.done \in Nat /\ local.done < Stacks /\ local.todo \subseteq Positions
         /\ local.was \in BOOLEAN
<1>1. local \in Locals
  BY DEF TypeOK
<1>2. local.done \in 0..(Stacks - 1) /\ local.todo \subseteq Positions /\ local.was \in BOOLEAN
  BY <1>1 DEF Locals
<1>3. local.done \in Nat /\ local.done < Stacks
  BY <1>2, RunbooksAssumption
<1>4. /\ \A t, a, v : LET r == [local EXCEPT !.todo = t, !.as = a, !.verdict = v]
                      IN  r.todo = t /\ r.as = a /\ r.verdict = v /\ r.done = local.done
      /\ \A t, a, f : LET r == [local EXCEPT !.todo = t, !.as = a, !.from = f]
                      IN  r.todo = t /\ r.as = a /\ r.from = f /\ r.verdict = local.verdict
  BY <1>1 DEF Locals
<1>5. /\ \A t : LET r == [local EXCEPT !.todo = t]
                IN  /\ r.todo = t /\ r.as = local.as /\ r.from = local.from
                    /\ r.verdict = local.verdict /\ r.done = local.done
                    /\ r.handling = local.handling /\ r.was = local.was
      /\ \A d : LET r == [local EXCEPT !.done = d]
                IN  r.done = d /\ r.was = local.was
  BY <1>1 DEF Locals
<1>6. QED BY <1>2, <1>3, <1>4, <1>5

LEMMA NoLocalsFields ==
  /\ NoLocals.was = FALSE /\ NoLocals.done = 0 /\ NoLocals.todo = {} /\ NoLocals.as = "skipped"
  /\ NoLocals.from = 0 /\ NoLocals.verdict = "none" /\ NoLocals.handling = FALSE
  /\ \A t, a, f, v : LET r == [NoLocals EXCEPT !.todo = t, !.as = a, !.from = f, !.verdict = v]
                     IN  r.todo = t /\ r.as = a /\ r.from = f /\ r.verdict = v /\ r.done = 0
  /\ \A w : LET r == [NoLocals EXCEPT !.was = w]
            IN  r.was = w /\ r.done = 0
  /\ \A v : LET r == [NoLocals EXCEPT !.verdict = v] IN  r.verdict = v
  /\ \A v, h : LET r == [NoLocals EXCEPT !.verdict = v, !.handling = h] IN  r.verdict = v
  /\ \A t : LET r == [NoLocals EXCEPT !.todo = t] IN  r.todo = t
BY DEF NoLocals

----------------------------------------------------------------------------
(* What the steps that end a row do, besides ending it.                    *)

LEMMA RefuseDoes ==
  ASSUME TypeOK, Refuse
  PROVE  /\ at = "refuse" /\ at' = "abandon"
         /\ UNCHANGED <<exec, abort, attempt, n, outcome, touched, abortAt, crashes, faults, lost>>
         /\ \E m \in local.todo :
              /\ FinishStep(m, "failed", "not_applied")
              /\ local'.todo = Positions \ {m} /\ local'.as = "skipped"
              /\ local'.from = Len(plan) + 1 /\ local'.verdict = local.verdict
<1>1. PICK m \in local.todo :
        /\ FinishStep(m, "failed", "not_applied")
        /\ local' = [local EXCEPT !.todo = Positions \ {m}, !.as = "skipped",
                                  !.from = Len(plan) + 1]
  BY DEF Refuse
<1>2. /\ local'.todo = Positions \ {m} /\ local'.as = "skipped"
      /\ local'.from = Len(plan) + 1 /\ local'.verdict = local.verdict
  BY <1>1, LocalFields
<1>3. /\ at = "refuse" /\ at' = "abandon"
      /\ UNCHANGED <<exec, abort, attempt, n, outcome, touched, abortAt, crashes, faults, lost>>
  BY DEF Refuse, history
<1>4. QED BY <1>1, <1>2, <1>3

LEMMA RecordDoes ==
  ASSUME TypeOK, Record
  PROVE  /\ at = "record"
         /\ UNCHANGED <<exec, abort, attempt, n, outcome, touched, abortAt, crashes, faults, lost>>
         /\ Status(n) \in AllowedFrom(IF outcome.status = "aborted" THEN "failed"
                                     ELSE outcome.status, outcome.effect)
         /\ \E m \in Positions :
              /\ m = n
              /\ Status(m)' = IF outcome.status = "aborted" THEN "failed" ELSE outcome.status
              /\ Effect(m)' = outcome.effect
              /\ \A k \in Positions : k # m => Status(k)' = Status(k) /\ Effect(k)' = Effect(k)
         /\ \/ /\ outcome.status \in {"failed", "aborted"}
               /\ at' = "abandon" /\ local'.todo = {m \in Positions : m >= n + 1}
               /\ local'.as \in {"skipped", "aborted"} /\ local'.from = n + 1
               /\ local'.verdict \in {"failed", "aborted"}
            \/ /\ outcome.status = "passed" /\ n < Len(plan)
               /\ at' = "continue" /\ local' = NoLocals
            \/ /\ outcome.status = "passed" /\ n = Len(plan)
               /\ at' = "finish" /\ local'.verdict = "passed"
<1>1. /\ at = "record"
      /\ UNCHANGED <<exec, abort, attempt, n, outcome, touched, abortAt, crashes, faults, lost>>
  BY DEF Record, history
<1>2. PICK m, s, e : /\ m = n /\ e = outcome.effect
                     /\ s = IF outcome.status = "aborted" THEN "failed" ELSE outcome.status
  OBVIOUS
<1>3. m \in Positions /\ FinishStep(m, s, e)
  BY <1>2 DEF Record, TypeOK
<1>4. /\ Status(m) \in AllowedFrom(s, e)
      /\ Status(m)' = s /\ Effect(m)' = e
      /\ \A k \in Positions : k # m => Status(k)' = Status(k) /\ Effect(k)' = Effect(k)
  BY <1>3, FinishEnds
<1>5. Status(n) = Status(m)
  BY <1>2 DEF Status
<1>6. ASSUME NEW a, NEW v, Abandon(n + 1, a, v)
      PROVE  /\ at' = "abandon" /\ local'.todo = {k \in Positions : k >= n + 1}
             /\ local'.as = a /\ local'.from = n + 1 /\ local'.verdict = v
  <2>1. PICK t, f : t = {k \in Positions : k >= n + 1} /\ f = n + 1
    OBVIOUS
  <2>2. local' = [NoLocals EXCEPT !.todo = t, !.as = a, !.from = f, !.verdict = v]
    BY <1>6, <2>1 DEF Abandon
  <2>3. local'.todo = t /\ local'.as = a /\ local'.from = f /\ local'.verdict = v
    BY <2>2, NoLocalsFields
  <2>4. QED BY <1>6, <2>1, <2>3 DEF Abandon
<1>7. \/ /\ outcome.status \in {"failed", "aborted"}
         /\ at' = "abandon" /\ local'.todo = {k \in Positions : k >= n + 1}
         /\ local'.as \in {"skipped", "aborted"} /\ local'.from = n + 1
         /\ local'.verdict \in {"failed", "aborted"}
      \/ /\ outcome.status = "passed" /\ n < Len(plan)
         /\ at' = "continue" /\ local' = NoLocals
      \/ /\ outcome.status = "passed" /\ n = Len(plan)
         /\ at' = "finish" /\ local'.verdict = "passed"
  <2>1. CASE outcome.status = "aborted" /\ Abandon(n + 1, "aborted", "aborted")
    BY <1>6, <2>1
  <2>2. CASE outcome.status = "failed" /\ Abandon(n + 1, "skipped", "failed")
    BY <1>6, <2>2
  <2>3. CASE /\ outcome.status = "passed" /\ n < Len(plan)
             /\ at' = "continue" /\ local' = NoLocals
    BY <2>3
  <2>4. CASE /\ outcome.status = "passed" /\ n = Len(plan)
             /\ at' = "finish" /\ local' = [NoLocals EXCEPT !.verdict = "passed"]
    <3>1. local'.verdict = "passed"
      BY <2>4, NoLocalsFields
    <3>2. QED BY <2>4, <3>1
  <2>5. QED BY <2>1, <2>2, <2>3, <2>4 DEF Record
<1>8. QED BY <1>1, <1>2, <1>3, <1>4, <1>5, <1>7

LEMMA AbandonDoes ==
  ASSUME TypeOK, AbandonStep
  PROVE  /\ at = "abandon"
         /\ UNCHANGED <<exec, abort, attempt, at, n, outcome, touched, abortAt, crashes, faults,
                        lost>>
         /\ \E m \in local.todo :
              /\ FinishStep(m, local.as, "none")
              /\ local'.todo = local.todo \ {m} /\ local'.as = local.as
              /\ local'.from = local.from /\ local'.verdict = local.verdict
<1>1. PICK m \in local.todo : /\ FinishStep(m, local.as, "none")
                              /\ local' = [local EXCEPT !.todo = @ \ {m}]
  BY DEF AbandonStep
<1>2. /\ local'.todo = local.todo \ {m} /\ local'.as = local.as
      /\ local'.from = local.from /\ local'.verdict = local.verdict
  BY <1>1, LocalFields
<1>3. /\ at = "abandon"
      /\ UNCHANGED <<exec, abort, attempt, at, n, outcome, touched, abortAt, crashes, faults, lost>>
  BY DEF AbandonStep, history
<1>4. QED BY <1>1, <1>2, <1>3

(* What a settling procedure makes of one open row.                        *)
LEMMA RowSettles ==
  ASSUME TypeOK, NEW m \in Positions, SettleRow(m)
  PROVE  /\ Status(m) \in {"pending", "dispatched"}
         /\ Status(m) = "dispatched" => Status(m)' = "failed" /\ Effect(m)' = CutShort(m)
         /\ Status(m) = "pending" => Status(m)' = "skipped" /\ Effect(m)' = "none"
         /\ \A k \in Positions : k # m => Status(k)' = Status(k) /\ Effect(k)' = Effect(k)
<1>1. CASE Status(m) = "dispatched"
  <2>1. FinishStep(m, "failed", CutShort(m))
    BY <1>1 DEF SettleRow, Status
  <2>2. QED BY <1>1, <2>1, FinishEnds
<1>2. CASE Status(m) # "dispatched"
  <2>1. FinishStep(m, "skipped", "none")
    BY <1>2 DEF SettleRow, Status
  <2>2. Status(m) = "pending"
    BY <2>1, FinishEnds DEF AllowedFrom
  <2>3. QED BY <2>1, <2>2, FinishEnds
<1>3. QED BY <1>1, <1>2

LEMMA SettleDoes ==
  ASSUME TypeOK, SettleStep
  PROVE  /\ at = "settle"
         /\ UNCHANGED <<exec, abort, attempt, at, n, outcome, local, touched, abortAt, crashes,
                        faults, lost>>
         /\ \E m \in Open : SettleRow(m)
BY DEF SettleStep, history

LEMMA ReconcileDoes ==
  ASSUME TypeOK, ReconcileStep
  PROVE  /\ at = "reconcile"
         /\ UNCHANGED <<exec, abort, attempt, at, n, outcome, touched, abortAt, crashes, faults,
                        lost>>
         /\ \E m \in local.todo : SettleRow(m) /\ local'.todo = local.todo \ {m}
<1>1. PICK m \in local.todo : SettleRow(m) /\ local' = [local EXCEPT !.todo = @ \ {m}]
  BY DEF ReconcileStep
<1>2. local'.todo = local.todo \ {m}
  BY <1>1, LocalFields
<1>3. /\ at = "reconcile"
      /\ UNCHANGED <<exec, abort, attempt, at, n, outcome, touched, abortAt, crashes, faults, lost>>
  BY DEF ReconcileStep, history
<1>4. QED BY <1>1, <1>2, <1>3
(* The steps that set the locals of a loop.                                *)
LEMMA CheckDoes ==
  ASSUME TypeOK, CheckAbort
  PROVE  /\ at = "check"
         /\ UNCHANGED <<exec, abort, step, attempt, n, outcome, touched, abortAt, crashes, faults,
                        lost>>
         /\ \/ ~abort /\ at' = "execute" /\ UNCHANGED local
            \/ /\ abort /\ at' = "abandon"
               /\ local'.todo = {m \in Positions : m >= n} /\ local'.as = "aborted"
               /\ local'.from = n /\ local'.verdict = "aborted"
<1>1. /\ at = "check"
      /\ UNCHANGED <<exec, abort, step, attempt, n, outcome, touched, abortAt, crashes, faults,
                     lost>>
  BY DEF CheckAbort, tables, history
<1>2. CASE abort
  <2>1. PICK t, f : t = {m \in Positions : m >= n} /\ f = n
    OBVIOUS
  <2>2. /\ at' = "abandon"
        /\ local' = [NoLocals EXCEPT !.todo = t, !.as = "aborted", !.from = f,
                                     !.verdict = "aborted"]
    BY <1>2, <2>1 DEF CheckAbort, Abandon
  <2>3. local'.todo = t /\ local'.as = "aborted" /\ local'.from = f /\ local'.verdict = "aborted"
    BY <2>2, NoLocalsFields
  <2>4. QED BY <1>1, <1>2, <2>1, <2>2, <2>3
<1>3. CASE ~abort
  BY <1>1, <1>3 DEF CheckAbort
<1>4. QED BY <1>2, <1>3

LEMMA ReserveDoes ==
  ASSUME TypeOK, Reserve
  PROVE  /\ at = "reserve"
         /\ UNCHANGED <<exec, abort, step, n, outcome, touched, abortAt, crashes, faults, lost>>
         /\ \/ /\ attempt' = [m \in Positions |-> IF m \in Mutating THEN "reserved" ELSE "none"]
               /\ at' = "check" /\ UNCHANGED local
            \/ /\ \E m \in Mutating : local'.todo = {m}
               /\ local'.as = "failed" /\ local'.verdict = "failed"
               /\ at' = "refuse" /\ UNCHANGED attempt
<1>1. /\ at = "reserve"
      /\ UNCHANGED <<exec, abort, step, n, outcome, touched, abortAt, crashes, faults, lost>>
  BY DEF Reserve, history
<1>2. CASE /\ \E m \in Mutating :
                local' = [local EXCEPT !.todo = {m}, !.as = "failed", !.verdict = "failed"]
           /\ at' = "refuse" /\ UNCHANGED attempt
  <2>1. PICK m \in Mutating :
          local' = [local EXCEPT !.todo = {m}, !.as = "failed", !.verdict = "failed"]
    BY <1>2
  <2>2. local'.todo = {m} /\ local'.as = "failed" /\ local'.verdict = "failed"
    BY <2>1, LocalFields
  <2>3. QED BY <1>1, <1>2, <2>1, <2>2
<1>3. CASE /\ attempt' = [m \in Positions |-> IF m \in Mutating THEN "reserved" ELSE "none"]
           /\ at' = "check" /\ UNCHANGED local
  BY <1>1, <1>3
<1>4. QED BY <1>2, <1>3 DEF Reserve

LEMMA RaiseDoes ==
  ASSUME RunRaises
  PROVE  at' = "settle" /\ local'.verdict = "failed"
<1>1. at' = "settle" /\ local' = [NoLocals EXCEPT !.verdict = "failed", !.handling = TRUE]
  BY DEF RunRaises
<1>2. QED BY <1>1, NoLocalsFields

LEMMA BeginDoes ==
  ASSUME BeginReconcile
  PROVE  /\ at = "down" /\ at' = "reconcile"
         /\ UNCHANGED <<exec, abort, step, attempt, n, outcome, touched, abortAt, crashes, faults,
                        lost>>
         /\ exec \in Active => local'.todo = Open
         /\ exec \notin Active => local'.todo = {}
<1>1. PICK t : t = IF exec \in Active THEN Open ELSE {}
  OBVIOUS
<1>2. local' = [NoLocals EXCEPT !.todo = t]
  BY <1>1 DEF BeginReconcile
<1>3. local'.todo = t
  BY <1>2, NoLocalsFields
<1>4. QED BY <1>1, <1>3 DEF BeginReconcile, tables, history

(* A command adds to what the host has seen of the step in hand.           *)
LEMMA TouchDoes ==
  ASSUME TypeOK, NEW t \in BOOLEAN, Touch(t)
  PROVE  /\ touched'[n] <=> (touched[n] \/ t)
         /\ \A m \in Positions : m # n => touched'[m] = touched[m]
<1>1. touched \in [Positions -> BOOLEAN] /\ n \in Positions
  BY DEF TypeOK
<1>2. touched' = [touched EXCEPT ![n] = @ \/ t]
  BY DEF Touch
<1>3. QED BY <1>1, <1>2

(* Two properties in the terms of the proofs: the rows one by one.         *)
LEMMA HonestRows ==
  /\ EffectIsHonest <=>
       \A m \in Positions :
         /\ Effect(m) = "applied" => touched[m]
         /\ touched[m] /\ Announced(m) =>
              Effect(m) # "not_applied" /\ Status(m) \notin {"pending", "skipped", "aborted"}
  /\ EffectIsHonest' <=>
       \A m \in Positions' :
         /\ Effect(m)' = "applied" => touched'[m]
         /\ touched'[m] /\ Announced(m)' =>
              Effect(m)' # "not_applied" /\ Status(m)' \notin {"pending", "skipped", "aborted"}
BY DEF EffectIsHonest, Effect, Status

LEMMA QuietRows ==
  /\ NothingNewAfterAbort <=>
       (abort => \A m \in Positions : m > abortAt => ~touched[m] /\ Status(m) # "dispatched")
  /\ NothingNewAfterAbort' <=>
       (abort' => \A m \in Positions' : m > abortAt' => ~touched'[m] /\ Status(m)' # "dispatched")
BY DEF NothingNewAfterAbort, Status

LEMMA OpenRows ==
  /\ \A m : m \in Open <=> m \in Positions /\ Status(m) \in {"pending", "dispatched"}
  /\ \A m : m \in Open' <=> m \in Positions' /\ Status(m)' \in {"pending", "dispatched"}
  /\ NothingLeftOpen <=> (exec \in Terminal /\ ~lost => AllSettled)
  /\ NothingLeftOpen' <=> (exec' \in Terminal /\ ~lost' => AllSettled')
BY DEF Open, Status, NothingLeftOpen, AllSettled, Terminal

(* The places outside run()'s loop, and the steps that lead there.         *)
LEMMA LeavesDo ==
  ASSUME TypeOK,
         \/ Record \/ AbandonStep \/ ReleaseRest \/ Finish \/ SettleStep \/ SettleAttempts
         \/ BeginReconcile \/ ReconcileStep \/ ReconcileAttempts \/ InterruptUnfinished
         \/ RunRaises \/ SettleRaises \/ FinishRaises \/ ReconcileRaises \/ Crash
  PROVE  at' \in Over /\ (at' = "continue" => Record) /\ UNCHANGED <<n, touched>>
<1>1. ASSUME Record PROVE at' \in Over /\ UNCHANGED <<n, touched>>
  BY <1>1, RecordDoes DEF Over
<1>2. ASSUME AbandonStep \/ SettleStep \/ ReconcileStep
      PROVE  at' \in Over \ {"continue"} /\ UNCHANGED <<n, touched>>
  BY <1>2, AbandonDoes, SettleDoes, ReconcileDoes DEF Over
<1>3. ASSUME \/ ReleaseRest \/ Finish \/ SettleAttempts \/ BeginReconcile
             \/ ReconcileAttempts \/ InterruptUnfinished
             \/ RunRaises \/ SettleRaises \/ FinishRaises \/ ReconcileRaises \/ Crash
      PROVE  at' \in Over \ {"continue"} /\ UNCHANGED <<n, touched>>
  BY <1>3 DEF ReleaseRest, Finish, SettleAttempts, BeginReconcile, ReconcileAttempts,
     InterruptUnfinished, RunRaises, SettleRaises, FinishRaises, ReconcileRaises, Crash, Over,
     tables, history
<1>4. QED BY <1>1, <1>2, <1>3


----------------------------------------------------------------------------
(* The types, one variable at a time.                                      *)

(* Which steps leave a variable alone.                                     *)
LEMMA StepKept ==
  ASSUME TypeOK, Next
  PROVE  \/ UNCHANGED step
         \/ CreateSteps \/ Mark \/ Refuse \/ Record \/ AbandonStep \/ SettleStep
         \/ ReconcileStep
<1>1. ASSUME \/ Reserve \/ CheckAbort \/ Prepare \/ UnitAction \/ Consume \/ Close
             \/ CommandFails \/ CommandExits \/ Verify \/ Judge \/ WriteCompose \/ NoteWritten
             \/ Prune \/ Wait \/ Continue \/ ReleaseRest \/ Finish \/ SettleAttempts
             \/ BeginReconcile \/ ReconcileAttempts \/ InterruptUnfinished \/ ExecutorRaises \/ RunRaises \/ SettleRaises
             \/ FinishRaises \/ ReconcileRaises \/ Crash \/ RequestAbort \/ Rest
      PROVE  UNCHANGED step
  BY <1>1 DEF Reserve, CheckAbort, Prepare, UnitAction, Consume, Close, CommandFails,
    CommandExits, Verify, Judge, WriteCompose, NoteWritten, Prune, Wait, Continue,
    ReleaseRest, Finish, SettleAttempts, BeginReconcile, ReconcileAttempts,
    InterruptUnfinished, ExecutorRaises, RunRaises, SettleRaises, FinishRaises,
    ReconcileRaises, Crash, RequestAbort, Rest, history, tables, vars
<1>2. ASSUME \/ CreateSteps \/ Mark \/ Refuse \/ Record \/ AbandonStep \/ SettleStep
             \/ ReconcileStep
      PROVE  \/ UNCHANGED step
             \/ CreateSteps \/ Mark \/ Refuse \/ Record \/ AbandonStep \/ SettleStep
             \/ ReconcileStep
  BY <1>2
<1>3. QED BY <1>1, <1>2 DEF Next, Worker, Startup, Raises

LEMMA AttemptKept ==
  ASSUME TypeOK, Next
  PROVE  \/ UNCHANGED attempt
         \/ \E S : Release(S)
         \/ attempt' = [m \in Positions |-> IF m \in Mutating THEN "reserved" ELSE "none"]
         \/ attempt' = [attempt EXCEPT ![n] = "consumed"]
         \/ SettleAttempts \/ ReconcileAttempts
<1>1. ASSUME \/ CreateSteps \/ Refuse \/ CheckAbort \/ Prepare \/ UnitAction \/ Mark
             \/ CommandFails \/ CommandExits \/ Verify \/ Judge \/ WriteCompose \/ NoteWritten
             \/ Prune \/ Wait \/ Record \/ Continue \/ AbandonStep \/ Finish
             \/ SettleStep \/ BeginReconcile \/ ReconcileStep \/ InterruptUnfinished \/ ExecutorRaises \/ RunRaises
             \/ SettleRaises \/ FinishRaises \/ ReconcileRaises \/ Crash \/ RequestAbort \/ Rest
      PROVE  UNCHANGED attempt
  BY <1>1, RefuseDoes, RecordDoes, AbandonDoes, SettleDoes, ReconcileDoes DEF CreateSteps,
    CheckAbort, Prepare, UnitAction, Mark, CommandFails, CommandExits, Verify, Judge,
    WriteCompose, NoteWritten, Prune, Wait, Continue, Finish, BeginReconcile,
    InterruptUnfinished, ExecutorRaises, RunRaises, SettleRaises, FinishRaises,
    ReconcileRaises, Crash, RequestAbort, Rest, history, tables, vars
<1>2. ASSUME \/ Reserve \/ Consume \/ Close \/ ReleaseRest \/ SettleAttempts \/ ReconcileAttempts
      PROVE  \/ UNCHANGED attempt
             \/ \E S : Release(S)
             \/ attempt' = [m \in Positions |-> IF m \in Mutating THEN "reserved" ELSE "none"]
             \/ attempt' = [attempt EXCEPT ![n] = "consumed"]
             \/ SettleAttempts \/ ReconcileAttempts
  BY <1>2 DEF Reserve, Consume, Close, ReleaseRest
<1>3. QED BY <1>1, <1>2 DEF Next, Worker, Startup, Raises

LEMMA TouchKept ==
  ASSUME TypeOK, Next
  PROVE  \/ UNCHANGED touched
         \/ \E t \in BOOLEAN : touched' = [touched EXCEPT ![n] = t] \/ Touch(t)
<1>1. ASSUME \/ CreateSteps \/ Reserve \/ Refuse \/ CheckAbort \/ Prepare \/ Consume
             \/ Mark \/ Close \/ Verify \/ Judge \/ NoteWritten \/ Wait
             \/ Record \/ Continue \/ AbandonStep \/ ReleaseRest \/ Finish \/ SettleStep
             \/ SettleAttempts \/ BeginReconcile \/ ReconcileStep \/ ReconcileAttempts \/ InterruptUnfinished \/ ExecutorRaises
             \/ RunRaises \/ SettleRaises \/ FinishRaises \/ ReconcileRaises \/ Crash \/ RequestAbort
             \/ Rest
      PROVE  UNCHANGED touched
  BY <1>1, RefuseDoes, RecordDoes, AbandonDoes, SettleDoes, ReconcileDoes DEF CreateSteps,
    Reserve, CheckAbort, Prepare, Consume, Mark, Close, Verify, Judge, NoteWritten, Wait,
    Continue, ReleaseRest, Finish, SettleAttempts, BeginReconcile, ReconcileAttempts,
    InterruptUnfinished, ExecutorRaises, RunRaises, SettleRaises, FinishRaises,
    ReconcileRaises, Crash, RequestAbort, Rest, history, tables, vars
<1>2. ASSUME \/ UnitAction \/ CommandFails \/ CommandExits \/ WriteCompose \/ Prune
      PROVE  \/ UNCHANGED touched
             \/ \E t \in BOOLEAN : touched' = [touched EXCEPT ![n] = t] \/ Touch(t)
  BY <1>2, LocalFields DEF UnitAction, CommandFails, CommandExits, WriteCompose, Prune
<1>3. QED BY <1>1, <1>2 DEF Next, Worker, Startup, Raises

LEMMA OutcomeKept ==
  ASSUME TypeOK, Next
  PROVE  \/ UNCHANGED outcome
         \/ Prepare \/ UnitAction \/ CommandFails \/ CommandExits \/ Judge \/ WriteCompose
         \/ NoteWritten \/ Prune \/ Wait \/ Continue \/ ExecutorRaises \/ Crash
<1>1. ASSUME \/ CreateSteps \/ Reserve \/ Refuse \/ CheckAbort \/ Consume \/ Mark
             \/ Close \/ Verify \/ Record \/ AbandonStep \/ ReleaseRest \/ Finish
             \/ SettleStep \/ SettleAttempts \/ BeginReconcile \/ ReconcileStep \/ ReconcileAttempts \/ InterruptUnfinished
             \/ RunRaises \/ SettleRaises \/ FinishRaises \/ ReconcileRaises \/ RequestAbort \/ Rest
      PROVE  UNCHANGED outcome
  BY <1>1, RefuseDoes, RecordDoes, AbandonDoes, SettleDoes, ReconcileDoes DEF CreateSteps,
    Reserve, CheckAbort, Consume, Mark, Close, Verify, ReleaseRest, Finish, SettleAttempts,
    BeginReconcile, ReconcileAttempts, InterruptUnfinished, RunRaises, SettleRaises,
    FinishRaises, ReconcileRaises, RequestAbort, Rest, history, tables, vars
<1>2. ASSUME \/ Prepare \/ UnitAction \/ CommandFails \/ CommandExits \/ Judge \/ WriteCompose
             \/ NoteWritten \/ Prune \/ Wait \/ Continue \/ ExecutorRaises \/ Crash
      PROVE  \/ UNCHANGED outcome
             \/ Prepare \/ UnitAction \/ CommandFails \/ CommandExits \/ Judge \/ WriteCompose
             \/ NoteWritten \/ Prune \/ Wait \/ Continue \/ ExecutorRaises \/ Crash
  BY <1>2
<1>3. QED BY <1>1, <1>2 DEF Next, Worker, Startup, Raises

LEMMA LocalKept ==
  ASSUME TypeOK, Next
  PROVE  \/ UNCHANGED local
         \/ Reserve \/ Refuse \/ CheckAbort \/ Prepare \/ Judge \/ Record
         \/ AbandonStep \/ BeginReconcile \/ ReconcileStep \/ RunRaises \/ Crash
<1>1. ASSUME \/ CreateSteps \/ UnitAction \/ Consume \/ Mark \/ Close \/ CommandFails
             \/ CommandExits \/ Verify \/ WriteCompose \/ NoteWritten \/ Prune \/ Wait
             \/ Continue \/ ReleaseRest \/ Finish \/ SettleStep \/ SettleAttempts \/ ReconcileAttempts
             \/ InterruptUnfinished \/ ExecutorRaises \/ SettleRaises \/ FinishRaises \/ ReconcileRaises \/ RequestAbort
             \/ Rest
      PROVE  UNCHANGED local
  BY <1>1, SettleDoes DEF CreateSteps, UnitAction, Consume, Mark, Close, CommandFails,
    CommandExits, Verify, WriteCompose, NoteWritten, Prune, Wait, Continue, ReleaseRest,
    Finish, SettleAttempts, ReconcileAttempts, InterruptUnfinished, ExecutorRaises,
    SettleRaises, FinishRaises, ReconcileRaises, RequestAbort, Rest, history, tables, vars
<1>2. ASSUME \/ Reserve \/ Refuse \/ CheckAbort \/ Prepare \/ Judge \/ Record
             \/ AbandonStep \/ BeginReconcile \/ ReconcileStep \/ RunRaises \/ Crash
      PROVE  \/ UNCHANGED local
             \/ Reserve \/ Refuse \/ CheckAbort \/ Prepare \/ Judge \/ Record
             \/ AbandonStep \/ BeginReconcile \/ ReconcileStep \/ RunRaises \/ Crash
  BY <1>2
<1>3. QED BY <1>1, <1>2 DEF Next, Worker, Startup, Raises

LEMMA FinishTyped ==
  ASSUME TypeOK, NEW m \in Positions,
         NEW s \in {"passed", "failed", "skipped", "aborted"}, NEW e \in Effects,
         FinishStep(m, s, e)
  PROVE  step' \in [Positions -> StepRow]
<1>1. step \in [Positions -> StepRow]
  BY DEF TypeOK
<1>2. step' = [step EXCEPT ![m] = [status |-> s, effect |-> e]]
  BY DEF FinishStep
<1>3. [status |-> s, effect |-> e] \in StepRow
  BY DEF StepRow
<1>4. QED BY <1>1, <1>2, <1>3

LEMMA RowsTyped ==
  ASSUME TypeOK, OutcomeFits, EndFits, Next
  PROVE  step' \in [Positions -> StepRow]
<1>. step \in [Positions -> StepRow] /\ n \in Positions
  BY DEF TypeOK
<1>1. ASSUME CreateSteps PROVE step' \in [Positions -> StepRow]
  <2>1. [status |-> "pending", effect |-> "none"] \in StepRow
    BY DEF StepRow, Effects
  <2>2. QED BY <1>1, <2>1 DEF CreateSteps
<1>2. ASSUME Mark PROVE step' \in [Positions -> StepRow]
  <2>1. step[n] \in StepRow /\ step' = [step EXCEPT ![n].status = "dispatched"]
    BY <1>2 DEF Mark
  <2>2. [step[n] EXCEPT !.status = "dispatched"] \in StepRow
    BY <2>1 DEF StepRow
  <2>3. QED BY <2>1, <2>2
<1>3. ASSUME Refuse \/ AbandonStep PROVE step' \in [Positions -> StepRow]
  <2>1. PICK m, s, e :
          /\ m \in local.todo /\ FinishStep(m, s, e) /\ e \in {"not_applied", "none"}
          /\ (s = "failed" \/ (AbandonStep /\ s = local.as))
    BY <1>3, RefuseDoes, AbandonDoes
  <2>2. AbandonStep => local.as \in {"skipped", "aborted"}
    BY AbandonDoes DEF EndFits
  <2>3. m \in Positions /\ s \in {"failed", "skipped", "aborted"} /\ e \in Effects
    BY <2>1, <2>2, LocalFields DEF Effects
  <2>4. QED BY <2>1, <2>3, FinishTyped
<1>4. ASSUME Record PROVE step' \in [Positions -> StepRow]
  <2>1. PICK s, e : /\ FinishStep(n, s, e) /\ e = outcome.effect
                    /\ s = IF outcome.status = "aborted" THEN "failed" ELSE outcome.status
    BY <1>4 DEF Record
  <2>2. s \in {"passed", "failed"} /\ e \in Effects
    BY <1>4, <2>1 DEF Record, OutcomeFits, Ends, Effects
  <2>3. PICK m \in Positions : m = n
    OBVIOUS
  <2>4. FinishStep(m, s, e)
    BY <2>1, <2>3
  <2>5. QED BY <2>2, <2>4, FinishTyped
<1>5. ASSUME SettleStep \/ ReconcileStep PROVE step' \in [Positions -> StepRow]
  <2>1. PICK m \in Positions : SettleRow(m)
    BY <1>5, SettleDoes, ReconcileDoes, LocalFields DEF Open
  <2>2. PICK s \in {"failed", "skipped"}, e \in Effects : FinishStep(m, s, e)
    BY <2>1 DEF SettleRow, CutShort, Effects
  <2>3. QED BY <2>2, FinishTyped
<1>6. ASSUME UNCHANGED step PROVE step' \in [Positions -> StepRow]
  BY <1>6
<1>7. QED BY <1>1, <1>2, <1>3, <1>4, <1>5, <1>6, StepKept

LEMMA AttemptsTyped ==
  ASSUME TypeOK, Next
  PROVE  attempt' \in [Positions -> {"none", "reserved", "consumed", "released"}]
<1>. attempt \in [Positions -> {"none", "reserved", "consumed", "released"}] /\ n \in Positions
  BY DEF TypeOK
<1>1. ASSUME UNCHANGED attempt
      PROVE  attempt' \in [Positions -> {"none", "reserved", "consumed", "released"}]
  BY <1>1
<1>2. ASSUME \/ \E S : Release(S)
             \/ attempt' = [m \in Positions |-> IF m \in Mutating THEN "reserved" ELSE "none"]
             \/ attempt' = [attempt EXCEPT ![n] = "consumed"]
             \/ SettleAttempts \/ ReconcileAttempts
      PROVE  attempt' \in [Positions -> {"none", "reserved", "consumed", "released"}]
  BY <1>2 DEF Release, SettleAttempts, ReconcileAttempts
<1>3. QED BY <1>1, <1>2, AttemptKept

LEMMA TouchedTyped ==
  ASSUME TypeOK, Next
  PROVE  touched' \in [Positions -> BOOLEAN]
<1>. touched \in [Positions -> BOOLEAN] /\ n \in Positions
  BY DEF TypeOK
<1>1. ASSUME UNCHANGED touched PROVE touched' \in [Positions -> BOOLEAN]
  BY <1>1
<1>2. ASSUME NEW t \in BOOLEAN, touched' = [touched EXCEPT ![n] = t] \/ Touch(t)
      PROVE  touched' \in [Positions -> BOOLEAN]
  BY <1>2 DEF Touch
<1>3. QED BY <1>1, <1>2, TouchKept

LEMMA OutcomesTyped ==
  ASSUME TypeOK, Next
  PROVE  outcome' \in OutcomeRow
<1>. outcome \in OutcomeRow
  BY DEF TypeOK
<1>1. ASSUME UNCHANGED outcome PROVE outcome' \in OutcomeRow
  BY <1>1
<1>2. ASSUME \/ outcome' = NoOutcome
             \/ \E s \in {"passed", "failed", "aborted"}, e \in Effects : outcome' = Outcome(s, e)
      PROVE  outcome' \in OutcomeRow
  BY <1>2, OutcomeTyped
<1>3. Applied \in Effects
  BY DEF Applied, Effects
<1>4. ASSUME \/ Prepare \/ UnitAction \/ CommandFails \/ CommandExits \/ Judge \/ WriteCompose
             \/ NoteWritten \/ Prune \/ Wait \/ ExecutorRaises \/ Continue \/ Crash
      PROVE  outcome' \in OutcomeRow
  <2>1. \/ outcome' = outcome \/ outcome' = NoOutcome
        \/ \E s \in {"passed", "failed", "aborted"}, e \in Effects : outcome' = Outcome(s, e)
    BY <1>3, <1>4 DEF Prepare, UnitAction, CommandFails, CommandExits, Judge, WriteCompose,
      NoteWritten, Prune, Wait, ExecutorRaises, Continue, Crash, Refusal, Effects
  <2>2. QED BY <1>1, <1>2, <2>1
<1>5. QED BY <1>1, <1>4, OutcomeKept

LEMMA LocalsSteps ==
  ASSUME TypeOK, NEW t \in SUBSET Positions, NEW f \in 0..(Len(plan) + 1),
         NEW a \in {"skipped", "aborted", "failed"},
         NEW v \in {"none", "passed", "failed", "aborted"},
         NEW d \in 0..(Stacks - 1), NEW w \in BOOLEAN,
         \/ local' = local \/ local' = NoLocals
         \/ local' = [NoLocals EXCEPT !.todo = t, !.as = a, !.from = f, !.verdict = v]
         \/ local' = [local EXCEPT !.todo = t, !.as = a, !.from = f]
         \/ local' = [local EXCEPT !.todo = t, !.as = a, !.verdict = v]
         \/ local' = [local EXCEPT !.todo = t]
         \/ local' = [NoLocals EXCEPT !.todo = t]
         \/ local' = [NoLocals EXCEPT !.verdict = v]
         \/ local' = [NoLocals EXCEPT !.verdict = v, !.handling = TRUE]
         \/ local' = [local EXCEPT !.done = d]
         \/ local' = [NoLocals EXCEPT !.was = w]
  PROVE  local' \in Locals
<1>1. local \in Locals /\ Len(plan) \in Nat
  BY Setting DEF TypeOK
<1>2. 0 \in 0..(Stacks - 1) /\ 0 \in 0..(Len(plan) + 1)
  BY <1>1, RunbooksAssumption
<1>3. NoLocals \in Locals
  BY <1>2 DEF NoLocals, Locals
<1>4. /\ [local EXCEPT !.todo = t, !.as = a, !.from = f] \in Locals
      /\ [local EXCEPT !.todo = t, !.as = a, !.verdict = v] \in Locals
      /\ [local EXCEPT !.todo = t] \in Locals
      /\ [local EXCEPT !.done = d] \in Locals
  BY <1>1 DEF Locals
<1>5. /\ [NoLocals EXCEPT !.todo = t, !.as = a, !.from = f, !.verdict = v] \in Locals
      /\ [NoLocals EXCEPT !.todo = t] \in Locals
      /\ [NoLocals EXCEPT !.verdict = v] \in Locals
      /\ [NoLocals EXCEPT !.verdict = v, !.handling = TRUE] \in Locals
      /\ [NoLocals EXCEPT !.was = w] \in Locals
  BY <1>3 DEF Locals
<1>6. QED BY <1>1, <1>3, <1>4, <1>5

LEMMA LocalsKept ==
  ASSUME TypeOK, Next
  PROVE  local' \in Locals'
<1>. /\ n \in Nat /\ 1 <= n /\ n <= Len(plan) /\ Len(plan) \in Nat /\ Positions = 1..Len(plan)
  BY Setting
<1>1. Locals' = Locals
  BY PlanFixed, PositionsFixed DEF Locals
<1>2. PICK t0 \in SUBSET Positions, f0 \in 0..(Len(plan) + 1), j \in 0..(Len(plan) + 1),
           d0 \in 0..(Stacks - 1) : f0 = n /\ j = n + 1
  <2>1. 0 \in 0..(Stacks - 1) /\ {} \in SUBSET Positions
    BY RunbooksAssumption
  <2>2. n \in 0..(Len(plan) + 1) /\ n + 1 \in 0..(Len(plan) + 1)
    OBVIOUS
  <2>3. QED BY <2>1, <2>2, Zenon
<1>3. PICK l \in 0..(Len(plan) + 1) : l = Len(plan) + 1
  OBVIOUS
<1>4. UNCHANGED local \/ local' = NoLocals => local' \in Locals
  BY <1>2, LocalsSteps
<1>5. ASSUME NEW t \in SUBSET Positions,
             \/ local' = [local EXCEPT !.todo = t, !.as = "failed", !.verdict = "failed"]
             \/ local' = [local EXCEPT !.todo = t, !.as = "skipped", !.from = l]
             \/ local' = [local EXCEPT !.todo = t]
             \/ local' = [NoLocals EXCEPT !.todo = t]
      PROVE  local' \in Locals
  BY <1>2, <1>5, LocalsSteps, Zenon
<1>6. ASSUME NEW k \in 0..(Len(plan) + 1), NEW a \in {"skipped", "aborted"},
             NEW v \in {"failed", "aborted"}, Abandon(k, a, v)
      PROVE  local' \in Locals
  <2>1. PICK t \in SUBSET Positions : t = {m \in Positions : m >= k}
    OBVIOUS
  <2>2. local' = [NoLocals EXCEPT !.todo = t, !.as = a, !.from = k, !.verdict = v]
    BY <1>6, <2>1 DEF Abandon
  <2>3. a \in {"skipped", "aborted", "failed"} /\ v \in {"none", "passed", "failed", "aborted"}
    OBVIOUS
  <2>4. QED BY <1>2, <2>2, <2>3, LocalsSteps, Zenon
<1>7. local.todo \subseteq Positions /\ Mutating \subseteq Positions /\ Open \subseteq Positions
  BY LocalFields DEF Mutating, Open
<1>8. ASSUME Reserve PROVE local' \in Locals
  <2>1. CASE UNCHANGED local
    BY <1>4, <2>1
  <2>2. CASE \E m \in Mutating :
               local' = [local EXCEPT !.todo = {m}, !.as = "failed", !.verdict = "failed"]
    <3>1. PICK m \in Mutating :
            local' = [local EXCEPT !.todo = {m}, !.as = "failed", !.verdict = "failed"]
      BY <2>2
    <3>2. {m} \in SUBSET Positions
      BY <1>7
    <3>3. QED BY <1>5, <3>1, <3>2, Zenon
  <2>3. QED BY <1>8, <2>1, <2>2 DEF Reserve
<1>9. ASSUME Refuse PROVE local' \in Locals
  <2>1. PICK m : local' = [local EXCEPT !.todo = Positions \ {m}, !.as = "skipped",
                                        !.from = Len(plan) + 1]
    BY <1>9 DEF Refuse
  <2>2. PICK t \in SUBSET Positions : t = Positions \ {m}
    OBVIOUS
  <2>3. local' = [local EXCEPT !.todo = t, !.as = "skipped", !.from = l]
    BY <1>3, <2>1, <2>2, Zenon
  <2>4. QED BY <1>5, <2>3, Zenon
<1>10. ASSUME BeginReconcile PROVE local' \in Locals
  <2>1. PICK t \in SUBSET Positions : t = IF exec \in Active THEN Open ELSE {}
    BY <1>7
  <2>2. local' = [NoLocals EXCEPT !.todo = t]
    BY <1>10, <2>1 DEF BeginReconcile
  <2>3. QED BY <1>5, <2>2, Zenon
<1>11. ASSUME ReconcileStep \/ AbandonStep PROVE local' \in Locals
  <2>1. PICK m \in local.todo : local' = [local EXCEPT !.todo = @ \ {m}]
    BY <1>11 DEF ReconcileStep, AbandonStep
  <2>2. PICK t \in SUBSET Positions : t = local.todo \ {m}
    BY <1>7
  <2>3. local' = [local EXCEPT !.todo = t]
    BY <2>1, <2>2
  <2>4. QED BY <1>5, <2>3, Zenon
<1>12. ASSUME CheckAbort PROVE local' \in Locals
  <2>1. UNCHANGED local \/ Abandon(f0, "aborted", "aborted")
    BY <1>2, <1>12 DEF CheckAbort
  <2>2. QED BY <1>4, <1>6, <2>1
<1>13. ASSUME Record PROVE local' \in Locals
  <2>1. \/ local' = NoLocals \/ local' = [NoLocals EXCEPT !.verdict = "passed"]
        \/ Abandon(j, "aborted", "aborted") \/ Abandon(j, "skipped", "failed")
    BY <1>2, <1>13 DEF Record
  <2>2. local' = [NoLocals EXCEPT !.verdict = "passed"] => local' \in Locals
    BY <1>2, LocalsSteps, Zenon
  <2>3. QED BY <1>4, <1>6, <2>1, <2>2
<1>14. ASSUME Prepare PROVE local' \in Locals
  <2>1. \/ UNCHANGED local
        \/ \E w \in BOOLEAN : local' = [NoLocals EXCEPT !.was = w]
    BY <1>14 DEF Prepare
  <2>2. ASSUME NEW w \in BOOLEAN, local' = [NoLocals EXCEPT !.was = w] PROVE local' \in Locals
    BY <1>2, <2>2, LocalsSteps, Zenon
  <2>3. QED BY <1>4, <2>1, <2>2
<1>15. ASSUME RunRaises \/ Crash PROVE local' \in Locals
  <2>1. \/ local' = NoLocals
        \/ local' = [NoLocals EXCEPT !.verdict = "failed", !.handling = TRUE]
    BY <1>15 DEF RunRaises, Crash
  <2>2. local' = [NoLocals EXCEPT !.verdict = "failed", !.handling = TRUE] => local' \in Locals
    BY <1>2, LocalsSteps, Zenon
  <2>3. QED BY <1>4, <2>1, <2>2
<1>16. ASSUME Judge PROVE local' \in Locals
  <2>1. CASE local.done + 1 < Stacks /\ local' = [local EXCEPT !.done = @ + 1]
    <3>1. PICK d \in 0..(Stacks - 1) : d = local.done + 1
      BY <2>1, LocalFields, RunbooksAssumption
    <3>2. local' = [local EXCEPT !.done = d]
      BY <2>1, <3>1
    <3>3. QED BY <1>2, <3>2, LocalsSteps, Zenon
  <2>2. CASE UNCHANGED local
    BY <1>4, <2>2
  <2>3. QED BY <1>16, <2>1, <2>2 DEF Judge
<1>17. QED
  BY <1>1, <1>4, <1>8, <1>9, <1>10, <1>11, <1>12, <1>13, <1>14, <1>15, <1>16, LocalKept

(* What the steps may do to the variables no step of the engine indexes.   *)
LEMMA PlainSteps ==
  ASSUME TypeOK, Next
  PROVE  /\ \/ exec' = exec \/ exec' \in Active \cup {"interrupted"}
            \/ (at = "finish" /\ exec' = local.verdict)
         /\ at' = at \/ at' \in Places
         /\ abort' = abort \/ abort' = TRUE
         /\ lost' = lost \/ lost' = TRUE
         /\ n' = n \/ (at = "continue" /\ n' = n + 1)
         /\ abortAt' \in {abortAt, 0, n - 1, n}
         /\ crashes' = crashes \/ (crashes < MaxCrashes /\ crashes' = crashes + 1)
         /\ faults' = faults \/ (faults < MaxFaults /\ faults' = faults + 1)
<1>1. exec' = exec \/ exec' \in Active \cup {"interrupted"}
      \/ (at = "finish" /\ exec' = local.verdict)
  BY DEF Next, Worker, Startup, Raises, CreateSteps, Reserve, Refuse, CheckAbort, Prepare,
    UnitAction, Consume, Mark, Close, CommandFails, CommandExits, Verify, Judge,
    WriteCompose, NoteWritten, Prune, Wait, Record, Continue, AbandonStep, ReleaseRest,
    Finish, SettleStep, SettleAttempts, BeginReconcile, ReconcileStep, ReconcileAttempts,
    InterruptUnfinished, ExecutorRaises, RunRaises, SettleRaises, FinishRaises,
    ReconcileRaises, Crash, RequestAbort, Rest, Abandon, Fault, tables, history, vars,
    Active
<1>2. at' = at \/ at' \in Places
  BY DEF Next, Worker, Startup, Raises, CreateSteps, Reserve, Refuse, CheckAbort, Prepare,
    UnitAction, Consume, Mark, Close, CommandFails, CommandExits, Verify, Judge,
    WriteCompose, NoteWritten, Prune, Wait, Record, Continue, AbandonStep, ReleaseRest,
    Finish, SettleStep, SettleAttempts, BeginReconcile, ReconcileStep, ReconcileAttempts,
    InterruptUnfinished, ExecutorRaises, RunRaises, SettleRaises, FinishRaises,
    ReconcileRaises, Crash, RequestAbort, Rest, Abandon, Fault, tables, history, vars,
    Places
<1>3. abort' = abort \/ abort' = TRUE
  BY DEF Next, Worker, Startup, Raises, CreateSteps, Reserve, Refuse, CheckAbort, Prepare,
    UnitAction, Consume, Mark, Close, CommandFails, CommandExits, Verify, Judge,
    WriteCompose, NoteWritten, Prune, Wait, Record, Continue, AbandonStep, ReleaseRest,
    Finish, SettleStep, SettleAttempts, BeginReconcile, ReconcileStep, ReconcileAttempts,
    InterruptUnfinished, ExecutorRaises, RunRaises, SettleRaises, FinishRaises,
    ReconcileRaises, Crash, RequestAbort, Rest, Abandon, Fault, tables, history, vars
<1>4. lost' = lost \/ lost' = TRUE
  BY DEF Next, Worker, Startup, Raises, CreateSteps, Reserve, Refuse, CheckAbort, Prepare,
    UnitAction, Consume, Mark, Close, CommandFails, CommandExits, Verify, Judge,
    WriteCompose, NoteWritten, Prune, Wait, Record, Continue, AbandonStep, ReleaseRest,
    Finish, SettleStep, SettleAttempts, BeginReconcile, ReconcileStep, ReconcileAttempts,
    InterruptUnfinished, ExecutorRaises, RunRaises, SettleRaises, FinishRaises,
    ReconcileRaises, Crash, RequestAbort, Rest, Abandon, Fault, tables, history, vars
<1>5. n' = n \/ (at = "continue" /\ n' = n + 1)
  BY DEF Next, Worker, Startup, Raises, CreateSteps, Reserve, Refuse, CheckAbort, Prepare,
    UnitAction, Consume, Mark, Close, CommandFails, CommandExits, Verify, Judge,
    WriteCompose, NoteWritten, Prune, Wait, Record, Continue, AbandonStep, ReleaseRest,
    Finish, SettleStep, SettleAttempts, BeginReconcile, ReconcileStep, ReconcileAttempts,
    InterruptUnfinished, ExecutorRaises, RunRaises, SettleRaises, FinishRaises,
    ReconcileRaises, Crash, RequestAbort, Rest, Abandon, Fault, tables, history, vars
<1>6. abortAt' \in {abortAt, 0, n - 1, n}
  BY DEF Next, Worker, Startup, Raises, CreateSteps, Reserve, Refuse, CheckAbort, Prepare,
    UnitAction, Consume, Mark, Close, CommandFails, CommandExits, Verify, Judge,
    WriteCompose, NoteWritten, Prune, Wait, Record, Continue, AbandonStep, ReleaseRest,
    Finish, SettleStep, SettleAttempts, BeginReconcile, ReconcileStep, ReconcileAttempts,
    InterruptUnfinished, ExecutorRaises, RunRaises, SettleRaises, FinishRaises,
    ReconcileRaises, Crash, RequestAbort, Rest, Abandon, Fault, tables, history, vars
<1>7. crashes' = crashes \/ (crashes < MaxCrashes /\ crashes' = crashes + 1)
  BY DEF Next, Worker, Startup, Raises, CreateSteps, Reserve, Refuse, CheckAbort, Prepare,
    UnitAction, Consume, Mark, Close, CommandFails, CommandExits, Verify, Judge,
    WriteCompose, NoteWritten, Prune, Wait, Record, Continue, AbandonStep, ReleaseRest,
    Finish, SettleStep, SettleAttempts, BeginReconcile, ReconcileStep, ReconcileAttempts,
    InterruptUnfinished, ExecutorRaises, RunRaises, SettleRaises, FinishRaises,
    ReconcileRaises, Crash, RequestAbort, Rest, Abandon, Fault, tables, history, vars
<1>8. faults' = faults \/ (faults < MaxFaults /\ faults' = faults + 1)
  BY DEF Next, Worker, Startup, Raises, CreateSteps, Reserve, Refuse, CheckAbort, Prepare,
    UnitAction, Consume, Mark, Close, CommandFails, CommandExits, Verify, Judge,
    WriteCompose, NoteWritten, Prune, Wait, Record, Continue, AbandonStep, ReleaseRest,
    Finish, SettleStep, SettleAttempts, BeginReconcile, ReconcileStep, ReconcileAttempts,
    InterruptUnfinished, ExecutorRaises, RunRaises, SettleRaises, FinishRaises,
    ReconcileRaises, Crash, RequestAbort, Rest, Abandon, Fault, tables, history, vars
<1>9. QED BY <1>1, <1>2, <1>3, <1>4, <1>5, <1>6, <1>7, <1>8

LEMMA PlainTyped ==
  ASSUME TypeOK, RowsFit, EndFits, Next
  PROVE  /\ exec' \in Active \cup Terminal
         /\ abort' \in BOOLEAN
         /\ at' \in Places
         /\ n' \in Positions
         /\ abortAt' \in 0..Len(plan)
         /\ crashes' \in 0..MaxCrashes /\ faults' \in 0..MaxFaults /\ lost' \in BOOLEAN
<1>1. exec' \in Active \cup Terminal
  <2>1. exec \in Active \cup Terminal
    BY DEF TypeOK
  <2>2. at = "finish" => local.verdict \in Terminal
    BY DEF EndFits
  <2>3. QED BY <2>1, <2>2, PlainSteps DEF Active, Terminal
<1>2. abort' \in BOOLEAN /\ lost' \in BOOLEAN
  BY PlainSteps DEF TypeOK
<1>3. at' \in Places
  <2>1. at \in Places
    BY DEF TypeOK
  <2>2. QED BY <2>1, PlainSteps
<1>4. n' \in Positions
  BY Setting, PlainSteps DEF RowsFit
<1>5. abortAt' \in 0..Len(plan)
  <2>1. abortAt \in 0..Len(plan)
    BY DEF TypeOK
  <2>2. QED BY <2>1, Setting, PlainSteps
<1>6. crashes' \in 0..MaxCrashes /\ faults' \in 0..MaxFaults
  <2>1. crashes \in 0..MaxCrashes /\ faults \in 0..MaxFaults
    BY DEF TypeOK
  <2>2. QED BY <2>1, PlainSteps, RunbooksAssumption
<1>7. QED BY <1>1, <1>2, <1>3, <1>4, <1>5, <1>6

LEMMA TypesKept ==
  ASSUME TypeOK, RowsFit, OutcomeFits, EndFits, Next
  PROVE  TypeOK'
<1>1. plan' = plan /\ Positions' = Positions /\ plan \in Runbooks
  BY PlanFixed, PositionsFixed DEF TypeOK
<1>2. step' \in [Positions' -> StepRow]
  BY <1>1, RowsTyped
<1>3. attempt' \in [Positions' -> {"none", "reserved", "consumed", "released"}]
  BY <1>1, AttemptsTyped
<1>4. touched' \in [Positions' -> BOOLEAN]
  BY <1>1, TouchedTyped
<1>5. outcome' \in OutcomeRow
  BY OutcomesTyped
<1>6. local' \in Locals'
  BY LocalsKept
<1>7. /\ exec' \in Active \cup Terminal
      /\ abort' \in BOOLEAN
      /\ at' \in Places
      /\ n' \in Positions'
      /\ abortAt' \in 0..Len(plan')
      /\ crashes' \in 0..MaxCrashes /\ faults' \in 0..MaxFaults /\ lost' \in BOOLEAN
  BY <1>1, PlainTyped
<1>8. QED BY <1>1, <1>2, <1>3, <1>4, <1>5, <1>6, <1>7 DEF TypeOK

----------------------------------------------------------------------------
(* The invariant, conjunct by conjunct.                                    *)

(* The rows before the step in hand passed, those after it wait.           *)
LEMMA RowsFitKept ==
  ASSUME TypeOK, RowsFit, OutcomeFits, EndFits, Next
  PROVE  RowsFit'
<1>. /\ plan' = plan /\ Positions' = Positions /\ Mutating' = Mutating
     /\ \A m : R0(m)' = R0(m) /\ Counted(m)' = Counted(m) /\ Announced(m)' = Announced(m)
  BY PlanFixed, PositionsFixed
<1>. /\ n \in Nat /\ 1 <= n /\ n <= Len(plan) /\ Len(plan) \in Nat /\ Positions = 1..Len(plan)
     /\ abortAt \in Nat /\ n \in Positions
  BY Setting
<1>1. ASSUME CreateSteps PROVE RowsFit'
  <2>1. at = "create" /\ at' = "reserve" /\ n' = n
    BY <1>1 DEF CreateSteps
  <2>2. \A m \in Positions : Status(m)' = "pending" /\ Effect(m)' = "none"
    BY <1>1, CreateBegins
  <2>3. QED BY <2>1, <2>2 DEF RowsFit, Before, Acting, Running, Starting
<1>2. ASSUME Reserve PROVE RowsFit'
  <2>1. at = "reserve" /\ at' \in {"check", "refuse"} /\ UNCHANGED <<n, step>>
    BY <1>2, ReserveDoes
  <2>2. \A m : Status(m)' = Status(m) /\ Effect(m)' = Effect(m)
    BY <2>1, RowsKept
  <2>3. n = 1 /\ \A m \in Positions : Status(m) = "pending"
    BY <2>1 DEF RowsFit, Starting
  <2>4. QED BY <2>1, <2>2, <2>3 DEF RowsFit, Before, Acting, Running, Starting
<1>3. ASSUME Refuse PROVE RowsFit'
  <2>1. at = "refuse" /\ at' = "abandon" /\ n' = n
    BY <1>3, RefuseDoes
  <2>2. PICK m \in local.todo : FinishStep(m, "failed", "not_applied")
    BY <1>3, RefuseDoes
  <2>3. m \in Positions
    BY LocalFields
  <2>4. /\ Status(m)' = "failed"
        /\ \A k \in Positions : k # m => Status(k)' = Status(k) /\ Effect(k)' = Effect(k)
    BY <2>2, <2>3, FinishEnds
  <2>5. QED BY <2>1, <2>4 DEF RowsFit, Before, Acting, Running, Starting
<1>4. ASSUME CheckAbort PROVE RowsFit'
  <2>1. at = "check" /\ at' \in {"execute", "abandon"} /\ UNCHANGED <<n, step>>
    BY <1>4, CheckDoes
  <2>2. \A m : Status(m)' = Status(m) /\ Effect(m)' = Effect(m)
    BY <2>1, RowsKept
  <2>3. QED BY <2>1, <2>2 DEF RowsFit, Before, Acting, Running, Starting
<1>5. ASSUME \/ Prepare \/ UnitAction \/ Consume \/ Close
      PROVE  RowsFit'
  <2>1. /\ at \in Before /\ at' \in {"close", "dispatch", "mark", "record"}
        /\ UNCHANGED <<n, step>>
    BY <1>5 DEF Prepare, UnitAction, Consume, Close, Before, tables
  <2>2. \A m : Status(m)' = Status(m) /\ Effect(m)' = Effect(m)
    BY <2>1, RowsKept
  <2>3. QED BY <2>1, <2>2 DEF RowsFit, Before, Acting, Running, Starting
<1>6. ASSUME Mark PROVE RowsFit'
  <2>1. /\ at \in {"dispatch", "mark"} /\ at' \in {"command", "record"} /\ n' = n
    BY <1>6 DEF Mark
  <2>2. /\ Status(n)' = "dispatched" /\ Effect(n)' = Effect(n) /\ Status(n) = "pending"
        /\ \A k \in Positions : k # n => Status(k)' = Status(k) /\ Effect(k)' = Effect(k)
    BY <1>6, MarkStarts
  <2>3. QED BY <2>1, <2>2 DEF RowsFit, Before, Acting, Running, Starting
<1>7. ASSUME \/ CommandFails \/ CommandExits \/ Verify \/ Judge \/ WriteCompose \/ NoteWritten
             \/ Prune \/ Wait
      PROVE  RowsFit'
  <2>1. at \in Acting /\ at' \in {"command", "verify", "judge", "note", "record"} /\ UNCHANGED <<n, step>>
    BY <1>7 DEF CommandFails, CommandExits, Verify, Judge, WriteCompose, NoteWritten, Prune, Wait,
      Acting, tables
  <2>2. \A m : Status(m)' = Status(m) /\ Effect(m)' = Effect(m)
    BY <2>1, RowsKept
  <2>3. QED BY <2>1, <2>2 DEF RowsFit, Before, Acting, Running, Starting
<1>8. ASSUME Record PROVE RowsFit'
  <2>1. at = "record" /\ n' = n /\ at' \in {"abandon", "continue", "finish"}
        /\ (at' = "continue" => outcome.status = "passed" /\ n < Len(plan))
    BY <1>8, RecordDoes
  <2>2. PICK m \in Positions :
          /\ m = n
          /\ Status(m)' = IF outcome.status = "aborted" THEN "failed" ELSE outcome.status
          /\ \A k \in Positions : k # m => Status(k)' = Status(k) /\ Effect(k)' = Effect(k)
    BY <1>8, RecordDoes
  <2>3. outcome.status \in {"passed", "failed", "aborted"}
    BY <2>1 DEF OutcomeFits, Ends
  <2>4. Status(m)' \in {"passed", "failed"} /\ (at' = "continue" => Status(m)' = "passed")
    BY <2>1, <2>2, <2>3
  <2>5. QED BY <2>1, <2>2, <2>4 DEF RowsFit, Before, Acting, Running, Starting
<1>9. ASSUME Continue PROVE RowsFit'
  <2>1. at = "continue" /\ at' = "check" /\ n' = n + 1 /\ UNCHANGED step
    BY <1>9 DEF Continue
  <2>2. \A m : Status(m)' = Status(m) /\ Effect(m)' = Effect(m)
    BY <2>1, RowsKept
  <2>3. PICK k : k = n + 1
    OBVIOUS
  <2>4. Status(n) = "passed" /\ n < Len(plan) /\ k \in Positions
    BY <2>1, <2>3 DEF RowsFit
  <2>5. \A m \in Positions : m < k => Status(m) = "passed"
    BY <2>1, <2>3, <2>4 DEF RowsFit, Running
  <2>6. \A m \in Positions : m >= k => Status(m) = "pending"
    BY <2>1, <2>3, <2>4 DEF RowsFit, Running
  <2>7. n' = k /\ k \in Nat /\ Status(k)' = "pending"
    BY <2>1, <2>2, <2>3, <2>4, <2>6
  <2>8. Status(n)' = "pending"
    BY <2>7 DEF Status
  <2>9. QED BY <2>1, <2>2, <2>4, <2>5, <2>6, <2>7, <2>8 DEF RowsFit, Before, Acting, Running, Starting
<1>10. ASSUME AbandonStep PROVE RowsFit'
  <2>1. at = "abandon" /\ UNCHANGED <<at, n>>
    BY <1>10, AbandonDoes
  <2>2. PICK m, s : m \in local.todo /\ FinishStep(m, s, "none") /\ s = local.as
    BY <1>10, AbandonDoes
  <2>3. m \in Positions /\ s \in {"skipped", "aborted"}
    BY <2>1, <2>2, LocalFields DEF EndFits
  <2>4. /\ Status(m)' = s /\ Effect(m)' = "none"
        /\ \A k \in Positions : k # m => Status(k)' = Status(k) /\ Effect(k)' = Effect(k)
    BY <2>2, <2>3, FinishEnds
  <2>5. QED BY <2>1, <2>3, <2>4 DEF RowsFit, Before, Acting, Running, Starting
<1>11. ASSUME \/ SettleStep \/ ReconcileStep
      PROVE  RowsFit'
  <2>1. at' = at /\ n' = n /\ at \in {"settle", "reconcile"}
    BY <1>11, SettleDoes, ReconcileDoes
  <2>2. PICK m \in Positions : SettleRow(m)
    BY <1>11, SettleDoes, ReconcileDoes, LocalFields DEF Open
  <2>3. /\ Status(m)' \in {"failed", "skipped"} /\ (Status(m)' = "skipped" => Effect(m)' = "none")
        /\ \A k \in Positions : k # m => Status(k)' = Status(k) /\ Effect(k)' = Effect(k)
    BY <2>2, RowSettles
  <2>4. QED BY <2>1, <2>3 DEF RowsFit, Before, Acting, Running, Starting
<1>12. ASSUME \/ ReleaseRest \/ Finish \/ SettleAttempts \/ BeginReconcile \/ ReconcileAttempts \/ InterruptUnfinished
             \/ RunRaises \/ SettleRaises \/ FinishRaises \/ ReconcileRaises \/ Crash
      PROVE  RowsFit'
  <2>1. at' \in Over \ {"continue"} /\ UNCHANGED <<n, step>>
    BY <1>12, LeavesDo, BeginDoes DEF Record, ReleaseRest, Finish, SettleAttempts,
      ReconcileAttempts, InterruptUnfinished, RunRaises, SettleRaises, FinishRaises,
      ReconcileRaises, Crash, tables
  <2>2. \A m : Status(m)' = Status(m) /\ Effect(m)' = Effect(m)
    BY <2>1, RowsKept
  <2>3. at' \notin Starting \cup Running
    BY <2>1 DEF Over, Before, Acting, Running, Starting
  <2>4. QED BY <2>1, <2>2, <2>3 DEF RowsFit, Before, Acting, Running, Starting
<1>13. ASSUME ExecutorRaises PROVE RowsFit'
  <2>1. /\ at \in {"command", "dispatch", "mark", "verify", "judge", "note"}
        /\ at' = IF Status(n) = "dispatched" THEN "record" ELSE "close"
        /\ UNCHANGED <<n, step>>
    BY <1>13 DEF ExecutorRaises, tables, Status
  <2>2. \A m : Status(m)' = Status(m) /\ Effect(m)' = Effect(m)
    BY <2>1, RowsKept
  <2>3. QED BY <2>1, <2>2 DEF RowsFit, Before, Acting, Running, Starting
<1>14. ASSUME \/ RequestAbort \/ Rest
      PROVE  RowsFit'
  <2>1. UNCHANGED <<at, n, step>>
    BY <1>14 DEF RequestAbort, Rest, vars
  <2>2. \A m : Status(m)' = Status(m) /\ Effect(m)' = Effect(m)
    BY <2>1, RowsKept
  <2>3. QED BY <2>1, <2>2 DEF RowsFit, Before, Acting, Running, Starting
<1>15. QED
  BY <1>1, <1>2, <1>3, <1>4, <1>5, <1>6, <1>7, <1>8, <1>9, <1>10, <1>11, <1>12,
     <1>13, <1>14 DEF Next, Worker, Startup, Raises

(* What run() knows of the step in hand, place by place.                   *)
LEMMA OutcomeFitsKept ==
  ASSUME TypeOK, OutcomeFits, RowsFit, Next
  PROVE  OutcomeFits'
<1>. /\ plan' = plan /\ Positions' = Positions /\ Mutating' = Mutating
     /\ \A m : R0(m)' = R0(m) /\ Counted(m)' = Counted(m) /\ Announced(m)' = Announced(m)
  BY PlanFixed, PositionsFixed
<1>. /\ n \in Nat /\ 1 <= n /\ n <= Len(plan) /\ Len(plan) \in Nat /\ Positions = 1..Len(plan)
     /\ abortAt \in Nat /\ n \in Positions
  BY Setting
<1>1. ASSUME \/ CreateSteps \/ Reserve \/ Refuse \/ CheckAbort
      PROVE  OutcomeFits'
  <2>1. /\ at \in Starting \cup {"check"} /\ outcome' = outcome
        /\ at' \in Starting \cup {"check", "execute", "abandon"}
    BY <1>1, ReserveDoes, RefuseDoes, CheckDoes DEF CreateSteps, Starting
  <2>2. QED BY <2>1 DEF OutcomeFits, Starting
<1>2. ASSUME Prepare PROVE OutcomeFits'
  <2>1. /\ at = "execute" /\ Kind # "unit" /\ n' = n
        /\ \/ outcome' = Refusal /\ at' = "close"
           \/ Kind = "read" /\ outcome' = Outcome("passed", "not_applied") /\ at' = "close"
           \/ Kind # "read" /\ at' = "dispatch" /\ outcome' = outcome
    BY <1>2 DEF Prepare
  <2>2. QED BY <2>1 DEF OutcomeFits, Kind, Starting
<1>3. ASSUME UnitAction PROVE OutcomeFits'
  <2>1. CASE outcome' = Refusal /\ at' = "close"
    BY <2>1 DEF OutcomeFits, Starting
  <2>2. CASE /\ outcome' \in {Outcome("passed", "applied"), Outcome("passed", "not_applied"),
                              Outcome("failed", "not_applied"), Outcome("failed", "unknown")}
             /\ at' = "dispatch"
    <3>1. Ends(outcome)'
      BY <2>2, OutcomeFields DEF Ends
    <3>2. Kind' = "unit"
      BY <1>3 DEF UnitAction, Kind
    <3>3. QED BY <2>2, <3>1, <3>2 DEF OutcomeFits, Starting
  <2>3. QED BY <1>3, <2>1, <2>2 DEF UnitAction
<1>4. ASSUME Consume PROVE OutcomeFits'
  <2>1. at = "dispatch" /\ at' = "mark" /\ UNCHANGED <<n, outcome>>
    BY <1>4 DEF Consume
  <2>2. QED BY <2>1 DEF OutcomeFits, Starting, Kind, Ends
<1>5. ASSUME Mark PROVE OutcomeFits'
  <2>1. /\ at \in {"dispatch", "mark"} /\ UNCHANGED <<n, outcome>>
        /\ at' = IF outcome = NoOutcome THEN "command" ELSE "record"
    BY <1>5 DEF Mark
  <2>2. Status(n)' = "dispatched"
    BY <1>5, MarkStarts
  <2>3. QED BY <2>1, <2>2 DEF OutcomeFits, Starting, Ends
<1>6. ASSUME Close PROVE OutcomeFits'
  <2>1. /\ at = "close" /\ UNCHANGED <<n, outcome>>
        /\ at' = IF outcome.status = "passed" THEN "dispatch" ELSE "record"
    BY <1>6 DEF Close
  <2>2. \/ outcome = Refusal /\ at' = "record"
        \/ outcome = Outcome("passed", "not_applied") /\ at' = "dispatch" /\ Kind' = "read"
    BY <2>1, OutcomeFields DEF OutcomeFits, Kind
  <2>3. Ends(outcome)'
    BY <2>1, <2>2, OutcomeFields DEF Ends
  <2>4. QED BY <2>1, <2>2, <2>3 DEF OutcomeFits, Starting
<1>7. ASSUME CommandFails PROVE OutcomeFits'
  <2>1. /\ at = "command" /\ at' = "record" /\ UNCHANGED <<n, step>>
        /\ outcome' = Outcome("failed", "applied") \/ outcome' = Outcome("failed", "unknown")
    BY <1>7 DEF CommandFails, tables
  <2>2. Ends(outcome)'
    BY <2>1, OutcomeFields DEF Ends
  <2>3. Status(n)' = "dispatched"
    BY <2>1 DEF RowsFit, Acting, Status
  <2>4. QED BY <2>1, <2>2, <2>3 DEF OutcomeFits, Starting
<1>8. ASSUME CommandExits PROVE OutcomeFits'
  <2>1. /\ at = "command" /\ at' = "verify" /\ n' = n
        /\ Kind \in {"restart", "start", "stop", "stacks"}
        /\ outcome' = outcome \/ (Kind = "stop" /\ outcome' = Outcome("failed", "unknown"))
    BY <1>8 DEF CommandExits
  <2>2. QED BY <2>1 DEF OutcomeFits, Starting, Kind
<1>9. ASSUME Verify PROVE OutcomeFits'
  <2>1. at = "verify" /\ at' = "judge" /\ UNCHANGED <<n, outcome>>
    BY <1>9 DEF Verify
  <2>2. QED BY <2>1 DEF OutcomeFits, Starting, Kind
<1>10. ASSUME Judge PROVE OutcomeFits'
  <2>1. /\ at = "judge" /\ UNCHANGED <<n, step>>
        /\ \/ at' = "record" /\ outcome # NoOutcome /\ outcome' = outcome
           \/ at' = "record" /\ outcome' = Outcome("failed", "unknown")
           \/ at' = "record" /\ outcome' = Outcome("failed", Applied)
           \/ at' = "record" /\ outcome' = Outcome("passed", Applied)
           \/ at' = "command" /\ outcome = NoOutcome /\ outcome' = outcome
    BY <1>10 DEF Judge
  <2>2. Status(n)' = "dispatched"
    BY <2>1 DEF RowsFit, Acting, Status
  <2>3. PICK e \in {"applied", "not_applied"} : e = Applied
    BY DEF Applied
  <2>4. outcome = NoOutcome \/ outcome = Outcome("failed", "unknown")
    BY <2>1 DEF OutcomeFits
  <2>5. \/ at' = "record" /\ outcome' = Outcome("failed", "unknown")
        \/ at' = "record" /\ outcome' = Outcome("failed", e)
        \/ at' = "record" /\ outcome' = Outcome("passed", e)
        \/ at' = "command" /\ outcome' = NoOutcome
    BY <2>1, <2>3, <2>4
  <2>6. (at' = "command" /\ outcome' = NoOutcome) \/ (at' = "record" /\ Ends(outcome)')
    BY <2>5, OutcomeFields DEF Ends
  <2>7. QED BY <2>2, <2>6 DEF OutcomeFits, Starting
<1>11. ASSUME WriteCompose PROVE OutcomeFits'
  <2>1. /\ at = "command" /\ Kind = "write" /\ UNCHANGED <<n, step>>
        /\ \/ outcome' = Refusal /\ at' = "record"
           \/ outcome' = Outcome("failed", "unknown") /\ at' = "record"
           \/ outcome' = outcome /\ at' = "note"
    BY <1>11 DEF WriteCompose, tables
  <2>2. Status(n)' = "dispatched"
    BY <2>1 DEF RowsFit, Acting, Status
  <2>3. (at' = "note" /\ outcome' = outcome) \/ (at' = "record" /\ Ends(outcome)')
    BY <2>1, OutcomeFields DEF Ends
  <2>4. QED BY <2>1, <2>2, <2>3 DEF OutcomeFits, Starting, Kind
<1>12. ASSUME \/ NoteWritten \/ Prune \/ Wait
      PROVE  OutcomeFits'
  <2>1. /\ at \in {"command", "note"} /\ at' = "record" /\ UNCHANGED <<n, step>>
        /\ outcome' \in {Outcome("passed", "applied"), Outcome("failed", "applied"),
                         Outcome("failed", "unknown"), Outcome("passed", "not_applied"),
                         Outcome("aborted", "not_applied")}
    BY <1>12 DEF NoteWritten, Prune, Wait, tables
  <2>2. Status(n)' = "dispatched"
    BY <2>1 DEF RowsFit, Acting, Status
  <2>3. Ends(outcome)'
    BY <2>1, OutcomeFields DEF Ends
  <2>4. QED BY <2>1, <2>2, <2>3 DEF OutcomeFits, Starting
<1>13. ASSUME Continue PROVE OutcomeFits'
  <2>1. at' = "check" /\ outcome' = NoOutcome
    BY <1>13 DEF Continue
  <2>2. QED BY <2>1 DEF OutcomeFits
<1>14. ASSUME \/ Record \/ AbandonStep \/ ReleaseRest \/ Finish \/ SettleStep \/ SettleAttempts
             \/ BeginReconcile \/ ReconcileStep \/ ReconcileAttempts \/ InterruptUnfinished \/ RunRaises \/ SettleRaises
             \/ FinishRaises \/ ReconcileRaises \/ Crash
      PROVE  OutcomeFits'
  <2>1. at' \in Over
    BY <1>14, LeavesDo
  <2>2. QED BY <2>1 DEF OutcomeFits, Over, Before, Acting, Running, Starting
<1>15. ASSUME ExecutorRaises PROVE OutcomeFits'
  <2>1. /\ UNCHANGED <<n, step>>
        /\ \/ /\ Status(n) = "dispatched" /\ at' = "record"
              /\ outcome' = Outcome("failed", "unknown")
           \/ at' = "close" /\ outcome' = Outcome("failed", "not_applied")
    BY <1>15 DEF ExecutorRaises, tables, Status
  <2>2. (at' = "record" /\ Ends(outcome)') \/ (at' = "close" /\ outcome' = Refusal)
    BY <2>1, OutcomeFields DEF Ends
  <2>3. at' = "record" => Status(n)' = "dispatched"
    BY <2>1 DEF Status
  <2>4. QED BY <2>2, <2>3 DEF OutcomeFits, Starting
<1>16. ASSUME \/ RequestAbort \/ Rest
      PROVE  OutcomeFits'
  <2>1. UNCHANGED <<at, outcome, n, step>>
    BY <1>16 DEF RequestAbort, Rest, vars
  <2>2. QED BY <2>1 DEF OutcomeFits, Kind, Status, Ends
<1>17. QED
  BY <1>1, <1>2, <1>3, <1>4, <1>5, <1>6, <1>7, <1>8, <1>9, <1>10, <1>11, <1>12,
     <1>13, <1>14, <1>15, <1>16 DEF Next, Worker, Startup, Raises

(* What the host has seen of the step in hand, place by place.             *)
LEMMA TouchFitsKept ==
  ASSUME TypeOK, TouchFits, OutcomeFits, RowsFit, Next
  PROVE 
         TouchFits'
<1>. /\ plan' = plan /\ Positions' = Positions /\ Mutating' = Mutating
     /\ \A m : R0(m)' = R0(m) /\ Counted(m)' = Counted(m) /\ Announced(m)' = Announced(m)
  BY PlanFixed, PositionsFixed
<1>. /\ n \in Nat /\ 1 <= n /\ n <= Len(plan) /\ Len(plan) \in Nat /\ Positions = 1..Len(plan)
     /\ abortAt \in Nat /\ n \in Positions
  BY Setting
<1>1. ASSUME \/ CreateSteps \/ Reserve \/ Refuse \/ CheckAbort
      PROVE  TouchFits'
  <2>1. /\ at \in Starting \cup {"check"} /\ UNCHANGED <<n, touched>>
        /\ at' \in Starting \cup {"check", "execute", "abandon"}
    BY <1>1, ReserveDoes, RefuseDoes, CheckDoes DEF CreateSteps, Starting, history
  <2>2. QED BY <2>1 DEF TouchFits, Starting
<1>2. ASSUME Prepare PROVE TouchFits'
  <2>1. at = "execute" /\ UNCHANGED <<n, touched>> /\ outcome = NoOutcome
    BY <1>2 DEF Prepare, history, OutcomeFits
  <2>2. ~touched[n]
    BY <2>1 DEF TouchFits
  <2>3. CASE at' = "close"
    BY <2>1, <2>2, <2>3 DEF TouchFits, Starting, Honest
  <2>4. CASE /\ at' = "dispatch" /\ outcome' = outcome
             /\ \E r : local' = [NoLocals EXCEPT !.was = r]
    <3>1. local'.done = 0
      BY <2>4, NoLocalsFields
    <3>2. QED BY <2>1, <2>2, <2>4, <3>1 DEF TouchFits, Starting
  <2>5. QED BY <1>2, <2>3, <2>4 DEF Prepare
<1>3. ASSUME UnitAction PROVE TouchFits'
  <2>1. at = "execute" /\ n' = n /\ plan[n] = "unit"
    BY <1>3 DEF UnitAction, Kind
  <2>2. touched \in [Positions -> BOOLEAN] /\ ~touched[n] /\ ~R0(n)
    BY <2>1 DEF TypeOK, TouchFits, R0
  <2>3. CASE at' = "close" /\ UNCHANGED touched
    BY <2>1, <2>2, <2>3 DEF TouchFits, Starting, Honest
  <2>4. CASE /\ at' = "dispatch"
             /\ \E o \in {Outcome("passed", "applied"), Outcome("passed", "not_applied"),
                          Outcome("failed", "not_applied"), Outcome("failed", "unknown")},
                   t \in BOOLEAN :
                  /\ o.effect = "applied" => t
                  /\ o.effect = "not_applied" => ~t
                  /\ outcome' = o
                  /\ touched' = [touched EXCEPT ![n] = t]
    <3>1. PICK o \in {Outcome("passed", "applied"), Outcome("passed", "not_applied"),
                      Outcome("failed", "not_applied"), Outcome("failed", "unknown")},
               t \in BOOLEAN :
            /\ o.effect = "applied" => t
            /\ o.effect = "not_applied" => ~t
            /\ outcome' = o
            /\ touched' = [touched EXCEPT ![n] = t]
      BY <2>4
    <3>2. touched'[n] = t /\ \A m \in Positions : m # n => touched'[m] = touched[m]
      BY <2>2, <3>1
    <3>3. Honest(outcome.effect, n)'
      BY <2>1, <3>1, <3>2 DEF Honest
    <3>4. \A m \in Positions : R0(m) \/ m > n => ~touched'[m]
      BY <2>2, <3>2 DEF TouchFits
    <3>5. outcome' # NoOutcome
      BY <2>4, OutcomeFields
    <3>6. QED BY <2>1, <2>4, <3>3, <3>4, <3>5 DEF TouchFits, Starting
  <2>5. QED BY <1>3, <2>3, <2>4 DEF UnitAction
<1>4. ASSUME Consume PROVE TouchFits'
  <2>1. at = "dispatch" /\ at' = "mark" /\ UNCHANGED <<n, outcome, local, touched>>
    BY <1>4 DEF Consume, history
  <2>2. QED BY <2>1 DEF TouchFits, Starting, Honest
<1>5. ASSUME Mark PROVE TouchFits'
  <2>1. /\ at \in {"dispatch", "mark"} /\ UNCHANGED <<n, outcome, local, touched>>
        /\ at' = IF outcome = NoOutcome THEN "command" ELSE "record"
    BY <1>5 DEF Mark, history
  <2>2. QED BY <2>1 DEF TouchFits, Starting, Honest
<1>6. ASSUME Close PROVE TouchFits'
  <2>1. /\ at = "close" /\ UNCHANGED <<n, outcome, touched>>
        /\ at' \in {"dispatch", "record"}
    BY <1>6 DEF Close, history
  <2>2. outcome.effect = "not_applied" /\ outcome # NoOutcome
    BY <2>1, OutcomeFields DEF OutcomeFits
  <2>3. QED BY <2>1, <2>2 DEF TouchFits, Starting, Honest
<1>7. ASSUME CommandFails PROVE TouchFits'
  <2>1. /\ at = "command" /\ at' = "record" /\ n' = n /\ ~R0(n)
        /\ \E t \in BOOLEAN : Touch(t)
        /\ \/ outcome' = Outcome("failed", "applied") /\ local.done > 0
           \/ outcome' = Outcome("failed", "unknown")
    BY <1>7 DEF CommandFails, Kind, R0
  <2>2. /\ touched[n] => touched'[n]
        /\ \A m \in Positions : m # n => touched'[m] = touched[m]
    BY <2>1, TouchDoes
  <2>3. \/ outcome'.effect = "applied" /\ touched'[n]
        \/ outcome'.effect = "unknown"
    BY <2>1, <2>2, OutcomeFields DEF TouchFits
  <2>4. Honest(outcome.effect, n)'
    BY <2>1, <2>3 DEF Honest
  <2>5. \A m \in Positions : R0(m) \/ m > n => ~touched'[m]
    BY <2>1, <2>2 DEF TouchFits
  <2>6. QED BY <2>1, <2>4, <2>5 DEF TouchFits, Starting
<1>8. ASSUME CommandExits PROVE TouchFits'
  <2>1. /\ at = "command" /\ at' = "verify" /\ UNCHANGED <<n, local>> /\ ~R0(n)
        /\ Kind' = Kind /\ Applied' = Applied
    BY <1>8 DEF CommandExits, Kind, R0, Applied
  <2>2. \E t \in BOOLEAN : Touch(t) /\ (outcome' = NoOutcome => (t <=> Applied = "applied"))
    <3>1. CASE Kind = "stop" /\ Touch(FALSE) /\ outcome' = Outcome("failed", "unknown")
      BY <3>1, OutcomeFields
    <3>2. CASE Touch(CASE Kind = "start" -> ~local.was [] Kind = "stop" -> local.was
                       [] OTHER -> TRUE)
      <4>1. PICK t \in BOOLEAN : t = CASE Kind = "start" -> ~local.was [] Kind = "stop" -> local.was
                                       [] OTHER -> TRUE
        BY LocalFields
      <4>2. t <=> Applied = "applied"
        BY <4>1 DEF Applied
      <4>3. QED BY <3>2, <4>1, <4>2
    <3>3. QED BY <1>8, <3>1, <3>2 DEF CommandExits
  <2>3. PICK t \in BOOLEAN : Touch(t) /\ (outcome' = NoOutcome => (t <=> Applied = "applied"))
    BY <2>2
  <2>4. /\ touched'[n] <=> (touched[n] \/ t)
        /\ \A m \in Positions : m # n => touched'[m] = touched[m]
    BY <2>3, TouchDoes
  <2>5. \A m \in Positions : R0(m) \/ m > n => ~touched'[m]
    BY <2>1, <2>4 DEF TouchFits
  <2>6. outcome' = NoOutcome => (touched'[n] <=> Applied = "applied")
    <3>1. CASE Kind = "stacks"
      <4>1. Applied = "applied"
        BY <3>1 DEF Applied
      <4>2. QED BY <2>3, <2>4, <4>1
    <3>2. CASE Kind # "stacks"
      <4>1. ~touched[n]
        BY <2>1, <3>2 DEF TouchFits
      <4>2. QED BY <2>3, <2>4, <4>1
    <3>3. QED BY <3>1, <3>2
  <2>7. /\ local.done > 0 => touched'[n]
        /\ Kind # "stacks" => local.done = 0
    BY <2>1, <2>4 DEF TouchFits
  <2>8. QED BY <2>1, <2>5, <2>6, <2>7 DEF TouchFits, Starting
<1>9. ASSUME Verify PROVE TouchFits'
  <2>1. at = "verify" /\ at' = "judge" /\ UNCHANGED <<n, outcome, local, touched>>
    BY <1>9 DEF Verify, history
  <2>2. Kind' = Kind /\ Applied' = Applied
    BY <2>1 DEF Kind, Applied
  <2>3. QED BY <2>1, <2>2 DEF TouchFits, Starting
<1>10. ASSUME Judge PROVE TouchFits'
  <2>1. /\ at = "judge" /\ UNCHANGED <<n, touched>>
        /\ Kind' = Kind
    BY <1>10 DEF Judge, history, Kind
  <2>2. CASE /\ at' = "record"
             /\ \/ outcome # NoOutcome /\ outcome' = outcome
                \/ outcome' = Outcome("failed", "unknown")
    <3>1. outcome'.effect = "unknown"
      BY <2>1, <2>2, OutcomeFields DEF OutcomeFits
    <3>2. QED BY <2>1, <2>2, <3>1 DEF TouchFits, Starting, Honest
  <2>3. CASE /\ at' = "record" /\ outcome = NoOutcome
             /\ \/ outcome' = Outcome("failed", Applied)
                \/ outcome' = Outcome("passed", Applied)
    <3>1. PICK e \in {"applied", "not_applied"} : e = Applied
      BY DEF Applied
    <3>2. outcome'.effect = e
      BY <2>3, <3>1, OutcomeFields
    <3>3. touched[n] <=> e = "applied"
      BY <2>1, <2>3, <3>1 DEF TouchFits
    <3>4. Honest(outcome.effect, n)'
      BY <2>1, <3>1, <3>2, <3>3 DEF Honest
    <3>5. QED BY <2>1, <2>3, <3>4 DEF TouchFits, Starting
  <2>4. CASE /\ at' = "command" /\ outcome = NoOutcome /\ Kind = "stacks"
    <3>1. Applied = "applied"
      BY <2>4 DEF Applied
    <3>2. touched[n]
      BY <2>1, <2>4, <3>1 DEF TouchFits
    <3>3. QED BY <2>1, <2>4, <3>2 DEF TouchFits, Starting
  <2>5. QED BY <1>10, <2>2, <2>3, <2>4 DEF Judge
<1>11. ASSUME WriteCompose PROVE TouchFits'
  <2>1. at = "command" /\ n' = n /\ ~R0(n) /\ ~touched[n]
    BY <1>11 DEF WriteCompose, Kind, R0, TouchFits
  <2>2. PICK t \in BOOLEAN :
          /\ Touch(t)
          /\ \/ ~t /\ outcome' = Refusal /\ at' = "record"
             \/ outcome' = Outcome("failed", "unknown") /\ at' = "record"
             \/ t /\ at' = "note"
    BY <1>11 DEF WriteCompose
  <2>3. /\ touched'[n] <=> (touched[n] \/ t)
        /\ \A m \in Positions : m # n => touched'[m] = touched[m]
    BY <2>2, TouchDoes
  <2>4. \A m \in Positions : R0(m) \/ m > n => ~touched'[m]
    BY <2>1, <2>3 DEF TouchFits
  <2>5. at' = "record" => Honest(outcome.effect, n)'
    BY <2>1, <2>2, <2>3, OutcomeFields DEF Honest
  <2>6. QED BY <2>1, <2>2, <2>3, <2>4, <2>5 DEF TouchFits, Starting
<1>12. ASSUME NoteWritten PROVE TouchFits'
  <2>1. /\ at = "note" /\ at' = "record" /\ UNCHANGED <<n, touched>>
        /\ outcome' = Outcome("passed", "applied")
    BY <1>12 DEF NoteWritten, history
  <2>2. touched[n] /\ outcome'.effect = "applied"
    BY <2>1, OutcomeFields DEF TouchFits
  <2>3. QED BY <2>1, <2>2 DEF TouchFits, Starting, Honest
<1>13. ASSUME Prune PROVE TouchFits'
  <2>1. at' = "record" /\ n' = n /\ ~R0(n)
    BY <1>13 DEF Prune, Kind, R0
  <2>2. PICK t \in BOOLEAN :
          /\ Touch(t)
          /\ \/ t /\ outcome' = Outcome("passed", "applied")
             \/ t /\ outcome' = Outcome("failed", "applied")
             \/ outcome' = Outcome("failed", "unknown")
    BY <1>13 DEF Prune
  <2>3. /\ touched'[n] <=> (touched[n] \/ t)
        /\ \A m \in Positions : m # n => touched'[m] = touched[m]
    BY <2>2, TouchDoes
  <2>4. \A m \in Positions : R0(m) \/ m > n => ~touched'[m]
    BY <2>1, <2>3 DEF TouchFits
  <2>5. Honest(outcome.effect, n)'
    BY <2>1, <2>2, <2>3, OutcomeFields DEF Honest
  <2>6. QED BY <2>1, <2>4, <2>5 DEF TouchFits, Starting
<1>14. ASSUME Wait PROVE TouchFits'
  <2>1. /\ at' = "record" /\ UNCHANGED <<n, touched>> /\ R0(n)
        /\ outcome' = Outcome("passed", "not_applied") \/ outcome' = Outcome("aborted", "not_applied")
    BY <1>14 DEF Wait, history, Kind, R0
  <2>2. ~touched[n] /\ outcome'.effect = "not_applied"
    BY <2>1, OutcomeFields DEF TouchFits
  <2>3. QED BY <2>1, <2>2 DEF TouchFits, Starting, Honest
<1>15. ASSUME Continue PROVE TouchFits'
  <2>1. at = "continue" /\ at' = "check" /\ n' = n + 1 /\ UNCHANGED touched
    BY <1>15 DEF Continue, history
  <2>2. PICK k \in Positions : k = n + 1
    BY <2>1 DEF RowsFit
  <2>3. ~touched[k] /\ \A m \in Positions : R0(m) \/ m > k => ~touched[m]
    BY <2>2 DEF TouchFits
  <2>4. QED BY <2>1, <2>2, <2>3 DEF TouchFits, Starting
<1>16. ASSUME \/ Record \/ AbandonStep \/ ReleaseRest \/ Finish \/ SettleStep \/ SettleAttempts
             \/ BeginReconcile \/ ReconcileStep \/ ReconcileAttempts \/ InterruptUnfinished \/ RunRaises \/ SettleRaises
             \/ FinishRaises \/ ReconcileRaises \/ Crash
      PROVE  TouchFits'
  <2>1. at' \in Over /\ n' = n /\ touched' = touched
    BY <1>16, LeavesDo
  <2>2. at' \notin Starting \cup Before \cup Acting \cup {"record"}
    BY <2>1 DEF Over, Starting, Before, Acting
  <2>3. \A m \in Positions : R0(m) \/ m > n => ~touched[m]
    BY DEF TouchFits
  <2>4. QED BY <2>1, <2>2, <2>3 DEF TouchFits, Starting, Before, Acting
<1>17. ASSUME ExecutorRaises PROVE TouchFits'
  <2>1. /\ UNCHANGED <<n, touched>>
        /\ \/ /\ Status(n) = "dispatched" /\ at' = "record"
              /\ outcome' = Outcome("failed", "unknown")
           \/ Status(n) # "dispatched" /\ at' = "close"
    BY <1>17 DEF ExecutorRaises, tables, Status
  <2>2. CASE at' = "record"
    <3>1. outcome'.effect = "unknown"
      BY <2>1, <2>2, OutcomeFields
    <3>2. QED BY <2>1, <2>2, <3>1 DEF TouchFits, Starting, Honest
  <2>3. CASE at' = "close"
    <3>1. at \in {"dispatch", "mark"}
      BY <1>17, <2>1, <2>3 DEF ExecutorRaises, RowsFit, Acting
    <3>2. Honest("not_applied", n)
      <4>1. CASE outcome = NoOutcome
        BY <3>1, <4>1 DEF TouchFits, Honest
      <4>2. CASE outcome # NoOutcome
        <5>1. Kind = "unit"
          BY <1>17, <3>1, <4>2 DEF ExecutorRaises, OutcomeFits
        <5>2. QED BY <5>1 DEF Honest, Announced, Kind
      <4>3. QED BY <4>1, <4>2
    <3>3. QED BY <2>1, <2>3, <3>2 DEF TouchFits, Starting, Honest
  <2>4. QED BY <2>1, <2>2, <2>3
<1>18. ASSUME \/ RequestAbort \/ Rest
      PROVE  TouchFits'
  <2>1. UNCHANGED <<at, outcome, n, touched, local>>
    BY <1>18 DEF RequestAbort, Rest, vars
  <2>2. Kind' = Kind /\ Applied' = Applied
    BY <2>1 DEF Kind, Applied
  <2>3. QED BY <2>1, <2>2 DEF TouchFits, Honest, Starting
<1>19. QED
  BY <1>1, <1>2, <1>3, <1>4, <1>5, <1>6, <1>7, <1>8, <1>9, <1>10, <1>11, <1>12,
     <1>13, <1>14, <1>15, <1>16, <1>17, <1>18 DEF Next, Worker, Startup, Raises

(* Attempts are taken before a step acts and given back only of others.    *)
LEMMA AttemptsFitKept ==
  ASSUME TypeOK, AttemptsFit, RowsFit, Next
  PROVE  AttemptsFit'
<1>. /\ plan' = plan /\ Positions' = Positions /\ Mutating' = Mutating
     /\ \A m : R0(m)' = R0(m) /\ Counted(m)' = Counted(m) /\ Announced(m)' = Announced(m)
  BY PlanFixed, PositionsFixed
<1>. /\ n \in Nat /\ 1 <= n /\ n <= Len(plan) /\ Len(plan) \in Nat /\ Positions = 1..Len(plan)
     /\ abortAt \in Nat /\ n \in Positions
  BY Setting
<1>1. ASSUME \/ CreateSteps \/ Refuse
      PROVE  AttemptsFit'
  <2>1. at \in Starting /\ at' \in {"reserve", "abandon"} /\ UNCHANGED <<n, attempt>>
    BY <1>1, RefuseDoes DEF CreateSteps, Starting
  <2>2. QED BY <2>1 DEF AttemptsFit, Before, Acting, Running, Starting
<1>2. ASSUME Reserve PROVE AttemptsFit'
  <2>1. at = "reserve" /\ n = 1 /\ n' = n /\ \A m \in Positions : attempt[m] = "none"
    BY <1>2 DEF Reserve, RowsFit, AttemptsFit, Starting
  <2>2. CASE /\ attempt' = [m \in Positions |-> IF m \in Mutating THEN "reserved" ELSE "none"]
             /\ at' = "check"
    <3>1. \A m \in Positions \ Mutating : attempt'[m] = "none"
      BY <2>2
    <3>2. \A m \in Positions : ~(m < n)
      BY <2>1
    <3>3. QED BY <2>1, <2>2, <3>1, <3>2 DEF AttemptsFit, Acting, Starting
  <2>3. CASE UNCHANGED attempt /\ at' = "refuse"
    BY <2>1, <2>3 DEF AttemptsFit, Before, Acting, Running, Starting
  <2>4. QED BY <1>2, <2>2, <2>3 DEF Reserve
<1>3. ASSUME CheckAbort PROVE AttemptsFit'
  <2>1. /\ at = "check" /\ UNCHANGED <<n, attempt>>
        /\ at' = "execute" \/ (at' = "abandon" /\ local'.from = n)
    BY <1>3, CheckDoes
  <2>2. \A m \in Positions : m < n => attempt[m] # "reserved"
    BY <2>1 DEF AttemptsFit, Running, Before
  <2>3. QED BY <2>1, <2>2 DEF AttemptsFit, Before, Acting, Running, Starting
<1>4. ASSUME \/ Prepare \/ UnitAction
      PROVE  AttemptsFit'
  <2>1. at = "execute" /\ at' \in {"close", "dispatch"} /\ UNCHANGED <<n, attempt>>
    BY <1>4 DEF Prepare, UnitAction, tables
  <2>2. QED BY <2>1 DEF AttemptsFit, Before, Acting, Running, Starting
<1>5. ASSUME Consume PROVE AttemptsFit'
  <2>1. at = "dispatch" /\ at' = "mark" /\ n' = n /\ Counted(n)
    BY <1>5 DEF Consume
  <2>2. /\ attempt'[n] = "consumed"
        /\ \A m \in Positions : m # n => attempt'[m] = attempt[m]
    BY <1>5, ConsumeTakes
  <2>3. n \in Mutating
    BY <2>1 DEF Mutating
  <2>4. QED BY <2>1, <2>2, <2>3 DEF AttemptsFit, Before, Acting, Running, Starting
<1>6. ASSUME Mark PROVE AttemptsFit'
  <2>1. /\ at \in {"dispatch", "mark"} /\ at' \in {"command", "record"}
        /\ UNCHANGED <<n, attempt>> /\ (at = "dispatch" => ~Counted(n))
    BY <1>6 DEF Mark
  <2>2. attempt[n] # "reserved"
    <3>1. CASE at = "mark"
      BY <3>1 DEF AttemptsFit
    <3>2. CASE at = "dispatch"
      BY <2>1, <3>2 DEF AttemptsFit, Mutating
    <3>3. QED BY <2>1, <3>1, <3>2
  <2>3. Counted(n) => attempt[n] = "consumed"
    BY <2>1 DEF AttemptsFit
  <2>4. QED BY <2>1, <2>2, <2>3 DEF AttemptsFit, Before, Acting, Running, Starting
<1>7. ASSUME Close PROVE AttemptsFit'
  <2>1. at = "close" /\ n' = n
    BY <1>7 DEF Close
  <2>2. CASE at' = "dispatch" /\ UNCHANGED attempt
    BY <2>1, <2>2 DEF AttemptsFit, Before, Acting, Running, Starting
  <2>3. CASE at' = "record" /\ Release({n})
    <3>1. \A m \in Positions : attempt'[m] = IF m = n /\ attempt[m] = "reserved"
                                            THEN "released" ELSE attempt[m]
      BY <2>3 DEF Release
    <3>2. \A m \in Positions \ Mutating : attempt'[m] = "none"
      BY <3>1 DEF AttemptsFit
    <3>3. attempt'[n] # "reserved"
      BY <3>1
    <3>4. \A m \in Positions : m < n => attempt'[m] # "reserved"
      BY <2>1, <3>1 DEF AttemptsFit, Running, Before
    <3>5. QED BY <2>1, <2>3, <3>2, <3>3, <3>4 DEF AttemptsFit, Acting, Starting
  <2>4. QED BY <1>7, <2>2, <2>3 DEF Close
<1>8. ASSUME \/ CommandFails \/ CommandExits \/ Verify \/ Judge \/ WriteCompose \/ NoteWritten
             \/ Prune \/ Wait
      PROVE  AttemptsFit'
  <2>1. at \in Acting /\ at' \in {"command", "verify", "judge", "note", "record"} /\ UNCHANGED <<n, attempt>>
    BY <1>8 DEF CommandFails, CommandExits, Verify, Judge, WriteCompose, NoteWritten, Prune, Wait,
      Acting, tables
  <2>2. QED BY <2>1 DEF AttemptsFit, Before, Acting, Running, Starting
<1>9. ASSUME Record PROVE AttemptsFit'
  <2>1. at = "record" /\ UNCHANGED <<attempt, n>> /\ at' \in {"abandon", "continue", "finish"}
        /\ (at' = "abandon" => local'.from = n + 1)
    BY <1>9, RecordDoes
  <2>2. \A m \in Positions : m <= n => attempt[m] # "reserved"
    BY <2>1 DEF AttemptsFit, Running
  <2>3. QED BY <2>1, <2>2 DEF AttemptsFit, Before, Acting, Running, Starting
<1>10. ASSUME Continue PROVE AttemptsFit'
  <2>1. at = "continue" /\ at' = "check" /\ n' = n + 1 /\ UNCHANGED attempt
    BY <1>10 DEF Continue
  <2>2. \A m \in Positions : m <= n => attempt[m] # "reserved"
    BY <2>1 DEF AttemptsFit, Running
  <2>3. QED BY <2>1, <2>2 DEF AttemptsFit, Before, Acting, Running, Starting
<1>11. ASSUME AbandonStep PROVE AttemptsFit'
  <2>1. at = "abandon" /\ UNCHANGED <<attempt, at, n>> /\ local'.from = local.from
    BY <1>11, AbandonDoes
  <2>2. QED BY <2>1 DEF AttemptsFit, Before, Acting, Running, Starting
<1>12. ASSUME \/ ReleaseRest \/ SettleAttempts \/ ReconcileAttempts
      PROVE  AttemptsFit'
  <2>1. at' \in {"finish", "interrupt"}
    BY <1>12 DEF ReleaseRest, SettleAttempts, ReconcileAttempts
  <2>2. \A m \in Positions : attempt[m] # "reserved" => attempt'[m] = attempt[m]
    BY <1>12 DEF ReleaseRest, SettleAttempts, ReconcileAttempts, Release
  <2>3. QED BY <2>1, <2>2 DEF AttemptsFit, Before, Acting, Running, Starting
<1>13. ASSUME \/ Finish \/ SettleStep \/ BeginReconcile \/ ReconcileStep \/ InterruptUnfinished \/ RunRaises
             \/ SettleRaises \/ FinishRaises \/ ReconcileRaises \/ Crash
      PROVE  AttemptsFit'
  <2>1. at' \in Over \ {"continue", "abandon"} /\ UNCHANGED attempt
    BY <1>13, LeavesDo, SettleDoes, ReconcileDoes, BeginDoes DEF Record, Finish,
      InterruptUnfinished, RunRaises, SettleRaises, FinishRaises, ReconcileRaises, Crash, Over, tables
  <2>2. QED BY <2>1 DEF AttemptsFit, Over, Before, Acting, Running, Starting
<1>14. ASSUME ExecutorRaises PROVE AttemptsFit'
  <2>1. at \in {"dispatch", "mark"} => at' = "close"
    <3>1. at \in {"dispatch", "mark"} => step[n].status = "pending"
      BY DEF RowsFit, Before, Status
    <3>2. QED BY <1>14, <3>1 DEF ExecutorRaises
  <2>2. /\ at \in {"command", "dispatch", "mark", "verify", "judge", "note"}
        /\ at' \in {"record", "close"} /\ UNCHANGED <<n, attempt>>
    BY <1>14 DEF ExecutorRaises, tables
  <2>3. at' = "record" => at \in Acting
    BY <2>1, <2>2 DEF Acting
  <2>4. QED BY <2>2, <2>3 DEF AttemptsFit, Before, Acting, Running, Starting
<1>15. ASSUME \/ RequestAbort \/ Rest
      PROVE  AttemptsFit'
  <2>1. UNCHANGED <<at, n, attempt, local>>
    BY <1>15 DEF RequestAbort, Rest, vars
  <2>2. QED BY <2>1 DEF AttemptsFit
<1>16. QED
  BY <1>1, <1>2, <1>3, <1>4, <1>5, <1>6, <1>7, <1>8, <1>9, <1>10, <1>11, <1>12,
     <1>13, <1>14, <1>15 DEF Next, Worker, Startup, Raises

(* Every way out of run() settles its rows and its attempts.               *)
LEMMA EndFitsKept ==
  ASSUME TypeOK, EndFits, RowsFit, AttemptsFit, OutcomeFits, Next
 
         PROVE  EndFits'
<1>. /\ plan' = plan /\ Positions' = Positions /\ Mutating' = Mutating
     /\ \A m : R0(m)' = R0(m) /\ Counted(m)' = Counted(m) /\ Announced(m)' = Announced(m)
  BY PlanFixed, PositionsFixed
<1>. /\ n \in Nat /\ 1 <= n /\ n <= Len(plan) /\ Len(plan) \in Nat /\ Positions = 1..Len(plan)
     /\ abortAt \in Nat /\ n \in Positions
  BY Setting
<1>1. ASSUME \/ CreateSteps \/ Prepare \/ UnitAction \/ Consume \/ Mark \/ Close
             \/ CommandFails \/ CommandExits \/ Verify \/ Judge \/ WriteCompose \/ NoteWritten
             \/ Prune \/ Wait \/ Continue \/ ExecutorRaises
      PROVE  EndFits'
  <2>1. /\ at \notin {"idle", "down", "reconcile", "interrupt"}
        /\ at' \notin {"refuse", "abandon", "settle", "finish", "reconcile", "interrupt"}
        /\ exec' = exec \/ exec' \in Active
    BY <1>1 DEF CreateSteps, Prepare, UnitAction, Consume, Mark, Close, CommandFails,
      CommandExits, Verify, Judge, WriteCompose, NoteWritten, Prune, Wait, Continue,
      ExecutorRaises, tables, Active
  <2>2. exec' \notin Terminal
    BY <2>1 DEF EndFits, Active, Terminal
  <2>3. QED BY <2>1, <2>2, OpenRows DEF EndFits
<1>2. ASSUME Reserve PROVE EndFits'
  <2>1. /\ at = "reserve" /\ exec' = exec
        /\ at' \in {"check", "refuse"} /\ (at' = "refuse" => local'.verdict = "failed")
    BY <1>2, ReserveDoes
  <2>2. exec' \notin Terminal
    BY <2>1 DEF EndFits
  <2>3. QED BY <2>1, <2>2, OpenRows DEF EndFits
<1>3. ASSUME Refuse PROVE EndFits'
  <2>1. at = "refuse" /\ at' = "abandon" /\ exec' = exec
    BY <1>3, RefuseDoes
  <2>2. exec' \notin Terminal /\ local.verdict = "failed"
    BY <2>1 DEF EndFits
  <2>3. PICK m \in local.todo :
          /\ FinishStep(m, "failed", "not_applied")
          /\ local'.todo = Positions \ {m} /\ local'.as = "skipped"
          /\ local'.verdict = local.verdict
    BY <1>3, RefuseDoes
  <2>4. m \in Positions
    BY LocalFields
  <2>5. /\ Status(m)' = "failed"
        /\ \A k \in Positions : k # m => Status(k)' = Status(k)
    BY <2>3, <2>4, FinishEnds
  <2>6. \A k \in Positions \ {m} : Status(k)' = "pending"
    BY <2>1, <2>5 DEF RowsFit
  <2>7. Open' = local'.todo
    BY <2>3, <2>5, <2>6, OpenRows
  <2>8. QED BY <2>1, <2>2, <2>3, <2>6, <2>7, OpenRows DEF EndFits
<1>4. ASSUME CheckAbort PROVE EndFits'
  <2>1. at = "check" /\ exec' = exec /\ UNCHANGED step
    BY <1>4, CheckDoes
  <2>2. exec' \notin Terminal
    BY <2>1 DEF EndFits
  <2>3. CASE at' = "execute"
    BY <2>2, <2>3, OpenRows DEF EndFits
  <2>4. CASE /\ at' = "abandon"
             /\ local'.todo = {m \in Positions : m >= n} /\ local'.as = "aborted"
             /\ local'.verdict = "aborted"
    <3>1. \A m \in Positions : /\ m < n => Status(m) = "passed"
                               /\ m >= n => Status(m) = "pending"
      BY <2>1 DEF RowsFit, Running, Before
    <3>2. \A m : Status(m)' = Status(m)
      BY <2>1, RowsKept
    <3>3. Open' = local'.todo
      BY <2>4, <3>1, <3>2, OpenRows
    <3>4. QED BY <2>2, <2>4, <3>1, <3>2, <3>3, OpenRows DEF EndFits
  <2>5. QED BY <1>4, <2>3, <2>4, CheckDoes
<1>5. ASSUME Record PROVE EndFits'
  <2>1. at = "record" /\ UNCHANGED <<exec, attempt>>
    BY <1>5, RecordDoes
  <2>2. exec' \notin Terminal
    BY <2>1 DEF EndFits
  <2>3. PICK m \in Positions :
          /\ m = n
          /\ Status(m)' = IF outcome.status = "aborted" THEN "failed" ELSE outcome.status
          /\ \A k \in Positions : k # m => Status(k)' = Status(k)
    BY <1>5, RecordDoes
  <2>4. Status(m)' \in {"passed", "failed"}
    BY <2>1, <2>3 DEF OutcomeFits, Ends
  <2>5. \A k \in Positions : /\ k < m => Status(k)' = "passed"
                             /\ k > m => Status(k)' = "pending"
    BY <2>1, <2>3 DEF RowsFit, Running
  <2>6. CASE /\ at' = "abandon" /\ local'.todo = {k \in Positions : k >= n + 1}
             /\ local'.as \in {"skipped", "aborted"} /\ local'.verdict \in {"failed", "aborted"}
    <3>1. local'.todo = {k \in Positions : k > m}
      BY <2>3, <2>6
    <3>2. Open' = local'.todo
      BY <2>3, <2>4, <2>5, <3>1, OpenRows
    <3>3. QED BY <2>2, <2>5, <2>6, <3>1, <3>2, OpenRows DEF EndFits
  <2>7. CASE at' = "continue"
    BY <2>2, <2>7, OpenRows DEF EndFits
  <2>8. CASE at' = "finish" /\ n = Len(plan) /\ local'.verdict = "passed"
    <3>1. Open' = {}
      BY <2>3, <2>4, <2>5, <2>8, OpenRows
    <3>2. \A k \in Positions : attempt[k] # "reserved"
      BY <2>1, <2>8 DEF AttemptsFit, Running
    <3>3. AllSettled'
      BY <2>1, <3>1, <3>2 DEF AllSettled
    <3>4. QED BY <2>2, <2>8, <3>3, OpenRows DEF EndFits, Terminal
  <2>9. QED BY <1>5, <2>6, <2>7, <2>8, RecordDoes
<1>6. ASSUME AbandonStep PROVE EndFits'
  <2>1. at = "abandon" /\ at' = at /\ exec' = exec
    BY <1>6, AbandonDoes
  <2>2. /\ exec' \notin Terminal
        /\ Open = local.todo /\ \A k \in local.todo : Status(k) = "pending"
        /\ local.as \in {"skipped", "aborted"} /\ local.verdict # "none"
    BY <2>1 DEF EndFits
  <2>3. PICK m, s :
          /\ m \in local.todo /\ FinishStep(m, s, "none") /\ s = local.as
          /\ local'.todo = local.todo \ {m} /\ local'.as = local.as
          /\ local'.verdict = local.verdict
    BY <1>6, AbandonDoes
  <2>4. m \in Positions
    BY <2>3, LocalFields
  <2>5. Status(m)' = s /\ \A k \in Positions : k # m => Status(k)' = Status(k)
    BY <2>3, <2>4, FinishEnds
  <2>6. s \notin {"pending", "dispatched"}
    BY <2>2, <2>3
  <2>7. Open' = local'.todo
    <3>1. \A k : k \in Open' <=> k \in Open /\ k # m
      BY <2>4, <2>5, <2>6, OpenRows
    <3>2. QED BY <2>2, <2>3, <3>1
  <2>8. \A k \in local'.todo : Status(k)' = "pending"
    BY <2>2, <2>3, <2>5, OpenRows
  <2>9. QED BY <2>1, <2>2, <2>3, <2>7, <2>8, OpenRows DEF EndFits
<1>7. ASSUME ReleaseRest PROVE EndFits'
  <2>1. /\ at = "abandon" /\ at' = "finish" /\ UNCHANGED <<exec, local, step>> /\ local.todo = {}
        /\ Release({m \in Positions : m >= local.from})
    BY <1>7 DEF ReleaseRest
  <2>2. exec' \notin Terminal /\ Open = {} /\ local.verdict # "none"
    BY <2>1 DEF EndFits
  <2>3. local.verdict \in {"none", "passed", "failed", "aborted"} /\ local.from \in Nat
    <3>1. local \in Locals
      BY DEF TypeOK
    <3>2. local.verdict \in {"none", "passed", "failed", "aborted"} /\ local.from \in 0..(Len(plan) + 1)
      BY <3>1 DEF Locals
    <3>3. QED BY <3>2
  <2>4. \A m \in Positions : m < local.from => attempt[m] # "reserved"
    BY <2>1 DEF AttemptsFit
  <2>5. \A m \in Positions : attempt'[m] # "reserved"
    BY <2>1, <2>3, <2>4 DEF Release
  <2>6. Open' = {}
    BY <2>1, <2>2, RowsKept, OpenRows
  <2>7. AllSettled'
    BY <2>5, <2>6 DEF AllSettled
  <2>8. QED BY <2>1, <2>2, <2>3, <2>7, OpenRows DEF EndFits, Terminal
<1>8. ASSUME Finish PROVE EndFits'
  <2>1. at = "finish" /\ at' = "idle" /\ UNCHANGED <<step, attempt, lost>>
    BY <1>8 DEF Finish, history
  <2>2. ~lost => AllSettled
    BY <2>1 DEF EndFits
  <2>3. ~lost' => AllSettled'
    BY <2>1, <2>2 DEF AllSettled, Open
  <2>4. QED BY <2>1, <2>3, OpenRows DEF EndFits
<1>9. ASSUME SettleStep PROVE EndFits'
  <2>1. at = "settle" /\ UNCHANGED <<at, exec, local>>
    BY <1>9, SettleDoes
  <2>2. QED BY <2>1, OpenRows DEF EndFits
<1>10. ASSUME SettleAttempts PROVE EndFits'
  <2>1. /\ at = "settle" /\ at' = "finish" /\ UNCHANGED <<exec, local, step>> /\ Open = {}
        /\ \A m \in Positions : attempt'[m] # "reserved"
    BY <1>10 DEF SettleAttempts
  <2>2. exec' \notin Terminal /\ local.verdict \in Terminal
    <3>1. local \in Locals
      BY DEF TypeOK
    <3>2. local.verdict \in {"none", "passed", "failed", "aborted"}
      BY <3>1 DEF Locals
    <3>3. QED BY <2>1, <3>2 DEF EndFits, Terminal
  <2>3. AllSettled'
    BY <2>1 DEF AllSettled, Open
  <2>4. QED BY <2>1, <2>2, <2>3, OpenRows DEF EndFits
<1>11. ASSUME BeginReconcile PROVE EndFits'
  <2>1. /\ at = "down" /\ at' = "reconcile" /\ UNCHANGED <<exec, step, attempt, lost>>
        /\ exec \in Active => local'.todo = Open
        /\ exec \notin Active => local'.todo = {}
    BY <1>11, BeginDoes
  <2>2. exec \in Active \/ exec \in Terminal
    BY DEF TypeOK
  <2>3. Open' = Open /\ AllSettled' = AllSettled
    BY <2>1 DEF Open, AllSettled
  <2>4. exec \in Terminal /\ ~lost => AllSettled
    BY OpenRows DEF EndFits
  <2>5. ~lost => local'.todo = Open
    BY <2>1, <2>2, <2>4 DEF AllSettled
  <2>6. local'.todo \subseteq Open
    BY <2>1
  <2>7. QED BY <2>1, <2>3, <2>4, <2>5, <2>6, OpenRows DEF EndFits
<1>12. ASSUME ReconcileStep PROVE EndFits'
  <2>1. at = "reconcile" /\ UNCHANGED <<at, exec, attempt, lost>>
    BY <1>12, ReconcileDoes
  <2>2. PICK m \in local.todo : SettleRow(m) /\ local'.todo = local.todo \ {m}
    BY <1>12, ReconcileDoes
  <2>3. m \in Positions /\ m \in Open
    BY <2>1, <2>2, OpenRows DEF EndFits
  <2>4. /\ Status(m)' \in {"failed", "skipped"}
        /\ \A k \in Positions : k # m => Status(k)' = Status(k)
    BY <2>2, <2>3, RowSettles
  <2>5. \A k : k \in Open' <=> k \in Open /\ k # m
    BY <2>3, <2>4, OpenRows
  <2>6. local'.todo \subseteq Open' /\ (~lost => local'.todo = Open')
    BY <2>1, <2>2, <2>5 DEF EndFits
  <2>7. exec \in Terminal /\ ~lost => AllSettled
    BY OpenRows DEF EndFits
  <2>8. exec \in Terminal => lost
    BY <2>3, <2>7 DEF AllSettled
  <2>9. QED BY <2>1, <2>6, <2>8, OpenRows DEF EndFits
<1>13. ASSUME ReconcileAttempts PROVE EndFits'
  <2>1. /\ at = "reconcile" /\ at' = "interrupt" /\ UNCHANGED <<exec, step, lost>> /\ local.todo = {}
        /\ \A m \in Positions : attempt'[m] # "reserved"
    BY <1>13 DEF ReconcileAttempts, history
  <2>2. ~lost => Open = {}
    BY <2>1 DEF EndFits
  <2>3. ~lost' => AllSettled'
    BY <2>1, <2>2 DEF AllSettled, Open
  <2>4. QED BY <2>1, <2>3, OpenRows DEF EndFits
<1>14. ASSUME InterruptUnfinished PROVE EndFits'
  <2>1. at = "interrupt" /\ at' = "idle" /\ UNCHANGED <<step, attempt, lost>>
    BY <1>14 DEF InterruptUnfinished, history
  <2>2. ~lost => AllSettled
    BY <2>1 DEF EndFits
  <2>3. ~lost' => AllSettled'
    BY <2>1, <2>2 DEF AllSettled, Open
  <2>4. QED BY <2>1, <2>3, OpenRows DEF EndFits
<1>15. ASSUME RunRaises PROVE EndFits'
  <2>1. /\ at \notin {"idle", "down", "reconcile", "interrupt"} /\ at' = "settle" /\ exec' = exec
        /\ local'.verdict = "failed"
    BY <1>15, RaiseDoes DEF RunRaises, tables
  <2>2. exec' \notin Terminal
    BY <2>1 DEF EndFits
  <2>3. QED BY <2>1, <2>2, OpenRows DEF EndFits
<1>16. ASSUME SettleRaises PROVE EndFits'
  <2>1. at = "settle" /\ at' = "finish" /\ UNCHANGED <<exec, local>> /\ lost'
    BY <1>16 DEF SettleRaises, tables
  <2>2. exec' \notin Terminal /\ local.verdict \in Terminal
    <3>1. local \in Locals
      BY DEF TypeOK
    <3>2. local.verdict \in {"none", "passed", "failed", "aborted"}
      BY <3>1 DEF Locals
    <3>3. QED BY <2>1, <3>2 DEF EndFits, Terminal
  <2>3. QED BY <2>1, <2>2, OpenRows DEF EndFits
<1>17. ASSUME FinishRaises PROVE EndFits'
  <2>1. at = "finish" /\ at' = "gone" /\ exec' = exec
    BY <1>17 DEF FinishRaises, tables
  <2>2. exec' \notin Terminal
    BY <2>1 DEF EndFits
  <2>3. QED BY <2>1, <2>2, OpenRows DEF EndFits
<1>18. ASSUME ReconcileRaises PROVE EndFits'
  <2>1. at' = "interrupt" /\ lost'
    BY <1>18 DEF ReconcileRaises
  <2>2. QED BY <2>1, OpenRows DEF EndFits
<1>19. ASSUME Crash PROVE EndFits'
  <2>1. at' = "down" /\ UNCHANGED <<exec, step, attempt, lost>>
    BY <1>19 DEF Crash, tables
  <2>2. exec \in Terminal /\ ~lost => AllSettled
    BY OpenRows DEF EndFits
  <2>3. exec' \in Terminal /\ ~lost' => AllSettled'
    BY <2>1, <2>2 DEF AllSettled, Open
  <2>4. QED BY <2>1, <2>3, OpenRows DEF EndFits
<1>20. ASSUME \/ RequestAbort \/ Rest
      PROVE  EndFits'
  <2>1. UNCHANGED <<at, exec, local, step, attempt, lost>>
    BY <1>20 DEF RequestAbort, Rest, vars
  <2>2. Open' = Open /\ AllSettled' = AllSettled /\ \A m : Status(m)' = Status(m)
    BY <2>1, RowsKept DEF AllSettled, Open
  <2>3. NothingLeftOpen' = NothingLeftOpen
    BY <2>1, <2>2 DEF NothingLeftOpen
  <2>4. QED BY <2>1, <2>2, <2>3 DEF EndFits
<1>21. QED
  BY <1>1, <1>2, <1>3, <1>4, <1>5, <1>6, <1>7, <1>8, <1>9, <1>10, <1>11, <1>12,
     <1>13, <1>14, <1>15, <1>16, <1>17, <1>18, <1>19, <1>20 DEF Next, Worker, Startup,
     Raises

(* No abort is outrun: where run() is, the last step let through is known. *)
LEMMA AbortFitsKept ==
  ASSUME TypeOK, AbortFits, RowsFit, Next
  PROVE  AbortFits'
<1>. /\ plan' = plan /\ Positions' = Positions /\ Mutating' = Mutating
     /\ \A m : R0(m)' = R0(m) /\ Counted(m)' = Counted(m) /\ Announced(m)' = Announced(m)
  BY PlanFixed, PositionsFixed
<1>. /\ n \in Nat /\ 1 <= n /\ n <= Len(plan) /\ Len(plan) \in Nat /\ Positions = 1..Len(plan)
     /\ abortAt \in Nat /\ n \in Positions
  BY Setting
<1>1. ASSUME \/ CreateSteps \/ Refuse
      PROVE  AbortFits'
  <2>1. at' \in {"reserve", "abandon"}
    BY <1>1, RefuseDoes DEF CreateSteps
  <2>2. QED BY <2>1 DEF AbortFits, Running, Before, Acting
<1>2. ASSUME Reserve PROVE AbortFits'
  <2>1. at = "reserve" /\ at' \in {"check", "refuse"} /\ UNCHANGED <<abort, n, abortAt>>
    BY <1>2, ReserveDoes
  <2>2. n = 1
    BY <2>1 DEF RowsFit, Starting
  <2>3. QED BY <2>1, <2>2 DEF AbortFits, Before, Acting, Running
<1>3. ASSUME CheckAbort PROVE AbortFits'
  <2>1. /\ at' \in {"execute", "abandon"} /\ (abort => at' = "abandon")
        /\ UNCHANGED abort
    BY <1>3, CheckDoes
  <2>2. QED BY <2>1 DEF AbortFits, Running, Before, Acting
<1>4. ASSUME \/ Prepare \/ UnitAction \/ Consume \/ Close \/ Mark \/ CommandFails
             \/ CommandExits \/ Verify \/ Judge \/ WriteCompose \/ NoteWritten \/ Prune
             \/ Wait \/ ExecutorRaises
      PROVE  AbortFits'
  <2>1. /\ at \in Running \ {"check"} /\ at' \in Running \ {"check"}
        /\ UNCHANGED <<abort, n, abortAt>>
    BY <1>4 DEF Prepare, UnitAction, Consume, Close, Mark, CommandFails, CommandExits, Verify,
      Judge, WriteCompose, NoteWritten, Prune, Wait, ExecutorRaises, Running, Before, Acting,
      tables, history
  <2>2. QED BY <2>1 DEF AbortFits
<1>5. ASSUME Continue PROVE AbortFits'
  <2>1. at = "continue" /\ at' = "check" /\ n' = n + 1 /\ UNCHANGED <<abort, abortAt>>
    BY <1>5 DEF Continue, history
  <2>2. abort => n <= abortAt
    BY <2>1 DEF AbortFits, Running
  <2>3. abort' => n' <= abortAt' + 1
    BY <2>1, <2>2
  <2>4. QED BY <2>1, <2>3 DEF AbortFits
<1>6. ASSUME Record PROVE AbortFits'
  <2>1. /\ at = "record" /\ at' \in {"abandon", "continue", "finish"}
        /\ UNCHANGED <<abort, n, abortAt>>
    BY <1>6, RecordDoes
  <2>2. QED BY <2>1 DEF AbortFits, Running, Before, Acting
<1>7. ASSUME \/ AbandonStep \/ ReleaseRest \/ Finish \/ SettleStep \/ SettleAttempts \/ BeginReconcile
             \/ ReconcileStep \/ ReconcileAttempts \/ InterruptUnfinished \/ RunRaises \/ SettleRaises \/ FinishRaises
             \/ ReconcileRaises \/ Crash
      PROVE  AbortFits'
  <2>1. at' \in Over \ {"continue"}
    BY <1>7, LeavesDo DEF Record, AbandonStep, ReleaseRest, Finish, SettleStep, SettleAttempts,
      BeginReconcile, ReconcileStep, ReconcileAttempts, InterruptUnfinished, RunRaises,
      SettleRaises, FinishRaises, ReconcileRaises, Crash
  <2>2. QED BY <2>1 DEF AbortFits, Over, Running, Before, Acting
<1>8. ASSUME RequestAbort PROVE AbortFits'
  <2>1. at' = at /\ n' = n
    BY <1>8 DEF RequestAbort
  <2>2. CASE at = "check"
    <3>1. abortAt' = n - 1
      BY <1>8, <2>2 DEF RequestAbort
    <3>2. QED BY <2>1, <2>2, <3>1 DEF AbortFits
  <2>3. CASE at \in Running \ {"check"}
    <3>1. abortAt' = n
      BY <1>8, <2>3 DEF RequestAbort, Running, Before, Acting
    <3>2. QED BY <2>1, <2>3, <3>1 DEF AbortFits
  <2>4. CASE at \notin Running
    BY <2>1, <2>4 DEF AbortFits, Running, Before
  <2>5. QED BY <2>2, <2>3, <2>4
<1>9. ASSUME Rest PROVE AbortFits'
  <2>1. UNCHANGED <<abort, at, n, abortAt>>
    BY <1>9 DEF Rest, vars
  <2>2. QED BY <2>1 DEF AbortFits
<1>10. QED
  BY <1>1, <1>2, <1>3, <1>4, <1>5, <1>6, <1>7, <1>8, <1>9 DEF Next, Worker,
     Startup, Raises

(* What the tables say of a step is what it did to the host.               *)
LEMMA EffectIsHonestKept ==
  ASSUME TypeOK, EffectIsHonest, RowsFit, TouchFits,
         OutcomeFits, EndFits, Next
  PROVE  EffectIsHonest'
<1>. /\ plan' = plan /\ Positions' = Positions /\ Mutating' = Mutating
     /\ \A m : R0(m)' = R0(m) /\ Counted(m)' = Counted(m) /\ Announced(m)' = Announced(m)
  BY PlanFixed, PositionsFixed
<1>. /\ n \in Nat /\ 1 <= n /\ n <= Len(plan) /\ Len(plan) \in Nat /\ Positions = 1..Len(plan)
     /\ abortAt \in Nat /\ n \in Positions
  BY Setting
<1>1. ASSUME CreateSteps PROVE EffectIsHonest'
  <2>1. at = "create" /\ UNCHANGED touched
    BY <1>1 DEF CreateSteps, history
  <2>2. \A m \in Positions : ~touched[m]
    BY <2>1 DEF TouchFits, RowsFit, Starting
  <2>3. \A m \in Positions : Status(m)' = "pending" /\ Effect(m)' = "none"
    BY <1>1, CreateBegins
  <2>4. QED BY <2>1, <2>2, <2>3, HonestRows
<1>2. ASSUME Refuse PROVE EffectIsHonest'
  <2>1. at = "refuse" /\ UNCHANGED touched
    BY <1>2, RefuseDoes
  <2>2. PICK m \in local.todo : FinishStep(m, "failed", "not_applied")
    BY <1>2, RefuseDoes
  <2>3. m \in Positions
    BY LocalFields
  <2>4. /\ Status(m)' = "failed" /\ Effect(m)' = "not_applied"
        /\ \A k \in Positions : k # m => Status(k)' = Status(k) /\ Effect(k)' = Effect(k)
    BY <2>2, <2>3, FinishEnds
  <2>5. ~(touched[m] /\ Announced(m))
    BY <2>1, <2>3, HonestRows DEF RowsFit
  <2>6. QED BY <2>1, <2>4, <2>5, HonestRows
<1>3. ASSUME Mark PROVE EffectIsHonest'
  <2>1. n' = n /\ UNCHANGED touched
    BY <1>3 DEF Mark, history
  <2>2. /\ Status(n) = "pending" /\ Status(n)' = "dispatched" /\ Effect(n)' = Effect(n)
        /\ \A k \in Positions : k # n => Status(k)' = Status(k) /\ Effect(k)' = Effect(k)
    BY <1>3, MarkStarts
  <2>3. PICK m \in Positions : m = n
    OBVIOUS
  <2>4. Status(m)' = "dispatched" /\ Effect(m)' = "none"
    BY <2>1, <2>2, <2>3 DEF RowsFit, Status, Effect
  <2>5. QED BY <2>1, <2>2, <2>3, <2>4, HonestRows
<1>4. ASSUME Record PROVE EffectIsHonest'
  <2>1. at = "record" /\ UNCHANGED touched
    BY <1>4, RecordDoes
  <2>2. PICK m \in Positions :
          /\ m = n
          /\ Status(m)' = IF outcome.status = "aborted" THEN "failed" ELSE outcome.status
          /\ Effect(m)' = outcome.effect
          /\ \A k \in Positions : k # m => Status(k)' = Status(k) /\ Effect(k)' = Effect(k)
    BY <1>4, RecordDoes
  <2>3. Status(m)' \in {"passed", "failed"}
    BY <2>1, <2>2 DEF OutcomeFits, Ends
  <2>4. /\ Effect(m)' = "applied" => touched[m]
        /\ touched[m] /\ Announced(m) => Effect(m)' # "not_applied"
    BY <2>1, <2>2 DEF TouchFits, Honest
  <2>5. QED BY <2>1, <2>2, <2>3, <2>4, HonestRows
<1>5. ASSUME AbandonStep PROVE EffectIsHonest'
  <2>1. at = "abandon" /\ UNCHANGED touched
    BY <1>5, AbandonDoes
  <2>2. PICK m, s : m \in local.todo /\ FinishStep(m, s, "none") /\ s = local.as
    BY <1>5, AbandonDoes
  <2>3. m \in Positions /\ Status(m) = "pending" /\ s \in {"skipped", "aborted"}
    BY <2>1, <2>2, LocalFields DEF EndFits
  <2>4. /\ Status(m)' = s /\ Effect(m)' = "none"
        /\ \A k \in Positions : k # m => Status(k)' = Status(k) /\ Effect(k)' = Effect(k)
    BY <2>2, <2>3, FinishEnds
  <2>5. ~(touched[m] /\ Announced(m))
    BY <2>3, HonestRows
  <2>6. QED BY <2>1, <2>3, <2>4, <2>5, HonestRows
<1>6. ASSUME \/ SettleStep \/ ReconcileStep
      PROVE  EffectIsHonest'
  <2>1. UNCHANGED touched
    BY <1>6, SettleDoes, ReconcileDoes
  <2>2. PICK m \in Positions : SettleRow(m)
    BY <1>6, SettleDoes, ReconcileDoes, LocalFields DEF Open
  <2>3. /\ Status(m) \in {"pending", "dispatched"}
        /\ Status(m) = "dispatched" => Status(m)' = "failed" /\ Effect(m)' = CutShort(m)
        /\ Status(m) = "pending" => Status(m)' = "skipped" /\ Effect(m)' = "none"
        /\ \A k \in Positions : k # m => Status(k)' = Status(k) /\ Effect(k)' = Effect(k)
    BY <2>2, RowSettles
  <2>4. CutShort(m) \in {"not_applied", "unknown"} /\ (CutShort(m) = "not_applied" => ~touched[m])
    BY DEF CutShort, TouchFits
  <2>5. Status(m) = "pending" => ~(touched[m] /\ Announced(m))
    BY HonestRows
  <2>6. QED BY <2>1, <2>3, <2>4, <2>5, HonestRows
<1>7. ASSUME UnitAction PROVE EffectIsHonest'
  <2>1. n' = n /\ ~Announced(n) /\ UNCHANGED step
    BY <1>7 DEF UnitAction, Kind, Announced, tables
  <2>2. \A m \in Positions : m # n => touched'[m] = touched[m]
    BY <1>7 DEF UnitAction, TypeOK
  <2>3. \A m : Status(m)' = Status(m) /\ Effect(m)' = Effect(m)
    BY <2>1, RowsKept
  <2>4. \A m \in Positions : m = n => Effect(m) = "none"
    BY <1>7 DEF RowsFit, Before, UnitAction
  <2>5. QED BY <2>1, <2>2, <2>3, <2>4, HonestRows
<1>8. ASSUME \/ CommandFails \/ CommandExits \/ WriteCompose \/ Prune
      PROVE  EffectIsHonest'
  <2>1. at = "command" /\ UNCHANGED step
    BY <1>8 DEF CommandFails, CommandExits, WriteCompose, Prune, tables
  <2>2. PICK t \in BOOLEAN : Touch(t)
    BY <1>8, LocalFields DEF CommandFails, CommandExits, WriteCompose, Prune
  <2>3. /\ touched[n] => touched'[n]
        /\ \A m \in Positions : m # n => touched'[m] = touched[m]
    BY <2>2, TouchDoes
  <2>4. \A m : Status(m)' = Status(m) /\ Effect(m)' = Effect(m)
    BY <2>1, RowsKept
  <2>5. \A m \in Positions : m = n => Status(m) = "dispatched" /\ Effect(m) = "none"
    BY <2>1 DEF RowsFit, Acting
  <2>6. QED BY <2>3, <2>4, <2>5, HonestRows
<1>9. ASSUME \/ Reserve \/ CheckAbort \/ Prepare \/ Consume \/ Close \/ Verify
             \/ Judge \/ NoteWritten \/ Wait \/ Continue \/ ReleaseRest \/ Finish
             \/ SettleAttempts \/ BeginReconcile \/ ReconcileAttempts \/ InterruptUnfinished \/ ExecutorRaises \/ RunRaises
             \/ SettleRaises \/ FinishRaises \/ ReconcileRaises \/ Crash \/ RequestAbort \/ Rest
      PROVE  EffectIsHonest'
  <2>1. UNCHANGED <<step, touched>>
    BY <1>9, CheckDoes, ReserveDoes, BeginDoes DEF Prepare, Consume, Close, Verify, Judge,
      NoteWritten, Wait, Continue, ReleaseRest, Finish, SettleAttempts, ReconcileAttempts,
      InterruptUnfinished, ExecutorRaises, RunRaises, SettleRaises, FinishRaises,
      ReconcileRaises, Crash, RequestAbort, Rest, history, tables, vars
  <2>2. \A m : Status(m)' = Status(m) /\ Effect(m)' = Effect(m)
    BY <2>1, RowsKept
  <2>3. QED BY <2>1, <2>2, HonestRows
<1>10. QED
  BY <1>1, <1>2, <1>3, <1>4, <1>5, <1>6, <1>7, <1>8, <1>9 DEF Next, Worker,
     Startup, Raises

(* Every mutation that reached the host was charged.                       *)
LEMMA MutationsAreChargedKept ==
  ASSUME TypeOK, MutationsAreCharged, AttemptsFit,
         TouchFits, RowsFit, Next
  PROVE  MutationsAreCharged'
<1>. /\ plan' = plan /\ Positions' = Positions /\ Mutating' = Mutating
     /\ \A m : R0(m)' = R0(m) /\ Counted(m)' = Counted(m) /\ Announced(m)' = Announced(m)
  BY PlanFixed, PositionsFixed
<1>. /\ n \in Nat /\ 1 <= n /\ n <= Len(plan) /\ Len(plan) \in Nat /\ Positions = 1..Len(plan)
     /\ abortAt \in Nat /\ n \in Positions
  BY Setting
<1>1. ASSUME Reserve PROVE MutationsAreCharged'
  <2>1. at = "reserve" /\ UNCHANGED touched
    BY <1>1, ReserveDoes
  <2>2. \A m \in Positions : ~touched[m]
    BY <2>1 DEF TouchFits, RowsFit, Starting
  <2>3. QED BY <2>1, <2>2 DEF MutationsAreCharged, Mutating
<1>2. ASSUME Consume PROVE MutationsAreCharged'
  <2>1. UNCHANGED touched
    BY <1>2 DEF Consume, history
  <2>2. \A m \in Positions : attempt[m] = "consumed" => attempt'[m] = "consumed"
    BY <1>2, ConsumeTakes
  <2>3. QED BY <2>1, <2>2 DEF MutationsAreCharged, Mutating
<1>3. ASSUME \/ Close \/ ReleaseRest \/ SettleAttempts \/ ReconcileAttempts
      PROVE  MutationsAreCharged'
  <2>1. UNCHANGED touched
    BY <1>3 DEF Close, ReleaseRest, SettleAttempts, ReconcileAttempts, history
  <2>2. \A m \in Positions : attempt[m] = "consumed" => attempt'[m] = "consumed"
    BY <1>3 DEF Close, ReleaseRest, SettleAttempts, ReconcileAttempts, Release
  <2>3. QED BY <2>1, <2>2 DEF MutationsAreCharged, Mutating
<1>4. ASSUME UnitAction PROVE MutationsAreCharged'
  <2>1. ~Announced(n) /\ UNCHANGED attempt
    BY <1>4 DEF UnitAction, Kind, Announced, tables
  <2>2. \A m \in Positions : m # n => touched'[m] = touched[m]
    BY <1>4 DEF UnitAction, TypeOK
  <2>3. QED BY <2>1, <2>2 DEF MutationsAreCharged, Mutating
<1>5. ASSUME \/ CommandFails \/ CommandExits \/ WriteCompose \/ Prune
      PROVE  MutationsAreCharged'
  <2>1. at = "command" /\ UNCHANGED attempt
    BY <1>5 DEF CommandFails, CommandExits, WriteCompose, Prune, tables
  <2>2. PICK t \in BOOLEAN : Touch(t)
    BY <1>5, LocalFields DEF CommandFails, CommandExits, WriteCompose, Prune
  <2>3. \A m \in Positions : m # n => touched'[m] = touched[m]
    BY <2>2, TouchDoes
  <2>4. n \in Mutating => attempt[n] = "consumed"
    BY <2>1 DEF AttemptsFit, Acting, Mutating
  <2>5. QED BY <2>1, <2>3, <2>4 DEF MutationsAreCharged, Mutating
<1>6. ASSUME \/ CreateSteps \/ Refuse \/ CheckAbort \/ Prepare \/ Mark \/ Verify
             \/ Judge \/ NoteWritten \/ Wait \/ Record \/ Continue \/ AbandonStep
             \/ Finish \/ SettleStep \/ BeginReconcile \/ ReconcileStep \/ InterruptUnfinished \/ ExecutorRaises
             \/ RunRaises \/ SettleRaises \/ FinishRaises \/ ReconcileRaises \/ Crash \/ RequestAbort
             \/ Rest
      PROVE  MutationsAreCharged'
  <2>1. UNCHANGED <<touched, attempt>>
    BY <1>6, RefuseDoes, RecordDoes, AbandonDoes, SettleDoes, ReconcileDoes, CheckDoes,
      BeginDoes DEF CreateSteps, Prepare, Mark, Verify, Judge, NoteWritten, Wait, Continue,
      Finish, InterruptUnfinished, ExecutorRaises, RunRaises, SettleRaises, FinishRaises,
      ReconcileRaises, Crash, RequestAbort, Rest, history, tables, vars
  <2>2. QED BY <2>1 DEF MutationsAreCharged
<1>7. QED
  BY <1>1, <1>2, <1>3, <1>4, <1>5, <1>6 DEF Next, Worker, Startup, Raises

(* Once an abort is asked for, run() lets no further step through.         *)
LEMMA NothingNewAfterAbortKept ==
  ASSUME TypeOK, NothingNewAfterAbort, AbortFits,
         TouchFits, RowsFit, OutcomeFits, Next
  PROVE  NothingNewAfterAbort'
<1>. /\ plan' = plan /\ Positions' = Positions /\ Mutating' = Mutating
     /\ \A m : R0(m)' = R0(m) /\ Counted(m)' = Counted(m) /\ Announced(m)' = Announced(m)
  BY PlanFixed, PositionsFixed
<1>. /\ n \in Nat /\ 1 <= n /\ n <= Len(plan) /\ Len(plan) \in Nat /\ Positions = 1..Len(plan)
     /\ abortAt \in Nat /\ n \in Positions
  BY Setting
<1>1. ASSUME CreateSteps PROVE NothingNewAfterAbort'
  <2>1. UNCHANGED <<abort, abortAt, touched>>
    BY <1>1 DEF CreateSteps, history
  <2>2. \A m \in Positions : Status(m)' = "pending"
    BY <1>1, CreateBegins
  <2>3. QED BY <2>1, <2>2, QuietRows
<1>2. ASSUME Mark PROVE NothingNewAfterAbort'
  <2>1. at \in {"dispatch", "mark"} /\ UNCHANGED <<abort, abortAt, touched>>
    BY <1>2 DEF Mark, history
  <2>2. \A m \in Positions : m # n => Status(m)' = Status(m)
    BY <1>2, MarkStarts
  <2>3. abort => n <= abortAt
    BY <2>1 DEF AbortFits, Running, Before
  <2>4. QED BY <2>1, <2>2, <2>3, QuietRows
<1>3. ASSUME \/ Refuse \/ AbandonStep
      PROVE  NothingNewAfterAbort'
  <2>1. UNCHANGED <<abort, abortAt, touched>>
    BY <1>3, RefuseDoes, AbandonDoes
  <2>2. PICK m, s, e : /\ m \in Positions /\ s \in {"skipped", "aborted", "failed"}
                       /\ FinishStep(m, s, e)
    <3>1. local.todo \subseteq Positions
      BY LocalFields
    <3>2. local.as \in {"skipped", "aborted", "failed"}
      BY DEF TypeOK, Locals
    <3>3. QED BY <1>3, <3>1, <3>2, RefuseDoes, AbandonDoes
  <2>3. \A k \in Positions : Status(k)' = "dispatched" => Status(k) = "dispatched"
    BY <2>2, FinishEnds
  <2>4. QED BY <2>1, <2>3, QuietRows
<1>4. ASSUME Record PROVE NothingNewAfterAbort'
  <2>1. at = "record" /\ UNCHANGED <<abort, abortAt, touched>>
    BY <1>4, RecordDoes
  <2>2. PICK m \in Positions :
          /\ Status(m)' = IF outcome.status = "aborted" THEN "failed" ELSE outcome.status
          /\ \A k \in Positions : k # m => Status(k)' = Status(k) /\ Effect(k)' = Effect(k)
    BY <1>4, RecordDoes
  <2>3. Status(m)' \in {"passed", "failed"}
    BY <2>1, <2>2 DEF OutcomeFits, Ends
  <2>4. \A k \in Positions : Status(k)' = "dispatched" => Status(k) = "dispatched"
    BY <2>2, <2>3
  <2>5. QED BY <2>1, <2>4, QuietRows
<1>5. ASSUME \/ SettleStep \/ ReconcileStep
      PROVE  NothingNewAfterAbort'
  <2>1. UNCHANGED <<abort, abortAt, touched>>
    BY <1>5, SettleDoes, ReconcileDoes
  <2>2. PICK m \in Positions : SettleRow(m)
    BY <1>5, SettleDoes, ReconcileDoes, LocalFields DEF Open
  <2>3. \A k \in Positions : Status(k)' = "dispatched" => Status(k) = "dispatched"
    BY <2>2, RowSettles
  <2>4. QED BY <2>1, <2>3, QuietRows
<1>6. ASSUME UnitAction PROVE NothingNewAfterAbort'
  <2>1. at = "execute" /\ UNCHANGED <<abort, abortAt, step>>
    BY <1>6 DEF UnitAction, tables
  <2>2. \A m \in Positions : m # n => touched'[m] = touched[m]
    BY <1>6 DEF UnitAction, TypeOK
  <2>3. \A m : Status(m)' = Status(m)
    BY <2>1, RowsKept
  <2>4. abort => n <= abortAt
    BY <2>1 DEF AbortFits, Running, Before
  <2>5. QED BY <2>1, <2>2, <2>3, <2>4, QuietRows
<1>7. ASSUME \/ CommandFails \/ CommandExits \/ WriteCompose \/ Prune
      PROVE  NothingNewAfterAbort'
  <2>1. at = "command" /\ UNCHANGED <<abort, abortAt, step>>
    BY <1>7 DEF CommandFails, CommandExits, WriteCompose, Prune, tables
  <2>2. PICK t \in BOOLEAN : Touch(t)
    BY <1>7, LocalFields DEF CommandFails, CommandExits, WriteCompose, Prune
  <2>3. \A m \in Positions : m # n => touched'[m] = touched[m]
    BY <2>2, TouchDoes
  <2>4. \A m : Status(m)' = Status(m)
    BY <2>1, RowsKept
  <2>5. abort => n <= abortAt
    BY <2>1 DEF AbortFits, Running, Acting
  <2>6. QED BY <2>1, <2>3, <2>4, <2>5, QuietRows
<1>8. ASSUME RequestAbort PROVE NothingNewAfterAbort'
  <2>1. UNCHANGED <<step, touched>>
    BY <1>8 DEF RequestAbort
  <2>2. \A m : Status(m)' = Status(m)
    BY <2>1, RowsKept
  <2>3. \A m \in Positions : m > n => ~touched[m] /\ Status(m) # "dispatched"
    BY DEF TouchFits, RowsFit
  <2>4. CASE at \in Starting
    <3>1. \A m \in Positions : ~touched[m] /\ Status(m) # "dispatched"
      BY <2>4 DEF TouchFits, RowsFit, Starting
    <3>2. QED BY <2>1, <2>2, <3>1, QuietRows
  <2>5. CASE at = "check"
    <3>1. \A m \in Positions : m >= n => ~touched[m] /\ Status(m) # "dispatched"
      BY <2>3, <2>5 DEF TouchFits, RowsFit, Before
    <3>2. abortAt' = n - 1
      BY <1>8, <2>5 DEF RequestAbort
    <3>3. QED BY <2>1, <2>2, <3>1, <3>2, QuietRows
  <2>6. CASE at \notin Starting \cup {"check"}
    <3>1. abortAt' = n
      BY <1>8, <2>6 DEF RequestAbort, Starting
    <3>2. QED BY <2>1, <2>2, <2>3, <3>1, QuietRows
  <2>7. QED BY <2>4, <2>5, <2>6
<1>9. ASSUME \/ Reserve \/ CheckAbort \/ Prepare \/ Consume \/ Close \/ Verify
             \/ Judge \/ NoteWritten \/ Wait \/ Continue \/ ReleaseRest \/ Finish
             \/ SettleAttempts \/ BeginReconcile \/ ReconcileAttempts \/ InterruptUnfinished \/ ExecutorRaises \/ RunRaises
             \/ SettleRaises \/ FinishRaises \/ ReconcileRaises \/ Crash \/ Rest
      PROVE  NothingNewAfterAbort'
  <2>1. UNCHANGED <<abort, abortAt, touched, step>>
    BY <1>9, CheckDoes, ReserveDoes, BeginDoes DEF Prepare, Consume, Close, Verify, Judge,
      NoteWritten, Wait, Continue, ReleaseRest, Finish, SettleAttempts, ReconcileAttempts,
      InterruptUnfinished, ExecutorRaises, RunRaises, SettleRaises, FinishRaises,
      ReconcileRaises, Crash, Rest, history, tables, vars
  <2>2. \A m : Status(m)' = Status(m) /\ Effect(m)' = Effect(m)
    BY <2>1, RowsKept
  <2>3. QED BY <2>1, <2>2, QuietRows
<1>10. QED
  BY <1>1, <1>2, <1>3, <1>4, <1>5, <1>6, <1>7, <1>8, <1>9 DEF Next, Worker,
     Startup, Raises

----------------------------------------------------------------------------
(* The invariant, and what follows from it.                                *)

LEMMA InitInv ==
  ASSUME Init
  PROVE  EngineInv
<1>1. plan \in Runbooks /\ Runbooks \subseteq Seq(Kinds) \ {<<>>}
  BY RunbooksAssumption DEF Init
<1>2. Len(plan) \in Nat /\ Len(plan) >= 1 /\ Positions = 1..Len(plan) /\ 1 \in Positions
  BY <1>1 DEF Positions
<1>3. NoOutcome \in OutcomeRow
  BY OutcomeTyped
<1>4. local \in Locals
  BY <1>2, RunbooksAssumption DEF Init, NoLocals, Locals
<1>5. step \in [Positions -> StepRow]
  BY DEF Init, StepRow, Effects
<1>6. TypeOK
  <2>1. attempt \in [Positions -> {"none", "reserved", "consumed", "released"}]
    BY DEF Init
  <2>2. touched \in [Positions -> BOOLEAN]
    BY DEF Init
  <2>3. /\ exec \in Active \cup Terminal /\ abort \in BOOLEAN /\ at \in Places /\ n \in Positions
        /\ lost \in BOOLEAN
    BY <1>2 DEF Init, Active, Places
  <2>4. outcome \in OutcomeRow
    BY <1>3 DEF Init
  <2>5. abortAt \in 0..Len(plan) /\ crashes \in 0..MaxCrashes /\ faults \in 0..MaxFaults
    BY <1>2, RunbooksAssumption DEF Init
  <2>6. QED BY <1>1, <1>4, <1>5, <2>1, <2>2, <2>3, <2>4, <2>5 DEF TypeOK
<1>7. at = "create" /\ n = 1 /\ exec = "running" /\ ~abort /\ outcome = NoOutcome
  BY DEF Init
<1>8. \A m \in Positions : Status(m) = "none" /\ Effect(m) = "none" /\ ~touched[m] /\ attempt[m] = "none"
  BY DEF Init, Status, Effect
<1>9. RowsFit
  BY <1>2, <1>7, <1>8 DEF RowsFit, Before, Acting, Running, Starting
<1>10. OutcomeFits
  BY <1>7 DEF OutcomeFits, Starting
<1>11. TouchFits
  BY <1>2, <1>7, <1>8 DEF TouchFits, Starting
<1>12. AttemptsFit
  BY <1>7, <1>8 DEF AttemptsFit, Before, Acting, Running, Starting, Mutating
<1>13. EndFits
  BY <1>7, OpenRows DEF EndFits, Terminal
<1>14. AbortFits
  BY <1>7 DEF AbortFits
<1>15. EffectIsHonest
  BY <1>8, HonestRows
<1>16. MutationsAreCharged
  BY <1>8 DEF MutationsAreCharged, Mutating
<1>17. NothingNewAfterAbort
  BY <1>7 DEF NothingNewAfterAbort
<1>18. QED
  BY <1>6, <1>9, <1>10, <1>11, <1>12, <1>13, <1>14, <1>15, <1>16, <1>17 DEF EngineInv

LEMMA StepInv ==
  ASSUME EngineInv, [Next]_vars
  PROVE  EngineInv'
<1>. /\ TypeOK /\ RowsFit /\ OutcomeFits /\ TouchFits /\ AttemptsFit /\ EndFits /\ AbortFits
     /\ EffectIsHonest /\ MutationsAreCharged /\ NothingNewAfterAbort
  BY DEF EngineInv
<1>1. ASSUME Next PROVE EngineInv'
  <2>1. TypeOK'
    BY <1>1, TypesKept
  <2>2. RowsFit' /\ OutcomeFits' /\ TouchFits'
    BY <1>1, RowsFitKept, OutcomeFitsKept, TouchFitsKept
  <2>3. AttemptsFit' /\ EndFits' /\ AbortFits'
    BY <1>1, AttemptsFitKept, EndFitsKept, AbortFitsKept
  <2>4. EffectIsHonest' /\ MutationsAreCharged' /\ NothingNewAfterAbort'
    BY <1>1, EffectIsHonestKept, MutationsAreChargedKept, NothingNewAfterAbortKept
  <2>5. QED BY <2>1, <2>2, <2>3, <2>4 DEF EngineInv
<1>2. ASSUME UNCHANGED vars PROVE EngineInv'
  <2>. /\ UNCHANGED <<plan, exec, abort, step, attempt, at, n>>
       /\ UNCHANGED <<outcome, local, touched, abortAt, crashes, faults, lost>>
    BY <1>2 DEF vars
  <2>1. Positions' = Positions /\ Locals' = Locals
    BY DEF Positions, Locals
  <2>2. TypeOK'
    BY <2>1 DEF TypeOK
  <2>3. /\ Kind' = Kind /\ Applied' = Applied /\ Mutating' = Mutating /\ Open' = Open
        /\ \A m : /\ Status(m)' = Status(m) /\ Effect(m)' = Effect(m)
                  /\ R0(m)' = R0(m) /\ Counted(m)' = Counted(m) /\ Announced(m)' = Announced(m)
    BY <2>1, RowsKept DEF Kind, Applied, Mutating, Open, R0, Counted, Announced
  <2>4. RowsFit'
    BY <2>1, <2>3 DEF RowsFit
  <2>5. OutcomeFits'
    BY <2>1, <2>3 DEF OutcomeFits, Ends
  <2>6. TouchFits'
    BY <2>1, <2>3 DEF TouchFits, Honest
  <2>7. AttemptsFit'
    BY <2>1, <2>3 DEF AttemptsFit
  <2>8. AllSettled' = AllSettled
    BY <2>1, <2>3 DEF AllSettled
  <2>9. EndFits'
    BY <2>1, <2>3, <2>8 DEF EndFits, NothingLeftOpen
  <2>10. AbortFits'
    BY DEF AbortFits
  <2>11. EffectIsHonest' /\ MutationsAreCharged' /\ NothingNewAfterAbort'
    BY <2>1, <2>3 DEF EffectIsHonest, MutationsAreCharged, NothingNewAfterAbort
  <2>12. QED
    BY <2>2, <2>4, <2>5, <2>6, <2>7, <2>9, <2>10, <2>11 DEF EngineInv
<1>3. QED BY <1>1, <1>2

(* Whatever the runbooks, and however often core crashes or a transaction  *)
(* raises: the rows, the attempts and the worker always fit together.      *)
THEOREM EngineInvariant == Spec => []EngineInv
<1>1. QED BY InitInv, StepInv, PTL DEF Spec

(* The variables keep their types.                                         *)
THEOREM EngineTypes == Spec => []TypeOK
<1>1. EngineInv => TypeOK
  BY DEF EngineInv
<1>2. QED BY <1>1, EngineInvariant, PTL

(* A row that says "applied" means the host changed; one that says it did  *)
(* not, or never ran, means that it did not: finish_step, the settling of  *)
(* a crashed execution and startup_reconcile never write a wrong effect.   *)
THEOREM EffectsAreHonest == Spec => []EffectIsHonest
<1>1. EngineInv => EffectIsHonest
  BY DEF EngineInv
<1>2. QED BY <1>1, EngineInvariant, PTL

(* Every counted mutation that reached the host has its attempt consumed:  *)
(* release_attempts and reconcile_reserved_attempts never give it back.    *)
THEOREM AttemptsAreCharged == Spec => []MutationsAreCharged
<1>1. EngineInv => MutationsAreCharged
  BY DEF EngineInv
<1>2. QED BY <1>1, EngineInvariant, PTL

(* An execution with a terminal status has no open step and holds no       *)
(* attempt, unless the procedure that settles them raised as well.         *)
THEOREM EndsAreSettled == Spec => []NothingLeftOpen
<1>1. EngineInv => NothingLeftOpen
  BY DEF EngineInv, EndFits
<1>2. QED BY <1>1, EngineInvariant, PTL

(* After request_abort no step starts that run() had not let through.      *)
THEOREM AbortsAreHonoured == Spec => []NothingNewAfterAbort
<1>1. EngineInv => NothingNewAfterAbort
  BY DEF EngineInv
<1>2. QED BY <1>1, EngineInvariant, PTL

----------------------------------------------------------------------------
(* The refinement: what every step does to the rows, in StepLedger's terms. *)

Others(m) == \A k \in Positions : k # m => Status(k)' = Status(k) /\ Effect(k)' = Effect(k)

Begins(m) ==
  /\ Status(m) = "pending" /\ Status(m)' = "dispatched" /\ Effect(m)' = Effect(m)
  /\ \A k \in Positions : (k < m => Status(k) = "passed") /\ Status(k) # "dispatched"
  /\ Others(m)

Closes(m) ==
  /\ \/ /\ Status(m) = "dispatched" /\ Status(m)' \in {"passed", "failed"}
        /\ Effect(m)' \in {"applied", "not_applied", "unknown"}
        /\ Status(m)' = "passed" => Effect(m)' # "unknown"
     \/ Status(m) = "pending" /\ Status(m)' = "failed" /\ Effect(m)' = "not_applied"
     \/ /\ Status(m) = "pending" /\ Status(m)' \in {"skipped", "aborted"}
        /\ Effect(m)' = Effect(m)
  /\ Others(m)

LEMMA RowsFollow ==
  ASSUME EngineInv, Next
  PROVE  \/ UNCHANGED step
         \/ \A m \in Positions : /\ Status(m) = "none" /\ Status(m)' = "pending"
                                 /\ Effect(m)' = Effect(m)
         \/ \E m \in Positions : Begins(m) \/ Closes(m)
<1>. /\ TypeOK /\ RowsFit /\ OutcomeFits /\ EndFits
     /\ n \in Positions /\ Positions = 1..Len(plan) /\ Len(plan) \in Nat /\ n \in Nat
  BY Setting DEF EngineInv
<1>1. ASSUME CreateSteps
      PROVE  \A m \in Positions : /\ Status(m) = "none" /\ Status(m)' = "pending"
                                  /\ Effect(m)' = Effect(m)
  <2>1. at = "create"
    BY <1>1 DEF CreateSteps
  <2>2. \A m \in Positions : Status(m)' = "pending" /\ Effect(m)' = "none"
    BY <1>1, CreateBegins
  <2>3. QED BY <2>1, <2>2 DEF RowsFit
<1>2. ASSUME Mark PROVE \E m \in Positions : Begins(m)
  <2>1. PICK m \in Positions : m = n
    OBVIOUS
  <2>2. at \in Before /\ n' = n
    BY <1>2 DEF Mark, Before
  <2>3. /\ Status(m) = "pending" /\ Status(m)' = "dispatched" /\ Effect(m)' = Effect(m)
        /\ Others(m)
    BY <1>2, <2>1, <2>2, MarkStarts DEF Others, Status, Effect
  <2>4. \A k \in Positions : (k < m => Status(k) = "passed") /\ Status(k) # "dispatched"
    BY <2>1, <2>2, <2>3 DEF RowsFit, Running
  <2>5. QED BY <2>3, <2>4 DEF Begins
<1>3. ASSUME Refuse PROVE \E m \in Positions : Closes(m)
  <2>1. PICK m \in local.todo : FinishStep(m, "failed", "not_applied")
    BY <1>3, RefuseDoes
  <2>2. m \in Positions
    BY LocalFields
  <2>3. Status(m) = "pending"
    BY <1>3, <2>2, RefuseDoes DEF RowsFit
  <2>4. Status(m)' = "failed" /\ Effect(m)' = "not_applied" /\ Others(m)
    BY <2>1, <2>2, FinishEnds DEF Others
  <2>5. QED BY <2>2, <2>3, <2>4 DEF Closes
<1>4. ASSUME Record PROVE \E m \in Positions : Closes(m)
  <2>1. PICK m \in Positions :
          /\ m = n
          /\ Status(m)' = IF outcome.status = "aborted" THEN "failed" ELSE outcome.status
          /\ Effect(m)' = outcome.effect
          /\ Others(m)
    BY <1>4, RecordDoes DEF Others
  <2>2. at = "record"
    BY <1>4, RecordDoes
  <2>3. /\ Status(m) \in {"pending", "dispatched"} /\ Ends(outcome)
        /\ Status(m) = "pending" => outcome = Refusal
    BY <2>1, <2>2 DEF RowsFit, OutcomeFits
  <2>4. CASE Status(m) = "pending"
    <3>1. Status(m)' = "failed" /\ Effect(m)' = "not_applied"
      BY <2>1, <2>3, <2>4, OutcomeFields
    <3>2. QED BY <2>1, <2>4, <3>1 DEF Closes
  <2>5. CASE Status(m) = "dispatched"
    <3>1. /\ Status(m)' \in {"passed", "failed"}
          /\ Effect(m)' \in {"applied", "not_applied", "unknown"}
          /\ Status(m)' = "passed" => Effect(m)' # "unknown"
      BY <2>1, <2>3 DEF Ends
    <3>2. QED BY <2>1, <2>5, <3>1 DEF Closes
  <2>6. QED BY <2>3, <2>4, <2>5
<1>5. ASSUME AbandonStep PROVE \E m \in Positions : Closes(m)
  <2>1. PICK m, s : m \in local.todo /\ FinishStep(m, s, "none") /\ s = local.as
    BY <1>5, AbandonDoes
  <2>2. m \in Positions /\ Status(m) = "pending" /\ s \in {"skipped", "aborted"}
    BY <1>5, <2>1, AbandonDoes, LocalFields DEF EndFits
  <2>3. Effect(m) = "none"
    BY <2>2 DEF RowsFit
  <2>4. Status(m)' = s /\ Effect(m)' = "none" /\ Others(m)
    BY <2>1, <2>2, FinishEnds DEF Others
  <2>5. QED BY <2>2, <2>3, <2>4 DEF Closes
<1>6. ASSUME SettleStep \/ ReconcileStep PROVE \E m \in Positions : Closes(m)
  <2>1. PICK m \in Positions : SettleRow(m)
    BY <1>6, SettleDoes, ReconcileDoes, LocalFields DEF Open
  <2>2. /\ Status(m) \in {"pending", "dispatched"} /\ Others(m)
        /\ Status(m) = "dispatched" => Status(m)' = "failed" /\ Effect(m)' = CutShort(m)
        /\ Status(m) = "pending" => Status(m)' = "skipped" /\ Effect(m)' = "none"
    BY <2>1, RowSettles DEF Others
  <2>3. Status(m) = "pending" => Effect(m) = "none"
    BY DEF RowsFit
  <2>4. CutShort(m) \in {"not_applied", "unknown"}
    BY DEF CutShort
  <2>5. QED BY <2>2, <2>3, <2>4 DEF Closes
<1>7. QED BY <1>1, <1>2, <1>3, <1>4, <1>5, <1>6, StepKept

(* The ledger's rows: those of the runbook that runs, and blank ones.      *)
LEMMA LedgerRows ==
  ASSUME TypeOK, [Next]_vars
  PROVE  /\ Positions \subseteq AllPositions
         /\ \A m \in AllPositions : m \in Nat /\ m >= 1
         /\ \A m \in Positions : Row(m).status = Status(m) /\ Row(m).effect = Effect(m)
         /\ \A m \in Positions : Row(m)'.status = Status(m)' /\ Row(m)'.effect = Effect(m)'
         /\ \A m : m \notin Positions =>
              /\ Row(m).status = "none" /\ Row(m).effect = "none"
              /\ Row(m)'.status = "none" /\ Row(m)'.effect = "none"
<1>1. Positions' = Positions
  BY PositionsFixed DEF Positions, vars
<1>2. plan \in Runbooks /\ Positions = 1..Len(plan)
  BY DEF TypeOK, Positions
<1>3. \A m \in AllPositions : \E p \in Runbooks : m \in 1..Len(p)
  BY DEF AllPositions
<1>4. \A p \in Runbooks : Len(p) \in Nat
  BY RunbooksAssumption
<1>5. \A m \in AllPositions : m \in Nat /\ m >= 1
  BY <1>3, <1>4
<1>6. Positions \subseteq AllPositions
  BY <1>2 DEF AllPositions
<1>7. \A m : /\ m \in Positions => Row(m) = step[m] /\ Row(m)' = step'[m]
             /\ m \notin Positions => /\ Row(m) = [status |-> "none", effect |-> "none"]
                                      /\ Row(m)' = [status |-> "none", effect |-> "none"]
  BY <1>1 DEF Row
<1>8. QED BY <1>5, <1>6, <1>7 DEF Status, Effect

LEMMA LedgerInit ==
  ASSUME Init
  PROVE  Rows!Init
<1>1. \A m : Row(m).status = "none" /\ Row(m).effect = "none"
  BY DEF Init, Row
<1>2. QED BY <1>1 DEF Rows!Init

LEMMA LedgerStep ==
  ASSUME EngineInv, [Next]_vars
  PROVE  [Rows!Next]_(Rows!vars)
<1>. TypeOK
  BY DEF EngineInv
<1>1. CASE UNCHANGED step
  <2>1. \A m : Row(m)' = Row(m)
    <3>1. Positions' = Positions
      BY PositionsFixed DEF Positions, vars
    <3>2. QED BY <1>1, <3>1 DEF Row
  <2>2. QED BY <2>1 DEF Rows!vars
<1>2. CASE \A m \in Positions : /\ Status(m) = "none" /\ Status(m)' = "pending"
                                /\ Effect(m)' = Effect(m)
  <2>1. Rows!Create
    BY <1>2, LedgerRows DEF Rows!Create
  <2>2. QED BY <2>1 DEF Rows!Next
<1>3. ASSUME NEW m \in Positions, Begins(m) PROVE Rows!Next
  <2>1. \A k \in AllPositions : /\ k < m => Row(k).status = "passed"
                                /\ Row(k).status # "dispatched"
    <3>1. \A k \in AllPositions : k < m => k \in Positions
      BY LedgerRows, Setting
    <3>2. QED BY <1>3, <3>1, LedgerRows DEF Begins
  <2>2. /\ Row(m).status = "pending" /\ Row(m)'.status = "dispatched"
        /\ \A k \in AllPositions : /\ k # m => Row(k)'.status = Row(k).status
                                   /\ Row(k)'.effect = Row(k).effect
    BY <1>3, LedgerRows DEF Begins, Others
  <2>3. m \in AllPositions
    BY LedgerRows
  <2>4. [k \in AllPositions |-> Row(k)'.status]
          = [[k \in AllPositions |-> Row(k).status] EXCEPT ![m] = "dispatched"]
    BY <2>2, <2>3
  <2>5. [k \in AllPositions |-> Row(k)'.effect] = [k \in AllPositions |-> Row(k).effect]
    BY <2>2
  <2>6. Rows!Start(m)
    BY <2>1, <2>2, <2>3, <2>4, <2>5 DEF Rows!Start
  <2>7. QED BY <2>3, <2>6 DEF Rows!Next
<1>4. ASSUME NEW m \in Positions, Closes(m) PROVE Rows!Next
  <2>1. PICK s, e : s = Row(m)'.status /\ e = Row(m)'.effect
    OBVIOUS
  <2>2. /\ \/ /\ Row(m).status = "dispatched" /\ s \in {"passed", "failed"}
              /\ e \in {"applied", "not_applied", "unknown"} /\ (s = "passed" => e # "unknown")
           \/ Row(m).status = "pending" /\ s = "failed" /\ e = "not_applied"
           \/ Row(m).status = "pending" /\ s \in {"skipped", "aborted"} /\ e = Row(m).effect
        /\ \A k \in AllPositions : k # m => /\ Row(k)'.status = Row(k).status
                                            /\ Row(k)'.effect = Row(k).effect
    BY <1>4, <2>1, LedgerRows DEF Closes, Others
  <2>3. m \in AllPositions
    BY LedgerRows
  <2>4. /\ [k \in AllPositions |-> Row(k)'.status]
             = [[k \in AllPositions |-> Row(k).status] EXCEPT ![m] = s]
        /\ [k \in AllPositions |-> Row(k)'.effect]
             = [[k \in AllPositions |-> Row(k).effect] EXCEPT ![m] = e]
    BY <2>1, <2>2, <2>3
  <2>5. e = Row(m).effect =>
          [k \in AllPositions |-> Row(k)'.effect] = [k \in AllPositions |-> Row(k).effect]
    BY <2>1, <2>2
  <2>6. Rows!End(m)
    BY <2>2, <2>3, <2>4, <2>5 DEF Rows!End
  <2>7. QED BY <2>3, <2>6 DEF Rows!Next
<1>5. ASSUME UNCHANGED vars PROVE UNCHANGED step
  BY <1>5 DEF vars
<1>6. QED BY <1>1, <1>2, <1>3, <1>4, <1>5, RowsFollow

(* StepsInOrder: through crashes, failing transactions and aborts, the     *)
(* rows of an execution do only what StepLedger lets them do.              *)
THEOREM StepsRefinement == Spec => StepsInOrder
<1>1. EngineInv /\ [Next]_vars => [Rows!Next]_(Rows!vars)
  BY LedgerStep
<1>2. QED BY <1>1, LedgerInit, EngineInvariant, PTL DEF Spec, StepsInOrder, Rows!Spec
=============================================================================
