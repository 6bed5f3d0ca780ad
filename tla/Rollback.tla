------------------------------ MODULE Rollback ------------------------------
(***************************************************************************)
(* Rolling a run back: command_service.rollback and _run_rollback, with    *)
(* the planning of engine.plan_rollback and _now_effect.  A run of         *)
(* service steps is carried out first (Engine models how), so that the     *)
(* rows a rollback is planned from are ones a run really leaves behind.    *)
(*                                                                         *)
(* host says which services run.  The mutation lock is PipelineLock's; a   *)
(* person at a shell does not take it.                                     *)
(***************************************************************************)
EXTENDS Naturals, SequencesExt

CONSTANTS
  Handlers,     \* request threads that may call rollback
  Services,
  Runbooks,     \* approved plans: sequences of [kind, svc]
  NoOne,
  MaxChildren,  \* bound: rollback executions of the run
  MaxCrashes,   \* bound: crashes of core
  MaxFaults,    \* bound: store transactions that raise
  MaxFlips      \* bound: services somebody starts or stops by hand

Kinds == {"start", "stop", "restart"}
Steps == [kind : Kinds, svc : Services]

ASSUME RunbooksAssumption ==
  /\ Runbooks \subseteq Seq(Steps) \ {<<>>}
  /\ IsFiniteSet(Handlers)
  /\ NoOne \notin Handlers \cup {"run", "worker"}
  /\ {"run", "worker"} \cap Handlers = {}
  /\ {MaxChildren, MaxCrashes, MaxFaults, MaxFlips} \subseteq Nat

VARIABLES
  plan,       \* the run's runbook
  rows,       \* its finished steps: kind, svc, effect, pre_state.running
  parent,     \* status of the run's execution
  children,   \* statuses of its rollback executions, oldest first
  host,       \* which services run
  owner,      \* the mutation lock: a handler, "run", "worker" or NoOne
  at,         \* where each handler is
  todo,       \* the rows whose inverse steps the rollback planned or running still has to do
  worker,     \* _run_rollback: where it is ("none": no thread)
  verdict,    \* _run_rollback: EngineResult.status
  unsure,     \* plan_rollback: services left alone, their effect unknown, by the latest rollback
  before,     \* history: which services ran before the run
  byHand,     \* history: services somebody changed since
  crossed,    \* history: a request began while another was under way
  crashes, faults, flips

execution == <<plan, rows>>
history == <<before, byHand, crossed>>
bounds == <<crashes, faults, flips>>
vars == <<plan, rows, parent, children, host, owner, at, todo, worker, verdict, unsure, before,
          byHand, crossed, crashes, faults, flips>>

Active == {"running", "verifying"}
TERMINAL_RUN_STATUSES ==
  {"passed", "failed", "aborted", "interrupted", "rolled_back", "rollback_failed"}

Init ==
  /\ plan \in Runbooks
  /\ rows = <<>>
  /\ parent = "running"
  /\ children = <<>>
  /\ host \in [Services -> BOOLEAN]
  /\ owner = "run"
  /\ at = [h \in Handlers |-> "idle"]
  /\ todo = {}
  /\ worker = "none"
  /\ verdict = "none"
  /\ unsure = {}
  /\ before = host
  /\ byHand = {}
  /\ crossed = FALSE
  /\ crashes = 0
  /\ faults = 0
  /\ flips = 0

----------------------------------------------------------------------------
(* The run.                                                                *)

Goal(s) == IF s.kind = "restart" THEN host[s.svc] ELSE s.kind = "start"

(* Mutant: every step is "applied".                                        *)
AlwaysApplied(s) == "applied"

(* A verified step: "applied" only if it changed something.                *)
EffectOf(s) == IF s.kind # "restart" /\ host[s.svc] = Goal(s) THEN "not_applied" ELSE "applied"

Ends(status) == parent' = status /\ owner' = NoOne

(* The step the run is at, and the row that notes it.                      *)
Step == plan[Len(rows) + 1]
RowOf(s, effect) == [kind |-> s.kind, svc |-> s.svc, effect |-> effect, pre |-> host[s.svc]]
Noted(effect) == rows' = Append(rows, RowOf(Step, effect))

(* A step passes, and the run goes on, is over or is aborted; it is        *)
(* refused before it did anything; it did what it should and the service   *)
(* is not healthy; or it failed and nobody knows what it did.              *)
RunStep ==
  LET s == Step
      last == Len(rows) + 1 = Len(plan)
  IN  /\ parent = "running" /\ Len(rows) < Len(plan)
      /\ \/ /\ Noted(EffectOf(s))
            /\ host' = [host EXCEPT ![s.svc] = Goal(s)]
            /\ \/ ~last /\ UNCHANGED <<parent, owner>>
               \/ ~last /\ Ends("aborted")
               \/ last /\ Ends("passed")
               \/ s.kind # "stop" /\ Ends("failed")
         \/ Noted("not_applied") /\ UNCHANGED host /\ Ends("failed")
         \/ /\ Noted("unknown")
            /\ host' \in {host, [host EXCEPT ![s.svc] = Goal(s)]}
            /\ Ends("failed")
      /\ UNCHANGED <<plan, children, at, todo, worker, verdict, unsure, history, bounds>>

----------------------------------------------------------------------------
(* engine.plan_rollback.                                                   *)

Conditional(r) == r.kind \in {"start", "stop"}
InverseVerb == [start |-> "stop", stop |-> "start"]

(* _now_effect: an unknown step checked against the host as it is now; the *)
(* host may not be readable.                                               *)
NowEffect(r, readable) ==
  LET now == host[r.svc]
      wanted == r.kind = "start"
  IN  CASE ~readable -> "unknown"
        [] readable /\ now = wanted /\ r.pre # wanted -> "applied"
        [] readable /\ now = r.pre /\ ~(now = wanted /\ r.pre # wanted) -> "not_applied"
        [] OTHER -> "unknown"

EffectNow(r, readable) == IF r.effect = "unknown" THEN NowEffect(r, readable) ELSE r.effect

(* The rows that changed the host have an inverse step, in the order       *)
(* newest row first; what cannot be told is left alone.                    *)
InverseSteps(readable) ==
  {i \in DOMAIN rows : Conditional(rows[i]) /\ EffectNow(rows[i], readable) = "applied"}

LeftAlone(readable) ==
  {rows[i].svc : i \in {n \in DOMAIN rows :
                          Conditional(rows[n]) /\ EffectNow(rows[n], readable) = "unknown"}}

IsNext(i) == i \in todo /\ \A j \in todo : j <= i

(* The inverse step of a row, done.                                        *)
Undone(i) == [host EXCEPT ![rows[i].svc] = InverseVerb[rows[i].kind] = "start"]

----------------------------------------------------------------------------
(* command_service.rollback.                                               *)

Return(h) == at' = [at EXCEPT ![h] = "idle"] /\ owner' = IF owner = h THEN NoOne ELSE owner

(* Mutant: only an active rollback counts.                                 *)
ActiveOnly == Active

(* A rollback in one of these states refuses another one.                  *)
NotAgain == Active \cup {"passed"}

(* The run's status and its children are read first ...                    *)
Check(h) ==
  /\ at[h] = "idle"
  /\ parent \in TERMINAL_RUN_STATUSES
  /\ ToSet(children) \cap NotAgain = {}
  /\ Len(children) + Cardinality({g \in Handlers : at[g] # "idle"}) < MaxChildren
  /\ at' = [at EXCEPT ![h] = "checked"]
  /\ crossed' = (crossed \/ \E g \in Handlers : at[g] # "idle")
  /\ UNCHANGED <<execution, parent, children, host, owner, todo, worker, verdict, unsure,
                 before, byHand, bounds>>

(* Mutant: nobody asks who holds the lock.                                 *)
SeizeLock(h) ==
  /\ at[h] = "checked"
  /\ owner' = h
  /\ at' = [at EXCEPT ![h] = "plan"]
  /\ UNCHANGED <<execution, parent, children, host, todo, worker, verdict, unsure, history, bounds>>

(* ... and the mutation lock is taken afterwards, or the host is busy.     *)
TakeLock(h) ==
  /\ at[h] = "checked"
  /\ IF owner = NoOne THEN owner' = h /\ at' = [at EXCEPT ![h] = "plan"] ELSE Return(h)
  /\ UNCHANGED <<execution, parent, children, host, todo, worker, verdict, unsure, history, bounds>>

(* Nothing to undo, or a target that no longer resolves, or a risk that is *)
(* forbidden by now: refused.  Otherwise the inverse runbook.              *)
Plan(h) ==
  /\ at[h] = "plan"
  /\ \/ Return(h) /\ UNCHANGED <<todo, unsure>>
     \/ \E readable \in BOOLEAN :
          /\ InverseSteps(readable) # {}
          /\ todo' = InverseSteps(readable)
          /\ unsure' = LeftAlone(readable)
          /\ at' = [at EXCEPT ![h] = "create"]
          /\ UNCHANGED owner
  /\ UNCHANGED <<execution, parent, children, host, worker, verdict, history, bounds>>

(* create_rollback_execution: the partial unique index allows one active   *)
(* rollback of a run.                                                      *)
Create(h) ==
  /\ at[h] = "create"
  /\ IF ToSet(children) \cap Active # {}
       THEN Return(h) /\ UNCHANGED children
       ELSE /\ children' = Append(children, "running")
            /\ at' = [at EXCEPT ![h] = "spawn"]
            /\ UNCHANGED owner
  /\ UNCHANGED <<execution, parent, host, todo, worker, verdict, unsure, history, bounds>>

Newest == Len(children)

Spawn(h) ==
  /\ at[h] = "spawn"
  /\ worker' = "running"
  /\ owner' = "worker"
  /\ at' = [at EXCEPT ![h] = "idle"]
  /\ UNCHANGED <<execution, parent, children, host, todo, verdict, unsure, history, bounds>>

SpawnFails(h) ==
  /\ at[h] = "spawn"
  /\ children' = [children EXCEPT ![Newest] = "failed"]
  /\ Return(h)
  /\ UNCHANGED <<execution, parent, host, todo, worker, verdict, unsure, history, bounds>>

----------------------------------------------------------------------------
(* _run_rollback.                                                          *)

UndoStep ==
  /\ worker = "running"
  /\ \E i \in todo :
       /\ IsNext(i)
       /\ \/ /\ host' = Undone(i)
             /\ todo' = todo \ {i}
             /\ UNCHANGED <<worker, verdict>>
          \/ /\ host' \in {host, Undone(i)}
             /\ \E v \in {"failed", "aborted"} : verdict' = v
             /\ worker' = "record child"
             /\ UNCHANGED todo
  /\ UNCHANGED <<execution, parent, children, owner, at, unsure, history, bounds>>

AllUndone ==
  /\ worker = "running" /\ todo = {}
  /\ verdict' = "passed"
  /\ worker' = "record child"
  /\ UNCHANGED <<execution, parent, children, host, owner, at, todo, unsure, history, bounds>>

(* Two transactions: the rollback's status, then the run's.                *)
RecordChild ==
  /\ worker = "record child"
  /\ children' = [children EXCEPT ![Newest] = verdict]
  /\ worker' = "record parent"
  /\ UNCHANGED <<execution, parent, host, owner, at, todo, verdict, unsure, history, bounds>>

RecordParent ==
  /\ worker = "record parent"
  /\ parent' = IF verdict = "passed" THEN "rolled_back" ELSE "rollback_failed"
  /\ worker' = "release"
  /\ UNCHANGED <<execution, children, host, owner, at, todo, verdict, unsure, history, bounds>>

Release ==
  /\ worker = "release"
  /\ worker' = "none"
  /\ owner' = IF owner = "worker" THEN NoOne ELSE owner
  /\ verdict' = "none"
  /\ todo' = {}
  /\ UNCHANGED <<execution, parent, children, host, at, unsure, history, bounds>>

(* A transaction raises: the except clause records "failed" twice ...      *)
Raises ==
  /\ faults < MaxFaults /\ faults' = faults + 1
  /\ \/ /\ worker \in {"running", "record child", "record parent"} /\ verdict # "crashed"
        /\ verdict' = "crashed"
        /\ worker' = "record crash"
     \/ /\ worker = "record crash"                \* ... or gives up
        /\ worker' = "release"
        /\ UNCHANGED verdict
  /\ UNCHANGED <<execution, parent, children, host, owner, at, todo, unsure, history, crashes, flips>>

RecordCrash ==
  /\ worker = "record crash"
  /\ children' = [children EXCEPT ![Newest] = "failed"]
  /\ worker' = "record parent"
  /\ UNCHANGED <<execution, parent, host, owner, at, todo, verdict, unsure, history, bounds>>

----------------------------------------------------------------------------
(* Core dies and starts again: the active child, and the run itself if it  *)
(* was still going, become interrupted; its last step has an unknown       *)
(* outcome.                                                                *)
Crash ==
  /\ crashes < MaxCrashes /\ crashes' = crashes + 1
  /\ children' = [i \in DOMAIN children |->
                    IF children[i] \in Active THEN "interrupted" ELSE children[i]]
  /\ parent' = IF parent \in Active THEN "interrupted" ELSE parent
  /\ \/ UNCHANGED <<rows, host>>
     \/ /\ parent \in Active /\ Len(rows) < Len(plan)
        /\ Noted("unknown")
        /\ host' \in {host, [host EXCEPT ![Step.svc] = Goal(Step)]}
     \/ /\ worker = "running"
        /\ \E i \in todo : IsNext(i) /\ host' = Undone(i)
        /\ UNCHANGED rows
  /\ owner' = NoOne
  /\ at' = [h \in Handlers |-> "idle"]
  /\ todo' = {}
  /\ worker' = "none"
  /\ verdict' = "none"
  /\ UNCHANGED <<plan, unsure, history, faults, flips>>

(* Somebody starts or stops a service by hand.                             *)
Flip ==
  /\ flips < MaxFlips /\ flips' = flips + 1
  /\ \E s \in Services :
       /\ host' = [host EXCEPT ![s] = ~@]
       /\ byHand' = byHand \cup {s}
  /\ UNCHANGED <<execution, parent, children, owner, at, todo, worker, verdict, unsure, before,
                 crossed, crashes, faults>>

(* Nobody asks for another rollback.                                       *)
Rest ==
  /\ worker = "none" /\ \A h \in Handlers : at[h] = "idle"
  /\ UNCHANGED vars

Request(h) == Check(h) \/ TakeLock(h) \/ Plan(h) \/ Create(h) \/ Spawn(h) \/ SpawnFails(h)
Worker == UndoStep \/ AllUndone \/ RecordChild \/ RecordParent \/ RecordCrash \/ Release

Next ==
  RunStep \/ (\E h \in Handlers : Request(h)) \/ Worker \/ Raises \/ Crash \/ Flip \/ Rest

Spec == Init /\ [][Next]_vars

(* Threads that have begun go on; a request may end at once.               *)
Proceeds(h) == TakeLock(h) \/ Plan(h) \/ Create(h) \/ Spawn(h) \/ SpawnFails(h)
FairSpec == Spec /\ WF_vars(Worker) /\ \A h \in Handlers : WF_vars(Proceeds(h))

----------------------------------------------------------------------------
(* Properties.                                                             *)

Statuses == TERMINAL_RUN_STATUSES \cup Active
Row == [kind : Kinds, svc : Services, pre : BOOLEAN,
        effect : {"applied", "not_applied", "unknown"}]

TypeOK ==
  /\ plan \in Runbooks
  /\ rows \in Seq(Row) /\ Len(rows) <= Len(plan)
  /\ parent \in Statuses
  /\ children \in Seq(Statuses) /\ Len(children) <= MaxChildren
  /\ host \in [Services -> BOOLEAN] /\ before \in [Services -> BOOLEAN]
  /\ owner \in Handlers \cup {NoOne, "run", "worker"}
  /\ at \in [Handlers -> {"idle", "checked", "plan", "create", "spawn"}]
  /\ todo \subseteq DOMAIN rows
  /\ worker \in {"none", "running", "record child", "record parent", "record crash", "release"}
  /\ verdict \in {"none", "passed", "failed", "aborted", "crashed"}
  /\ unsure \subseteq Services /\ byHand \subseteq Services /\ crossed \in BOOLEAN
  /\ crashes \in 0..MaxCrashes /\ faults \in 0..MaxFaults /\ flips \in 0..MaxFlips

(* "Rolled back" is true of the host: whichever steps ran, failed or were  *)
(* cut short, and however many rollbacks it took, each service is as it    *)
(* was before the run, unless its effect could not be told or somebody     *)
(* changed it by hand, or two requests crossed                         *)
RolledBackRestores ==
  parent = "rolled_back" /\ owner = NoOne /\ ~crossed =>
    \A s \in Services \ (unsure \cup byHand) : host[s] = before[s]

(* One rollback at a time runs, and only under the mutation lock.          *)
RollbackHoldsLock ==
  /\ worker # "none" => owner = "worker"
  /\ \A h \in Handlers : at[h] \in {"plan", "create", "spawn"} => owner = h

(* "This run was already rolled back.": it is not undone a second time.    *)
(* Two requests that cross may do so, as `rollback' reads the children     *)
(* before it takes the lock; requests that come one after the other never  *)
(* do, through crashes and faults.                                         *)
UndoneOnceApart ==
  [][Len(children') > Len(children) /\ ~crossed => "passed" \notin ToSet(children)]_vars
=============================================================================
