--------------------------- MODULE RollbackProofs ---------------------------
(***************************************************************************)
(* The safety of rollbacks for any runbook, any set of services and any    *)
(* number of requests.  RollbackInv is the inductive invariant.  Its heart *)
(* is that the rows of a run tell what the run did to the host (RowsTell), *)
(* so that the inverse steps planned from them, done newest first, end     *)
(* with each service as it was before the run (PlanRestores).              *)
(***************************************************************************)
EXTENDS Rollback, FiniteSetTheorems, SequenceTheorems, TLAPS

BusyHandlers == {h \in Handlers : at[h] \in {"checked", "plan", "create"}}
ChildrenFit == Len(children) + Cardinality(BusyHandlers) <= MaxChildren

LockIsHeld ==
  /\ RollbackHoldsLock
  /\ parent \in Active => owner = "run"

(* A row that changed, or may have changed, whether a service runs.        *)
Changed(i) == Conditional(rows[i]) /\ rows[i].effect = "applied"
Doubtful(i) == Conditional(rows[i]) /\ rows[i].effect = "unknown"
Touched(s) == \E i \in DOMAIN rows : rows[i].svc = s /\ (Changed(i) \/ Doubtful(i))

(* Where a row's inverse step leaves the service.                          *)
Back(i) == InverseVerb[rows[i].kind] = "start"

(* The first row that touched a service found it as it was before the run, *)
(* and a service no row touched is still so.                               *)
FirstFound ==
  \A i \in DOMAIN rows :
    /\ rows[i].svc \notin byHand
    /\ Changed(i) \/ Doubtful(i)
    /\ \A j \in DOMAIN rows : j < i /\ rows[j].svc = rows[i].svc => ~Changed(j)
    => rows[i].pre = before[rows[i].svc]

RowsTell ==
  /\ \A i \in DOMAIN rows : rows[i].effect = "unknown" => i = Len(rows) /\ parent \notin Active
  /\ \A i \in DOMAIN rows : Changed(i) => rows[i].pre = Back(i)
  /\ FirstFound
  /\ \A s \in Services \ byHand : ~Touched(s) => host[s] = before[s]

(* A rollback that has been planned, and not yet carried out to its end.   *)
Planned == worker = "running" \/ \E h \in Handlers : at[h] \in {"create", "spawn"}

Told == Services \ (unsure \cup byHand)

PlanRestores ==
  Planned =>
    /\ \A i \in todo : Changed(i) \/ Doubtful(i)
    /\ \A s \in Told : (\A i \in todo : rows[i].svc # s) => host[s] = before[s]
    /\ \A i \in todo : rows[i].svc \in Told
         /\ (\A j \in todo : rows[j].svc = rows[i].svc => i <= j)
         => Back(i) = before[rows[i].svc]

Restored == \A s \in Told : host[s] = before[s]

PassedRestores == worker \in {"record child", "record parent"} /\ verdict = "passed" => Restored

(* The newest rollback execution is the worker's.                          *)
ChildIsNewest ==
  /\ worker # "none" \/ (\E h \in Handlers : at[h] = "spawn") => children # <<>>
  /\ worker \in {"running", "record child"} \/ (\E h \in Handlers : at[h] = "spawn")
       => children[Len(children)] = "running"
  /\ worker = "record child" => verdict \in {"passed", "failed", "aborted"}
  /\ worker = "record crash" => verdict = "crashed"
  /\ worker = "record parent" /\ verdict = "passed" => children[Len(children)] = "passed"

(* As long as no two requests crossed: one is under way, it read children  *)
(* that still allow a rollback, and a run rolled back stays as it is.      *)
OneRequest == \A g, h \in Handlers : at[g] # "idle" /\ at[h] # "idle" => g = h

StillAllowed ==
  \A h \in Handlers : at[h] \in {"checked", "plan", "create"} => ToSet(children) \cap NotAgain = {}

RolledBackStays ==
  parent = "rolled_back" =>
    /\ \A h \in Handlers : at[h] = "idle"
    /\ worker \in {"release", "none"}
    /\ "passed" \in ToSet(children)
    /\ Restored

Apart == ~crossed => OneRequest /\ StillAllowed /\ RolledBackStays

RollbackInv ==
  /\ TypeOK
  /\ ChildrenFit
  /\ LockIsHeld
  /\ RowsTell
  /\ PlanRestores
  /\ PassedRestores
  /\ ChildIsNewest
  /\ Apart

LEMMA Setting ==
  /\ MaxChildren \in Nat /\ MaxCrashes \in Nat /\ MaxFaults \in Nat /\ MaxFlips \in Nat
  /\ NoOne \notin Handlers /\ "worker" \notin Handlers /\ "run" \notin Handlers
  /\ NoOne # "worker" /\ NoOne # "run" /\ IsFiniteSet(Handlers)
  /\ \A p \in Runbooks : p \in Seq(Steps) /\ Len(p) > 0
<1>1. \A p \in Runbooks : p \in Seq(Steps) /\ p # <<>>
  BY RunbooksAssumption
<1>2. \A p \in Runbooks : Len(p) > 0
  BY <1>1
<1> QED
  BY <1>1, <1>2, RunbooksAssumption

LEMMA Names ==
  /\ NoOne # "worker" /\ NoOne # "run"
  /\ \A h \in Handlers : h # NoOne /\ h # "worker" /\ h # "run"
BY Setting

LEMMA StartAnywhere == Init => RollbackInv
<1> SUFFICES ASSUME Init PROVE RollbackInv
  OBVIOUS
<1>1. TypeOK
  <2>1. rows \in Seq(Row) /\ children \in Seq(Statuses) /\ Len(rows) = 0 /\ Len(children) = 0
    BY DEF Init
  <2>2. Len(plan) \in Nat
    BY Setting DEF Init
  <2>3. parent \in Statuses /\ todo \subseteq DOMAIN rows
    BY DEF Init, Statuses, Active
  <2>4. /\ plan \in Runbooks /\ unsure \subseteq Services /\ byHand \subseteq Services
        /\ host \in [Services -> BOOLEAN] /\ before = host
    BY DEF Init
  <2>5. /\ at \in [Handlers -> {"idle", "checked", "plan", "create", "spawn"}]
        /\ crashes \in 0..MaxCrashes /\ faults \in 0..MaxFaults /\ flips \in 0..MaxFlips
        /\ owner \in Handlers \cup {NoOne, "run", "worker"} /\ crossed = FALSE
        /\ worker = "none" /\ verdict = "none"
    BY Setting DEF Init
  <2>6. Len(rows) <= Len(plan) /\ Len(children) <= MaxChildren
    BY <2>1, <2>2, Setting
  <2> QED
    BY <2>1, <2>3, <2>4, <2>5, <2>6 DEF TypeOK
<1>2. ChildrenFit
  <2>1. BusyHandlers = {}
    BY DEF Init, BusyHandlers
  <2> QED
    BY <2>1, FS_EmptySet, Setting DEF Init, ChildrenFit
<1>3. LockIsHeld /\ RowsTell /\ PlanRestores /\ PassedRestores /\ ChildIsNewest
  BY DEF Init, LockIsHeld, RollbackHoldsLock, RowsTell, FirstFound, PlanRestores, Planned,
         PassedRestores, ChildIsNewest
<1>4. Apart
  BY DEF Init, Apart, OneRequest, StillAllowed, RolledBackStays
<1> QED
  BY <1>1, <1>2, <1>3, <1>4 DEF RollbackInv

----------------------------------------------------------------------------
(* Types.                                                                  *)

(* The step the run is at, and the row that notes it.                      *)
LEMMA NextRow ==
  ASSUME TypeOK, Len(rows) < Len(plan)
  PROVE  /\ Step.kind \in Kinds /\ Step.svc \in Services /\ Goal(Step) \in BOOLEAN
         /\ \A e \in {"applied", "not_applied", "unknown"} : RowOf(Step, e) \in Row
<1>1. Step \in Steps
  <2>1. plan \in Seq(Steps) /\ rows \in Seq(Row)
    BY Setting DEF TypeOK
  <2>2. Len(plan) \in Nat /\ Len(rows) \in Nat
    BY <2>1
  <2>3. Len(rows) + 1 \in 1..Len(plan)
    BY <2>2
  <2> QED
    BY <2>1, <2>3 DEF Step
<1>2. Step.kind \in Kinds /\ Step.svc \in Services
  BY <1>1 DEF Steps
<1>3. host[Step.svc] \in BOOLEAN
  BY <1>2 DEF TypeOK
<1>4. Goal(Step) \in BOOLEAN
  BY <1>3 DEF Goal
<1>5. ASSUME NEW e \in {"applied", "not_applied", "unknown"}
      PROVE  RowOf(Step, e) \in Row
  BY <1>2, <1>3, <1>5 DEF Row, RowOf
<1> QED
  BY <1>2, <1>4, <1>5

(* Only the run's own step, or a crash in the middle of it, adds a row.    *)
RowsChange ==
  /\ plan' = plan /\ before' = before
  /\ \/ rows' = rows
     \/ /\ parent \in Active /\ Len(rows) < Len(plan)
        /\ \E e \in {"applied", "not_applied", "unknown"} : Noted(e)

LEMMA RowsStep == [Next]_vars => RowsChange
BY DEF Next, Request, Worker, RowsChange, RunStep, EffectOf, Ends, Active, Check, TakeLock, Plan,
       Create, Spawn, SpawnFails, UndoStep, AllUndone, RecordChild, RecordParent, RecordCrash,
       Release, Raises, Crash, Flip, Rest, vars, execution, history

LEMMA RowsTypeStep ==
  ASSUME TypeOK, RowsChange
  PROVE  /\ plan' \in Runbooks /\ rows' \in Seq(Row) /\ Len(rows') <= Len(plan')
         /\ before' \in [Services -> BOOLEAN] /\ DOMAIN rows \subseteq DOMAIN rows'
<1>1. /\ plan \in Runbooks /\ rows \in Seq(Row) /\ Len(rows) <= Len(plan)
      /\ before \in [Services -> BOOLEAN]
  BY DEF TypeOK
<1>2. Len(rows) \in Nat /\ Len(plan) \in Nat
  BY <1>1, Setting
<1>3. ASSUME Len(rows) < Len(plan), NEW r \in Row, rows' = Append(rows, r)
      PROVE  /\ rows' \in Seq(Row) /\ Len(rows') <= Len(plan)
             /\ DOMAIN rows \subseteq DOMAIN rows'
  <2>1. rows' \in Seq(Row) /\ Len(rows') = Len(rows) + 1
    BY <1>1, <1>3
  <2>2. DOMAIN rows = 1..Len(rows) /\ DOMAIN rows' = 1..Len(rows')
    BY <1>1, <2>1
  <2> QED
    BY <1>2, <1>3, <2>1, <2>2
<1>4. CASE rows' = rows
  BY <1>1, <1>4 DEF RowsChange
<1>5. CASE rows' # rows
  BY <1>1, <1>3, <1>5, NextRow DEF RowsChange, Noted
<1> QED
  BY <1>4, <1>5

LEMMA HostStep ==
  ASSUME TypeOK, [Next]_vars
  PROVE  host' \in [Services -> BOOLEAN]
<1>1. host \in [Services -> BOOLEAN] /\ todo \subseteq DOMAIN rows /\ rows \in Seq(Row)
  BY DEF TypeOK
<1>2. ASSUME NEW s, NEW b \in BOOLEAN PROVE [host EXCEPT ![s] = b] \in [Services -> BOOLEAN]
  BY <1>1
<1>3. ASSUME NEW i PROVE Undone(i) \in [Services -> BOOLEAN]
  BY <1>2 DEF Undone
<1>4. ASSUME Len(rows) < Len(plan)
      PROVE  [host EXCEPT ![Step.svc] = Goal(Step)] \in [Services -> BOOLEAN]
  BY <1>2, <1>4, NextRow
<1>5. CASE RunStep
  BY <1>1, <1>4, <1>5 DEF RunStep
<1>6. CASE UndoStep
  BY <1>1, <1>3, <1>6 DEF UndoStep
<1>7. CASE Crash
  BY <1>1, <1>3, <1>4, <1>7 DEF Crash
<1>8. CASE Flip
  BY <1>1, <1>8 DEF Flip
<1>9. ASSUME NEW h \in Handlers, Request(h) PROVE host' = host
  BY <1>9 DEF Request, Check, TakeLock, Plan, Create, Spawn, SpawnFails
<1>10. CASE \/ AllUndone \/ RecordChild \/ RecordParent \/ RecordCrash \/ Release \/ Raises
            \/ Rest \/ UNCHANGED vars
  BY <1>1, <1>10
  DEF AllUndone, RecordChild, RecordParent, RecordCrash, Release, Raises, Rest, vars
<1> QED
  BY <1>1, <1>5, <1>6, <1>7, <1>8, <1>9, <1>10 DEF Next, Worker

(* The lock, and where everybody is.                                       *)
Places == {"idle", "checked", "plan", "create", "spawn"}
Stages == {"none", "running", "record child", "record parent", "record crash", "release"}

LEMMA PlacesStep ==
  ASSUME TypeOK, [Next]_vars
  PROVE  /\ at' \in [Handlers -> Places] /\ worker' \in Stages
         /\ owner' \in Handlers \cup {NoOne, "run", "worker"}
<1>1. /\ at \in [Handlers -> Places] /\ worker \in Stages
      /\ owner \in Handlers \cup {NoOne, "run", "worker"}
  BY DEF TypeOK, Places, Stages
<1>2. at' \in [Handlers -> Places]
  BY <1>1
  DEF Next, Request, Worker, RunStep, Check, TakeLock, Plan, Create, Spawn, SpawnFails, UndoStep,
      AllUndone, RecordChild, RecordParent, RecordCrash, Release, Raises, Crash, Flip, Rest, vars,
      Return, Places
<1>3. worker' \in Stages
  BY <1>1
  DEF Next, Request, Worker, RunStep, Check, TakeLock, Plan, Create, Spawn, SpawnFails, UndoStep,
      AllUndone, RecordChild, RecordParent, RecordCrash, Release, Raises, Crash, Flip, Rest, vars,
      Stages
<1>4. owner' \in Handlers \cup {NoOne, "run", "worker"}
  BY <1>1
  DEF Next, Request, Worker, RunStep, Ends, Check, TakeLock, Plan, Create, Spawn, SpawnFails,
      UndoStep, AllUndone, RecordChild, RecordParent, RecordCrash, Release, Raises, Crash, Flip,
      Rest, vars, Return
<1> QED
  BY <1>2, <1>3, <1>4

LEMMA CountersStep ==
  ASSUME TypeOK, [Next]_vars
  PROVE  /\ parent' \in Statuses
         /\ verdict' \in {"none", "passed", "failed", "aborted", "crashed"}
         /\ crossed' \in BOOLEAN /\ byHand' \subseteq Services
         /\ crashes' \in 0..MaxCrashes /\ faults' \in 0..MaxFaults /\ flips' \in 0..MaxFlips
<1>1. /\ parent \in Statuses /\ crossed \in BOOLEAN /\ byHand \subseteq Services
      /\ verdict \in {"none", "passed", "failed", "aborted", "crashed"}
      /\ crashes \in 0..MaxCrashes /\ faults \in 0..MaxFaults /\ flips \in 0..MaxFlips
  BY DEF TypeOK
<1>2. parent' \in Statuses
  BY <1>1
  DEF Next, Request, Worker, RunStep, Ends, Check, TakeLock, Plan, Create, Spawn, SpawnFails,
      UndoStep, AllUndone, RecordChild, RecordParent, RecordCrash, Release, Raises, Crash, Flip,
      Rest, vars, Statuses, TERMINAL_RUN_STATUSES
<1>3. verdict' \in {"none", "passed", "failed", "aborted", "crashed"}
  BY <1>1
  DEF Next, Request, Worker, RunStep, Check, TakeLock, Plan, Create, Spawn, SpawnFails, UndoStep,
      AllUndone, RecordChild, RecordParent, RecordCrash, Release, Raises, Crash, Flip, Rest, vars
<1>4. crossed' \in BOOLEAN /\ byHand' \subseteq Services
  BY <1>1
  DEF Next, Request, Worker, RunStep, Check, TakeLock, Plan, Create, Spawn, SpawnFails, UndoStep,
      AllUndone, RecordChild, RecordParent, RecordCrash, Release, Raises, Crash, Flip, Rest, vars,
      history
<1>5. crashes' \in 0..MaxCrashes /\ faults' \in 0..MaxFaults /\ flips' \in 0..MaxFlips
  <2>1. /\ \/ crashes' = crashes
           \/ crashes < MaxCrashes /\ crashes' = crashes + 1
        /\ \/ faults' = faults
           \/ faults < MaxFaults /\ faults' = faults + 1
        /\ \/ flips' = flips
           \/ flips < MaxFlips /\ flips' = flips + 1
    BY DEF Next, Request, Worker, RunStep, Check, TakeLock, Plan, Create, Spawn, SpawnFails,
           UndoStep, AllUndone, RecordChild, RecordParent, RecordCrash, Release, Raises, Crash,
           Flip, Rest, vars, bounds
  <2> QED
    BY <1>1, <2>1, Setting
<1> QED
  BY <1>2, <1>3, <1>4, <1>5

LEMMA PlanStep ==
  ASSUME TypeOK, [Next]_vars
  PROVE  todo' \subseteq DOMAIN rows' /\ unsure' \subseteq Services
<1>1. rows \in Seq(Row) /\ todo \subseteq DOMAIN rows /\ unsure \subseteq Services
  BY DEF TypeOK
<1>2. \A i \in DOMAIN rows : rows[i].svc \in Services
  <2>1. \A i \in DOMAIN rows : rows[i] \in Row
    BY <1>1
  <2> QED
    BY <2>1 DEF Row
<1>3. ASSUME NEW readable
      PROVE  InverseSteps(readable) \subseteq DOMAIN rows /\ LeftAlone(readable) \subseteq Services
  BY <1>2 DEF InverseSteps, LeftAlone
<1>4. todo' \subseteq DOMAIN rows
  BY <1>1, <1>3
  DEF Next, Request, Worker, RunStep, Check, TakeLock, Plan, Create, Spawn, SpawnFails, UndoStep,
      AllUndone, RecordChild, RecordParent, RecordCrash, Release, Raises, Crash, Flip, Rest, vars
<1>5. unsure' \subseteq Services
  BY <1>1, <1>3
  DEF Next, Request, Worker, RunStep, Check, TakeLock, Plan, Create, Spawn, SpawnFails, UndoStep,
      AllUndone, RecordChild, RecordParent, RecordCrash, Release, Raises, Crash, Flip, Rest, vars
<1> QED
  BY <1>4, <1>5, RowsStep, RowsTypeStep

----------------------------------------------------------------------------
(* The rollback executions: one is created by the handler that holds the   *)
(* lock, the newest one gets a status, and a restart closes the active one.*)
Relabelled(st) == children' = [children EXCEPT ![Len(children)] = st]

Interrupted ==
  children' = [i \in DOMAIN children |-> IF children[i] \in Active THEN "interrupted" ELSE children[i]]

ChildrenChange ==
  \/ children' = children
  \/ /\ children' = Append(children, "running")
     /\ \E h \in Handlers : Create(h)
  \/ /\ children # <<>>
     /\ \/ Relabelled("failed") /\ \E h \in Handlers : SpawnFails(h)
        \/ Relabelled("failed") /\ RecordCrash
        \/ Relabelled(verdict) /\ RecordChild
  \/ Interrupted /\ Crash

LEMMA ChildrenStep ==
  ASSUME ChildIsNewest, [Next]_vars
  PROVE  ChildrenChange
<1>1. ASSUME NEW h \in Handlers, Request(h) PROVE ChildrenChange
  BY <1>1 DEF Request, Check, TakeLock, Plan, Create, Spawn, SpawnFails, ChildrenChange,
              Relabelled, ChildIsNewest, Newest
<1>2. CASE Worker
  BY <1>2 DEF Worker, UndoStep, AllUndone, RecordChild, RecordParent, RecordCrash, Release,
              ChildrenChange, Relabelled, ChildIsNewest, Newest
<1>3. CASE RunStep \/ Raises \/ Crash \/ Flip \/ Rest \/ UNCHANGED vars
  BY <1>3 DEF RunStep, Raises, Crash, Flip, Rest, vars, ChildrenChange, Interrupted
<1> QED
  BY <1>1, <1>2, <1>3 DEF Next

LEMMA ChildrenTypeStep ==
  ASSUME TypeOK, ChildIsNewest, ChildrenChange
  PROVE  /\ children' \in Seq(Statuses)
         /\ \/ Len(children') = Len(children)
            \/ /\ Len(children') = Len(children) + 1
               /\ \E h \in Handlers : Create(h)
<1>1. children \in Seq(Statuses) /\ Len(children) \in Nat
  <2>1. children \in Seq(Statuses)
    BY DEF TypeOK
  <2> QED
    BY <2>1
<1>2. "running" \in Statuses /\ "failed" \in Statuses /\ "interrupted" \in Statuses
      /\ {"passed", "failed", "aborted"} \subseteq Statuses
  BY DEF Statuses, TERMINAL_RUN_STATUSES, Active
<1>3. ASSUME NEW st \in Statuses, children # <<>>, Relabelled(st)
      PROVE  children' \in Seq(Statuses) /\ Len(children') = Len(children)
  <2>1. Len(children) \in 1..Len(children)
    BY <1>1, <1>3, EmptySeq
  <2>2. /\ [children EXCEPT ![Len(children)] = st] \in Seq(Statuses)
        /\ Len([children EXCEPT ![Len(children)] = st]) = Len(children)
    BY <1>1, <2>1, ExceptSeq
  <2> QED
    BY <1>3, <2>2 DEF Relabelled
<1>4. ASSUME children' = Append(children, "running")
      PROVE  children' \in Seq(Statuses) /\ Len(children') = Len(children) + 1
  BY <1>1, <1>2, <1>4
<1>5. ASSUME Interrupted
      PROVE  children' \in Seq(Statuses) /\ Len(children') = Len(children)
  <2>1. \A i \in 1..Len(children) : children[i] \in Statuses
    BY <1>1
  <2>2. /\ DOMAIN children = 1..Len(children) /\ DOMAIN children' = 1..Len(children)
        /\ \A i \in 1..Len(children) : children'[i] \in Statuses
    BY <1>1, <1>2, <1>5, <2>1 DEF Interrupted
  <2>3. children' \in [1..Len(children) -> Statuses]
    BY <1>1, <1>5, <2>2 DEF Interrupted
  <2> QED
    BY <1>1, <2>3
<1>6. RecordChild => verdict \in Statuses
  BY <1>2 DEF RecordChild, ChildIsNewest
<1> QED
  BY <1>1, <1>2, <1>3, <1>4, <1>5, <1>6 DEF ChildrenChange

----------------------------------------------------------------------------
(* The lock.                                                               *)
LEMMA LockStep ==
  ASSUME TypeOK, LockIsHeld, [Next]_vars
  PROVE  LockIsHeld'
<1>1. at \in [Handlers -> Places]
  BY DEF TypeOK, Places
<1>2. /\ worker # "none" => owner = "worker"
      /\ \A h \in Handlers : at[h] \in {"plan", "create", "spawn"} => owner = h
      /\ parent \in Active => owner = "run"
  BY DEF LockIsHeld, RollbackHoldsLock
<1> DEFINE Inv == /\ worker # "none" => owner = "worker"
                  /\ \A h \in Handlers : at[h] \in {"plan", "create", "spawn"} => owner = h
                  /\ parent \in Active => owner = "run"
<1>i. SUFFICES Inv'
  BY DEF LockIsHeld, RollbackHoldsLock
<1>3. CASE RunStep
  BY <1>2, <1>3, Names DEF RunStep, Ends, Active
<1>4. ASSUME NEW h \in Handlers, Check(h) PROVE Inv'
  BY <1>1, <1>2, <1>4, Names DEF Check
<1>5. ASSUME NEW h \in Handlers, TakeLock(h) PROVE Inv'
  BY <1>1, <1>2, <1>5, Names DEF TakeLock, Return
<1>6. ASSUME NEW h \in Handlers, Plan(h) PROVE Inv'
  BY <1>1, <1>2, <1>6, Names DEF Plan, Return
<1>7. ASSUME NEW h \in Handlers, Create(h) PROVE Inv'
  BY <1>1, <1>2, <1>7, Names DEF Create, Return
<1>8. ASSUME NEW h \in Handlers, Spawn(h) PROVE Inv'
  BY <1>1, <1>2, <1>8, Names DEF Spawn
<1>9. ASSUME NEW h \in Handlers, SpawnFails(h) PROVE Inv'
  BY <1>1, <1>2, <1>9, Names DEF SpawnFails, Return
<1>10. CASE UndoStep \/ AllUndone \/ RecordChild \/ RecordParent \/ RecordCrash \/ Raises
  BY <1>2, <1>10, Names
  DEF UndoStep, AllUndone, RecordChild, RecordParent, RecordCrash, Raises, Active
<1>11. CASE Release
  BY <1>2, <1>11, Names DEF Release
<1>12. CASE Crash
  BY <1>12 DEF Crash, Active
<1>13. CASE Flip \/ Rest \/ UNCHANGED vars
  BY <1>2, <1>13 DEF Flip, Rest, vars
<1> QED
  BY <1>3, <1>4, <1>5, <1>6, <1>7, <1>8, <1>9, <1>10, <1>11, <1>12, <1>13
  DEF Next, Request, Worker

(* Nobody creates an execution while a worker has one.                     *)
LEMMA NewestStep ==
  ASSUME TypeOK, LockIsHeld, ChildIsNewest, [Next]_vars
  PROVE  ChildIsNewest'
<1>1. at \in [Handlers -> Places] /\ children \in Seq(Statuses)
  BY DEF TypeOK, Places
<1>2. /\ worker # "none" => owner = "worker"
      /\ \A h \in Handlers : at[h] \in {"plan", "create", "spawn"} => owner = h
  BY DEF LockIsHeld, RollbackHoldsLock
<1>a. \A st : children # <<>> /\ Relabelled(st)
                => children' # <<>> /\ children'[Len(children')] = st
  <2> SUFFICES ASSUME NEW st, children # <<>>, Relabelled(st)
               PROVE  children' # <<>> /\ children'[Len(children')] = st
    OBVIOUS
  <2>1. Len(children) \in DOMAIN children
    BY <1>1, EmptySeq
  <2>2. DOMAIN children' = DOMAIN children /\ children'[Len(children)] = st
    BY <2>1 DEF Relabelled
  <2>3. Len(children') = Len(children) /\ children' # <<>>
    BY <1>1, <2>1, <2>2 DEF Relabelled
  <2> QED
    BY <2>2, <2>3
<1>b. children' = Append(children, "running")
        => children' # <<>> /\ children'[Len(children')] = "running"
  BY <1>1
<1>3. ASSUME NEW h \in Handlers, Create(h) PROVE ChildIsNewest'
  <2>1. worker' = worker /\ worker = "none" /\ owner = h /\ at[h] = "create" /\ verdict' = verdict
    BY <1>2, <1>3, Names DEF Create
  <2>2. \A g \in Handlers : at[g] # "spawn"
    BY <1>2, <2>1
  <2> QED
    BY <1>1, <1>3, <1>b, <2>1, <2>2 DEF Create, Return, ChildIsNewest
<1>4. ASSUME NEW h \in Handlers, Spawn(h) PROVE ChildIsNewest'
  BY <1>1, <1>4 DEF Spawn, ChildIsNewest
<1>5. ASSUME NEW h \in Handlers, SpawnFails(h) PROVE ChildIsNewest'
  <2>1. worker' = worker /\ worker = "none" /\ owner = h /\ at[h] = "spawn"
    BY <1>2, <1>5, Names DEF SpawnFails
  <2>2. \A g \in Handlers : at'[g] # "spawn"
    BY <1>1, <1>2, <1>5, <2>1 DEF SpawnFails, Return
  <2> QED
    BY <2>1, <2>2 DEF ChildIsNewest
<1>6. ASSUME NEW h \in Handlers, Check(h) \/ TakeLock(h) \/ Plan(h) PROVE ChildIsNewest'
  <2>1. UNCHANGED <<worker, children, verdict>>
    BY <1>6 DEF Check, TakeLock, Plan
  <2>2. \A g \in Handlers : at'[g] = "spawn" => at[g] = "spawn"
    BY <1>1, <1>6 DEF Check, TakeLock, Plan, Return
  <2> QED
    BY <2>1, <2>2 DEF ChildIsNewest
<1>7. CASE RunStep \/ Flip \/ Rest \/ UNCHANGED vars
  BY <1>7 DEF RunStep, Flip, Rest, vars, ChildIsNewest
<1>8. CASE Crash
  BY <1>8 DEF Crash, ChildIsNewest
<1>9. ASSUME Worker \/ Raises, worker # "none"
      PROVE  at' = at /\ \A g \in Handlers : at[g] # "spawn"
  BY <1>2, <1>9, Names
  DEF Worker, UndoStep, AllUndone, RecordChild, RecordParent, RecordCrash, Release, Raises
<1>10. Worker \/ Raises => worker # "none"
  BY DEF Worker, UndoStep, AllUndone, RecordChild, RecordParent, RecordCrash, Release, Raises
<1>11. CASE UndoStep \/ AllUndone \/ RecordParent \/ Release \/ Raises
  BY <1>9, <1>10, <1>11
  DEF Worker, UndoStep, AllUndone, RecordParent, Release, Raises, ChildIsNewest
<1>12. CASE RecordChild \/ RecordCrash
  <2>1. /\ worker' = "record parent" /\ verdict' = verdict /\ children # <<>>
        /\ \/ Relabelled(verdict)
           \/ Relabelled("failed") /\ verdict = "crashed"
    BY <1>12 DEF RecordChild, RecordCrash, ChildIsNewest, Relabelled, Newest
  <2>2. children' # <<>> /\ (verdict = "passed" => children'[Len(children')] = "passed")
    BY <1>a, <2>1
  <2>3. \A g \in Handlers : at'[g] # "spawn"
    BY <1>9, <1>10, <1>12 DEF Worker
  <2> QED
    BY <2>1, <2>2, <2>3 DEF ChildIsNewest
<1> QED
  BY <1>3, <1>4, <1>5, <1>6, <1>7, <1>8, <1>11, <1>12 DEF Next, Request, Worker

(* At most MaxChildren rollbacks of a run are ever created or being asked  *)
(* for.                                                                    *)
LEMMA FitStep ==
  ASSUME TypeOK, ChildrenFit, ChildIsNewest, [Next]_vars
  PROVE  ChildrenFit' /\ Len(children') <= MaxChildren
<1>1. at \in [Handlers -> Places]
  BY DEF TypeOK, Places
<1>2. MaxChildren \in Nat /\ Len(children) \in Nat
  <2>1. children \in Seq(Statuses)
    BY DEF TypeOK
  <2> QED
    BY <2>1, Setting
<1>3. /\ \/ Len(children') = Len(children)
         \/ /\ Len(children') = Len(children) + 1
            /\ \E h \in Handlers : Create(h)
      /\ Len(children') \in Nat
  BY <1>2, ChildrenStep, ChildrenTypeStep
<1> DEFINE Busy == {h \in Handlers : at[h] # "idle"}
<1>4. /\ IsFiniteSet(Handlers) /\ IsFiniteSet(BusyHandlers) /\ IsFiniteSet(BusyHandlers')
      /\ IsFiniteSet(Busy)
  <2>1. /\ BusyHandlers \subseteq Handlers /\ BusyHandlers' \subseteq Handlers
        /\ Busy \subseteq Handlers
    BY DEF BusyHandlers
  <2> QED
    <3>1. IsFiniteSet(Handlers)
      BY Setting
    <3> QED
      BY <2>1, <3>1, FS_Subset
<1>5. /\ Cardinality(BusyHandlers) \in Nat /\ Cardinality(BusyHandlers') \in Nat
      /\ Cardinality(Busy) \in Nat
  BY <1>4, FS_CardinalityType
<1>6. ASSUME BusyHandlers' \subseteq BusyHandlers, Len(children') = Len(children)
      PROVE  ChildrenFit'
  <2>1. Cardinality(BusyHandlers') <= Cardinality(BusyHandlers)
    BY <1>4, <1>6, FS_Subset
  <2> QED
    BY <1>2, <1>5, <1>6, <2>1 DEF ChildrenFit
<1>7. ASSUME NEW h \in Handlers, Check(h) PROVE ChildrenFit'
  <2>1. Len(children') = Len(children) /\ Len(children) + Cardinality(Busy) < MaxChildren
    <3>1. children' = children
      BY <1>7 DEF Check
    <3>2. Len(children) + Cardinality(Busy) < MaxChildren
      BY <1>7 DEF Check
    <3> QED
      BY <3>1, <3>2
  <2>2. BusyHandlers' \subseteq Busy \cup {h}
    BY <1>1, <1>7 DEF Check, BusyHandlers
  <2> HIDE DEF Busy
  <2>3. IsFiniteSet(Busy \cup {h}) /\ Cardinality(Busy \cup {h}) <= Cardinality(Busy) + 1
    <3>1. /\ IsFiniteSet(Busy \cup {h})
          /\ Cardinality(Busy \cup {h}) =
               IF h \in Busy THEN Cardinality(Busy) ELSE Cardinality(Busy) + 1
      BY <1>4, FS_AddElement
    <3> QED
      BY <1>5, <3>1
  <2>4. Cardinality(BusyHandlers') <= Cardinality(Busy \cup {h})
    BY <2>2, <2>3, FS_Subset
  <2>5. Cardinality(Busy \cup {h}) \in Nat
    BY <2>3, FS_CardinalityType
  <2> QED
    BY <1>2, <1>5, <2>1, <2>3, <2>4, <2>5 DEF ChildrenFit
<1>8. ASSUME NEW h \in Handlers, Create(h) PROVE ChildrenFit'
  <2>1. h \in BusyHandlers /\ BusyHandlers' \subseteq BusyHandlers \ {h}
    BY <1>1, <1>8 DEF Create, Return, BusyHandlers
  <2>2. /\ IsFiniteSet(BusyHandlers \ {h})
        /\ Cardinality(BusyHandlers \ {h}) = Cardinality(BusyHandlers) - 1
    BY <1>4, <2>1, FS_RemoveElement
  <2>3. Cardinality(BusyHandlers') <= Cardinality(BusyHandlers \ {h})
    BY <2>1, <2>2, FS_Subset
  <2> QED
    BY <1>2, <1>3, <1>5, <2>2, <2>3 DEF ChildrenFit
<1>9. ASSUME ~\E h \in Handlers : Check(h) \/ Create(h)
      PROVE  BusyHandlers' \subseteq BusyHandlers
  BY <1>1, <1>9
  DEF Next, Request, Worker, RunStep, TakeLock, Plan, Spawn, SpawnFails, UndoStep, AllUndone,
      RecordChild, RecordParent, RecordCrash, Release, Raises, Crash, Flip, Rest, vars, Return,
      BusyHandlers
<1>10. ChildrenFit'
  BY <1>3, <1>6, <1>7, <1>8, <1>9
<1> QED
  BY <1>2, <1>3, <1>5, <1>10 DEF ChildrenFit

LEMMA TypeStep ==
  ASSUME TypeOK, ChildrenFit, ChildIsNewest, [Next]_vars
  PROVE  TypeOK'
<1>1. /\ plan' \in Runbooks /\ rows' \in Seq(Row) /\ Len(rows') <= Len(plan')
      /\ before' \in [Services -> BOOLEAN]
  BY RowsStep, RowsTypeStep
<1>2. children' \in Seq(Statuses) /\ Len(children') <= MaxChildren
  BY ChildrenStep, ChildrenTypeStep, FitStep
<1>3. host' \in [Services -> BOOLEAN] /\ todo' \subseteq DOMAIN rows' /\ unsure' \subseteq Services
  BY HostStep, PlanStep
<1> QED
  BY <1>1, <1>2, <1>3, PlacesStep, CountersStep DEF TypeOK, Places, Stages

----------------------------------------------------------------------------
(* What the rows tell.  A step of the run, or a crash in the middle of it: *)
Ran(e) ==
  /\ parent \in Active /\ Len(rows) < Len(plan) /\ Noted(e)
  /\ host' \in {host, [host EXCEPT ![Step.svc] = Goal(Step)]}
  /\ e = "applied" => EffectOf(Step) = "applied"
  /\ e = "not_applied" => host' = host \/ EffectOf(Step) = "not_applied"
  /\ e = "unknown" => parent' \notin Active
  /\ byHand' = byHand

(* ... and every other step leaves the services the run did not touch to   *)
(* the people at a shell.                                                  *)
Quiet ==
  /\ rows' = rows /\ byHand \subseteq byHand'
  /\ parent' \in Active => parent \in Active
  /\ \A s \in Services \ byHand' : host'[s] = host[s] \/ Touched(s)

LEMMA HostChange ==
  ASSUME TypeOK, PlanRestores, [Next]_vars
  PROVE  Quiet \/ \E e \in {"applied", "not_applied", "unknown"} : Ran(e)
<1>1. host \in [Services -> BOOLEAN] /\ todo \subseteq DOMAIN rows
  BY DEF TypeOK
<1>2. CASE RunStep
  <2>1. EffectOf(Step) \in {"applied", "not_applied"}
    BY DEF EffectOf
  <2> QED
    BY <1>2, <2>1 DEF RunStep, Ran, Ends, Active, history
<1>3. ASSUME worker = "running", NEW i \in todo, host' \in {host, Undone(i)}
      PROVE  \A s \in Services : host'[s] = host[s] \/ Touched(s)
  <2>1. Changed(i) \/ Doubtful(i)
    BY <1>3 DEF PlanRestores, Planned
  <2>2. Touched(rows[i].svc)
    BY <1>1, <1>3, <2>1 DEF Touched
  <2> QED
    BY <1>1, <1>3, <2>2 DEF Undone
<1>4. CASE UndoStep
  <2>1. PICK i \in todo : host' \in {host, Undone(i)} /\ worker = "running"
    BY <1>4 DEF UndoStep
  <2>2. \A s \in Services : host'[s] = host[s] \/ Touched(s)
    BY <1>3, <2>1
  <2> QED
    BY <1>4, <2>2 DEF UndoStep, execution, history, Quiet
<1>5. CASE Crash
  <2>1. parent' \notin Active /\ byHand' = byHand
    BY <1>5 DEF Crash, Active, history
  <2>2. CASE rows' = rows
    <3>1. \/ host' = host
          \/ worker = "running" /\ \E i \in todo : host' = Undone(i)
          \/ \E e \in {"applied", "not_applied", "unknown"} : Ran(e)
      BY <1>5, <2>1 DEF Crash, Ran
    <3>2. \/ \A s \in Services : host'[s] = host[s] \/ Touched(s)
          \/ \E e \in {"applied", "not_applied", "unknown"} : Ran(e)
      BY <1>3, <3>1
    <3> QED
      BY <2>1, <2>2, <3>2 DEF Quiet
  <2>3. CASE rows' # rows
    BY <1>5, <2>1, <2>3 DEF Crash, Ran
  <2> QED
    BY <2>2, <2>3
<1>6. CASE Flip
  BY <1>1, <1>6 DEF Flip, Quiet, execution
<1>7. ASSUME NEW h \in Handlers, Request(h) PROVE Quiet
  BY <1>7 DEF Request, Check, TakeLock, Plan, Create, Spawn, SpawnFails, Quiet, execution, history
<1>8. CASE \/ AllUndone \/ RecordChild \/ RecordParent \/ RecordCrash \/ Release \/ Raises
           \/ Rest \/ UNCHANGED vars
  BY <1>8
  DEF AllUndone, RecordChild, RecordParent, RecordCrash, Release, Raises, Rest, vars, Quiet,
      execution, history, Active
<1> QED
  BY <1>2, <1>4, <1>5, <1>6, <1>7, <1>8 DEF Next, Worker

LEMMA RowsTellStep ==
  ASSUME TypeOK, RowsTell, PlanRestores, [Next]_vars
  PROVE  RowsTell'
<1>1. /\ rows \in Seq(Row) /\ host \in [Services -> BOOLEAN] /\ before' = before
      /\ byHand \subseteq Services
  BY RowsStep DEF TypeOK, RowsChange
<1>2. CASE Quiet
  <2>1. \A i : (Changed(i)' <=> Changed(i)) /\ (Doubtful(i)' <=> Doubtful(i)) /\ Back(i)' = Back(i)
    BY <1>2 DEF Quiet, Changed, Doubtful, Back
  <2>2. \A s : Touched(s)' <=> Touched(s)
    BY <1>2, <2>1 DEF Quiet, Touched
  <2>3. FirstFound'
    BY <1>1, <1>2, <2>1 DEF Quiet, RowsTell, FirstFound
  <2>4. \A s \in Services \ byHand' : ~Touched(s)' => host'[s] = before'[s]
    BY <1>1, <1>2, <2>2 DEF Quiet, RowsTell
  <2> QED
    BY <1>2, <2>1, <2>3, <2>4 DEF Quiet, RowsTell
<1>3. ASSUME NEW e \in {"applied", "not_applied", "unknown"}, Ran(e)
      PROVE  RowsTell'
  <2>n. PICK n \in Nat : n = Len(rows) + 1
    BY <1>1
  <2>v. PICK v \in Services : v = Step.svc
    BY <1>3, NextRow DEF Ran
  <2>1. /\ RowOf(Step, e) \in Row /\ Step.kind \in Kinds
        /\ Goal(Step) \in BOOLEAN /\ rows' = Append(rows, RowOf(Step, e))
    BY <1>3, NextRow DEF Ran, Noted
  <2>2. /\ DOMAIN rows' = DOMAIN rows \cup {n} /\ rows'[n] = RowOf(Step, e)
        /\ \A i \in DOMAIN rows : rows'[i] = rows[i] /\ i < n
        /\ Len(rows') = n /\ n \notin DOMAIN rows
    BY <1>1, <2>n, <2>1
  <2>3. /\ rows'[n].kind = Step.kind /\ rows'[n].svc = v /\ rows'[n].effect = e
        /\ rows'[n].pre = host[v]
    BY <2>2, <2>v DEF RowOf
  <2>4. \A i \in DOMAIN rows :
          (Changed(i)' <=> Changed(i)) /\ (Doubtful(i)' <=> Doubtful(i)) /\ Back(i)' = Back(i)
    BY <2>2 DEF Changed, Doubtful, Back
  <2>5. \A i \in DOMAIN rows : ~Doubtful(i) /\ rows[i].effect # "unknown"
    BY <1>3 DEF Ran, RowsTell, Doubtful
  <2>6. byHand' = byHand /\ parent \in Active /\ (e = "unknown" => parent' \notin Active)
    BY <1>3 DEF Ran
  <2>7. Changed(n)' => host[v] = Back(n)'
    <3>1. SUFFICES ASSUME Changed(n)' PROVE host[v] = Back(n)'
      OBVIOUS
    <3>2. Step.kind \in {"start", "stop"} /\ e = "applied"
      BY <2>3, <3>1 DEF Changed, Conditional
    <3>3. host[v] # Goal(Step)
      BY <1>3, <2>v, <3>2 DEF Ran, EffectOf
    <3>4. Goal(Step) = (Step.kind = "start") /\ host[v] \in BOOLEAN
      BY <1>1, <3>2 DEF Goal
    <3>5. Back(n)' = (InverseVerb[Step.kind] = "start")
      BY <2>3 DEF Back
    <3>6. CASE Step.kind = "start"
      BY <3>3, <3>4, <3>5, <3>6 DEF InverseVerb
    <3>7. CASE Step.kind = "stop"
      BY <3>3, <3>4, <3>5, <3>7 DEF InverseVerb
    <3> QED
      BY <3>2, <3>6, <3>7
  <2>8. ASSUME v \notin byHand, \A j \in DOMAIN rows : rows[j].svc = v => ~Changed(j)
        PROVE  host[v] = before[v]
    <3>1. ~Touched(v)
      BY <2>5, <2>8 DEF Touched
    <3> QED
      BY <2>8, <3>1 DEF RowsTell
  <2>9. ASSUME NEW s \in Services \ byHand, ~Touched(s)'
        PROVE  host'[s] = before'[s]
    <3>1. ~Touched(s)
      BY <2>2, <2>4, <2>9 DEF Touched
    <3>2. host[s] = before[s]
      BY <2>9, <3>1 DEF RowsTell
    <3>3. CASE host' = host \/ s # v
      BY <1>1, <1>3, <2>v, <3>2, <3>3 DEF Ran
    <3>4. CASE host' # host /\ s = v
      <4>1. ~Changed(n)' /\ ~Doubtful(n)'
        BY <2>2, <2>3, <2>9, <3>4 DEF Touched
      <4>2. Step.kind = "restart" \/ e = "not_applied"
        BY <2>1, <2>3, <4>1 DEF Changed, Doubtful, Conditional, Kinds
      <4>3. host[v] = Goal(Step)
        BY <1>3, <2>v, <3>4, <4>2 DEF Ran, EffectOf, Goal
      <4> QED
        BY <1>1, <1>3, <2>v, <3>2, <3>4, <4>3 DEF Ran
    <3> QED
      BY <3>3, <3>4
  <2>10. FirstFound'
    <3> SUFFICES ASSUME NEW i \in DOMAIN rows', rows'[i].svc \notin byHand,
                        Changed(i)' \/ Doubtful(i)',
                        \A j \in DOMAIN rows' : j < i /\ rows'[j].svc = rows'[i].svc => ~Changed(j)'
                 PROVE  rows'[i].pre = before[rows'[i].svc]
      BY <1>1, <2>6 DEF FirstFound
    <3>1. CASE i \in DOMAIN rows
      BY <2>2, <2>4, <3>1 DEF RowsTell, FirstFound
    <3>2. CASE i = n
      BY <2>2, <2>3, <2>4, <2>8, <3>2
    <3> QED
      BY <2>2, <3>1, <3>2
  <2>11. \A i \in DOMAIN rows' : rows'[i].effect = "unknown" => i = Len(rows') /\ parent' \notin Active
    BY <2>2, <2>3, <2>5, <2>6
  <2>12. \A i \in DOMAIN rows' : Changed(i)' => rows'[i].pre = Back(i)'
    BY <2>2, <2>3, <2>4, <2>7 DEF RowsTell
  <2> QED
    BY <2>6, <2>9, <2>10, <2>11, <2>12 DEF RowsTell
<1> QED
  BY <1>2, <1>3, HostChange

----------------------------------------------------------------------------
(* The plan.  Inverse steps of the rows that changed the host, newest      *)
(* first, end with each service as the oldest of them found it.            *)
LEMMA FreshPlan ==
  ASSUME TypeOK, RowsTell, NEW readable \in BOOLEAN,
         NEW Undo, Undo = InverseSteps(readable), NEW Left, Left = LeftAlone(readable)
  PROVE  /\ \A i \in Undo : Changed(i) \/ Doubtful(i)
         /\ \A s \in Services \ (Left \cup byHand) :
              (\A i \in Undo : rows[i].svc # s) => host[s] = before[s]
         /\ \A i \in Undo : rows[i].svc \in Services \ (Left \cup byHand)
              /\ (\A j \in Undo : rows[j].svc = rows[i].svc => i <= j)
              => Back(i) = before[rows[i].svc]
<1>1. /\ \A i \in DOMAIN rows : rows[i] \in Row /\ i \in Nat
      /\ host \in [Services -> BOOLEAN]
  <2>1. rows \in Seq(Row) /\ host \in [Services -> BOOLEAN]
    BY DEF TypeOK
  <2> QED
    BY <2>1
<1>2. \A i \in DOMAIN rows : /\ rows[i].effect \in {"applied", "not_applied", "unknown"}
                             /\ rows[i].pre \in BOOLEAN
  BY <1>1 DEF Row
<1>3. \A i \in Undo : i \in DOMAIN rows /\ (Changed(i) \/ Doubtful(i))
  BY <1>2 DEF InverseSteps, EffectNow, Changed, Doubtful
<1>4. \A i \in DOMAIN rows : Changed(i) => i \in Undo
  BY DEF InverseSteps, EffectNow, Changed
<1>5. \A i \in DOMAIN rows : Doubtful(i) => \/ i \in Undo
                                            \/ rows[i].svc \in Left
                                            \/ host[rows[i].svc] = rows[i].pre
  <2> SUFFICES ASSUME NEW i \in DOMAIN rows, Doubtful(i), i \notin Undo, rows[i].svc \notin Left
               PROVE  host[rows[i].svc] = rows[i].pre
    OBVIOUS
  <2>1. NowEffect(rows[i], readable) \notin {"applied", "unknown"}
    BY DEF InverseSteps, LeftAlone, EffectNow, Doubtful
  <2> QED
    BY <2>1 DEF NowEffect
<1>6. \A i \in Undo : Back(i) = rows[i].pre
  <2> SUFFICES ASSUME NEW i \in Undo PROVE Back(i) = rows[i].pre
    OBVIOUS
  <2>1. CASE Changed(i)
    BY <1>3, <2>1 DEF RowsTell
  <2>2. CASE Doubtful(i)
    <3>1. NowEffect(rows[i], readable) = "applied" /\ rows[i].kind \in {"start", "stop"}
      BY <2>2 DEF InverseSteps, EffectNow, Doubtful, Conditional
    <3>2. rows[i].pre # (rows[i].kind = "start")
      BY <3>1 DEF NowEffect
    <3>3. CASE rows[i].kind = "start"
      BY <1>2, <1>3, <3>2, <3>3 DEF Back, InverseVerb
    <3>4. CASE rows[i].kind = "stop"
      BY <1>2, <1>3, <3>2, <3>4 DEF Back, InverseVerb
    <3> QED
      BY <3>1, <3>3, <3>4
  <2> QED
    BY <1>3, <2>1, <2>2
<1>7. ASSUME NEW s \in Services \ (Left \cup byHand), \A i \in Undo : rows[i].svc # s
      PROVE  host[s] = before[s]
  <2>1. CASE ~Touched(s)
    BY <1>7, <2>1 DEF RowsTell
  <2>2. CASE Touched(s)
    <3>1. PICK i \in DOMAIN rows : rows[i].svc = s /\ (Changed(i) \/ Doubtful(i))
      BY <2>2 DEF Touched
    <3>2. \A j \in DOMAIN rows : rows[j].svc = s => ~Changed(j)
      BY <1>4, <1>7
    <3>3. host[s] = rows[i].pre
      BY <1>5, <1>7, <3>1, <3>2
    <3>4. rows[i].pre = before[s]
      BY <1>7, <3>1, <3>2 DEF RowsTell, FirstFound
    <3> QED
      BY <3>3, <3>4
  <2> QED
    BY <2>1, <2>2
<1>8. ASSUME NEW i \in Undo, rows[i].svc \notin byHand,
             \A j \in Undo : rows[j].svc = rows[i].svc => i <= j
      PROVE  Back(i) = before[rows[i].svc]
  <2>1. \A j \in DOMAIN rows : j < i /\ rows[j].svc = rows[i].svc => ~Changed(j)
    BY <1>1, <1>3, <1>4, <1>8
  <2>2. rows[i].pre = before[rows[i].svc]
    BY <1>3, <1>8, <2>1 DEF RowsTell, FirstFound
  <2> QED
    BY <1>6, <2>2
<1> QED
  BY <1>3, <1>7, <1>8

LEMMA RestoreStep ==
  ASSUME TypeOK, LockIsHeld, RowsTell, PlanRestores, PassedRestores, ChildIsNewest, [Next]_vars
  PROVE  PlanRestores' /\ PassedRestores'
<1>1. /\ at \in [Handlers -> Places] /\ host \in [Services -> BOOLEAN]
      /\ rows \in Seq(Row) /\ todo \subseteq DOMAIN rows /\ before' = before
  BY RowsStep DEF TypeOK, Places, RowsChange
<1>2. /\ worker # "none" => owner = "worker"
      /\ \A h \in Handlers : at[h] \in {"plan", "create", "spawn"} => owner = h
      /\ parent \in Active => owner = "run"
  BY DEF LockIsHeld, RollbackHoldsLock
<1>3. DOMAIN rows \subseteq Nat /\ \A i \in DOMAIN rows : rows[i].svc \in Services
  <2>1. \A i \in DOMAIN rows : rows[i] \in Row /\ i \in Nat
    BY <1>1
  <2> QED
    BY <2>1 DEF Row
(* A step that leaves rows, plan and host alone keeps both.                *)
<1>4. ASSUME rows' = rows, unsure' = unsure, byHand \subseteq byHand',
             \A s \in Services \ byHand' : host'[s] = host[s]
      PROVE  /\ todo' = todo /\ (Planned' => Planned) => PlanRestores'
             /\ Restored => Restored'
  <2>1. \A i : /\ Changed(i)' <=> Changed(i)
               /\ Doubtful(i)' <=> Doubtful(i)
               /\ Back(i)' = Back(i)
    BY <1>4 DEF Changed, Doubtful, Back
  <2>2. Told' \subseteq Told /\ \A s \in Told' : host'[s] = host[s]
    BY <1>4 DEF Told
  <2>3. ASSUME todo' = todo, Planned' => Planned PROVE PlanRestores'
    <3> SUFFICES ASSUME Planned PROVE PlanRestores'
      BY <2>3 DEF PlanRestores
    <3>1. \A i \in todo' : Changed(i)' \/ Doubtful(i)'
      BY <2>1, <2>3 DEF PlanRestores
    <3>2. \A s \in Told' : (\A i \in todo' : rows'[i].svc # s) => host'[s] = before'[s]
      BY <1>1, <1>4, <2>2, <2>3 DEF PlanRestores
    <3>3. \A i \in todo' : rows'[i].svc \in Told'
                             /\ (\A j \in todo' : rows'[j].svc = rows'[i].svc => i <= j)
                           => Back(i)' = before'[rows'[i].svc]
      BY <1>1, <1>4, <2>1, <2>2, <2>3 DEF PlanRestores
    <3> QED
      BY <3>1, <3>2, <3>3 DEF PlanRestores
  <2> QED
    BY <1>1, <2>2, <2>3 DEF Restored
<1>5. ASSUME NEW h \in Handlers, Plan(h) PROVE PlanRestores' /\ PassedRestores'
  <2>1. /\ worker = "none" /\ worker' = "none"
        /\ UNCHANGED <<rows, byHand, host>>
    BY <1>2, <1>5, Names DEF Plan, execution, history
  <2>2. \A g \in Handlers : at'[g] \notin {"create", "spawn"} \/ g = h
    BY <1>1, <1>2, <1>5, Names DEF Plan, Return
  <2>3. CASE at'[h] # "create"
    <3>1. ~Planned'
      BY <1>1, <1>5, <2>1, <2>2, <2>3 DEF Plan, Return, Planned
    <3> QED
      BY <2>1, <3>1 DEF PlanRestores, PassedRestores
  <2>4. CASE at'[h] = "create"
    <3>1. PICK readable \in BOOLEAN :
            todo' = InverseSteps(readable) /\ unsure' = LeftAlone(readable)
      BY <1>1, <1>5, <2>4 DEF Plan, Return
    <3>2. /\ \A i \in todo' : Changed(i) \/ Doubtful(i)
          /\ \A s \in Services \ (unsure' \cup byHand) :
               (\A i \in todo' : rows[i].svc # s) => host[s] = before[s]
          /\ \A i \in todo' : rows[i].svc \in Services \ (unsure' \cup byHand)
               /\ (\A j \in todo' : rows[j].svc = rows[i].svc => i <= j)
               => Back(i) = before[rows[i].svc]
      BY <3>1, FreshPlan
    <3>3. \A i : (Changed(i)' <=> Changed(i)) /\ (Doubtful(i)' <=> Doubtful(i)) /\ Back(i)' = Back(i)
      BY <2>1 DEF Changed, Doubtful, Back
    <3>4. Told' = Services \ (unsure' \cup byHand)
      BY <2>1 DEF Told
    <3> QED
      BY <1>1, <2>1, <3>2, <3>3, <3>4 DEF PlanRestores, PassedRestores
  <2> QED
    BY <2>3, <2>4
<1>6. CASE UndoStep
  <2>1. PICK i \in todo :
          /\ IsNext(i)
          /\ \/ host' = Undone(i) /\ todo' = todo \ {i} /\ UNCHANGED <<worker, verdict>>
             \/ verdict' \in {"failed", "aborted"} /\ worker' = "record child"
    BY <1>6 DEF UndoStep
  <2>2. /\ UNCHANGED <<rows, unsure, byHand, at>> /\ worker = "running" /\ Told' = Told
    BY <1>6 DEF UndoStep, execution, history, Told
  <2>3. \A h \in Handlers : at'[h] \notin {"create", "spawn"}
    BY <1>2, <2>2, Names
  <2>4. CASE worker' # "running"
    <3>1. ~Planned' /\ verdict' # "passed"
      BY <2>1, <2>2, <2>3, <2>4 DEF Planned
    <3> QED
      BY <3>1 DEF PlanRestores, PassedRestores
  <2>5. CASE worker' = "running"
    <3>1. host' = Undone(i) /\ todo' = todo \ {i}
      BY <2>1, <2>5
    <3>2. \A k : (Changed(k)' <=> Changed(k)) /\ (Doubtful(k)' <=> Doubtful(k)) /\ Back(k)' = Back(k)
      BY <2>2 DEF Changed, Doubtful, Back
    <3>3. Planned /\ (\A j \in todo : j <= i) /\ i \in DOMAIN rows
      BY <1>1, <2>1, <2>2 DEF Planned, IsNext
    <3>4. \A s \in Services : host'[s] = IF s = rows[i].svc THEN Back(i) ELSE host[s]
      BY <1>1, <3>1 DEF Undone, Back
    <3>5. \A k \in todo' : Changed(k)' \/ Doubtful(k)'
      BY <3>1, <3>2, <3>3 DEF PlanRestores
    <3>6. ASSUME NEW s \in Told, \A k \in todo' : rows[k].svc # s
          PROVE  host'[s] = before[s]
      <4>1. CASE s = rows[i].svc
        <5>1. \A j \in todo : rows[j].svc = s => i <= j
          BY <1>1, <1>3, <3>1, <3>6
        <5>2. Back(i) = before[s]
          BY <3>3, <3>6, <4>1, <5>1 DEF PlanRestores
        <5> QED
          BY <3>4, <3>6, <4>1, <5>2 DEF Told
      <4>2. CASE s # rows[i].svc
        <5>1. \A k \in todo : rows[k].svc # s
          BY <3>1, <3>6, <4>2
        <5> QED
          BY <3>3, <3>4, <3>6, <4>2, <5>1 DEF PlanRestores, Told
      <4> QED
        BY <4>1, <4>2
    <3>7. ASSUME NEW k \in todo', rows[k].svc \in Told,
                 \A j \in todo' : rows[j].svc = rows[k].svc => k <= j
          PROVE  Back(k) = before[rows[k].svc]
      <4>1. k \in todo /\ k <= i
        BY <3>1, <3>3
      <4>2. \A j \in todo : rows[j].svc = rows[k].svc => k <= j
        BY <3>1, <3>7, <4>1
      <4> QED
        BY <3>3, <3>7, <4>1, <4>2 DEF PlanRestores
    <3>8. \A s \in Told' : (\A k \in todo' : rows'[k].svc # s) => host'[s] = before'[s]
      BY <1>1, <2>2, <3>6
    <3>9. \A k \in todo' : rows'[k].svc \in Told'
                             /\ (\A j \in todo' : rows'[j].svc = rows'[k].svc => k <= j)
                           => Back(k)' = before'[rows'[k].svc]
      BY <1>1, <2>2, <3>2, <3>7
    <3> QED
      BY <2>5, <3>5, <3>8, <3>9 DEF PlanRestores, PassedRestores
  <2> QED
    BY <2>4, <2>5
<1>7. CASE AllUndone
  <2>1. Planned /\ ~Planned' /\ todo = {}
    BY <1>2, <1>7, Names DEF AllUndone, Planned
  <2>2. Restored
    BY <2>1 DEF PlanRestores, Restored
  <2>3. Restored'
    BY <1>4, <1>7, <2>2 DEF AllUndone, execution, history
  <2> QED
    BY <2>1, <2>3 DEF PlanRestores, PassedRestores
<1>8. ASSUME NEW h \in Handlers, Check(h) \/ TakeLock(h) \/ Create(h) \/ Spawn(h) \/ SpawnFails(h)
      PROVE  PlanRestores' /\ PassedRestores'
  <2>1. /\ UNCHANGED <<rows, unsure, byHand, host, todo, verdict>>
        /\ worker' = worker \/ worker' = "running"
    BY <1>8 DEF Check, TakeLock, Create, Spawn, SpawnFails, execution, history
  <2>2. Planned' => Planned
    BY <1>1, <1>8 DEF Check, TakeLock, Create, Spawn, SpawnFails, Return, Planned
  <2> QED
    BY <1>4, <2>1, <2>2 DEF PassedRestores
<1>9. CASE RecordChild \/ RecordParent \/ RecordCrash \/ Raises \/ Flip \/ Rest \/ UNCHANGED vars
  <2>1. /\ UNCHANGED <<rows, unsure, todo, at>> /\ byHand \subseteq byHand'
        /\ \A s \in Services \ byHand' : host'[s] = host[s]
    BY <1>1, <1>9
    DEF RecordChild, RecordParent, RecordCrash, Raises, Flip, Rest, vars, execution, history
  <2>2. Planned' => Planned
    BY <1>9 DEF RecordChild, RecordParent, RecordCrash, Raises, Flip, Rest, vars, Planned
  <2>3. worker' \in {"record child", "record parent"} /\ verdict' = "passed"
          => worker \in {"record child", "record parent"} /\ verdict = "passed"
    BY <1>9 DEF RecordChild, RecordParent, RecordCrash, Raises, Flip, Rest, vars, ChildIsNewest
  <2>4. PlanRestores' /\ (Restored => Restored')
    BY <1>4, <2>1, <2>2
  <2> QED
    BY <2>3, <2>4 DEF PassedRestores
<1>10. CASE RunStep \/ Release \/ Crash
  <2>1. ~Planned'
    BY <1>2, <1>10, Names DEF RunStep, Release, Crash, Planned, Active
  <2>2. worker' = "none"
    BY <1>2, <1>10, Names DEF RunStep, Release, Crash, Active
  <2> QED
    BY <2>1, <2>2 DEF PlanRestores, PassedRestores
<1> QED
  BY <1>5, <1>6, <1>7, <1>8, <1>9, <1>10 DEF Next, Request, Worker

----------------------------------------------------------------------------
(* Requests that do not cross.                                             *)
LEMMA ApartStep ==
  ASSUME TypeOK, LockIsHeld, PassedRestores, ChildIsNewest, Apart, [Next]_vars
  PROVE  Apart'
<1>1. /\ at \in [Handlers -> Places] /\ host \in [Services -> BOOLEAN]
      /\ children \in Seq(Statuses) /\ before' = before
  BY RowsStep DEF TypeOK, Places, RowsChange
<1>2. /\ worker # "none" => owner = "worker"
      /\ \A h \in Handlers : at[h] \in {"plan", "create", "spawn"} => owner = h
      /\ parent \in Active => owner = "run"
  BY DEF LockIsHeld, RollbackHoldsLock
<1>3. SUFFICES ASSUME ~crossed' PROVE OneRequest' /\ StillAllowed' /\ RolledBackStays'
  BY DEF Apart
<1>4. ~crossed
  BY <1>3
  DEF Next, Request, Worker, RunStep, Check, TakeLock, Plan, Create, Spawn, SpawnFails, UndoStep,
      AllUndone, RecordChild, RecordParent, RecordCrash, Release, Raises, Crash, Flip, Rest, vars,
      history
<1>5. OneRequest /\ StillAllowed /\ RolledBackStays
  BY <1>4 DEF Apart
<1>6. children # <<>> => children[Len(children)] \in ToSet(children)
  <2>1. children # <<>> => Len(children) \in DOMAIN children
    BY <1>1, EmptySeq
  <2> QED
    BY <2>1 DEF ToSet
<1>7. UNCHANGED <<host, unsure, byHand>> /\ Restored => Restored'
  BY <1>1 DEF Restored, Told
<1>8. CASE RunStep
  <2>1. at' = at /\ children' = children /\ parent' # "rolled_back"
    BY <1>8 DEF RunStep, Ends
  <2> QED
    BY <1>5, <2>1 DEF OneRequest, StillAllowed, RolledBackStays
<1>9. ASSUME NEW h \in Handlers, Check(h)
      PROVE  OneRequest' /\ StillAllowed' /\ RolledBackStays'
  <2>1. /\ \A g \in Handlers : at[g] = "idle"
        /\ ToSet(children) \cap NotAgain = {} /\ children' = children /\ parent' = parent
    BY <1>3, <1>9 DEF Check
  <2>2. \A g \in Handlers : at'[g] # "idle" => g = h
    BY <1>1, <1>9, <2>1 DEF Check
  <2>3. parent # "rolled_back"
    BY <1>5, <2>1 DEF RolledBackStays, NotAgain
  <2> QED
    BY <2>1, <2>2, <2>3 DEF OneRequest, StillAllowed, RolledBackStays
<1>10. ASSUME NEW h \in Handlers,
              TakeLock(h) \/ Plan(h) \/ Create(h) \/ Spawn(h) \/ SpawnFails(h)
       PROVE  OneRequest' /\ StillAllowed' /\ RolledBackStays'
  <2>1. at[h] # "idle" /\ parent' = parent /\ \A g \in Handlers \ {h} : at'[g] = at[g]
    BY <1>1, <1>10 DEF TakeLock, Plan, Create, Spawn, SpawnFails, Return
  <2>2. parent # "rolled_back" /\ \A g \in Handlers \ {h} : at'[g] = "idle"
    BY <1>5, <2>1 DEF OneRequest, RolledBackStays
  <2>3. at'[h] \in {"checked", "plan", "create"}
          => at[h] \in {"checked", "plan", "create"} /\ children' = children
    BY <1>1, <1>10 DEF TakeLock, Plan, Create, Spawn, SpawnFails, Return
  <2> QED
    BY <1>5, <2>1, <2>2, <2>3 DEF OneRequest, StillAllowed, RolledBackStays
<1>11. CASE UndoStep \/ AllUndone \/ Raises
  <2>1. /\ at' = at /\ children' = children /\ parent' = parent
        /\ worker \in {"running", "record child", "record parent", "record crash"}
    BY <1>11 DEF UndoStep, AllUndone, Raises
  <2> QED
    BY <1>5, <2>1 DEF OneRequest, StillAllowed, RolledBackStays
<1>12. CASE RecordChild
  <2>1. "running" \in ToSet(children)
    BY <1>6, <1>12 DEF RecordChild, ChildIsNewest
  <2>2. \A h \in Handlers : at[h] \notin {"checked", "plan", "create"}
    BY <1>5, <2>1 DEF StillAllowed, NotAgain, Active
  <2>3. parent' = parent /\ parent # "rolled_back" /\ at' = at
    BY <1>5, <1>12 DEF RecordChild, RolledBackStays
  <2> QED
    BY <1>5, <2>2, <2>3 DEF OneRequest, StillAllowed, RolledBackStays
<1>13. CASE RecordCrash
  <2>1. parent' = parent /\ parent # "rolled_back" /\ at' = at
    BY <1>5, <1>13 DEF RecordCrash, RolledBackStays
  <2>2. ToSet(children') \subseteq ToSet(children) \cup {"failed"}
    BY <1>1, <1>13 DEF RecordCrash, ToSet
  <2>3. "failed" \notin NotAgain
    BY DEF NotAgain, Active
  <2> QED
    BY <1>5, <2>1, <2>2, <2>3 DEF OneRequest, StillAllowed, RolledBackStays
<1>14. CASE RecordParent
  <2>1. at' = at /\ children' = children /\ worker = "record parent" /\ worker' = "release"
    BY <1>14 DEF RecordParent
  <2>2. ASSUME parent' = "rolled_back" PROVE RolledBackStays'
    <3>1. verdict = "passed"
      BY <1>14, <2>2 DEF RecordParent
    <3>2. "passed" \in ToSet(children)
      BY <1>6, <2>1, <3>1 DEF ChildIsNewest
    <3>3. \A h \in Handlers : at[h] \notin {"checked", "plan", "create"}
      BY <1>5, <3>2 DEF StillAllowed, NotAgain
    <3>4. \A h \in Handlers : at[h] # "spawn"
      BY <1>2, <2>1, Names
    <3>5. Restored'
      BY <1>7, <1>14, <2>1, <3>1 DEF PassedRestores, RecordParent, history
    <3>6. \A h \in Handlers : at[h] = "idle"
      BY <1>1, <3>3, <3>4 DEF Places
    <3> QED
      BY <2>1, <3>2, <3>5, <3>6 DEF RolledBackStays
  <2> QED
    BY <1>5, <2>1, <2>2 DEF OneRequest, StillAllowed, RolledBackStays
<1>15. CASE Release \/ Rest \/ UNCHANGED vars
  <2>1. /\ UNCHANGED <<at, children, parent, host, unsure, byHand>>
        /\ worker' \in {worker, "none"}
    BY <1>15 DEF Release, Rest, vars, history
  <2> QED
    BY <1>5, <1>7, <2>1 DEF OneRequest, StillAllowed, RolledBackStays
<1>16. CASE Crash
  <2>1. /\ \A h \in Handlers : at'[h] = "idle" 
        /\ worker' = "none" /\ UNCHANGED <<unsure, byHand>>
    BY <1>16 DEF Crash, history
  <2>2. ASSUME parent' = "rolled_back" PROVE "passed" \in ToSet(children') /\ Restored'
    <3>1. parent = "rolled_back" /\ parent \notin Active
      BY <1>16, <2>2 DEF Crash, Active
    <3>2. worker # "running" /\ "passed" \in ToSet(children) /\ Restored
      BY <1>5, <3>1 DEF RolledBackStays
    <3>3. host' = host
      BY <1>16, <3>1, <3>2 DEF Crash
    <3>4. "passed" \in ToSet(children')
      BY <1>16, <3>2 DEF Crash, ToSet, Active
    <3> QED
      BY <1>7, <2>1, <3>2, <3>3, <3>4
  <2> QED
    BY <2>1, <2>2 DEF OneRequest, StillAllowed, RolledBackStays
<1>17. CASE Flip
  <2>1. UNCHANGED <<at, children, parent, worker, unsure>>
    BY <1>17 DEF Flip
  <2>2. Restored => Restored'
    BY <1>1, <1>17 DEF Flip, Restored, Told
  <2> QED
    BY <1>5, <2>1, <2>2 DEF OneRequest, StillAllowed, RolledBackStays
<1> QED
  BY <1>8, <1>9, <1>10, <1>11, <1>12, <1>13, <1>14, <1>15, <1>16, <1>17 DEF Next, Request, Worker

----------------------------------------------------------------------------
LEMMA RollbackStep == RollbackInv /\ [Next]_vars => RollbackInv'
<1> SUFFICES ASSUME RollbackInv, [Next]_vars PROVE RollbackInv'
  OBVIOUS
<1>1. /\ TypeOK /\ ChildrenFit /\ LockIsHeld /\ RowsTell /\ PlanRestores /\ PassedRestores
      /\ ChildIsNewest /\ Apart
  BY DEF RollbackInv
<1> QED
  BY <1>1, TypeStep, FitStep, LockStep, RowsTellStep, RestoreStep, NewestStep, ApartStep
  DEF RollbackInv

(* The rows of a run, the plan made from them, the lock and the rollback's *)
(* records agree in every state a rollback can reach.                      *)
THEOREM RollbackInvariant == Spec => []RollbackInv
BY StartAnywhere, RollbackStep, PTL DEF Spec

(* Every variable keeps its type; no run gets more rollback executions     *)
(* than were allowed to begin.                                             *)
THEOREM RollbackTypes == Spec => []TypeOK
<1>1. RollbackInv => TypeOK
  BY DEF RollbackInv
<1> QED
  BY <1>1, RollbackInvariant, PTL

(* RollbackHoldsLock: planning, creating and carrying out a rollback all   *)
(* happen under the mutation lock, whoever asks at the same time.          *)
THEOREM RollbacksHoldTheLock == Spec => []RollbackHoldsLock
<1>1. RollbackInv => RollbackHoldsLock
  BY DEF RollbackInv, LockIsHeld
<1> QED
  BY <1>1, RollbackInvariant, PTL

(* RolledBackRestores: a run is called rolled_back only when each service  *)
(* is as it was before the run, whichever steps ran, failed or were cut    *)
(* short, and however many rollbacks it took.                              *)
THEOREM RolledBackMeansRestored == Spec => []RolledBackRestores
<1>1. RollbackInv => RolledBackRestores
  BY DEF RollbackInv, Apart, RolledBackStays, Restored, Told, RolledBackRestores
<1> QED
  BY <1>1, RollbackInvariant, PTL

(* UndoneOnceApart: of requests that come one after the other, none undoes *)
(* a run that a rollback has undone.                                       *)
THEOREM NeverUndoneTwice == Spec => UndoneOnceApart
<1> DEFINE Once == Len(children') > Len(children) /\ ~crossed => "passed" \notin ToSet(children)
<1>1. ASSUME RollbackInv, [Next]_vars PROVE Once
  <2>1. TypeOK /\ ChildIsNewest /\ Apart
    BY <1>1 DEF RollbackInv
  <2>2. Len(children) \in Nat
    <3>1. children \in Seq(Statuses)
      BY <2>1 DEF TypeOK
    <3> QED
      BY <3>1
  <2>3. SUFFICES ASSUME Len(children') > Len(children), ~crossed
                 PROVE  "passed" \notin ToSet(children)
    OBVIOUS
  <2>4. PICK h \in Handlers : Create(h)
    BY <1>1, <2>1, <2>2, <2>3, ChildrenStep, ChildrenTypeStep
  <2> QED
    BY <2>1, <2>3, <2>4 DEF Create, Apart, StillAllowed, NotAgain
<1>2. RollbackInv /\ [Next]_vars => [Once]_vars
  BY <1>1
<1> HIDE DEF Once
<1>3. Spec => [][Once]_vars
  BY <1>2, RollbackInvariant, PTL DEF Spec
<1> QED
  BY <1>3 DEF UndoneOnceApart, Once
=============================================================================
