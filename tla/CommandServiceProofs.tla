------------------------ MODULE CommandServiceProofs ------------------------
(***************************************************************************)
(* The safety of the command service for any number of front-end threads,  *)
(* approvals, targets and plans.  CommandInv is the inductive invariant:   *)
(* the rows agree with each other (TablesAgree), a handler's local         *)
(* variables with the row it works on (JobsAreReal), each lock with the    *)
(* place its holder is at (LocksAreHeld, RunsAreCarried), and what was     *)
(* read under the mutation lock with the tables as long as the lock is     *)
(* held (LinkIsCurrent).                                                   *)
(***************************************************************************)
EXTENDS CommandService, TLAPS

(* Where a handler works on a row it has read, and where it still carries  *)
(* the target it will propose or run directly.                             *)
OnRow == {"supersede", "propose again", "send card", "record card", "pre-read", "deny", "policy",
          "await lock", "source", "refuse stale", "approve", "start"}
OnTarget == {"await card lock", "propose", "supersede", "propose again", "await lock direct",
             "await card lock direct", "create direct"}

(* An execution belongs to an approved row, and there is one.              *)
RunsMatch ==
  \A a \in Ids :
    IF approval[a].status = "approved" THEN runs[a].count = 1 /\ runs[a].status # "none"
                                       ELSE runs[a].count = 0 /\ runs[a].status = "none"

BornHasTarget ==
  \A a \in Ids : IF approval[a].status = "unborn" THEN approval[a].target = NoTarget
                                                  ELSE approval[a].target \in Targets

OnePending ==
  \A a, b \in Ids : approval[a].status = "pending" /\ approval[b].status = "pending"
                      /\ approval[a].target = approval[b].target => a = b

TablesAgree == RunsMatch /\ BornHasTarget /\ OnePending

JobsAreReal ==
  \A h \in Handlers :
    /\ at[h] \in OnRow => job[h].id \in Ids /\ approval[job[h].id].status # "unborn"
    /\ at[h] \in OnTarget => job[h].target \in Targets

(* The places that hold the mutation lock, and those that hold the         *)
(* proposal-card lock.                                                     *)
UnderLock(h) ==
  \/ at[h] \in {"source", "refuse stale", "approve", "await card lock direct", "create direct",
                "start"}
  \/ at[h] = "policy" /\ job[h].incident # 0

UnderCardLock == {"propose", "supersede", "propose again", "send card", "record card",
                  "create direct"}

LocksAreHeld ==
  /\ \A h \in Handlers : UnderLock(h) => owner = h
  /\ \A h \in Handlers : at[h] \in UnderCardLock <=> cardLock = h
  /\ LockHasAKeeper
  /\ scan.running => owner = NoOne

RunsAreCarried ==
  /\ RunHoldsLock
  /\ \A a \in Ids : worker[a] = "running" => runs[a].status = "running"
  /\ \A h \in Handlers : at[h] = "start" => runs[job[h].id].status = "running"

CardsAreMissing == \A h \in Handlers : Delivering(h) => ~approval[job[h].id].card

(* What decide() read of the row's link still holds, and between the check *)
(* of the source and the approving transaction no scan gets in.            *)
LinkIsCurrent ==
  \A h \in Handlers :
    /\ at[h] \in {"policy", "await lock", "source", "approve"}
       => job[h].incident = approval[job[h].id].incident
    /\ at[h] \in {"policy", "approve"} /\ job[h].incident # 0 => SourceCurrent(job[h].incident)

CommandInv ==
  /\ TypeOK
  /\ TablesAgree
  /\ JobsAreReal
  /\ LocksAreHeld
  /\ RunsAreCarried
  /\ CardsAreMissing
  /\ LinkIsCurrent

----------------------------------------------------------------------------
LEMMA Setting ==
  /\ NoOne \notin Handlers /\ NoOne \notin Ids /\ NoId \notin Ids
  /\ \A h \in Handlers : h \notin Ids
  /\ NoTarget \notin Targets
  /\ MaxTime \in Nat /\ MaxScans \in Nat /\ MaxRestarts \in Nat
  /\ Ttl \in Nat /\ Ttl > 0
BY IdentitiesAssumption, BoundsAssumption

(* Lazy expiry turns pending rows into expired ones and nothing else.      *)
LEMMA ExpiredRows ==
  ASSUME approval \in [Ids -> Row], NEW as_of
  PROVE  /\ Expired(approval, as_of) \in [Ids -> Row]
         /\ \A a \in Ids :
              LET new == Expired(approval, as_of)[a] IN
              /\ \/ new = approval[a]
                 \/ approval[a].status = "pending" /\ new.status = "expired"
              /\ new.target = approval[a].target /\ new.plan = approval[a].plan
              /\ new.incident = approval[a].incident /\ new.card = approval[a].card
              /\ new.expires = approval[a].expires
BY DEF Expired, Row, Verdicts

LEMMA IdleJob == Idle \in Job /\ Idle.id = NoId /\ Idle.target = NoTarget /\ Idle.incident = 0
<1>1. Idle \in Job
  BY Setting DEF Idle, Job
<1> QED
  BY <1>1 DEF Idle

LEMMA InitCommandInv == Init => CommandInv
<1> SUFFICES ASSUME Init PROVE CommandInv
  OBVIOUS
<1> USE Setting DEF Init
<1>1. TypeOK
  <2>1. Blank \in Row
    BY DEF Row, Verdicts, Blank
  <2>2. Idle \in Job
    BY IdleJob
  <2>3. [count |-> 0, status |-> "none"] \in RunRow
    BY DEF RunRow
  <2> QED
    BY <2>1, <2>2, <2>3 DEF TypeOK, Places
<1>2. TablesAgree /\ JobsAreReal
  BY DEF TablesAgree, RunsMatch, BornHasTarget, OnePending, Blank, JobsAreReal, OnRow, OnTarget
<1>3. LocksAreHeld /\ RunsAreCarried
  BY DEF LocksAreHeld, UnderLock, UnderCardLock, LockHasAKeeper, RunsAreCarried, RunHoldsLock
<1>4. CardsAreMissing /\ LinkIsCurrent
  BY DEF CardsAreMissing, Delivering, LinkIsCurrent
<1> QED
  BY <1>1, <1>2, <1>3, <1>4 DEF CommandInv

(* Types, one variable at a time.                                          *)
LEMMA PlacesStep == at \in [Handlers -> Places] /\ [Next]_vars => at' \in [Handlers -> Places]
<1> SUFFICES ASSUME at \in [Handlers -> Places], [Next]_vars PROVE at' \in [Handlers -> Places]
  OBVIOUS
<1> USE DEF Places, GoTo, Return
<1>1. ASSUME NEW h \in Handlers, ProposeStep(h) PROVE at' \in [Handlers -> Places]
  BY <1>1 DEF ProposeStep, BeginPropose, BeginProposeIncident, TakeCardLock, GiveUp, StorePropose,
              Supersede, SendCard, SendFails, RecordCard, RecordFails, LeaveCardBehind
<1>2. ASSUME NEW h \in Handlers, DecideStep(h) PROVE at' \in [Handlers -> Places]
  BY <1>2 DEF DecideStep, BeginDecide, PreRead, Deny, CheckPolicy, TakeMutationLock, LockFree,
              CheckSource, RefuseStale, Approve
<1>3. ASSUME NEW h \in Handlers, DirectStep(h) \/ HandoffStep(h)
      PROVE  at' \in [Handlers -> Places]
  BY <1>3 DEF DirectStep, BeginDirect, TakeCardLockDirect, CreateDirect, HandoffStep, StartRun,
              StartFails
<1>4. ASSUME NEW a \in Ids, FinishRun(a) \/ ReleaseRun(a) PROVE at' = at
  BY <1>4 DEF FinishRun, ReleaseRun
<1>5. CASE ListPending \/ Tick \/ StartScan \/ ReconcileScan \/ EndScan \/ UNCHANGED vars
  BY <1>5 DEF ListPending, Tick, StartScan, ReconcileScan, EndScan, vars
<1>6. CASE Restart
  BY <1>6 DEF Restart
<1> QED
  BY <1>1, <1>2, <1>3, <1>4, <1>5, <1>6 DEF Next

LEMMA JobStep == job \in [Handlers -> Job] /\ now \in 0..MaxTime /\ scan.latest \in 0..MaxScans
                   /\ approval \in [Ids -> Row] /\ JobsAreReal /\ [Next]_vars => job' \in [Handlers -> Job]
<1> SUFFICES ASSUME job \in [Handlers -> Job], now \in 0..MaxTime, scan.latest \in 0..MaxScans,
                    approval \in [Ids -> Row], JobsAreReal, [Next]_vars
             PROVE  job' \in [Handlers -> Job]
  OBVIOUS
<1>a. \A a \in Ids : [Idle EXCEPT !.id = a] \in Job
  BY IdleJob DEF Job
<1>1. ASSUME NEW h \in Handlers, BeginPropose(h) PROVE job' \in [Handlers -> Job]
  <2>1. PICK t \in Targets, p \in Plans :
          job' = [job EXCEPT ![h] = [Idle EXCEPT !.target = t, !.plan = p]]
    BY <1>1 DEF BeginPropose
  <2>2. [Idle EXCEPT !.target = t, !.plan = p] \in Job
    BY IdleJob DEF Job
  <2> QED
    BY <2>1, <2>2
<1>2. ASSUME NEW h \in Handlers, BeginProposeIncident(h) PROVE job' \in [Handlers -> Job]
  <2>1. PICK t \in Targets, p \in Plans :
          job' = [job EXCEPT ![h] =
                    [Idle EXCEPT !.target = t, !.plan = p, !.incident = scan.latest]]
    BY <1>2 DEF BeginProposeIncident
  <2>2. [Idle EXCEPT !.target = t, !.plan = p, !.incident = scan.latest] \in Job
    BY IdleJob DEF Job
  <2> QED
    BY <2>1, <2>2
<1>3. ASSUME NEW h \in Handlers, BeginDirect(h) PROVE job' \in [Handlers -> Job]
  <2>1. PICK t \in Targets, p \in Plans :
          job' = [job EXCEPT ![h] = [Idle EXCEPT !.target = t, !.plan = p, !.arrived = now]]
    BY <1>3 DEF BeginDirect
  <2>2. [Idle EXCEPT !.target = t, !.plan = p, !.arrived = now] \in Job
    BY IdleJob DEF Job
  <2> QED
    BY <2>1, <2>2
<1>4. ASSUME NEW h \in Handlers, BeginDecide(h) PROVE job' \in [Handlers -> Job]
  <2>1. PICK a \in Ids, yes \in BOOLEAN :
          job' = [job EXCEPT ![h] = [Idle EXCEPT !.id = a, !.arrived = now, !.approve = yes]]
    BY <1>4 DEF BeginDecide
  <2>2. [Idle EXCEPT !.id = a, !.arrived = now, !.approve = yes] \in Job
    BY IdleJob DEF Job
  <2> QED
    BY <2>1, <2>2
<1>5. ASSUME NEW h \in Handlers, StorePropose(h) PROVE job' \in [Handlers -> Job]
  <2>1. \E j \in Job : job' = [job EXCEPT ![h] = j]
    <3>1. \A a \in Ids : [job[h] EXCEPT !.id = a] \in Job
      <4>1. PICK j \in Job : j = job[h]
        OBVIOUS
      <4>2. \A a \in Ids : [j EXCEPT !.id = a] \in Job
        BY DEF Job
      <4> QED
        BY <4>1, <4>2
    <3>2. \/ job' = [job EXCEPT ![h] = Idle]
          \/ \E a \in Ids : job' = [job EXCEPT ![h] = [Idle EXCEPT !.id = a]]
          \/ \E a \in Ids : job' = [job EXCEPT ![h].id = a]
      BY <1>5 DEF StorePropose, Pending, Unborn, Return
    <3> QED
      BY <1>a, <3>1, <3>2, IdleJob
  <2> QED
    BY <2>1
<1>6. ASSUME NEW h \in Handlers, PreRead(h) PROVE job' \in [Handlers -> Job]
  <2> DEFINE row == Expired(approval, job[h].arrived)[job[h].id]
  <2>1. job[h].id \in Ids
    BY <1>6 DEF PreRead, JobsAreReal, OnRow
  <2>2. row \in Row
    BY <2>1, ExpiredRows
  <2>3. [job[h] EXCEPT !.incident = row.incident] \in Job
    <3>1. PICK j \in Job : j = job[h]
      OBVIOUS
    <3>2. PICK r \in Row : r = row
      BY <2>2
    <3>3. [j EXCEPT !.incident = r.incident] \in Job
      BY DEF Job, Row
    <3> QED
      BY <3>1, <3>2, <3>3
  <2>4. \/ job' = [job EXCEPT ![h] = Idle]
        \/ job' = [job EXCEPT ![h].incident = row.incident]
    BY <1>6 DEF PreRead, Return
  <2> HIDE DEF row
  <2> QED
    BY <2>3, <2>4, IdleJob
<1>7. ASSUME NEW h \in Handlers, Approve(h) \/ CreateDirect(h) PROVE job' \in [Handlers -> Job]
  <2>1. job[h].id \in Ids \/ CreateDirect(h)
    BY <1>7 DEF Approve, JobsAreReal, OnRow
  <2>2. \/ job' = [job EXCEPT ![h] = Idle]
        \/ \E a \in Ids : job' = [job EXCEPT ![h] = [Idle EXCEPT !.id = a]]
    BY <1>7, <2>1 DEF Approve, CreateDirect, Pending, Unborn, Return
  <2> QED
    BY <2>2, <1>a, IdleJob
<1>8. ASSUME NEW h \in Handlers, \/ GiveUp(h) \/ SendFails(h) \/ RecordCard(h) \/ RecordFails(h) \/ Deny(h)
                              \/ TakeMutationLock(h) \/ RefuseStale(h) \/ HandoffStep(h)
      PROVE  job' \in [Handlers -> Job]
  BY <1>8, IdleJob
  DEF GiveUp, SendFails, RecordCard, RecordFails, Deny, TakeMutationLock, LockFree, RefuseStale,
      HandoffStep, StartRun, StartFails, Return
<1>9. ASSUME NEW h \in Handlers, \/ Supersede(h) \/ CheckPolicy(h) \/ CheckSource(h) \/ TakeCardLock(h)
                              \/ LeaveCardBehind(h) \/ SendCard(h) \/ TakeCardLockDirect(h)
      PROVE  job' = job
  BY <1>9
  DEF Supersede, CheckPolicy, CheckSource, TakeCardLock, LeaveCardBehind, SendCard,
      TakeCardLockDirect
<1>10. ASSUME NEW a \in Ids, FinishRun(a) \/ ReleaseRun(a) PROVE job' = job
  BY <1>10 DEF FinishRun, ReleaseRun
<1>11. CASE ListPending \/ Tick \/ StartScan \/ ReconcileScan \/ EndScan \/ UNCHANGED vars
  BY <1>11 DEF ListPending, Tick, StartScan, ReconcileScan, EndScan, vars
<1>12. CASE Restart
  BY <1>12, IdleJob DEF Restart
<1> QED
  BY <1>1, <1>2, <1>3, <1>4, <1>5, <1>6, <1>7, <1>8, <1>9, <1>10, <1>11, <1>12
  DEF Next, ProposeStep, DecideStep, DirectStep

(* What a step may do to a row: nothing, settle it, record its card, or    *)
(* give birth to it.                                                       *)
SameRequest(old, new) ==
  new.target = old.target /\ new.plan = old.plan /\ new.incident = old.incident

RowChange(old, new) ==
  \/ new = old
  \/ /\ old.status = "pending" /\ new.status \in {"approved", "denied", "expired"}
     /\ SameRequest(old, new) /\ new.card = old.card
  \/ /\ new.status = old.status /\ SameRequest(old, new) /\ new.card
     /\ \E h \in Handlers : RecordCard(h)
  \/ /\ old.status = "unborn" /\ new.status \in {"pending", "approved"}
     /\ new.target \in Targets /\ ~new.card

RowsChange ==
  approval' \in [Ids -> Row] /\ \A a \in Ids : RowChange(approval[a], approval'[a])

LEMMA RowsStep ==
  ASSUME approval \in [Ids -> Row], job \in [Handlers -> Job], now \in 0..MaxTime, JobsAreReal,
         [Next]_vars
  PROVE  RowsChange
<1>e. ASSUME NEW as_of PROVE /\ Expired(approval, as_of) \in [Ids -> Row]
                             /\ \A a \in Ids : RowChange(approval[a], Expired(approval, as_of)[a])
  BY ExpiredRows DEF RowChange, SameRequest
<1>1. ASSUME NEW h \in Handlers, StorePropose(h) PROVE RowsChange
  <2> DEFINE rows == Expired(approval, now)
             born == [status |-> "pending", target |-> job[h].target, plan |-> job[h].plan,
                      expires |-> now + Ttl, incident |-> job[h].incident, card |-> FALSE]
  <2>1. \/ approval' = approval
        \/ approval' = rows
        \/ \E a \in Unborn(rows) : approval' = [rows EXCEPT ![a] = born]
    BY <1>1 DEF StorePropose
  <2>2. job[h].target \in Targets
    BY <1>1 DEF StorePropose, JobsAreReal, OnTarget
  <2>3. born \in Row
    <3>1. PICK j \in Job : j = job[h]
      OBVIOUS
    <3>2. j.target \in Targets /\ j.plan \in Plans \cup {NoPlan} /\ j.incident \in 0..MaxScans
      BY <2>2, <3>1 DEF Job
    <3>3. now + Ttl \in 0..(MaxTime + Ttl)
      BY Setting
    <3> QED
      BY <3>1, <3>2, <3>3 DEF Row, Verdicts
  <2>4. born.status = "pending" /\ born.target \in Targets /\ ~born.card
    BY <2>2
  <2> HIDE DEF born
  <2>5. CASE \E a \in Unborn(rows) : approval' = [rows EXCEPT ![a] = born]
    <3>1. PICK a \in Ids : rows[a].status = "unborn" /\ approval' = [rows EXCEPT ![a] = born]
      BY <2>5 DEF Unborn
    <3>2. approval[a].status = "unborn"
      BY ExpiredRows, <3>1
    <3> QED
      BY <1>e, <2>3, <2>4, <3>1, <3>2 DEF RowsChange, RowChange
  <2> QED
    BY <1>e, <2>1, <2>5 DEF RowsChange, RowChange
<1>2. ASSUME NEW h \in Handlers, Supersede(h) \/ RecordCard(h) PROVE RowsChange
  <2>1. PICK a \in Ids : a = job[h].id /\ approval[a].status # "unborn"
    BY <1>2 DEF Supersede, RecordCard, JobsAreReal, OnRow
  <2>2. \/ approval' = [approval EXCEPT ![a].status = IF @ = "pending" THEN "expired" ELSE @]
        \/ approval' = [approval EXCEPT ![a].card = TRUE] /\ RecordCard(h)
    BY <1>2, <2>1 DEF Supersede, RecordCard
  <2>3. CASE approval' = [approval EXCEPT ![a].card = TRUE] /\ RecordCard(h)
    BY <2>3 DEF RowsChange, RowChange, SameRequest, Row
  <2>4. CASE approval' = [approval EXCEPT ![a].status = IF @ = "pending" THEN "expired" ELSE @]
    BY <2>4 DEF RowsChange, RowChange, SameRequest, Row, Verdicts
  <2> QED
    BY <2>2, <2>3, <2>4
<1>3. ASSUME NEW h \in Handlers, Deny(h) \/ RefuseStale(h) \/ Approve(h) PROVE RowsChange
  <2>1. PICK a \in Ids : a = job[h].id
    BY <1>3 DEF Deny, RefuseStale, Approve, JobsAreReal, OnRow
  <2>2. \/ approval' = approval
        \/ /\ approval[a].status = "pending"
           /\ \/ approval' = [approval EXCEPT ![a].status = "denied"]
              \/ approval' = [approval EXCEPT ![a].status = "approved"]
    BY <1>3, <2>1 DEF Deny, RefuseStale, Approve, StillPending
  <2> QED
    BY <2>2 DEF RowsChange, RowChange, SameRequest, Row, Verdicts
<1>4. ASSUME NEW h \in Handlers, CreateDirect(h) PROVE RowsChange
  <2> DEFINE rows == Expired(approval, job[h].arrived)
             born == [status |-> "approved", target |-> job[h].target, plan |-> job[h].plan,
                      expires |-> now, incident |-> 0, card |-> FALSE]
  <2>1. PICK a \in Ids :
          \/ /\ rows[a].status = "pending"
             /\ approval' = [rows EXCEPT ![a].status = "approved"]
          \/ /\ rows[a].status = "unborn"
             /\ approval' = [rows EXCEPT ![a] = born]
    BY <1>4 DEF CreateDirect, Pending, Unborn
  <2>2. job[h].target \in Targets
    BY <1>4 DEF CreateDirect, JobsAreReal, OnTarget
  <2>3. born \in Row
    <3>1. PICK j \in Job : j = job[h]
      OBVIOUS
    <3>2. j.target \in Targets /\ j.plan \in Plans \cup {NoPlan}
      BY <2>2, <3>1 DEF Job
    <3>3. now \in 0..(MaxTime + Ttl) /\ 0 \in 0..MaxScans
      BY Setting
    <3> QED
      BY <3>1, <3>2, <3>3 DEF Row, Verdicts
  <2>4. born.status = "approved" /\ born.target \in Targets /\ ~born.card
    BY <2>2
  <2>5. rows \in [Ids -> Row] /\ \A b \in Ids : RowChange(approval[b], rows[b])
    BY <1>e
  <2>6. rows[a].status = approval[a].status /\ SameRequest(approval[a], rows[a])
        /\ rows[a].card = approval[a].card
    BY ExpiredRows, <2>1 DEF SameRequest
  <2> HIDE DEF born, rows
  <2>7. CASE approval' = [rows EXCEPT ![a].status = "approved"] /\ rows[a].status = "pending"
    BY <2>5, <2>6, <2>7 DEF RowsChange, RowChange, SameRequest, Row, Verdicts
  <2>8. CASE approval' = [rows EXCEPT ![a] = born] /\ rows[a].status = "unborn"
    BY <2>3, <2>4, <2>5, <2>6, <2>8 DEF RowsChange, RowChange
  <2> QED
    BY <2>1, <2>7, <2>8
<1>5. ASSUME NEW h \in Handlers, PreRead(h) PROVE RowsChange
  BY <1>e, <1>5 DEF PreRead, RowsChange
<1>6. ASSUME NEW h \in Handlers,
             \/ BeginPropose(h) \/ BeginProposeIncident(h) \/ TakeCardLock(h) \/ GiveUp(h)
             \/ SendCard(h) \/ SendFails(h) \/ RecordFails(h) \/ LeaveCardBehind(h)
             \/ BeginDecide(h) \/ CheckPolicy(h) \/ TakeMutationLock(h) \/ CheckSource(h)
             \/ BeginDirect(h) \/ TakeCardLockDirect(h) \/ HandoffStep(h)
      PROVE  approval' = approval
  BY <1>6 DEF BeginPropose, BeginProposeIncident, TakeCardLock, GiveUp, SendCard, SendFails,
              RecordFails, LeaveCardBehind, BeginDecide, CheckPolicy, TakeMutationLock,
              CheckSource, BeginDirect, TakeCardLockDirect, HandoffStep, StartRun, StartFails, table
<1>7. ASSUME NEW a \in Ids, FinishRun(a) \/ ReleaseRun(a) PROVE approval' = approval
  BY <1>7 DEF FinishRun, ReleaseRun, table
<1>8. CASE ListPending
  BY <1>e, <1>8 DEF ListPending, RowsChange
<1>9. CASE Tick \/ StartScan \/ ReconcileScan \/ EndScan \/ Restart \/ UNCHANGED vars
  BY <1>9 DEF Tick, StartScan, ReconcileScan, EndScan, Restart, vars, table, RowsChange, RowChange
<1>10. approval' = approval => RowsChange
  BY DEF RowsChange, RowChange
<1> QED
  BY <1>1, <1>2, <1>3, <1>4, <1>5, <1>6, <1>7, <1>8, <1>9, <1>10
  DEF Next, ProposeStep, DecideStep, DirectStep

(* What a step may do to an approval's execution: nothing, start it with   *)
(* the verdict, or end it.                                                 *)
RunChange(a) ==
  \/ /\ runs'[a] = runs[a]
     /\ approval'[a].status = approval[a].status \/ approval'[a].status # "approved"
  \/ /\ approval[a].status \in {"unborn", "pending"} /\ approval'[a].status = "approved"
     /\ runs'[a].count = 1 /\ runs'[a].status = "running"
  \/ /\ runs[a].status = "running" /\ runs'[a].status \in {"passed", "failed", "interrupted"}
     /\ runs'[a].count = runs[a].count /\ approval'[a] = approval[a]

RunsChange == runs' \in [Ids -> RunRow] /\ \A a \in Ids : RunChange(a)

LEMMA RunsStep ==
  ASSUME approval \in [Ids -> Row], runs \in [Ids -> RunRow], RunsMatch, JobsAreReal,
         RunsAreCarried, RowsChange, [Next]_vars
  PROVE  RunsChange
<1>k. runs' = runs /\ (\A a \in Ids : approval'[a].status = "approved"
                                        => approval[a].status = "approved") => RunsChange
  BY DEF RunsChange, RunChange
<1>m. ASSUME NEW a \in Ids, approval[a].status # "approved"
      PROVE  NewRun(a) \in RunRow /\ NewRun(a).count = 1 /\ NewRun(a).status = "running"
  BY <1>m DEF RunsMatch, NewRun, RunRow
<1>n. ASSUME NEW a \in Ids, approval[a].status \in {"unborn", "pending"},
             runs' = [runs EXCEPT ![a] = NewRun(a)], approval'[a].status = "approved",
             \A b \in Ids \ {a} : approval'[b].status = "approved"
                                    => approval[b].status = "approved"
      PROVE  RunsChange
  <2>1. NewRun(a) \in RunRow /\ NewRun(a).count = 1 /\ NewRun(a).status = "running"
    BY <1>m, <1>n
  <2>2. runs' \in [Ids -> RunRow] /\ runs'[a] = NewRun(a)
    BY <1>n, <2>1
  <2>3. RunChange(a)
    BY <1>n, <2>1, <2>2 DEF RunChange
  <2>4. ASSUME NEW b \in Ids \ {a} PROVE RunChange(b)
    BY <1>n, <2>4 DEF RunChange
  <2> QED
    BY <2>2, <2>3, <2>4 DEF RunsChange
<1>1. ASSUME NEW h \in Handlers, Approve(h) PROVE RunsChange
  <2>1. PICK a \in Ids : a = job[h].id
    BY <1>1 DEF Approve, JobsAreReal, OnRow
  <2>2. CASE StillPending(a, job[h].arrived)
    <3>1. /\ approval[a].status = "pending" /\ runs' = [runs EXCEPT ![a] = NewRun(a)]
          /\ approval' = [approval EXCEPT ![a].status = "approved"]
      BY <1>1, <2>1, <2>2 DEF Approve, StillPending
    <3>2. approval'[a].status = "approved"
          /\ \A b \in Ids \ {a} : approval'[b].status = approval[b].status
      BY <3>1 DEF Row
    <3> QED
      BY <1>n, <3>1, <3>2
  <2>3. CASE ~StillPending(a, job[h].arrived)
    BY <1>1, <2>1, <2>3, <1>k DEF Approve
  <2> QED
    BY <2>2, <2>3
<1>2. ASSUME NEW h \in Handlers, CreateDirect(h) PROVE RunsChange
  <2> DEFINE rows == Expired(approval, job[h].arrived)
             born == [status |-> "approved", target |-> job[h].target, plan |-> job[h].plan,
                      expires |-> now, incident |-> 0, card |-> FALSE]
  <2>1. PICK a \in Ids :
          /\ rows[a].status \in {"pending", "unborn"}
          /\ runs' = [runs EXCEPT ![a] = NewRun(a)]
          /\ \/ approval' = [rows EXCEPT ![a].status = "approved"]
             \/ approval' = [rows EXCEPT ![a] = born]
    BY <1>2 DEF CreateDirect, Pending, Unborn
  <2>b. born.status = "approved"
    OBVIOUS
  <2>2. rows \in [Ids -> Row] /\ \A b \in Ids : rows[b].status = "approved"
                                   => approval[b].status = "approved"
    BY ExpiredRows
  <2>3. approval[a].status \in {"unborn", "pending"}
    BY ExpiredRows, <2>1
  <2> HIDE DEF rows, born
  <2>4. approval'[a].status = "approved"
        /\ \A b \in Ids \ {a} : approval'[b].status = rows[b].status
    <3>1. CASE approval' = [rows EXCEPT ![a].status = "approved"]
      BY <2>2, <3>1 DEF Row
    <3>2. CASE approval' = [rows EXCEPT ![a] = born]
      BY <2>2, <2>b, <3>2
    <3> QED
      BY <2>1, <3>1, <3>2
  <2>5. \A b \in Ids \ {a} : approval'[b].status = "approved" => approval[b].status = "approved"
    BY <2>2, <2>4
  <2>6. runs' = [runs EXCEPT ![a] = NewRun(a)] /\ approval'[a].status = "approved"
    BY <2>1, <2>4
  <2> QED
    BY <1>n, <2>3, <2>5, <2>6
<1>3. ASSUME NEW h \in Handlers, HandoffStep(h) PROVE RunsChange
  <2>1. PICK a \in Ids : a = job[h].id /\ runs[a].status = "running"
    BY <1>3 DEF HandoffStep, StartRun, StartFails, JobsAreReal, OnRow, RunsAreCarried
  <2>2. /\ approval' = approval
        /\ runs' = runs \/ runs' = [runs EXCEPT ![a].status = "failed"]
    BY <1>3, <2>1 DEF HandoffStep, StartRun, StartFails, table
  <2> QED
    BY <1>k, <2>1, <2>2 DEF RunsChange, RunChange, RunRow
<1>4. ASSUME NEW a \in Ids, FinishRun(a) PROVE RunsChange
  <2>1. runs[a].status = "running"
    BY <1>4 DEF FinishRun, RunsAreCarried
  <2> QED
    BY <1>4, <2>1 DEF FinishRun, RunsChange, RunChange, RunRow
<1>5. CASE Restart
  BY <1>5 DEF Restart, RunsChange, RunChange, RunRow
<1>6. ASSUME NEW h \in Handlers,
             \/ ProposeStep(h) \/ BeginDecide(h) \/ PreRead(h) \/ Deny(h) \/ CheckPolicy(h)
             \/ TakeMutationLock(h) \/ CheckSource(h) \/ RefuseStale(h) \/ BeginDirect(h)
             \/ TakeCardLockDirect(h)
      PROVE  runs' = runs
  BY <1>6
  DEF ProposeStep, BeginPropose, BeginProposeIncident, TakeCardLock, GiveUp, StorePropose,
      Supersede, SendCard, SendFails, RecordCard, RecordFails, LeaveCardBehind, BeginDecide,
      PreRead, Deny, CheckPolicy, TakeMutationLock, CheckSource, RefuseStale, BeginDirect,
      TakeCardLockDirect, table
<1> DEFINE NoneApproved == \A a \in Ids : approval'[a].status = "approved"
                                           => approval[a].status = "approved"
<1>e. ASSUME NEW as_of PROVE /\ Expired(approval, as_of) \in [Ids -> Row]
                             /\ \A a \in Ids : Expired(approval, as_of)[a].status = "approved"
                                                 => approval[a].status = "approved"
  BY ExpiredRows
<1>7. ASSUME NEW h \in Handlers, StorePropose(h) \/ PreRead(h) PROVE NoneApproved
  <2> DEFINE rows == Expired(approval, now)
             born == [status |-> "pending", target |-> job[h].target, plan |-> job[h].plan,
                      expires |-> now + Ttl, incident |-> job[h].incident, card |-> FALSE]
  <2>1. \/ approval' = approval
        \/ approval' = rows
        \/ approval' = Expired(approval, job[h].arrived)
        \/ \E a \in Ids : approval' = [rows EXCEPT ![a] = born]
    BY <1>7 DEF StorePropose, PreRead, Unborn
  <2>2. born.status = "pending"
    OBVIOUS
  <2> HIDE DEF born
  <2> QED
    BY <1>e, <2>1, <2>2
<1>8. ASSUME NEW h \in Handlers, Supersede(h) \/ RecordCard(h) \/ Deny(h) \/ RefuseStale(h)
      PROVE  NoneApproved
  <2>1. PICK a \in Ids : a = job[h].id
    BY <1>8 DEF Supersede, RecordCard, Deny, RefuseStale, JobsAreReal, OnRow
  <2>2. \/ approval' = approval
        \/ approval' = [approval EXCEPT ![a].status = IF @ = "pending" THEN "expired" ELSE @]
        \/ approval' = [approval EXCEPT ![a].card = TRUE]
        \/ approval' = [approval EXCEPT ![a].status = "denied"]
    BY <1>8, <2>1 DEF Supersede, RecordCard, Deny, RefuseStale
  <2> QED
    BY <2>2 DEF Row
<1>9. ASSUME NEW h \in Handlers,
             \/ BeginPropose(h) \/ BeginProposeIncident(h) \/ TakeCardLock(h) \/ GiveUp(h)
             \/ SendCard(h) \/ SendFails(h) \/ RecordFails(h) \/ LeaveCardBehind(h)
             \/ BeginDecide(h) \/ CheckPolicy(h) \/ TakeMutationLock(h) \/ CheckSource(h)
             \/ BeginDirect(h) \/ TakeCardLockDirect(h)
      PROVE  NoneApproved
  BY <1>9 DEF BeginPropose, BeginProposeIncident, TakeCardLock, GiveUp, SendCard, SendFails,
              RecordFails, LeaveCardBehind, BeginDecide, CheckPolicy, TakeMutationLock,
              CheckSource, BeginDirect, TakeCardLockDirect, table
<1>10. CASE ListPending
  BY <1>e, <1>k, <1>10 DEF ListPending
<1>11. ASSUME NEW a \in Ids, ReleaseRun(a) PROVE RunsChange
  BY <1>k, <1>11 DEF ReleaseRun, table
<1>12. CASE Tick \/ StartScan \/ ReconcileScan \/ EndScan \/ UNCHANGED vars
  BY <1>k, <1>12 DEF Tick, StartScan, ReconcileScan, EndScan, vars, table
<1>13. ASSUME NEW h \in Handlers, ProposeStep(h) PROVE RunsChange
  BY <1>6, <1>k, <1>7, <1>8, <1>9, <1>13 DEF ProposeStep
<1>14. ASSUME NEW h \in Handlers, DecideStep(h) PROVE RunsChange
  BY <1>1, <1>6, <1>k, <1>7, <1>8, <1>9, <1>14 DEF DecideStep
<1>15. ASSUME NEW h \in Handlers, DirectStep(h) PROVE RunsChange
  BY <1>2, <1>6, <1>k, <1>9, <1>15 DEF DirectStep
<1> QED
  BY <1>3, <1>4, <1>5, <1>10, <1>11, <1>12, <1>13, <1>14, <1>15 DEF Next

LEMMA OthersStep ==
  ASSUME TypeOK, JobsAreReal, [Next]_vars
  PROVE  /\ now' \in 0..MaxTime
         /\ owner' \in Handlers \cup Ids \cup {NoOne}
         /\ cardLock' \in Handlers \cup {NoOne}
         /\ scan' \in [latest : 0..MaxScans, sees : BOOLEAN, running : BOOLEAN]
         /\ worker' \in [Ids -> {"none", "running", "finished"}]
         /\ restarts' \in 0..MaxRestarts
<1>1. /\ now \in 0..MaxTime /\ restarts \in 0..MaxRestarts
      /\ scan \in [latest : 0..MaxScans, sees : BOOLEAN, running : BOOLEAN]
      /\ owner \in Handlers \cup Ids \cup {NoOne} /\ cardLock \in Handlers \cup {NoOne}
      /\ worker \in [Ids -> {"none", "running", "finished"}]
  BY DEF TypeOK
<1>p. ASSUME NEW h \in Handlers, ProposeStep(h)
      PROVE  /\ UNCHANGED <<now, scan, worker, restarts>>
             /\ owner' \in {owner, h, NoOne} /\ cardLock' \in {cardLock, h, NoOne}
  BY <1>p
  DEF ProposeStep, BeginPropose, BeginProposeIncident, TakeCardLock, GiveUp, StorePropose,
      Supersede, SendCard, SendFails, RecordCard, RecordFails, LeaveCardBehind, Return, locks
<1>d. ASSUME NEW h \in Handlers, DecideStep(h)
      PROVE  /\ UNCHANGED <<now, scan, worker, restarts>>
             /\ owner' \in {owner, h, NoOne} /\ cardLock' \in {cardLock, NoOne}
  BY <1>d
  DEF DecideStep, BeginDecide, PreRead, Deny, CheckPolicy, TakeMutationLock, CheckSource,
      RefuseStale, Approve, Return, locks
<1>o. ASSUME NEW h \in Handlers, DirectStep(h)
      PROVE  /\ UNCHANGED <<now, scan, worker, restarts, owner>>
             /\ cardLock' \in {cardLock, h, NoOne}
  BY <1>o DEF DirectStep, BeginDirect, TakeCardLockDirect, CreateDirect, locks
<1>h. ASSUME NEW h \in Handlers, HandoffStep(h)
      PROVE  /\ UNCHANGED <<now, scan, restarts>> /\ cardLock' \in {cardLock, NoOne}
             /\ owner' \in {owner, NoOne} \cup Ids
             /\ worker' \in [Ids -> {"none", "running", "finished"}]
  <2>1. job[h].id \in Ids
    BY <1>h DEF HandoffStep, StartRun, StartFails, JobsAreReal, OnRow
  <2> QED
    BY <1>1, <1>h, <2>1 DEF HandoffStep, StartRun, StartFails, Return
<1>w. ASSUME NEW a \in Ids, FinishRun(a) \/ ReleaseRun(a)
      PROVE  /\ UNCHANGED <<now, scan, restarts, cardLock>> /\ owner' \in {owner, NoOne}
             /\ worker' \in [Ids -> {"none", "running", "finished"}]
  BY <1>1, <1>w DEF FinishRun, ReleaseRun, locks
<1>l. CASE ListPending \/ UNCHANGED vars
  BY <1>1, <1>l DEF ListPending, vars, locks
<1>s. CASE Tick \/ StartScan \/ ReconcileScan \/ EndScan
  <2>1. UNCHANGED <<owner, cardLock, worker, restarts>>
    BY <1>s DEF Tick, StartScan, ReconcileScan, EndScan, locks
  <2>2. now' \in 0..MaxTime
    BY <1>1, <1>s, Setting DEF Tick, StartScan, ReconcileScan, EndScan
  <2>3. scan' \in [latest : 0..MaxScans, sees : BOOLEAN, running : BOOLEAN]
    <3>1. CASE ReconcileScan
      <4>1. PICK sees \in BOOLEAN :
              scan' = [latest |-> scan.latest + 1, sees |-> sees, running |-> TRUE]
        BY <3>1 DEF ReconcileScan
      <4>2. scan.latest + 1 \in 0..MaxScans
        BY <1>1, <3>1, Setting DEF ReconcileScan
      <4> QED
        BY <4>1, <4>2
    <3>2. CASE Tick \/ StartScan \/ EndScan
      BY <1>1, <3>2 DEF Tick, StartScan, EndScan
    <3> QED
      BY <1>s, <3>1, <3>2
  <2> QED
    BY <1>1, <2>1, <2>2, <2>3
<1>r. CASE Restart
  <2>1. scan' \in [latest : 0..MaxScans, sees : BOOLEAN, running : BOOLEAN]
    BY <1>1, <1>r DEF Restart
  <2>2. restarts' \in 0..MaxRestarts /\ now' = now
    BY <1>1, <1>r, Setting DEF Restart
  <2>3. owner' = NoOne /\ cardLock' = NoOne /\ worker' = [a \in Ids |-> "none"]
    BY <1>r DEF Restart
  <2> QED
    BY <1>1, <2>1, <2>2, <2>3
<1> QED
  BY <1>1, <1>p, <1>d, <1>o, <1>h, <1>w, <1>l, <1>s, <1>r DEF Next

LEMMA TypeStep ==
  ASSUME CommandInv, [Next]_vars
  PROVE  TypeOK' /\ RowsChange /\ RunsChange
<1>1. TypeOK /\ JobsAreReal /\ RunsMatch /\ RunsAreCarried
  BY DEF CommandInv, TablesAgree
<1>2. /\ at \in [Handlers -> Places] /\ job \in [Handlers -> Job] /\ now \in 0..MaxTime
      /\ approval \in [Ids -> Row] /\ runs \in [Ids -> RunRow] /\ scan.latest \in 0..MaxScans
  BY <1>1 DEF TypeOK
<1>3. at' \in [Handlers -> Places] /\ job' \in [Handlers -> Job]
  BY <1>1, <1>2, PlacesStep, JobStep
<1>4. RowsChange
  BY <1>1, <1>2, RowsStep
<1>5. RunsChange
  BY <1>1, <1>2, <1>4, RunsStep
<1> QED
  BY <1>1, <1>3, <1>4, <1>5, OthersStep DEF TypeOK, RowsChange, RunsChange

----------------------------------------------------------------------------
(* The tables: an execution comes with its approval, and only one request  *)
(* of a target waits.                                                      *)
LEMMA TablesStep ==
  ASSUME CommandInv, [Next]_vars
  PROVE  TablesAgree'
<1>1. TypeOK /\ RunsMatch /\ BornHasTarget /\ OnePending /\ RowsChange /\ RunsChange
  BY TypeStep DEF CommandInv, TablesAgree
<1>2. /\ approval \in [Ids -> Row] /\ approval' \in [Ids -> Row]
      /\ runs \in [Ids -> RunRow] /\ runs' \in [Ids -> RunRow]
  BY <1>1 DEF TypeOK, RowsChange, RunsChange
<1>3. RunsMatch'
  BY <1>1 DEF RunsMatch, RowsChange, RowChange, RunsChange, RunChange
<1>4. BornHasTarget'
  BY <1>1 DEF BornHasTarget, RowsChange, RowChange, SameRequest
<1> DEFINE NoNewPending == \A a \in Ids : approval'[a].status = "pending"
                                            => approval[a].status = "pending"
<1>5. NoNewPending => OnePending'
  <2>1. \A a \in Ids : approval[a].status = "pending" => approval'[a].target = approval[a].target
    BY <1>1 DEF RowsChange, RowChange, SameRequest
  <2> QED
    BY <1>1, <2>1 DEF OnePending
<1>e. ASSUME NEW as_of
      PROVE  \A a \in Ids : Expired(approval, as_of)[a].status = "pending"
                              => approval[a].status = "pending"
  BY <1>2, ExpiredRows
<1>6. ASSUME NEW h \in Handlers, StorePropose(h) PROVE OnePending'
  <2> DEFINE rows == Expired(approval, now)
             born == [status |-> "pending", target |-> job[h].target, plan |-> job[h].plan,
                      expires |-> now + Ttl, incident |-> job[h].incident, card |-> FALSE]
  <2>1. \/ approval' = approval
        \/ approval' = rows
        \/ /\ Pending(rows, job[h].target) = {}
           /\ \E a \in Ids : approval' = [rows EXCEPT ![a] = born]
    BY <1>6 DEF StorePropose, Unborn
  <2>2. CASE \E a \in Ids : approval' = [rows EXCEPT ![a] = born]
    <3>1. PICK a \in Ids : approval' = [rows EXCEPT ![a] = born]
      BY <2>2
    <3>2. born.status = "pending" /\ born.target = job[h].target
      OBVIOUS
    <3>3. rows \in [Ids -> Row]
          /\ \A b \in Ids : rows[b].status = "pending"
               => approval[b].status = "pending" /\ rows[b].target = approval[b].target
      BY <1>2, ExpiredRows
    <3>4. CASE Pending(rows, job[h].target) = {}
      <4>1. \A b \in Ids : rows[b].status = "pending" => rows[b].target # job[h].target
        BY <3>4 DEF Pending
      <4> HIDE DEF rows, born
      <4>2. approval'[a] = born /\ \A b \in Ids \ {a} : approval'[b] = rows[b]
        BY <3>1, <3>3
      <4> QED
        BY <1>1, <3>2, <3>3, <4>1, <4>2 DEF OnePending
    <3>5. CASE approval' = approval \/ approval' = rows
      BY <1>5, <1>e, <3>5
    <3> QED
      BY <2>1, <3>4, <3>5
  <2>3. CASE approval' = approval \/ approval' = rows
    BY <1>5, <1>e, <2>3
  <2> QED
    BY <2>1, <2>2, <2>3
<1>7. ASSUME NEW h \in Handlers, PreRead(h) PROVE NoNewPending
  BY <1>e, <1>7 DEF PreRead
<1>8. ASSUME NEW h \in Handlers,
             Supersede(h) \/ RecordCard(h) \/ Deny(h) \/ RefuseStale(h) \/ Approve(h)
      PROVE  NoNewPending
  <2>1. PICK a \in Ids : a = job[h].id
    BY <1>8 DEF Supersede, RecordCard, Deny, RefuseStale, Approve, JobsAreReal, OnRow, CommandInv
  <2>2. \/ approval' = approval
        \/ approval' = [approval EXCEPT ![a].status = IF @ = "pending" THEN "expired" ELSE @]
        \/ approval' = [approval EXCEPT ![a].card = TRUE]
        \/ approval' = [approval EXCEPT ![a].status = "denied"]
        \/ approval' = [approval EXCEPT ![a].status = "approved"]
    BY <1>8, <2>1 DEF Supersede, RecordCard, Deny, RefuseStale, Approve
  <2> QED
    BY <1>2, <2>2 DEF Row
<1>9. ASSUME NEW h \in Handlers, CreateDirect(h) PROVE NoNewPending
  <2> DEFINE rows == Expired(approval, job[h].arrived)
             born == [status |-> "approved", target |-> job[h].target, plan |-> job[h].plan,
                      expires |-> now, incident |-> 0, card |-> FALSE]
  <2>1. PICK a \in Ids : \/ approval' = [rows EXCEPT ![a].status = "approved"]
                         \/ approval' = [rows EXCEPT ![a] = born]
    BY <1>9 DEF CreateDirect, Pending, Unborn
  <2>2. born.status = "approved" /\ rows \in [Ids -> Row]
    BY <1>2, ExpiredRows
  <2>3. \A b \in Ids : rows[b].status = "pending" => approval[b].status = "pending"
    BY <1>e
  <2> HIDE DEF rows, born
  <2> QED
    BY <2>1, <2>2, <2>3 DEF Row
<1>10. ASSUME NEW h \in Handlers,
             \/ BeginPropose(h) \/ BeginProposeIncident(h) \/ TakeCardLock(h) \/ GiveUp(h)
             \/ SendCard(h) \/ SendFails(h) \/ RecordFails(h) \/ LeaveCardBehind(h)
             \/ BeginDecide(h) \/ CheckPolicy(h) \/ TakeMutationLock(h) \/ CheckSource(h)
             \/ BeginDirect(h) \/ TakeCardLockDirect(h) \/ HandoffStep(h)
      PROVE  NoNewPending
  BY <1>10 DEF BeginPropose, BeginProposeIncident, TakeCardLock, GiveUp, SendCard, SendFails,
               RecordFails, LeaveCardBehind, BeginDecide, CheckPolicy, TakeMutationLock,
               CheckSource, BeginDirect, TakeCardLockDirect, HandoffStep, StartRun, StartFails,
               table
<1>11. ASSUME NEW a \in Ids, FinishRun(a) \/ ReleaseRun(a) PROVE NoNewPending
  BY <1>11 DEF FinishRun, ReleaseRun, table
<1>12. ASSUME ListPending PROVE NoNewPending
  BY <1>e, <1>12 DEF ListPending
<1>13. ASSUME Tick \/ StartScan \/ ReconcileScan \/ EndScan \/ Restart \/ UNCHANGED vars
       PROVE  NoNewPending
  BY <1>13 DEF Tick, StartScan, ReconcileScan, EndScan, Restart, vars, table
<1> HIDE DEF NoNewPending
<1>14. OnePending'
  BY <1>5, <1>6, <1>7, <1>8, <1>9, <1>10, <1>11, <1>12, <1>13
  DEF Next, ProposeStep, DecideStep, DirectStep
<1> QED
  BY <1>3, <1>4, <1>14 DEF TablesAgree

----------------------------------------------------------------------------
(* A handler's step moves that handler and no other.                       *)
HandlerStep(h) == ProposeStep(h) \/ DecideStep(h) \/ DirectStep(h) \/ HandoffStep(h)

LEMMA OthersStandStill ==
  ASSUME TypeOK, NEW h \in Handlers, HandlerStep(h)
  PROVE  \A g \in Handlers \ {h} : at'[g] = at[g] /\ job'[g] = job[g]
BY DEF TypeOK, HandlerStep, ProposeStep, BeginPropose, BeginProposeIncident, TakeCardLock, GiveUp,
       StorePropose, Supersede, SendCard, SendFails, RecordCard, RecordFails, LeaveCardBehind,
       DecideStep, BeginDecide, PreRead, Deny, CheckPolicy, TakeMutationLock, CheckSource,
       RefuseStale, Approve, DirectStep, BeginDirect, TakeCardLockDirect, CreateDirect,
       HandoffStep, StartRun, StartFails, Return, GoTo

(* A handler's local variables stay those of a row that exists.            *)
LEMMA JobsStep ==
  ASSUME CommandInv, [Next]_vars
  PROVE  JobsAreReal'
<1>1. TypeOK /\ JobsAreReal /\ TypeOK' /\ RowsChange
  BY TypeStep DEF CommandInv
<1>2. \A a \in Ids : approval[a].status # "unborn" => approval'[a].status # "unborn"
  BY <1>1 DEF RowsChange, RowChange
<1> DEFINE Real(h) == /\ at'[h] \in OnRow => /\ job'[h].id \in Ids
                                             /\ approval'[job'[h].id].status # "unborn"
                      /\ at'[h] \in OnTarget => job'[h].target \in Targets
<1>3. at \in [Handlers -> Places] /\ job \in [Handlers -> Job]
  BY <1>1 DEF TypeOK
<1>s. ASSUME NEW h \in Handlers, at'[h] = at[h], job'[h] = job[h] PROVE Real(h)
  BY <1>1, <1>2, <1>s DEF JobsAreReal
<1>i. ASSUME NEW h \in Handlers, at'[h] = "idle" PROVE Real(h)
  BY <1>i DEF OnRow, OnTarget
<1>r. ASSUME NEW h \in Handlers, Return(h) PROVE at'[h] = "idle"
  BY <1>3, <1>r DEF Return, GoTo
<1>j. ASSUME NEW h \in Handlers, job'[h] = job[h],
             at[h] \in OnRow \/ at'[h] \notin OnRow, at[h] \in OnTarget \/ at'[h] \notin OnTarget
      PROVE  Real(h)
  BY <1>1, <1>2, <1>j DEF JobsAreReal
<1>t. ASSUME NEW h \in Handlers, job'[h].target \in Targets, at'[h] \notin OnRow PROVE Real(h)
  BY <1>t
<1>n. ASSUME NEW h \in Handlers, job'[h].id \in Ids, approval'[job'[h].id].status # "unborn",
             at'[h] \notin OnTarget
      PROVE  Real(h)
  BY <1>n
<1> HIDE DEF Real
<1>4. ASSUME NEW h \in Handlers, BeginPropose(h) \/ BeginProposeIncident(h) \/ BeginDirect(h)
      PROVE  Real(h)
  <2>1. \E t \in Targets, p \in Plans :
          \/ job' = [job EXCEPT ![h] = [Idle EXCEPT !.target = t, !.plan = p]]
          \/ job' = [job EXCEPT ![h] =
               [Idle EXCEPT !.target = t, !.plan = p, !.incident = scan.latest]]
          \/ job' = [job EXCEPT ![h] = [Idle EXCEPT !.target = t, !.plan = p, !.arrived = now]]
    BY <1>4 DEF BeginPropose, BeginProposeIncident, BeginDirect
  <2>2. job'[h].target \in Targets
    <3>1. PICK mine : mine.target \in Targets /\ job' = [job EXCEPT ![h] = mine]
      <4>1. PICK t \in Targets, p \in Plans :
              \/ job' = [job EXCEPT ![h] = [Idle EXCEPT !.target = t, !.plan = p]]
              \/ job' = [job EXCEPT ![h] =
                   [Idle EXCEPT !.target = t, !.plan = p, !.incident = scan.latest]]
              \/ job' = [job EXCEPT ![h] = [Idle EXCEPT !.target = t, !.plan = p, !.arrived = now]]
        BY <2>1
      <4>2. /\ [Idle EXCEPT !.target = t, !.plan = p].target = t
            /\ [Idle EXCEPT !.target = t, !.plan = p, !.incident = scan.latest].target = t
            /\ [Idle EXCEPT !.target = t, !.plan = p, !.arrived = now].target = t
        BY DEF Idle
      <4> QED
        BY <4>1, <4>2
    <3> QED
      BY <1>3, <3>1
  <2>3. at'[h] \in {"await card lock", "await lock direct"}
    BY <1>3, <1>4 DEF BeginPropose, BeginProposeIncident, BeginDirect, GoTo
  <2> QED
    BY <1>t, <2>2, <2>3 DEF OnRow
<1>5. ASSUME NEW h \in Handlers,
             \/ TakeCardLock(h) \/ SendCard(h) \/ LeaveCardBehind(h) \/ CheckPolicy(h)
             \/ CheckSource(h) \/ TakeCardLockDirect(h)
      PROVE  Real(h)
  <2>1. job' = job
    BY <1>5 DEF TakeCardLock, SendCard, LeaveCardBehind, CheckPolicy, CheckSource,
                TakeCardLockDirect
  <2>2. /\ at[h] \in OnRow \/ at'[h] \notin OnRow
        /\ at[h] \in OnTarget \/ at'[h] \notin OnTarget
    BY <1>3, <1>5 DEF TakeCardLock, SendCard, LeaveCardBehind, CheckPolicy, CheckSource,
                      TakeCardLockDirect, GoTo, OnRow, OnTarget
  <2> QED
    BY <1>j, <2>1, <2>2
<1>6. ASSUME NEW h \in Handlers,
             \/ GiveUp(h) \/ SendFails(h) \/ RecordCard(h) \/ RecordFails(h) \/ Deny(h)
             \/ RefuseStale(h) \/ HandoffStep(h)
      PROVE  Real(h)
  <2>1. at'[h] = "idle"
    BY <1>3, <1>6 DEF GiveUp, SendFails, RecordCard, RecordFails, Deny, RefuseStale,
                      HandoffStep, StartRun, StartFails, Return, GoTo
  <2> QED
    BY <1>i, <2>1
<1>7. ASSUME NEW h \in Handlers, StorePropose(h) PROVE Real(h)
  <2> DEFINE rows == Expired(approval, now)
             born == [status |-> "pending", target |-> job[h].target, plan |-> job[h].plan,
                      expires |-> now + Ttl, incident |-> job[h].incident, card |-> FALSE]
  <2>1. \/ at'[h] = "idle"
        \/ \E a \in Ids :
             /\ at'[h] = "send card" /\ job' = [job EXCEPT ![h] = [Idle EXCEPT !.id = a]]
             /\ \/ approval' = rows /\ rows[a].status = "pending"
                \/ approval' = [rows EXCEPT ![a] = born]
        \/ \E a \in Ids :
             /\ at'[h] = "supersede" /\ job' = [job EXCEPT ![h].id = a]
             /\ approval' = approval /\ rows[a].status = "pending"
             /\ job[h].target \in Targets
    BY <1>1, <1>3, <1>7
    DEF StorePropose, Pending, Unborn, Return, GoTo, JobsAreReal, OnTarget
  <2>2. /\ rows \in [Ids -> Row] /\ born.status = "pending"
        /\ \A a \in Ids : rows[a].status = "pending" => approval[a].status = "pending"
    BY <1>1, ExpiredRows DEF TypeOK
  <2> HIDE DEF rows, born
  <2>3. CASE \E a \in Ids :
               /\ at'[h] = "send card" /\ job' = [job EXCEPT ![h] = [Idle EXCEPT !.id = a]]
               /\ \/ approval' = rows /\ rows[a].status = "pending"
                  \/ approval' = [rows EXCEPT ![a] = born]
    <3>1. PICK a \in Ids :
            /\ at'[h] = "send card" /\ job' = [job EXCEPT ![h] = [Idle EXCEPT !.id = a]]
            /\ \/ approval' = rows /\ rows[a].status = "pending"
               \/ approval' = [rows EXCEPT ![a] = born]
      BY <2>3
    <3>2. job'[h].id = a
      BY <1>3, <3>1, IdleJob DEF Job
    <3>3. approval'[a].status = "pending"
      BY <2>2, <3>1
    <3> QED
      BY <1>n, <3>1, <3>2, <3>3 DEF OnTarget
  <2>4. CASE \E a \in Ids :
               /\ at'[h] = "supersede" /\ job' = [job EXCEPT ![h].id = a]
               /\ approval' = approval /\ rows[a].status = "pending"
               /\ job[h].target \in Targets
    <3>1. PICK a \in Ids :
            /\ at'[h] = "supersede" /\ job' = [job EXCEPT ![h].id = a]
            /\ approval' = approval /\ rows[a].status = "pending"
            /\ job[h].target \in Targets
      BY <2>4
    <3>2. job'[h].id = a /\ job'[h].target \in Targets
      BY <1>3, <3>1 DEF Job
    <3>3. approval'[a].status = "pending"
      BY <2>2, <3>1
    <3> QED
      BY <3>1, <3>2, <3>3 DEF Real
  <2> QED
    BY <1>i, <2>1, <2>3, <2>4
<1>8. ASSUME NEW h \in Handlers, Supersede(h) PROVE Real(h)
  BY <1>1, <1>2, <1>3, <1>8 DEF Supersede, GoTo, Real, JobsAreReal, OnRow, OnTarget
<1>9. ASSUME NEW h \in Handlers, BeginDecide(h) PROVE Real(h)
  <2>1. PICK a \in Ids, yes \in BOOLEAN :
          /\ approval[a].status # "unborn"
          /\ job' = [job EXCEPT ![h] = [Idle EXCEPT !.id = a, !.arrived = now, !.approve = yes]]
    BY <1>9 DEF BeginDecide
  <2>2. job'[h].id = a
    BY <1>3, <2>1, IdleJob DEF Job
  <2>3. at'[h] = "pre-read"
    BY <1>3, <1>9 DEF BeginDecide, GoTo
  <2> QED
    BY <1>2, <1>n, <2>1, <2>2, <2>3 DEF OnTarget
<1>10. ASSUME NEW h \in Handlers, PreRead(h) PROVE Real(h)
  <2>1. at[h] = "pre-read" /\ job[h].id \in Ids /\ approval[job[h].id].status # "unborn"
    BY <1>1, <1>10 DEF PreRead, JobsAreReal, OnRow
  <2>2. \/ at'[h] = "idle"
        \/ /\ at'[h] \in {"deny", "policy", "await lock"}
           /\ \E n : job' = [job EXCEPT ![h].incident = n]
    BY <1>3, <1>10 DEF PreRead, Return, GoTo
  <2>3. at'[h] = "idle" \/ job'[h].id = job[h].id
    BY <1>3, <2>2 DEF Job
  <2> QED
    BY <1>2, <1>i, <1>n, <2>1, <2>2, <2>3 DEF OnTarget
<1>11. ASSUME NEW h \in Handlers, TakeMutationLock(h) PROVE Real(h)
  <2>1. CASE ~LockFree
    BY <1>i, <1>r, <1>11, <2>1 DEF TakeMutationLock
  <2>2. CASE LockFree
    <3>1. job' = job
      BY <1>11, <2>2 DEF TakeMutationLock
    <3>2. \/ at[h] = "await lock direct" /\ at'[h] = "await card lock direct"
          \/ at[h] = "await lock" /\ at'[h] \in {"approve", "source"}
      BY <1>3, <1>11, <2>2 DEF TakeMutationLock, GoTo
    <3> QED
      BY <1>j, <3>1, <3>2 DEF OnRow, OnTarget
  <2> QED
    BY <2>1, <2>2
<1>12. ASSUME NEW h \in Handlers, Approve(h) PROVE Real(h)
  <2>1. at[h] = "approve" /\ job[h].id \in Ids /\ approval[job[h].id].status # "unborn"
    BY <1>1, <1>12 DEF Approve, JobsAreReal, OnRow
  <2>2. \/ at'[h] = "idle"
        \/ at'[h] = "start" /\ job' = [job EXCEPT ![h] = [Idle EXCEPT !.id = job[h].id]]
    BY <1>3, <1>12 DEF Approve, Return, GoTo
  <2>3. at'[h] = "idle" \/ job'[h].id = job[h].id
    BY <1>3, <2>1, <2>2, IdleJob DEF Job
  <2> QED
    BY <1>2, <1>i, <1>n, <2>1, <2>2, <2>3 DEF OnTarget
<1>13. ASSUME NEW h \in Handlers, CreateDirect(h) PROVE Real(h)
  <2>1. PICK a \in Ids : /\ job' = [job EXCEPT ![h] = [Idle EXCEPT !.id = a]]
                         /\ runs' = [runs EXCEPT ![a] = NewRun(a)]
    BY <1>13 DEF CreateDirect, Pending, Unborn
  <2>2. job'[h].id = a /\ at'[h] = "start"
    BY <1>3, <1>13, <2>1, IdleJob DEF Job, CreateDirect, GoTo
  <2>3. TablesAgree'
    BY TablesStep
  <2>4. runs'[a].status = "running"
    BY <1>1, <2>1 DEF NewRun, TypeOK
  <2>5. approval'[a].status # "unborn"
    BY <2>3, <2>4 DEF TablesAgree, RunsMatch
  <2> QED
    BY <1>n, <2>2, <2>5 DEF OnTarget
<1>14. ASSUME NEW h \in Handlers, HandlerStep(h) PROVE Real(h)
  BY <1>4, <1>5, <1>6, <1>7, <1>8, <1>9, <1>10, <1>11, <1>12, <1>13, <1>14
  DEF HandlerStep, ProposeStep, DecideStep, DirectStep
<1>15. ASSUME NEW h \in Handlers, HandlerStep(h) PROVE \A g \in Handlers : Real(g)
  BY <1>1, <1>s, <1>14, <1>15, OthersStandStill
<1>16. ASSUME at' = at, job' = job PROVE \A g \in Handlers : Real(g)
  <2>1. ASSUME NEW g \in Handlers PROVE at'[g] = at[g] /\ job'[g] = job[g]
    BY <1>16
  <2> QED
    BY <1>s, <2>1
<1>17. ASSUME NEW a \in Ids, FinishRun(a) \/ ReleaseRun(a) PROVE at' = at /\ job' = job
  BY <1>17 DEF FinishRun, ReleaseRun
<1>18. ASSUME ListPending \/ Tick \/ StartScan \/ ReconcileScan \/ EndScan \/ UNCHANGED vars
       PROVE  at' = at /\ job' = job
  BY <1>18 DEF ListPending, Tick, StartScan, ReconcileScan, EndScan, vars
<1>19. ASSUME Restart PROVE \A g \in Handlers : Real(g)
  BY <1>i, <1>19 DEF Restart
<1>20. \A g \in Handlers : Real(g)
  BY <1>15, <1>16, <1>17, <1>18, <1>19 DEF Next, HandlerStep
<1> QED
  BY <1>20 DEF JobsAreReal, Real

----------------------------------------------------------------------------
(* The locks: each belongs to the handler at a place that holds it.        *)
LEMMA CardLockStep ==
  ASSUME CommandInv, [Next]_vars
  PROVE  \A h \in Handlers : at'[h] \in UnderCardLock <=> cardLock' = h
<1>1. /\ TypeOK /\ \A h \in Handlers : at[h] \in UnderCardLock <=> cardLock = h
  BY DEF CommandInv, LocksAreHeld
<1>2. at \in [Handlers -> Places] /\ cardLock \in Handlers \cup {NoOne} /\ NoOne \notin Handlers
  BY <1>1, Setting DEF TypeOK
<1> DEFINE Held == \A h \in Handlers : at'[h] \in UnderCardLock <=> cardLock' = h
<1>o. ASSUME NEW h \in Handlers, HandlerStep(h),
             \/ cardLock' = cardLock
             \/ cardLock \in {NoOne, h} /\ cardLock' \in {NoOne, h},
             at'[h] \in UnderCardLock <=> cardLock' = h
      PROVE  Held
  <2>1. \A g \in Handlers \ {h} : at'[g] = at[g]
    BY <1>1, <1>o, OthersStandStill
  <2> QED
    BY <1>1, <1>2, <1>o, <2>1
<1>3. ASSUME NEW h \in Handlers, ProposeStep(h) PROVE Held
  <2>1. \/ cardLock' = cardLock
        \/ cardLock \in {NoOne, h} /\ cardLock' \in {NoOne, h}
    BY <1>3
    DEF ProposeStep, BeginPropose, BeginProposeIncident, TakeCardLock, GiveUp, StorePropose,
        Supersede, SendCard, SendFails, RecordCard, RecordFails, LeaveCardBehind, Return, locks
  <2>2. at'[h] \in UnderCardLock <=> cardLock' = h
    BY <1>1, <1>2, <1>3
    DEF ProposeStep, BeginPropose, BeginProposeIncident, TakeCardLock, GiveUp, StorePropose,
        Supersede, SendCard, SendFails, RecordCard, RecordFails, LeaveCardBehind, Return, locks,
        GoTo, UnderCardLock
  <2> QED
    BY <1>3, <1>o, <2>1, <2>2 DEF HandlerStep
<1>4. ASSUME NEW h \in Handlers, DecideStep(h) PROVE Held
  <2>1. \/ cardLock' = cardLock
        \/ cardLock \in {NoOne, h} /\ cardLock' \in {NoOne, h}
    BY <1>4
    DEF DecideStep, BeginDecide, PreRead, Deny, CheckPolicy, TakeMutationLock, CheckSource,
        RefuseStale, Approve, Return, locks
  <2>2. at'[h] \in UnderCardLock <=> cardLock' = h
    BY <1>1, <1>2, <1>4
    DEF DecideStep, BeginDecide, PreRead, Deny, CheckPolicy, TakeMutationLock, LockFree,
        CheckSource, RefuseStale, Approve, Return, locks, GoTo, UnderCardLock
  <2> QED
    BY <1>4, <1>o, <2>1, <2>2 DEF HandlerStep
<1>5. ASSUME NEW h \in Handlers, DirectStep(h) \/ HandoffStep(h) PROVE Held
  <2>1. \/ cardLock' = cardLock
        \/ cardLock \in {NoOne, h} /\ cardLock' \in {NoOne, h}
    BY <1>1, <1>5
    DEF DirectStep, BeginDirect, TakeCardLockDirect, CreateDirect, HandoffStep, StartRun,
        StartFails, Return, locks, UnderCardLock
  <2>2. at'[h] \in UnderCardLock <=> cardLock' = h
    BY <1>1, <1>2, <1>5
    DEF DirectStep, BeginDirect, TakeCardLockDirect, CreateDirect, HandoffStep, StartRun,
        StartFails, Return, locks, GoTo, UnderCardLock
  <2> QED
    BY <1>5, <1>o, <2>1, <2>2 DEF HandlerStep
<1>6. ASSUME NEW a \in Ids, FinishRun(a) \/ ReleaseRun(a) PROVE Held
  BY <1>1, <1>6 DEF FinishRun, ReleaseRun, locks
<1>7. CASE ListPending \/ Tick \/ StartScan \/ ReconcileScan \/ EndScan \/ UNCHANGED vars
  BY <1>1, <1>7 DEF ListPending, Tick, StartScan, ReconcileScan, EndScan, vars, locks
<1>8. CASE Restart
  BY <1>2, <1>8 DEF Restart, UnderCardLock
<1> QED
  BY <1>3, <1>4, <1>5, <1>6, <1>7, <1>8 DEF Next

(* What a handler's step may do to the mutation lock: take it when it is   *)
(* free and no scan runs, or give up its own.                              *)
LEMMA OwnerStep ==
  ASSUME NEW h \in Handlers, HandlerStep(h)
  PROVE  /\ scan' = scan
         /\ \/ owner' = owner
            \/ owner = h /\ owner' = NoOne
            \/ LockFree /\ owner' = h
            \/ StartRun(h) /\ owner = h /\ owner' = job[h].id
BY DEF HandlerStep, ProposeStep, BeginPropose, BeginProposeIncident, TakeCardLock, GiveUp,
       StorePropose, Supersede, SendCard, SendFails, RecordCard, RecordFails, LeaveCardBehind,
       DecideStep, BeginDecide, PreRead, Deny, CheckPolicy, TakeMutationLock, LockFree,
       CheckSource, RefuseStale, Approve, DirectStep, BeginDirect, TakeCardLockDirect,
       CreateDirect, HandoffStep, StartRun, StartFails, Return, locks

LEMMA MutationLockStep ==
  ASSUME CommandInv, [Next]_vars
  PROVE  LocksAreHeld'
<1>1. TypeOK /\ LocksAreHeld /\ RunsAreCarried /\ JobsAreReal /\ TypeOK'
  BY TypeStep DEF CommandInv
<1>2. /\ at \in [Handlers -> Places] /\ at' \in [Handlers -> Places] /\ job \in [Handlers -> Job]
      /\ worker \in [Ids -> {"none", "running", "finished"}]
      /\ NoOne \notin Handlers /\ NoOne \notin Ids /\ \A h \in Handlers : h \notin Ids
  BY <1>1, Setting DEF TypeOK
<1>3. \A h \in Handlers : at'[h] \in UnderCardLock <=> cardLock' = h
  BY CardLockStep
<1>4. cardLock' \in Handlers => at'[cardLock'] # "idle"
  BY <1>3 DEF UnderCardLock
<1> DEFINE Held == /\ \A h \in Handlers : UnderLock(h)' => owner' = h
                   /\ owner' \in Handlers => at'[owner'] # "idle"
                   /\ owner' \in Ids => worker'[owner'] # "none"
                   /\ scan'.running => owner' = NoOne
<1>g. Held => LocksAreHeld'
  BY <1>3, <1>4 DEF LocksAreHeld, LockHasAKeeper
<1>o. ASSUME NEW h \in Handlers, HandlerStep(h), UnderLock(h)' => owner' = h,
             owner' = h => at'[h] # "idle", worker' = worker \/ StartRun(h)
      PROVE  Held
  <2>1. \A g \in Handlers \ {h} : at'[g] = at[g] /\ job'[g] = job[g]
    BY <1>1, <1>o, OthersStandStill
  <2>2. \A g \in Handlers \ {h} : UnderLock(g)' => UnderLock(g)
    BY <2>1 DEF UnderLock
  <2>3. /\ \A g \in Handlers : UnderLock(g) => owner = g
        /\ owner \in Handlers => at[owner] # "idle"
        /\ owner \in Ids => worker[owner] # "none"
        /\ scan.running => owner = NoOne
    BY <1>1 DEF LocksAreHeld, LockHasAKeeper
  <2>4. CASE StartRun(h) /\ owner = h /\ owner' = job[h].id
    <3>1. job[h].id \in Ids /\ worker' = [worker EXCEPT ![job[h].id] = "running"]
      BY <1>1, <2>4 DEF StartRun, JobsAreReal, OnRow
    <3>2. worker'[owner'] # "none" /\ owner' \in Ids
      BY <1>2, <2>4, <3>1
    <3>3. scan' = scan
      BY <1>o, OwnerStep
    <3> QED
      BY <1>2, <1>o, <2>1, <2>2, <2>3, <2>4, <3>2, <3>3
  <2>5. CASE /\ scan' = scan
             /\ \/ owner' = owner
                \/ owner = h /\ owner' = NoOne
                \/ LockFree /\ owner' = h
    <3>1. \A a \in Ids : worker[a] # "none" => worker'[a] # "none"
      BY <1>1, <1>2, <1>o DEF StartRun, JobsAreReal, OnRow
    <3> QED
      BY <1>2, <1>o, <2>1, <2>2, <2>3, <2>5, <3>1 DEF LockFree
  <2> QED
    BY <1>o, <2>4, <2>5, OwnerStep
<1>h. ASSUME NEW h \in Handlers PROVE UnderLock(h) => owner = h
  BY <1>1 DEF LocksAreHeld
<1>i. ASSUME NEW h \in Handlers, at'[h] = "idle" PROVE ~UnderLock(h)'
  BY <1>i DEF UnderLock
<1>5. ASSUME NEW h \in Handlers, ProposeStep(h) PROVE Held
  <2>1. worker' = worker
    BY <1>5
    DEF ProposeStep, BeginPropose, BeginProposeIncident, TakeCardLock, GiveUp, StorePropose,
        Supersede, SendCard, SendFails, RecordCard, RecordFails, LeaveCardBehind
  <2>2. \/ at'[h] = "idle" /\ owner' # h
        \/ at'[h] \in {"await card lock", "propose", "supersede", "propose again", "send card",
                       "record card"}
    BY <1>2, <1>5
    DEF ProposeStep, BeginPropose, BeginProposeIncident, TakeCardLock, GiveUp, StorePropose,
        Supersede, SendCard, SendFails, RecordCard, RecordFails, LeaveCardBehind, Return, GoTo
  <2>3. ~UnderLock(h)'
    BY <2>2 DEF UnderLock
  <2> QED
    BY <1>5, <1>o, <2>1, <2>2, <2>3 DEF HandlerStep
<1>6. ASSUME NEW h \in Handlers, BeginDecide(h) \/ Deny(h) \/ RefuseStale(h) PROVE Held
  <2>1. worker' = worker
    BY <1>6 DEF BeginDecide, Deny, RefuseStale
  <2>2. \/ at'[h] = "idle" /\ owner' # h
        \/ at'[h] = "pre-read"
    BY <1>2, <1>6 DEF BeginDecide, Deny, RefuseStale, Return, GoTo
  <2>3. ~UnderLock(h)'
    BY <2>2 DEF UnderLock
  <2> QED
    BY <1>6, <1>o, <2>1, <2>2, <2>3 DEF HandlerStep, DecideStep
<1>7. ASSUME NEW h \in Handlers, PreRead(h) PROVE Held
  <2>1. worker' = worker
    BY <1>7 DEF PreRead
  <2>2. \/ at'[h] = "idle" /\ owner' # h
        \/ at'[h] \in {"deny", "await lock"}
        \/ at'[h] = "policy" /\ job'[h].incident = 0
    <3>1. \/ Return(h)
          \/ \E n : /\ job' = [job EXCEPT ![h].incident = n]
                    /\ \/ at' = [at EXCEPT ![h] = "deny"]
                       \/ at' = [at EXCEPT ![h] = "await lock"]
                       \/ at' = [at EXCEPT ![h] = "policy"] /\ n = 0
      BY <1>7 DEF PreRead, GoTo
    <3>2. ASSUME NEW n, job' = [job EXCEPT ![h].incident = n] PROVE job'[h].incident = n
      BY <1>2, <3>2 DEF Job
    <3>3. CASE Return(h)
      BY <1>2, <3>3 DEF Return, GoTo
    <3>4. CASE ~Return(h)
      BY <1>2, <3>1, <3>2, <3>4
    <3> QED
      BY <3>3, <3>4
  <2>3. ~UnderLock(h)'
    BY <2>2 DEF UnderLock
  <2> QED
    BY <1>7, <1>o, <2>1, <2>2, <2>3 DEF HandlerStep, DecideStep
<1>8. ASSUME NEW h \in Handlers, CheckPolicy(h) \/ CheckSource(h) PROVE Held
  <2>1. worker' = worker /\ job' = job /\ owner' = owner /\ at'[h] # "idle"
    BY <1>2, <1>8 DEF CheckPolicy, CheckSource, GoTo, locks
  <2>2. UnderLock(h)' => UnderLock(h)
    BY <1>2, <1>8, <2>1 DEF CheckPolicy, CheckSource, GoTo, UnderLock
  <2> QED
    BY <1>8, <1>h, <1>o, <2>1, <2>2 DEF HandlerStep, DecideStep
<1>9. ASSUME NEW h \in Handlers, TakeMutationLock(h) PROVE Held
  <2>1. worker' = worker
    BY <1>9 DEF TakeMutationLock
  <2>2. CASE LockFree
    <3>1. owner' = h /\ at'[h] # "idle"
      BY <1>2, <1>9, <2>2 DEF TakeMutationLock, GoTo
    <3> QED
      BY <1>9, <1>o, <2>1, <3>1 DEF HandlerStep, DecideStep
  <2>3. CASE ~LockFree
    <3>1. owner' # h /\ at'[h] = "idle"
      BY <1>2, <1>9, <2>3 DEF TakeMutationLock, Return, GoTo
    <3> QED
      BY <1>9, <1>i, <1>o, <2>1, <3>1 DEF HandlerStep, DecideStep
  <2> QED
    BY <2>2, <2>3
<1>10. ASSUME NEW h \in Handlers, Approve(h) PROVE Held
  <2>1. worker' = worker /\ at[h] = "approve"
    BY <1>10 DEF Approve
  <2>2. owner = h
    BY <1>h, <2>1 DEF UnderLock
  <2>3. \/ at'[h] = "idle" /\ owner' # h
        \/ at'[h] = "start" /\ owner' = owner
    BY <1>2, <1>10 DEF Approve, Return, GoTo, locks
  <2> QED
    BY <1>10, <1>i, <1>o, <2>1, <2>2, <2>3 DEF HandlerStep, DecideStep
<1>11. ASSUME NEW h \in Handlers, DirectStep(h) PROVE Held
  <2>1. worker' = worker /\ owner' = owner
    BY <1>11 DEF DirectStep, BeginDirect, TakeCardLockDirect, CreateDirect, locks
  <2>2. /\ at'[h] \in {"await lock direct", "create direct", "start"}
        /\ at'[h] # "await lock direct"
           => at[h] \in {"await card lock direct", "create direct"}
    BY <1>2, <1>11 DEF DirectStep, BeginDirect, TakeCardLockDirect, CreateDirect, GoTo
  <2>3. UnderLock(h)' => UnderLock(h)
    BY <2>2 DEF UnderLock
  <2> QED
    BY <1>11, <1>h, <1>o, <2>1, <2>2, <2>3 DEF HandlerStep
<1>12. ASSUME NEW h \in Handlers, HandoffStep(h) PROVE Held
  <2>1. at[h] = "start" /\ at'[h] = "idle" /\ (worker' = worker \/ StartRun(h))
    BY <1>2, <1>12 DEF HandoffStep, StartRun, StartFails, Return, GoTo
  <2>2. owner' # h
    <3>1. job[h].id \in Ids
      BY <1>1, <2>1 DEF JobsAreReal, OnRow
    <3> QED
      BY <1>2, <1>12, <3>1 DEF HandoffStep, StartRun, StartFails, Return
  <2> QED
    BY <1>12, <1>i, <1>o, <2>1, <2>2 DEF HandlerStep
<1>13. ASSUME NEW a \in Ids, FinishRun(a) \/ ReleaseRun(a) PROVE Held
  <2>1. /\ at' = at /\ job' = job /\ scan' = scan
        /\ \/ owner' = owner /\ worker' = [worker EXCEPT ![a] = "finished"]
           \/ /\ owner' = IF owner = a THEN NoOne ELSE owner
              /\ worker' = [worker EXCEPT ![a] = "none"]
    BY <1>13 DEF FinishRun, ReleaseRun, locks
  <2>2. \A h \in Handlers : UnderLock(h)' => owner = h
    BY <1>h, <2>1 DEF UnderLock
  <2>3. owner \in Handlers => at[owner] # "idle"
    BY <1>1 DEF LocksAreHeld, LockHasAKeeper
  <2>4. owner \in Ids => worker[owner] # "none"
    BY <1>1 DEF LocksAreHeld, LockHasAKeeper
  <2>5. scan.running => owner = NoOne
    BY <1>1 DEF LocksAreHeld
  <2> QED
    BY <1>2, <2>1, <2>2, <2>3, <2>4, <2>5
<1>14. ASSUME ListPending \/ Tick \/ UNCHANGED vars PROVE Held
  <2>1. UNCHANGED <<at, job, scan, owner, worker>>
    BY <1>14 DEF ListPending, Tick, vars, locks
  <2> QED
    BY <1>1, <2>1 DEF UnderLock, LocksAreHeld, LockHasAKeeper
<1>15. ASSUME StartScan \/ ReconcileScan \/ EndScan PROVE Held
  <2>1. /\ UNCHANGED <<at, job, owner, worker>>
        /\ scan'.running => owner = NoOne
    BY <1>1, <1>15 DEF StartScan, ReconcileScan, EndScan, LockFree, locks, LocksAreHeld, TypeOK
  <2> QED
    BY <1>1, <2>1 DEF UnderLock, LocksAreHeld, LockHasAKeeper
<1>16. ASSUME Restart PROVE Held
  BY <1>2, <1>i, <1>16 DEF Restart
<1>17. Held
  BY <1>5, <1>6, <1>7, <1>8, <1>9, <1>10, <1>11, <1>12, <1>13, <1>14, <1>15, <1>16
  DEF Next, DecideStep
<1> QED
  BY <1>g, <1>17

----------------------------------------------------------------------------
(* A running execution is carried by its worker or by the handler that is  *)
(* about to start it, and whoever carries it owns the lock.                *)
LEMMA RunsCarriedStep ==
  ASSUME CommandInv, [Next]_vars
  PROVE  RunsAreCarried'
<1>1. TypeOK /\ LocksAreHeld /\ RunsAreCarried /\ JobsAreReal /\ RunsMatch /\ TypeOK'
  BY TypeStep DEF CommandInv, TablesAgree
<1>2. /\ at \in [Handlers -> Places] /\ job \in [Handlers -> Job] /\ runs \in [Ids -> RunRow]
      /\ worker \in [Ids -> {"none", "running", "finished"}]
      /\ NoOne \notin Handlers /\ NoOne \notin Ids /\ \A h \in Handlers : h \notin Ids
  BY <1>1, Setting DEF TypeOK
<1>3. /\ \A a \in Ids : worker[a] # "none" => owner = a
      /\ \A a \in Ids : runs[a].status = "running" => worker[a] = "running" \/ Starting(a)
      /\ \A a \in Ids : worker[a] = "running" => runs[a].status = "running"
      /\ \A h \in Handlers : at[h] = "start" => runs[job[h].id].status = "running" /\ owner = h
                                                /\ job[h].id \in Ids
  BY <1>1 DEF RunsAreCarried, RunHoldsLock, LocksAreHeld, UnderLock, JobsAreReal, OnRow
<1> DEFINE Carried ==
      /\ \A a \in Ids : worker'[a] # "none" => owner' = a
      /\ \A a \in Ids : runs'[a].status = "running"
                          => \/ worker'[a] = "running"
                             \/ \E h \in Handlers : at'[h] = "start" /\ job'[h].id = a /\ owner' = h
      /\ \A a \in Ids : worker'[a] = "running" => runs'[a].status = "running"
      /\ \A h \in Handlers : at'[h] = "start" => runs'[job'[h].id].status = "running"
<1>g. Carried => RunsAreCarried'
  BY DEF RunsAreCarried, RunHoldsLock, Starting
(* Steps that neither begin nor end a run.                                 *)
<1>o. ASSUME NEW h \in Handlers, HandlerStep(h), runs' = runs, worker' = worker,
             at[h] # "start", at'[h] # "start"
      PROVE  Carried
  <2>1. \A g \in Handlers \ {h} : at'[g] = at[g] /\ job'[g] = job[g]
    BY <1>1, <1>o, OthersStandStill
  <2>2. owner' = owner \/ owner \in {h, NoOne}
    BY <1>o, OwnerStep DEF LockFree, StartRun
  <2>3. \A a \in Ids : Starting(a) => owner' = owner /\ \E g \in Handlers \ {h} :
                                        at[g] = "start" /\ job[g].id = a /\ owner = g
    BY <1>2, <1>o, <2>2 DEF Starting
  <2> QED
    BY <1>2, <1>3, <1>o, <2>1, <2>2, <2>3
(* A run that begins: nothing else runs, for the handler owns the lock.    *)
<1>b. ASSUME NEW h \in Handlers, NEW a \in Ids, HandlerStep(h), UnderLock(h), at[h] # "start",
             runs' = [runs EXCEPT ![a] = NewRun(a)], worker' = worker, owner' = owner,
             at'[h] = "start", job'[h].id = a
      PROVE  Carried
  <2>1. owner = h
    BY <1>1, <1>b DEF LocksAreHeld
  <2>2. \A g \in Handlers \ {h} : at'[g] = at[g] /\ at[g] # "start"
    BY <1>1, <1>2, <1>3, <1>b, <2>1, OthersStandStill
  <2>3. \A b \in Ids : worker[b] = "none" /\ ~Starting(b)
    BY <1>2, <1>3, <1>b, <2>1, <2>2 DEF Starting
  <2>4. \A b \in Ids : runs[b].status # "running"
    BY <1>3, <2>3
  <2>5. runs'[a].status = "running" /\ \A b \in Ids \ {a} : runs'[b] = runs[b]
    BY <1>2, <1>b DEF NewRun
  <2> QED
    BY <1>b, <2>1, <2>2, <2>3, <2>4, <2>5
<1>4. ASSUME NEW h \in Handlers, Approve(h) PROVE Carried
  <2>1. PICK a \in Ids : a = job[h].id /\ at[h] = "approve"
    BY <1>1, <1>4 DEF Approve, JobsAreReal, OnRow
  <2>2. CASE StillPending(a, job[h].arrived)
    <3>1. /\ runs' = [runs EXCEPT ![a] = NewRun(a)] /\ worker' = worker /\ owner' = owner
          /\ at' = [at EXCEPT ![h] = "start"] /\ job' = [job EXCEPT ![h] = [Idle EXCEPT !.id = a]]
      BY <1>4, <2>1, <2>2 DEF Approve, GoTo, locks
    <3>2. at'[h] = "start" /\ job'[h].id = a
      BY <1>2, <3>1, IdleJob DEF Job
    <3> QED
      BY <1>4, <1>b, <2>1, <3>1, <3>2 DEF UnderLock, HandlerStep, DecideStep
  <2>3. CASE ~StillPending(a, job[h].arrived)
    <3>1. /\ runs' = runs /\ worker' = worker /\ at[h] # "start" /\ at'[h] # "start"
      BY <1>2, <1>4, <2>1, <2>3 DEF Approve, Return, GoTo
    <3> QED
      BY <1>4, <1>o, <3>1 DEF HandlerStep, DecideStep
  <2> QED
    BY <2>2, <2>3
<1>5. ASSUME NEW h \in Handlers, CreateDirect(h) PROVE Carried
  <2>1. PICK a \in Ids : /\ job' = [job EXCEPT ![h] = [Idle EXCEPT !.id = a]]
                         /\ runs' = [runs EXCEPT ![a] = NewRun(a)]
    BY <1>5 DEF CreateDirect, Pending, Unborn
  <2>2. job'[h].id = a /\ at'[h] = "start" /\ at[h] = "create direct"
    BY <1>2, <1>5, <2>1, IdleJob DEF Job, CreateDirect, GoTo
  <2>3. worker' = worker /\ owner' = owner
    BY <1>5 DEF CreateDirect
  <2> QED
    BY <1>5, <1>b, <2>1, <2>2, <2>3 DEF UnderLock, HandlerStep, DirectStep
<1>6. ASSUME NEW h \in Handlers, HandoffStep(h) PROVE Carried
  <2>1. PICK a \in Ids : a = job[h].id /\ at[h] = "start" /\ owner = h
    BY <1>3, <1>6 DEF HandoffStep, StartRun, StartFails
  <2>2. \A g \in Handlers : at'[g] # "start"
    BY <1>1, <1>2, <1>3, <1>6, <2>1, OthersStandStill
    DEF HandlerStep, HandoffStep, StartRun, StartFails, Return, GoTo
  <2>3. \A b \in Ids \ {a} : worker[b] = "none" /\ runs[b].status # "running"
    BY <1>2, <1>3, <2>1 DEF Starting
  <2>4. worker[a] = "none" /\ runs[a].status = "running"
    BY <1>2, <1>3, <2>1
  <2>5. CASE StartRun(h)
    <3>1. runs' = runs /\ worker' = [worker EXCEPT ![a] = "running"] /\ owner' = a
      BY <2>1, <2>5 DEF StartRun, table
    <3> QED
      BY <1>2, <2>2, <2>3, <2>4, <3>1
  <2>6. CASE StartFails(h)
    <3>1. runs' = [runs EXCEPT ![a].status = "failed"] /\ worker' = worker
      BY <2>1, <2>6 DEF StartFails
    <3>2. runs'[a].status = "failed" /\ \A b \in Ids \ {a} : runs'[b] = runs[b]
      BY <1>2, <3>1 DEF RunRow
    <3> QED
      BY <2>2, <2>3, <2>4, <3>1, <3>2
  <2> QED
    BY <1>6, <2>5, <2>6 DEF HandoffStep
<1>7. ASSUME NEW h \in Handlers,
             \/ ProposeStep(h) \/ BeginDecide(h) \/ PreRead(h) \/ Deny(h) \/ CheckPolicy(h)
             \/ TakeMutationLock(h) \/ CheckSource(h) \/ RefuseStale(h) \/ BeginDirect(h)
             \/ TakeCardLockDirect(h)
      PROVE  Carried
  <2>1. runs' = runs /\ worker' = worker
    BY <1>7
    DEF ProposeStep, BeginPropose, BeginProposeIncident, TakeCardLock, GiveUp, StorePropose,
        Supersede, SendCard, SendFails, RecordCard, RecordFails, LeaveCardBehind, BeginDecide,
        PreRead, Deny, CheckPolicy, TakeMutationLock, CheckSource, RefuseStale, BeginDirect,
        TakeCardLockDirect, table
  <2>2. at[h] # "start" /\ at'[h] # "start"
    BY <1>2, <1>7
    DEF ProposeStep, BeginPropose, BeginProposeIncident, TakeCardLock, GiveUp, StorePropose,
        Supersede, SendCard, SendFails, RecordCard, RecordFails, LeaveCardBehind, BeginDecide,
        PreRead, Deny, CheckPolicy, TakeMutationLock, LockFree, CheckSource, RefuseStale,
        BeginDirect, TakeCardLockDirect, Return, GoTo
  <2>3. HandlerStep(h)
    BY <1>7 DEF HandlerStep, DecideStep, DirectStep
  <2> QED
    BY <1>o, <2>1, <2>2, <2>3
<1>8. ASSUME NEW a \in Ids, FinishRun(a) \/ ReleaseRun(a) PROVE Carried
  <2>1. owner = a /\ at' = at /\ job' = job
    BY <1>2, <1>3, <1>8 DEF FinishRun, ReleaseRun
  <2>2. /\ \A h \in Handlers : at[h] # "start"
        /\ \A b \in Ids \ {a} : worker[b] = "none" /\ runs[b].status # "running"
    BY <1>2, <1>3, <2>1 DEF Starting
  <2>3. CASE FinishRun(a)
    <3>1. owner' = owner /\ worker' = [worker EXCEPT ![a] = "finished"]
          /\ \E verdict \in {"passed", "failed"} : runs' = [runs EXCEPT ![a].status = verdict]
      BY <2>3 DEF FinishRun, locks
    <3>2. runs'[a].status # "running" /\ \A b \in Ids \ {a} : runs'[b] = runs[b]
      BY <1>2, <3>1 DEF RunRow
    <3> QED
      BY <1>2, <2>1, <2>2, <3>1, <3>2
  <2>4. CASE ReleaseRun(a)
    <3>1. worker' = [worker EXCEPT ![a] = "none"] /\ runs' = runs /\ worker[a] = "finished"
      BY <2>4 DEF ReleaseRun, table
    <3>2. runs[a].status # "running"
      BY <1>3, <2>2, <3>1 DEF Starting
    <3> QED
      BY <1>2, <2>1, <2>2, <3>1, <3>2
  <2> QED
    BY <1>8, <2>3, <2>4
<1>9. ASSUME ListPending \/ Tick \/ StartScan \/ ReconcileScan \/ EndScan \/ UNCHANGED vars
      PROVE  Carried
  <2>1. UNCHANGED <<at, job, owner, worker, runs>>
    BY <1>9 DEF ListPending, Tick, StartScan, ReconcileScan, EndScan, vars, locks, table
  <2> QED
    BY <1>3, <2>1 DEF Starting
<1>10. ASSUME Restart PROVE Carried
  <2>1. \A a \in Ids : runs'[a].status # "running"
    BY <1>2, <1>10 DEF Restart, RunRow
  <2> QED
    BY <1>10, <2>1 DEF Restart
<1>11. Carried
  BY <1>4, <1>5, <1>6, <1>7, <1>8, <1>9, <1>10 DEF Next, DecideStep, DirectStep
<1> QED
  BY <1>g, <1>11

----------------------------------------------------------------------------
(* Cards: whoever is delivering one holds the card lock and found the row  *)
(* without a message.                                                      *)
LEMMA CardsStep ==
  ASSUME CommandInv, [Next]_vars
  PROVE  CardsAreMissing'
<1>1. /\ TypeOK /\ LocksAreHeld /\ JobsAreReal /\ CardsAreMissing /\ RowsChange
      /\ JobsAreReal'
  BY TypeStep, JobsStep DEF CommandInv
<1>2. /\ at \in [Handlers -> Places] /\ job \in [Handlers -> Job] /\ approval \in [Ids -> Row]
  BY <1>1 DEF TypeOK
<1> DEFINE Missing(g) == at'[g] \in {"send card", "record card"} => ~approval'[job'[g].id].card
<1>s. ASSUME NEW g \in Handlers, at'[g] = at[g], job'[g] = job[g], ~ \E h \in Handlers : RecordCard(h)
      PROVE  Missing(g)
  <2> SUFFICES ASSUME at[g] \in {"send card", "record card"} PROVE ~approval'[job[g].id].card
    BY <1>s
  <2>1. job[g].id \in Ids /\ approval[job[g].id].status # "unborn" /\ ~approval[job[g].id].card
    BY <1>1 DEF JobsAreReal, OnRow, CardsAreMissing, Delivering
  <2> QED
    BY <1>1, <1>s, <2>1 DEF RowsChange, RowChange
<1>r. ASSUME NEW h \in Handlers, RecordCard(h) PROVE \A g \in Handlers : Missing(g)
  <2>1. at'[h] = "idle"
    BY <1>2, <1>r DEF RecordCard, Return, GoTo
  <2>2. ASSUME NEW g \in Handlers \ {h} PROVE at'[g] \notin {"send card", "record card"}
    <3>1. at'[g] = at[g]
      BY <1>1, <1>r, OthersStandStill DEF HandlerStep, ProposeStep
    <3>2. at[h] \in UnderCardLock
      BY <1>r DEF RecordCard, UnderCardLock
    <3>3. at[g] \notin UnderCardLock
      BY <1>1, <3>2 DEF LocksAreHeld
    <3> QED
      BY <3>1, <3>3 DEF UnderCardLock
  <2> QED
    BY <2>1, <2>2
<1>a. ASSUME NEW g \in Handlers, at'[g] \notin {"send card", "record card"} PROVE Missing(g)
  BY <1>a
<1>3. ASSUME NEW h \in Handlers, StorePropose(h) PROVE Missing(h)
  <2> DEFINE rows == Expired(approval, now)
             born == [status |-> "pending", target |-> job[h].target, plan |-> job[h].plan,
                      expires |-> now + Ttl, incident |-> job[h].incident, card |-> FALSE]
  <2>1. \/ at'[h] \in {"idle", "supersede"}
        \/ \E a \in Ids :
             /\ job' = [job EXCEPT ![h] = [Idle EXCEPT !.id = a]]
             /\ \/ approval' = rows /\ ~rows[a].card
                \/ approval' = [rows EXCEPT ![a] = born]
    BY <1>2, <1>3 DEF StorePropose, Pending, Unborn, Return, GoTo
  <2>2. rows \in [Ids -> Row] /\ ~born.card
    BY <1>2, ExpiredRows
  <2> HIDE DEF rows, born
  <2>3. ASSUME NEW a \in Ids, job' = [job EXCEPT ![h] = [Idle EXCEPT !.id = a]]
        PROVE  job'[h].id = a
    BY <1>2, <2>3, IdleJob DEF Job
  <2>4. CASE at'[h] \in {"idle", "supersede"}
    BY <2>4
  <2>5. CASE \E a \in Ids :
               /\ job' = [job EXCEPT ![h] = [Idle EXCEPT !.id = a]]
               /\ \/ approval' = rows /\ ~rows[a].card
                  \/ approval' = [rows EXCEPT ![a] = born]
    <3>1. PICK a \in Ids : /\ job' = [job EXCEPT ![h] = [Idle EXCEPT !.id = a]]
                           /\ \/ approval' = rows /\ ~rows[a].card
                              \/ approval' = [rows EXCEPT ![a] = born]
      BY <2>5
    <3>2. job'[h].id = a
      BY <2>3, <3>1
    <3>3. ~approval'[a].card
      BY <2>2, <3>1
    <3> QED
      BY <3>2, <3>3
  <2> QED
    BY <2>1, <2>4, <2>5
<1>4. ASSUME NEW h \in Handlers, SendCard(h) \/ LeaveCardBehind(h) PROVE Missing(h)
  <2>1. at[h] \in {"send card", "record card"} /\ job' = job /\ approval' = approval
    BY <1>4 DEF SendCard, LeaveCardBehind, table
  <2> QED
    BY <1>1, <2>1 DEF CardsAreMissing, Delivering
<1>5. ASSUME NEW h \in Handlers, HandlerStep(h), ~StorePropose(h), ~SendCard(h),
             ~LeaveCardBehind(h)
      PROVE  at'[h] \notin {"send card", "record card"}
  BY <1>2, <1>5
  DEF HandlerStep, ProposeStep, BeginPropose, BeginProposeIncident, TakeCardLock, GiveUp,
      Supersede, SendFails, RecordCard, RecordFails, DecideStep, BeginDecide, PreRead, Deny,
      CheckPolicy, TakeMutationLock, LockFree, CheckSource, RefuseStale, Approve, DirectStep,
      BeginDirect, TakeCardLockDirect, CreateDirect, HandoffStep, StartRun, StartFails, Return,
      GoTo
<1>6. ASSUME NEW h \in Handlers, HandlerStep(h) PROVE \A g \in Handlers : Missing(g)
  <2>1. Missing(h)
    BY <1>3, <1>4, <1>5, <1>6
  <2>2. \A g \in Handlers \ {h} : at'[g] = at[g] /\ job'[g] = job[g]
    BY <1>1, <1>6, OthersStandStill
  <2> HIDE DEF Missing
  <2> QED
    BY <1>r, <1>s, <2>1, <2>2
<1>7. ASSUME at' = at, job' = job PROVE \A g \in Handlers : Missing(g)
  <2>1. \A g \in Handlers : at'[g] = at[g] /\ job'[g] = job[g]
    BY <1>7
  <2> HIDE DEF Missing
  <2> QED
    BY <1>r, <1>s, <2>1
<1>8. ASSUME NEW a \in Ids, FinishRun(a) \/ ReleaseRun(a) PROVE at' = at /\ job' = job
  BY <1>8 DEF FinishRun, ReleaseRun
<1>9. ASSUME ListPending \/ Tick \/ StartScan \/ ReconcileScan \/ EndScan \/ UNCHANGED vars
      PROVE  at' = at /\ job' = job
  BY <1>9 DEF ListPending, Tick, StartScan, ReconcileScan, EndScan, vars
<1>10. ASSUME Restart PROVE \A g \in Handlers : Missing(g)
  BY <1>10 DEF Restart
<1> HIDE DEF Missing
<1>11. \A g \in Handlers : Missing(g)
  BY <1>6, <1>7, <1>8, <1>9, <1>10 DEF Next, HandlerStep
<1> QED
  BY <1>11 DEF CardsAreMissing, Delivering, Missing

----------------------------------------------------------------------------
(* The link to an incident: what decide() checked under the mutation lock  *)
(* is still so when it approves, because no scan reconciles meanwhile.     *)
LEMMA LinkStep ==
  ASSUME CommandInv, [Next]_vars
  PROVE  LinkIsCurrent'
<1>1. TypeOK /\ LocksAreHeld /\ JobsAreReal /\ LinkIsCurrent /\ RowsChange /\ TypeOK'
  BY TypeStep DEF CommandInv
<1>2. /\ at \in [Handlers -> Places] /\ job \in [Handlers -> Job] /\ approval \in [Ids -> Row]
      /\ scan \in [latest : 0..MaxScans, sees : BOOLEAN, running : BOOLEAN]
  BY <1>1 DEF TypeOK
<1>3. \A a \in Ids : approval[a].status # "unborn" => approval'[a].incident = approval[a].incident
  BY <1>1 DEF RowsChange, RowChange, SameRequest
<1> DEFINE Linked(g) ==
      at'[g] \in {"policy", "await lock", "source", "approve"}
        => /\ job'[g].incident = approval'[job'[g].id].incident
           /\ at'[g] \in {"policy", "approve"} /\ job'[g].incident # 0
                => scan'.latest = job'[g].incident /\ scan'.sees
<1>a. ASSUME NEW g \in Handlers, at'[g] \notin {"policy", "await lock", "source", "approve"}
      PROVE  Linked(g)
  BY <1>a
<1>f. ASSUME NEW g \in Handlers, at[g] \in {"policy", "await lock", "source", "approve"}
      PROVE  /\ job[g].incident = approval[job[g].id].incident
             /\ approval'[job[g].id].incident = approval[job[g].id].incident
             /\ at[g] \in {"policy", "approve"} /\ job[g].incident # 0
                  => scan.latest = job[g].incident /\ scan.sees
  BY <1>1, <1>3, <1>f DEF LinkIsCurrent, SourceCurrent, JobsAreReal, OnRow
<1>s. ASSUME NEW g \in Handlers, at'[g] = at[g], job'[g] = job[g],
             scan'.latest = scan.latest, scan'.sees = scan.sees
      PROVE  Linked(g)
  BY <1>f, <1>s
<1> HIDE DEF Linked
<1>4. ASSUME NEW h \in Handlers, PreRead(h) PROVE Linked(h)
  <2> DEFINE a == job[h].id
             n == Expired(approval, job[h].arrived)[a].incident
  <2>1. a \in Ids /\ approval[a].status # "unborn"
    BY <1>1, <1>4 DEF PreRead, JobsAreReal, OnRow
  <2>2. n = approval[a].incident
    BY <1>2, <2>1, ExpiredRows
  <2>3. approval'[a].incident = approval[a].incident
    BY <1>3, <2>1
  <2>4. \/ Return(h)
        \/ /\ job' = [job EXCEPT ![h].incident = n]
           /\ \/ at' = [at EXCEPT ![h] = "deny"]
              \/ at' = [at EXCEPT ![h] = "await lock"]
              \/ at' = [at EXCEPT ![h] = "policy"] /\ n = 0
    BY <1>4 DEF PreRead, GoTo
  <2> HIDE DEF n
  <2>5. ASSUME job' = [job EXCEPT ![h].incident = n]
        PROVE  job'[h].incident = n /\ job'[h].id = a
    BY <1>2, <2>5 DEF Job
  <2>6. CASE Return(h)
    BY <1>2, <1>a, <2>6 DEF Return, GoTo
  <2>7. CASE /\ job' = [job EXCEPT ![h].incident = n]
             /\ \/ at' = [at EXCEPT ![h] = "deny"]
                \/ at' = [at EXCEPT ![h] = "await lock"]
                \/ at' = [at EXCEPT ![h] = "policy"] /\ n = 0
    <3>1. \/ at'[h] \in {"deny", "await lock"}
          \/ at'[h] = "policy" /\ n = 0
      <4>1. at \in [Handlers -> Places]
        BY <1>2
      <4> QED
        BY <2>7, <4>1
    <3> QED
      BY <2>2, <2>3, <2>5, <2>7, <3>1 DEF Linked
  <2> QED
    BY <2>4, <2>6, <2>7
<1>5. ASSUME NEW h \in Handlers, CheckPolicy(h) \/ CheckSource(h) PROVE Linked(h)
  <2>1. job' = job /\ scan' = scan
    BY <1>5 DEF CheckPolicy, CheckSource
  <2>2. \/ at[h] = "policy" /\ at'[h] = "await lock" /\ job[h].incident = 0
        \/ at[h] = "policy" /\ at'[h] = "approve"
        \/ at[h] = "source" /\ at'[h] = "policy" /\ SourceCurrent(job[h].incident)
        \/ at'[h] \in {"deny", "refuse stale"}
    BY <1>2, <1>5 DEF CheckPolicy, CheckSource, GoTo
  <2> QED
    BY <1>f, <2>1, <2>2 DEF Linked, SourceCurrent
<1>6. ASSUME NEW h \in Handlers, TakeMutationLock(h) PROVE Linked(h)
  <2>1. CASE LockFree
    <3>1. job' = job /\ scan' = scan
      BY <1>6, <2>1 DEF TakeMutationLock
    <3>2. \/ at'[h] = "await card lock direct"
          \/ at[h] = "await lock" /\ at'[h] = "approve" /\ job[h].incident = 0
          \/ at[h] = "await lock" /\ at'[h] = "source"
      BY <1>2, <1>6, <2>1 DEF TakeMutationLock, GoTo
    <3> QED
      BY <1>f, <3>1, <3>2 DEF Linked
  <2>2. CASE ~LockFree
    BY <1>2, <1>6, <1>a, <2>2 DEF TakeMutationLock, Return, GoTo
  <2> QED
    BY <2>1, <2>2
<1>7. ASSUME NEW h \in Handlers, HandlerStep(h), ~PreRead(h), ~CheckPolicy(h), ~CheckSource(h),
             ~TakeMutationLock(h)
      PROVE  at'[h] \notin {"policy", "await lock", "source", "approve"}
  BY <1>2, <1>7
  DEF HandlerStep, ProposeStep, BeginPropose, BeginProposeIncident, TakeCardLock, GiveUp,
      StorePropose, Supersede, SendCard, SendFails, RecordCard, RecordFails, LeaveCardBehind,
      DecideStep, BeginDecide, Deny, RefuseStale, Approve, DirectStep, BeginDirect,
      TakeCardLockDirect, CreateDirect, HandoffStep, StartRun, StartFails, Return, GoTo
<1>8. ASSUME NEW h \in Handlers, HandlerStep(h) PROVE \A g \in Handlers : Linked(g)
  <2>1. Linked(h)
    BY <1>4, <1>5, <1>6, <1>7, <1>8, <1>a
  <2>2. \A g \in Handlers \ {h} : at'[g] = at[g] /\ job'[g] = job[g]
    BY <1>1, <1>8, OthersStandStill
  <2>3. scan' = scan
    BY <1>8, OwnerStep
  <2> QED
    BY <1>s, <2>1, <2>2, <2>3
<1>9. ASSUME at' = at, job' = job, scan'.latest = scan.latest, scan'.sees = scan.sees
      PROVE  \A g \in Handlers : Linked(g)
  <2>1. \A g \in Handlers : at'[g] = at[g] /\ job'[g] = job[g]
    BY <1>9
  <2> QED
    BY <1>9, <1>s, <2>1
<1>10. ASSUME NEW a \in Ids, FinishRun(a) \/ ReleaseRun(a)
       PROVE  at' = at /\ job' = job /\ scan' = scan
  BY <1>10 DEF FinishRun, ReleaseRun
<1>11. ASSUME ListPending \/ Tick \/ StartScan \/ EndScan \/ UNCHANGED vars
       PROVE  at' = at /\ job' = job /\ scan'.latest = scan.latest /\ scan'.sees = scan.sees
  BY <1>2, <1>11 DEF ListPending, Tick, StartScan, EndScan, vars
(* Whoever relies on the link owns the lock, so no scan is running.        *)
<1>12. ASSUME ReconcileScan PROVE \A g \in Handlers : Linked(g)
  <2>1. owner = NoOne /\ at' = at /\ job' = job
    BY <1>1, <1>12 DEF ReconcileScan, LocksAreHeld
  <2> SUFFICES ASSUME NEW g \in Handlers PROVE Linked(g)
    OBVIOUS
  <2>2. ~UnderLock(g)
    BY <1>1, <2>1, Setting DEF LocksAreHeld
  <2>3. ~(at[g] \in {"policy", "approve"} /\ job[g].incident # 0)
    BY <2>2 DEF UnderLock
  <2> QED
    BY <1>f, <2>1, <2>3 DEF Linked
<1>13. ASSUME Restart PROVE \A g \in Handlers : Linked(g)
  BY <1>13, <1>a DEF Restart
<1>14. \A g \in Handlers : Linked(g)
  BY <1>8, <1>9, <1>10, <1>11, <1>12, <1>13 DEF Next, HandlerStep
<1> QED
  BY <1>14 DEF LinkIsCurrent, SourceCurrent, Linked

LEMMA CommandStep == CommandInv /\ [Next]_vars => CommandInv'
<1> SUFFICES ASSUME CommandInv, [Next]_vars PROVE CommandInv'
  OBVIOUS
<1> QED
  BY TypeStep, TablesStep, JobsStep, MutationLockStep, RunsCarriedStep, CardsStep, LinkStep
  DEF CommandInv

(* The tables, the handlers' local variables and the two locks agree with  *)
(* each other in every state the command service can reach.                *)
THEOREM CommandInvariant == Spec => []CommandInv
BY InitCommandInv, CommandStep, PTL DEF Spec

(* Every variable of the service keeps its type: in particular no approval *)
(* ever has more than two executions and no handler is at no known place.  *)
THEOREM CommandTypes == Spec => []TypeOK
<1>1. CommandInv => TypeOK
  BY DEF CommandInv
<1> QED
  BY <1>1, CommandInvariant, PTL

(* RunHoldsLock: from the transaction that approves it until its worker    *)
(* has released, an execution owns the mutation lock (_execution_handoff   *)
(* passes it from the handler to the worker without letting go).           *)
THEOREM RunsHoldTheLock == Spec => []RunHoldsLock
<1>1. CommandInv => RunHoldsLock
  BY DEF CommandInv, RunsAreCarried
<1> QED
  BY <1>1, CommandInvariant, PTL

(* LockHasAKeeper: no early return, exception or failed thread start of    *)
(* command_service.py leaves the mutation lock or the card lock behind.    *)
THEOREM LocksHaveKeepers == Spec => []LockHasAKeeper
<1>1. CommandInv => LockHasAKeeper
  BY DEF CommandInv, LocksAreHeld
<1> QED
  BY <1>1, CommandInvariant, PTL

(* OneCard: while a card of an approval is being delivered no other        *)
(* handler delivers one, and none has been recorded (deliver_card runs     *)
(* under _proposal_card_lock, and only for a row with a NULL message_id).  *)
THEOREM CardsAreSingle == Spec => []OneCard
<1>1. ASSUME CommandInv PROVE OneCard
  <2>1. \A h \in Handlers : Delivering(h) => cardLock = h /\ ~approval[job[h].id].card
    BY <1>1 DEF CommandInv, LocksAreHeld, UnderCardLock, CardsAreMissing, Delivering
  <2> QED
    BY <2>1 DEF OneCard
<1> QED
  BY <1>1, CommandInvariant, PTL

(* An execution is added by the two transactions that approve, and by no   *)
(* other step.                                                             *)
LEMMA WhoApproves ==
  ASSUME CommandInv, [Next]_vars,
         NEW a \in Ids, approval[a].status = "pending", approval'[a].status = "approved"
  PROVE  \E h \in Handlers : Approve(h) \/ CreateDirect(h)
<1>1. TypeOK /\ RunsMatch /\ RunsMatch'
  BY TablesStep DEF CommandInv, TablesAgree
<1>2. runs \in [Ids -> RunRow]
  BY <1>1 DEF TypeOK
<1>3. runs[a].count = 0 /\ runs'[a].count = 1
  BY <1>1 DEF RunsMatch
<1>4. ASSUME NEW h \in Handlers, HandlerStep(h), ~Approve(h), ~CreateDirect(h)
      PROVE  \/ runs' = runs
             \/ runs' = [runs EXCEPT ![job[h].id].status = "failed"]
  BY <1>4
  DEF HandlerStep, ProposeStep, BeginPropose, BeginProposeIncident, TakeCardLock, GiveUp,
      StorePropose, Supersede, SendCard, SendFails, RecordCard, RecordFails, LeaveCardBehind,
      DecideStep, BeginDecide, PreRead, Deny, CheckPolicy, TakeMutationLock, CheckSource,
      RefuseStale, DirectStep, BeginDirect, TakeCardLockDirect, HandoffStep, StartRun,
      StartFails, table
<1>5. ASSUME NEW b \in Ids, FinishRun(b) \/ ReleaseRun(b) PROVE runs'[a].count = runs[a].count
  BY <1>2, <1>5 DEF FinishRun, ReleaseRun, table, RunRow
<1>6. ASSUME ListPending \/ Tick \/ StartScan \/ ReconcileScan \/ EndScan \/ UNCHANGED vars
      PROVE  runs' = runs
  BY <1>6 DEF ListPending, Tick, StartScan, ReconcileScan, EndScan, vars, table
<1>7. ASSUME Restart PROVE runs'[a].count = runs[a].count
  BY <1>2, <1>7 DEF Restart, RunRow
<1>8. ASSUME NEW h \in Handlers, HandlerStep(h), ~Approve(h), ~CreateDirect(h)
      PROVE  runs'[a].count = runs[a].count
  <2> DEFINE b == job[h].id
  <2>1. \/ runs' = runs
        \/ runs' = [runs EXCEPT ![b].status = "failed"]
    BY <1>4, <1>8
  <2> HIDE DEF b
  <2> QED
    BY <1>2, <2>1 DEF RunRow
<1> QED
  BY <1>3, <1>5, <1>6, <1>7, <1>8 DEF Next, HandlerStep

(* IncidentStillCurrent: a request that came from an incident is approved  *)
(* only while the scan it was proposed on is the latest one and still sees *)
(* the incident (the check and the approval are made under the lock that   *)
(* keeps scans out; a direct order adopts requests without an incident).   *)
THEOREM IncidentsAreCurrent == Spec => IncidentStillCurrent
<1> DEFINE Current == \A a \in Ids :
             approval[a].status = "pending" /\ approval'[a].status = "approved"
               /\ approval[a].incident # 0
             => SourceCurrent(approval[a].incident)
<1>1. ASSUME CommandInv, [Next]_vars PROVE Current
  <2> SUFFICES ASSUME NEW a \in Ids, approval[a].status = "pending",
                      approval'[a].status = "approved", approval[a].incident # 0
               PROVE  SourceCurrent(approval[a].incident)
    OBVIOUS
  <2>1. PICK h \in Handlers : Approve(h) \/ CreateDirect(h)
    BY <1>1, WhoApproves
  <2>2. approval \in [Ids -> Row] /\ JobsAreReal /\ LinkIsCurrent
    BY <1>1 DEF CommandInv, TypeOK
  <2>3. CASE Approve(h)
    <3>1. PICK b \in Ids : b = job[h].id
      BY <2>2, <2>3 DEF Approve, JobsAreReal, OnRow
    <3>2. approval' = approval \/ approval' = [approval EXCEPT ![b].status = "approved"]
      BY <2>3, <3>1 DEF Approve
    <3>3. a = b
      BY <2>2, <3>2
    <3>4. at[h] = "approve" /\ job[h].incident = approval[a].incident
      BY <2>2, <2>3, <3>1, <3>3 DEF Approve, LinkIsCurrent
    <3> QED
      BY <2>2, <3>4 DEF LinkIsCurrent
  <2>4. CASE CreateDirect(h)
    <3> DEFINE rows == Expired(approval, job[h].arrived)
    <3>1. PICK b \in Ids : /\ \/ rows[b].incident = 0
                              \/ rows[b].status = "unborn"
                           /\ \E row : approval' = [rows EXCEPT ![b] = row]
      BY <2>4, ZenonT(60) DEF CreateDirect, Pending, Unborn
    <3>2. /\ rows \in [Ids -> Row]
          /\ rows[b].incident = approval[b].incident
          /\ rows[b].status = "unborn" => approval[b].status = "unborn"
          /\ rows[a].status # "approved"
      BY <2>2, ExpiredRows
    <3> HIDE DEF rows
    <3>3. a = b
      BY <3>1, <3>2
    <3> QED
      BY <3>1, <3>2, <3>3
  <2> QED
    BY <2>1, <2>3, <2>4
<1>2. CommandInv /\ [Next]_vars => [Current]_vars
  BY <1>1
<1> HIDE DEF Current
<1>4. Spec => [][Current]_vars
  BY <1>2, CommandInvariant, PTL DEF Spec
<1> QED
  BY <1>4 DEF IncidentStillCurrent, Current, SourceCurrent

----------------------------------------------------------------------------
(* The refinement of ApprovalLedger: each step of the service is, for each *)
(* approval, one of the ledger's moves.                                    *)
LEMMA LedgerInit == Init => Ledger!Init
BY DEF Init, Blank, Ledger!Init, Ledger!NoRun

LEMMA LedgerStep ==
  ASSUME CommandInv, [Next]_vars
  PROVE  [Ledger!Next]_(Ledger!ledger)
<1>1. /\ approval \in [Ids -> Row] /\ approval' \in [Ids -> Row]
      /\ runs \in [Ids -> RunRow] /\ runs' \in [Ids -> RunRow]
      /\ \A a \in Ids : RowChange(approval[a], approval'[a]) /\ RunChange(a)
  BY TypeStep DEF CommandInv, TypeOK, RowsChange, RunsChange
<1>2. RunsMatch /\ TablesAgree'
  BY TablesStep DEF CommandInv, TablesAgree
<1> DEFINE verdict == [a \in Ids |-> approval[a].status]
           subject == [a \in Ids |-> approval[a].target]
<1>3. /\ verdict' \in [Ids -> Verdicts] /\ subject' \in [Ids -> Targets \cup {NoTarget}]
      /\ \A a \in Ids : approval[a].status \in Verdicts /\ approval'[a].status \in Verdicts
  BY <1>1 DEF Row
<1>4. runs' \in [Ids -> [count : Nat, status : Ledger!RunStates]]
  BY <1>1 DEF RunRow, Ledger!RunStates
<1>5. \A i, j \in Ids : verdict'[i] = "pending" /\ verdict'[j] = "pending"
                           /\ subject'[i] = subject'[j] => i = j
  BY <1>2 DEF TablesAgree, OnePending
<1>6. ASSUME NEW a \in Ids
      PROVE  \/ Ledger!Born(a) \/ Ledger!Approved(a) \/ Ledger!Closed(a)
             \/ Ledger!Ended(a) \/ Ledger!Same(a)
  <2>1. /\ verdict[a] = approval[a].status /\ verdict'[a] = approval'[a].status
        /\ subject[a] = approval[a].target /\ subject'[a] = approval'[a].target
    OBVIOUS
  <2>2. RowChange(approval[a], approval'[a]) /\ RunChange(a)
    BY <1>1
  <2>3. /\ runs[a] \in RunRow /\ runs'[a] \in RunRow
        /\ approval[a].status # "approved" => runs[a].count = 0 /\ runs[a].status = "none"
        /\ approval'[a].status # "approved" => runs'[a].count = 0 /\ runs'[a].status = "none"
    BY <1>1, <1>2 DEF RunsMatch, TablesAgree
  <2>4. runs'[a].count = 0 /\ runs'[a].status = "none" => runs'[a] = Ledger!NoRun
    BY <2>3 DEF RunRow, Ledger!NoRun
  <2>5. runs'[a].count = 1 /\ runs'[a].status = "running" => runs'[a] = Ledger!FirstRun
    BY <2>3 DEF RunRow, Ledger!FirstRun
  <2>6. runs[a].count = 0 /\ runs[a].status = "none" => runs[a] = Ledger!NoRun
    BY <2>3 DEF RunRow, Ledger!NoRun
  <2> HIDE DEF verdict, subject
  <2>7. CASE approval[a].status = "unborn" /\ approval'[a].status # "unborn"
    BY <2>1, <2>2, <2>3, <2>4, <2>5, <2>7 DEF RowChange, RunChange, Ledger!Born
  <2>8. CASE approval[a].status = "pending" /\ approval'[a].status = "approved"
    BY <2>1, <2>2, <2>5, <2>8 DEF RowChange, RunChange, SameRequest, Ledger!Approved
  <2>9. CASE approval[a].status = "pending" /\ approval'[a].status \in {"denied", "expired"}
    BY <2>1, <2>2, <2>3, <2>4, <2>6, <2>9 DEF RowChange, SameRequest, Ledger!Closed
  <2>10. CASE approval[a].status = approval'[a].status
    BY <2>1, <2>2, <2>3, <2>10
    DEF RowChange, RunChange, SameRequest, Ledger!Ended, Ledger!Same
  <2> QED
    BY <2>2, <2>7, <2>8, <2>9, <2>10 DEF RowChange
<1> HIDE DEF verdict, subject
<1> QED
  BY <1>3, <1>4, <1>5, <1>6
  DEF verdict, subject, Ledger!Next, Ledger!OnePendingPerTarget, Ledger!Verdicts, Verdicts

(* ImplementsLedger: whatever the handlers do to each other, each approval *)
(* is settled once, has exactly one execution when it was approved, that   *)
(* execution ends once, and one request per target waits.                  *)
THEOREM LedgerRefinement == Spec => ImplementsLedger
<1>1. CommandInv /\ [Next]_vars => [Ledger!Next]_(Ledger!ledger)
  BY LedgerStep
<1> QED
  BY <1>1, LedgerInit, CommandInvariant, PTL DEF Spec, ImplementsLedger, Ledger!Spec
=============================================================================
