--------------------------- MODULE CommandService ---------------------------
(***************************************************************************)
(* command_service.py on top of the approval and execution tables of       *)
(* store.py.  Front ends (Telegram, the dashboard over RPC) call propose,  *)
(* propose_incident, decide and request_action on threads of their own.    *)
(* Each BEGIN IMMEDIATE transaction of the store is one step; between two  *)
(* of them, and around the mutation lock and the proposal-card lock, other *)
(* handlers, workers, scans and the clock run.                             *)
(*                                                                         *)
(* The mutation lock is the one PipelineLock models.  Here its owner is    *)
(* the party that must release it: the handler until the worker thread has *)
(* started, then the execution (decide() and request_action() keep one     *)
(* owner string through that hand-off).                                    *)
(***************************************************************************)
EXTENDS Naturals, FiniteSets, TLC

CONSTANTS
  Handlers,    \* request threads of the front ends
  Ids,         \* identities approvals may get
  Targets,     \* (action, target key) pairs
  Plans,       \* plan documents: what the host's current binding builds
  NoTarget, NoPlan, NoId, NoOne,
  Ttl,         \* ttl_seconds of a card, in clock ticks
  MaxTime,     \* bound: clock ticks
  MaxScans,    \* bound: scans that reconcile the incident table
  MaxRestarts  \* bound: restarts of core

ASSUME IdentitiesAssumption ==
  /\ NoOne \notin Handlers /\ NoOne \notin Ids /\ NoId \notin Ids
  /\ Handlers \cap Ids = {}
  /\ NoTarget \notin Targets /\ NoPlan \notin Plans

ASSUME BoundsAssumption ==
  {MaxTime, MaxScans, MaxRestarts} \subseteq Nat /\ Ttl \in Nat \ {0}

VARIABLES
  now,        \* the store's clock
  approval,   \* table approvals
  runs,       \* table executions: how many an approval has, and the last one's status
  owner,      \* the mutation lock
  cardLock,   \* _proposal_card_lock
  scan,       \* the incident table: latest reconciled scan, does it see the incident,
              \* and is a scan holding the run slot
  at, job,    \* where each handler is, and its local variables
  worker,     \* the worker thread of an approval's execution
  restarts    \* history: how often core restarted

table == <<approval, runs>>
locks == <<owner, cardLock>>
vars == <<now, approval, runs, owner, cardLock, scan, at, job, worker, restarts>>

Verdicts == {"unborn", "pending", "approved", "denied", "expired"}
Row == [status : Verdicts, target : Targets \cup {NoTarget}, plan : Plans \cup {NoPlan},
        expires : 0..(MaxTime + Ttl), incident : 0..MaxScans, card : BOOLEAN]
Blank == [status |-> "unborn", target |-> NoTarget, plan |-> NoPlan,
          expires |-> 0, incident |-> 0, card |-> FALSE]

RunRow == [count : 0..2, status : {"none", "running", "passed", "failed", "interrupted"}]

Job == [id : Ids \cup {NoId}, target : Targets \cup {NoTarget}, plan : Plans \cup {NoPlan},
        incident : 0..MaxScans, arrived : 0..MaxTime, approve : BOOLEAN]
Idle == [id |-> NoId, target |-> NoTarget, plan |-> NoPlan, incident |-> 0,
         arrived |-> 0, approve |-> FALSE]

Init ==
  /\ now = 0
  /\ approval = [a \in Ids |-> Blank]
  /\ runs = [a \in Ids |-> [count |-> 0, status |-> "none"]]
  /\ owner = NoOne
  /\ cardLock = NoOne
  /\ scan = [latest |-> 0, sees |-> FALSE, running |-> FALSE]
  /\ at = [h \in Handlers |-> "idle"]
  /\ job = [h \in Handlers |-> Idle]
  /\ worker = [a \in Ids |-> "none"]
  /\ restarts = 0

----------------------------------------------------------------------------
(* Helpers.                                                                *)

GoTo(h, where) == at' = [at EXCEPT ![h] = where]

(* Mutant: an early return keeps the locks.                                *)
ReturnHolding(h) ==
  GoTo(h, "idle") /\ job' = [job EXCEPT ![h] = Idle] /\ UNCHANGED locks

(* The handler returns or raises: its `finally` clauses release the card   *)
(* lock and, unless a worker took it over, the mutation lock.              *)
Return(h) ==
  /\ GoTo(h, "idle")
  /\ job' = [job EXCEPT ![h] = Idle]
  /\ owner' = IF owner = h THEN NoOne ELSE owner
  /\ cardLock' = IF cardLock = h THEN NoOne ELSE cardLock

(* Mutants: the lock is not taken, or taken under a running scan.          *)
NoScan == ~scan.running
NoMutation == owner = NoOne

(* try_begin_mutation and try_start_run, as PipelineLock models them.      *)
LockFree == owner = NoOne /\ ~scan.running

(* _expire_stale, the first statement of most transactions.                *)
Expired(rows, as_of) ==
  [a \in Ids |-> IF rows[a].status = "pending" /\ rows[a].expires <= as_of
                 THEN [rows[a] EXCEPT !.status = "expired"] ELSE rows[a]]

Pending(rows, t) == {a \in Ids : rows[a].status = "pending" /\ rows[a].target = t}
Unborn(rows) == {a \in Ids : rows[a].status = "unborn"}

(* Mutant: the UPDATE does not look at the status.                         *)
StillUnexpired(a, arrived) == approval[a].expires > arrived

(* The conditional UPDATE of consume and approve_and_create_execution.     *)
StillPending(a, arrived) ==
  approval[a].status = "pending" /\ approval[a].expires > arrived

(* The row approve_and_create_execution and create_direct_execution insert.*)
NewRun(a) == [count |-> runs[a].count + 1, status |-> "running"]

(* _source_current: the latest reconciled scan is the one linked, and it   *)
(* still observes the incident.                                            *)
SourceCurrent(linked) == scan.latest = linked /\ scan.sees

----------------------------------------------------------------------------
(* propose and propose_incident.                                           *)

(* The target is resolved and the runbook built from the host as it is.    *)
BeginPropose(h) ==
  /\ at[h] = "idle"
  /\ \E t \in Targets, p \in Plans :
       job' = [job EXCEPT ![h] = [Idle EXCEPT !.target = t, !.plan = p]]
  /\ GoTo(h, "await card lock")
  /\ UNCHANGED <<now, table, locks, scan, worker, restarts>>

(* propose_incident: the same under the mutation lock, linked to the scan  *)
(* that sees the incident.                                                 *)
BeginProposeIncident(h) ==
  /\ at[h] = "idle"
  /\ LockFree
  /\ scan.sees
  /\ owner' = h
  /\ \E t \in Targets, p \in Plans :
       job' = [job EXCEPT ![h] =
                 [Idle EXCEPT !.target = t, !.plan = p, !.incident = scan.latest]]
  /\ GoTo(h, "await card lock")
  /\ UNCHANGED <<now, table, cardLock, scan, worker, restarts>>

(* Mutant: cards are not serialised.                                       *)
SkipCardLock(h) ==
  /\ at[h] = "await card lock"
  /\ GoTo(h, "propose")
  /\ UNCHANGED <<now, table, locks, scan, job, worker, restarts>>

TakeCardLock(h) ==
  /\ at[h] = "await card lock" /\ cardLock = NoOne
  /\ cardLock' = h
  /\ GoTo(h, "propose")
  /\ UNCHANGED <<now, table, owner, scan, job, worker, restarts>>

(* The caller's budget ran out before the card lock came free ("host slow, *)
(* retry"), or the database raised: nothing is written.                    *)
GiveUp(h) ==
  /\ at[h] \in {"await card lock", "propose", "supersede", "propose again", "pre-read", "deny",
                "source", "refuse stale", "approve", "await card lock direct", "create direct"}
  /\ Return(h)
  /\ UNCHANGED <<now, table, scan, worker, restarts>>

(* store.propose, one transaction.  A live request for the target is       *)
(* returned as it is when it carries the same plan (and, for an incident,  *)
(* the same link); another plan raises PendingPlanConflict.                *)
StorePropose(h) ==
  LET j == job[h]
      rows == Expired(approval, now)
      live == Pending(rows, j.target)
  IN  /\ at[h] \in {"propose", "propose again"}
      /\ UNCHANGED <<now, runs, scan, worker, restarts>>
      /\ \/ /\ j.incident # 0 /\ ~SourceCurrent(j.incident)
            /\ Return(h) /\ UNCHANGED approval          \* IncidentSourceError rolls back
         \/ /\ j.incident # 0 => SourceCurrent(j.incident)
            /\ live = {}
            /\ \E a \in Unborn(rows) :
                 /\ approval' = [rows EXCEPT ![a] =
                      [status |-> "pending", target |-> j.target, plan |-> j.plan,
                       expires |-> now + Ttl, incident |-> j.incident, card |-> FALSE]]
                 /\ job' = [job EXCEPT ![h] = [Idle EXCEPT !.id = a]]
            /\ GoTo(h, "send card")
            /\ UNCHANGED locks
         \/ /\ j.incident # 0 => SourceCurrent(j.incident)
            /\ \E a \in live :
                 \/ /\ rows[a].plan = j.plan
                    /\ j.incident = 0 \/ rows[a].incident = j.incident
                    /\ approval' = rows
                    /\ IF rows[a].card
                         THEN Return(h)
                         ELSE /\ job' = [job EXCEPT ![h] = [Idle EXCEPT !.id = a]]
                              /\ GoTo(h, "send card")
                              /\ UNCHANGED locks
                 \/ /\ rows[a].plan = j.plan                   \* IncidentSourceError
                    /\ j.incident # 0 /\ rows[a].incident # j.incident
                    /\ Return(h) /\ UNCHANGED approval
                 \/ /\ rows[a].plan # j.plan                   \* PendingPlanConflict
                    /\ UNCHANGED approval
                    /\ IF at[h] = "propose"
                         THEN /\ job' = [job EXCEPT ![h].id = a]
                              /\ GoTo(h, "supersede")
                              /\ UNCHANGED locks
                         ELSE Return(h)

(* supersede_pending: the drifted request, if it still waits, makes room.  *)
Supersede(h) ==
  /\ at[h] = "supersede"
  /\ approval' = [approval EXCEPT ![job[h].id].status =
                    IF @ = "pending" THEN "expired" ELSE @]
  /\ GoTo(h, "propose again")
  /\ UNCHANGED <<now, runs, locks, scan, job, worker, restarts>>

(* deliver_card: send, then record the message id in a transaction of its  *)
(* own; a failed send raises and leaves the row without a card.            *)
SendCard(h) ==
  /\ at[h] = "send card"
  /\ GoTo(h, "record card")
  /\ UNCHANGED <<now, table, locks, scan, job, worker, restarts>>

SendFails(h) ==
  /\ at[h] = "send card"
  /\ Return(h)
  /\ UNCHANGED <<now, table, scan, worker, restarts>>

RecordCard(h) ==
  /\ at[h] = "record card"
  /\ approval' = [approval EXCEPT ![job[h].id].card = TRUE]
  /\ Return(h)
  /\ UNCHANGED <<now, runs, scan, worker, restarts>>

(* set_message_id raises: the card is out, the row does not know.          *)
RecordFails(h) ==
  /\ at[h] = "record card"
  /\ Return(h)
  /\ UNCHANGED <<now, table, scan, worker, restarts>>

(* defer_card: propose_incident has returned and released the mutation     *)
(* lock while the card is delivered by the background worker.              *)
LeaveCardBehind(h) ==
  /\ at[h] \in {"send card", "record card"} /\ owner = h
  /\ owner' = NoOne
  /\ UNCHANGED <<now, table, cardLock, scan, at, job, worker, restarts>>

----------------------------------------------------------------------------
(* decide.                                                                 *)

BeginDecide(h) ==
  /\ at[h] = "idle"
  /\ \E a \in Ids, approve \in BOOLEAN :
       /\ approval[a].status # "unborn"
       /\ job' = [job EXCEPT ![h] = [Idle EXCEPT !.id = a, !.arrived = now, !.approve = approve]]
  /\ GoTo(h, "pre-read")
  /\ UNCHANGED <<now, table, locks, scan, worker, restarts>>

(* get_approval(as_of=arrived): answers "already decided"/"expired".       *)
PreRead(h) ==
  LET j == job[h]
      rows == Expired(approval, j.arrived)
  IN  /\ at[h] = "pre-read"
      /\ approval' = rows
      /\ IF rows[j.id].status # "pending"
           THEN Return(h)
           ELSE /\ job' = [job EXCEPT ![h].incident = rows[j.id].incident]
                /\ GoTo(h, IF ~j.approve THEN "deny"
                           ELSE IF rows[j.id].incident = 0 THEN "policy" ELSE "await lock")
                /\ UNCHANGED locks
      /\ UNCHANGED <<now, runs, scan, worker, restarts>>

(* consume(denied): an operator's no, or a policy that no longer allows it.*)
Deny(h) ==
  LET j == job[h]
  IN  /\ at[h] = "deny"
      /\ approval' = IF StillPending(j.id, j.arrived)
                     THEN [approval EXCEPT ![j.id].status = "denied"] ELSE approval
      /\ Return(h)
      /\ UNCHANGED <<now, runs, scan, worker, restarts>>

(* _current_policy: today's policy may refuse what yesterday's carded.     *)
CheckPolicy(h) ==
  /\ at[h] = "policy"
  /\ GoTo(h, IF job[h].incident = 0 THEN "await lock" ELSE "approve") \/ GoTo(h, "deny")
  /\ UNCHANGED <<now, table, locks, scan, job, worker, restarts>>

TakeMutationLock(h) ==
  /\ at[h] \in {"await lock", "await lock direct"}
  /\ IF LockFree
       THEN /\ owner' = h
            /\ GoTo(h, IF at[h] = "await lock direct" THEN "await card lock direct"
                       ELSE IF job[h].incident = 0 THEN "approve" ELSE "source")
            /\ UNCHANGED <<cardLock, job>>
       ELSE Return(h)                     \* busy: the approval stays pending
  /\ UNCHANGED <<now, table, scan, worker, restarts>>

CheckSource(h) ==
  /\ at[h] = "source"
  /\ GoTo(h, IF SourceCurrent(job[h].incident) THEN "policy" ELSE "refuse stale")
  /\ UNCHANGED <<now, table, locks, scan, job, worker, restarts>>

RefuseStale(h) ==
  LET j == job[h]
  IN  /\ at[h] = "refuse stale"
      /\ approval' = IF StillPending(j.id, j.arrived)
                     THEN [approval EXCEPT ![j.id].status = "denied"] ELSE approval
      /\ Return(h)
      /\ UNCHANGED <<now, runs, scan, worker, restarts>>

(* approve_and_create_execution: both rows in one transaction.             *)
Approve(h) ==
  LET j == job[h]
  IN  /\ at[h] = "approve"
      /\ IF StillPending(j.id, j.arrived)
           THEN /\ approval' = [approval EXCEPT ![j.id].status = "approved"]
                /\ runs' = [runs EXCEPT ![j.id] = NewRun(j.id)]
                /\ job' = [job EXCEPT ![h] = [Idle EXCEPT !.id = j.id]]
                /\ GoTo(h, "start")
                /\ UNCHANGED locks
           ELSE Return(h) /\ UNCHANGED <<approval, runs>>
      /\ UNCHANGED <<now, scan, worker, restarts>>

----------------------------------------------------------------------------
(* request_action: an operator's direct order.                             *)

BeginDirect(h) ==
  /\ at[h] = "idle"
  /\ \E t \in Targets, p \in Plans :
       job' = [job EXCEPT ![h] = [Idle EXCEPT !.target = t, !.plan = p, !.arrived = now]]
  /\ GoTo(h, "await lock direct")
  /\ UNCHANGED <<now, table, locks, scan, worker, restarts>>

TakeCardLockDirect(h) ==
  /\ at[h] = "await card lock direct" /\ cardLock = NoOne
  /\ cardLock' = h
  /\ GoTo(h, "create direct")
  /\ UNCHANGED <<now, table, owner, scan, job, worker, restarts>>

(* create_direct_execution: adopt the waiting request when it is the very  *)
(* thing just confirmed, else insert one that is born approved.            *)
CreateDirect(h) ==
  LET j == job[h]
      rows == Expired(approval, j.arrived)
      adoptable == {a \in Pending(rows, j.target) : rows[a].incident = 0 /\ rows[a].plan = j.plan}
  IN  /\ at[h] = "create direct"
      /\ \E a \in IF adoptable # {} THEN adoptable ELSE Unborn(rows) :
           /\ approval' = [rows EXCEPT ![a] =
                IF adoptable # {} THEN [@ EXCEPT !.status = "approved"]
                ELSE [status |-> "approved", target |-> j.target, plan |-> j.plan,
                      expires |-> now, incident |-> 0, card |-> FALSE]]
           /\ runs' = [runs EXCEPT ![a] = NewRun(a)]
           /\ job' = [job EXCEPT ![h] = [Idle EXCEPT !.id = a]]
      /\ cardLock' = NoOne
      /\ GoTo(h, "start")
      /\ UNCHANGED <<now, owner, scan, worker, restarts>>

----------------------------------------------------------------------------
(* _execution_handoff and the worker thread.                               *)

StartRun(h) ==
  /\ at[h] = "start"
  /\ worker' = [worker EXCEPT ![job[h].id] = "running"]
  /\ owner' = IF owner = h THEN job[h].id ELSE owner
  /\ GoTo(h, "idle")
  /\ job' = [job EXCEPT ![h] = Idle]
  /\ UNCHANGED <<now, table, cardLock, scan, restarts>>

(* Mutant: a failed thread start leaves the execution running.             *)
StartFailsSilently(h) ==
  /\ at[h] = "start"
  /\ Return(h)
  /\ UNCHANGED <<now, table, scan, worker, restarts>>

(* The thread will not start: the execution fails and decide() releases.   *)
StartFails(h) ==
  /\ at[h] = "start"
  /\ runs' = [runs EXCEPT ![job[h].id].status = "failed"]
  /\ Return(h)
  /\ UNCHANGED <<now, approval, scan, worker, restarts>>

(* _run_execution records the engine's verdict (Engine models the run) ... *)
FinishRun(a) ==
  /\ worker[a] = "running"
  /\ \E verdict \in {"passed", "failed"} : runs' = [runs EXCEPT ![a].status = verdict]
  /\ worker' = [worker EXCEPT ![a] = "finished"]
  /\ UNCHANGED <<now, approval, locks, scan, at, job, restarts>>

(* Mutant: the worker thread ends without its `finally`.                   *)
ReleaseNothing(a) ==
  /\ worker[a] = "finished"
  /\ worker' = [worker EXCEPT ![a] = "none"]
  /\ UNCHANGED <<now, table, locks, scan, at, job, restarts>>

(* ... and its `finally` releases the lock.                                *)
ReleaseRun(a) ==
  /\ worker[a] = "finished"
  /\ worker' = [worker EXCEPT ![a] = "none"]
  /\ owner' = IF owner = a THEN NoOne ELSE owner
  /\ UNCHANGED <<now, table, cardLock, scan, at, job, restarts>>

----------------------------------------------------------------------------
(* Everybody else.                                                         *)

(* list_pending, list_recent_approvals, get_approval(): lazy expiry as of  *)
(* the clock now, from any thread.                                         *)
ListPending ==
  /\ approval' = Expired(approval, now)
  /\ UNCHANGED <<now, runs, locks, scan, at, job, worker, restarts>>

Tick ==
  /\ now < MaxTime
  /\ now' = now + 1
  /\ UNCHANGED <<table, locks, scan, at, job, worker, restarts>>

(* A scan takes the run slot only while nobody holds the mutation lock,    *)
(* reconciles the incident table, and goes idle.                           *)
StartScan ==
  /\ LockFree /\ scan.latest < MaxScans
  /\ scan' = [scan EXCEPT !.running = TRUE]
  /\ UNCHANGED <<now, table, locks, at, job, worker, restarts>>

ReconcileScan ==
  /\ scan.running /\ scan.latest < MaxScans
  /\ \E sees \in BOOLEAN :
       scan' = [latest |-> scan.latest + 1, sees |-> sees, running |-> TRUE]
  /\ UNCHANGED <<now, table, locks, at, job, worker, restarts>>

EndScan ==
  /\ scan.running
  /\ scan' = [scan EXCEPT !.running = FALSE]
  /\ UNCHANGED <<now, table, locks, at, job, worker, restarts>>

(* Core dies and comes back: threads and locks are gone, and before any    *)
(* front end is served interrupt_unfinished closes the running executions. *)
Restart ==
  /\ restarts < MaxRestarts
  /\ restarts' = restarts + 1
  /\ runs' = [a \in Ids |-> IF runs[a].status = "running"
                            THEN [runs[a] EXCEPT !.status = "interrupted"] ELSE runs[a]]
  /\ owner' = NoOne
  /\ cardLock' = NoOne
  /\ scan' = [scan EXCEPT !.running = FALSE]
  /\ at' = [h \in Handlers |-> "idle"]
  /\ job' = [h \in Handlers |-> Idle]
  /\ worker' = [a \in Ids |-> "none"]
  /\ UNCHANGED <<now, approval>>

ProposeStep(h) ==
  BeginPropose(h) \/ BeginProposeIncident(h) \/ TakeCardLock(h) \/ GiveUp(h) \/ StorePropose(h)
    \/ Supersede(h) \/ SendCard(h) \/ SendFails(h) \/ RecordCard(h)
    \/ RecordFails(h) \/ LeaveCardBehind(h)

DecideStep(h) ==
  BeginDecide(h) \/ PreRead(h) \/ Deny(h) \/ CheckPolicy(h) \/ TakeMutationLock(h)
    \/ CheckSource(h) \/ RefuseStale(h) \/ Approve(h)

DirectStep(h) ==
  BeginDirect(h) \/ TakeCardLockDirect(h) \/ CreateDirect(h)

HandoffStep(h) == StartRun(h) \/ StartFails(h)

Next ==
  \/ \E h \in Handlers : ProposeStep(h) \/ DecideStep(h) \/ DirectStep(h) \/ HandoffStep(h)
  \/ \E a \in Ids : FinishRun(a) \/ ReleaseRun(a)
  \/ ListPending
  \/ Tick
  \/ StartScan \/ ReconcileScan \/ EndScan
  \/ Restart

Spec == Init /\ [][Next]_vars

(* A thread that has entered the service runs on to its end; every wait    *)
(* has a timeout (GiveUp), and the worker thread ends its run.             *)
Proceeds(h) ==
  \/ TakeCardLock(h) \/ GiveUp(h) \/ StorePropose(h) \/ Supersede(h) \/ SendCard(h)
  \/ SendFails(h) \/ RecordCard(h) \/ RecordFails(h) \/ LeaveCardBehind(h)
  \/ PreRead(h) \/ Deny(h) \/ CheckPolicy(h) \/ TakeMutationLock(h) \/ CheckSource(h)
  \/ RefuseStale(h) \/ Approve(h) \/ TakeCardLockDirect(h) \/ CreateDirect(h)
  \/ HandoffStep(h)

Fairness ==
  /\ \A h \in Handlers : WF_vars(Proceeds(h))
  /\ \A a \in Ids : WF_vars(FinishRun(a) \/ ReleaseRun(a))

FairSpec == Spec /\ Fairness

----------------------------------------------------------------------------
(* Properties.                                                             *)

Places == {"idle", "await card lock", "propose", "supersede", "propose again", "send card",
           "record card", "pre-read", "deny", "policy", "await lock", "source", "refuse stale",
           "approve", "await lock direct", "await card lock direct", "create direct", "start"}

TypeOK ==
  /\ now \in 0..MaxTime
  /\ approval \in [Ids -> Row]
  /\ runs \in [Ids -> RunRow]
  /\ owner \in Handlers \cup Ids \cup {NoOne}
  /\ cardLock \in Handlers \cup {NoOne}
  /\ scan \in [latest : 0..MaxScans, sees : BOOLEAN, running : BOOLEAN]
  /\ at \in [Handlers -> Places]
  /\ job \in [Handlers -> Job]
  /\ worker \in [Ids -> {"none", "running", "finished"}]
  /\ restarts \in 0..MaxRestarts

(* The store's promise (ApprovalLedger): every approval is settled once,   *)
(* an execution exists exactly when it was approved, ends once, and one    *)
(* request per target waits, whatever the handlers do to each other.       *)
Ledger == INSTANCE ApprovalLedger
            WITH verdict <- [a \in Ids |-> approval[a].status],
                 subject <- [a \in Ids |-> approval[a].target],
                 runs <- runs

ImplementsLedger == Ledger!Spec

(* A typed execution changes the host only under the mutation lock, one at *)
(* a time: from the approval's transaction on, the lock belongs to the     *)
(* handler that will start the worker and then to the worker.              *)
Starting(a) == \E h \in Handlers : at[h] = "start" /\ job[h].id = a /\ owner = h

RunHoldsLock ==
  \A a \in Ids :
    /\ worker[a] # "none" => owner = a
    /\ runs[a].status = "running" => worker[a] = "running" \/ Starting(a)

(* The lock is never left behind: whoever it belongs to is still going to  *)
(* release it, on every early return, exception and failed thread start.   *)
LockHasAKeeper ==
  /\ owner \in Handlers => at[owner] # "idle"
  /\ owner \in Ids => worker[owner] # "none"
  /\ cardLock \in Handlers => at[cardLock] # "idle"

(* An approval that came from an incident runs only if the scan it was     *)
(* proposed on is still the latest and still sees the incident: the check  *)
(* is made under the mutation lock, which no scan can start under.         *)
IncidentStillCurrent ==
  [][\A a \in Ids :
       approval[a].status = "pending" /\ approval'[a].status = "approved"
         /\ approval[a].incident # 0
       => SourceCurrent(approval[a].incident)]_vars

(* "Two front-end requests cannot both observe the same NULL message_id    *)
(* and publish duplicate actionable cards": one handler at a time delivers *)
(* a card for an approval, and only while none is recorded.                *)
Delivering(h) == at[h] \in {"send card", "record card"}

OneCard ==
  \A h \in Handlers : Delivering(h) =>
    /\ ~approval[job[h].id].card
    /\ \A g \in Handlers \ {h} : Delivering(g) => job[g].id # job[h].id

(* Whoever holds the locks lets go of them, and every execution ends.      *)
LockComesFree == owner # NoOne ~> owner = NoOne
RunEnds == \A a \in Ids : runs[a].status = "running" ~> runs[a].status # "running"

(* Handlers, approvals and plans carry no order: their permutations are    *)
(* symmetries of the safety runs.                                          *)
Alike == Permutations(Handlers) \cup Permutations(Ids) \cup Permutations(Plans)
=============================================================================
