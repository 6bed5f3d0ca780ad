------------------------------- MODULE Parts -------------------------------
(* Components the commands and the lock do not run through, side by side:   *)
(* a behaviour is one of a single component, chosen at first, and they take *)
(* turns at the same variables.  PartsProofs proves about those of this     *)
(* module, for any value of the constants; MCParts adds the others.         *)
EXTENDS Integers, Sequences, FiniteSets

CONSTANTS
  Runs, Targets, Plans, Day, Cooldown, MaxPerDay, MaxDays,                    \* Attempts
  WebRequests, Accounts, Addresses, LockTime, MaxFailures, MaxLog, SignInTime,   \* OperatorAuth
  WebWorkers, CacheAge, ElevatedFor, ElevatedCap, MaxTime, MaxRevokes,        \* DeviceSessions
  MaxSignIns,                                                                 \* DeviceSessions
  MaxReports,                                                                 \* Incidents
  Tickets, ChatSlots, DailyLimit, MaxDay, ChatCalls, MoreFaults,                  \* Chat
  Operators, Switch, MaxEdits, MaxTries,                                      \* ConfigService
  OtherEdits, MaxFaults,                                                      \* ComposeWrite
  Processes, Connections, Workers, MaxStarts,                                 \* RpcServer
  Choices, Chats, MaxFaces, MaxRuns, MaxActs, MaxAttempts,                    \* SetupSession
  MaxActions, MaxOthers,                                                      \* HostControl
  Members, Paused, MaxScans, MaxChanges,                                      \* Monitor
  MaxVersions, MaxIds,                                                        \* Targets
  TTL, Budget, MaxIncludes, MaxCalls,                                         \* TargetCache
  Containers, PollEvery, StableFor, TimeLimit, MaxCrashes, MaxTurns,          \* Verify
  StackSize, Forbidden, MaxOps,                                               \* StackOps
  Eligible, Week, BusyRetry, MaxWait, Clear, Shift, MaxWindows, MaxPatches    \* WeeklyPass

VARIABLES part,   \* the component that moves
          v1, v2, v3, v4, v5, v6, v7, v8, v9, v10, v11, v12, v13, v14, v15
          \* its variables, those of a name in one place; what a component has no use for stays 0
vars == <<part, v1, v2, v3, v4, v5, v6, v7, v8, v9, v10, v11, v12, v13, v14, v15>>

At == INSTANCE Attempts WITH
  MaxNow <- MaxDays, now <- v2, legacy <- v1, run <- v3, ledger <- v4
Op == INSTANCE OperatorAuth WITH
  Requests <- WebRequests, Operators <- Accounts, MaxTime <- SignInTime,
  now <- v2, failures <- v4, kept <- v6, counter <- v5, ghost <- v3, request <- v1
De == INSTANCE DeviceSessions WITH
  Requests <- WebRequests, Workers <- WebWorkers, Window <- ElevatedFor, Cap <- ElevatedCap,
  now <- v2, epoch <- v4, revoked <- v8, cache <- v3, token <- v1, marker <- v6, req <- v5,
  proved <- v9, alive <- v7
In == INSTANCE Incidents WITH
  MaxScans <- MaxReports, kind <- v6, scans <- v3, pending <- v4, receipts <- v1, incident <- v5,
  history <- v2
Ch == INSTANCE Chat WITH
  Slots <- ChatSlots, MaxFaults <- MoreFaults, MaxCalls <- ChatCalls,
  day <- v2, status <- v8, at <- v3, queue <- v5, free <- v7, calls <- v4, from <- v6, faults <- v1
Cf == INSTANCE ConfigService WITH
  MaxFaults <- MoreFaults, file <- v2, loaded <- v8, owner <- v9, op <- v3, foreign <- v10,
  announced <- v6, watch <- v5, edits <- v4, faults <- v1, tries <- v7
Cw == INSTANCE ComposeWrite WITH
  MaxEdits <- OtherEdits, file <- v2, dir <- v5, extra <- v9, backup <- v13, base <- v12,
  at <- v3, effect <- v10, pre <- v11, binding <- v8, ours <- v14, made <- v6, slipped <- v15,
  fresh <- v7, edits <- v4, faults <- v1
Rp == INSTANCE RpcServer WITH
  proc <- v5, path <- v4, conn <- v3, refused <- v2, starts <- v1
Se == INSTANCE SetupSession WITH
  host <- v4, discovery <- v6, answers <- v9, reviewed <- v7, phase <- v13, applied <- v10,
  run <- v3, chat <- v5, test <- v12, enrol <- v8, proof <- v1, proven <- v14, acts <- v11,
  runs <- v2
Ho == INSTANCE HostControl WITH
  MaxFaults <- MoreFaults, provider <- v4, allowed <- v6, service <- v3, action <- v9,
  result <- v10, told <- v2, disturbed <- v5, done <- v8, faults <- v1, others <- v7
Mo == INSTANCE Monitor WITH
  Services <- Members, state <- v5, disk <- v4, snap <- v8, saved <- v7, scan <- v11, told <- v2,
  urgent <- v9, cut <- v10, scans <- v3, changes <- v6, faults <- v1
Ta == INSTANCE Targets WITH
  target <- v2, version <- v1, ids <- v7, made <- v6, at <- v3, read <- v4, stage <- v8,
  bound <- v9, intact <- v5
Tc == INSTANCE TargetCache WITH
  Requests <- WebRequests, file <- v2, cache <- v3, time <- v5, request <- v1, flipped <- v6,
  fresh <- v7, spent <- v4
Ve == INSTANCE Verify WITH
  Poll <- PollEvery, Stable <- StableFor, Timeout <- TimeLimit,
  now <- v2, run <- v3, watch <- v5, verdict <- v6, calm <- v10, settled <- v9, read <- v4,
  crashes <- v7, turns <- v8, faults <- v1
St == INSTANCE StackOps WITH
  Size <- StackSize, provider <- v4, lines <- v2, core <- v8, up <- v7, dir <- v5, cmd <- v6,
  op <- v3, faults <- v1, ops <- v9
We == INSTANCE WeeklyPass WITH
  Services <- Eligible, Retry <- BusyRetry, now <- v2, offset <- v7, at <- v3, until <- v9,
  waited <- v13, aimed <- v8, lock <- v5, todo <- v12, results <- v11, host <- v4, asked <- v6,
  patches <- v10, faults <- v1

(* Durations and counts are whole numbers; a step of a plan acts on a      *)
(* target; there is a dashboard worker, which trusts its cache for a while; *)
(* chats are finitely many; the name for nobody is nobody's; and a week is *)
(* longer than everything the weekly pass does in one, with the clock put  *)
(* back by no more than the sleep that clears a window.                    *)
ASSUME LimitsAssumption == /\ Day \in Nat /\ Cooldown \in Nat /\ MaxPerDay \in Nat
                           /\ Plans \subseteq Seq(Targets)
ASSUME SignInAssumption == LockTime \in Nat /\ MaxFailures \in Nat
ASSUME SessionAssumption == /\ WebWorkers # {} /\ CacheAge \in Nat \ {0} /\ ElevatedFor \in Nat
                            /\ ElevatedCap \in Nat /\ MaxTime \in Nat /\ MaxRevokes \in Nat
ASSUME ChatAssumption == IsFiniteSet(Tickets) /\ ChatSlots \in Nat /\ DailyLimit \in Nat
ASSUME ConfigAssumption == Cf!NoOne \notin Operators
ASSUME ServerAssumption == Rp!Nobody \notin Processes
ASSUME CacheAssumption == TTL \in Nat /\ Budget \in Nat
ASSUME VerifyAssumption == PollEvery \in Nat /\ StableFor \in Nat
ASSUME StackAssumption == IsFiniteSet(DOMAIN StackSize) /\ StackSize \in [DOMAIN StackSize -> Nat]
ASSUME WeeklyAssumption == /\ Eligible \in Seq(STRING \ {"ending"})
                           /\ Week \in Nat \ {0}
                           /\ {BusyRetry, MaxWait, Clear, Shift, MaxPatches} \subseteq Nat
                           /\ Shift <= Clear
                           /\ Shift + MaxWait + BusyRetry + MaxPatches + Clear + 1 < Week

PartInit ==
  \/ part = "attempts" /\ At!Init /\ v5 = 0 /\ v6 = 0 /\ v7 = 0 /\ v8 = 0 /\ v9 = 0 /\ v10 = 0
     /\ v11 = 0 /\ v12 = 0 /\ v13 = 0 /\ v14 = 0 /\ v15 = 0
  \/ part = "auth" /\ Op!Init /\ v7 = 0 /\ v8 = 0 /\ v9 = 0 /\ v10 = 0 /\ v11 = 0 /\ v12 = 0
     /\ v13 = 0 /\ v14 = 0 /\ v15 = 0
  \/ part = "sessions" /\ De!Init /\ v10 = 0 /\ v11 = 0 /\ v12 = 0 /\ v13 = 0 /\ v14 = 0 /\ v15 = 0
  \/ part = "incidents" /\ In!Init /\ v7 = 0 /\ v8 = 0 /\ v9 = 0 /\ v10 = 0 /\ v11 = 0
     /\ v12 = 0 /\ v13 = 0 /\ v14 = 0 /\ v15 = 0
  \/ part = "chat" /\ Ch!Init /\ v9 = 0 /\ v10 = 0 /\ v11 = 0 /\ v12 = 0 /\ v13 = 0
     /\ v14 = 0 /\ v15 = 0
  \/ part = "config" /\ Cf!Init /\ v11 = 0 /\ v12 = 0 /\ v13 = 0 /\ v14 = 0 /\ v15 = 0
  \/ part = "compose" /\ Cw!Init
  \/ part = "rpc" /\ Rp!Init /\ v6 = 0 /\ v7 = 0 /\ v8 = 0 /\ v9 = 0 /\ v10 = 0 /\ v11 = 0
     /\ v12 = 0 /\ v13 = 0 /\ v14 = 0 /\ v15 = 0
  \/ part = "wizard" /\ Se!Init /\ v15 = 0
  \/ part = "host" /\ Ho!Init /\ v11 = 0 /\ v12 = 0 /\ v13 = 0 /\ v14 = 0 /\ v15 = 0
  \/ part = "monitor" /\ Mo!Init /\ v12 = 0 /\ v13 = 0 /\ v14 = 0 /\ v15 = 0
  \/ part = "targets" /\ Ta!Init /\ v10 = 0 /\ v11 = 0 /\ v12 = 0 /\ v13 = 0 /\ v14 = 0 /\ v15 = 0
  \/ part = "cache" /\ Tc!Init /\ v8 = 0 /\ v9 = 0 /\ v10 = 0 /\ v11 = 0 /\ v12 = 0 /\ v13 = 0
     /\ v14 = 0 /\ v15 = 0
  \/ part = "verify" /\ Ve!Init /\ v11 = 0 /\ v12 = 0 /\ v13 = 0 /\ v14 = 0 /\ v15 = 0
  \/ part = "stacks" /\ St!Init /\ v10 = 0 /\ v11 = 0 /\ v12 = 0 /\ v13 = 0 /\ v14 = 0 /\ v15 = 0
  \/ part = "weekly" /\ We!Init /\ v14 = 0 /\ v15 = 0

PartNext ==
  \/ part = "attempts" /\ At!Next /\ UNCHANGED <<v5, v6, v7, v8, v9, v10, v11, v12, v13, v14, v15>>
  \/ part = "auth" /\ Op!Next /\ UNCHANGED <<v7, v8, v9, v10, v11, v12, v13, v14, v15>>
  \/ part = "sessions" /\ De!Next /\ UNCHANGED <<v10, v11, v12, v13, v14, v15>>
  \/ part = "incidents" /\ In!Next /\ UNCHANGED <<v7, v8, v9, v10, v11, v12, v13, v14, v15>>
  \/ part = "chat" /\ Ch!Next /\ UNCHANGED <<v9, v10, v11, v12, v13, v14, v15>>
  \/ part = "config" /\ Cf!Next /\ UNCHANGED <<v11, v12, v13, v14, v15>>
  \/ part = "compose" /\ Cw!Next
  \/ part = "rpc" /\ Rp!Next /\ UNCHANGED <<v6, v7, v8, v9, v10, v11, v12, v13, v14, v15>>
  \/ part = "wizard" /\ Se!Next /\ UNCHANGED <<v15>>
  \/ part = "host" /\ Ho!Next /\ UNCHANGED <<v11, v12, v13, v14, v15>>
  \/ part = "monitor" /\ Mo!Next /\ UNCHANGED <<v12, v13, v14, v15>>
  \/ part = "targets" /\ Ta!Next /\ UNCHANGED <<v10, v11, v12, v13, v14, v15>>
  \/ part = "cache" /\ Tc!Next /\ UNCHANGED <<v8, v9, v10, v11, v12, v13, v14, v15>>
  \/ part = "verify" /\ Ve!Next /\ UNCHANGED <<v11, v12, v13, v14, v15>>
  \/ part = "stacks" /\ St!Next /\ UNCHANGED <<v10, v11, v12, v13, v14, v15>>
  \/ part = "weekly" /\ We!Next /\ UNCHANGED <<v14, v15>>

-----------------------------------------------------------------------------
(* What may be done, and how often: no target is acted on more often in a  *)
(* day, or sooner after the last time, than the limits say, whatever runs  *)
(* at once, and nobody is proposed what its reservation would then refuse; *)
(* the model is called at most the daily number of times, and a chat that  *)
(* is over, however it ended, has given its slot back; a step acts on what *)
(* its approval names, and on the network's own services only as a person  *)
(* has approved.                                                           *)
AuthorityHolds == /\ part = "attempts" => At!LimitsHold /\ At!ProposalIsStricter
                  /\ part = "chat" => Ch!QuotaHolds /\ Ch!SlotsAreAccounted
                  /\ part = "targets" => Ta!OnlyWhatWasApproved /\ Ta!GuardHolds

(* Dropping old failure rows never changes who is locked out, and a device *)
(* revoked a cache's age ago is refused by every worker.                   *)
SignInsAreCurrent == /\ part = "auth" => Op!PruningIsInvisible
                     /\ part = "sessions" => De!RevocationBites

(* A lock is set only by that many failures of its own, and an elevated    *)
(* session is never older than its window and its cap allow.               *)
PrivilegeIsEarned == [][/\ part = "auth" => Op!LockIsEarned
                        /\ part = "sessions" => De!ElevationIsRecent]_vars

(* An incident's row is what the scans saw, reported late or twice or not; *)
(* what is reported as low is a failure somebody was told of before; and a *)
(* finding kept from later reports has been reported.                      *)
FailuresAreTold == /\ part = "incidents" => In!RowTellsHistory
                   /\ part = "monitor" => Mo!LowIsKnown /\ Mo!NothingSavedUntold

(* What the configuration file says is what the core enforces, or the      *)
(* operator was told it is not; the wizard keeps only the chat and the     *)
(* enrolment that were proven, and the plan it may be told to apply is one *)
(* of the answers as they are and of the host as it was last discovered.   *)
SettingsAreReal == /\ part = "config" => Cf!DiskIsEnforced
                   /\ part = "wizard" => Se!AnswersAreProven /\ Se!ReviewIsCurrent

(* A configuration request replaces the text its operator saw and no other; *)
(* when its activation cannot start it puts that text back, in the place of *)
(* its own draft or, since nothing compares the file then, of what somebody *)
(* has put there on the host meanwhile, and of no other request's change.   *)
(* A compose write replaces what its approval expects, and its rollback     *)
(* takes away what the write brought; what somebody does between the last   *)
(* comparison and the rename, or the unlink, is not seen, and only that is  *)
(* not.                                                                     *)
EditsAreRespected == [][/\ part = "config" => Cf!NothingSlipsIn /\ Cf!RestoreTakesItsOwn
                        /\ part = "compose" => /\ Cw!WriteReplacesWhatItSaw
                                               /\ Cw!RollbackTakesItsOwn]_vars
=============================================================================
