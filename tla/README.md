# Planet Express in TLA+

Planet Express keeps a Docker homelab in order: a pipeline scans the host
("Leela" collects, "Hermes" analyses, "Farnsworth" orchestrates), proposes typed
actions as cards on Telegram and a dashboard, and carries out what an operator
approves. This directory models who may change the host, when and at whose word, what
the tables say afterwards, and the components around that path: limits,
authentication, configuration, setup, boot, and what the operator is shown.

Contents: [the system](#the-system), [modules](#modules-and-the-code),
[runs](#runs), [fairness](#fairness), [proofs](#proofs),
[findings](#what-the-violation-runs-show),
[seen while modelling](#seen-while-modelling-without-a-run),
[simplifications](#simplifications), [not modelled](#what-is-not-modelled-and-why),
[plan](#plan).

## The system

One process, the core, runs the pipeline, the Telegram bot, an RPC server for the
dashboard and one worker thread per execution. Everything durable is in one
SQLite file (`planet_express/core/store.py`), one `BEGIN IMMEDIATE` transaction per
method. Everything else is in memory and dies with the process.

| Component | State | Operations | Meets |
|---|---|---|---|
| Pipeline state (`casa_farnsworth.py`, `PipelineState`) | scan slot, mutation-lock owner, re-scan wish and pending mark | `try_start_run`, `transition`, `try_begin_mutation`, `end_mutation`, `request_rescan`, `rescan_claimed` | every thread that scans or mutates |
| Maintenance window (`core/maintenance.py`) | a marker file of the root backup job | read at admission and when the wish may fire | pipeline state |
| Command service (`application/command_service.py`) | proposal-card lock; locals of each request | `propose`, `propose_plan`, `propose_incident`, `decide`, `request_action`, `rollback`, `_run_execution`, `_run_rollback`, `reconcile_on_startup` | store, pipeline state, engine, front ends |
| Action store (`core/store.py`) | tables approvals, executions, execution_steps, attempts, rollback_candidates, incidents, ... | one transaction per method | everybody |
| Runbook engine (`execution/engine.py`) | the run in hand | `run` and its executors, `settle_crashed_execution`, `startup_reconcile`, `plan_rollback` | store, Docker, host providers |
| Weekly pass (`casa_farnsworth.py`, `casa_zoidberg.py`) | a sleeping thread, the pass's results | `update_scheduler_loop`, `/patchnow`, one update after another | pipeline state, command service |
| Canary update (`execution/engine.py`, `_canary*`) | the rollback window of a step | pull, deploy, watch, automatic inverse, window open/close/hold | the prune of a scan, `prune.safe` |
| Prune gate (`casa_farnsworth.py`, `casa_bender.py`) | none | `maybe_run_safe_prune` | rollback windows, mutation lock |
| Policy, runbooks, actions (`execution/policy.py`, `runbook.py`, `actions.py`, `binding.py`) | none | pure decisions and Docker lookups | command service, engine |
| Incidents (`core/incidents.py`) | incident rows per reconciled scan | reconcile, link, currency | command service |
| Operator auth (`web_auth.py`, `casa_scruffy.py`) | failure counters, one-time codes, device epochs and each worker's cache of them | login, lock, revoke, elevate | dashboard, RPC |
| Chat (`application/chat_service.py`) | tickets, daily LLM count | ask, reserve, answer | LLM client |
| Configuration (`application/config_service.py`) | the configuration file | compare-and-swap, activate, restore | pipeline state |
| Compose files and plans (`execution/compose_files.py`, `application/compose_plans.py`) | staged files | write with compare-and-swap, restore | engine |
| Stack orchestration, boot (`casa_stackctl.py`, `casa_boot.py`, `core/dependencies.py`) | dependency graph | start/stop in order | engine |
| Setup wizard (`planet_express/setup/`) | a journal; answers, reviewed plan and run of the session | plan, approve, apply, resume, undo | the host before there is a core; a browser |
| Monitor (`casa_leela.py`, `casa_hermes.py`) | the snapshot and the findings of the scan before | measure, judge, report | every scan |
| Host control (`execution/host_control_*.py`) | none | start, stop, restart, logs | engine, monitor |
| RPC (`integrations/rpc.py`) | the socket, bounded workers, the links' cache | one handler per method | dashboard |
| Widgets, fleet view, logs (`widgets/fetcher.py`, `application/multi_host.py`, `execution/actions.py`) | caches, jobs, cursors | fetch, refresh, follow | dashboard, containers, a collector |
| Dashboard pages, Telegram | sessions | request handlers | core |

What is hard here:

- **Interleaving.** Scans, approvals from two front ends, direct orders, rollbacks
  and the weekly pass meet on one lock that is taken in one thread and
  released in another; dashboard workers, jobs and refreshes meet in caches.
- **Steps that look atomic and are not.** Releasing the lock and firing the
  re-scan; reading a run's children and taking the lock; recording an effect
  and holding the window; sending a card and recording its id; looking at a file
  and renaming another over it.
- **Crashes and failed transactions** between a command and its record: after a
  restart the tables, or setup's journal, must not say that nothing happened
  when something may have.
- **Other people.** The operator edits compose files, the configuration and services
  by hand while the program works on them.
- **Time.** Approvals, locks, sessions, limits, marks, windows and cached answers
  lapse, on clocks that may be put back.
- **Liveness.** A lock that nobody releases, a wish that nobody fires or a window
  that nobody closes stops every later mutation, scan or prune of the host.

What makes each modelled component correct is stated as the properties under
[Runs](#runs); `PROJECT.json` lists every hazard at its line with the properties that
would catch it.

## Modules and the code

`PROJECT.json` ("map") gives the source lines of every definition. Variables and
actions carry the source's names where the source has one. A definition marked
"Mutant" is a plausible bug, used to see that a property can fail; no specification
refers to it.

**PipelineLock** is `PipelineState` and the threads that call it. Each method body runs
under one `threading.Lock`, so it is one step; what a caller does between two
methods is a place of that thread (`place`), and the call that follows a release,
`_fire_rescan_if_idle`, is two places, "fire" (its locked half) and "start" (the starter it
calls unlocked), after which the thread goes on at `back`. `wanted`, `pending`,
`state` and `owner` are the fields of the class; `stale` is a history variable: a
fix was made and no scan has begun since.

**CommandService** is the life of an approval: `propose`, `propose_incident`, `decide`,
`request_action`, the hand-off to the worker thread, and the store transactions they
make (`approval`, `runs`). One place per transaction and per lock; `Return(h)` is the
`finally` clauses of all of them. The mutation lock is PipelineLock's with the owner
string replaced by the party that must release it, so that the hand-off from
handler to worker is visible. `propose_plan` follows the path of `propose` with a
target of its own. Lazy expiry by any other thread is `ListPending`.

**ApprovalLedger** is the abstract promise of the store: an approval is settled once,
has an execution exactly when it is approved and from that same step, the
execution ends once, one request per target waits. `CommandService!ImplementsLedger` is
the refinement (`INSTANCE ApprovalLedger WITH verdict <- ...`).

**Engine** is `RunbookEngine.run` for one execution, one action per store transaction
and per kind of executor, with the three procedures that put the tables right
after an exception (`settle_crashed_execution`) or a crash (`startup_reconcile`,
`interrupt_unfinished`). `touched` is a history variable that says which steps really
changed the host; `lost` says that a settling procedure itself failed. The code's loops over rows are `local.todo`, the set of
rows still to visit, of which an action takes the first (`IsFirst`).

**StepLedger** is the abstract promise of the step rows: created together, started and
ended in runbook order, each ended once. `Engine!StepsInOrder` is the refinement.

**Canary** is `update.canary` inside a run, its row in `rollback_candidates`, the gate and
the lock of the automatic prune, `prune.safe` of an approved plan, and the operator
who settles a held window. Images are a set, `docker image prune -a` keeps what a
container uses. `cutOff` records that an accident fell between a step's effect and
the write that settles its window.

**Rollback** carries out a run, then undoes it: `rollback`, `_run_rollback`, `plan_rollback`,
`_now_effect`. `todo` is the set of rows the inverse steps still to be done belong to; they are taken newest first. `host` says which services run, `before` what ran before, and
`byHand` what somebody changed at a shell. `crossed` records that a request began
while another was under way.

**SetupApply** is the setup engine: an approved plan of steps (`Kinds`: files, directories,
an environment, units, services, hooks, access, probes), `apply.py`'s loop, the `act` of
each kind as a sequence of host operations (`Program`), its `inverse` as another
(`InverseOf`), and the journal as the only thing a crash leaves (`rec`, `ev`). `queue` is the set of
steps still to look at, taken in plan order by apply and newest first by undo (`At`). A crash, a
failing command or somebody else's edit falls between any two operations. An identity
is a device and inode, which is how the code tells its own file from another.
`touched`, `moved` and `cut` are history variables: what others changed at all, what they
changed after setup last looked, and which step a crash interrupted.
`MCSetup` gives the plans. (The runbooks and the symmetry of the runs of CommandService and Engine are at the end of
their modules, those of Rollback in `MCRollback`.)

The remaining modules have a component each, and are checked together by
**Parts** and **MCParts**, which instantiate them over one set of variables: a behaviour
chooses its component (`part`) and is then one of that component alone, so the run
explores the union of their state spaces and adds no interleavings. `Parts` has the sixteen
components there are theorems about; their constants are its own, and get their
values in `parts.cfg`. `MCParts` extends it with the six that are model-checked only, whose
bounds are given where they are instantiated.

| Module | Models |
|---|---|
| `Attempts` | `limit_refusal` at the proposal and `reserve_runbook_attempts` in the engine, over time: cooldown, the daily cap, runs from before the ledger, several attempts of one target in one runbook. |
| `OperatorAuth` | The failure counters of operator and address, their lock windows, the rows dropped for age. `ghost` is what the counters would be without the dropping. |
| `DeviceSessions` | Device tokens, epochs, the workers' caches of them, the elevation marker that is renewed by use up to a cap; `elevated_operator` checks the marker against the clock first and asks core for the epoch then. |
| `Incidents` | What a scan observes of a subject of each kind, and `reconcile_incidents` over scans that arrive late, twice or never. |
| `Chat` | Tickets, the pool's slots, and the daily limit counted from a day start that was computed earlier. |
| `ConfigService` | Validation, compare-and-swap, activation, the restoring of the old text when activation cannot start (which compares nothing), and the dashboard worker that follows. |
| `ComposeWrite` | `compose.write` and its inverse under a later approval: comparing, staging, renaming, recording, the directory and the copy beside the file; the restore's last look, and the unlink or the second comparison and rename after it. `slipped` is a history variable: somebody changed the file between the last look and what rests on it. |
| `Boot` | The six detectors of `core/dependencies.py` and the order of stacks they imply; `casa_boot.py` bringing the stacks up in that order, repairing containers on vanished namespaces, retrying, verifying. |
| `RpcServer` | The socket file over restarts of core and a second core by mistake; bounded workers and the one kept for decisions. |
| `RouterLinks` | `containers.routers`: the answer cached under the list of containers, the races, the back-off. |
| `WidgetFetcher` | A page's cache, the jobs that fill it, who joins them, and a container recreated in between. |
| `Fleet` | The fleet refresh, the session token's renewal with the logins that are refused, which of the systems is this machine by the names each has in common with it, the round of numbers each card shows. `misled` is a history variable: another system's list has most of this machine's names, and its own was unread or much out of date. |
| `SetupSession` | The wizard's pages: answers that are merged or found invalid, the plan reviewed with the host as last discovered, credentials proven by their own check, concurrent requests, and the check of the plan against the host when a run begins. |
| `StackOps` | `casa_stackctl`'s up and down over all stacks, and the two orchestrators' operations. |
| `HostControl` | A service action under systemd and under MOS: allowlist, state before, command, state after. |
| `VpnPort` | The monitor's reading of port, log and port while gluetun renews the port. |
| `Monitor` | A stack's severity against the snapshot before; a quiet re-scan's report against the findings before; crashes in between. |
| `Backups` | What systemd and the journal know of a backup over reboots, and what the monitor makes of it. |
| `Verify` | `watch_until_stable` over several containers, after a start, a restart or a canary update. |
| `LogPages` | The cursor by which the dashboard follows a log, and the bounds of an answer. |
| `WeeklyPass` | `update_scheduler_loop` sleeping on two clocks, waiting for a busy host, the updates of the pass by the ends each can have, `/patchnow`. |
| `Targets` | The guard of the network's own services, the binding of a proposal, its check before the command, with the file edited and the container recreated between any two reads. |
| `TargetCache` | `_compose_services_cache`: threads that read outside the lock and insert what they saw. |

How they fit: PipelineLock is the mutual exclusion the others assume in their `LockFree`,
`TakeLock`, `StartUpdate` or `lock` guards; CommandService produces the executions
Engine carries out (one at a time, by `RunHoldsLock`), after `Attempts` and `Targets` have let
them pass; Canary is one step of Engine opened up, and Verify the watch inside it;
WeeklyPass calls CommandService for one update after another; Rollback and
ComposeWrite start from the rows Engine leaves behind; SetupSession hands its plan to
SetupApply; Monitor's and Incidents' scans are PipelineLock's.

## Runs

Run a configuration with `tlc -config <run>.cfg <module>.tla`; `PROJECT.json` names the
module of each.

| Run | Asks | Bounds |
|---|---|---|
| `lock` | `HostIsQuiet`: no scan overlaps a mutation but its own prune. `OneWorker`: one re-scan worker at most. `WishIsKept`, `FixIsRescanned`: no fix is forgotten, each is looked at again. `PendingEnds`: a dead worker's mark goes away. | 1 scanner, 3 worker identities, 2 mutators, 2 mutations, one window, one failed thread, one restart |
| `command_safety` | `RunHoldsLock`, `LockHasAKeeper`, `ImplementsLedger` | 2 handlers, 2 approvals, one target, 2 plans, the clock passes the deadline once |
| `command_incident` | `OneCard`, `IncidentStillCurrent`, `LockComesFree`, `RunEnds` | 2 handlers, one approval, 2 plans, 2 scans, a restart |
| `engine` | `EffectIsHonest`, `MutationsAreCharged`, `NothingLeftOpen`, `NothingNewAfterAbort`, `StepsInOrder`, `RunEnds` | 6 runbooks of up to 3 steps with every step kind, 2 stacks, 2 crashes, 2 failing transactions, an abort at any point |
| `canary` | `InverseIsPossible`, `KeptUnlessCutOff`, `EffectIsWatched`, `PruneComesBack` | 3 crashes or failing transactions, any number of scans, one plan with a prune |
| `rollback` | `RolledBackRestores`, `RollbackHoldsLock`, `UndoneOnceApart` | 2 requests at a time, 2 rollbacks, 2 services, 3 runbooks, 2 crashes, one failing transaction, one manual change |
| `setup` | `UndoRestores`: what undo calls undone is as it was. `DoneMeansApplied`: an apply that is done left every promise true. `NoLitter`: no staged file is left. `EditsSurvive`: no edit is overwritten but one made after the last look. | 10 plans of 1 to 3 steps with every kind, 4 calls of apply and undo, 2 crashes, one failure, one edit |
| `parts` | One property per question, each a conjunction over the components it is asked of: see below | in `parts.cfg` and `MCParts`, per component |

`parts` asks, with the parts of each property named as in the modules:

| Property | Of which components |
|---|---|
| `AuthorityHolds` | `Attempts!LimitsHold`, `ProposalIsStricter`: cooldown and cap hold whatever runs at once, and nobody is proposed what its own reservation would refuse. `Chat!QuotaHolds`, `SlotsAreAccounted`. `Targets!OnlyWhatWasApproved`, `GuardHolds`. |
| `SignInsAreCurrent` | `OperatorAuth!PruningIsInvisible`; `DeviceSessions!RevocationBites`: a revoked device is refused by every worker after a cache's age. |
| `PrivilegeIsEarned` | `OperatorAuth!LockIsEarned`; `DeviceSessions!ElevationIsRecent`. |
| `FailuresAreTold` | `Incidents!RowTellsHistory`; `Monitor!LowIsKnown`, `NothingSavedUntold`: what is toned down or left out was told before, crashes included. |
| `SettingsAreReal` | `ConfigService!DiskIsEnforced`; `SetupSession!AnswersAreProven`, `ReviewIsCurrent`: the reviewed plan is one of the answers as they are and of the host as it was last discovered. That the host has changed since is found out by `Replan`, when a run begins. |
| `EditsAreRespected` | `ConfigService!NothingSlipsIn`: the draft replaces the text its operator saw. `ComposeWrite!WriteReplacesWhatItSaw`, `RollbackTakesItsOwn`: unless an edit `slipped` in after the last look, a write replaces what its approval expects, and a rollback removes or replaces what the write brought. `ConfigService!RestoreTakesItsOwn`: a configuration that is put back takes the place of the request's own draft, or of an edit made on the host since, which nothing compares. The edits that do slip in are [listed below](#seen-while-modelling-without-a-run). |
| `ServicesAnswer` | `Boot!StartedMeansConnected`, `OrderIsTheLeastSound` (against a reference definition of the order); `RpcServer!ServerIsReachable`, `DecisionsHaveAWorker`. |
| `OutcomesAreHonest` | `StackOps!IngressBracketsTheRest`, `DownMeansDown`; `HostControl!OutcomeIsHonest`; `Verify!PassedIsEarned`; `WeeklyPass!EveryWeekOnce`, `ReportIsHonest`. |
| `ViewsAreCurrent` | `RouterLinks!LinksAreCurrent`; `WidgetFetcher!NoPredecessorShown`; `Fleet!TokensAreFew`, `NoCardForThisMachine`; `LogPages!EveryLineOnce`; `TargetCache!AnswersAreFresh`; `WeeklyPass!ChangesAreSeen`. |
| `ViewsMoveOn` | `WidgetFetcher!CacheMovesOn`; `Fleet!CardsMoveOn`; `VpnPort!HighMeansOverdue`. |

The `TypeOK` of PipelineLock is checked and proved; those of CommandService, Engine, Canary and Rollback are proved; in the other modules it documents
what the variables hold. The violation runs are listed under
[findings](#what-the-violation-runs-show).

Why the bounds are enough to meet the interesting cases: two mutators and a scanner
are every pair that can contend for the lock, and two mutations are needed for one to
ask for a re-scan while another's worker is on its way; three worker identities are
one more than are ever alive. Two handlers are needed for every race on an
approval, and two approvals for a superseded one and its successor. Two scans are
needed for the first to become stale. Two crashes put the second inside the repair
of the first; `canary` allows three accidents, one more than lose a window. A rollback
retried after a crash that cut short the run needs two crashes and two children. Setup's four calls
are apply, resume, undo and a resumed undo. In `MCParts` every component has two of what
can race (requests, runs, threads, operators), a clock that passes each of its deadlines
at least once, one or two failures, and the shortest numbers for limits at which one below, one at
and one above all occur. The fleet's view is replaced
twice while the collector goes on to a second round of numbers, so that a card can move, and the hub's token is rotated twice. Symmetry (handlers, approvals, plans) is used only in
`command_safety`, which checks no liveness property.

Deadlock is checked where the system may not stop: `lock`, `command_safety`,
`command_incident`, `engine`, `canary`, `rollback`. `Engine` and `Rollback` end in a state
where nothing more has to happen and say so with an explicit stuttering action, `Rest`. `setup`
and `parts` really may stop: a plan is done, a host is booted, and a bound's clock stands still.

## Fairness

- PipelineLock: a thread inside a method or a worker runs on (`RunsOn`); the pending
  mark ages with the clock; a maintenance marker is removed or turns six hours old.
  Nobody is assumed to start another scan, mutation or prune, so `FixIsRescanned` does
  not lean on the schedule.
- CommandService: a handler that has entered the service proceeds, since every wait
  in it has a timeout (`GiveUp`); a worker ends its run, since every command of an
  executor has a timeout.
- Engine, Canary: the worker runs on, core is started again after a crash (systemd's
  `Restart=`), and time passes. The environment's actions (crash, fault, abort, prune,
  operator) are never fair.
- Rollback: the worker and a request that has begun go on.

All of it is weak fairness: no action here waits for a condition that keeps
coming and going.

SetupApply and the components of MCParts have safety and action properties only, so
nothing about their scheduling is assumed.

## Proofs

Eight modules hold theorems, each for every value of the constants its component has. They are read
together with the component: the definitions at the top of a proof module are the inductive
invariant, the lemmas after them show it step by step, one per action, and the theorems stand at the end.

| Module | Proves, as `Spec => ...` | Inductive invariant |
|---|---|---|
| `PipelineLockProofs` | `TypeOK`, `HostIsQuiet`, `OneWorker`, `WishIsKept` | `LockInv`, `WishInv` |
| `CommandServiceProofs` | `TypeOK`, `RunHoldsLock`, `LockHasAKeeper`, `OneCard`, the action property `IncidentStillCurrent`, the refinement `ImplementsLedger` | `CommandInv` |
| `EngineProofs` | `TypeOK`, `EffectIsHonest`, `MutationsAreCharged`, `NothingLeftOpen`, `NothingNewAfterAbort`, the refinement `StepsInOrder` | `EngineInv` |
| `CanaryProofs` | `TypeOK`, `InverseIsPossible`, `KeptUnlessCutOff`, `EffectIsWatched`, and that the prune's gate still holds when it prunes | `CanaryInv` |
| `RollbackProofs` | `TypeOK`, `RollbackHoldsLock`, `RolledBackRestores`, the action property `UndoneOnceApart` | `RollbackInv` |
| `SetupApplyProofs` | `TypeOK`, `UndoRestores`, `DoneMeansApplied`, `NoLitter`, the action property `EditsSurvive` | `SetupInv` |
| `PartsProofs` | The properties of the components of `Parts`, each of the behaviours of that component, and the invariants `PartsTheorems` combines; of ComposeWrite both `WriteReplacesWhatItSaw` and `RollbackTakesItsOwn` | `AtInv`, `OpInv`, `DeInv`, `InInv`, `ChInv`, `CfInv`, `CwInv`, `RpInv`, `SeInv`, `HoInv`, `MoInv`, `TaInv`, `CacheInv`, `VeInv`, `StInv`, `WeInv` |
| `PartsTheorems` | Of the behaviours of `MCParts`: `AuthorityHolds`, `SignInsAreCurrent`, `FailuresAreTold`, `SettingsAreReal`, `OutcomesAreHonest`, the action properties `PrivilegeIsEarned`, `EditsAreRespected`, and in `ServingStaysTrue` what there is of `ServicesAnswer` and `ViewsAreCurrent` | their conjunctions |

Every property of the runs `lock`, `command_safety`, `command_incident`, `engine`, `canary`, `rollback` and `setup` that is
not a liveness property is proved, and so are seven of the ten of `parts`. Of the other three, the conjuncts about
RpcServer, TargetCache and WeeklyPass are.

### What is assumed

Only the constants' assumptions, which TLC evaluates on every run of the module that declares them:
the kinds of thread are disjoint and no owner string is a thread's (PipelineLock, CommandService, Rollback);
a runbook is a non-empty sequence of the steps there are (Engine, Rollback), and so is a plan (SetupApply); the handlers of Rollback
are finitely many, since its bound counts them; bounds, deadlines and numbers of stacks are naturals.
`Parts` has those of its components: durations and limits are naturals; the steps of a plan act on targets there are
(Attempts); there is a worker, and its epoch cache is trusted for some time (DeviceSessions); chats are finitely many
(Chat); nobody is called what the models call nobody (ConfigService, RpcServer); there are finitely many stacks (StackOps). Of
WeeklyPass: the clock is put forward or back by no more than the sleep that clears a window, which is an hour in the code, as is the change
between summer and winter time; and a window, the wait for a busy host, that sleep and the passes that kept the host together take less than a
week. A clock that is put back further makes the loop run a week twice, and the code does nothing about it.

### Why the invariants look as they do

**LockInv.** `HostIsQuiet` is not inductive: it talks about where threads are, while the code
decides on `state` and `owner`. `LockInv` ties the two together: a thread inside a scan
implies `state = "running"` and there is one (`ScanHoldsSlot`, `OneScan`); a thread
inside a mutation is the owner (`MutationHoldsLock`); while the slot is taken, the owner
is nobody or the prune (`RunningIsQuiet`). For the workers, a worker on its way means a
fresh mark (`OnItsWayIsPending`), a fresh mark means no recorded wish
(`PendingIsNotWanted`), hence a second one cannot be fired. `WishIsKept` needs two more facts, in `WishInv`: a
worker that holds the slot looks at
a host nobody has fixed since (`AdmittedIsFresh`, which is where mutual exclusion is used:
a fix needs the lock), and a fresh mark is carried by somebody (`PendingIsCarried`). Both
hold as long as no re-scan thread failed and core was not restarted (`Undisturbed`), losses the code accepts.

**CommandInv.** A handler's locals are copies of rows that others change meanwhile. `JobsAreReal` says
what a copy is still good for at each place, `LocksAreHeld` which places hold which of the two locks
(the card lock exactly in `UnderCardLock`, whence `OneCard`), `RunsAreCarried` that a running execution has its worker or the
handler that is about to start one, `TablesAgree` that approvals and executions match and one request per
target waits. `IncidentStillCurrent` needs `LinkIsCurrent`: what `decide` read of the incident before it took the
lock is read again under it, and no scan is admitted from there to the transaction. `LedgerRefinement`
maps each step to a step of ApprovalLedger: `RowsChange` and `RunsChange` say all that a step may do to
the tables, and a child of the ledger's `Next` is found for each.

**EngineInv.** The rows alone do not say whether they are honest; it depends on where `run()` has got to. `RowsFit` fixes
the rows before, at and after the step in hand at each place; `OutcomeFits` and `TouchFits` say that an outcome
in hand is as honest as the row it will become (`Honest`), which fails for the unit step, whose command comes before
`dispatch()`: the properties except it (`Announced`), and the run `engine_unit` shows why. `AttemptsFit` says who may still hold a
reservation, `EndFits` what each way out has already settled, `AbortFits` how far a run that is being
aborted may have got. `StepsRefinement` maps each transaction on the rows to one step of StepLedger.

**CanaryInv.** Two facts carry it. A gate that was passed stays passed until the prune is over (`GateStillHolds`), because windows are
opened by an update, which needs the lock, and a scan and an update exclude each other (`LockIsOf`): hence `OldIsThere`. And from the
moment an unknown effect is recorded, its window is held or the write that holds it comes before
anything can prune (`UnknownIsHeld`), but for the accidents that `cutOff` names.

**RollbackInv.** `RowsTell`: the rows of a run say what it did, in particular the first row that touched a service found it as it
was before the run (`FirstFound`), and only the last row can be doubtful. `PlanRestores`: during the rollback, every service whose rows are
all undone is as before, and of the others the oldest remaining row puts it back; so the order, newest first, is
what the proof rests on. `Apart` is about requests that do not cross: what `rollback` read of the children
before it took the lock is still true (`StillAllowed`).

**SetupInv.** The promises of setup are about moments when no run is on; what carries them is a description of the host at every
moment between two operations. `TodoFits` says which operation may follow which (`ActNext`, `UndoNext`), so that the operation at the head of
`todo` tells how far the step in hand has got; `InHand` is that reading. `HostFits` then says, per kind of step and as long as nobody else touched
its object, what the host shows and which evidence goes with it: a file that is not as planning saw it carries the number of a staged file whose
intent and staging are in the journal (`FileFits`), which is what undo recognises its own file by, and what a crash between the rename and
"committed" does not lose; a directory, an environment or a service has its record, or the operation that records it comes next, or was
cut short (`CutShort`), which is why `UndoRestores` excepts those and no others. `UndoFits` says that an undo in hand is about to write what was there before,
and has done so when it records "undone". `TempsFit`: a staged file is one the journal names, and outside the step in hand only of a step whose record
still says "started", so a run that ends with every record ok has none. `PromiseFits`: the promise of a step holds from its verdict on until its undo takes it
in hand. `LookFits`: what is about to be written over has been looked at since anybody moved it. A step of the plan that is not in hand is untouched by
a run (`OthersFit`), so each operation is shown for the step in hand only; `RunEnds`, `PassOn`, `HandGoes` and `AllRest` are the four ways on.

The sixteen invariants of `PartsProofs`:

**AtInv.** The limits are about any two moments in the past, the code counts backwards from now. `CapOf` and `CooldownOf` therefore
state them per row of the ledger, over the rows before it; a reservation adds rows at the end, all of one moment, and the lemma
`Window` counts them. A row that is released drops out of every count, so it can only help.

**OpInv.** `Twins` relates a counter's row with what it would be without the dropping of old rows: they end the same lock, or one that is over, and let the same
recent failures count; what was dropped counts no more (`DroppedAreOld`). No failure that counts was made under the lock (`OpenWhenCounted`), so that the
failures that set a lock were made while the key was open.

**DeInv.** Every reading of an epoch, in a cache or in a request's hands, was taken before that epoch was revoked, at the
moment it is dated; a slow answer written late keeps the date of its question, which is what makes the
order of answers irrelevant. Every copy of an elevation marker is as old as some passphrase and some deed (`DeEarned`), so that one
the clock does not refuse is recent; what core says of the epoch after that is about revocation.

**InInv.** The row's status, its count and its first sighting are functions of the history the scans made (`StatusTells`, `CountTells`, `FirstTells`), which each report taken extends by one.

**MoInv.** Whatever fails in the published snapshot was urgent once and has failed since (`StillUrgent`), and what a scan in hand has found to be old news
is among it (`MeasuredFits`). What is on file was told, or from saving to reporting is what the report will tell or was on file before (`FiledIsTold`).

**ChInv.** A day's calls are within the limit and none is of a day to come (`QuotaKept`, `CallsArePast`), since a call is counted in the transaction that records it. Free slots and
the tickets that hold one add up to the pool (`SlotsAreHeld`), and the executor's queue has each ticket that waits once (`QueueIsWaiting`).

**CfInv.** Only the owner of the lock is past "drafted" (`OwnerIsUnderWay`). Until it has written, the file is what core enforces, or what somebody else put there, or
the operator was told (`FileIsAccounted`), and so is the text it would put back (`LiveIsAccounted`). What was decided of its draft stays true until it is written (`StaysAllowed`); from then on
the file holds the draft or an edit made on the host, and what would be put back is what the operator saw (`WrittenIsThere`).

**CwInv.** Two parts. `CwRecord`: what the rollback's binding names as its own is what the write put there (`BindingIsTrue`), and its record is of what there was (`RecordIsTrue`); both are
built up in three stages of the write (`BeforeStaging`, `BeforeRecording`, `AfterStaging`), any of which may be the last. `SeenIsStill`: at every place after a last
look, unless somebody slipped in since, the file is still what was seen then, which is what the rename and the unlink take for granted.

**RpInv.** A server's socket is at the path from its binding until it closes (`SocketIsThere`); this needs that one process at a time is between probing and listening (`OneStarts`).
What the kept worker carries out is a decision (`KeptDecides`).

**SeInv.** A code that was right stays proven for the secret it is about to make the answer, whatever was enrolled since (`ProofIsProven`). The reviewed plan is one of the
discovery there is because nothing is reviewed before there is one (`HostIsFound`), and whatever replaces the discovery or the answers drops it (`ReviewIsCurrent` is then inductive).

**HoInv.** As long as nobody else was at the service, it moved if and only if it is another than the first reading said (`ActionFits`), and the result in hand agrees (`OverIsHonest`).

**TaInv.** An execution remembers every moment at which all is as approved (`IsRemembered`): once it has read the approved version, either that was such a moment, or the approved
container, which never comes back, was gone already. What goes on with a guarded service is an update a person asked for (`PersonAsked`).

**CacheInv.** An entry was read at most a budget before it is dated (`EntryIsDated`), since the deadline is
checked after the answer; what a thread has read was true at some moment since it began (`SeenSince`).

**VeInv.** A container that crashed since its count was taken shows it: its count is higher, or it is down for good (`CrashShows`), so a round that
finds every count as it was and every container up has seen no crash. The window begins at a round in which every container was ready
(`WindowFits`); as long as no reading took time, a round is one moment (`Quick`), and `settled` is no later than that moment (`SettledFits`).

**StInv.** A command on all stacks has touched what it has covered but for what is left, in its order: up begins with the ingress, down leaves it
for the end (`OrderIsKept`). What its results call stopped stays down, since a command has the stacks to itself, and what it says in the
end is of those results (`StoppedIsDown`).

**WeInv.** That a window is aimed at once is a matter of how far the wall clock may be from it when the next one is computed. `Fits` says that at each place of the loop:
never before the window once it has been cleared, and never later than the shift of the clock, the wait and the passes of others allow. Then there is only one
window in the week ahead, the next (`OneWindow`, `AimIsTaken`). That the report is true needs no more than that each end an update can have
is classified as what it is (`EndsAreHonest`).

### What proving changed in the models

`Engine!Record` and `AllowedFrom` were CASEs with overlapping guards, of which TLA+ may choose any: they are now
disjoint. Loops over rows (Engine, Rollback) were a sequence of work still to do and are a set of row numbers taken in
order (`IsFirst`, `IsNext`), as the code's loops over the rows in the table are; the state spaces are the same. The same was done
to the loops over a plan in SetupApply (`At`). `StackOps!IngressBracketsTheRest` asked that up begin with the ingress whenever it is among the stacks, also where the
ingress is one of those that must not be started: it is now about an ingress that is to be started. There, `UndoRestores` was too strong: a unit that systemd had not read before setup, and that
setup never came to write, is as unread after undo as before. TLC had not met it because no plan began with such a unit; two plans that do
were added to the run, and the property now asks that a unit be read again only if setup meant to write it (`UnitIsRead`).

Two definitions were put another way because the prover does not read a tuple as a pattern of a bound variable: HostControl's readings and
`Boot!DependsOn`; and a restart count that has not been read is -1 in Verify, so that it is a number throughout.

### What is only model-checked

Liveness (`FixIsRescanned`, `PendingEnds`, `LockComesFree`, `RunEnds` of two modules, `PruneComesBack`): fairness and ENABLED are out
of the prover's reach. Six components of `parts` are: Boot with the order of its stacks, VpnPort, RouterLinks,
WidgetFetcher, Fleet and LogPages; hence `ServicesAnswer` and `ViewsAreCurrent` in part, and `ViewsMoveOn`. Nothing is
in the way of proving them but work (see the [plan](#plan)), except
where the data are recursive: the order of stacks `Boot` computes is a fold, and what a fold computes for every
input needs an induction the library's theorems state with an operator parameter, which the installed
provers cannot instantiate. No module uses a RECURSIVE operator.

## What the violation runs show

- `engine_unit`: `unit.action` calls its provider before `dispatch()`, while startup
  reconciliation relies on pending steps never having run. After a crash in between, the
  step is recorded as skipped, and its attempt released, although the unit was
  acted on. `EffectIsHonest` and `MutationsAreCharged` therefore speak of the other kinds.
- `canary_plan`: `prune.safe` of an approved plan reads no rollback window and may
  remove the old image a held window protects. `KeptUnlessCutOff` says that this and a
  second crash between recording the effect and holding the window are the only ways to lose it.
- `setup_retry`: `apply` promises "run again with the same plan: finished steps are skipped, ... a
  failed step is retried", but compares the plan's id with one rebuilt from a fresh look at the host,
  which the plan's own finished steps have changed. As soon as one of them wrote a file that
  planning looks at, the plan can neither be resumed nor retried. `setup` covers the plans
  and histories in which it can.
- `monitor_backups`: `_last_journal_completion` exists so that a reboot, which makes systemd forget a
  unit's last result, does not "misreport a broken backup as healthy". It expects JSON lines,
  and `get_host_logs` asks for plain ones, so it never finds anything and the result stays
  systemd's default, "success". The time of the run is then missing, which the report treats as
  a problem of every job alike; the test of `check_backups` replaces the function by a stub.

## Seen while modelling, without a run

The code's behaviour in these places is in the models; where a property would be violated by it,
the property excepts it and its comment says so.

- Pipeline: a wish that meets a maintenance window is kept, but nothing fires it when the window
  closes (`request_rescan`'s docstring: "fires when the pipeline is idle"). A re-scan thread that
  will not start takes the wish with it.
- Approvals: `store.py`'s header says a decision counts if it ARRIVED in time; another thread's
  lazy expiry, as of its own clock, can expire it first. The engine's settlement may record an unknown
  effect and die before it holds the window. `rollback` reads a run's children before it takes
  the lock, so requests that cross may undo a run twice. Between a target's check and its
  command the container may be recreated: the command names the service.
- Weekly pass: a pass whose only changes are failed or interrupted rollbacks asks for no re-scan
  (people are told, though); a stack whose services cannot be listed is left out of the digest in
  silence; an exception after an update turns its report into an error.
- Monitor: `_finding_key` includes the severity, so that the first quiet re-scan reports an
  unchanged failure once more, as LOW, although `run_pipeline` says it reports only what changed. The narrow scans
  overwrite the snapshot a full scan compares with.
- Setup: an existing unit that is "kept, not overwritten" counts as different afterwards; a directory,
  environment or service whose change was cut off before its record is not undone. In the session, a
  credential's check clears a newer pending one.
- Configuration: the comparison and the rename of `write_config_text` are a read and a rename apart, which its docstring accepts; in the
  model they are one step. The compare-and-swap guards the draft's write but not the write that takes it
  back: when the activation's thread cannot be started (config_service.py:318-324), the older text goes over
  whatever is at the path, an edit made on the host since included, and the reply is "the previous config was
  restored. Nothing changed."
- Compose files: "never overwritten" (compose_files.py:5-6) and "immediately before the write" hold up to the
  gap between the comparison (90-98) and the rename (149): the directory, the copy, an fsync, two ACL
  commands and a write to the store lie in it, and an edit that lands there is overwritten (the copy
  beside the file may have it, or not). `restore` admits its own gap in a comment, between the stat and the unlink. In the model
  `slipped` remembers that somebody was in one of these gaps.
- Fleet: a refused token buys one re-authentication per call: "a hub that rejects everything must cost one
  extra request, not a request per host forever" (beszel.py:480-482, and 587-588). The budget is only asked
  after a 401 of a read. When the token is refused in the middle of a call and the login that follows is
  refused or lost too, the provider holds no token, and each further host of the call sends the password
  again. `TokensAreFew` says what does hold: two logins that succeed at most, and two posts of a call that
  reads one host's containers.
- Boot and stacks: the repair of dead namespaces also acts for services that are orphans, and the retry comes
  after it. `stack_down` of all under MOS does nothing and succeeds if the listing fails;
  `delete_stack` ignores a failed stop. The dependency graph takes the last of two services that
  declare a container name for one reference and the first for another.
- Caches: two lines of one log with one time and text are shown once; `FleetCache.view` and the session's
  `_begin` mark themselves busy before their thread has started; a second widget page may get
  "none" while the first one's job runs out of its budget. An answer the widget's route finds in its cache is
  served for up to `CACHE_SECONDS` without asking core which container there is now, so it may be a predecessor's;
  `WidgetFetcher` says "a recreated container never shows its predecessor's", which holds from core's answer on, and
  `NoPredecessorShown` is so qualified.

## Simplifications

- Docker, systemd and the LLM are choices among the outcomes the code distinguishes.
- The refusal path of `decide` re-reads the approval, which expires it lazily: that is a
  `ListPending` step. `run_automatic` is in WeeklyPass, by the ends one update can have.
- A worker thread that will not start *and* a transaction that fails to record it are
  two faults in one handler; CommandService has the first only.
- In Engine, `set_step_pre_state` is not a step of its own: only a later rollback reads
  what it writes. When recording a failed run raises too, the thread is "gone" and
  its execution stays open until a restart, as in the code. A reservation succeeds or blames a
  step; the arithmetic is in Attempts.
- In Engine a stack, restart or prune command that exits 0 is taken to have touched the host, as the engine itself takes it.
- Rollback models service steps; `compose.restore` is ComposeWrite's. There, unlinking a created file and removing
  its empty directory are one step, and nobody moves the directory aside while a temporary file is in it.
- RpcServer: core processes are started one after another, by the service manager, so that two are never between the
  probe of the socket and its listening; and an inode is not used again for another socket at that path.
- HostControl: of an init script's text and exit code one is wrong or meaningless at a time, or both are meaningless.
- Incidents: a report that is delivered twice adds nothing in the transaction that takes it, by the same guard as one that is late.
- Fleet: each host's two reads are one, and there is one other system, configured.
- Canary has one service and one update; the tag of an image is left out because
  `prune -a` does not look at it.
- In SetupApply each step has an object of its own on the host, contents are five classes, and
  commands such as pip either do what they promise or fail, before or after having done it.
- Texts (configurations, compose files) are what the checks tell apart. Hashing, signing and
  one-time codes are sound.
- A crash of core in the middle of a weekly pass loses that week and is not an action of WeeklyPass.
- Clocks are small integers; where the code compares two readings, the model does. VpnPort's
  check takes less than a unit of time.
- Handler-local strings, wording, events and log lines are left out throughout.

## What is not modelled and why

`PROJECT.json` lists every component with its status.

- Adapters and presentation: Telegram calls, dashboard pages and their data
  (`dashboard_data.py`), templates, redaction, the operator's scripts. They keep no state that several
  actors share, or only pass on what the core decided.
- The planner and Amy: one LLM call each, whose answer is any answer; what becomes of a proposal is
  CommandService's.
- Of partly modelled components: Leela's other probes (single readings without memory), the shape
  checks of a runbook, the parsing of Beszel's records, metrics and reboot of host control, the
  further gates of the prune, the store's event log and listings, HTTP parsing in the setup server.
- The icon cache: a wrong picture harms nobody.
- The legacy state file, which is read once.

## Plan

Modelled and checked: everything in the tables above; proved: the path from a proposal over its run to its rollback, the setup engine, and sixteen
of the smaller components. Left, in order of what matters most:

1. The other components of `parts`: `Boot!StartedMeansConnected`, `VpnPort!HighMeansOverdue`, then the caches of the dashboard.
2. What setup does to an environment that is already there: its packages are installed into whatever it contains, so `EditsSurvive`
   excepts environments, and `VenvFits` says of them only what undo needs.
3. Liveness and the order of stacks stay with TLC.
