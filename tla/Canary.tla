------------------------------- MODULE Canary -------------------------------
(***************************************************************************)
(* A canary update (engine.py, update.canary), the rollback window it      *)
(* keeps in rollback_candidates, and the prunes that must leave the old    *)
(* image alone while that window is open: the automatic one of a scan      *)
(* (maybe_run_safe_prune) and the prune.safe step of an approved plan.     *)
(*                                                                         *)
(* One service, the image it ran before ("old") and the one the pull finds *)
(* ("new").  The reference's tag is left out: `image prune -a` removes     *)
(* what no container uses, tagged or not.  The mutation lock is the one of *)
(* PipelineLock: a scan excludes every mutation but its own safe-prune.    *)
(***************************************************************************)
EXTENDS Naturals

CONSTANTS
  MaxAccidents,    \* bound: crashes of core and store transactions that raise
  WindowMayRaise,  \* may the write that closes or holds the window be one of them?
  MaxPlans         \* bound: approved plans with a prune.safe step

ASSUME BoundsAssumption == {MaxAccidents, MaxPlans} \subseteq Nat /\ WindowMayRaise \in BOOLEAN

VARIABLES
  images,     \* images on the host
  container,  \* the image the service's container runs, or "gone"
  window,     \* rollback_candidates row of the step
  step,       \* execution_steps row: status, effect, and pre_state.phase
  active,     \* the execution is running or verifying
  at,         \* where the update's worker, or core's startup, is
  outcome,    \* _canary: [effect] decided so far
  owner,      \* the mutation lock
  prune,      \* maybe_run_safe_prune of the scan that is running
  scanning,
  plans,      \* history: plans run
  moved,      \* history: the container was recreated or lost
  stable,     \* history: the last image a watch found stable
  settled,    \* history: the operator settled the window
  accidents,  \* history: crashes and raises so far
  cutOff      \* history: an accident kept a decided effect from reaching the window

host == <<images, container, moved>>
locks == <<owner, prune, scanning>>
counters == <<plans, accidents, cutOff>>
vars == <<images, container, window, step, active, at, outcome, owner, prune, scanning,
          plans, moved, stable, settled, accidents, cutOff>>

NoOne == "nobody"

Init ==
  /\ images = {"old"}
  /\ container = "old"
  /\ window = [state |-> "none", held |-> FALSE, lapsed |-> FALSE]
  /\ step = [status |-> "pending", effect |-> "none", phase |-> "none"]
  /\ active = FALSE
  /\ at = "rest"
  /\ outcome = "none"
  /\ owner = NoOne
  /\ prune = "no"
  /\ scanning = FALSE
  /\ plans = 0
  /\ moved = FALSE
  /\ stable = "none"
  /\ settled = FALSE
  /\ accidents = 0
  /\ cutOff = FALSE

----------------------------------------------------------------------------
(* The store.                                                              *)

(* any_open_rollback_candidate: closed_at IS NULL AND expires_at > now.    *)
Blocked == window.state = "open" /\ (window.held \/ ~window.lapsed)

Opened == [state |-> "open", held |-> FALSE, lapsed |-> FALSE]

(* Mutant: the hold lasts for the grace period only.                       *)
HeldBriefly == IF window.state = "none" THEN window ELSE [window EXCEPT !.state = "open"]

(* hold_rollback_candidate reopens; both need the row to exist.            *)
Held == IF window.state = "none" THEN window
        ELSE [window EXCEPT !.state = "open", !.held = TRUE]

(* Mutant: every window waits for a human.                                 *)
HeldAnyway == Held

(* close_rollback_candidate.                                               *)
Closed == IF window.state = "open" THEN [window EXCEPT !.state = "closed"] ELSE window

----------------------------------------------------------------------------
(* _canary.                                                                *)

(* The update takes the mutation lock, which no scan may be holding off;   *)
(* its step is refused before anything happens, or goes on.                *)
StartUpdate ==
  /\ at = "rest" /\ owner = NoOne /\ ~scanning
  /\ owner' = "update"
  /\ active' = TRUE
  /\ at' = "open"
  /\ UNCHANGED <<host, window, step, outcome, prune, scanning, stable, settled, counters>>

RefuseUpdate ==
  /\ at = "open"
  /\ outcome' = "not_applied"
  /\ at' = "record"
  /\ UNCHANGED <<host, window, step, active, locks, stable, settled, counters>>

OpenWindow ==
  /\ at = "open"
  /\ window' = Opened
  /\ at' = "dispatch"
  /\ UNCHANGED <<host, step, active, outcome, locks, stable, settled, counters>>

Dispatch ==
  /\ at = "dispatch"
  /\ step' = [step EXCEPT !.status = "dispatched", !.phase = "pull_dispatched"]
  /\ at' = "pull"
  /\ UNCHANGED <<host, window, active, outcome, locks, stable, settled, counters>>

(* An outcome reached while nothing is in flight: the window may close.    *)
Decide(effect) == outcome' = effect /\ at' = "settle window"

(* The pull fails, finds nothing newer, or finds a new image; then drift   *)
(* since the approval still refuses to deploy it.                          *)
Pull ==
  /\ at = "pull"
  /\ \/ Decide("not_applied") /\ UNCHANGED images
     \/ images' = images \cup {"new"} /\ at' = "pulled" /\ UNCHANGED outcome
  /\ UNCHANGED <<container, moved, window, step, active, locks, stable, settled, counters>>

NotePulled ==
  /\ at = "pulled"
  /\ step' = [step EXCEPT !.phase = "pulled"]
  /\ at' = "drift"
  /\ UNCHANGED <<host, window, active, outcome, locks, stable, settled, counters>>

CheckDrift ==
  /\ at = "drift"
  /\ \/ Decide("not_applied")
     \/ at' = "deploying" /\ UNCHANGED outcome
  /\ UNCHANGED <<host, window, step, active, locks, stable, settled, counters>>

NoteDeploying ==
  /\ at = "deploying"
  /\ step' = [step EXCEPT !.phase = "deploying"]
  /\ at' = "up"
  /\ UNCHANGED <<host, window, active, outcome, locks, stable, settled, counters>>

(* _canary_up: tag the exact image and recreate the service on it.  A      *)
(* failure may leave the container as it was, recreated, or gone.          *)
Recreate(image, done) ==
  /\ container' \in IF done THEN {image} ELSE {container, "gone", image}
  /\ moved' = (moved \/ container' # container)

Up ==
  /\ at = "up"
  /\ \/ "new" \in images /\ Recreate("new", TRUE) /\ at' = "watch"
     \/ Recreate("new", FALSE) /\ at' = "rolling back"
  /\ UNCHANGED <<images, window, step, active, outcome, locks, stable, settled, counters>>

Watch ==
  /\ at = "watch"
  /\ \/ Decide("applied") /\ stable' = "new"
     \/ at' = "rolling back" /\ UNCHANGED <<outcome, stable>>
  /\ UNCHANGED <<host, window, step, active, locks, settled, counters>>

NoteRollingBack ==
  /\ at = "rolling back"
  /\ step' = [step EXCEPT !.phase = "rolling_back"]
  /\ at' = "restore"
  /\ UNCHANGED <<host, window, active, outcome, locks, stable, settled, counters>>

(* The automatic inverse needs the old image.                              *)
Restore ==
  /\ at = "restore"
  /\ \/ "old" \in images /\ Recreate("old", TRUE) /\ at' = "rewatch" /\ UNCHANGED outcome
     \/ "old" \in images /\ Recreate("old", FALSE) /\ Decide("unknown")
     \/ "old" \notin images /\ Decide("unknown") /\ UNCHANGED <<container, moved>>
  /\ UNCHANGED <<images, window, step, active, locks, stable, settled, counters>>

Rewatch ==
  /\ at = "rewatch"
  /\ \/ Decide("not_applied") /\ stable' = "old"
     \/ Decide("unknown") /\ UNCHANGED stable
  /\ UNCHANGED <<host, window, step, active, locks, settled, counters>>

(* _canary's finally: close the window, or hold it when unknown.           *)
SettleWindow ==
  /\ at = "settle window"
  /\ window' = IF outcome = "unknown" THEN Held ELSE Closed
  /\ at' = "record"
  /\ UNCHANGED <<host, step, active, outcome, locks, stable, settled, counters>>

(* run() records the step in a transaction of its own; one that found      *)
(* nothing newer to deploy passes as well ...                              *)
Record ==
  /\ at = "record"
  /\ \E s \in {"passed", "failed"} :
       /\ outcome = "applied" => s = "passed"
       /\ outcome = "unknown" => s = "failed"
       /\ step' = [step EXCEPT !.status = s, !.effect = outcome]
  /\ at' = "finish"
  /\ UNCHANGED <<host, window, active, outcome, locks, stable, settled, counters>>

(* ... then the execution ends and the lock is released.                   *)
Finish ==
  /\ at = "finish"
  /\ active' = FALSE
  /\ owner' = NoOne
  /\ at' = "over"
  /\ UNCHANGED <<host, window, step, outcome, prune, scanning, stable, settled, counters>>

----------------------------------------------------------------------------
(* A store transaction raises.                                             *)

Accident == accidents < MaxAccidents /\ accidents' = accidents + 1

(* dispatch() raises: the window closes again and the step is refused.     *)
DispatchRaises ==
  /\ Accident
  /\ at = "dispatch"
  /\ window' = Closed
  /\ outcome' = "not_applied"
  /\ at' = "record"
  /\ UNCHANGED <<host, step, active, locks, stable, settled, plans, cutOff>>

(* A progress note raises after dispatch: the outcome is unknown and the   *)
(* finally clause holds the window.                                        *)
NoteRaises ==
  /\ Accident
  /\ at \in {"pulled", "deploying", "watch", "rolling back"}
  /\ Decide("unknown")
  /\ UNCHANGED <<host, window, step, active, locks, stable, settled, plans, cutOff>>

(* The close or hold itself raises: run() sees an exception after dispatch.*)
WindowRaises ==
  /\ Accident
  /\ WindowMayRaise
  /\ at = "settle window"
  /\ outcome' = "unknown"
  /\ at' = "record"
  /\ cutOff' = TRUE
  /\ UNCHANGED <<host, window, step, active, locks, stable, settled, plans>>

(* finish_step raises, run() with it: settle_crashed_execution.            *)
RecordRaises ==
  /\ Accident
  /\ at = "record"
  /\ at' = "settle"
  /\ UNCHANGED <<host, window, step, active, outcome, locks, stable, settled, plans, cutOff>>

SettleStep ==
  /\ at = "settle"
  /\ IF step.status = "dispatched"
       THEN /\ step' = [step EXCEPT !.status = "failed", !.effect = "unknown"]
            /\ at' = "settle hold"
       ELSE /\ step' = [step EXCEPT !.status = "skipped"]
            /\ at' = "finish"
  /\ UNCHANGED <<host, window, active, outcome, locks, stable, settled, counters>>

SettleHold ==
  /\ at = "settle hold"
  /\ window' = Held
  /\ at' = "finish"
  /\ UNCHANGED <<host, step, active, outcome, locks, stable, settled, counters>>

----------------------------------------------------------------------------
(* Core dies, and starts again.                                            *)

Crash ==
  /\ Accident
  /\ at # "down"
  /\ at' = "down"
  /\ outcome' = "none"
  /\ owner' = NoOne
  /\ prune' = "no"
  /\ scanning' = FALSE
  /\ cutOff' = (cutOff \/ at \in {"settle hold", "reconcile window"})
  /\ UNCHANGED <<host, window, step, active, stable, settled, plans>>

(* Mutant: an image that was put back counts although nobody watched it.   *)
ReconciledByImage(readable) ==
  IF readable /\ container = "old" THEN "not_applied" ELSE "unknown"

(* _reconcile_canary: what does the container run now, if it can be read?  *)
Reconciled(readable) ==
  IF readable /\ container = "old" /\ step.phase # "rolling_back"
  THEN "not_applied" ELSE "unknown"

ReconcileStep ==
  /\ at = "down"
  /\ CASE active /\ step.status = "dispatched" ->
            /\ \E readable \in BOOLEAN :
                 step' = [step EXCEPT !.status = "failed", !.effect = Reconciled(readable)]
            /\ at' = "reconcile window"
       [] active /\ step.status = "pending" ->
            step' = [step EXCEPT !.status = "skipped"] /\ at' = "interrupt"
       [] OTHER -> at' = "interrupt" /\ UNCHANGED step
  /\ UNCHANGED <<host, window, active, outcome, locks, stable, settled, counters>>

ReconcileWindow ==
  /\ at = "reconcile window"
  /\ window' = IF step.effect = "not_applied" THEN Closed ELSE Held
  /\ at' = "interrupt"
  /\ UNCHANGED <<host, step, active, outcome, locks, stable, settled, counters>>

(* interrupt_unfinished; then core serves requests again.                  *)
Interrupt ==
  /\ at = "interrupt"
  /\ active' = FALSE
  /\ at' = IF step.status = "pending" THEN "rest" ELSE "over"
  /\ UNCHANGED <<host, window, step, outcome, locks, stable, settled, counters>>

----------------------------------------------------------------------------
(* Scans, prunes, the operator and the clock.                              *)

Serving == at \notin {"down", "reconcile window", "interrupt"}

StartScan ==
  /\ Serving /\ ~scanning /\ owner = NoOne
  /\ scanning' = TRUE
  /\ UNCHANGED <<host, window, step, active, at, outcome, owner, prune, stable, settled, counters>>

EndScan ==
  /\ scanning /\ prune = "no"
  /\ scanning' = FALSE
  /\ UNCHANGED <<host, window, step, active, at, outcome, owner, prune, stable, settled, counters>>

(* maybe_run_safe_prune reads the windows first ...                        *)
PassGate ==
  /\ scanning /\ prune = "no" /\ ~Blocked
  /\ prune' = "gated"
  /\ UNCHANGED <<host, window, step, active, at, outcome, owner, scanning, stable, settled, counters>>

(* ... and takes the mutation lock, during_scan, afterwards.               *)
BeginPrune ==
  /\ prune = "gated"
  /\ IF owner = NoOne THEN owner' = "prune" /\ prune' = "pruning"
                      ELSE prune' = "no" /\ UNCHANGED owner
  /\ UNCHANGED <<host, window, step, active, at, outcome, scanning, stable, settled, counters>>

(* docker image prune -a.                                                  *)
Used == images \cap {container}

Prune ==
  /\ prune = "pruning"
  /\ images' = Used
  /\ prune' = "no"
  /\ owner' = NoOne
  /\ UNCHANGED <<container, moved, window, step, active, at, outcome, scanning, stable, settled,
                 counters>>

(* Mutant: the plan runs beside whoever holds the lock.                    *)
PlanPruneUnlocked ==
  /\ plans < MaxPlans
  /\ Serving
  /\ images' = Used
  /\ plans' = plans + 1
  /\ UNCHANGED <<container, moved, window, step, active, at, outcome, locks, stable, settled,
                 accidents, cutOff>>

(* An approved plan's prune.safe: under the mutation lock, no window read. *)
PlanPrune ==
  /\ plans < MaxPlans
  /\ Serving /\ owner = NoOne /\ ~scanning
  /\ images' = Used
  /\ plans' = plans + 1
  /\ UNCHANGED <<container, moved, window, step, active, at, outcome, locks, stable, settled,
                 accidents, cutOff>>

(* settle_rollback_candidate: a held window only.                          *)
SettleByHand ==
  /\ Serving /\ window.state = "open" /\ window.held
  /\ window' = Closed
  /\ settled' = TRUE
  /\ UNCHANGED <<host, step, active, at, outcome, locks, stable, counters>>

(* The grace period of a window is over.                                   *)
Lapse ==
  /\ window.state = "open" /\ ~window.lapsed
  /\ window' = [window EXCEPT !.lapsed = TRUE]
  /\ UNCHANGED <<host, step, active, at, outcome, locks, stable, settled, counters>>

Worker ==
  \/ RefuseUpdate \/ OpenWindow \/ Dispatch \/ Pull \/ NotePulled \/ CheckDrift
  \/ NoteDeploying \/ Up \/ Watch \/ NoteRollingBack \/ Restore \/ Rewatch \/ SettleWindow
  \/ Record \/ Finish \/ SettleStep \/ SettleHold
Startup == ReconcileStep \/ ReconcileWindow \/ Interrupt
Raises == DispatchRaises \/ NoteRaises \/ WindowRaises \/ RecordRaises
ScanStep == StartScan \/ EndScan \/ PassGate \/ BeginPrune \/ Prune

Next ==
  StartUpdate \/ Worker \/ Startup \/ Raises \/ Crash \/ ScanStep \/ PlanPrune
    \/ SettleByHand \/ Lapse

Spec == Init /\ [][Next]_vars

(* The worker goes on, core is started again, and time passes.             *)
FairSpec == Spec /\ WF_vars(Worker) /\ WF_vars(Startup) /\ WF_vars(Lapse)

----------------------------------------------------------------------------
(* Properties.                                                             *)

Working == {"pull", "pulled", "drift", "deploying", "up", "watch", "rolling back", "restore",
            "rewatch"}

WindowRow == [state : {"none", "open", "closed"}, held : BOOLEAN, lapsed : BOOLEAN]

StepRow == [status : {"pending", "dispatched", "passed", "failed", "skipped"},
            effect : {"none", "applied", "not_applied", "unknown"},
            phase : {"none", "pull_dispatched", "pulled", "deploying", "rolling_back"}]

TypeOK ==
  /\ images \subseteq {"old", "new"}
  /\ container \in {"old", "new", "gone"}
  /\ window \in WindowRow
  /\ step \in StepRow
  /\ active \in BOOLEAN
  /\ at \in Working \cup {"rest", "open", "dispatch", "settle window", "record", "finish", "over",
                          "settle", "settle hold", "down", "reconcile window", "interrupt"}
  /\ outcome \in {"none", "applied", "not_applied", "unknown"}
  /\ owner \in {NoOne, "update", "prune"}
  /\ prune \in {"no", "gated", "pruning"}
  /\ {scanning, moved, settled, cutOff} \subseteq BOOLEAN
  /\ plans \in 0..MaxPlans
  /\ stable \in {"none", "old", "new"}
  /\ accidents \in 0..MaxAccidents

(* "a prune can never remove the image this step would roll back to":      *)
(* while an update is in flight the old image is there, although the gate  *)
(* reads the windows before it takes the lock.                             *)
InverseIsPossible == at \in Working => "old" \in images

(* "the old image has to survive every prune until a human settles it":    *)
(* an update recorded as unknown can still be undone by hand.              *)
UnknownKeepsItsImage ==
  step.effect = "unknown" /\ ~settled => "old" \in images

(* That holds however often core crashes or a transaction raises, unless   *)
(* one of them falls exactly between a step's effect and the write that    *)
(* settles its window, or a plan prunes (the run canary_plan): the hold    *)
(* outlives the grace period, every scan's prune and every restart.        *)
KeptUnlessCutOff == ~cutOff /\ plans = 0 => UnknownKeepsItsImage

(* "applied" was watched and is what runs; "not_applied" runs the old      *)
(* image, and one that was put back was watched as well.                   *)
EffectIsWatched ==
  /\ step.effect = "applied" => container = "new" /\ stable = "new"
  /\ step.effect = "not_applied" => container = "old" /\ (moved => stable = "old")

(* A prune that is held off is held off by something that ends, or by an   *)
(* unknown update a human has to look at.                                  *)
PruneComesBack == Blocked ~> (~Blocked \/ step.effect = "unknown" \/ cutOff)
=============================================================================
