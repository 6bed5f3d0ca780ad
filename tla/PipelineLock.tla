---------------------------- MODULE PipelineLock ----------------------------
(***************************************************************************)
(* PipelineState (casa_farnsworth.py): the in-memory object every thread   *)
(* of the core process shares.  It holds the scan slot (`_state`), the     *)
(* host-mutation lock (`_mutation_owner`) and the wish for a re-scan, and  *)
(* guards each method body with one threading.Lock, so one method body is  *)
(* one atomic step here.  What is not atomic is a caller that needs two of *)
(* them: `transition` releases the lock before it fires the re-scan,       *)
(* `run_pipeline` takes the run slot and clears the pending mark in two    *)
(* acquisitions, `_fire_rescan_if_idle` calls the starter after releasing. *)
(*                                                                         *)
(* Threads: Scanners call run_pipeline (the scheduler, /check, the SCAN    *)
(* button), Rescans are the quiet workers make_rescan_starter creates, and *)
(* Mutators are everything that changes the host (typed executions,        *)
(* rollbacks, /patchnow, the weekly pass, configuration writes).           *)
(***************************************************************************)
EXTENDS Naturals, FiniteSets

CONSTANTS
  Scanners,          \* threads that run the pipeline loudly
  Rescans,           \* identities of the quiet re-scan workers
  Mutators,          \* threads that take the host-mutation lock
  NoOne,             \* "the lock is free"
  SafePrune,         \* the owner name of the prune inside a scan
  MaxMutations,      \* bound: mutations that get the lock
  MaxMaintenance,    \* bound: maintenance windows the backup job opens
  MaxStarterFailures,\* bound: re-scan threads that will not start, or die early
  MaxRestarts        \* bound: restarts of the core process

ASSUME ThreadsAssumption ==
  /\ Scanners \cap Rescans = {}
  /\ Scanners \cap Mutators = {}
  /\ Rescans \cap Mutators = {}
  /\ NoOne \notin Mutators
  /\ SafePrune \notin Mutators
  /\ NoOne # SafePrune

ASSUME BoundsAssumption ==
  {MaxMutations, MaxMaintenance, MaxStarterFailures, MaxRestarts} \subseteq Nat

Threads == Scanners \cup Rescans \cup Mutators

(* Where a thread is in its own code.  "fire" is between releasing the     *)
(* PipelineState lock and _fire_rescan_if_idle, "start" is between         *)
(* _fire_rescan_if_idle's lock and the starter it calls; `back` says where *)
(* the thread goes on afterwards.                                          *)
ScanPlaces   == {"rest", "scanning", "pruning", "fire", "start"}
RescanPlaces == {"rest", "settling", "admitted", "refused", "rerequest",
                 "scanning", "pruning", "fire", "start"}
MutatePlaces == {"rest", "mutating", "fixed", "ending", "fire", "start"}

VARIABLES
  state,        \* PipelineState._state: "idle" or "running" (EXECUTING is never entered)
  owner,        \* PipelineState._mutation_owner
  wanted,       \* PipelineState._rescan_wanted
  pending,      \* _rescan_pending_since: "none", "fresh" or "expired" (older than the TTL)
  window,       \* the root backup job's maintenance marker is present and not stale
  place,        \* where each thread is
  back,         \* where a thread goes after "fire"/"start"
  stale,        \* history: something was fixed and no scan has begun since
  spent         \* history: what has been used of each bound

vars == <<state, owner, wanted, pending, window, place, back, stale, spent>>
wishvars == <<wanted, pending>>

Init ==
  /\ state = "idle"
  /\ owner = NoOne
  /\ wanted = FALSE
  /\ pending = "none"
  /\ window = FALSE
  /\ place = [t \in Threads |-> "rest"]
  /\ back = [t \in Threads |-> "rest"]
  /\ stale = FALSE
  /\ spent = [mutations |-> 0, windows |-> 0, failures |-> 0, restarts |-> 0]

GoTo(t, where) == place' = [place EXCEPT ![t] = where]

(* The caller's next statement is _fire_rescan_if_idle(), and after it the *)
(* thread continues at `next`.                                             *)
FireThen(t, next) ==
  /\ GoTo(t, "fire")
  /\ back' = [back EXCEPT ![t] = next]

----------------------------------------------------------------------------
(* The scan slot.                                                          *)

(* try_start_run's guard, one acquisition of the lock.                     *)
SlotFree == ~window /\ state = "idle" /\ owner = NoOne

TakeSlot == SlotFree /\ state' = "running"

(* run_pipeline of a loud caller: admission, then straight into the scan.  *)
(* A refused caller only notifies somebody, so refusal changes nothing.    *)
StartScan(t) ==
  /\ t \in Scanners /\ place[t] = "rest"
  /\ TakeSlot
  /\ stale' = FALSE
  /\ GoTo(t, "scanning")
  /\ UNCHANGED <<owner, wanted, pending, window, back, spent>>

(* maybe_run_safe_prune inside the scan: the one mutation that may hold    *)
(* the lock while a scan is running (during_scan=True).                    *)
BeginPrune(t) ==
  /\ place[t] = "scanning" /\ t \in Scanners \cup Rescans
  /\ ~window /\ owner = NoOne
  /\ owner' = SafePrune
  /\ GoTo(t, "pruning")
  /\ UNCHANGED <<state, wanted, pending, window, back, stale, spent>>

(* end_mutation("safe-prune") in the finally; the scan goes on.            *)
EndPrune(t) ==
  /\ place[t] = "pruning"
  /\ owner' = IF owner = SafePrune THEN NoOne ELSE owner
  /\ IF owner = SafePrune
       THEN FireThen(t, "scanning")
       ELSE GoTo(t, "scanning") /\ UNCHANGED back
  /\ UNCHANGED <<state, wanted, pending, window, stale, spent>>

(* Mutant: the state left over from shell plans is entered again.          *)
ParkScan(t) ==
  /\ place[t] = "scanning"
  /\ state' = "awaiting_approval"
  /\ FireThen(t, "rest")
  /\ UNCHANGED <<owner, wanted, pending, window, stale, spent>>

(* Every path of run_pipeline, its except clause included, ends in         *)
(* transition(IDLE), which fires the re-scan outside the lock.             *)
FinishScan(t) ==
  /\ place[t] = "scanning"
  /\ state' = "idle"
  /\ FireThen(t, "rest")
  /\ UNCHANGED <<owner, wanted, pending, window, stale, spent>>

----------------------------------------------------------------------------
(* The mutation lock.                                                      *)

(* Mutant: every caller may mutate during a scan.                          *)
MayMutateMidScan == ~window /\ owner = NoOne

(* try_begin_mutation's guard, one acquisition of the lock.                *)
MayMutate == ~window /\ owner = NoOne /\ state # "running"

(* try_begin_mutation.  A refused caller answers "busy" and changes        *)
(* nothing.  require_idle adds nothing: "idle" and "running" are the only  *)
(* states the pipeline enters.                                             *)
BeginMutation(t) ==
  /\ t \in Mutators /\ place[t] = "rest"
  /\ spent.mutations < MaxMutations
  /\ spent' = [spent EXCEPT !.mutations = @ + 1]
  /\ MayMutate
  /\ owner' = t
  /\ GoTo(t, "mutating")
  /\ UNCHANGED <<state, wanted, pending, window, back, stale>>

(* The work under the lock fixed something: the caller is about to ask for *)
(* a re-scan, still holding the lock.                                      *)
Fix(t) ==
  /\ place[t] = "mutating"
  /\ stale' = TRUE
  /\ GoTo(t, "fixed")
  /\ UNCHANGED <<state, owner, wanted, pending, window, back, spent>>

(* The work changed nothing worth looking at again, or failed.             *)
NothingFixed(t) ==
  /\ place[t] = "mutating"
  /\ GoTo(t, "ending")
  /\ UNCHANGED <<state, owner, wanted, pending, window, back, stale, spent>>

(* Mutant: a request never joins the worker that is on its way.            *)
RequestAnother(t, next) == wanted' = TRUE /\ FireThen(t, next)

(* request_rescan: join the worker about to start, or record the wish and  *)
(* try to fire it.                                                         *)
RequestRescan(t, next) ==
  IF pending = "fresh"
    THEN /\ GoTo(t, next)
         /\ UNCHANGED <<wanted, back>>
    ELSE /\ wanted' = TRUE
         /\ FireThen(t, next)

AskAfterFix(t) ==
  /\ place[t] = "fixed"
  /\ RequestRescan(t, "ending")
  /\ UNCHANGED <<state, owner, pending, window, stale, spent>>

(* Mutant: the release forgets the wish.                                   *)
EndMutationQuietly(t) ==
  /\ place[t] = "ending"
  /\ owner' = IF owner = t THEN NoOne ELSE owner
  /\ GoTo(t, "rest")
  /\ UNCHANGED <<state, wanted, pending, window, back, stale, spent>>

(* end_mutation(owner): a caller that does not hold the lock releases      *)
(* nothing and fires nothing.                                              *)
EndMutation(t) ==
  /\ place[t] = "ending"
  /\ IF owner = t
       THEN owner' = NoOne /\ FireThen(t, "rest")
       ELSE GoTo(t, "rest") /\ UNCHANGED <<owner, back>>
  /\ UNCHANGED <<state, wanted, pending, window, stale, spent>>

----------------------------------------------------------------------------
(* The re-scan wish.                                                       *)

MayFire == wanted /\ state = "idle" /\ owner = NoOne /\ ~window

(* _fire_rescan_if_idle under the lock.                                    *)
FireRescan(t) ==
  /\ place[t] = "fire"
  /\ IF MayFire
       THEN /\ wanted' = FALSE
            /\ pending' = "fresh"
            /\ GoTo(t, "start")
       ELSE /\ GoTo(t, back[t])
            /\ UNCHANGED wishvars
  /\ UNCHANGED <<state, owner, window, back, stale, spent>>

(* The starter outside the lock: a thread that sleeps settle_seconds.      *)
StartWorker(t) ==
  /\ place[t] = "start"
  /\ \E w \in Rescans :
       /\ place[w] = "rest"
       /\ place' = [place EXCEPT ![t] = back[t], ![w] = "settling"]
  /\ UNCHANGED <<state, owner, wanted, pending, window, back, stale, spent>>

(* ... or the thread will not start: the exception is logged, the pending  *)
(* mark goes (rescan_claimed) and with it the wish.                        *)
StarterFails(t) ==
  /\ place[t] = "start"
  /\ spent.failures < MaxStarterFailures
  /\ spent' = [spent EXCEPT !.failures = @ + 1]
  /\ pending' = "none"
  /\ GoTo(t, back[t])
  /\ UNCHANGED <<state, owner, wanted, window, back, stale>>

(* The worker reaches run_pipeline(quiet=True): admission ...              *)
AdmitRescan(w) ==
  /\ w \in Rescans /\ place[w] = "settling"
  /\ IF SlotFree
       THEN state' = "running" /\ stale' = FALSE /\ GoTo(w, "admitted")
       ELSE GoTo(w, "refused") /\ UNCHANGED <<state, stale>>
  /\ UNCHANGED <<owner, wanted, pending, window, back, spent>>

(* ... then, in an acquisition of its own, rescan_claimed ...              *)
ClaimRescan(w) ==
  /\ place[w] \in {"admitted", "refused"}
  /\ pending' = "none"
  /\ GoTo(w, IF place[w] = "admitted" THEN "scanning" ELSE "rerequest")
  /\ UNCHANGED <<state, owner, wanted, window, back, stale, spent>>

(* Mutant: a refused worker drops the wish.                                *)
DropWish(w) ==
  /\ place[w] = "rerequest"
  /\ GoTo(w, "rest")
  /\ UNCHANGED <<state, owner, wanted, pending, window, back, stale, spent>>

(* ... and a refused worker keeps the wish.                                *)
AskAgain(w) ==
  /\ place[w] = "rerequest"
  /\ RequestRescan(w, "rest")
  /\ UNCHANGED <<state, owner, pending, window, stale, spent>>

(* A worker that dies before it reaches the front door leaves its mark ... *)
RescanDies(w) ==
  /\ w \in Rescans /\ place[w] = "settling"
  /\ spent.failures < MaxStarterFailures
  /\ spent' = [spent EXCEPT !.failures = @ + 1]
  /\ GoTo(w, "rest")
  /\ UNCHANGED <<state, owner, wanted, pending, window, back, stale>>

(* Started and not yet at the front door.                                  *)
OnItsWay(t) ==
  \/ t \in Rescans /\ place[t] \in {"settling", "admitted", "refused"}
  \/ place[t] = "start"

(* Mutant: the mark has no TTL.                                            *)
NeverExpires == FALSE /\ UNCHANGED vars

(* ... which RESCAN_PENDING_TTL_SECONDS expires.  A live worker claims     *)
(* after 15 of the 120 seconds, so only a dead one's mark gets that old.   *)
ExpirePending ==
  /\ pending = "fresh"
  /\ \A t \in Threads : ~OnItsWay(t)
  /\ pending' = "expired"
  /\ UNCHANGED <<state, owner, wanted, window, place, back, stale, spent>>

----------------------------------------------------------------------------
(* The environment.                                                        *)

(* The root backup job writes its marker at any time, mid-scan included.   *)
OpenWindow ==
  /\ ~window
  /\ spent.windows < MaxMaintenance
  /\ spent' = [spent EXCEPT !.windows = @ + 1]
  /\ window' = TRUE
  /\ UNCHANGED <<state, owner, wanted, pending, place, back, stale>>

(* The job removes the marker, or it turns six hours old.                  *)
CloseWindow ==
  /\ window
  /\ window' = FALSE
  /\ UNCHANGED <<state, owner, wanted, pending, place, back, stale, spent>>

(* Core restarts: nothing of PipelineState survives, no thread either.     *)
Restart ==
  /\ spent.restarts < MaxRestarts
  /\ spent' = [spent EXCEPT !.restarts = @ + 1]
  /\ state' = "idle"
  /\ owner' = NoOne
  /\ wanted' = FALSE
  /\ pending' = "none"
  /\ place' = [t \in Threads |-> "rest"]
  /\ back' = [t \in Threads |-> "rest"]
  /\ UNCHANGED <<window, stale>>

ScanStep(t) == StartScan(t) \/ BeginPrune(t) \/ EndPrune(t) \/ FinishScan(t)

MutationStep(t) ==
  BeginMutation(t) \/ Fix(t) \/ NothingFixed(t) \/ AskAfterFix(t) \/ EndMutation(t)

RescanStep(t) ==
  FireRescan(t) \/ StartWorker(t) \/ StarterFails(t) \/ AdmitRescan(t)
    \/ ClaimRescan(t) \/ AskAgain(t) \/ RescanDies(t)

Next ==
  \/ \E t \in Threads : ScanStep(t) \/ MutationStep(t) \/ RescanStep(t)
  \/ ExpirePending
  \/ OpenWindow
  \/ CloseWindow
  \/ Restart

Spec == Init /\ [][Next]_vars

(* A thread that is inside one of these calls runs on; nobody has to begin *)
(* another scan, mutation or prune.  The mark gets older with the clock    *)
(* and the maintenance marker goes away or turns stale.                    *)
RunsOn(t) ==
  \/ EndPrune(t) \/ FinishScan(t)
  \/ Fix(t) \/ NothingFixed(t) \/ AskAfterFix(t) \/ EndMutation(t)
  \/ RescanStep(t)

Fairness ==
  /\ \A t \in Threads : WF_vars(RunsOn(t))
  /\ WF_vars(ExpirePending)
  /\ WF_vars(CloseWindow)

FairSpec == Spec /\ Fairness

----------------------------------------------------------------------------
(* Properties.                                                             *)

TypeOK ==
  /\ state \in {"idle", "running"}
  /\ owner \in Mutators \cup {NoOne, SafePrune}
  /\ wanted \in BOOLEAN
  /\ pending \in {"none", "fresh", "expired"}
  /\ window \in BOOLEAN
  /\ place \in [Threads -> ScanPlaces \cup RescanPlaces \cup MutatePlaces]
  /\ back \in [Threads -> {"rest", "scanning", "ending"}]
  /\ stale \in BOOLEAN
  /\ spent \in [mutations : 0..MaxMutations, windows : 0..MaxMaintenance,
                failures : 0..MaxStarterFailures, restarts : 0..MaxRestarts]

Firing(t) == place[t] \in {"fire", "start"}

InScan(t) ==
  /\ t \in Scanners \cup Rescans
  /\ place[t] \in {"admitted", "scanning", "pruning"} \/ (Firing(t) /\ back[t] = "scanning")

InMutation(t) ==
  /\ t \in Mutators
  /\ place[t] \in {"mutating", "fixed", "ending"} \/ (Firing(t) /\ back[t] = "ending")

(* "Nothing changes the host under Leela's snapshot": while a scan looks,  *)
(* no thread is inside a mutation except the prune of that very scan; two  *)
(* scans never look at once and two mutations never run at once.           *)
HostIsQuiet ==
  /\ \A t, u \in Threads : InScan(t) => ~InMutation(u)
  /\ \A t, u \in Threads : InScan(t) /\ InScan(u) => t = u
  /\ \A t, u \in Threads : InMutation(t) /\ InMutation(u) => t = u

(* "A single flag, so a pass that fixes 26 services asks for ONE scan": at *)
(* most one re-scan worker is on its way to the front door.                *)
OneWorker == \A t, u \in Threads : OnItsWay(t) /\ OnItsWay(u) => t = u

(* No re-scan thread failed to start or died, and core was not restarted: *)
(* the losses of the wish the code accepts.                                *)
Undisturbed == spent.failures = 0 /\ spent.restarts = 0

(* The wish survives until a scan begins after the fix: whoever fixed      *)
(* something is about to ask, or the wish is recorded, or a worker carries *)
(* it, or a refused worker is about to ask again.                          *)
WishIsKept ==
  Undisturbed /\ stale =>
    \/ wanted
    \/ \E t \in Threads : OnItsWay(t) \/ place[t] \in {"fixed", "rerequest"}

(* Every fix is looked at again, with no scheduled scan to help: some scan *)
(* begins after it, unless the wish was lost or a maintenance window       *)
(* opened, whose end wakes nobody.                                         *)
FixIsRescanned == stale ~> (~stale \/ ~Undisturbed \/ spent.windows > 0)

(* "A worker that died before claiming can never stop re-scans for good."  *)
PendingEnds == pending = "fresh" ~> pending # "fresh"
=============================================================================
