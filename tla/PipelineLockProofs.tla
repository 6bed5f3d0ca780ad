------------------------- MODULE PipelineLockProofs -------------------------
(***************************************************************************)
(* The safety of PipelineState for any number of threads and any bounds.   *)
(* LockInv is the inductive invariant: who is inside a scan holds the run  *)
(* slot, who is inside a mutation holds the lock under its own name, and   *)
(* the pending mark stands for exactly one worker on its way.              *)
(***************************************************************************)
EXTENDS PipelineLock, TLAPS

PlacesOK ==
  /\ \A t \in Scanners : place[t] \in ScanPlaces /\ back[t] \in {"rest", "scanning"}
  /\ \A t \in Rescans : place[t] \in RescanPlaces /\ back[t] \in {"rest", "scanning"}
  /\ \A t \in Mutators : place[t] \in MutatePlaces /\ back[t] \in {"rest", "ending"}

ScanHoldsSlot == \A t \in Threads : InScan(t) => state = "running"

OneScan == \A t, u \in Threads : InScan(t) /\ InScan(u) => t = u

MutationHoldsLock == \A t \in Threads : InMutation(t) => owner = t

RunningIsQuiet == state = "running" => owner \in {NoOne, SafePrune}

OnItsWayIsPending == \A t \in Threads : OnItsWay(t) => pending = "fresh"

PendingIsNotWanted == pending = "fresh" => ~wanted

LockInv ==
  /\ TypeOK
  /\ PlacesOK
  /\ ScanHoldsSlot
  /\ OneScan
  /\ MutationHoldsLock
  /\ RunningIsQuiet
  /\ OnItsWayIsPending
  /\ PendingIsNotWanted
  /\ OneWorker

USE DEF Threads

(* The bounds and the threads, in the form the steps below use them.       *)
LEMMA Setting ==
  /\ MaxMutations \in Nat /\ MaxMaintenance \in Nat
  /\ MaxStarterFailures \in Nat /\ MaxRestarts \in Nat
  /\ Scanners \cap Rescans = {} /\ Scanners \cap Mutators = {}
  /\ Rescans \cap Mutators = {}
  /\ NoOne \notin Mutators /\ SafePrune \notin Mutators /\ NoOne # SafePrune
BY ThreadsAssumption, BoundsAssumption

LEMMA InitLockInv == Init => LockInv
<1> SUFFICES ASSUME Init PROVE LockInv
  OBVIOUS
<1>1. TypeOK
  <2>1. spent \in [mutations : 0..MaxMutations, windows : 0..MaxMaintenance,
                    failures : 0..MaxStarterFailures, restarts : 0..MaxRestarts]
    BY Setting DEF Init
  <2> QED
    BY <2>1 DEF Init, TypeOK, ScanPlaces
<1>2. PlacesOK
  BY DEF Init, PlacesOK, ScanPlaces, RescanPlaces, MutatePlaces
<1>3. \A t \in Threads : ~InScan(t) /\ ~InMutation(t) /\ ~OnItsWay(t)
  BY DEF Init, InScan, InMutation, OnItsWay, Firing
<1> QED
  BY <1>1, <1>2, <1>3
  DEF Init, LockInv, ScanHoldsSlot, OneScan, MutationHoldsLock, RunningIsQuiet,
      OnItsWayIsPending, PendingIsNotWanted, OneWorker

(* Types first: every step keeps the variables in their ranges.            *)
LEMMA TypeStep == TypeOK /\ [Next]_vars => TypeOK'
<1> SUFFICES ASSUME TypeOK, [Next]_vars PROVE TypeOK'
  OBVIOUS
<1> USE Setting DEF TypeOK
<1>1. ASSUME NEW t \in Threads, ScanStep(t) PROVE TypeOK'
  <2>1. CASE StartScan(t)
    BY <2>1 DEF StartScan, TakeSlot, GoTo, ScanPlaces
  <2>2. CASE BeginPrune(t)
    BY <2>2 DEF BeginPrune, GoTo, ScanPlaces
  <2>3. CASE EndPrune(t)
    BY <2>3 DEF EndPrune, FireThen, GoTo, ScanPlaces
  <2>4. CASE FinishScan(t)
    BY <2>4 DEF FinishScan, FireThen, GoTo, ScanPlaces
  <2> QED
    BY <1>1, <2>1, <2>2, <2>3, <2>4 DEF ScanStep
<1>2. ASSUME NEW t \in Threads, MutationStep(t) PROVE TypeOK'
  <2>1. CASE BeginMutation(t)
    <3>1. spent' \in [mutations : 0..MaxMutations, windows : 0..MaxMaintenance,
                       failures : 0..MaxStarterFailures, restarts : 0..MaxRestarts]
      BY <2>1 DEF BeginMutation, MayMutate
    <3> QED
      BY <2>1, <3>1 DEF BeginMutation, MayMutate, GoTo, MutatePlaces
  <2>2. CASE Fix(t)
    BY <2>2 DEF Fix, GoTo, MutatePlaces
  <2>3. CASE NothingFixed(t)
    BY <2>3 DEF NothingFixed, GoTo, MutatePlaces
  <2>4. CASE AskAfterFix(t)
    BY <2>4 DEF AskAfterFix, RequestRescan, FireThen, GoTo, MutatePlaces
  <2>5. CASE EndMutation(t)
    BY <2>5 DEF EndMutation, FireThen, GoTo, MutatePlaces
  <2> QED
    BY <1>2, <2>1, <2>2, <2>3, <2>4, <2>5 DEF MutationStep
<1>3. ASSUME NEW t \in Threads, RescanStep(t) PROVE TypeOK'
  <2>1. CASE FireRescan(t)
    BY <2>1 DEF FireRescan, GoTo, wishvars, ScanPlaces, RescanPlaces, MutatePlaces
  <2>2. CASE StartWorker(t)
    BY <2>2 DEF StartWorker, ScanPlaces, RescanPlaces, MutatePlaces
  <2>3. CASE StarterFails(t)
    <3>1. spent' \in [mutations : 0..MaxMutations, windows : 0..MaxMaintenance,
                       failures : 0..MaxStarterFailures, restarts : 0..MaxRestarts]
      BY <2>3 DEF StarterFails
    <3> QED
      BY <2>3, <3>1 DEF StarterFails, GoTo, ScanPlaces, RescanPlaces, MutatePlaces
  <2>4. CASE AdmitRescan(t)
    BY <2>4 DEF AdmitRescan, GoTo, RescanPlaces
  <2>5. CASE ClaimRescan(t)
    BY <2>5 DEF ClaimRescan, GoTo, RescanPlaces
  <2>6. CASE AskAgain(t)
    BY <2>6 DEF AskAgain, RequestRescan, FireThen, GoTo, RescanPlaces
  <2>7. CASE RescanDies(t)
    BY <2>7 DEF RescanDies, GoTo, RescanPlaces
  <2> QED
    BY <1>3, <2>1, <2>2, <2>3, <2>4, <2>5, <2>6, <2>7 DEF RescanStep
<1>4. CASE ExpirePending
  BY <1>4 DEF ExpirePending
<1>5. CASE OpenWindow
  BY <1>5 DEF OpenWindow
<1>6. CASE CloseWindow
  BY <1>6 DEF CloseWindow
<1>7. CASE Restart
  <2>1. spent' \in [mutations : 0..MaxMutations, windows : 0..MaxMaintenance,
                     failures : 0..MaxStarterFailures, restarts : 0..MaxRestarts]
    BY <1>7 DEF Restart
  <2> QED
    BY <1>7, <2>1 DEF Restart, ScanPlaces
<1>8. CASE UNCHANGED vars
  BY <1>8 DEF vars
<1> QED
  BY <1>1, <1>2, <1>3, <1>4, <1>5, <1>6, <1>7, <1>8 DEF Next

(* Each kind of thread stays in its own code.                              *)
LEMMA PlacesStep == TypeOK /\ PlacesOK /\ [Next]_vars => PlacesOK'
<1> SUFFICES ASSUME TypeOK, PlacesOK, [Next]_vars PROVE PlacesOK'
  OBVIOUS
<1> USE Setting DEF TypeOK, PlacesOK, ScanPlaces, RescanPlaces, MutatePlaces
<1>1. ASSUME NEW t \in Threads, ScanStep(t) PROVE PlacesOK'
  BY <1>1 DEF ScanStep, StartScan, BeginPrune, EndPrune, FinishScan, FireThen, GoTo
<1>2. ASSUME NEW t \in Threads, MutationStep(t) PROVE PlacesOK'
  BY <1>2 DEF MutationStep, BeginMutation, Fix, NothingFixed, AskAfterFix, EndMutation,
              RequestRescan, FireThen, GoTo
<1>3. ASSUME NEW t \in Threads, RescanStep(t) PROVE PlacesOK'
  <2>1. CASE FireRescan(t)
    BY <2>1 DEF FireRescan, GoTo
  <2>2. CASE StartWorker(t)
    BY <2>2 DEF StartWorker
  <2>3. CASE StarterFails(t) \/ RescanDies(t)
    BY <2>3 DEF StarterFails, RescanDies, GoTo
  <2>4. CASE AdmitRescan(t) \/ ClaimRescan(t)
    BY <2>4 DEF AdmitRescan, ClaimRescan, GoTo
  <2>5. CASE AskAgain(t)
    BY <2>5 DEF AskAgain, RequestRescan, FireThen, GoTo
  <2> QED
    BY <1>3, <2>1, <2>2, <2>3, <2>4, <2>5 DEF RescanStep
<1>4. CASE ExpirePending \/ OpenWindow \/ CloseWindow \/ UNCHANGED vars
  BY <1>4 DEF ExpirePending, OpenWindow, CloseWindow, vars
<1>5. CASE Restart
  BY <1>5 DEF Restart
<1> QED
  BY <1>1, <1>2, <1>3, <1>4, <1>5 DEF Next

(* The lock's own invariant, one step per action.                          *)
LEMMA LockStep == LockInv /\ [Next]_vars => LockInv'
<1> SUFFICES ASSUME LockInv, [Next]_vars PROVE LockInv'
  OBVIOUS
<1>t. TypeOK' /\ PlacesOK'
  BY TypeStep, PlacesStep DEF LockInv
<1> DEFINE Held == /\ ScanHoldsSlot /\ OneScan /\ MutationHoldsLock /\ RunningIsQuiet
                   /\ OnItsWayIsPending /\ PendingIsNotWanted /\ OneWorker
<1> SUFFICES Held'
  BY <1>t DEF LockInv
<1> USE Setting
    DEF LockInv, TypeOK, PlacesOK, ScanHoldsSlot, OneScan, MutationHoldsLock, RunningIsQuiet,
        OnItsWayIsPending, PendingIsNotWanted, OneWorker, InScan, InMutation, OnItsWay, Firing,
        ScanPlaces, RescanPlaces, MutatePlaces, GoTo, FireThen, RequestRescan
<1>1. ASSUME NEW t \in Threads, StartScan(t) PROVE Held'
  BY <1>1 DEF StartScan, TakeSlot, SlotFree
<1>2. ASSUME NEW t \in Threads, BeginPrune(t) PROVE Held'
  BY <1>2 DEF BeginPrune
<1>3. ASSUME NEW t \in Threads, EndPrune(t) PROVE Held'
  BY <1>3 DEF EndPrune
<1>4. ASSUME NEW t \in Threads, FinishScan(t) PROVE Held'
  BY <1>4 DEF FinishScan
<1>5. ASSUME NEW t \in Threads, BeginMutation(t) PROVE Held'
  BY <1>5 DEF BeginMutation, MayMutate
<1>6. ASSUME NEW t \in Threads, Fix(t) \/ NothingFixed(t) PROVE Held'
  BY <1>6 DEF Fix, NothingFixed
<1>7. ASSUME NEW t \in Threads, AskAfterFix(t) PROVE Held'
  BY <1>7 DEF AskAfterFix
<1>8. ASSUME NEW t \in Threads, EndMutation(t) PROVE Held'
  BY <1>8 DEF EndMutation
<1>9. ASSUME NEW t \in Threads, FireRescan(t) PROVE Held'
  BY <1>9 DEF FireRescan, MayFire, wishvars
<1>10. ASSUME NEW t \in Threads, StartWorker(t) PROVE Held'
  BY <1>10 DEF StartWorker
<1>11. ASSUME NEW t \in Threads, StarterFails(t) PROVE Held'
  BY <1>11 DEF StarterFails
<1>12. ASSUME NEW t \in Threads, AdmitRescan(t) PROVE Held'
  BY <1>12 DEF AdmitRescan, SlotFree
<1>13. ASSUME NEW t \in Threads, ClaimRescan(t) PROVE Held'
  BY <1>13 DEF ClaimRescan
<1>14. ASSUME NEW t \in Threads, AskAgain(t) \/ RescanDies(t) PROVE Held'
  BY <1>14 DEF AskAgain, RescanDies
<1>15. CASE ExpirePending \/ OpenWindow \/ CloseWindow \/ UNCHANGED vars
  BY <1>15 DEF ExpirePending, OpenWindow, CloseWindow, vars
<1>16. CASE Restart
  BY <1>16 DEF Restart
<1> QED
  BY <1>1, <1>2, <1>3, <1>4, <1>5, <1>6, <1>7, <1>8, <1>9, <1>10, <1>11, <1>12, <1>13,
     <1>14, <1>15, <1>16
  DEF Next, ScanStep, MutationStep, RescanStep

THEOREM LockInvariant == Spec => []LockInv
BY InitLockInv, LockStep, PTL DEF Spec

(* The variables of PipelineState, its callers' places and the counters    *)
(* keep their types under every method of the class.                       *)
THEOREM TypeCorrect == Spec => []TypeOK
<1>1. LockInv => TypeOK
  BY DEF LockInv
<1> QED
  BY <1>1, LockInvariant, PTL

(* No thread changes the host while a scan looks at it, except the prune   *)
(* of that scan; one scan and one mutation at a time.                      *)
THEOREM ScanExcludesMutation == Spec => []HostIsQuiet
<1>1. LockInv => HostIsQuiet
  <2> SUFFICES ASSUME LockInv PROVE HostIsQuiet
    OBVIOUS
  <2>1. ASSUME NEW t \in Threads, NEW u \in Threads, InScan(t), InMutation(u) PROVE FALSE
    <3>1. owner \in {NoOne, SafePrune}
      BY <2>1 DEF LockInv, ScanHoldsSlot, RunningIsQuiet
    <3>2. owner = u /\ u \in Mutators
      BY <2>1 DEF LockInv, MutationHoldsLock, InMutation
    <3> QED
      BY <3>1, <3>2, Setting
  <2>2. \A t, u \in Threads : InMutation(t) /\ InMutation(u) => t = u
    BY DEF LockInv, MutationHoldsLock
  <2> QED
    BY <2>1, <2>2 DEF HostIsQuiet, LockInv, OneScan
<1> QED
  BY <1>1, LockInvariant, PTL

(* However many fixes ask, one re-scan worker at most is on its way.       *)
THEOREM AtMostOneWorker == Spec => []OneWorker
<1>1. LockInv => OneWorker
  BY DEF LockInv
<1> QED
  BY <1>1, LockInvariant, PTL

----------------------------------------------------------------------------
(* The wish, as long as every thread starts and core is not restarted.     *)

(* A worker that got the slot looks at a host nobody has fixed since, and  *)
(* a mark that is fresh is carried by somebody.                            *)
AdmittedIsFresh == \A t \in Threads : place[t] = "admitted" => ~stale

PendingIsCarried == Undisturbed /\ pending = "fresh" => \E t \in Threads : OnItsWay(t)

WishInv == LockInv /\ WishIsKept /\ AdmittedIsFresh /\ PendingIsCarried

LEMMA InitWishInv == Init => WishInv
<1> SUFFICES ASSUME Init PROVE WishInv
  OBVIOUS
<1>1. LockInv
  BY InitLockInv
<1> QED
  BY <1>1 DEF Init, WishInv, WishIsKept, AdmittedIsFresh, PendingIsCarried

LEMMA WishStep == WishInv /\ [Next]_vars => WishInv'
<1> SUFFICES ASSUME WishInv, [Next]_vars PROVE WishInv'
  OBVIOUS
<1>l. LockInv /\ LockInv'
  BY LockStep DEF WishInv
<1> DEFINE Kept == WishIsKept /\ AdmittedIsFresh /\ PendingIsCarried
<1> SUFFICES Kept'
  BY <1>l DEF WishInv
<1>h. HostIsQuiet
  <2>1. RunningIsQuiet /\ ScanHoldsSlot /\ MutationHoldsLock /\ OneScan
    BY <1>l DEF LockInv
  <2> QED
    BY <2>1, Setting
    DEF HostIsQuiet, RunningIsQuiet, ScanHoldsSlot, MutationHoldsLock, OneScan, InMutation
<1>r. /\ TypeOK /\ PlacesOK /\ OnItsWayIsPending /\ OneWorker
      /\ WishIsKept /\ AdmittedIsFresh /\ PendingIsCarried
  BY <1>l DEF LockInv, WishInv
<1> USE Setting, <1>r
    DEF TypeOK, PlacesOK, OnItsWayIsPending, OneWorker, WishIsKept, AdmittedIsFresh,
        PendingIsCarried, OnItsWay, GoTo, FireThen, RequestRescan, Undisturbed
<1>1. ASSUME NEW t \in Threads, ScanStep(t) PROVE Kept'
  BY <1>1 DEF ScanStep, StartScan, BeginPrune, EndPrune, FinishScan, TakeSlot, ScanPlaces
<1>2. ASSUME NEW t \in Threads, BeginMutation(t) \/ NothingFixed(t) PROVE Kept'
  BY <1>2 DEF BeginMutation, NothingFixed
<1>3. ASSUME NEW t \in Threads, Fix(t) PROVE Kept'
  <2>1. InMutation(t)
    BY <1>3 DEF Fix, InMutation, Firing, ScanPlaces, RescanPlaces
  <2>2. \A u \in Threads : place[u] # "admitted"
    BY <2>1, <1>h DEF HostIsQuiet, InScan, ScanPlaces, MutatePlaces
  <2> QED
    BY <1>3, <2>2 DEF Fix
<1>4. ASSUME NEW t \in Threads, AskAfterFix(t) \/ EndMutation(t) PROVE Kept'
  BY <1>4 DEF AskAfterFix, EndMutation
<1>5. ASSUME NEW t \in Threads, FireRescan(t) PROVE Kept'
  BY <1>5 DEF FireRescan, wishvars
<1>6. ASSUME NEW t \in Threads, StartWorker(t) PROVE Kept'
  BY <1>6 DEF StartWorker
<1>7. ASSUME NEW t \in Threads, StarterFails(t) \/ RescanDies(t) PROVE Kept'
  BY <1>7 DEF StarterFails, RescanDies
<1>8. ASSUME NEW t \in Threads, AdmitRescan(t) PROVE Kept'
  BY <1>8 DEF AdmitRescan
<1>9. ASSUME NEW t \in Threads, ClaimRescan(t) PROVE Kept'
  BY <1>9 DEF ClaimRescan, ScanPlaces, MutatePlaces
<1>10. ASSUME NEW t \in Threads, AskAgain(t) PROVE Kept'
  BY <1>10 DEF AskAgain
<1>11. CASE ExpirePending \/ OpenWindow \/ CloseWindow \/ Restart \/ UNCHANGED vars
  BY <1>11 DEF ExpirePending, OpenWindow, CloseWindow, Restart, vars
<1> QED
  BY <1>1, <1>2, <1>3, <1>4, <1>5, <1>6, <1>7, <1>8, <1>9, <1>10, <1>11
  DEF Next, ScanStep, MutationStep, RescanStep

(* As long as no re-scan thread failed to start or died and core was not   *)
(* restarted, no fix is forgotten: until a scan begins, the wish is        *)
(* recorded, or a worker carries it, or a thread is about to ask.          *)
THEOREM FixIsNeverForgotten == Spec => []WishIsKept
<1>1. WishInv => WishIsKept
  BY DEF WishInv
<1> QED
  BY <1>1, WishStep, InitWishInv, PTL DEF Spec
=============================================================================
