---------------------------- MODULE CanaryProofs ----------------------------
(***************************************************************************)
(* The safety of the canary update and its window, for any number of       *)
(* crashes, raises and plans.  CanaryInv is the inductive invariant.  Two  *)
(* facts carry it: whoever holds the mutation lock excludes every prune    *)
(* but his own (LockIsOf), so a gate that was passed stays passed          *)
(* (GateStillHolds); and from the moment an unknown effect is recorded,    *)
(* either its window is held or the write that holds it comes before       *)
(* anything can prune (UnknownIsHeld).                                     *)
(***************************************************************************)
EXTENDS Canary, TLAPS

Updating == Working \cup {"open", "dispatch", "settle window", "record", "finish", "settle",
                          "settle hold"}
Starting == {"down", "reconcile window", "interrupt"}
Untouched == {"rest", "open", "dispatch", "pull", "pulled", "drift", "deploying", "up"}

LockIsOf ==
  /\ owner = "update" <=> at \in Updating
  /\ owner = "prune" <=> prune = "pruning"
  /\ prune # "no" => scanning
  /\ scanning => at \in {"rest", "over"}

(* Nothing opens or holds a window while a scan that saw none is running.  *)
GateStillHolds == prune # "no" => ~Blocked

(* An execution is active from its start to its end, over every restart.   *)
ActiveWhile ==
  /\ active => at \in Updating \cup Starting
  /\ at \in Updating \cup {"reconcile window"} => active
  /\ step.status = "dispatched" => active

StepFits ==
  /\ at \in {"rest", "open", "dispatch"} => step.status = "pending"
  /\ at \in Working \cup {"settle window"} => step.status = "dispatched"
  /\ at \in {"record", "settle"} => step.status \in {"pending", "dispatched"}
  /\ at \in {"finish", "over", "settle hold", "reconcile window"} =>
       step.status \in {"passed", "failed", "skipped"}
  /\ step.status \in {"pending", "dispatched"} => step.effect = "none"
  /\ step.status = "pending" => step.phase = "none"
  /\ at = "interrupt" => step.status # "dispatched" /\ (active => step.status # "pending")
  /\ at \in {"restore", "rewatch"} => step.phase = "rolling_back"
  /\ at = "settle hold" => step.effect = "unknown"
  /\ at = "dispatch" \/ step.status = "dispatched" \/ step.effect = "unknown" =>
       window.state # "none"

(* Until the service is recreated, or put back, it runs the old image.     *)
ContainerFits ==
  /\ at \in Untouched \/ step.status = "pending" => container = "old" /\ ~moved
  /\ step.phase # "rolling_back" => (moved <=> container # "old")
  /\ at = "watch" => container = "new"
  /\ at = "rewatch" => container = "old"
  /\ at \in {"settle window", "record"} =>
       /\ outcome = "applied" => container = "new" /\ stable = "new"
       /\ outcome = "not_applied" => container = "old" /\ (moved => stable = "old")

OutcomeFits ==
  /\ at \in {"settle window", "record"} => outcome # "none"
  /\ at \in {"settle window", "record"} /\ outcome = "unknown" => step.status = "dispatched"
  /\ at = "record" /\ outcome = "unknown" => cutOff \/ settled \/ (window.state = "open" /\ window.held)

(* No prune can run between the start of an update and its end.            *)
OldIsThere == active \/ step.status = "pending" => "old" \in images

UnknownIsHeld ==
  step.effect = "unknown" /\ ~settled /\ ~cutOff =>
    \/ window.state = "open" /\ window.held
    \/ at \in {"settle hold", "reconcile window"}

CanaryInv ==
  /\ TypeOK
  /\ LockIsOf
  /\ GateStillHolds
  /\ ActiveWhile
  /\ StepFits
  /\ ContainerFits
  /\ OutcomeFits
  /\ OldIsThere
  /\ UnknownIsHeld
  /\ KeptUnlessCutOff
  /\ EffectIsWatched

(* The rows, one field at a time.                                          *)
LEMMA StepFields ==
  ASSUME TypeOK
  PROVE  /\ step.status \in {"pending", "dispatched", "passed", "failed", "skipped"}
         /\ step.effect \in {"none", "applied", "not_applied", "unknown"}
         /\ step.phase \in {"none", "pull_dispatched", "pulled", "deploying", "rolling_back"}
         /\ \A s, p : LET r == [step EXCEPT !.status = s, !.phase = p]
                      IN  r.status = s /\ r.effect = step.effect /\ r.phase = p
         /\ \A p : LET r == [step EXCEPT !.phase = p]
                   IN  r.status = step.status /\ r.effect = step.effect /\ r.phase = p
         /\ \A s, e : LET r == [step EXCEPT !.status = s, !.effect = e]
                      IN  r.status = s /\ r.effect = e /\ r.phase = step.phase
         /\ \A s : LET r == [step EXCEPT !.status = s]
                   IN  r.status = s /\ r.effect = step.effect /\ r.phase = step.phase
BY DEF TypeOK, StepRow

LEMMA WindowFields ==
  ASSUME TypeOK
  PROVE  /\ window.state \in {"none", "open", "closed"} /\ window.held \in BOOLEAN
         /\ window.lapsed \in BOOLEAN
         /\ Held.state = IF window.state = "none" THEN "none" ELSE "open"
         /\ window.state # "none" => Held.held = TRUE
         /\ Held.lapsed = window.lapsed
         /\ Closed.state = IF window.state = "open" THEN "closed" ELSE window.state
         /\ Closed.held = window.held
         /\ Closed.lapsed = window.lapsed
         /\ LET w == [window EXCEPT !.lapsed = TRUE]
            IN  w.state = window.state /\ w.held = window.held /\ w.lapsed = TRUE
BY DEF TypeOK, WindowRow, Held, Closed

LEMMA Places == TypeOK => at \in Updating \cup Starting \cup {"rest", "over"}
BY DEF TypeOK, Updating, Starting

LEMMA PlansCount == TypeOK => plans \in Nat
<1>1. TypeOK => plans \in 0..MaxPlans
  BY DEF TypeOK
<1>2. QED BY <1>1

(* What settle_crashed_execution and _reconcile_canary make of the row.    *)
LEMMA SettledRow ==
  ASSUME TypeOK, SettleStep
  PROVE  /\ at = "settle" /\ step'.phase = step.phase
         /\ step.status = "dispatched" =>
              step'.status = "failed" /\ step'.effect = "unknown" /\ at' = "settle hold"
         /\ step.status # "dispatched" =>
              step'.status = "skipped" /\ step'.effect = step.effect /\ at' = "finish"
<1>1. at = "settle"
  BY DEF SettleStep
<1>2. ASSUME step.status = "dispatched"
      PROVE  /\ step'.status = "failed" /\ step'.effect = "unknown"
             /\ step'.phase = step.phase /\ at' = "settle hold"
  <2>1. step' = [step EXCEPT !.status = "failed", !.effect = "unknown"]
    BY <1>2 DEF SettleStep
  <2>2. at' = "settle hold"
    BY <1>2 DEF SettleStep
  <2>3. step'.status = "failed" /\ step'.effect = "unknown" /\ step'.phase = step.phase
    BY <2>1, StepFields
  <2>4. QED BY <2>2, <2>3
<1>3. ASSUME step.status # "dispatched"
      PROVE  /\ step'.status = "skipped" /\ step'.effect = step.effect
             /\ step'.phase = step.phase /\ at' = "finish"
  <2>1. step' = [step EXCEPT !.status = "skipped"] /\ at' = "finish"
    BY <1>3 DEF SettleStep
  <2>2. QED BY <2>1, StepFields
<1>4. QED BY <1>1, <1>2, <1>3

LEMMA SettledRest ==
  SettleStep => UNCHANGED <<images, container, moved, window, active, outcome, owner, prune,
                            scanning, stable, settled, plans, accidents, cutOff>>
BY DEF SettleStep, host, locks, counters

InFlight == active /\ step.status = "dispatched"
NotBegun == active /\ step.status = "pending"

LEMMA ReconciledRow ==
  ASSUME TypeOK, ReconcileStep
  PROVE  /\ at = "down" /\ step'.phase = step.phase
         /\ InFlight =>
              /\ step'.status = "failed" /\ at' = "reconcile window"
              /\ step'.effect \in {"unknown", "not_applied"}
              /\ step'.effect = "not_applied" =>
                   container = "old" /\ step.phase # "rolling_back"
         /\ NotBegun =>
              step'.status = "skipped" /\ step'.effect = step.effect /\ at' = "interrupt"
         /\ ~InFlight /\ ~NotBegun => UNCHANGED step /\ at' = "interrupt"
<1>1. at = "down"
  BY DEF ReconcileStep
<1>2. ASSUME InFlight
      PROVE  /\ step'.status = "failed" /\ at' = "reconcile window"
             /\ step'.phase = step.phase
             /\ step'.effect \in {"unknown", "not_applied"}
             /\ step'.effect = "not_applied" => container = "old" /\ step.phase # "rolling_back"
  <2>1. PICK readable \in BOOLEAN :
          step' = [step EXCEPT !.status = "failed", !.effect = Reconciled(readable)]
    BY <1>2 DEF ReconcileStep, InFlight
  <2>2. step'.status = "failed" /\ step'.effect = Reconciled(readable) /\ step'.phase = step.phase
    BY <2>1, StepFields
  <2>3. at' = "reconcile window"
    BY <1>2 DEF ReconcileStep, InFlight
  <2>4. QED BY <2>2, <2>3 DEF Reconciled
<1>3. ASSUME NotBegun
      PROVE  /\ step'.status = "skipped" /\ step'.effect = step.effect
             /\ step'.phase = step.phase /\ at' = "interrupt"
  <2>1. step' = [step EXCEPT !.status = "skipped"] /\ at' = "interrupt"
    BY <1>3 DEF ReconcileStep, NotBegun
  <2>2. QED BY <2>1, StepFields
<1>4. ASSUME ~InFlight, ~NotBegun PROVE UNCHANGED step /\ at' = "interrupt"
  BY <1>4 DEF ReconcileStep, InFlight, NotBegun
<1>5. QED BY <1>1, <1>2, <1>3, <1>4

LEMMA ReconciledRest ==
  ReconcileStep => UNCHANGED <<images, container, moved, window, active, outcome, owner, prune,
                               scanning, stable, settled, plans, accidents, cutOff>>
BY DEF ReconcileStep, host, locks, counters

(* The lock is the update's, a scan's prune's, or nobody's.                *)
LEMMA LockIsOfKept ==
  ASSUME TypeOK, LockIsOf, Next
  PROVE  LockIsOf'
<1>1. ASSUME StartUpdate PROVE LockIsOf'
  BY <1>1 DEF StartUpdate, NoOne, host, counters, LockIsOf, Updating, Working, Starting
<1>2. ASSUME RefuseUpdate PROVE LockIsOf'
  BY <1>2 DEF RefuseUpdate, host, locks, counters, LockIsOf, Updating, Working, Starting,
    NoOne
<1>3. ASSUME OpenWindow PROVE LockIsOf'
  BY <1>3, WindowFields DEF OpenWindow, Opened, host, locks, counters, LockIsOf, Updating,
    Working, Starting, NoOne
<1>4. ASSUME Dispatch PROVE LockIsOf'
  BY <1>4, StepFields DEF Dispatch, host, locks, counters, LockIsOf, Updating, Working,
    Starting, NoOne
<1>5. ASSUME Pull PROVE LockIsOf'
  BY <1>5 DEF Pull, Decide, locks, counters, LockIsOf, Updating, Working, Starting, NoOne
<1>6. ASSUME NotePulled PROVE LockIsOf'
  BY <1>6, StepFields DEF NotePulled, host, locks, counters, LockIsOf, Updating, Working,
    Starting, NoOne
<1>7. ASSUME CheckDrift PROVE LockIsOf'
  BY <1>7 DEF CheckDrift, Decide, host, locks, counters, LockIsOf, Updating, Working,
    Starting, NoOne
<1>8. ASSUME NoteDeploying PROVE LockIsOf'
  BY <1>8, StepFields DEF NoteDeploying, host, locks, counters, LockIsOf, Updating,
    Working, Starting, NoOne
<1>9. ASSUME Up PROVE LockIsOf'
  BY <1>9 DEF Up, Recreate, locks, counters, LockIsOf, Updating, Working, Starting, NoOne
<1>10. ASSUME Watch PROVE LockIsOf'
  BY <1>10 DEF Watch, Decide, host, locks, counters, LockIsOf, Updating, Working, Starting,
    NoOne
<1>11. ASSUME NoteRollingBack PROVE LockIsOf'
  BY <1>11, StepFields DEF NoteRollingBack, host, locks, counters, LockIsOf, Updating,
    Working, Starting, NoOne
<1>12. ASSUME Restore PROVE LockIsOf'
  BY <1>12 DEF Restore, Decide, Recreate, locks, counters, LockIsOf, Updating, Working,
    Starting, NoOne
<1>13. ASSUME Rewatch PROVE LockIsOf'
  BY <1>13 DEF Rewatch, Decide, host, locks, counters, LockIsOf, Updating, Working,
    Starting, NoOne
<1>14. ASSUME SettleWindow PROVE LockIsOf'
  BY <1>14, WindowFields DEF SettleWindow, host, locks, counters, LockIsOf, Updating,
    Working, Starting, NoOne
<1>15. ASSUME Record PROVE LockIsOf'
  BY <1>15, StepFields DEF Record, host, locks, counters, LockIsOf, Updating, Working,
    Starting, NoOne
<1>16. ASSUME Finish PROVE LockIsOf'
  BY <1>16 DEF Finish, NoOne, host, counters, LockIsOf, Updating, Working, Starting
<1>17. ASSUME SettleStep PROVE LockIsOf'
  BY <1>17 DEF SettleStep, host, locks, counters, LockIsOf, Updating, Working, Starting,
    NoOne
<1>18. ASSUME SettleHold PROVE LockIsOf'
  BY <1>18, WindowFields DEF SettleHold, host, locks, counters, LockIsOf, Updating,
    Working, Starting, NoOne
<1>19. ASSUME ReconcileStep PROVE LockIsOf'
  BY <1>19 DEF ReconcileStep, host, locks, counters, LockIsOf, Updating, Working, Starting,
    NoOne
<1>20. ASSUME ReconcileWindow PROVE LockIsOf'
  BY <1>20, WindowFields DEF ReconcileWindow, host, locks, counters, LockIsOf, Updating,
    Working, Starting, NoOne
<1>21. ASSUME Interrupt PROVE LockIsOf'
  BY <1>21, StepFields DEF Interrupt, host, locks, counters, LockIsOf, Updating, Working,
    Starting, NoOne
<1>22. ASSUME DispatchRaises PROVE LockIsOf'
  BY <1>22, WindowFields DEF DispatchRaises, Accident, host, locks, LockIsOf, Updating,
    Working, Starting, NoOne
<1>23. ASSUME NoteRaises PROVE LockIsOf'
  BY <1>23 DEF NoteRaises, Decide, Accident, host, locks, LockIsOf, Updating, Working,
    Starting, NoOne
<1>24. ASSUME WindowRaises PROVE LockIsOf'
  BY <1>24 DEF WindowRaises, Accident, host, locks, LockIsOf, Updating, Working, Starting,
    NoOne
<1>25. ASSUME RecordRaises PROVE LockIsOf'
  BY <1>25 DEF RecordRaises, Accident, host, locks, LockIsOf, Updating, Working, Starting,
    NoOne
<1>26. ASSUME Crash PROVE LockIsOf'
  BY <1>26 DEF Crash, Accident, NoOne, host, LockIsOf, Updating, Working, Starting
<1>27. ASSUME StartScan PROVE LockIsOf'
  BY <1>27, Places DEF StartScan, Serving, NoOne, host, counters, LockIsOf, Updating,
    Working, Starting
<1>28. ASSUME EndScan PROVE LockIsOf'
  BY <1>28, Places DEF EndScan, host, counters, LockIsOf, Updating, Working, Starting, NoOne
<1>29. ASSUME PassGate PROVE LockIsOf'
  BY <1>29 DEF PassGate, host, counters, LockIsOf, Updating, Working, Starting, NoOne
<1>30. ASSUME BeginPrune PROVE LockIsOf'
  BY <1>30 DEF BeginPrune, NoOne, host, counters, LockIsOf, Updating, Working, Starting
<1>31. ASSUME Prune PROVE LockIsOf'
  BY <1>31 DEF Prune, Used, NoOne, counters, LockIsOf, Updating, Working, Starting
<1>32. ASSUME PlanPrune \/ SettleByHand \/ Lapse
      PROVE  LockIsOf'
  <2>1. UNCHANGED <<owner, at, prune, scanning>>
    BY <1>32 DEF PlanPrune, SettleByHand, Lapse, host, locks, counters, Decide, Recreate,
      Accident
  <2>2. QED BY <2>1 DEF LockIsOf
<1>33. QED
  BY <1>1, <1>2, <1>3, <1>4, <1>5, <1>6, <1>7, <1>8, <1>9, <1>10, <1>11, <1>12,
     <1>13, <1>14, <1>15, <1>16, <1>17, <1>18, <1>19, <1>20, <1>21, <1>22, <1>23, <1>24,
     <1>25, <1>26, <1>27, <1>28, <1>29, <1>30, <1>31, <1>32 DEF Next, Worker, Startup,
     Raises, ScanStep

(* A window that is open was not seen by the scan that is running.         *)
LEMMA GateStillHoldsKept ==
  ASSUME TypeOK, GateStillHolds, LockIsOf, Next
  PROVE 
         GateStillHolds'
<1>1. ASSUME OpenWindow PROVE GateStillHolds'
  BY <1>1, WindowFields DEF OpenWindow, Opened, host, locks, counters, GateStillHolds,
    LockIsOf, Blocked, Updating, Working, NoOne
<1>2. ASSUME SettleWindow PROVE GateStillHolds'
  BY <1>2, WindowFields DEF SettleWindow, host, locks, counters, GateStillHolds, LockIsOf,
    Blocked, Updating, Working, NoOne
<1>3. ASSUME SettleHold PROVE GateStillHolds'
  BY <1>3, WindowFields DEF SettleHold, host, locks, counters, GateStillHolds, LockIsOf,
    Blocked, Updating, Working, NoOne
<1>4. ASSUME ReconcileWindow PROVE GateStillHolds'
  BY <1>4, WindowFields DEF ReconcileWindow, host, locks, counters, GateStillHolds,
    LockIsOf, Blocked, Updating, Working, NoOne
<1>5. ASSUME DispatchRaises PROVE GateStillHolds'
  BY <1>5, WindowFields DEF DispatchRaises, Accident, host, locks, GateStillHolds,
    LockIsOf, Blocked, Updating, Working, NoOne
<1>6. ASSUME Crash PROVE GateStillHolds'
  BY <1>6 DEF Crash, Accident, NoOne, host, GateStillHolds, LockIsOf, Blocked, Updating,
    Working
<1>7. ASSUME PassGate PROVE GateStillHolds'
  BY <1>7 DEF PassGate, host, counters, GateStillHolds, LockIsOf, Blocked, Updating,
    Working, NoOne
<1>8. ASSUME BeginPrune PROVE GateStillHolds'
  BY <1>8 DEF BeginPrune, NoOne, host, counters, GateStillHolds, LockIsOf, Blocked,
    Updating, Working
<1>9. ASSUME Prune PROVE GateStillHolds'
  BY <1>9 DEF Prune, Used, NoOne, counters, GateStillHolds, LockIsOf, Blocked, Updating,
    Working
<1>10. ASSUME SettleByHand PROVE GateStillHolds'
  BY <1>10, WindowFields DEF SettleByHand, Serving, host, locks, counters, GateStillHolds,
    LockIsOf, Blocked, Updating, Working, NoOne
<1>11. ASSUME Lapse PROVE GateStillHolds'
  BY <1>11, WindowFields DEF Lapse, host, locks, counters, GateStillHolds, LockIsOf,
    Blocked, Updating, Working, NoOne
<1>12. ASSUME StartUpdate \/ RefuseUpdate \/ Dispatch \/ Pull \/ NotePulled \/ CheckDrift
             \/ NoteDeploying \/ Up \/ Watch \/ NoteRollingBack \/ Restore \/ Rewatch \/
             Record \/ Finish \/ SettleStep \/ ReconcileStep \/ Interrupt \/ NoteRaises \/
             WindowRaises \/ RecordRaises \/ StartScan \/ EndScan \/ PlanPrune
      PROVE 
             GateStillHolds'
  <2>1. UNCHANGED <<prune, window>>
    BY <1>12 DEF StartUpdate, RefuseUpdate, Dispatch, Pull, NotePulled, CheckDrift,
      NoteDeploying, Up, Watch, NoteRollingBack, Restore, Rewatch, Record, Finish,
      SettleStep, ReconcileStep, Interrupt, NoteRaises, WindowRaises, RecordRaises,
      StartScan, EndScan, PlanPrune, host, locks, counters, Decide, Recreate, Accident
  <2>2. QED BY <2>1 DEF GateStillHolds, Blocked
<1>13. QED
  BY <1>1, <1>2, <1>3, <1>4, <1>5, <1>6, <1>7, <1>8, <1>9, <1>10, <1>11, <1>12
     DEF Next, Worker, Startup, Raises, ScanStep

(* An execution is active until it has ended, whatever interrupts it.      *)
LEMMA ActiveWhileKept ==
  ASSUME TypeOK, ActiveWhile, StepFits, Next
  PROVE  ActiveWhile'
<1>1. ASSUME StartUpdate PROVE ActiveWhile'
  BY <1>1 DEF StartUpdate, NoOne, host, counters, ActiveWhile, StepFits, Updating,
    Starting, Working
<1>2. ASSUME RefuseUpdate PROVE ActiveWhile'
  BY <1>2 DEF RefuseUpdate, host, locks, counters, ActiveWhile, StepFits, Updating,
    Starting, Working
<1>3. ASSUME OpenWindow PROVE ActiveWhile'
  BY <1>3, WindowFields DEF OpenWindow, Opened, host, locks, counters, ActiveWhile,
    StepFits, Updating, Starting, Working
<1>4. ASSUME Dispatch PROVE ActiveWhile'
  BY <1>4, StepFields DEF Dispatch, host, locks, counters, ActiveWhile, StepFits, Updating,
    Starting, Working
<1>5. ASSUME Pull PROVE ActiveWhile'
  BY <1>5 DEF Pull, Decide, locks, counters, ActiveWhile, StepFits, Updating, Starting,
    Working
<1>6. ASSUME NotePulled PROVE ActiveWhile'
  BY <1>6, StepFields DEF NotePulled, host, locks, counters, ActiveWhile, StepFits,
    Updating, Starting, Working
<1>7. ASSUME CheckDrift PROVE ActiveWhile'
  BY <1>7 DEF CheckDrift, Decide, host, locks, counters, ActiveWhile, StepFits, Updating,
    Starting, Working
<1>8. ASSUME NoteDeploying PROVE ActiveWhile'
  BY <1>8, StepFields DEF NoteDeploying, host, locks, counters, ActiveWhile, StepFits,
    Updating, Starting, Working
<1>9. ASSUME Up PROVE ActiveWhile'
  BY <1>9 DEF Up, Recreate, locks, counters, ActiveWhile, StepFits, Updating, Starting,
    Working
<1>10. ASSUME Watch PROVE ActiveWhile'
  BY <1>10 DEF Watch, Decide, host, locks, counters, ActiveWhile, StepFits, Updating,
    Starting, Working
<1>11. ASSUME NoteRollingBack PROVE ActiveWhile'
  BY <1>11, StepFields DEF NoteRollingBack, host, locks, counters, ActiveWhile, StepFits,
    Updating, Starting, Working
<1>12. ASSUME Restore PROVE ActiveWhile'
  BY <1>12 DEF Restore, Decide, Recreate, locks, counters, ActiveWhile, StepFits, Updating,
    Starting, Working
<1>13. ASSUME Rewatch PROVE ActiveWhile'
  BY <1>13 DEF Rewatch, Decide, host, locks, counters, ActiveWhile, StepFits, Updating,
    Starting, Working
<1>14. ASSUME SettleWindow PROVE ActiveWhile'
  BY <1>14, WindowFields DEF SettleWindow, host, locks, counters, ActiveWhile, StepFits,
    Updating, Starting, Working
<1>15. ASSUME Record PROVE ActiveWhile'
  BY <1>15, StepFields DEF Record, host, locks, counters, ActiveWhile, StepFits, Updating,
    Starting, Working
<1>16. ASSUME Finish PROVE ActiveWhile'
  BY <1>16 DEF Finish, NoOne, host, counters, ActiveWhile, StepFits, Updating, Starting,
    Working
<1>17. ASSUME SettleStep PROVE ActiveWhile'
  <2>1. CASE step.status = "dispatched"
    BY <1>17, <2>1, SettledRow, SettledRest, StepFields DEF ActiveWhile, StepFits,
      Updating, Starting, Working
  <2>2. CASE step.status # "dispatched"
    BY <1>17, <2>2, SettledRow, SettledRest, StepFields DEF ActiveWhile, StepFits,
      Updating, Starting, Working
  <2>3. QED BY <2>1, <2>2
<1>18. ASSUME SettleHold PROVE ActiveWhile'
  BY <1>18, WindowFields DEF SettleHold, host, locks, counters, ActiveWhile, StepFits,
    Updating, Starting, Working
<1>19. ASSUME ReconcileStep PROVE ActiveWhile'
  <2>1. CASE InFlight
    BY <1>19, <2>1, ReconciledRow, ReconciledRest, StepFields DEF InFlight, NotBegun,
      ActiveWhile, StepFits, Updating, Starting, Working
  <2>2. CASE NotBegun
    BY <1>19, <2>2, ReconciledRow, ReconciledRest, StepFields DEF InFlight, NotBegun,
      ActiveWhile, StepFits, Updating, Starting, Working
  <2>3. CASE ~InFlight /\ ~NotBegun
    BY <1>19, <2>3, ReconciledRow, ReconciledRest, StepFields DEF InFlight, NotBegun,
      ActiveWhile, StepFits, Updating, Starting, Working
  <2>4. QED BY <2>1, <2>2, <2>3
<1>20. ASSUME ReconcileWindow PROVE ActiveWhile'
  BY <1>20, WindowFields DEF ReconcileWindow, host, locks, counters, ActiveWhile, StepFits,
    Updating, Starting, Working
<1>21. ASSUME Interrupt PROVE ActiveWhile'
  BY <1>21, StepFields DEF Interrupt, host, locks, counters, ActiveWhile, StepFits,
    Updating, Starting, Working
<1>22. ASSUME DispatchRaises PROVE ActiveWhile'
  BY <1>22, WindowFields DEF DispatchRaises, Accident, host, locks, ActiveWhile, StepFits,
    Updating, Starting, Working
<1>23. ASSUME NoteRaises PROVE ActiveWhile'
  BY <1>23 DEF NoteRaises, Decide, Accident, host, locks, ActiveWhile, StepFits, Updating,
    Starting, Working
<1>24. ASSUME WindowRaises PROVE ActiveWhile'
  BY <1>24 DEF WindowRaises, Accident, host, locks, ActiveWhile, StepFits, Updating,
    Starting, Working
<1>25. ASSUME RecordRaises PROVE ActiveWhile'
  BY <1>25 DEF RecordRaises, Accident, host, locks, ActiveWhile, StepFits, Updating,
    Starting, Working
<1>26. ASSUME Crash PROVE ActiveWhile'
  BY <1>26 DEF Crash, Accident, NoOne, host, ActiveWhile, StepFits, Updating, Starting,
    Working
<1>27. ASSUME StartScan \/ EndScan \/ PassGate \/ BeginPrune \/ Prune \/ PlanPrune \/
             SettleByHand \/ Lapse
      PROVE  ActiveWhile'
  <2>1. UNCHANGED <<active, at, step>>
    BY <1>27 DEF StartScan, EndScan, PassGate, BeginPrune, Prune, PlanPrune, SettleByHand,
      Lapse, host, locks, counters, Decide, Recreate, Accident
  <2>2. QED BY <2>1 DEF ActiveWhile
<1>28. QED
  BY <1>1, <1>2, <1>3, <1>4, <1>5, <1>6, <1>7, <1>8, <1>9, <1>10, <1>11, <1>12,
     <1>13, <1>14, <1>15, <1>16, <1>17, <1>18, <1>19, <1>20, <1>21, <1>22, <1>23, <1>24,
     <1>25, <1>26, <1>27 DEF Next, Worker, Startup, Raises, ScanStep

(* The step's row follows its worker, and the startup after a crash.       *)
LEMMA StepFitsKept ==
  ASSUME TypeOK, StepFits, ActiveWhile, OutcomeFits, Next
  PROVE 
         StepFits'
<1>1. ASSUME StartUpdate PROVE StepFits'
  BY <1>1 DEF StartUpdate, NoOne, host, counters, StepFits, ActiveWhile, OutcomeFits,
    Updating, Starting, Working
<1>2. ASSUME RefuseUpdate PROVE StepFits'
  BY <1>2 DEF RefuseUpdate, host, locks, counters, StepFits, ActiveWhile, OutcomeFits,
    Updating, Starting, Working
<1>3. ASSUME OpenWindow PROVE StepFits'
  BY <1>3, WindowFields DEF OpenWindow, Opened, host, locks, counters, StepFits,
    ActiveWhile, OutcomeFits, Updating, Starting, Working
<1>4. ASSUME Dispatch PROVE StepFits'
  BY <1>4, StepFields DEF Dispatch, host, locks, counters, StepFits, ActiveWhile,
    OutcomeFits, Updating, Starting, Working
<1>5. ASSUME Pull PROVE StepFits'
  BY <1>5 DEF Pull, Decide, locks, counters, StepFits, ActiveWhile, OutcomeFits, Updating,
    Starting, Working
<1>6. ASSUME NotePulled PROVE StepFits'
  BY <1>6, StepFields DEF NotePulled, host, locks, counters, StepFits, ActiveWhile,
    OutcomeFits, Updating, Starting, Working
<1>7. ASSUME CheckDrift PROVE StepFits'
  BY <1>7 DEF CheckDrift, Decide, host, locks, counters, StepFits, ActiveWhile,
    OutcomeFits, Updating, Starting, Working
<1>8. ASSUME NoteDeploying PROVE StepFits'
  BY <1>8, StepFields DEF NoteDeploying, host, locks, counters, StepFits, ActiveWhile,
    OutcomeFits, Updating, Starting, Working
<1>9. ASSUME Up PROVE StepFits'
  BY <1>9 DEF Up, Recreate, locks, counters, StepFits, ActiveWhile, OutcomeFits, Updating,
    Starting, Working
<1>10. ASSUME Watch PROVE StepFits'
  BY <1>10 DEF Watch, Decide, host, locks, counters, StepFits, ActiveWhile, OutcomeFits,
    Updating, Starting, Working
<1>11. ASSUME NoteRollingBack PROVE StepFits'
  BY <1>11, StepFields DEF NoteRollingBack, host, locks, counters, StepFits, ActiveWhile,
    OutcomeFits, Updating, Starting, Working
<1>12. ASSUME Restore PROVE StepFits'
  BY <1>12 DEF Restore, Decide, Recreate, locks, counters, StepFits, ActiveWhile,
    OutcomeFits, Updating, Starting, Working
<1>13. ASSUME Rewatch PROVE StepFits'
  BY <1>13 DEF Rewatch, Decide, host, locks, counters, StepFits, ActiveWhile, OutcomeFits,
    Updating, Starting, Working
<1>14. ASSUME SettleWindow PROVE StepFits'
  BY <1>14, WindowFields DEF SettleWindow, host, locks, counters, StepFits, ActiveWhile,
    OutcomeFits, Updating, Starting, Working
<1>15. ASSUME Record PROVE StepFits'
  BY <1>15, StepFields DEF Record, host, locks, counters, StepFits, ActiveWhile,
    OutcomeFits, Updating, Starting, Working
<1>16. ASSUME Finish PROVE StepFits'
  BY <1>16 DEF Finish, NoOne, host, counters, StepFits, ActiveWhile, OutcomeFits, Updating,
    Starting, Working
<1>17. ASSUME SettleStep PROVE StepFits'
  <2>1. CASE step.status = "dispatched"
    BY <1>17, <2>1, SettledRow, SettledRest DEF StepFits, ActiveWhile, OutcomeFits,
      Updating, Starting, Working
  <2>2. CASE step.status # "dispatched"
    BY <1>17, <2>2, SettledRow, SettledRest DEF StepFits, ActiveWhile, OutcomeFits,
      Updating, Starting, Working
  <2>3. QED BY <2>1, <2>2
<1>18. ASSUME SettleHold PROVE StepFits'
  BY <1>18, WindowFields DEF SettleHold, host, locks, counters, StepFits, ActiveWhile,
    OutcomeFits, Updating, Starting, Working
<1>19. ASSUME ReconcileStep PROVE StepFits'
  <2>1. CASE InFlight
    BY <1>19, <2>1, ReconciledRow, ReconciledRest DEF InFlight, NotBegun, StepFits,
      ActiveWhile, OutcomeFits, Updating, Starting, Working
  <2>2. CASE NotBegun
    BY <1>19, <2>2, ReconciledRow, ReconciledRest DEF InFlight, NotBegun, StepFits,
      ActiveWhile, OutcomeFits, Updating, Starting, Working
  <2>3. CASE ~InFlight /\ ~NotBegun
    BY <1>19, <2>3, ReconciledRow, ReconciledRest DEF InFlight, NotBegun, StepFits,
      ActiveWhile, OutcomeFits, Updating, Starting, Working
  <2>4. QED BY <2>1, <2>2, <2>3
<1>20. ASSUME ReconcileWindow PROVE StepFits'
  BY <1>20, WindowFields DEF ReconcileWindow, host, locks, counters, StepFits, ActiveWhile,
    OutcomeFits, Updating, Starting, Working
<1>21. ASSUME Interrupt PROVE StepFits'
  BY <1>21, StepFields DEF Interrupt, host, locks, counters, StepFits, ActiveWhile,
    OutcomeFits, Updating, Starting, Working
<1>22. ASSUME DispatchRaises PROVE StepFits'
  BY <1>22, WindowFields DEF DispatchRaises, Accident, host, locks, StepFits, ActiveWhile,
    OutcomeFits, Updating, Starting, Working
<1>23. ASSUME NoteRaises PROVE StepFits'
  BY <1>23 DEF NoteRaises, Decide, Accident, host, locks, StepFits, ActiveWhile,
    OutcomeFits, Updating, Starting, Working
<1>24. ASSUME WindowRaises PROVE StepFits'
  BY <1>24 DEF WindowRaises, Accident, host, locks, StepFits, ActiveWhile, OutcomeFits,
    Updating, Starting, Working
<1>25. ASSUME RecordRaises PROVE StepFits'
  BY <1>25 DEF RecordRaises, Accident, host, locks, StepFits, ActiveWhile, OutcomeFits,
    Updating, Starting, Working
<1>26. ASSUME Crash PROVE StepFits'
  BY <1>26 DEF Crash, Accident, NoOne, host, StepFits, ActiveWhile, OutcomeFits, Updating,
    Starting, Working
<1>27. ASSUME SettleByHand PROVE StepFits'
  BY <1>27, WindowFields DEF SettleByHand, Serving, host, locks, counters, StepFits,
    ActiveWhile, OutcomeFits, Updating, Starting, Working
<1>28. ASSUME Lapse PROVE StepFits'
  BY <1>28, WindowFields DEF Lapse, host, locks, counters, StepFits, ActiveWhile,
    OutcomeFits, Updating, Starting, Working
<1>29. ASSUME StartScan \/ EndScan \/ PassGate \/ BeginPrune \/ Prune \/ PlanPrune
     
             PROVE  StepFits'
  <2>1. UNCHANGED <<at, step, active, window>>
    BY <1>29 DEF StartScan, EndScan, PassGate, BeginPrune, Prune, PlanPrune, host, locks,
      counters, Decide, Recreate, Accident
  <2>2. QED BY <2>1 DEF StepFits
<1>30. QED
  BY <1>1, <1>2, <1>3, <1>4, <1>5, <1>6, <1>7, <1>8, <1>9, <1>10, <1>11, <1>12,
     <1>13, <1>14, <1>15, <1>16, <1>17, <1>18, <1>19, <1>20, <1>21, <1>22, <1>23, <1>24,
     <1>25, <1>26, <1>27, <1>28, <1>29 DEF Next, Worker, Startup, Raises, ScanStep

(* Only the recreation and its inverse change what the service runs.       *)
LEMMA ContainerFitsKept ==
  ASSUME TypeOK, ContainerFits, StepFits, OutcomeFits, Next
 
         PROVE  ContainerFits'
<1>1. ASSUME StartUpdate PROVE ContainerFits'
  BY <1>1 DEF StartUpdate, NoOne, host, counters, ContainerFits, StepFits, OutcomeFits,
    Untouched, Working
<1>2. ASSUME RefuseUpdate PROVE ContainerFits'
  BY <1>2 DEF RefuseUpdate, host, locks, counters, ContainerFits, StepFits, OutcomeFits,
    Untouched, Working
<1>3. ASSUME OpenWindow PROVE ContainerFits'
  BY <1>3, WindowFields DEF OpenWindow, Opened, host, locks, counters, ContainerFits,
    StepFits, OutcomeFits, Untouched, Working
<1>4. ASSUME Dispatch PROVE ContainerFits'
  BY <1>4, StepFields DEF Dispatch, host, locks, counters, ContainerFits, StepFits,
    OutcomeFits, Untouched, Working
<1>5. ASSUME Pull PROVE ContainerFits'
  BY <1>5 DEF Pull, Decide, locks, counters, ContainerFits, StepFits, OutcomeFits,
    Untouched, Working
<1>6. ASSUME NotePulled PROVE ContainerFits'
  BY <1>6, StepFields DEF NotePulled, host, locks, counters, ContainerFits, StepFits,
    OutcomeFits, Untouched, Working
<1>7. ASSUME CheckDrift PROVE ContainerFits'
  BY <1>7 DEF CheckDrift, Decide, host, locks, counters, ContainerFits, StepFits,
    OutcomeFits, Untouched, Working
<1>8. ASSUME NoteDeploying PROVE ContainerFits'
  BY <1>8, StepFields DEF NoteDeploying, host, locks, counters, ContainerFits, StepFits,
    OutcomeFits, Untouched, Working
<1>9. ASSUME Up PROVE ContainerFits'
  BY <1>9 DEF Up, Recreate, locks, counters, ContainerFits, StepFits, OutcomeFits,
    Untouched, Working
<1>10. ASSUME Watch PROVE ContainerFits'
  BY <1>10 DEF Watch, Decide, host, locks, counters, ContainerFits, StepFits, OutcomeFits,
    Untouched, Working
<1>11. ASSUME NoteRollingBack PROVE ContainerFits'
  BY <1>11, StepFields DEF NoteRollingBack, host, locks, counters, ContainerFits, StepFits,
    OutcomeFits, Untouched, Working
<1>12. ASSUME Restore PROVE ContainerFits'
  BY <1>12 DEF Restore, Decide, Recreate, locks, counters, ContainerFits, StepFits,
    OutcomeFits, Untouched, Working
<1>13. ASSUME Rewatch PROVE ContainerFits'
  BY <1>13 DEF Rewatch, Decide, host, locks, counters, ContainerFits, StepFits,
    OutcomeFits, Untouched, Working
<1>14. ASSUME SettleWindow PROVE ContainerFits'
  BY <1>14, WindowFields DEF SettleWindow, host, locks, counters, ContainerFits, StepFits,
    OutcomeFits, Untouched, Working
<1>15. ASSUME Record PROVE ContainerFits'
  BY <1>15, StepFields DEF Record, host, locks, counters, ContainerFits, StepFits,
    OutcomeFits, Untouched, Working
<1>16. ASSUME Finish PROVE ContainerFits'
  BY <1>16 DEF Finish, NoOne, host, counters, ContainerFits, StepFits, OutcomeFits,
    Untouched, Working
<1>17. ASSUME SettleStep PROVE ContainerFits'
  <2>1. CASE step.status = "dispatched"
    <3>1. step'.status # "pending" /\ step'.phase = step.phase /\ at' = "settle hold"
      BY <1>17, <2>1, SettledRow
    <3>2. UNCHANGED <<container, moved, outcome, stable>>
      BY <1>17, SettledRest
    <3>3. QED BY <3>1, <3>2 DEF ContainerFits, Untouched
  <2>2. CASE step.status # "dispatched"
    BY <1>17, <2>2, SettledRow, SettledRest DEF ContainerFits, StepFits, OutcomeFits,
      Untouched, Working
  <2>3. QED BY <2>1, <2>2
<1>18. ASSUME SettleHold PROVE ContainerFits'
  BY <1>18, WindowFields DEF SettleHold, host, locks, counters, ContainerFits, StepFits,
    OutcomeFits, Untouched, Working
<1>19. ASSUME ReconcileStep PROVE ContainerFits'
  <2>1. CASE InFlight
    <3>1. /\ step'.status # "pending" /\ step'.phase = step.phase
          /\ at' = "reconcile window"
      BY <1>19, <2>1, ReconciledRow
    <3>2. UNCHANGED <<container, moved, outcome, stable>>
      BY <1>19, ReconciledRest
    <3>3. QED BY <3>1, <3>2 DEF ContainerFits, Untouched
  <2>2. CASE NotBegun
    BY <1>19, <2>2, ReconciledRow, ReconciledRest DEF InFlight, NotBegun, ContainerFits,
      StepFits, OutcomeFits, Untouched, Working
  <2>3. CASE ~InFlight /\ ~NotBegun
    BY <1>19, <2>3, ReconciledRow, ReconciledRest DEF InFlight, NotBegun, ContainerFits,
      StepFits, OutcomeFits, Untouched, Working
  <2>4. QED BY <2>1, <2>2, <2>3
<1>20. ASSUME ReconcileWindow PROVE ContainerFits'
  BY <1>20, WindowFields DEF ReconcileWindow, host, locks, counters, ContainerFits,
    StepFits, OutcomeFits, Untouched, Working
<1>21. ASSUME Interrupt PROVE ContainerFits'
  BY <1>21, StepFields DEF Interrupt, host, locks, counters, ContainerFits, StepFits,
    OutcomeFits, Untouched, Working
<1>22. ASSUME DispatchRaises PROVE ContainerFits'
  BY <1>22, WindowFields DEF DispatchRaises, Accident, host, locks, ContainerFits,
    StepFits, OutcomeFits, Untouched, Working
<1>23. ASSUME NoteRaises PROVE ContainerFits'
  BY <1>23 DEF NoteRaises, Decide, Accident, host, locks, ContainerFits, StepFits,
    OutcomeFits, Untouched, Working
<1>24. ASSUME WindowRaises PROVE ContainerFits'
  BY <1>24 DEF WindowRaises, Accident, host, locks, ContainerFits, StepFits, OutcomeFits,
    Untouched, Working
<1>25. ASSUME RecordRaises PROVE ContainerFits'
  BY <1>25 DEF RecordRaises, Accident, host, locks, ContainerFits, StepFits, OutcomeFits,
    Untouched, Working
<1>26. ASSUME Crash PROVE ContainerFits'
  BY <1>26 DEF Crash, Accident, NoOne, host, ContainerFits, StepFits, OutcomeFits,
    Untouched, Working
<1>27. ASSUME StartScan \/ EndScan \/ PassGate \/ BeginPrune \/ Prune \/ PlanPrune \/
             SettleByHand \/ Lapse
      PROVE  ContainerFits'
  <2>1. UNCHANGED <<at, step, container, moved, outcome, stable>>
    BY <1>27 DEF StartScan, EndScan, PassGate, BeginPrune, Prune, PlanPrune, SettleByHand,
      Lapse, host, locks, counters, Decide, Recreate, Accident
  <2>2. QED BY <2>1 DEF ContainerFits
<1>28. QED
  BY <1>1, <1>2, <1>3, <1>4, <1>5, <1>6, <1>7, <1>8, <1>9, <1>10, <1>11, <1>12,
     <1>13, <1>14, <1>15, <1>16, <1>17, <1>18, <1>19, <1>20, <1>21, <1>22, <1>23, <1>24,
     <1>25, <1>26, <1>27 DEF Next, Worker, Startup, Raises, ScanStep

(* An outcome that was decided reaches the window before the row.          *)
LEMMA OutcomeFitsKept ==
  ASSUME TypeOK, OutcomeFits, StepFits, Next
  PROVE  OutcomeFits'
<1>1. ASSUME StartUpdate PROVE OutcomeFits'
  BY <1>1 DEF StartUpdate, NoOne, host, counters, OutcomeFits, StepFits, Working
<1>2. ASSUME RefuseUpdate PROVE OutcomeFits'
  BY <1>2 DEF RefuseUpdate, host, locks, counters, OutcomeFits, StepFits, Working
<1>3. ASSUME OpenWindow PROVE OutcomeFits'
  BY <1>3, WindowFields DEF OpenWindow, Opened, host, locks, counters, OutcomeFits,
    StepFits, Working
<1>4. ASSUME Dispatch PROVE OutcomeFits'
  BY <1>4, StepFields DEF Dispatch, host, locks, counters, OutcomeFits, StepFits, Working
<1>5. ASSUME Pull PROVE OutcomeFits'
  BY <1>5 DEF Pull, Decide, locks, counters, OutcomeFits, StepFits, Working
<1>6. ASSUME NotePulled PROVE OutcomeFits'
  BY <1>6, StepFields DEF NotePulled, host, locks, counters, OutcomeFits, StepFits, Working
<1>7. ASSUME CheckDrift PROVE OutcomeFits'
  BY <1>7 DEF CheckDrift, Decide, host, locks, counters, OutcomeFits, StepFits, Working
<1>8. ASSUME NoteDeploying PROVE OutcomeFits'
  BY <1>8, StepFields DEF NoteDeploying, host, locks, counters, OutcomeFits, StepFits,
    Working
<1>9. ASSUME Up PROVE OutcomeFits'
  BY <1>9 DEF Up, Recreate, locks, counters, OutcomeFits, StepFits, Working
<1>10. ASSUME Watch PROVE OutcomeFits'
  BY <1>10 DEF Watch, Decide, host, locks, counters, OutcomeFits, StepFits, Working
<1>11. ASSUME NoteRollingBack PROVE OutcomeFits'
  BY <1>11, StepFields DEF NoteRollingBack, host, locks, counters, OutcomeFits, StepFits,
    Working
<1>12. ASSUME Restore PROVE OutcomeFits'
  BY <1>12 DEF Restore, Decide, Recreate, locks, counters, OutcomeFits, StepFits, Working
<1>13. ASSUME Rewatch PROVE OutcomeFits'
  BY <1>13 DEF Rewatch, Decide, host, locks, counters, OutcomeFits, StepFits, Working
<1>14. ASSUME SettleWindow PROVE OutcomeFits'
  BY <1>14, WindowFields DEF SettleWindow, host, locks, counters, OutcomeFits, StepFits,
    Working
<1>15. ASSUME Record PROVE OutcomeFits'
  BY <1>15, StepFields DEF Record, host, locks, counters, OutcomeFits, StepFits, Working
<1>16. ASSUME Finish PROVE OutcomeFits'
  BY <1>16 DEF Finish, NoOne, host, counters, OutcomeFits, StepFits, Working
<1>17. ASSUME SettleStep PROVE OutcomeFits'
  <2>1. CASE step.status = "dispatched"
    BY <1>17, <2>1, SettledRow, SettledRest, StepFields DEF OutcomeFits, StepFits, Working
  <2>2. CASE step.status # "dispatched"
    BY <1>17, <2>2, SettledRow, SettledRest, StepFields DEF OutcomeFits, StepFits, Working
  <2>3. QED BY <2>1, <2>2
<1>18. ASSUME SettleHold PROVE OutcomeFits'
  BY <1>18, WindowFields DEF SettleHold, host, locks, counters, OutcomeFits, StepFits,
    Working
<1>19. ASSUME ReconcileStep PROVE OutcomeFits'
  <2>1. CASE InFlight
    BY <1>19, <2>1, ReconciledRow, ReconciledRest, StepFields DEF InFlight, NotBegun,
      OutcomeFits, StepFits, Working
  <2>2. CASE NotBegun
    BY <1>19, <2>2, ReconciledRow, ReconciledRest, StepFields DEF InFlight, NotBegun,
      OutcomeFits, StepFits, Working
  <2>3. CASE ~InFlight /\ ~NotBegun
    BY <1>19, <2>3, ReconciledRow, ReconciledRest, StepFields DEF InFlight, NotBegun,
      OutcomeFits, StepFits, Working
  <2>4. QED BY <2>1, <2>2, <2>3
<1>20. ASSUME ReconcileWindow PROVE OutcomeFits'
  BY <1>20, WindowFields DEF ReconcileWindow, host, locks, counters, OutcomeFits, StepFits,
    Working
<1>21. ASSUME Interrupt PROVE OutcomeFits'
  BY <1>21, StepFields DEF Interrupt, host, locks, counters, OutcomeFits, StepFits, Working
<1>22. ASSUME DispatchRaises PROVE OutcomeFits'
  BY <1>22, WindowFields DEF DispatchRaises, Accident, host, locks, OutcomeFits, StepFits,
    Working
<1>23. ASSUME NoteRaises PROVE OutcomeFits'
  BY <1>23 DEF NoteRaises, Decide, Accident, host, locks, OutcomeFits, StepFits, Working
<1>24. ASSUME WindowRaises PROVE OutcomeFits'
  BY <1>24 DEF WindowRaises, Accident, host, locks, OutcomeFits, StepFits, Working
<1>25. ASSUME RecordRaises PROVE OutcomeFits'
  BY <1>25 DEF RecordRaises, Accident, host, locks, OutcomeFits, StepFits, Working
<1>26. ASSUME Crash PROVE OutcomeFits'
  BY <1>26 DEF Crash, Accident, NoOne, host, OutcomeFits, StepFits, Working
<1>27. ASSUME SettleByHand PROVE OutcomeFits'
  BY <1>27, WindowFields DEF SettleByHand, Serving, host, locks, counters, OutcomeFits,
    StepFits, Working
<1>28. ASSUME Lapse PROVE OutcomeFits'
  BY <1>28, WindowFields DEF Lapse, host, locks, counters, OutcomeFits, StepFits, Working
<1>29. ASSUME StartScan \/ EndScan \/ PassGate \/ BeginPrune \/ Prune \/ PlanPrune
     
             PROVE  OutcomeFits'
  <2>1. UNCHANGED <<at, outcome, step, window, settled, cutOff>>
    BY <1>29 DEF StartScan, EndScan, PassGate, BeginPrune, Prune, PlanPrune, host, locks,
      counters, Decide, Recreate, Accident
  <2>2. QED BY <2>1 DEF OutcomeFits
<1>30. QED
  BY <1>1, <1>2, <1>3, <1>4, <1>5, <1>6, <1>7, <1>8, <1>9, <1>10, <1>11, <1>12,
     <1>13, <1>14, <1>15, <1>16, <1>17, <1>18, <1>19, <1>20, <1>21, <1>22, <1>23, <1>24,
     <1>25, <1>26, <1>27, <1>28, <1>29 DEF Next, Worker, Startup, Raises, ScanStep

(* The old image survives the update, for no prune runs beside it.         *)
LEMMA OldIsThereKept ==
  ASSUME TypeOK, OldIsThere, ActiveWhile, StepFits, LockIsOf,
         ContainerFits, Next
  PROVE  OldIsThere'
<1>1. ASSUME StartUpdate PROVE OldIsThere'
  BY <1>1 DEF StartUpdate, NoOne, host, counters, OldIsThere, ActiveWhile, StepFits,
    LockIsOf, ContainerFits, Updating, Starting, Working
<1>2. ASSUME Dispatch PROVE OldIsThere'
  BY <1>2, StepFields DEF Dispatch, host, locks, counters, OldIsThere, ActiveWhile,
    StepFits, LockIsOf, ContainerFits, Updating, Starting, Working, NoOne
<1>3. ASSUME Pull PROVE OldIsThere'
  BY <1>3 DEF Pull, Decide, locks, counters, OldIsThere, ActiveWhile, StepFits, LockIsOf,
    ContainerFits, Updating, Starting, Working, NoOne
<1>4. ASSUME NotePulled PROVE OldIsThere'
  BY <1>4, StepFields DEF NotePulled, host, locks, counters, OldIsThere, ActiveWhile,
    StepFits, LockIsOf, ContainerFits, Updating, Starting, Working, NoOne
<1>5. ASSUME NoteDeploying PROVE OldIsThere'
  BY <1>5, StepFields DEF NoteDeploying, host, locks, counters, OldIsThere, ActiveWhile,
    StepFits, LockIsOf, ContainerFits, Updating, Starting, Working, NoOne
<1>6. ASSUME NoteRollingBack PROVE OldIsThere'
  BY <1>6, StepFields DEF NoteRollingBack, host, locks, counters, OldIsThere, ActiveWhile,
    StepFits, LockIsOf, ContainerFits, Updating, Starting, Working, NoOne
<1>7. ASSUME Record PROVE OldIsThere'
  BY <1>7, StepFields DEF Record, host, locks, counters, OldIsThere, ActiveWhile, StepFits,
    LockIsOf, ContainerFits, Updating, Starting, Working, NoOne
<1>8. ASSUME Finish PROVE OldIsThere'
  BY <1>8 DEF Finish, NoOne, host, counters, OldIsThere, ActiveWhile, StepFits, LockIsOf,
    ContainerFits, Updating, Starting, Working
<1>9. ASSUME SettleStep PROVE OldIsThere'
  <2>1. CASE step.status = "dispatched"
    BY <1>9, <2>1, SettledRow, SettledRest, StepFields DEF OldIsThere, ActiveWhile,
      StepFits, LockIsOf, ContainerFits, Updating, Starting, Working, NoOne
  <2>2. CASE step.status # "dispatched"
    BY <1>9, <2>2, SettledRow, SettledRest, StepFields DEF OldIsThere, ActiveWhile,
      StepFits, LockIsOf, ContainerFits, Updating, Starting, Working, NoOne
  <2>3. QED BY <2>1, <2>2
<1>10. ASSUME ReconcileStep PROVE OldIsThere'
  <2>1. CASE InFlight
    BY <1>10, <2>1, ReconciledRow, ReconciledRest, StepFields DEF InFlight, NotBegun,
      OldIsThere, ActiveWhile, StepFits, LockIsOf, ContainerFits, Updating, Starting,
      Working, NoOne
  <2>2. CASE NotBegun
    BY <1>10, <2>2, ReconciledRow, ReconciledRest, StepFields DEF InFlight, NotBegun,
      OldIsThere, ActiveWhile, StepFits, LockIsOf, ContainerFits, Updating, Starting,
      Working, NoOne
  <2>3. CASE ~InFlight /\ ~NotBegun
    BY <1>10, <2>3, ReconciledRow, ReconciledRest, StepFields DEF InFlight, NotBegun,
      OldIsThere, ActiveWhile, StepFits, LockIsOf, ContainerFits, Updating, Starting,
      Working, NoOne
  <2>4. QED BY <2>1, <2>2, <2>3
<1>11. ASSUME Interrupt PROVE OldIsThere'
  BY <1>11, StepFields DEF Interrupt, host, locks, counters, OldIsThere, ActiveWhile,
    StepFits, LockIsOf, ContainerFits, Updating, Starting, Working, NoOne
<1>12. ASSUME Prune PROVE OldIsThere'
  BY <1>12 DEF Prune, Used, NoOne, counters, OldIsThere, ActiveWhile, StepFits, LockIsOf,
    ContainerFits, Updating, Starting, Working
<1>13. ASSUME PlanPrune PROVE OldIsThere'
  BY <1>13, PlansCount DEF PlanPrune, Serving, Used, NoOne, locks, OldIsThere, ActiveWhile,
    StepFits, LockIsOf, ContainerFits, Updating, Starting, Working
<1>14. ASSUME RefuseUpdate \/ OpenWindow \/ CheckDrift \/ Up \/ Watch \/ Restore \/ Rewatch
             \/ SettleWindow \/ SettleHold \/ ReconcileWindow \/ DispatchRaises \/
             NoteRaises \/ WindowRaises \/ RecordRaises \/ Crash \/ StartScan \/ EndScan \/
             PassGate \/ BeginPrune \/ SettleByHand \/ Lapse
      PROVE  OldIsThere'
  <2>1. UNCHANGED <<active, step, images>>
    BY <1>14 DEF RefuseUpdate, OpenWindow, CheckDrift, Up, Watch, Restore, Rewatch,
      SettleWindow, SettleHold, ReconcileWindow, DispatchRaises, NoteRaises, WindowRaises,
      RecordRaises, Crash, StartScan, EndScan, PassGate, BeginPrune, SettleByHand, Lapse,
      host, locks, counters, Decide, Recreate, Accident
  <2>2. QED BY <2>1 DEF OldIsThere
<1>15. QED
  BY <1>1, <1>2, <1>3, <1>4, <1>5, <1>6, <1>7, <1>8, <1>9, <1>10, <1>11, <1>12,
     <1>13, <1>14 DEF Next, Worker, Startup, Raises, ScanStep

(* An unknown effect has its window held, or about to be.                  *)
LEMMA UnknownIsHeldKept ==
  ASSUME TypeOK, UnknownIsHeld, StepFits, OutcomeFits,
         ActiveWhile, Next
  PROVE  UnknownIsHeld'
<1>1. ASSUME StartUpdate PROVE UnknownIsHeld'
  BY <1>1 DEF StartUpdate, NoOne, host, counters, UnknownIsHeld, StepFits, OutcomeFits,
    ActiveWhile, Updating, Starting, Working
<1>2. ASSUME RefuseUpdate PROVE UnknownIsHeld'
  BY <1>2 DEF RefuseUpdate, host, locks, counters, UnknownIsHeld, StepFits, OutcomeFits,
    ActiveWhile, Updating, Starting, Working
<1>3. ASSUME OpenWindow PROVE UnknownIsHeld'
  BY <1>3, WindowFields DEF OpenWindow, Opened, host, locks, counters, UnknownIsHeld,
    StepFits, OutcomeFits, ActiveWhile, Updating, Starting, Working
<1>4. ASSUME Dispatch PROVE UnknownIsHeld'
  BY <1>4, StepFields DEF Dispatch, host, locks, counters, UnknownIsHeld, StepFits,
    OutcomeFits, ActiveWhile, Updating, Starting, Working
<1>5. ASSUME Pull PROVE UnknownIsHeld'
  BY <1>5 DEF Pull, Decide, locks, counters, UnknownIsHeld, StepFits, OutcomeFits,
    ActiveWhile, Updating, Starting, Working
<1>6. ASSUME NotePulled PROVE UnknownIsHeld'
  BY <1>6, StepFields DEF NotePulled, host, locks, counters, UnknownIsHeld, StepFits,
    OutcomeFits, ActiveWhile, Updating, Starting, Working
<1>7. ASSUME CheckDrift PROVE UnknownIsHeld'
  BY <1>7 DEF CheckDrift, Decide, host, locks, counters, UnknownIsHeld, StepFits,
    OutcomeFits, ActiveWhile, Updating, Starting, Working
<1>8. ASSUME NoteDeploying PROVE UnknownIsHeld'
  BY <1>8, StepFields DEF NoteDeploying, host, locks, counters, UnknownIsHeld, StepFits,
    OutcomeFits, ActiveWhile, Updating, Starting, Working
<1>9. ASSUME Up PROVE UnknownIsHeld'
  BY <1>9 DEF Up, Recreate, locks, counters, UnknownIsHeld, StepFits, OutcomeFits,
    ActiveWhile, Updating, Starting, Working
<1>10. ASSUME Watch PROVE UnknownIsHeld'
  BY <1>10 DEF Watch, Decide, host, locks, counters, UnknownIsHeld, StepFits, OutcomeFits,
    ActiveWhile, Updating, Starting, Working
<1>11. ASSUME NoteRollingBack PROVE UnknownIsHeld'
  BY <1>11, StepFields DEF NoteRollingBack, host, locks, counters, UnknownIsHeld, StepFits,
    OutcomeFits, ActiveWhile, Updating, Starting, Working
<1>12. ASSUME Restore PROVE UnknownIsHeld'
  BY <1>12 DEF Restore, Decide, Recreate, locks, counters, UnknownIsHeld, StepFits,
    OutcomeFits, ActiveWhile, Updating, Starting, Working
<1>13. ASSUME Rewatch PROVE UnknownIsHeld'
  BY <1>13 DEF Rewatch, Decide, host, locks, counters, UnknownIsHeld, StepFits,
    OutcomeFits, ActiveWhile, Updating, Starting, Working
<1>14. ASSUME SettleWindow PROVE UnknownIsHeld'
  BY <1>14, WindowFields DEF SettleWindow, host, locks, counters, UnknownIsHeld, StepFits,
    OutcomeFits, ActiveWhile, Updating, Starting, Working
<1>15. ASSUME Record PROVE UnknownIsHeld'
  BY <1>15, StepFields DEF Record, host, locks, counters, UnknownIsHeld, StepFits,
    OutcomeFits, ActiveWhile, Updating, Starting, Working
<1>16. ASSUME Finish PROVE UnknownIsHeld'
  BY <1>16 DEF Finish, NoOne, host, counters, UnknownIsHeld, StepFits, OutcomeFits,
    ActiveWhile, Updating, Starting, Working
<1>17. ASSUME SettleStep PROVE UnknownIsHeld'
  <2>1. CASE step.status = "dispatched"
    BY <1>17, <2>1, SettledRow, SettledRest DEF UnknownIsHeld, StepFits, OutcomeFits,
      ActiveWhile, Updating, Starting, Working
  <2>2. CASE step.status # "dispatched"
    BY <1>17, <2>2, SettledRow, SettledRest DEF UnknownIsHeld, StepFits, OutcomeFits,
      ActiveWhile, Updating, Starting, Working
  <2>3. QED BY <2>1, <2>2
<1>18. ASSUME SettleHold PROVE UnknownIsHeld'
  BY <1>18, WindowFields DEF SettleHold, host, locks, counters, UnknownIsHeld, StepFits,
    OutcomeFits, ActiveWhile, Updating, Starting, Working
<1>19. ASSUME ReconcileStep PROVE UnknownIsHeld'
  <2>1. CASE InFlight
    BY <1>19, <2>1, ReconciledRow, ReconciledRest DEF InFlight, NotBegun, UnknownIsHeld,
      StepFits, OutcomeFits, ActiveWhile, Updating, Starting, Working
  <2>2. CASE NotBegun
    BY <1>19, <2>2, ReconciledRow, ReconciledRest DEF InFlight, NotBegun, UnknownIsHeld,
      StepFits, OutcomeFits, ActiveWhile, Updating, Starting, Working
  <2>3. CASE ~InFlight /\ ~NotBegun
    BY <1>19, <2>3, ReconciledRow, ReconciledRest DEF InFlight, NotBegun, UnknownIsHeld,
      StepFits, OutcomeFits, ActiveWhile, Updating, Starting, Working
  <2>4. QED BY <2>1, <2>2, <2>3
<1>20. ASSUME ReconcileWindow PROVE UnknownIsHeld'
  BY <1>20, WindowFields DEF ReconcileWindow, host, locks, counters, UnknownIsHeld,
    StepFits, OutcomeFits, ActiveWhile, Updating, Starting, Working
<1>21. ASSUME Interrupt PROVE UnknownIsHeld'
  BY <1>21, StepFields DEF Interrupt, host, locks, counters, UnknownIsHeld, StepFits,
    OutcomeFits, ActiveWhile, Updating, Starting, Working
<1>22. ASSUME DispatchRaises PROVE UnknownIsHeld'
  BY <1>22, WindowFields DEF DispatchRaises, Accident, host, locks, UnknownIsHeld,
    StepFits, OutcomeFits, ActiveWhile, Updating, Starting, Working
<1>23. ASSUME NoteRaises PROVE UnknownIsHeld'
  BY <1>23 DEF NoteRaises, Decide, Accident, host, locks, UnknownIsHeld, StepFits,
    OutcomeFits, ActiveWhile, Updating, Starting, Working
<1>24. ASSUME WindowRaises PROVE UnknownIsHeld'
  BY <1>24 DEF WindowRaises, Accident, host, locks, UnknownIsHeld, StepFits, OutcomeFits,
    ActiveWhile, Updating, Starting, Working
<1>25. ASSUME RecordRaises PROVE UnknownIsHeld'
  BY <1>25 DEF RecordRaises, Accident, host, locks, UnknownIsHeld, StepFits, OutcomeFits,
    ActiveWhile, Updating, Starting, Working
<1>26. ASSUME Crash PROVE UnknownIsHeld'
  BY <1>26 DEF Crash, Accident, NoOne, host, UnknownIsHeld, StepFits, OutcomeFits,
    ActiveWhile, Updating, Starting, Working
<1>27. ASSUME SettleByHand PROVE UnknownIsHeld'
  BY <1>27, WindowFields DEF SettleByHand, Serving, host, locks, counters, UnknownIsHeld,
    StepFits, OutcomeFits, ActiveWhile, Updating, Starting, Working
<1>28. ASSUME Lapse PROVE UnknownIsHeld'
  BY <1>28, WindowFields DEF Lapse, host, locks, counters, UnknownIsHeld, StepFits,
    OutcomeFits, ActiveWhile, Updating, Starting, Working
<1>29. ASSUME StartScan \/ EndScan \/ PassGate \/ BeginPrune \/ Prune \/ PlanPrune
     
             PROVE  UnknownIsHeld'
  <2>1. UNCHANGED <<step, settled, cutOff, window, at>>
    BY <1>29 DEF StartScan, EndScan, PassGate, BeginPrune, Prune, PlanPrune, host, locks,
      counters, Decide, Recreate, Accident
  <2>2. QED BY <2>1 DEF UnknownIsHeld
<1>30. QED
  BY <1>1, <1>2, <1>3, <1>4, <1>5, <1>6, <1>7, <1>8, <1>9, <1>10, <1>11, <1>12,
     <1>13, <1>14, <1>15, <1>16, <1>17, <1>18, <1>19, <1>20, <1>21, <1>22, <1>23, <1>24,
     <1>25, <1>26, <1>27, <1>28, <1>29 DEF Next, Worker, Startup, Raises, ScanStep

(* A held window keeps every scan's prune away.                            *)
LEMMA KeptUnlessCutOffKept ==
  ASSUME TypeOK, KeptUnlessCutOff, OldIsThere, UnknownIsHeld,
         GateStillHolds, LockIsOf, ActiveWhile, StepFits, Next
  PROVE  KeptUnlessCutOff'
<1>1. ASSUME Dispatch PROVE KeptUnlessCutOff'
  BY <1>1, StepFields DEF Dispatch, host, locks, counters, KeptUnlessCutOff,
    UnknownKeepsItsImage, OldIsThere, UnknownIsHeld, GateStillHolds, Blocked, LockIsOf,
    Updating, Starting, Working, ActiveWhile, StepFits
<1>2. ASSUME Pull PROVE KeptUnlessCutOff'
  BY <1>2 DEF Pull, Decide, locks, counters, KeptUnlessCutOff, UnknownKeepsItsImage,
    OldIsThere, UnknownIsHeld, GateStillHolds, Blocked, LockIsOf, Updating, Starting,
    Working, ActiveWhile, StepFits
<1>3. ASSUME NotePulled PROVE KeptUnlessCutOff'
  BY <1>3, StepFields DEF NotePulled, host, locks, counters, KeptUnlessCutOff,
    UnknownKeepsItsImage, OldIsThere, UnknownIsHeld, GateStillHolds, Blocked, LockIsOf,
    Updating, Starting, Working, ActiveWhile, StepFits
<1>4. ASSUME NoteDeploying PROVE KeptUnlessCutOff'
  BY <1>4, StepFields DEF NoteDeploying, host, locks, counters, KeptUnlessCutOff,
    UnknownKeepsItsImage, OldIsThere, UnknownIsHeld, GateStillHolds, Blocked, LockIsOf,
    Updating, Starting, Working, ActiveWhile, StepFits
<1>5. ASSUME NoteRollingBack PROVE KeptUnlessCutOff'
  BY <1>5, StepFields DEF NoteRollingBack, host, locks, counters, KeptUnlessCutOff,
    UnknownKeepsItsImage, OldIsThere, UnknownIsHeld, GateStillHolds, Blocked, LockIsOf,
    Updating, Starting, Working, ActiveWhile, StepFits
<1>6. ASSUME Record PROVE KeptUnlessCutOff'
  BY <1>6, StepFields DEF Record, host, locks, counters, KeptUnlessCutOff,
    UnknownKeepsItsImage, OldIsThere, UnknownIsHeld, GateStillHolds, Blocked, LockIsOf,
    Updating, Starting, Working, ActiveWhile, StepFits
<1>7. ASSUME SettleStep PROVE KeptUnlessCutOff'
  <2>1. CASE step.status = "dispatched"
    BY <1>7, <2>1, SettledRow, SettledRest, StepFields DEF KeptUnlessCutOff,
      UnknownKeepsItsImage, OldIsThere, UnknownIsHeld, GateStillHolds, Blocked, LockIsOf,
      Updating, Starting, Working, ActiveWhile, StepFits
  <2>2. CASE step.status # "dispatched"
    BY <1>7, <2>2, SettledRow, SettledRest, StepFields DEF KeptUnlessCutOff,
      UnknownKeepsItsImage, OldIsThere, UnknownIsHeld, GateStillHolds, Blocked, LockIsOf,
      Updating, Starting, Working, ActiveWhile, StepFits
  <2>3. QED BY <2>1, <2>2
<1>8. ASSUME ReconcileStep PROVE KeptUnlessCutOff'
  <2>1. CASE InFlight
    BY <1>8, <2>1, ReconciledRow, ReconciledRest, StepFields DEF InFlight, NotBegun,
      KeptUnlessCutOff, UnknownKeepsItsImage, OldIsThere, UnknownIsHeld, GateStillHolds,
      Blocked, LockIsOf, Updating, Starting, Working, ActiveWhile, StepFits
  <2>2. CASE NotBegun
    BY <1>8, <2>2, ReconciledRow, ReconciledRest, StepFields DEF InFlight, NotBegun,
      KeptUnlessCutOff, UnknownKeepsItsImage, OldIsThere, UnknownIsHeld, GateStillHolds,
      Blocked, LockIsOf, Updating, Starting, Working, ActiveWhile, StepFits
  <2>3. CASE ~InFlight /\ ~NotBegun
    BY <1>8, <2>3, ReconciledRow, ReconciledRest, StepFields DEF InFlight, NotBegun,
      KeptUnlessCutOff, UnknownKeepsItsImage, OldIsThere, UnknownIsHeld, GateStillHolds,
      Blocked, LockIsOf, Updating, Starting, Working, ActiveWhile, StepFits
  <2>4. QED BY <2>1, <2>2, <2>3
<1>9. ASSUME WindowRaises PROVE KeptUnlessCutOff'
  BY <1>9 DEF WindowRaises, Accident, host, locks, KeptUnlessCutOff, UnknownKeepsItsImage,
    OldIsThere, UnknownIsHeld, GateStillHolds, Blocked, LockIsOf, Updating, Starting,
    Working, ActiveWhile, StepFits
<1>10. ASSUME Crash PROVE KeptUnlessCutOff'
  BY <1>10 DEF Crash, Accident, NoOne, host, KeptUnlessCutOff, UnknownKeepsItsImage,
    OldIsThere, UnknownIsHeld, GateStillHolds, Blocked, LockIsOf, Updating, Starting,
    Working, ActiveWhile, StepFits
<1>11. ASSUME Prune PROVE KeptUnlessCutOff'
  BY <1>11 DEF Prune, Used, NoOne, counters, KeptUnlessCutOff, UnknownKeepsItsImage,
    OldIsThere, UnknownIsHeld, GateStillHolds, Blocked, LockIsOf, Updating, Starting,
    Working, ActiveWhile, StepFits
<1>12. ASSUME PlanPrune PROVE KeptUnlessCutOff'
  <2>1. plans \in Nat /\ plans' = plans + 1
    BY <1>12, PlansCount DEF PlanPrune
  <2>2. plans' # 0
    BY <2>1
  <2>3. QED BY <2>2 DEF KeptUnlessCutOff
<1>13. ASSUME SettleByHand PROVE KeptUnlessCutOff'
  BY <1>13, WindowFields DEF SettleByHand, Serving, host, locks, counters,
    KeptUnlessCutOff, UnknownKeepsItsImage, OldIsThere, UnknownIsHeld, GateStillHolds,
    Blocked, LockIsOf, Updating, Starting, Working, ActiveWhile, StepFits
<1>14. ASSUME StartUpdate \/ RefuseUpdate \/ OpenWindow \/ CheckDrift \/ Up \/ Watch \/
             Restore \/ Rewatch \/ SettleWindow \/ Finish \/ SettleHold \/ ReconcileWindow
             \/ Interrupt \/ DispatchRaises \/ NoteRaises \/ RecordRaises \/ StartScan \/
             EndScan \/ PassGate \/ BeginPrune \/ Lapse
      PROVE  KeptUnlessCutOff'
  <2>1. UNCHANGED <<step, settled, cutOff, images, plans>>
    BY <1>14 DEF StartUpdate, RefuseUpdate, OpenWindow, CheckDrift, Up, Watch, Restore,
      Rewatch, SettleWindow, Finish, SettleHold, ReconcileWindow, Interrupt,
      DispatchRaises, NoteRaises, RecordRaises, StartScan, EndScan, PassGate, BeginPrune,
      Lapse, host, locks, counters, Decide, Recreate, Accident
  <2>2. QED BY <2>1 DEF KeptUnlessCutOff, UnknownKeepsItsImage, Blocked
<1>15. QED
  BY <1>1, <1>2, <1>3, <1>4, <1>5, <1>6, <1>7, <1>8, <1>9, <1>10, <1>11, <1>12,
     <1>13, <1>14 DEF Next, Worker, Startup, Raises, ScanStep

(* A recorded effect is what the last watch saw.                           *)
LEMMA EffectIsWatchedKept ==
  ASSUME TypeOK, EffectIsWatched, ContainerFits, StepFits,
         Next
  PROVE  EffectIsWatched'
<1>1. ASSUME Dispatch PROVE EffectIsWatched'
  BY <1>1, StepFields DEF Dispatch, host, locks, counters, EffectIsWatched, ContainerFits,
    StepFits, Working
<1>2. ASSUME NotePulled PROVE EffectIsWatched'
  BY <1>2, StepFields DEF NotePulled, host, locks, counters, EffectIsWatched,
    ContainerFits, StepFits, Working
<1>3. ASSUME NoteDeploying PROVE EffectIsWatched'
  BY <1>3, StepFields DEF NoteDeploying, host, locks, counters, EffectIsWatched,
    ContainerFits, StepFits, Working
<1>4. ASSUME Up PROVE EffectIsWatched'
  BY <1>4 DEF Up, Recreate, locks, counters, EffectIsWatched, ContainerFits, StepFits,
    Working
<1>5. ASSUME Watch PROVE EffectIsWatched'
  BY <1>5 DEF Watch, Decide, host, locks, counters, EffectIsWatched, ContainerFits,
    StepFits, Working
<1>6. ASSUME NoteRollingBack PROVE EffectIsWatched'
  BY <1>6, StepFields DEF NoteRollingBack, host, locks, counters, EffectIsWatched,
    ContainerFits, StepFits, Working
<1>7. ASSUME Restore PROVE EffectIsWatched'
  BY <1>7 DEF Restore, Decide, Recreate, locks, counters, EffectIsWatched, ContainerFits,
    StepFits, Working
<1>8. ASSUME Rewatch PROVE EffectIsWatched'
  BY <1>8 DEF Rewatch, Decide, host, locks, counters, EffectIsWatched, ContainerFits,
    StepFits, Working
<1>9. ASSUME Record PROVE EffectIsWatched'
  BY <1>9, StepFields DEF Record, host, locks, counters, EffectIsWatched, ContainerFits,
    StepFits, Working
<1>10. ASSUME SettleStep PROVE EffectIsWatched'
  <2>1. CASE step.status = "dispatched"
    BY <1>10, <2>1, SettledRow, SettledRest DEF EffectIsWatched, ContainerFits, StepFits,
      Working
  <2>2. CASE step.status # "dispatched"
    BY <1>10, <2>2, SettledRow, SettledRest DEF EffectIsWatched, ContainerFits, StepFits,
      Working
  <2>3. QED BY <2>1, <2>2
<1>11. ASSUME ReconcileStep PROVE EffectIsWatched'
  <2>1. CASE InFlight
    <3>1. /\ step'.effect # "applied"
          /\ step'.effect = "not_applied" => container = "old" /\ step.phase # "rolling_back"
      BY <1>11, <2>1, ReconciledRow
    <3>2. UNCHANGED <<container, moved, outcome, stable>>
      BY <1>11, ReconciledRest
    <3>3. QED BY <3>1, <3>2 DEF EffectIsWatched, ContainerFits
  <2>2. CASE NotBegun
    BY <1>11, <2>2, ReconciledRow, ReconciledRest DEF InFlight, NotBegun, EffectIsWatched,
      ContainerFits, StepFits, Working
  <2>3. CASE ~InFlight /\ ~NotBegun
    BY <1>11, <2>3, ReconciledRow, ReconciledRest DEF InFlight, NotBegun, EffectIsWatched,
      ContainerFits, StepFits, Working
  <2>4. QED BY <2>1, <2>2, <2>3
<1>12. ASSUME StartUpdate \/ RefuseUpdate \/ OpenWindow \/ Pull \/ CheckDrift \/
             SettleWindow \/ Finish \/ SettleHold \/ ReconcileWindow \/ Interrupt \/
             DispatchRaises \/ NoteRaises \/ WindowRaises \/ RecordRaises \/ Crash \/
             StartScan \/ EndScan \/ PassGate \/ BeginPrune \/ Prune \/ PlanPrune \/
             SettleByHand \/ Lapse
      PROVE  EffectIsWatched'
  <2>1. UNCHANGED <<step, container, moved, stable>>
    BY <1>12 DEF StartUpdate, RefuseUpdate, OpenWindow, Pull, CheckDrift, SettleWindow,
      Finish, SettleHold, ReconcileWindow, Interrupt, DispatchRaises, NoteRaises,
      WindowRaises, RecordRaises, Crash, StartScan, EndScan, PassGate, BeginPrune, Prune,
      PlanPrune, SettleByHand, Lapse, host, locks, counters, Decide, Recreate, Accident
  <2>2. QED BY <2>1 DEF EffectIsWatched
<1>13. QED
  BY <1>1, <1>2, <1>3, <1>4, <1>5, <1>6, <1>7, <1>8, <1>9, <1>10, <1>11, <1>12
     DEF Next, Worker, Startup, Raises, ScanStep


(* The types, one row at a time.                                           *)
LEMMA RowsTyped ==
  ASSUME TypeOK, Next
  PROVE  window' \in WindowRow /\ step' \in StepRow
<1>1. ASSUME OpenWindow PROVE window' \in WindowRow
  BY <1>1 DEF OpenWindow, Opened, TypeOK, WindowRow, Held, Closed
<1>2. ASSUME SettleWindow PROVE window' \in WindowRow
  BY <1>2 DEF SettleWindow, TypeOK, WindowRow, Held, Closed
<1>3. ASSUME SettleHold PROVE window' \in WindowRow
  BY <1>3 DEF SettleHold, TypeOK, WindowRow, Held, Closed
<1>4. ASSUME ReconcileWindow PROVE window' \in WindowRow
  BY <1>4 DEF ReconcileWindow, TypeOK, WindowRow, Held, Closed
<1>5. ASSUME DispatchRaises PROVE window' \in WindowRow
  BY <1>5 DEF DispatchRaises, TypeOK, WindowRow, Held, Closed
<1>6. ASSUME SettleByHand PROVE window' \in WindowRow
  BY <1>6 DEF SettleByHand, TypeOK, WindowRow, Held, Closed
<1>7. ASSUME Lapse PROVE window' \in WindowRow
  BY <1>7 DEF Lapse, TypeOK, WindowRow, Held, Closed
<1>8. ASSUME Dispatch PROVE step' \in StepRow
  BY <1>8 DEF Dispatch, TypeOK, StepRow
<1>9. ASSUME NotePulled PROVE step' \in StepRow
  BY <1>9 DEF NotePulled, TypeOK, StepRow
<1>10. ASSUME NoteDeploying PROVE step' \in StepRow
  BY <1>10 DEF NoteDeploying, TypeOK, StepRow
<1>11. ASSUME NoteRollingBack PROVE step' \in StepRow
  BY <1>11 DEF NoteRollingBack, TypeOK, StepRow
<1>12. ASSUME Record PROVE step' \in StepRow
  BY <1>12 DEF Record, TypeOK, StepRow
<1>13. ASSUME SettleStep PROVE step' \in StepRow
  BY <1>13 DEF SettleStep, TypeOK, StepRow
<1>14. ASSUME ReconcileStep PROVE step' \in StepRow
  BY <1>14 DEF ReconcileStep, Reconciled, TypeOK, StepRow
<1>15. ASSUME StartUpdate \/ RefuseUpdate \/ Dispatch \/ Pull \/ NotePulled \/ CheckDrift
 
                        \/ NoteDeploying \/ Up \/ Watch \/ NoteRollingBack \/ Restore \/
             Rewatch
             \/ Record \/ Finish \/ SettleStep \/ ReconcileStep \/
             Interrupt \/ NoteRaises
             \/ WindowRaises \/ RecordRaises \/ Crash
             \/ StartScan \/ EndScan \/ PassGate
             \/ BeginPrune \/ Prune \/
             PlanPrune
      PROVE  window' \in WindowRow
  <2>1. UNCHANGED window
    BY <1>15 DEF StartUpdate, RefuseUpdate, Dispatch, Pull, NotePulled, CheckDrift,
      NoteDeploying, Up, Watch, NoteRollingBack, Restore, Rewatch, Record, Finish,
      SettleStep, ReconcileStep, Interrupt, NoteRaises, WindowRaises, RecordRaises, Crash,
      StartScan, EndScan, PassGate, BeginPrune, Prune, PlanPrune
  <2>2. QED BY <2>1 DEF TypeOK
<1>16. ASSUME StartUpdate \/ RefuseUpdate \/ OpenWindow \/ Pull \/ CheckDrift \/ Up
       
                  \/ Watch \/ Restore \/ Rewatch \/ SettleWindow \/ Finish \/ SettleHold
  
                       \/ ReconcileWindow \/ Interrupt \/ DispatchRaises \/ NoteRaises \/
             WindowRaises \/ RecordRaises
             \/ Crash \/ StartScan \/ EndScan \/
             PassGate \/ BeginPrune \/ Prune
             \/ PlanPrune \/ SettleByHand \/
             Lapse
      PROVE  step' \in StepRow
  <2>1. UNCHANGED step
    BY <1>16 DEF StartUpdate, RefuseUpdate, OpenWindow, Pull, CheckDrift, Up, Watch,
      Restore, Rewatch, SettleWindow, Finish, SettleHold, ReconcileWindow, Interrupt,
      DispatchRaises, NoteRaises, WindowRaises, RecordRaises, Crash, StartScan, EndScan,
      PassGate, BeginPrune, Prune, PlanPrune, SettleByHand, Lapse
  <2>2. QED BY <2>1 DEF TypeOK
<1>17. QED
  BY <1>1, <1>2, <1>3, <1>4, <1>5, <1>6, <1>7, <1>8, <1>9, <1>10, <1>11, <1>12,
     <1>13, <1>14, <1>15, <1>16 DEF Next, Worker, Startup, Raises, ScanStep

(* The other types.                                                        *)
PlainTypes ==
  /\ images \subseteq {"old", "new"}
  /\ container \in {"old", "new", "gone"}
  /\ active \in BOOLEAN
  /\ at \in Updating \cup Starting \cup {"rest", "over"}
  /\ outcome \in {"none", "applied", "not_applied", "unknown"}
  /\ owner \in {NoOne, "update", "prune"}
  /\ prune \in {"no", "gated", "pruning"}
  /\ {scanning, moved, settled, cutOff} \subseteq BOOLEAN
  /\ stable \in {"none", "old", "new"}

CounterTypes == plans \in 0..MaxPlans /\ accidents \in 0..MaxAccidents

LEMMA TypesSplit ==
  TypeOK <=> PlainTypes /\ CounterTypes /\ window \in WindowRow /\ step \in StepRow
<1>1. at \in Updating \cup Starting \cup {"rest", "over"} <=>
        at \in Working \cup {"rest", "open", "dispatch", "settle window", "record", "finish",
                             "over", "settle", "settle hold", "down", "reconcile window",
                             "interrupt"}
  BY DEF Updating, Starting
<1>2. QED BY <1>1 DEF TypeOK, PlainTypes, CounterTypes

LEMMA CountersKept ==
  ASSUME CounterTypes, Next
  PROVE  CounterTypes'
<1>. MaxPlans \in Nat /\ MaxAccidents \in Nat
  BY BoundsAssumption
<1>1. ASSUME PlanPrune PROVE CounterTypes'
  <2>1. plans < MaxPlans /\ plans' = plans + 1 /\ accidents' = accidents
    BY <1>1 DEF PlanPrune
  <2>2. QED BY <2>1 DEF CounterTypes
<1>2. ASSUME DispatchRaises \/ NoteRaises \/ WindowRaises \/ RecordRaises \/ Crash
      PROVE  CounterTypes'
  <2>1. accidents < MaxAccidents /\ accidents' = accidents + 1 /\ plans' = plans
    BY <1>2 DEF Accident, DispatchRaises, NoteRaises, WindowRaises, RecordRaises, Crash
  <2>2. QED BY <2>1 DEF CounterTypes
<1>3. ASSUME StartUpdate \/ RefuseUpdate \/ OpenWindow \/ Dispatch \/ Pull \/ NotePulled
             \/ CheckDrift \/ NoteDeploying \/ Up \/ Watch \/ NoteRollingBack \/ Restore
             \/ Rewatch \/ SettleWindow \/ Record \/ Finish \/ SettleStep \/ SettleHold
             \/ ReconcileStep \/ ReconcileWindow \/ Interrupt \/ StartScan \/ EndScan \/ PassGate
             \/ BeginPrune \/ Prune \/ SettleByHand \/ Lapse
      PROVE  CounterTypes'
  <2>1. plans' = plans /\ accidents' = accidents
    BY <1>3 DEF counters, StartUpdate, RefuseUpdate, OpenWindow, Dispatch, Pull,
      NotePulled, CheckDrift, NoteDeploying, Up, Watch, NoteRollingBack, Restore, Rewatch,
      SettleWindow, Record, Finish, SettleStep, SettleHold, ReconcileStep, ReconcileWindow,
      Interrupt, StartScan, EndScan, PassGate, BeginPrune, Prune, SettleByHand, Lapse
  <2>2. QED BY <2>1 DEF CounterTypes
<1>4. QED
  BY <1>1, <1>2, <1>3 DEF Next, Worker, Startup, Raises, ScanStep

LEMMA PlainTypesKept ==
  ASSUME PlainTypes, Next
  PROVE  PlainTypes'
<1>1. ASSUME StartUpdate PROVE PlainTypes'
  BY <1>1 DEF StartUpdate, NoOne, host, counters, PlainTypes, Updating, Starting, Working
<1>2. ASSUME RefuseUpdate PROVE PlainTypes'
  BY <1>2 DEF RefuseUpdate, host, locks, counters, PlainTypes, Updating, Starting, Working,
    NoOne
<1>3. ASSUME OpenWindow PROVE PlainTypes'
  BY <1>3 DEF OpenWindow, host, locks, counters, PlainTypes, Updating, Starting, Working,
    NoOne
<1>4. ASSUME Dispatch PROVE PlainTypes'
  BY <1>4 DEF Dispatch, host, locks, counters, PlainTypes, Updating, Starting, Working,
    NoOne
<1>5. ASSUME Pull PROVE PlainTypes'
  BY <1>5, ZenonT(60) DEF Pull, Decide, locks, counters, PlainTypes, Updating, Starting, Working, NoOne
<1>6. ASSUME NotePulled PROVE PlainTypes'
  BY <1>6 DEF NotePulled, host, locks, counters, PlainTypes, Updating, Starting, Working,
    NoOne
<1>7. ASSUME CheckDrift PROVE PlainTypes'
  BY <1>7, ZenonT(60) DEF CheckDrift, Decide, host, locks, counters, PlainTypes, Updating, Starting,
    Working, NoOne
<1>8. ASSUME NoteDeploying PROVE PlainTypes'
  BY <1>8 DEF NoteDeploying, host, locks, counters, PlainTypes, Updating, Starting,
    Working, NoOne
<1>9. ASSUME Up PROVE PlainTypes'
  BY <1>9, ZenonT(60) DEF Up, Recreate, locks, counters, PlainTypes, Updating, Starting, Working, NoOne
<1>10. ASSUME Watch PROVE PlainTypes'
  BY <1>10, ZenonT(60) DEF Watch, Decide, host, locks, counters, PlainTypes, Updating, Starting,
    Working, NoOne
<1>11. ASSUME NoteRollingBack PROVE PlainTypes'
  BY <1>11 DEF NoteRollingBack, host, locks, counters, PlainTypes, Updating, Starting,
    Working, NoOne
<1>12. ASSUME Restore PROVE PlainTypes'
  BY <1>12, ZenonT(60) DEF Restore, Decide, Recreate, locks, counters, PlainTypes, Updating, Starting,
    Working, NoOne
<1>13. ASSUME Rewatch PROVE PlainTypes'
  BY <1>13 DEF Rewatch, Decide, host, locks, counters, PlainTypes, Updating, Starting,
    Working, NoOne
<1>14. ASSUME SettleWindow PROVE PlainTypes'
  BY <1>14 DEF SettleWindow, host, locks, counters, PlainTypes, Updating, Starting,
    Working, NoOne
<1>15. ASSUME Record PROVE PlainTypes'
  BY <1>15 DEF Record, host, locks, counters, PlainTypes, Updating, Starting, Working, NoOne
<1>16. ASSUME Finish PROVE PlainTypes'
  BY <1>16 DEF Finish, NoOne, host, counters, PlainTypes, Updating, Starting, Working
<1>17. ASSUME SettleStep PROVE PlainTypes'
  BY <1>17, ZenonT(60) DEF SettleStep, host, locks, counters, PlainTypes, Updating, Starting, Working,
    NoOne
<1>18. ASSUME SettleHold PROVE PlainTypes'
  BY <1>18 DEF SettleHold, host, locks, counters, PlainTypes, Updating, Starting, Working,
    NoOne
<1>19. ASSUME ReconcileStep PROVE PlainTypes'
  BY <1>19, ZenonT(60) DEF ReconcileStep, host, locks, counters, PlainTypes, Updating, Starting,
    Working, NoOne
<1>20. ASSUME ReconcileWindow PROVE PlainTypes'
  BY <1>20 DEF ReconcileWindow, host, locks, counters, PlainTypes, Updating, Starting,
    Working, NoOne
<1>21. ASSUME Interrupt PROVE PlainTypes'
  BY <1>21 DEF Interrupt, host, locks, counters, PlainTypes, Updating, Starting, Working,
    NoOne
<1>22. ASSUME DispatchRaises PROVE PlainTypes'
  BY <1>22 DEF DispatchRaises, host, locks, PlainTypes, Updating, Starting, Working, NoOne
<1>23. ASSUME NoteRaises PROVE PlainTypes'
  BY <1>23 DEF NoteRaises, Decide, host, locks, PlainTypes, Updating, Starting, Working,
    NoOne
<1>24. ASSUME WindowRaises PROVE PlainTypes'
  BY <1>24 DEF WindowRaises, host, locks, PlainTypes, Updating, Starting, Working, NoOne
<1>25. ASSUME RecordRaises PROVE PlainTypes'
  BY <1>25 DEF RecordRaises, host, locks, PlainTypes, Updating, Starting, Working, NoOne
<1>26. ASSUME Crash PROVE PlainTypes'
  BY <1>26 DEF Crash, NoOne, host, PlainTypes, Updating, Starting, Working
<1>27. ASSUME StartScan PROVE PlainTypes'
  BY <1>27 DEF StartScan, NoOne, host, counters, PlainTypes
<1>28. ASSUME EndScan PROVE PlainTypes'
  BY <1>28 DEF EndScan, host, counters, PlainTypes, NoOne
<1>29. ASSUME PassGate PROVE PlainTypes'
  BY <1>29 DEF PassGate, host, counters, PlainTypes, NoOne
<1>30. ASSUME BeginPrune PROVE PlainTypes'
  BY <1>30 DEF BeginPrune, NoOne, host, counters, PlainTypes
<1>31. ASSUME Prune PROVE PlainTypes'
  BY <1>31 DEF Prune, Used, NoOne, counters, PlainTypes
<1>32. ASSUME PlanPrune PROVE PlainTypes'
  BY <1>32 DEF PlanPrune, Used, NoOne, locks, PlainTypes
<1>33. ASSUME SettleByHand PROVE PlainTypes'
  <2>1. UNCHANGED <<images, container, active, at, outcome, owner, prune, scanning, moved,
          stable, cutOff>>
    BY <1>33 DEF SettleByHand, host, locks, counters
  <2>2. QED BY <1>33, <2>1 DEF SettleByHand, PlainTypes
<1>34. ASSUME Lapse PROVE PlainTypes'
  <2>1. UNCHANGED <<images, container, active, at, outcome, owner, prune, scanning, moved,
          stable, settled, cutOff>>
    BY <1>34 DEF Lapse, host, locks, counters
  <2>2. QED BY <2>1 DEF PlainTypes
<1>35. QED
  BY <1>1, <1>2, <1>3, <1>4, <1>5, <1>6, <1>7, <1>8, <1>9, <1>10, <1>11, <1>12,
     <1>13, <1>14, <1>15, <1>16, <1>17, <1>18, <1>19, <1>20, <1>21, <1>22, <1>23, <1>24,
     <1>25, <1>26, <1>27, <1>28, <1>29, <1>30, <1>31, <1>32, <1>33, <1>34 DEF Next, Worker,
     Startup, Raises, ScanStep

----------------------------------------------------------------------------
(* The invariant.                                                          *)

LEMMA InitCanary == Init => CanaryInv
<1>. SUFFICES ASSUME Init PROVE CanaryInv
  OBVIOUS
<1>1. window.state = "none" /\ window.held = FALSE /\ window.lapsed = FALSE
  BY DEF Init
<1>2. step.status = "pending" /\ step.effect = "none" /\ step.phase = "none"
  BY DEF Init
<1>3. window \in WindowRow /\ step \in StepRow
  BY DEF Init, WindowRow, StepRow
<1>4. PlainTypes
  BY DEF Init, PlainTypes
<1>5. CounterTypes
  <2>1. plans = 0 /\ accidents = 0 /\ MaxPlans \in Nat /\ MaxAccidents \in Nat
    BY BoundsAssumption DEF Init
  <2>2. QED BY <2>1 DEF CounterTypes
<1>6. TypeOK
  BY <1>3, <1>4, <1>5, TypesSplit
<1>7. /\ at = "rest" /\ owner = NoOne /\ prune = "no" /\ scanning = FALSE /\ active = FALSE
      /\ container = "old" /\ moved = FALSE /\ images = {"old"}
  BY DEF Init
<1>8. LockIsOf /\ GateStillHolds
  BY <1>7 DEF LockIsOf, GateStillHolds, Updating, Working, NoOne
<1>9. ActiveWhile /\ StepFits
  BY <1>1, <1>2, <1>7 DEF ActiveWhile, StepFits, Updating, Starting, Working
<1>10. ContainerFits /\ OutcomeFits /\ OldIsThere
  BY <1>2, <1>7 DEF ContainerFits, OutcomeFits, OldIsThere, Untouched, Working
<1>11. UnknownIsHeld /\ KeptUnlessCutOff /\ EffectIsWatched
  BY <1>2 DEF UnknownIsHeld, KeptUnlessCutOff, UnknownKeepsItsImage, EffectIsWatched
<1>12. QED BY <1>6, <1>8, <1>9, <1>10, <1>11 DEF CanaryInv

LEMMA StepCanary == CanaryInv /\ [Next]_vars => CanaryInv'
<1>. SUFFICES ASSUME CanaryInv, [Next]_vars PROVE CanaryInv'
  OBVIOUS
<1>. USE DEF CanaryInv
<1>1. ASSUME Next PROVE CanaryInv'
  <2>1. PlainTypes' /\ CounterTypes' /\ window' \in WindowRow /\ step' \in StepRow
    BY <1>1, TypesSplit, PlainTypesKept, CountersKept, RowsTyped
  <2>2. TypeOK'
    BY <2>1 DEF TypeOK, PlainTypes, CounterTypes, Updating, Starting
  <2>3. LockIsOf' /\ GateStillHolds'
    BY <1>1, LockIsOfKept, GateStillHoldsKept
  <2>4. ActiveWhile' /\ StepFits'
    BY <1>1, ActiveWhileKept, StepFitsKept
  <2>5. ContainerFits' /\ OutcomeFits' /\ OldIsThere'
    BY <1>1, ContainerFitsKept, OutcomeFitsKept, OldIsThereKept
  <2>6. UnknownIsHeld' /\ KeptUnlessCutOff' /\ EffectIsWatched'
    BY <1>1, UnknownIsHeldKept, KeptUnlessCutOffKept, EffectIsWatchedKept
  <2>7. QED BY <2>2, <2>3, <2>4, <2>5, <2>6
<1>2. ASSUME UNCHANGED vars PROVE CanaryInv'
  <2>1. TypeOK'
    <3>1. PlainTypes'
      BY <1>2, TypesSplit DEF vars, PlainTypes
    <3>2. CounterTypes' /\ window' \in WindowRow /\ step' \in StepRow
      BY <1>2, TypesSplit DEF vars, CounterTypes
    <3>3. QED BY <3>1, <3>2 DEF TypeOK, PlainTypes, CounterTypes, Updating, Starting
  <2>2. LockIsOf' /\ ActiveWhile' /\ GateStillHolds' /\ StepFits'
    BY <1>2, ZenonT(60) DEF vars, LockIsOf, ActiveWhile, GateStillHolds, Blocked, StepFits
  <2>3. ContainerFits' /\ OutcomeFits' /\ OldIsThere'
    BY <1>2 DEF vars, ContainerFits, OutcomeFits, OldIsThere
  <2>4. UnknownIsHeld' /\ KeptUnlessCutOff' /\ EffectIsWatched'
    BY <1>2 DEF vars, UnknownIsHeld, KeptUnlessCutOff, UnknownKeepsItsImage, EffectIsWatched
  <2>5. QED BY <2>1, <2>2, <2>3, <2>4
<1>3. QED BY <1>1, <1>2

(* CanaryInv holds in every state a canary update, its crashes and the     *)
(* scans beside it can reach (update.canary, maybe_run_safe_prune).        *)
THEOREM CanaryInvariant == Spec => []CanaryInv
<1>1. QED BY InitCanary, StepCanary, PTL DEF Spec

(* The types of Canary: counters within their bounds, places of the code.  *)
THEOREM CanaryTypes == Spec => []TypeOK
<1>1. CanaryInv => TypeOK
  BY DEF CanaryInv
<1>2. QED BY <1>1, CanaryInvariant, PTL

(* While _canary works on the service, the image it would roll back to is  *)
(* there: a prune that passed the gate before has ended before.            *)
THEOREM InverseStaysPossible == Spec => []InverseIsPossible
<1>1. CanaryInv => InverseIsPossible
  BY DEF CanaryInv, InverseIsPossible, ActiveWhile, OldIsThere, Updating
<1>2. QED BY <1>1, CanaryInvariant, PTL

(* hold_rollback_candidate keeps the old image of an unknown update from   *)
(* every scan's prune until the operator settles it, however often core    *)
(* crashed or a transaction raised, unless one fell just before the hold.  *)
THEOREM UnknownIsKept == Spec => []KeptUnlessCutOff
<1>1. CanaryInv => KeptUnlessCutOff
  BY DEF CanaryInv
<1>2. QED BY <1>1, CanaryInvariant, PTL

(* The effect _canary or _reconcile_canary records is what was watched.    *)
THEOREM EffectsAreWatched == Spec => []EffectIsWatched
<1>1. CanaryInv => EffectIsWatched
  BY DEF CanaryInv
<1>2. QED BY <1>1, CanaryInvariant, PTL

(* maybe_run_safe_prune reads the windows before it takes the lock, and    *)
(* when it prunes, there is still no window that blocks it.                *)
THEOREM GateOutlivesItsReading == Spec => [](prune = "pruning" => ~Blocked)
<1>1. CanaryInv => (prune = "pruning" => ~Blocked)
  BY DEF CanaryInv, GateStillHolds
<1>2. QED BY <1>1, CanaryInvariant, PTL
=============================================================================
