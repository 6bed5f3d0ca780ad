---------------------------- MODULE PartsTheorems ----------------------------
(***************************************************************************)
(* The properties of Parts as theorems about MCParts' behaviours, of        *)
(* whichever component they are and for every value of the constants.  Each *)
(* combines what PartsProofs proves of the components it names.            *)
(***************************************************************************)
EXTENDS MCParts, PartsProofs

(* A behaviour of a part starts as that component does and moves as it      *)
(* does, or stands still.                                                   *)
LEMMA PartsStart ==
  ASSUME Init
  PROVE  /\ part = "attempts" => At!Init
         /\ part = "auth" => Op!Init
         /\ part = "sessions" => De!Init
         /\ part = "incidents" => In!Init
         /\ part = "chat" => Ch!Init
         /\ part = "config" => Cf!Init
         /\ part = "compose" => Cw!Init
         /\ part = "wizard" => Se!Init
         /\ part = "monitor" => Mo!Init
         /\ part = "targets" => Ta!Init
         /\ part = "rpc" => Rp!Init
         /\ part = "host" => Ho!Init
         /\ part = "cache" => Tc!Init
         /\ part = "verify" => Ve!Init
         /\ part = "stacks" => St!Init
         /\ part = "weekly" => We!Init
BY DEF Init, PartInit

LEMMA PartsMove ==
  ASSUME [Next]_vars
  PROVE  /\ part' = part
         /\ part = "attempts" => [At!Next]_At!attemptVars
         /\ part = "auth" => [Op!Next]_Op!authVars
         /\ part = "sessions" => [De!Next]_De!sessionVars
         /\ part = "incidents" => [In!Next]_In!incidentVars
         /\ part = "chat" => [Ch!Next]_Ch!chatVars
         /\ part = "config" => [Cf!Next]_Cf!configVars
         /\ part = "compose" => [Cw!Next]_Cw!composeVars
         /\ part = "wizard" => [Se!Next]_Se!sessionVars
         /\ part = "monitor" => [Mo!Next]_Mo!monitorVars
         /\ part = "targets" => [Ta!Next]_Ta!vars
         /\ part = "rpc" => [Rp!Next]_Rp!rpcVars
         /\ part = "host" => [Ho!Next]_Ho!hostVars
         /\ part = "cache" => [Tc!Next]_Tc!vars
         /\ part = "verify" => [Ve!Next]_Ve!verifyVars
         /\ part = "stacks" => [St!Next]_St!stackVars
         /\ part = "weekly" => [We!Next]_We!vars
<1>1. CASE UNCHANGED vars
  BY <1>1 DEF vars, At!attemptVars, Op!authVars, De!sessionVars, In!incidentVars, Ch!chatVars, Cf!configVars,
               Cw!composeVars, Se!sessionVars, Mo!monitorVars, Ta!vars, Rp!rpcVars, Ho!hostVars, Tc!vars, Ve!verifyVars, St!stackVars, We!vars
<1>2. CASE Next
  BY <1>2 DEF Next, PartNext
<1>3. QED BY <1>1, <1>2

-----------------------------------------------------------------------------
(* AuthorityHolds.                                                         *)

AuthorityInv == /\ part = "attempts" => AtInv
                /\ part = "chat" => ChInv
                /\ part = "targets" => TaInv

(* What may be done, and how often: the limits on attempts, the quota and  *)
(* the slots of the chat, and that a step acts on what its approval names. *)
THEOREM AuthorityIsKept == Spec => []AuthorityHolds
<1>1. Init => AuthorityInv
  BY PartsStart, InitAttempts, InitChat, InitTargets, LimitsAssumption, ChatAssumption
  DEF AuthorityInv, AtConstants, ChConstants
<1>2. AuthorityInv /\ [Next]_vars => AuthorityInv'
  <2>. SUFFICES ASSUME AuthorityInv, [Next]_vars PROVE AuthorityInv'
    OBVIOUS
  <2>1. part = "attempts" => AtInv'
    BY PartsMove, StepAttempts, LimitsAssumption
    DEF AuthorityInv, AtConstants, At!attemptVars, now, legacy, run, ledger
  <2>2. part = "chat" => ChInv'
    BY PartsMove, StepChat, ChatAssumption DEF AuthorityInv, ChConstants
  <2>3. part = "targets" => TaInv'
    BY PartsMove, StepTargets DEF AuthorityInv
  <2>4. part' = part
    BY PartsMove
  <2>5. QED BY <2>1, <2>2, <2>3, <2>4 DEF AuthorityInv
<1>3. AuthorityInv => AuthorityHolds
  BY LimitsFollow, ProposalsFollow, QuotaFollows, SlotsFollow, ApprovalFollows, GuardFollows
  DEF AuthorityInv, AuthorityHolds
<1>4. QED BY <1>1, <1>2, <1>3, PTL DEF Spec

-----------------------------------------------------------------------------
(* SignInsAreCurrent and PrivilegeIsEarned.                                *)

SignInInv == /\ part = "auth" => OpInv
             /\ part = "sessions" => DeInv

LEMMA SignInInvariant == Spec => []SignInInv
<1>1. Init => SignInInv
  BY PartsStart, InitAuth, InitDevices, SessionAssumption DEF SignInInv, DeConstants
<1>2. SignInInv /\ [Next]_vars => SignInInv'
  <2>. SUFFICES ASSUME SignInInv, [Next]_vars PROVE SignInInv'
    OBVIOUS
  <2>1. part = "auth" => OpInv'
    BY PartsMove, StepAuth, SignInAssumption DEF SignInInv, OpConstants
  <2>2. part = "sessions" => DeInv'
    BY PartsMove, StepDevices, SessionAssumption DEF SignInInv, DeConstants
  <2>3. part' = part
    BY PartsMove
  <2>4. QED BY <2>1, <2>2, <2>3 DEF SignInInv
<1>3. QED BY <1>1, <1>2, PTL DEF Spec

(* Dropping old failure rows never changes who is locked out, and a device *)
(* revoked a cache's age ago is refused by every worker.                   *)
THEOREM SignInsStayCurrent == Spec => []SignInsAreCurrent
<1>1. SignInInv => SignInsAreCurrent
  BY PruningFollows, RevocationFollows DEF SignInInv, SignInsAreCurrent
<1>2. QED BY <1>1, SignInInvariant, PTL

(* A lock takes that many failures of its own, and a marker is accepted    *)
(* only while its window and its cap allow.                                *)
THEOREM PrivilegeStaysEarned == Spec => PrivilegeIsEarned
<1>. DEFINE Earned == /\ part = "auth" => Op!LockIsEarned
                      /\ part = "sessions" => De!ElevationIsRecent
<1>1. SignInInv /\ [Next]_vars => [Earned]_vars
  <2>. SUFFICES ASSUME SignInInv, Next PROVE Earned \/ UNCHANGED vars
    OBVIOUS
  <2>1. CASE part = "auth"
    <3>1. Op!LockIsEarned \/ UNCHANGED Op!authVars
      BY <2>1, PartsMove, LocksFollow DEF SignInInv
    <3>2. part' = part /\ UNCHANGED <<v7, v8, v9, v10, v11, v12, v13, v14, v15>>
      BY <2>1 DEF Next, PartNext
    <3>3. QED BY <2>1, <3>1, <3>2 DEF Op!authVars, vars
  <2>2. CASE part = "sessions"
    <3>1. De!ElevationIsRecent \/ UNCHANGED De!sessionVars
      BY <2>2, PartsMove, ElevationFollows DEF SignInInv
    <3>2. part' = part /\ UNCHANGED <<v10, v11, v12, v13, v14, v15>>
      BY <2>2 DEF Next, PartNext
    <3>3. QED BY <2>2, <3>1, <3>2 DEF De!sessionVars, vars
  <2>3. QED BY <2>1, <2>2
<1>2. QED BY <1>1, SignInInvariant, PTL DEF Spec, PrivilegeIsEarned

-----------------------------------------------------------------------------
(* FailuresAreTold.                                                        *)

NewsInv == /\ part = "incidents" => InInv
           /\ part = "monitor" => MoInv

(* An incident's row is its history, old news was told, and what is on     *)
(* file has been reported.                                                 *)
THEOREM FailuresStayTold == Spec => []FailuresAreTold
<1>1. Init => NewsInv
  BY PartsStart, InitIncidents, InitMonitor DEF NewsInv
<1>2. NewsInv /\ [Next]_vars => NewsInv'
  <2>. SUFFICES ASSUME NewsInv, [Next]_vars PROVE NewsInv'
    OBVIOUS
  <2>1. part = "incidents" => InInv'
    BY PartsMove, StepIncidents DEF NewsInv
  <2>2. part = "monitor" => MoInv'
    BY PartsMove, StepMonitor DEF NewsInv
  <2>3. part' = part
    BY PartsMove
  <2>4. QED BY <2>1, <2>2, <2>3 DEF NewsInv
<1>3. NewsInv => FailuresAreTold
  BY HistoryFollows, NewsFollows, TellingFollows DEF NewsInv, FailuresAreTold
<1>4. QED BY <1>1, <1>2, <1>3, PTL DEF Spec

-----------------------------------------------------------------------------
(* SettingsAreReal and EditsAreRespected.                                  *)

SettingsInv == /\ part = "config" => CfInv
               /\ part = "wizard" => SeInv
               /\ part = "compose" => CwInv

LEMMA SettingsInvariant == Spec => []SettingsInv
<1>1. Init => SettingsInv
  BY PartsStart, InitConfig, InitSession, InitCompose, ConfigAssumption DEF SettingsInv, CfConstants
<1>2. SettingsInv /\ [Next]_vars => SettingsInv'
  <2>. SUFFICES ASSUME SettingsInv, [Next]_vars PROVE SettingsInv'
    OBVIOUS
  <2>1. part = "config" => CfInv'
    BY PartsMove, StepConfig, ConfigAssumption DEF SettingsInv, CfConstants
  <2>2. part = "wizard" => SeInv'
    BY PartsMove, StepSession DEF SettingsInv
  <2>3. part = "compose" => CwInv'
    BY PartsMove, StepCompose DEF SettingsInv
  <2>4. part' = part
    BY PartsMove
  <2>5. QED BY <2>1, <2>2, <2>3, <2>4 DEF SettingsInv
<1>3. QED BY <1>1, <1>2, PTL DEF Spec

(* Core enforces what the file says or the operator was told, and the      *)
(* wizard keeps what was proven; the plan it may be told to apply is of    *)
(* the answers as they are and of the host as it was last discovered.      *)
THEOREM SettingsStayReal == Spec => []SettingsAreReal
<1>1. SettingsInv => SettingsAreReal
  BY EnforcementFollows, ProofsFollow, ReviewFollows DEF SettingsInv, SettingsAreReal
<1>2. QED BY <1>1, SettingsInvariant, PTL

(* A configuration request replaces the text its operator saw, and puts it *)
(* back only in the place of its own draft or of an edit made on the host  *)
(* since; a compose write replaces what its approval expects; and its      *)
(* rollback takes what the write brought: whatever else was there when the *)
(* file was last looked at is left alone.                                  *)
THEOREM EditsStayRespected == Spec => EditsAreRespected
<1>. DEFINE Respected == /\ part = "config" => Cf!NothingSlipsIn /\ Cf!RestoreTakesItsOwn
                         /\ part = "compose" => Cw!WriteReplacesWhatItSaw /\ Cw!RollbackTakesItsOwn
<1>1. SettingsInv /\ [Next]_vars => [Respected]_vars
  <2>. SUFFICES ASSUME SettingsInv, Next PROVE Respected \/ UNCHANGED vars
    OBVIOUS
  <2>1. CASE part = "config"
    <3>1. (Cf!NothingSlipsIn /\ Cf!RestoreTakesItsOwn) \/ UNCHANGED Cf!configVars
      BY <2>1, PartsMove, SightFollows, RestoreFollows DEF SettingsInv
    <3>2. part' = part /\ UNCHANGED <<v11, v12, v13, v14, v15>>
      BY <2>1 DEF Next, PartNext
    <3>3. QED BY <2>1, <3>1, <3>2 DEF Cf!configVars, vars
  <2>2. CASE part = "compose"
    <3>1. (Cw!WriteReplacesWhatItSaw /\ Cw!RollbackTakesItsOwn) \/ UNCHANGED Cw!composeVars
      BY <2>2, PartsMove, WriteFollows, RollbackFollows DEF SettingsInv
    <3>2. part' = part
      BY DEF Next
    <3>3. QED BY <2>2, <3>1, <3>2 DEF Cw!composeVars, vars
  <2>3. QED BY <2>1, <2>2
<1>2. QED BY <1>1, SettingsInvariant, PTL DEF Spec, EditsAreRespected

-----------------------------------------------------------------------------
(* OutcomesAreHonest.                                                      *)

OutcomesInv == /\ part = "stacks" => StInv
               /\ part = "host" => HoInv
               /\ part = "verify" => VeInv
               /\ part = "weekly" => WeInv

(* What an operation says of itself is so: of the order of the stacks and  *)
(* of those reported down, of a host action's effect, of a check that      *)
(* passes, and of what the weekly pass did to a service; and that pass     *)
(* wakes once for each week.                                               *)
THEOREM OutcomesStayHonest == Spec => []OutcomesAreHonest
<1>1. StConstants /\ VeConstants /\ WeConstants
  BY StackAssumption, VerifyAssumption, WeeklyAssumption DEF StConstants, VeConstants, WeConstants
<1>2. Init => OutcomesInv
  BY <1>1, PartsStart, InitStacks, InitHost, InitVerify, InitWeekly DEF OutcomesInv
<1>3. OutcomesInv /\ [Next]_vars => OutcomesInv'
  <2>. SUFFICES ASSUME OutcomesInv, [Next]_vars PROVE OutcomesInv'
    OBVIOUS
  <2>1. part = "stacks" => StInv'
    BY <1>1, PartsMove, StepStacks DEF OutcomesInv
  <2>2. part = "host" => HoInv'
    BY PartsMove, StepHost DEF OutcomesInv
  <2>3. part = "verify" => VeInv'
    BY <1>1, PartsMove, StepVerify DEF OutcomesInv
  <2>4. part = "weekly" => WeInv'
    BY <1>1, PartsMove, StepWeekly DEF OutcomesInv
  <2>5. part' = part
    BY PartsMove
  <2>6. QED BY <2>1, <2>2, <2>3, <2>4, <2>5 DEF OutcomesInv
<1>4. OutcomesInv => OutcomesAreHonest
  BY BracketsFollow, DownFollows, HonestyFollows, VerdictFollows, WeeksFollow, ReportFollows
  DEF OutcomesInv, OutcomesAreHonest
<1>5. QED BY <1>2, <1>3, <1>4, PTL DEF Spec

-----------------------------------------------------------------------------
(* What is proved of ServicesAnswer and ViewsAreCurrent.                   *)

ServingInv == /\ part = "rpc" => RpInv
              /\ part = "cache" => CacheInv
              /\ part = "weekly" => WeInv

(* The socket leads to the server that accepts, and a decision finds its   *)
(* worker; a stack's services are shown as they were no longer ago than    *)
(* the cache may keep them; and a weekly pass that changed something has   *)
(* a re-scan asked for, or a person told.                                  *)
THEOREM ServingStaysTrue ==
  Spec => [](/\ part = "rpc" => Rp!ServerIsReachable /\ Rp!DecisionsHaveAWorker
             /\ part = "cache" => Tc!AnswersAreFresh
             /\ part = "weekly" => We!ChangesAreSeen)
<1>. DEFINE Serving == /\ part = "rpc" => Rp!ServerIsReachable /\ Rp!DecisionsHaveAWorker
                       /\ part = "cache" => Tc!AnswersAreFresh
                       /\ part = "weekly" => We!ChangesAreSeen
<1>1. WeConstants
  BY WeeklyAssumption DEF WeConstants
<1>2. Init => ServingInv
  BY <1>1, PartsStart, InitRpc, InitCache, InitWeekly, ServerAssumption, CacheAssumption
  DEF ServingInv, RpConstants
<1>3. ServingInv /\ [Next]_vars => ServingInv'
  <2>. SUFFICES ASSUME ServingInv, [Next]_vars PROVE ServingInv'
    OBVIOUS
  <2>1. part = "rpc" => RpInv'
    BY PartsMove, StepRpc, ServerAssumption DEF ServingInv, RpConstants
  <2>2. part = "cache" => CacheInv'
    BY PartsMove, StepCache, CacheAssumption DEF ServingInv
  <2>3. part = "weekly" => WeInv'
    BY <1>1, PartsMove, StepWeekly DEF ServingInv
  <2>4. part' = part
    BY PartsMove
  <2>5. QED BY <2>1, <2>2, <2>3, <2>4 DEF ServingInv
<1>4. ServingInv => Serving
  BY ReachFollows, WorkerFollows, FreshnessFollows, ChangesFollow DEF ServingInv
<1>5. QED BY <1>2, <1>3, <1>4, PTL DEF Spec

=============================================================================
