------------------------------ MODULE Monitor ------------------------------
(* A scan from Leela's measurement to the report: the snapshot's severity of a stack *)
(* depends on the snapshot published before it, and what a quiet re-scan says on the   *)
(* findings saved before it.  One scan at a time (PipelineLock); the host changes and  *)
(* core may die between any two steps.  One stack, and the disk for another finding.    *)
EXTENDS Naturals, FiniteSets

CONSTANTS Services, Paused,                    \* the stack's, and those stopped on purpose
          MaxScans, MaxChanges, MaxFaults       \* bounds

VARIABLES state,       \* service -> what Compose says of its container
          disk,        \* the disk is nearly full
          snap,        \* the published snapshot's entry for the stack
          saved,       \* the saved findings, each [about, severity]
          scan,        \* [at, mode, quiet, entry, disk, before, findings]
          told,        \* saved findings that have been reported (history)
          urgent,      \* services published as urgent, and as failing ever since (history)
          cut,         \* core died between saving findings and reporting them
          scans, changes, faults
monitorVars == <<state, disk, snap, saved, scan, told, urgent, cut,
                 scans, changes, faults>>

Modes == {"full", "status", "updates"}
NoEntry == [status |-> "none", missing |-> {}, alert |-> "none"]
Idle == [at |-> "idle", mode |-> "full", quiet |-> FALSE, entry |-> NoEntry, disk |-> FALSE,
         before |-> {}, findings |-> {}]
Init == /\ state = [s \in Services |-> "healthy"] /\ disk = FALSE
        /\ snap = NoEntry /\ saved = {} /\ scan = Idle /\ told = {} /\ urgent = {}
        /\ cut = FALSE /\ scans = 0 /\ changes = 0 /\ faults = 0
Fault == faults < MaxFaults /\ faults' = faults + 1
History == <<told, urgent, cut>>

HostChanges ==
  /\ changes < MaxChanges /\ changes' = changes + 1
  /\ \/ \E s \in Services, to \in {"healthy", "starting", "unhealthy", "stopped", "gone"} :
          to # state[s] /\ state' = [state EXCEPT ![s] = to] /\ UNCHANGED disk
     \/ disk' = ~disk /\ UNCHANGED state
  /\ UNCHANGED <<snap, saved, scan, History, scans, faults>>

-----------------------------------------------------------------------------
Begin(mode, quiet) ==
  /\ scan.at = "idle" /\ scans < MaxScans /\ scans' = scans + 1
  /\ quiet => mode = "full"
  /\ scan' = [Idle EXCEPT !.at = "measuring", !.mode = mode, !.quiet = quiet]
  /\ UNCHANGED <<state, disk, snap, saved, History, changes, faults>>
(* check_stack_completeness.  One that is starting is unknown, which fails nothing; a *)
(* stopped container is excused when it is paused, an absent one never.                 *)
Failing(s) == \/ state[s] \in {"unhealthy", "gone"}
              \/ state[s] = "stopped" /\ s \notin Paused
(* Mutant: any failure before excuses this one. *)
FailedBefore(missing) == snap.missing # {}
Known(missing) == snap.status # "unknown" /\ snap.missing # {} /\ missing \subseteq snap.missing
Alert(missing) == IF missing = {} THEN "none"
                  ELSE IF Known(missing) THEN "LOW"
                  ELSE IF missing = Services THEN "CRITICAL" ELSE "HIGH"
Entry == LET missing == {s \in Services : Failing(s)} IN
         [status |-> IF missing = {} THEN "complete" ELSE "incomplete",
          missing |-> missing, alert |-> Alert(missing)]
Unreadable == [status |-> "unknown", missing |-> {}, alert |-> "MEDIUM"]
Measure ==
  /\ scan.at = "measuring"
  /\ \/ /\ scan' = [scan EXCEPT !.at = "measured", !.disk = disk,
                                !.entry = IF scan.mode = "full" THEN Entry ELSE NoEntry]
        /\ UNCHANGED faults
     \/ /\ scan.mode = "full" /\ Fault
        /\ scan' = [scan EXCEPT !.at = "measured", !.disk = disk, !.entry = Unreadable]
  /\ UNCHANGED <<state, disk, snap, saved, History, scans, changes>>
(* The snapshot replaces the one before whatever the mode; a short scan ends with it *)
Publish ==
  /\ scan.at = "measured" /\ snap' = scan.entry
  /\ IF scan.mode # "full" THEN scan' = Idle /\ UNCHANGED urgent
     ELSE /\ scan' = [scan EXCEPT !.at = "published"]
          /\ urgent' = CASE scan.entry.alert \in {"CRITICAL", "HIGH"} -> scan.entry.missing
                         [] scan.entry.status = "unknown" -> {}
                         [] OTHER -> urgent \cap scan.entry.missing
  /\ UNCHANGED <<state, disk, saved, told, cut, scans, changes, faults>>

-----------------------------------------------------------------------------
(* Hermes takes a stack's severity from its alert.  The model may fail, or answer what *)
(* cannot be parsed, which is a finding of its own.                                       *)
Slim == (IF scan.entry.alert # "none" THEN {[about |-> "stack", severity |-> scan.entry.alert]} ELSE {})
        \cup (IF scan.disk THEN {[about |-> "disk", severity |-> "HIGH"]} ELSE {})
Unparsed == {[about |-> "casa_hermes", severity |-> "HIGH"]}
Analyze ==
  /\ scan.at = "published"
  /\ \/ /\ scan' = [scan EXCEPT !.at = "analyzed", !.before = IF scan.quiet THEN saved ELSE {},
                                !.findings = Slim]
        /\ UNCHANGED faults
     \/ /\ Fault
        /\ \/ scan' = [scan EXCEPT !.at = "analyzed", !.before = IF scan.quiet THEN saved ELSE {},
                                   !.findings = Unparsed]
           \/ scan' = Idle
  /\ UNCHANGED <<state, disk, snap, saved, History, scans, changes>>
(* save_findings *)
Save == /\ scan.at = "analyzed" /\ saved' = scan.findings
        /\ told' = told \cap scan.findings
        /\ scan' = [scan EXCEPT !.at = "saved"]
        /\ UNCHANGED <<state, disk, snap, urgent, cut, scans, changes, faults>>
(* What the report tells: everything, or what the saved findings had not *)
News == scan.findings \ scan.before
Report ==
  /\ scan.at = "saved" /\ scan' = Idle
  /\ told' = told \cup News
  /\ cut' = (cut /\ scan.quiet)
  /\ UNCHANGED <<state, disk, snap, saved, urgent, scans, changes, faults>>
(* What was being written is lost with core, or cannot be read *)
Dies == /\ scan.at # "idle" /\ Fault /\ scan' = Idle
        /\ snap' \in IF scan.at = "measured" THEN {snap, NoEntry} ELSE {snap}
        /\ cut' = (cut \/ scan.at = "saved")
        /\ UNCHANGED <<state, disk, saved, told, urgent, scans, changes>>

Next == \/ HostChanges \/ Measure \/ Publish \/ Analyze \/ Save \/ Report \/ Dies
        \/ \E mode \in Modes, quiet \in BOOLEAN : Begin(mode, quiet)
Spec == Init /\ [][Next]_monitorVars

-----------------------------------------------------------------------------
(* A stack's failure is only ever published as LOW when each service it is about was  *)
(* published as urgent before and has failed in every full snapshot since: neither one   *)
(* failure becoming two, nor a stack that could not be read, nor one service recovering    *)
(* and another taking its place, passes for old news.                                        *)
LowIsKnown == snap.alert = "LOW" => snap.missing \subseteq urgent
(* Whatever order of scans, quiet or not, and of answers Hermes cannot parse: a finding *)
(* that is on file has been told to somebody.  (Core may die between the two; then the     *)
(* next scan that is not quiet tells it.)                                                     *)
NothingSavedUntold == scan.at = "idle" /\ ~cut => saved \subseteq told
=============================================================================
