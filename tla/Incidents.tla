----------------------------- MODULE Incidents -----------------------------
(* The incident of one subject: what each full scan observes of it           *)
(* (observations_from_snapshot) and how the store reconciles observations.   *)
EXTENDS Naturals, Sequences, FiniteSets

CONSTANT MaxScans    \* bound: full scans

Failing(severity) == [condition |-> "failing", severity |-> severity]
Unknown(severity) == [condition |-> "unknown", severity |-> severity]
Healthy == [condition |-> "healthy", severity |-> "none"]

(* What the monitor may find of a subject of each kind, and how it is observed.  A fact   *)
(* with no entry is not observed: the subject is gone, or its check was not available.    *)
ContainerHealth == [well |-> Healthy, starting |-> Unknown("none"), issue |-> Failing("MEDIUM"),
                    crash_looping |-> Failing("HIGH"), database_down |-> Failing("HIGH")]
StackCompleteness == [complete |-> Healthy, incomplete |-> Failing("HIGH"), unsure |-> Unknown("MEDIUM")]
DiskUsage == [low |-> Healthy, high |-> Failing("HIGH"), full |-> Failing("CRITICAL")]
ConfiguredMounts == [reachable |-> Healthy, missing_some |-> Failing("HIGH")]
UnraidExports == [fine |-> Healthy, unreachable |-> Unknown("MEDIUM"), duplicates |-> Failing("HIGH")]
NfsDiscovery == [failed |-> Unknown("MEDIUM")]
NfsMount == [ok |-> Healthy, stale |-> Failing("HIGH")]
VpnPortForwarding == [forwarded |-> Healthy, in_grace |-> Unknown("MEDIUM"), alert |-> Failing("HIGH")]
BackupJob == [success |-> Healthy, failed |-> Failing("HIGH")]
SystemdService == [active |-> Healthy, inactive |-> Failing("MEDIUM")]
TlsCertificate == [valid |-> Healthy, unreadable |-> Failing("HIGH"), expired |-> Failing("CRITICAL"),
                   expiring |-> Failing("HIGH"), renew_soon |-> Failing("MEDIUM")]
Kinds == {ContainerHealth, StackCompleteness, DiskUsage, ConfiguredMounts, UnraidExports, NfsDiscovery,
          NfsMount, VpnPortForwarding, BackupJob, SystemdService, TlsCertificate}

NoRow == [status |-> "none", seen |-> Healthy, scan |-> 0, first |-> 0, occurrences |-> 0]
VARIABLES kind,       \* the subject's kind: one of Kinds
          scans,      \* full scans so far
          pending,    \* the scan under way: [scan, fact], or none
          receipts,   \* incident_reconciliations
          incident,   \* the subject's row, or NoRow
          history     \* ghost: what each reconciled scan observed
incidentVars == <<kind, scans, pending, receipts, incident, history>>

None == [scan |-> 0, fact |-> "gone"]
Init == /\ kind \in Kinds /\ scans = 0 /\ pending = None
        /\ receipts = {} /\ incident = NoRow /\ history = <<>>

(* run_pipeline in full mode collects a snapshot; its scan id is its content *)
Scan == /\ pending = None /\ scans < MaxScans
        /\ scans' = scans + 1
        /\ \E fact \in DOMAIN kind \cup {"gone"} : pending' = [scan |-> scans + 1, fact |-> fact]
        /\ UNCHANGED <<kind, receipts, incident, history>>

Observed(fact) == IF fact \in DOMAIN kind THEN <<kind[fact]>> ELSE <<>>
FirstSeen(row, n) == IF row.status = "none" THEN n ELSE row.first
(* reconcile_incidents for one observation *)
Reconciled(seen, row, n) ==
  CASE seen.condition = "healthy" ->
         (IF row.status = "none" THEN row ELSE [row EXCEPT !.status = "resolved", !.scan = n])
    [] seen.condition = "unknown" /\ seen.severity = "none" /\ row.status # "open" -> row
    [] OTHER -> [status |-> "open", seen |-> seen, scan |-> n,
                 first |-> FirstSeen(row, n),
                 occurrences |-> row.occurrences + 1]
(* One transaction.  A scan whose receipt exists changes nothing. *)
Reconcile ==
  /\ pending # None /\ pending.scan \notin receipts
  /\ receipts' = receipts \cup {pending.scan}
  /\ history' = Append(history, [scan |-> pending.scan, seen |-> Observed(pending.fact)])
  /\ incident' = IF Observed(pending.fact) = <<>> THEN incident
                 ELSE Reconciled(Observed(pending.fact)[1], incident, pending.scan)
  /\ UNCHANGED <<kind, scans, pending>>
(* The scan ends.  A reconciliation that raised, say over a duplicate subject, is dropped; *)
(* a scan that died before it is as well.                                                  *)
EndScan == /\ pending # None /\ pending' = None
           /\ UNCHANGED <<kind, scans, receipts, incident, history>>

Next == Scan \/ Reconcile \/ EndScan
Spec == Init /\ [][Next]_incidentVars

-----------------------------------------------------------------------------
(* The row is built one scan at a time.  It always says what the whole history of      *)
(* reconciled scans says: open if the subject was last reported bad and not since seen *)
(* healthy, whatever was unknown, missing, or dropped in between; first seen when it   *)
(* was first reported bad; one occurrence per scan that saw it bad, or saw nothing     *)
(* better while it was open.                                                            *)
Said(i, c) == history[i].seen # <<>> /\ history[i].seen[1].condition \in c
Alerting(i) == Said(i, {"failing", "unknown"}) /\ history[i].seen[1].severity # "none"
OpenAfter(i) == \E j \in 1..i : /\ Alerting(j)
                                /\ \A k \in (j + 1)..i : ~Said(k, {"healthy"})
RowTellsHistory ==
  LET n == Len(history)  bad == {i \in 1..n : Alerting(i)} IN
  /\ incident.status = IF bad = {} THEN "none" ELSE IF OpenAfter(n) THEN "open" ELSE "resolved"
  /\ incident.occurrences = Cardinality(
       {i \in 1..n : Alerting(i) \/ (Said(i, {"unknown"}) /\ OpenAfter(i - 1))})
  /\ bad # {} => incident.first = history[CHOOSE i \in bad : \A j \in bad : i <= j].scan
=============================================================================
