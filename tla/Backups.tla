------------------------------ MODULE Backups ------------------------------
(* A backup job as systemd runs it and as the monitor tells of it.  What systemd says *)
(* of a unit's last run is kept in memory: a reboot takes the time it ended and puts    *)
(* its result back to the default; the journal keeps both.                               *)
EXTENDS Naturals, Sequences

CONSTANTS MaxRuns, MaxReboots, MaxFaults, Lines      \* bounds; the last, of the journal read

VARIABLES running,
          unit,        \* systemd's properties: [ended, result]
          journal,     \* the terminal events: [at, ok]
          last,        \* how the last run really ended (history)
          told,        \* the last check's answer, and `last' at that moment: [result, run, truth]
          runs, reboots, faults
backupVars == <<running, unit, journal, last, told, runs, reboots, faults>>

Never == 0
Fresh == [ended |-> Never, result |-> "success"]
Init == /\ running = FALSE /\ unit = Fresh /\ journal = <<>> /\ last = "none"
        /\ told = [result |-> "unknown", run |-> Never, truth |-> "none"]
        /\ runs = 0 /\ reboots = 0 /\ faults = 0

JobStarts == /\ ~running /\ runs < MaxRuns /\ runs' = runs + 1
             /\ running' = TRUE /\ unit' = [unit EXCEPT !.result = "success"]
             /\ UNCHANGED <<journal, last, told, reboots, faults>>
JobEnds(ok) == /\ running /\ running' = FALSE
               /\ unit' = [ended |-> runs, result |-> IF ok THEN "success" ELSE "failed"]
               /\ journal' = Append(journal, [at |-> runs, ok |-> ok])
               /\ last' = IF ok THEN "success" ELSE "failed"
               /\ UNCHANGED <<told, runs, reboots, faults>>
Reboots == /\ ~running /\ reboots < MaxReboots /\ reboots' = reboots + 1 /\ unit' = Fresh
           /\ UNCHANGED <<running, journal, last, told, runs, faults>>

(* get_host_logs: the journal's text, one message a line, without its fields *)
HostLogs == [i \in 1..Len(journal) |-> [text |-> journal[i].ok, stamp |-> Never]]
(* _last_journal_completion: no time of its own, no answer *)
LastJournalCompletion ==
  LET lines == IF Len(HostLogs) <= Lines THEN HostLogs
               ELSE SubSeq(HostLogs, Len(HostLogs) - Lines + 1, Len(HostLogs))
  IN  IF lines = <<>> \/ lines[Len(lines)].stamp = Never THEN [run |-> Never, result |-> "none"]
      ELSE [run |-> lines[Len(lines)].stamp,
            result |-> IF lines[Len(lines)].text THEN "success" ELSE "failed"]
(* check_backups *)
Told(result, run) == told' = [result |-> result, run |-> run, truth |-> IF running THEN "none" ELSE last]
Check ==
  /\ \/ /\ unit.ended # Never /\ Told(unit.result, unit.ended) /\ UNCHANGED faults
     \/ /\ unit.ended = Never /\ UNCHANGED faults
        /\ LET found == LastJournalCompletion IN
           Told(IF found.result = "none" THEN unit.result ELSE found.result, found.run)
     \/ faults < MaxFaults /\ faults' = faults + 1 /\ Told("unknown", Never)
  /\ UNCHANGED <<running, unit, journal, last, runs, reboots>>

Next == JobStarts \/ (\E ok \in BOOLEAN : JobEnds(ok)) \/ Reboots \/ Check
Spec == Init /\ [][Next]_backupVars

-----------------------------------------------------------------------------
(* _last_journal_completion's docstring: a broken backup misreported as healthy is the *)
(* failure mode it exists to prevent.  A check while the job is not running never says    *)
(* `success' of a job whose last run failed, reboot or not.                                 *)
BackupIsToldAsItEnded == told.result = "success" => told.truth # "failed"
=============================================================================
