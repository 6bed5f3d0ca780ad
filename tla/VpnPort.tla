------------------------------ MODULE VpnPort ------------------------------
(* The monitor's check of the VPN's forwarded port.  gluetun renews the port in a   *)
(* cycle, clearing the old one first; a refused renewal leaves it without one until  *)
(* the next cycle, and its log has a line for every clear and every port it got.      *)
(* The check reads the port, then the log, then perhaps the port again.  Renewals     *)
(* fall between those reads; a check takes less than a unit of time.                   *)
EXTENDS Integers, FiniteSetsExt

CONSTANTS Cycle, Grace, SyncGrace, Lookback,      \* in that unit
          MaxTime, MaxFaults                       \* bounds

VARIABLES now,
          port, qbit,           \* gluetun's forwarded port, 0 if none; qBittorrent's
          lost,                 \* since when there has been no port (history)
          renewed,              \* the last renewal
          obtained, cleared,    \* the times in gluetun's log
          check,                \* [at, port, since]: where the check is
          report,               \* [say, blind]: what it said, and whether something failed under it
          faults
vpnVars == <<now, port, qbit, lost, renewed, obtained, cleared, check, report, faults>>

NoCheck == [at |-> "idle", port |-> 0, since |-> 0, blind |-> FALSE]
Nothing == [say |-> "nothing", blind |-> FALSE]
Init == /\ now = 0 /\ port = 1 /\ qbit = 1 /\ lost = 0 /\ renewed = 0
        /\ obtained = {0} /\ cleared = {} /\ check = NoCheck /\ report = Nothing /\ faults = 0

Fault == faults < MaxFaults /\ faults' = faults + 1
Gluetun == <<port, lost, renewed, obtained, cleared>>

Tick == /\ now < MaxTime /\ check.at = "idle" /\ now' = now + 1
        /\ now < renewed + Cycle
        /\ report' = Nothing
        /\ UNCHANGED <<Gluetun, qbit, check, faults>>
Renew == /\ now = renewed + Cycle /\ renewed' = now /\ cleared' = cleared \cup {now}
         /\ \/ port' \in {1, 2} /\ obtained' = obtained \cup {now} /\ UNCHANGED lost
            \/ /\ port' = 0 /\ UNCHANGED obtained
               /\ lost' = IF port = 0 THEN lost ELSE now
         /\ UNCHANGED <<now, qbit, check, report, faults>>
(* A new container has a log of its own *)
Recreated == /\ Fault /\ port' = 0 /\ lost' = (IF port = 0 THEN lost ELSE now)
             /\ obtained' = {} /\ cleared' = {}
             /\ UNCHANGED <<now, qbit, renewed, check, report>>
GspSyncs == /\ port # 0 /\ qbit # port /\ qbit' = port
            /\ UNCHANGED <<now, Gluetun, check, report, faults>>

-----------------------------------------------------------------------------
(* check_vpn_port_forwarding *)
Says(word, blind) == /\ report' = [say |-> word, blind |-> check.blind \/ blind]
                     /\ check' = NoCheck
Goes(at) == check' = [check EXCEPT !.at = at] /\ UNCHANGED report
CheckPort ==
  /\ check.at = "idle" /\ report = Nothing
  /\ \/ /\ check' = [NoCheck EXCEPT !.at = IF port = 0 THEN "missing" ELSE "have", !.port = port]
        /\ UNCHANGED <<report, faults>>
     \/ Fault /\ report' = [say |-> "high", blind |-> TRUE] /\ UNCHANGED check
  /\ UNCHANGED <<now, Gluetun, qbit>>
(* _gluetun_port_events: what of the log the lookback holds *)
Recent(times) == {t \in times : t >= now - Lookback}
Undated == -1
(* _seconds_since_port_lost: since the first clear after the last port it got *)
FirstClear(times) == now - Min(times)
SincePortLost ==
  LET got == Recent(obtained)
      open == {t \in Recent(cleared) : got # {} /\ t > Max(got)}
  IN  IF got = {} \/ open = {} THEN Undated ELSE FirstClear(open)
SincePortObtained == IF Recent(obtained) = {} THEN Undated ELSE now - Max(Recent(obtained))
(* settled: young enough, it is no alert yet; a log that cannot be read excuses nothing *)
Settled(since, window, confirmed, grace) ==
  IF since = Undated \/ since >= window THEN confirmed ELSE grace
Measure == /\ check.at = "missing"
           /\ \/ /\ Settled(SincePortLost, Grace, Goes("confirm"), Says("grace", FALSE))
                 /\ UNCHANGED faults
              \/ Fault /\ Says("high", TRUE)
           /\ UNCHANGED <<now, Gluetun, qbit>>
(* still_missing *)
Confirm == /\ check.at = "confirm"
           /\ \/ Says(IF port = 0 THEN "high" ELSE "grace", FALSE) /\ UNCHANGED faults
              \/ Fault /\ Says("high", TRUE)
           /\ UNCHANGED <<now, Gluetun, qbit>>
ReadQbit == /\ check.at = "have"
            /\ \/ /\ IF qbit = check.port THEN Says("well", FALSE) ELSE Goes("mismatch")
                  /\ UNCHANGED faults
               \/ Fault /\ Says("high", TRUE)
            /\ UNCHANGED <<now, Gluetun, qbit>>
MeasureSync == /\ check.at = "mismatch"
               /\ \/ /\ Settled(SincePortObtained, SyncGrace, Says("unsynced", FALSE), Says("grace", FALSE))
                     /\ UNCHANGED faults
                  \/ Fault /\ Says("high", TRUE)
               /\ UNCHANGED <<now, Gluetun, qbit>>

Next == \/ Tick \/ Renew \/ Recreated \/ GspSyncs
        \/ CheckPort \/ Measure \/ Confirm \/ ReadQbit \/ MeasureSync
Spec == Init /\ [][Next]_vpnVars

-----------------------------------------------------------------------------
(* The check wakes somebody for a port that outlasted a renewal cycle, and for no other: *)
(* however many renewals in a row are refused, or land while it looks, it says `high' of   *)
(* an outage of the grace or longer and not of a younger one.  (A log it cannot read, or     *)
(* one that begins with the outage, makes it say so regardless.)                               *)
HighMeansOverdue ==
  report' # report /\ report'.say # "nothing" /\ ~report'.blind /\ obtained # {} =>
    /\ report'.say = "high" => port = 0 /\ now - lost >= Grace
    /\ report'.say = "grace" /\ port = 0 /\ check.at = "missing" => now - lost < Grace
=============================================================================
