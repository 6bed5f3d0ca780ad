----------------------------- MODULE WeeklyPass -----------------------------
(***************************************************************************)
(* The weekly canary pass: the thread that sleeps until its window on the  *)
(* wall clock (update_scheduler_loop), waits for a busy host, and updates  *)
(* one service after another through run_automatic (casa_zoidberg.py); and *)
(* /patchnow, which runs the same pass at once.  The clock on the wall may *)
(* be put forward or back, a sleep is measured on one that is not.         *)
(*                                                                         *)
(* What one update does to its service is Canary's; here it is the set of  *)
(* ends it can have: the row of its step, and what became of the service.  *)
(***************************************************************************)
EXTENDS Integers, Sequences

CONSTANTS
  Services,   \* the services of the eligible stacks, in order
  Week,       \* from one window to the next; one opens at every multiple of it
  Retry,      \* UPDATE_BUSY_RETRY_SECONDS
  MaxWait,    \* UPDATE_BUSY_MAX_WAIT_SECONDS
  Clear,      \* the sleep that clears the window
  Shift,      \* how far the wall clock is put forward or back
  MaxWindows, \* bound: windows slept towards
  MaxPatches, \* bound: /patchnow
  MaxFaults   \* bound: exceptions

VARIABLES
  now,      \* the monotonic clock
  offset,   \* the wall clock's difference to it
  at,       \* where update_scheduler_loop is
  until,    \* ... the end of its sleep
  waited,   \* ... for a busy host
  aimed,    \* history: the windows it slept towards
  lock,     \* the host-mutation lock and the scan slot: "free" or who is at work
  todo,     \* run_update_pass: the services to come, or "ending"
  results,  \* ... and what it has of the others
  host,     \* history: what the pass that runs did to each service
  asked,    \* history: the pass that runs asked for a re-scan
  patches,
  faults

vars == <<now, offset, at, until, waited, aimed, lock, todo, results, host, asked, patches, faults>>
clock == <<now, offset>>
loop == <<at, until, waited, aimed>>
pass == <<todo, results, host, asked>>

Named == {Services[i] : i \in DOMAIN Services}
Passes == {"weekly", "patchnow"}
Wall == now + offset
Fault == faults < MaxFaults /\ faults' = faults + 1

Untouched == [image |-> "before", moved |-> FALSE, watched |-> FALSE]
Watched(i) == [image |-> i, moved |-> TRUE, watched |-> TRUE]
Unwatched == [image |-> "unknown", moved |-> TRUE, watched |-> FALSE]

NoResults == [s \in Named |-> "none"]
Quiet == [s \in Named |-> Untouched]

Init == /\ now \in {1, Week} /\ offset = 0
        /\ at = "plan" /\ until = 0 /\ waited = 0 /\ aimed = <<>>
        /\ lock = "free"
        /\ todo = <<>> /\ results = NoResults /\ host = Quiet /\ asked = FALSE
        /\ patches = 0 /\ faults = 0

----------------------------------------------------------------------------
(* The loop.                                                               *)

(* _seconds_until_next_update_window: a window that opens now is over.     *)
NextWindow(wall) == CHOOSE t \in (wall + 1)..(wall + Week) : t % Week = 0

SleepFor(d, then) == until' = now' + d /\ at' = then

Plan == /\ at = "plan" /\ Len(aimed) < MaxWindows
        /\ UNCHANGED clock
        /\ SleepFor(NextWindow(Wall) - Wall, "asleep")
        /\ aimed' = Append(aimed, NextWindow(Wall))
        /\ waited' = 0
        /\ UNCHANGED <<lock, pass, patches, faults>>

(* A sleep is over; the wall clock may have been put meanwhile.            *)
Wake == /\ at \in {"asleep", "waiting", "clearing"}
        /\ now' = IF until > now THEN until ELSE now
        /\ offset' \in IF offset = 0 THEN {0, Shift, -Shift} ELSE {offset}
        /\ at' = IF at = "clearing" THEN "plan" ELSE "try"
        /\ UNCHANGED <<until, waited, aimed, lock, pass, patches, faults>>

StartPass(who) == /\ lock = "free"
                  /\ lock' = who
                  /\ todo' = Services

(* _run_scheduled_update_pass.                                             *)
Begin == /\ at = "try" /\ StartPass("weekly")
         /\ at' = "pass"
         /\ UNCHANGED <<clock, until, waited, aimed, results, host, asked, patches, faults>>

WaitForHost == /\ at = "try" /\ lock # "free" /\ waited < MaxWait
               /\ UNCHANGED clock
               /\ SleepFor(Retry, "waiting")
               /\ waited' = waited + Retry
               /\ UNCHANGED <<aimed, lock, pass, patches, faults>>

SkipWeek == /\ at = "try" /\ lock # "free" /\ waited >= MaxWait
            /\ UNCHANGED clock
            /\ SleepFor(Clear, "clearing")
            /\ UNCHANGED <<waited, aimed, lock, pass, patches, faults>>

(* _run_update_pass: a busy host turns it away.                            *)
PatchNow == /\ patches < MaxPatches
            /\ StartPass("patchnow")
            /\ patches' = patches + 1
            /\ UNCHANGED <<clock, loop, results, host, asked, faults>>

----------------------------------------------------------------------------
(* run_update_pass, and the ends of one update.                            *)

Row(status, effect, output, why) ==
  [status |-> status, effect |-> effect, output |-> output, why |-> why]
End(row, service) == [row |-> row, service |-> service]
NoRow == Row("none", "none", FALSE, "")

(* Refused before a step row was there, or by the attempt limits, or       *)
(* before it was dispatched; or pulled, and nothing deployed.              *)
Idle == {End(r, Untouched) :
           r \in {NoRow, Row("skipped", "none", FALSE, ""),
                  Row("failed", "not_applied", FALSE, "refused"),
                  Row("failed", "not_applied", FALSE, "pull failed"),
                  Row("passed", "not_applied", TRUE, "current")}}

(* Deployed and watched; put back and watched; or neither is known: the    *)
(* inverse failed too, or the step broke off without its outputs.          *)
Deployed ==
  {End(Row("passed", "applied", TRUE, ""), Watched("newer")),
   End(Row("failed", "not_applied", TRUE, ""), Watched("before"))}
  \cup {End(Row("failed", "unknown", o, ""), Unwatched) : o \in BOOLEAN}

(* _classify, of the step's row.                                           *)
Classify(r) ==
  CASE r.status = "none" -> "skipped"
    [] r.status = "passed" /\ r.effect = "applied" -> "updated"
    [] r.status = "passed" /\ r.effect # "applied" -> "no_change"
    [] r.effect = "unknown" -> IF r.output THEN "rollback_failed" ELSE "interrupted"
    [] r.status = "failed" /\ r.effect # "unknown" /\ r.output -> "rolled_back"
    [] OTHER -> IF r.why = "pull failed" THEN "pull_failed" ELSE "skipped"

Running == lock \in Passes

(* canary_update_service; an exception from the store, the history file or *)
(* the report makes an "error" of any end.                                 *)
Update ==
  /\ Running /\ todo \notin {<<>>, <<"ending">>}
  /\ \E e \in Idle \cup Deployed :
       /\ host' = [host EXCEPT ![Head(todo)] = e.service]
       /\ \/ results' = [results EXCEPT ![Head(todo)] = Classify(e.row)] /\ UNCHANGED faults
          \/ results' = [results EXCEPT ![Head(todo)] = "error"] /\ Fault
  /\ todo' = Tail(todo)
  /\ UNCHANGED <<clock, loop, lock, asked, patches>>

(* The pass asks for one scan.                                             *)
WorthAScan == {"updated", "rolled_back"}

AskForScan == /\ Running /\ todo = <<>>
              /\ asked' = \E s \in Named : results[s] \in WorthAScan
              /\ todo' = <<"ending">>
              /\ UNCHANGED <<clock, loop, lock, results, host, patches, faults>>

(* summarize_pass: those listed as urgent or as not updated; Telegram may  *)
(* not take the message.                                                   *)
NeedsAPerson(result) == result \notin {"updated", "no_change", "rolled_back"}

(* The finally clause: its variables are gone, and the pass took its time. *)
EndPass == /\ Running /\ todo = <<"ending">>
           /\ lock' = "free"
           /\ todo' = <<>> /\ results' = NoResults /\ host' = Quiet /\ asked' = FALSE
           /\ now' \in {now, now + 1}
           /\ IF lock = "weekly" THEN SleepFor(Clear, "clearing") ELSE UNCHANGED <<at, until>>
           /\ UNCHANGED <<offset, waited, aimed, patches, faults>>

----------------------------------------------------------------------------
(* Scans and other mutations.                                              *)

OthersBegin == lock = "free" /\ lock' = "other" /\ UNCHANGED <<clock, loop, pass, patches, faults>>
OthersEnd == lock = "other" /\ lock' = "free" /\ UNCHANGED <<clock, loop, pass, patches, faults>>

Next == \/ Plan \/ Wake \/ Begin \/ WaitForHost \/ SkipWeek \/ PatchNow
        \/ Update \/ AskForScan \/ EndPass
        \/ OthersBegin \/ OthersEnd

Spec == Init /\ [][Next]_vars

----------------------------------------------------------------------------
(* Properties.                                                             *)

(* Every week's window is slept towards once, and no week is left out,     *)
(* however long the host was busy and whichever way the clock was put.     *)
EveryWeekOnce == \A i \in 2..Len(aimed) : aimed[i] = aimed[i - 1] + Week

(* What the digest says of a service is true of it: updated and rolled     *)
(* back were watched, and one that was not updated was not touched.        *)
ReportIsHonest == \A s \in Named :
  /\ results[s] = "updated" => host[s] = Watched("newer")
  /\ results[s] = "rolled_back" => host[s] = Watched("before")
  /\ results[s] \in {"skipped", "pull_failed", "no_change"} => ~host[s].moved

(* A pass that changed the host ends with a re-scan asked for, or with the *)
(* service among those that need a person.                                 *)
ChangesAreSeen == todo = <<"ending">> =>
  \A s \in Named : host[s].moved =>
     asked \/ NeedsAPerson(results[s])
=============================================================================
