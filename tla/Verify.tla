------------------------------- MODULE Verify -------------------------------
(* What makes a step `verified': the watch over containers that were just started or  *)
(* restarted.  They are read one after the other, every poll; between two reads any of   *)
(* them may crash and be started again by Docker, which counts that, may stop for good,   *)
(* or may turn healthy or unhealthy.  The check after a restart and the canary's watch     *)
(* are over one container, with a count to start from.                                      *)
EXTENDS Integers, FiniteSets

CONSTANTS Containers, Poll, Stable, Timeout,
          MaxCrashes, MaxTurns, MaxFaults          \* bounds

VARIABLES now,
          run,         \* container -> [up, health, restarts]
          watch,       \* [kind, at, start, round, all, todo, good, since, base]: the check
          verdict,     \* "none", "passed" or "failed"
          calm,        \* container -> no crash since its count was taken (history)
          settled,     \* container -> since when it is not starting (history)
          read,        \* container -> those two and the time, at its last good reading (history)
          crashes, turns, faults
verifyVars == <<now, run, watch, verdict, calm, settled, read, crashes, turns, faults>>

Never == -1
Unread == -1
Kinds == {"stack", "restart", "canary"}
Init == /\ now = 0
        /\ run \in [Containers -> {[up |-> TRUE, health |-> h, restarts |-> 0] : h \in {"none", "starting"}}]
        /\ \E kind \in Kinds, targets \in SUBSET Containers :
             /\ targets # {} /\ (kind # "stack" => Cardinality(targets) = 1)
             /\ watch = [kind |-> kind, at |-> IF kind = "stack" THEN "list" ELSE "sleep", start |-> 0,
                         round |-> 0, all |-> targets, todo |-> {}, good |-> TRUE, since |-> Never,
                         base |-> [c \in Containers |-> IF kind = "stack" THEN Unread ELSE 0]]
        /\ verdict = "none" /\ calm = [c \in Containers |-> TRUE]
        /\ settled = [c \in Containers |-> 0] /\ read = [c \in Containers |-> [calm |-> TRUE, at |-> 0, from |-> 0]]
        /\ crashes = 0 /\ turns = 0 /\ faults = 0

Watching == verdict = "none"
Fault == faults < MaxFaults /\ faults' = faults + 1
(* The containers, while they are watched *)
Crashes(c) == /\ Watching /\ run[c].up /\ crashes < MaxCrashes /\ crashes' = crashes + 1
              /\ calm' = [calm EXCEPT ![c] = FALSE]
              /\ \/ run' = [run EXCEPT ![c] = [up |-> TRUE, restarts |-> @.restarts + 1,
                                               health |-> IF @.health = "none" THEN "none" ELSE "starting"]]
                 \/ run' = [run EXCEPT ![c].up = FALSE]
              /\ UNCHANGED <<now, watch, verdict, settled, read, turns, faults>>
Turns(c) == /\ Watching /\ run[c].up /\ run[c].health # "none" /\ turns < MaxTurns /\ turns' = turns + 1
            /\ \E health \in {"healthy", "unhealthy"} \ {run[c].health} :
                 run' = [run EXCEPT ![c].health = health]
            /\ settled' = IF run[c].health = "starting" THEN [settled EXCEPT ![c] = now] ELSE settled
            /\ UNCHANGED <<now, watch, verdict, calm, read, crashes, faults>>

-----------------------------------------------------------------------------
Fails == verdict' = "failed" /\ UNCHANGED watch
Round(at) == [watch EXCEPT !.at = "read", !.round = at, !.todo = watch.all, !.good = TRUE]
(* verify_stack_up asks Compose for the containers: none, or no answer, is a failure *)
List == /\ Watching /\ watch.at = "list"
        /\ \/ watch' = Round(now) /\ UNCHANGED <<verdict, faults>>
           \/ Fault /\ Fails
        /\ UNCHANGED <<now, run, calm, settled, read, crashes, turns>>
(* A reading may take its time *)
Slow == /\ Watching /\ watch.at = "read" /\ Fault /\ now' = now + 1
        /\ UNCHANGED <<run, watch, verdict, calm, settled, read, crashes, turns>>
(* read_health, and what the checks make of it.  A stack's counts start at the first reading. *)
(* Mutant: at the reading before this one. *)
BaseOfTheLast(c) == run[c].restarts
Base(c) == IF watch.base[c] = Unread THEN run[c].restarts ELSE watch.base[c]
Bad(c) == ~run[c].up \/ run[c].health = "unhealthy" \/ run[c].restarts > Base(c)
Waits(c) == watch.kind # "canary" /\ run[c].health = "starting"
Overdue == watch.kind = "stack" /\ now - watch.start >= Timeout
Read(c) ==
  /\ Watching /\ watch.at = "read" /\ c \in watch.todo
  /\ \/ /\ Overdue \/ Bad(c)
        /\ Fails /\ UNCHANGED <<calm, read, faults>>
     \/ /\ ~Overdue /\ ~Bad(c) /\ UNCHANGED <<verdict, faults>>
        /\ watch' = [watch EXCEPT !.todo = @ \ {c}, !.base[c] = Base(c),
                                  !.good = @ /\ ~Waits(c),
                                  !.at = IF watch.todo = {c} THEN "decide" ELSE "read"]
        /\ calm' = [calm EXCEPT ![c] = @ \/ watch.base[c] = Unread]
        /\ read' = [read EXCEPT ![c] = [calm |-> calm'[c], at |-> now, from |-> settled[c]]]
     \/ Fault /\ Fails /\ UNCHANGED <<calm, read>>
  /\ UNCHANGED <<now, run, settled, crashes, turns>>
(* The end of a poll: good for long enough, still waiting, or too late.  The canary's watch *)
(* passes when its time is up.                                                                  *)
Since == IF ~watch.good THEN Never ELSE IF watch.since = Never THEN watch.round ELSE watch.since
Steady == IF watch.kind = "canary" THEN watch.round - watch.start >= Stable
          ELSE watch.good /\ watch.round - Since >= Stable
Decide ==
  /\ Watching /\ watch.at = "decide"
  /\ IF Steady THEN verdict' = "passed" /\ UNCHANGED watch
     ELSE IF watch.kind # "canary" /\ watch.round - watch.start >= Timeout THEN Fails
     ELSE watch' = [watch EXCEPT !.since = Since, !.at = "sleep"] /\ UNCHANGED verdict
  /\ UNCHANGED <<now, run, calm, settled, read, crashes, turns, faults>>
Sleep == /\ Watching /\ watch.at = "sleep" /\ now' = now + Poll /\ watch' = Round(now')
         /\ UNCHANGED <<run, verdict, calm, settled, read, crashes, turns, faults>>

Next == \/ \E c \in Containers : Crashes(c) \/ Turns(c) \/ Read(c)
        \/ List \/ Slow \/ Decide \/ Sleep
Spec == Init /\ [][Next]_verifyVars

-----------------------------------------------------------------------------
(* `Passed' is earned.  None of the watched containers crashed between the moment its *)
(* count is from and its last reading, whatever the polls happened to see of it; and but   *)
(* for the canary, whose healthcheck may still be starting, none was starting for as long   *)
(* as the window is.  (A slow reading may cost the window its length.)                         *)
PassedIsEarned == verdict = "passed" => \A c \in watch.all :
  /\ read[c].calm
  /\ watch.kind # "canary" /\ faults = 0 => read[c].at - read[c].from >= Stable
=============================================================================
