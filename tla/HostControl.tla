---------------------------- MODULE HostControl ----------------------------
(* A host service started, stopped or restarted, as systemd's provider and MOS's  *)
(* (System V init scripts) do it: the sudo allowlist, the state before, the       *)
(* command, the state after.  Somebody else may start or stop the service at any   *)
(* time.  An init script's text and its exit code may disagree.                     *)
EXTENDS Naturals

CONSTANTS MaxActions, MaxFaults, MaxOthers      \* bounds

VARIABLES provider,    \* "systemd" or "mos"
          allowed,     \* the verbs the allowlist has
          service,     \* "running" or "stopped"
          action,      \* the action under way: [verb, at, before, reading, ran]
          result,      \* the last one's: [ok, effect, verb]
          told,        \* the last odd reading: [text, code, true, read]
          disturbed,   \* somebody else changed the service during this action
          done, faults, others
hostVars == <<provider, allowed, service, action, result, told, disturbed, done, faults, others>>

Verbs == {"start", "stop", "restart"}
States == {"running", "stopped"}
Unread == "none"
NoAction == [verb |-> "none", at |-> "none", before |-> Unread, ran |-> FALSE, moved |-> FALSE]
NoResult == [ok |-> FALSE, effect |-> "none", verb |-> "none"]
Honest == [text |-> "running", code |-> "running", true |-> "running", read |-> "running"]
Init == /\ provider \in {"systemd", "mos"} /\ allowed \in {Verbs, {"start", "stop"}}
        /\ service \in States /\ action = NoAction /\ result = NoResult /\ told = Honest
        /\ disturbed = FALSE /\ done = 0 /\ faults = 0 /\ others = 0

Begin(verb) == /\ action = NoAction /\ done < MaxActions /\ done' = done + 1
               /\ action' = [NoAction EXCEPT !.verb = verb, !.at = "gate"]
               /\ disturbed' = FALSE /\ result' = NoResult
               /\ UNCHANGED <<provider, allowed, service, told, faults, others>>
Ends(ok, effect) == /\ result' = [ok |-> ok, effect |-> effect, verb |-> action.verb]
                    /\ action' = [action EXCEPT !.at = "over"]
Gate == /\ action.at = "gate"
        /\ IF action.verb \in allowed
           THEN action' = [action EXCEPT !.at = "before"] /\ UNCHANGED result
           ELSE Ends(FALSE, "not_applied")
        /\ UNCHANGED <<provider, allowed, service, told, disturbed, done, faults, others>>

-----------------------------------------------------------------------------
(* _raw_state.  systemctl answers or it does not.  A script's text must be one of the two *)
(* known phrases, and an exit code that asserts something (0 or 3) must agree with it.      *)
MosState(text, code) == IF text \notin States \/ (code \in States /\ code # text) THEN Unread ELSE text
(* What may come of a reading: [text, code] of a service that is `true'; a fault of the *)
(* script makes one of its signals wrong or meaningless, or both meaningless.             *)
Signals(true) == {signals \in [text : States \cup {Unread}, code : States \cup {Unread}] :
                    \/ true \in {signals.text, signals.code}
                    \/ signals.text = Unread /\ signals.code = Unread}
Misread(state, signals) == [state |-> state, faults |-> faults + 1, told |-> signals]
Understood(signals) == MosState(signals.text, signals.code)
Readings ==
  {[state |-> service, faults |-> faults, told |-> told]}
  \cup (IF faults = MaxFaults THEN {}
        ELSE IF provider = "systemd" THEN {Misread(Unread, told)}
        ELSE {Misread(Understood(signals),
                      [text |-> signals.text, code |-> signals.code, true |-> service,
                       read |-> Understood(signals)]) : signals \in Signals(service)})
Reading(read) == faults' = read.faults /\ told' = read.told

SeenBefore(state) == IF state = Unread THEN Ends(FALSE, "not_applied")
                     ELSE /\ action' = [action EXCEPT !.at = "command", !.before = state]
                          /\ UNCHANGED result
Before == /\ action.at = "before" /\ \E read \in Readings : Reading(read) /\ SeenBefore(read.state)
          /\ UNCHANGED <<provider, allowed, service, disturbed, done, others>>
Goal(verb) == IF verb = "stop" THEN "stopped" ELSE "running"
(* A failed or timed-out command may have changed the service all the same *)
Command ==
  /\ action.at = "command"
  /\ \/ /\ service' = Goal(action.verb)
        /\ action' = [action EXCEPT !.at = "after", !.ran = TRUE, !.moved = service # service']
        /\ UNCHANGED <<result, faults>>
     \/ /\ faults < MaxFaults /\ faults' = faults + 1
        /\ service' \in {service, Goal(action.verb)}
        /\ \/ /\ result' = [ok |-> FALSE, effect |-> "unknown", verb |-> action.verb]
              /\ action' = [action EXCEPT !.at = "over", !.ran = TRUE, !.moved = service # service']
           \/ /\ service' = service    \* the command says it is done, and the service is not
              /\ action' = [action EXCEPT !.at = "after", !.ran = TRUE] /\ UNCHANGED result
  /\ UNCHANGED <<provider, allowed, told, disturbed, done, others>>
Effect(state) == IF action.verb = "restart" \/ state # action.before THEN "applied" ELSE "not_applied"
SeenAfter(state) == IF state = Unread THEN Ends(FALSE, "unknown")
                    ELSE Ends(state = Goal(action.verb), Effect(state))
After == /\ action.at = "after" /\ \E read \in Readings : Reading(read) /\ SeenAfter(read.state)
         /\ UNCHANGED <<provider, allowed, service, disturbed, done, others>>
Return == /\ action.at = "over" /\ action' = NoAction /\ result' = NoResult
          /\ UNCHANGED <<provider, allowed, service, told, disturbed, done, faults, others>>

SomebodyElse == /\ others < MaxOthers /\ others' = others + 1
                /\ service' \in States \ {service} /\ disturbed' = (action # NoAction)
                /\ UNCHANGED <<provider, allowed, action, result, told, done, faults>>
Next == \/ \E verb \in Verbs : Begin(verb)
        \/ Gate \/ Before \/ Command \/ After \/ Return \/ SomebodyElse
Spec == Init /\ [][Next]_hostVars

-----------------------------------------------------------------------------
(* Whatever one signal says, the two providers never take a service for what it is not: *)
(* when text and code cannot both be right, the state is not known.  And what comes of an  *)
(* action is told as it was, unless somebody else was at the service meanwhile: nothing     *)
(* happened only when the service was not moved, something when it was.                       *)
OutcomeIsHonest ==
  /\ told.read \in {told.true, Unread}
  /\ action.at = "over" /\ ~disturbed =>
       /\ result.effect = "not_applied" => ~action.moved
       /\ result.effect = "applied" /\ action.verb # "restart" => action.moved
       /\ result.ok => service = Goal(action.verb)
=============================================================================
