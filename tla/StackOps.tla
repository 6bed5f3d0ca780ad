------------------------------ MODULE StackOps ------------------------------
(* Whole stacks up and down: casa_stackctl's commands, and the two orchestrators *)
(* under them, Docker Compose on the command line and the MOS API.  An operation  *)
(* reads the stack's status, acts, and reads it again.  Containers may die at any  *)
(* time.                                                                            *)
EXTENDS Naturals, SequencesExt

CONSTANTS Size,               \* stack -> how many services it has
          Forbidden, MaxFaults, MaxOps      \* the last two are bounds

VARIABLES provider,    \* "systemd" or "mos"
          lines,       \* Compose prints one JSON object a line, rather than one array
          core,        \* systemctl's answer about core: "active", "inactive" or "unknown"
          up,          \* stack -> its running containers
          dir,         \* the stacks there are
          cmd,         \* the command under way: [verb, all, listed, left, results, said]
          op,          \* its operation on one stack: [verb, stack, at, before]
          faults, ops
stackVars == <<provider, lines, core, up, dir, cmd, op, faults, ops>>

Stacks == DOMAIN Size
Ingress == "network"
NoOp == [verb |-> "none", stack |-> Ingress, at |-> "none", before |-> "none"]
NoCmd == [verb |-> "none", all |-> FALSE, listed |-> TRUE, left |-> <<>>, results |-> <<>>,
          said |-> "none"]
Init == /\ provider \in {"systemd", "mos"} /\ lines \in BOOLEAN
        /\ core = "inactive" /\ up \in [Stacks -> {0, 2}] /\ \A s \in Stacks : up[s] <= Size[s]
        /\ dir = Stacks /\ cmd = NoCmd /\ op = NoOp /\ faults = 0 /\ ops = 0

Fault == faults < MaxFaults /\ faults' = faults + 1
Nothing == UNCHANGED <<provider, lines, core>>

(* The order of a command on all stacks *)
Ordered(verb, set) == LET rest == SetToSeq(set \ {Ingress})
                          ingress == SetToSeq(set \cap {Ingress})
                      IN  IF verb = "up" THEN ingress \o rest ELSE rest \o ingress
(* `up' leaves the forbidden stacks out; to see them stopped is the point of `down' *)
Covered(verb) == IF verb = "up" THEN dir \ Forbidden ELSE dir

(* main: refused while core is running or cannot be asked, unless forced.  A listing the *)
(* orchestrator cannot get is no stacks at all.                                            *)
Command(verb, force) ==
  /\ cmd = NoCmd /\ op = NoOp /\ ops < MaxOps /\ ops' = ops + 1
  /\ \/ /\ ~force /\ core # "inactive" /\ cmd' = [NoCmd EXCEPT !.verb = verb, !.said = "refused"]
        /\ UNCHANGED faults
     \/ /\ force \/ core = "inactive"
        /\ \/ /\ cmd' = [NoCmd EXCEPT !.verb = verb, !.all = TRUE, !.left = Ordered(verb, Covered(verb))]
              /\ UNCHANGED faults
           \/ /\ verb = "down" /\ provider = "mos" /\ Fault
              /\ cmd' = [NoCmd EXCEPT !.verb = verb, !.all = TRUE, !.listed = FALSE]
           \/ /\ \E s \in Stacks :
                   cmd' = [NoCmd EXCEPT !.verb = verb,
                             !.left = IF s \in Covered(verb) THEN <<s>> ELSE <<>>,
                             !.said = IF s \in Covered(verb) THEN "none" ELSE "refused"]
              /\ UNCHANGED faults
  /\ UNCHANGED <<up, dir, op>> /\ Nothing
NextStack == /\ cmd.verb # "none" /\ cmd.said = "none" /\ op = NoOp /\ cmd.left # <<>>
             /\ op' = [verb |-> IF cmd.verb = "up" THEN "start" ELSE "stop",
                       stack |-> Head(cmd.left), at |-> "before", before |-> "none"]
             /\ cmd' = [cmd EXCEPT !.left = Tail(@)]
             /\ UNCHANGED <<up, dir, faults, ops>> /\ Nothing
Say == /\ cmd.verb # "none" /\ cmd.said = "none" /\ op = NoOp /\ cmd.left = <<>>
       /\ cmd' = [cmd EXCEPT !.said = IF \A i \in DOMAIN cmd.results : cmd.results[i].ok
                                      THEN "done" ELSE "failed"]
       /\ UNCHANGED <<up, dir, op, faults, ops>> /\ Nothing
Ends == cmd.said # "none" /\ cmd' = NoCmd /\ UNCHANGED <<up, dir, op, faults, ops>> /\ Nothing
(* The interface's other operations, one at a time *)
Direct(verb, s) == /\ cmd = NoCmd /\ op = NoOp /\ ops < MaxOps /\ ops' = ops + 1
                   /\ op' = [verb |-> verb, stack |-> s, before |-> "none",
                             at |-> IF verb = "create" /\ provider = "systemd" THEN "write" ELSE "before"]
                   /\ UNCHANGED <<up, dir, cmd, faults>> /\ Nothing

-----------------------------------------------------------------------------
(* get_stack_status.  Compose lists what runs: several objects, a line each, are no JSON *)
(* document, and that reads as stopped.                                                     *)
Status(s) == IF s \notin dir THEN "not-found"
             ELSE IF up[s] = 0 \/ (provider = "systemd" /\ lines /\ up[s] > 1) THEN "stopped"
             ELSE "running"
Reads(s, status) == \/ status = Status(s) /\ UNCHANGED faults
                    \/ status = "error" /\ s \in dir /\ Fault
Finish(ok, effect) ==
  /\ op' = NoOp
  /\ cmd' = IF cmd = NoCmd THEN cmd
            ELSE [cmd EXCEPT !.results = Append(@, [stack |-> op.stack, ok |-> ok, effect |-> effect])]
Goes(at) == op' = [op EXCEPT !.at = at] /\ UNCHANGED cmd
Before == /\ op.at = "before"
          /\ \E status \in {"running", "stopped", "not-found", "error"} :
               /\ Reads(op.stack, status)
               /\ IF op.verb = "delete" /\ status = "not-found" THEN Finish(TRUE, "no-change")
                  ELSE /\ op' = [op EXCEPT !.before = status, !.at =
                                   IF op.verb = "create" THEN "write"
                                   ELSE IF op.verb = "upgrade" /\ provider = "systemd" THEN "pull"
                                   ELSE "run"]
                       /\ UNCHANGED cmd
          /\ UNCHANGED <<up, dir, ops>> /\ Nothing
Pull == /\ op.at = "pull"
        /\ \/ op.stack \in dir /\ Goes("run") /\ UNCHANGED faults
           \/ Finish(FALSE, "error") /\ IF op.stack \in dir THEN Fault ELSE UNCHANGED faults
        /\ UNCHANGED <<up, dir, ops>> /\ Nothing
(* create_stack: the file first, and then a start like any other; MOS asks nothing of it *)
Write == /\ op.at = "write"
         /\ \/ /\ dir' = dir \cup {op.stack} /\ UNCHANGED faults
               /\ IF provider = "systemd"
                  THEN op' = [op EXCEPT !.at = "before", !.verb = "start"] /\ UNCHANGED cmd
                  ELSE Goes("run")
            \/ Fault /\ Finish(FALSE, "error") /\ UNCHANGED dir
         /\ UNCHANGED <<up, ops>> /\ Nothing

(* What the command or the API does to the running containers when it succeeds; cut off or *)
(* failed, any part of that.  Compose restarts what there is, and removes what it stops.      *)
Raised(n, size) == size
Stopped(n, size) == 0
Restarted(n, size) == IF n = 0 THEN 0 ELSE size
Goal(verb, n, size) == IF verb \in {"stop", "delete"} THEN Stopped(n, size)
                       ELSE IF verb = "restart" THEN Restarted(n, size) ELSE Raised(n, size)
Between(m, n) == {k \in 0..(m + n) : (m <= k /\ k <= n) \/ (n <= k /\ k <= m)}
Works(s) == s \in dir /\ up' = [up EXCEPT ![s] = Goal(op.verb, up[s], Size[s])] /\ UNCHANGED faults
Fails(s) == /\ IF s \in dir THEN Fault ELSE UNCHANGED faults
            /\ \E n \in IF s \in dir THEN Between(up[s], Goal(op.verb, up[s], Size[s])) ELSE {up[s]} :
                 up' = [up EXCEPT ![s] = n]
Run == /\ op.at = "run" /\ op.verb # "delete"
       /\ \/ Works(op.stack) /\ Goes("after")
          \/ Fails(op.stack) /\ IF op.verb = "create" THEN Goes("after") ELSE Finish(FALSE, "error")
       /\ UNCHANGED <<dir, ops>> /\ Nothing
(* delete_stack: one call of the API, or a stop, whatever comes of it, and the directory *)
DeleteByApi == /\ op.at = "run" /\ op.verb = "delete" /\ provider = "mos"
               /\ \/ Works(op.stack) /\ dir' = dir \ {op.stack} /\ Finish(TRUE, "applied")
                  \/ Fails(op.stack) /\ Finish(FALSE, "error") /\ UNCHANGED dir
               /\ UNCHANGED ops /\ Nothing
StopToDelete == /\ op.at = "run" /\ op.verb = "delete" /\ provider = "systemd"
                /\ (Works(op.stack) \/ Fails(op.stack)) /\ Goes("remove")
                /\ UNCHANGED <<dir, ops>> /\ Nothing
RmTree == /\ op.at = "remove"
          /\ \/ dir' = dir \ {op.stack} /\ Finish(TRUE, "applied") /\ UNCHANGED faults
             \/ Fault /\ Finish(FALSE, "error") /\ UNCHANGED dir
          /\ UNCHANGED <<up, ops>> /\ Nothing
Effect(status) == IF op.verb \in {"restart", "upgrade"} \/ status # op.before THEN "applied" ELSE "no-change"
(* Of a stack it created, MOS says `created' when it does not run *)
Made(status) == IF status = "running" THEN "applied" ELSE "created"
After == /\ op.at = "after"
         /\ \E status \in {"running", "stopped", "not-found", "error"} :
              /\ Reads(op.stack, status)
              /\ Finish(TRUE, IF op.verb = "create" THEN Made(status) ELSE Effect(status))
         /\ UNCHANGED <<up, dir, ops>> /\ Nothing

Dies == /\ Fault /\ \E s \in Stacks : up[s] > 0 /\ up' = [up EXCEPT ![s] = @ - 1]
        /\ UNCHANGED <<dir, cmd, op, ops>> /\ Nothing
CoreChanges == /\ Fault /\ core' \in {"active", "inactive", "unknown"} \ {core}
               /\ UNCHANGED <<provider, lines, up, dir, cmd, op, ops>>
Next == \/ \E verb \in {"up", "down"}, force \in BOOLEAN : Command(verb, force)
        \/ \E verb \in {"create", "restart", "upgrade", "delete"}, s \in Stacks : Direct(verb, s)
        \/ NextStack \/ Say \/ Ends \/ Before \/ Pull \/ Write \/ Run
        \/ DeleteByApi \/ StopToDelete \/ RmTree \/ After
        \/ Dies \/ CoreChanges
Spec == Init /\ [][Next]_stackVars

-----------------------------------------------------------------------------
(* A command on all stacks goes around the ingress: up with it in place before anything *)
(* it routes to is started, down with everything else stopped before it is touched.       *)
IngressBracketsTheRest == cmd.all =>
  LET touched == {cmd.results[i].stack : i \in DOMAIN cmd.results} \cup
                 (IF op = NoOp THEN {} ELSE {op.stack})
  IN  IF cmd.verb = "up" THEN touched # {} /\ Ingress \in Covered("up") => Ingress \in touched
      ELSE Ingress \in touched => touched = dir
(* Unless the stacks could not be listed, a `down' of all that ends well has stopped every *)
(* one, the forbidden ones too: what runs then was started, or left, by no step of it.       *)
DownMeansDown == cmd.verb = "down" /\ cmd.all /\ cmd.listed /\ cmd.said = "done" =>
  \A s \in dir : up[s] = 0
=============================================================================
