------------------------------- MODULE Boot -------------------------------
(* casa_boot.py: every active stack brought up once after a boot, in the order *)
(* of the dependency graph; containers bound to a vanished network namespace   *)
(* are recreated, failed stacks tried again, and the result verified. Docker   *)
(* is modelled by what the script relies on: a container:<name> reference is   *)
(* resolved to an id when the container is created and never again.            *)
EXTENDS Naturals, Sequences

(* The graph of couplings between compose services (core/dependencies.py), rebuilt    *)
(* from the parsed compose files, and the order of stacks it implies.  A service is a  *)
(* record: its stack and name, and what its compose entry says.                         *)
Key(s) == <<s.stack, s.name>>
Edge(kind, s, t) == [kind |-> kind, source |-> Key(s), target |-> Key(t)]
CrossProject(edge) == edge.source[1] # edge.target[1]
SameStack(fleet, s) == {t \in fleet : t.stack = s.stack}

(* DependsOnDetector: only a service of the same file can be named *)
DependsOn(fleet) == {Edge("depends_on", p[1], p[2]) : p \in
  {p \in fleet \X fleet : p[2].stack = p[1].stack /\ p[2].name \in p[1].depends}}
(* NamespaceReferenceDetector: service:<name> within the file, container:<name> anywhere *)
Names(s, t) == \/ s.mode.ref = "service" /\ t.stack = s.stack /\ t.name = s.mode.of
               \/ s.mode.ref = "container" /\ t.container = s.mode.of
Namespace(fleet) == {Edge("namespace", p[1], p[2]) : p \in
  {p \in fleet \X fleet : Names(p[1], p[2])}}
(* SharedMountDetector: symmetric, each pair once *)
SharedMount(fleet) == {Edge("shared_mount", p[1], p[2]) : p \in
  {p \in fleet \X fleet : p[1].rank < p[2].rank /\ p[1].mounts \cap p[2].mounts # {}}}
(* TraefikRouterDetector: one other service declares what the router names *)
Declarers(fleet, service) == {t \in fleet : service \in t.declares}
TraefikRouter(fleet) == {Edge("traefik_router", p[1], p[2]) : p \in
  {p \in fleet \X fleet : /\ p[1] # p[2]
                          /\ \E r \in p[1].routes \ {"internal"} : Declarers(fleet, r) = {p[2]}}}
(* EnvVarReferenceDetector: a service of its own stack first, else the only one of that name *)
Named(fleet, host) == {t \in fleet : t.name = host}
EnvOwner(fleet, s, host) ==
  LET near == Named(SameStack(fleet, s), host) IN IF near # {} THEN near ELSE Named(fleet, host)
EnvReference(fleet) == {Edge("env_reference", p[1], p[2]) : p \in
  {p \in fleet \X fleet : p[1] # p[2] /\ \E h \in p[1].env : EnvOwner(fleet, p[1], h) = {p[2]}}}
Discover(fleet) == UNION {DependsOn(fleet), Namespace(fleet), SharedMount(fleet),
                          TraefikRouter(fleet), EnvReference(fleet)}
(* What looks like a reference and names nothing, or more than one thing *)
Unresolved(fleet) ==
  {<<"depends_on", Key(s)>> : s \in {s \in fleet :
     \E n \in s.depends : \A t \in SameStack(fleet, s) : t.name # n}}
  \cup {<<"network_mode", Key(s)>> : s \in {s \in fleet :
     s.mode.ref \notin {"none", "ignored"} /\ \A t \in fleet : ~Names(s, t)}}
  \cup {<<"label", Key(s)>> : s \in {s \in fleet :
     \E r \in s.routes \ {"internal"} : ~\E t \in fleet : Declarers(fleet, r) = {t}}}

(* stack_precedence: only what cannot start in the wrong order constrains the stacks *)
Orders(edge) == edge.kind \in {"depends_on", "namespace"} /\ CrossProject(edge)
StackPrecedence(fleet, stack, stacks) ==
  {e.target[1] : e \in {e \in Discover(fleet) : Orders(e) /\ e.source[1] = stack}} \cap stacks

Placed(order) == {order[i] : i \in DOMAIN order}
(* stable_topological_order: the first of the remaining whose predecessors are placed; *)
(* shorter than the baseline on a cycle.                                                 *)
StableTopologicalOrder(baseline, before) ==
  LET ready(order) == {i \in DOMAIN baseline : /\ baseline[i] \notin Placed(order)
                                               /\ before[baseline[i]] \subseteq Placed(order)}
      first(s) == CHOOSE i \in s : \A j \in s : i <= j
      place[n \in 0..Len(baseline)] ==
        IF n = 0 THEN <<>>
        ELSE IF ready(place[n - 1]) = {} THEN place[n - 1]
        ELSE Append(place[n - 1], baseline[first(ready(place[n - 1]))])
  IN  place[Len(baseline)]
(* order_stacks: the baseline, whenever no better order can be computed *)
OrderStacks(fleet, baseline, readable) ==
  LET before == [s \in Placed(baseline) |-> StackPrecedence(fleet, s, Placed(baseline))]
      order == StableTopologicalOrder(baseline, before)
  IN  IF readable /\ Len(order) = Len(baseline) THEN order ELSE baseline

-----------------------------------------------------------------------------
CONSTANTS Fleets, Baseline, MaxFaults   \* bound: commands that fail or time out

VARIABLES fleet, order, readable,
          ct,        \* service -> its container: id (0: none), up, its namespace's id, stale
          at, next,  \* the phase, and the stack it is at
          failed, repairs, repairFailed, retryFailed,
          code,      \* the exit status, when at = "done"
          late,      \* ghost: the retry recreated a container, after the repair
          faults
bootVars == <<fleet, order, readable, ct, at, next, failed, repairs, repairFailed, retryFailed, code,
              late, faults>>

Active(s) == s.stack \in Placed(Baseline)
Counts(s) == Active(s) /\ s.declared /\ ~s.paused /\ ~s.oneoff
Refers(s) == s.mode.ref = "container"
Provider(fl, s) == CHOOSE t \in fl : Names(s, t)
Vanished == 99
(* What a power cut and Docker's restart policy may leave *)
Left(fl, s) ==
  LET ns == IF Refers(s) THEN {Provider(fl, s).rank, Vanished} ELSE {0}
  IN  IF s.oneoff \/ ~s.declared THEN [id : {s.rank}, up : {FALSE}, ns : ns, stale : {FALSE}]
      ELSE {[id |-> 0, up |-> FALSE, ns |-> 0, stale |-> FALSE]}
           \cup [id : {s.rank}, up : BOOLEAN, ns : ns, stale : BOOLEAN]
Init ==
  /\ fleet \in Fleets
  /\ readable \in BOOLEAN   \* the compose files, to order_stacks
  /\ order = OrderStacks(fleet, Baseline, readable)
  /\ ct \in {c \in [fleet -> UNION {Left(fleet, s) : s \in fleet}] :
               \A s \in fleet : c[s] \in Left(fleet, s)}
  /\ at = "starting" /\ next = 1 /\ failed = {} /\ repairs = {}
  /\ repairFailed = FALSE /\ retryFailed = FALSE /\ code = 0 /\ late = FALSE /\ faults = 0

(* Docker (external): a container is recreated when it has to be, and otherwise started *)
(* as it is; it needs a running provider, and if merely started the one it was made for. *)
Recreates(c, s, force) == force \/ c[s].id = 0 \/ c[s].stale
Starts(c, s, force) ==
  Refers(s) => LET p == c[Provider(fleet, s)]
               IN  \/ p.up /\ (Recreates(c, s, force) \/ c[s].ns = p.id)
                   \/ c[s].up /\ ~Recreates(c, s, force)
Started(c, s, force) ==
  IF ~Starts(c, s, force) THEN c[s]
  ELSE IF Recreates(c, s, force)
       THEN [id |-> c[s].id + s.rank + 100, up |-> TRUE, stale |-> FALSE,
             ns |-> IF Refers(s) THEN c[Provider(fleet, s)].id ELSE 0]
       ELSE [c[s] EXCEPT !.up = TRUE]
Of(stack) == {s \in fleet : s.stack = stack /\ s.declared}
UpSome(c, some) == [s \in fleet |-> IF s \in some THEN Started(c, s, FALSE) ELSE c[s]]
Roots(stack) == {s \in Of(stack) : ~Refers(s)}
UpStack(c, stack) == UpSome(UpSome(c, Roots(stack)), Of(stack) \ Roots(stack))
UpSucceeds(c, stack) ==
  \A s \in Of(stack) \ Roots(stack) : Starts(UpSome(c, Roots(stack)), s, FALSE)
Fault == faults < MaxFaults /\ faults' = faults + 1
(* One compose command: it does its work, or fails or times out with some of it done *)
Compose(stack, ok) ==
  \/ ct' = UpStack(ct, stack) /\ ok = UpSucceeds(ct, stack) /\ UNCHANGED faults
  \/ Fault /\ ~ok /\ ct' \in {ct, UpSome(ct, Roots(stack))}

Same == UNCHANGED <<fleet, order, readable>>
Start == /\ at = "starting" /\ next \in DOMAIN order /\ next' = next + 1
         /\ \E ok \in BOOLEAN : /\ Compose(order[next], ok)
                                 /\ failed' = IF ok THEN failed ELSE failed \cup {order[next]}
         /\ Same /\ UNCHANGED <<at, repairs, repairFailed, retryFailed, code, late>>
(* Mutant: what is running is taken to be connected. *)
NotRunning(s) == ~ct[s].up /\ \A t \in fleet : ct[t].id # ct[s].ns
(* _namespace_target_is_live; labels and one-off runs are the caller's *)
DeadNamespace(s) == \A t \in fleet : ct[t].id # ct[s].ns
Repairable(s) == /\ Active(s) /\ ~s.paused /\ ~s.oneoff /\ Refers(s) /\ ct[s].id # 0
                 /\ DeadNamespace(s)
Survey == /\ at = "starting" /\ next \notin DOMAIN order
          /\ \/ /\ at' = "repairing" /\ repairs' = {s \in fleet : Repairable(s)}
                /\ UNCHANGED <<repairFailed, faults, next>>
             \/ /\ Fault /\ at' = "retrying" /\ repairFailed' = TRUE /\ next' = 1
                /\ UNCHANGED repairs
          /\ Same /\ UNCHANGED <<ct, failed, retryFailed, code, late>>
(* up -d --force-recreate; a service the file no longer declares cannot be recreated *)
Repair == /\ at = "repairing"
          /\ \E s \in repairs :
               /\ repairs' = repairs \ {s}
               /\ \/ /\ s.declared /\ Starts(ct, s, TRUE)
                     /\ ct' = [ct EXCEPT ![s] = Started(ct, s, TRUE)]
                     /\ UNCHANGED <<repairFailed, faults>>
                  \/ /\ ~s.declared \/ ~Starts(ct, s, TRUE)
                     /\ repairFailed' = TRUE /\ UNCHANGED <<ct, faults>>
                  \/ Fault /\ repairFailed' = TRUE /\ UNCHANGED ct
          /\ Same /\ UNCHANGED <<at, next, failed, retryFailed, code, late>>
EndRepair == /\ at = "repairing" /\ repairs = {} /\ at' = "retrying" /\ next' = 1
             /\ Same
             /\ UNCHANGED <<ct, failed, repairs, repairFailed, retryFailed, code, late, faults>>
Retry == /\ at = "retrying" /\ next \in DOMAIN order /\ next' = next + 1
         /\ IF order[next] \in failed
            THEN \E ok \in BOOLEAN : /\ Compose(order[next], ok)
                                     /\ retryFailed' = (retryFailed \/ ~ok)
            ELSE UNCHANGED <<ct, retryFailed, faults>>
         /\ late' = (late \/ \E s \in fleet : ct[s].id \notin {0, ct'[s].id})
         /\ Same /\ UNCHANGED <<at, failed, repairs, repairFailed, code>>
(* Verify: unreadable declarations make nothing an orphan *)
Down(s, declaredKnown) == /\ Active(s) /\ ~s.paused /\ ~s.oneoff /\ ct[s].id # 0 /\ ~ct[s].up
                          /\ s.declared \/ ~declaredKnown
Verify ==
  /\ at = "retrying" /\ next \notin DOMAIN order /\ at' = "done"
  /\ \/ \E known \in BOOLEAN :
          /\ IF known THEN UNCHANGED faults ELSE Fault
          /\ code' = IF (\E s \in fleet : Down(s, known)) \/ retryFailed \/ repairFailed
                     THEN 1 ELSE 0
     \/ Fault /\ code' = 1
  /\ Same /\ UNCHANGED <<ct, next, failed, repairs, repairFailed, retryFailed, late>>

Next == Start \/ Survey \/ Repair \/ EndRepair \/ Retry \/ Verify
Spec == Init /\ [][Next]_bootVars

-----------------------------------------------------------------------------
(* When the boot exits with success, every service of the active stacks runs and is in  *)
(* its provider's present namespace, whatever failed on the way; except behind a        *)
(* provider the retry recreated, which comes after the repair.                          *)
StartedMeansConnected == at = "done" /\ code = 0 => \A s \in fleet : Counts(s) =>
  /\ ct[s].up
  /\ Refers(s) => late \/ ct[s].ns = ct[Provider(fleet, s)].id

(* If any order starts every provider's stack first, the boot uses one, and the one that *)
(* departs least from the baseline: nothing the graph only infers moves a stack.          *)
Earlier(p, q) == \E i \in DOMAIN p :
  /\ \A j \in 1..(i - 1) : p[j] = q[j]
  /\ \E k, l \in DOMAIN Baseline : Baseline[k] = p[i] /\ Baseline[l] = q[i] /\ k < l
Permutations == {p \in [DOMAIN Baseline -> Placed(Baseline)] : Placed(p) = Placed(Baseline)}
Position(p, stack) == CHOOSE i \in DOMAIN p : p[i] = stack
Sound(p) == \A s \in fleet : Refers(s) /\ Active(s) /\ Active(Provider(fleet, s)) =>
              Position(p, Provider(fleet, s).stack) <= Position(p, s.stack)
OrderIsTheLeastSound ==
  LET sound == {p \in Permutations : Sound(p)}
  IN  at = "starting" /\ readable /\ sound # {} => order \in sound /\ \A p \in sound : ~Earlier(p, order)
=============================================================================
