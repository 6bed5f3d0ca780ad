------------------------------ MODULE Targets ------------------------------
(***************************************************************************)
(* What an approval names and what its step acts on: the guard of the      *)
(* network services (actions.py, policy.py), the binding a proposal        *)
(* records (binding.py), and the engine's check of it before the command   *)
(* runs (_bound_target).  One service, whose compose file somebody edits   *)
(* and whose container somebody recreates between any two reads.           *)
(* TargetCache has the other half of resolve_target, what it caches.       *)
(***************************************************************************)
EXTENDS Naturals, FiniteSets

CONSTANTS
  MaxVersions, \* bound: contents of the compose file
  MaxIds       \* bound: containers made

VARIABLES
  target,  \* what is asked for: a name, a step type, and who asks
  version, \* the compose file's content
  ids,     \* the service's containers; none comes back under its id
  made,    \* history: containers made
  at,      \* where the worker of the proposal, or of the execution, is
  read,    \* ... the hash and id it has read
  stage,   \* the proposal: "asked", "bound", "approved", "done" or "refused"
  bound,   \* ... its binding
  intact   \* history: since the execution began, all was once as approved

vars == <<target, version, ids, made, at, read, stage, bound, intact>>
world == <<version, ids, made>>

(* A name with none, the one or the other guarded token in it.             *)
Targeted == [name : {"plain", "adguard", "traefik"}, kind : {"service.restart", "update.canary"},
             origin : {"operator", "incident", "zoidberg"}]
Nothing == [version |-> 0, id |-> 0]

Init == /\ target \in Targeted
        /\ version = 1 /\ ids = {1} /\ made = 1
        /\ at = "rest" /\ read = Nothing
        /\ stage = "asked" /\ bound = Nothing
        /\ intact = FALSE

----------------------------------------------------------------------------
(* resolve_target.                                                         *)

IsGuarded == target.name # "plain"
GuardedUpdateAllowed == target.name = "adguard"

(* build_canary_runbook allows it for /update only, the engine for every   *)
(* update.canary it is given.                                              *)
AllowGuardedUpdate ==
  target.kind = "update.canary" /\ (target.origin = "operator" \/ stage = "approved")

MayBeMutated == IsGuarded => AllowGuardedUpdate /\ GuardedUpdateAllowed

Refuse == /\ at' = "rest" /\ stage' = "refused"
          /\ UNCHANGED <<target, world, read, bound, intact>>
GoOn(place) == at' = place /\ UNCHANGED <<stage, bound, target, world>>

(* The file's content and the containers are as the approval has them.     *)
AsApproved(v, some) == v = bound.version /\ bound.id \in some

Begin == /\ at = "rest" /\ stage \in {"asked", "approved"} /\ MayBeMutated
         /\ intact' = (stage = "approved" /\ AsApproved(version, ids))
         /\ GoOn("list") /\ UNCHANGED read

RefuseGuarded == at = "rest" /\ stage \in {"asked", "approved"} /\ ~MayBeMutated /\ Refuse

(* Exactly one container, not paused, and every call answers in time.      *)
FindContainer == /\ at = "list" /\ Cardinality(ids) = 1
                 /\ GoOn("hash") /\ UNCHANGED <<read, intact>>

RefuseTarget == at \in {"list", "hash", "id"} /\ Refuse

----------------------------------------------------------------------------
(* Binder.service: the file's hash, then the id behind the name.           *)

Hash == /\ at = "hash"
        /\ read' = [read EXCEPT !.version = version]
        /\ GoOn("id") /\ UNCHANGED intact

(* A name that was taken over is the newest container's.                   *)
Newest == CHOOSE i \in ids : \A j \in ids : j <= i

ReadId == /\ at = "id" /\ ids # {}
          /\ read' = [read EXCEPT !.id = Newest]
          /\ GoOn("compare") /\ UNCHANGED intact

(* decide_runbook: the weekly pass may run its own step type by itself,    *)
(* and never on the guarded services; the rest waits for a person.         *)
Automatic == target.origin = "zoidberg" /\ target.kind = "update.canary"
Allowed == ~(Automatic /\ IsGuarded)

Bind == /\ at = "compare" /\ stage = "asked" /\ Allowed
        /\ bound' = read
        /\ stage' = IF Automatic THEN "approved" ELSE "bound"
        /\ at' = "rest" /\ read' = Nothing
        /\ UNCHANGED <<target, world, intact>>

RefusePlan == at = "compare" /\ stage = "asked" /\ ~Allowed /\ Refuse

Approve == /\ stage = "bound" /\ stage' = "approved"
           /\ UNCHANGED <<target, world, at, read, bound, intact>>

----------------------------------------------------------------------------
(* The engine.                                                             *)

AsBound == read.version = bound.version /\ read.id = bound.id

Compare == /\ at = "compare" /\ stage = "approved" /\ AsBound
           /\ GoOn("command") /\ UNCHANGED <<read, intact>>

RefuseDrift == at = "compare" /\ stage = "approved" /\ ~AsBound /\ Refuse

(* The command names the service, not the container.                       *)
Command == /\ at = "command"
           /\ at' = "rest" /\ stage' = "done"
           /\ UNCHANGED <<target, world, read, bound, intact>>

----------------------------------------------------------------------------
(* Somebody else.                                                          *)

Executing == stage = "approved" /\ at # "rest"
Noticed == /\ intact' = (intact \/ (Executing /\ AsApproved(version', ids')))
           /\ UNCHANGED <<target, at, read, stage, bound>>

Edit == /\ \E v \in 1..MaxVersions : v # version /\ version' = v
        /\ UNCHANGED <<ids, made>> /\ Noticed

Recreate == /\ made < MaxIds
            /\ made' = made + 1
            /\ \E old \in SUBSET ids : ids' = old \cup {made'}
            /\ UNCHANGED version /\ Noticed

Remove == /\ \E i \in ids : ids' = ids \ {i}
          /\ UNCHANGED <<version, made>> /\ Noticed

Next == \/ Begin \/ RefuseGuarded \/ FindContainer \/ RefuseTarget \/ Hash \/ ReadId
        \/ Bind \/ RefusePlan \/ Approve \/ Compare \/ RefuseDrift \/ Command
        \/ Edit \/ Recreate \/ Remove

Spec == Init /\ [][Next]_vars

----------------------------------------------------------------------------
(* Properties.                                                             *)

Acting == at = "command" \/ stage = "done"

(* A step acts only if, at one and the same moment of its execution, the   *)
(* compose file and the container were those its approval names, although  *)
(* the two are read one after the other and a file may be put back.        *)
OnlyWhatWasApproved == Acting => intact

(* Nothing acts on Traefik, and on AdGuard only an update that a person    *)
(* asked for and approved.                                                 *)
GuardHolds == Acting /\ IsGuarded =>
  target.name = "adguard" /\ target.kind = "update.canary" /\ target.origin = "operator"
=============================================================================
