---------------------------- MODULE TargetCache ----------------------------
(***************************************************************************)
(* resolve_target (actions.py) asks which services a compose file declares *)
(* and keeps the answer, under the file's mtime and size, for a while.     *)
(* Requests run in threads of their own; they read outside the lock, so    *)
(* that one may insert what another has seen change.  An included file or  *)
(* .env decides what is declared without touching the key, and a file put  *)
(* back from a copy has the key it had before.                             *)
(***************************************************************************)
EXTENDS Naturals

CONSTANTS
  Requests,    \* threads that resolve a target of this stack
  TTL,         \* COMPOSE_SERVICES_TTL_SECONDS
  Budget,      \* the timeout of one resolution
  MaxVersions, \* bound: versions of the compose file
  MaxIncludes, \* bound: edits of an included file
  MaxTime,     \* bound: the clock
  MaxCalls     \* bound: resolutions

VARIABLES
  file,    \* its version (mtime and size), and whether the service is declared
  cache,   \* _compose_services_cache of this file
  time,
  request, \* where each thread is and what it has read
  flipped, \* history: when the service was last declared or undeclared
  fresh,   \* history: no answer was older than it may be
  spent    \* history: what was used of the bounds

vars == <<file, cache, time, request, flipped, fresh, spent>>

Idle == [at |-> "rest", version |-> 0, listed |-> FALSE, began |-> 0]

Init == /\ file = [version |-> 1, declared |-> TRUE]
        /\ cache = [version |-> 0, listed |-> FALSE, at |-> 0]
        /\ time = 0
        /\ request = [r \in Requests |-> Idle]
        /\ flipped = 0
        /\ fresh = TRUE
        /\ spent = [versions |-> 1, includes |-> 0, calls |-> 0]

Leave(r) == request' = [request EXCEPT ![r] = Idle]

----------------------------------------------------------------------------
(* resolve_target.                                                         *)

(* The deadline is set, then the file is looked at.                        *)
Stat(r) == /\ request[r].at = "rest" /\ spent.calls < MaxCalls
           /\ spent' = [spent EXCEPT !.calls = @ + 1]
           /\ request' = [request EXCEPT ![r] = [Idle EXCEPT !.at = "lookup", !.version = file.version,
                                                             !.began = time]]
           /\ UNCHANGED <<file, cache, time, flipped, fresh>>

Usable(version) == cache.version = version /\ time - cache.at <= TTL

Lookup(r) ==
  /\ request[r].at = "lookup"
  /\ request' = IF Usable(request[r].version)
                 THEN [request EXCEPT ![r].at = "judge", ![r].listed = cache.listed]
                 ELSE [request EXCEPT ![r].at = "read"]
  /\ UNCHANGED <<file, cache, time, flipped, fresh, spent>>

(* `config --services` reads the files, and answers within the budget ...  *)
InTime(r) == time - request[r].began <= Budget

ReadServices(r) == /\ request[r].at = "read" /\ InTime(r)
                   /\ request' = [request EXCEPT ![r].at = "insert", ![r].listed = file.declared]
                   /\ UNCHANGED <<file, cache, time, flipped, fresh, spent>>

(* ... and the answer is kept, the only one of this file.                  *)
Insert(r) ==
  /\ request[r].at = "insert" /\ InTime(r)
  /\ cache' = [version |-> request[r].version, listed |-> request[r].listed, at |-> time]
  /\ request' = [request EXCEPT ![r].at = "judge"]
  /\ UNCHANGED <<file, time, flipped, fresh, spent>>

TimesOut(r) == /\ request[r].at \in {"read", "insert"} /\ ~InTime(r)
               /\ Leave(r)
               /\ UNCHANGED <<file, cache, time, flipped, fresh, spent>>

(* The service is refused, or its containers are looked for.               *)
Current(listed) == listed = file.declared \/ flipped + TTL + Budget >= time

Judge(r) == /\ request[r].at = "judge"
            /\ fresh' = (fresh /\ Current(request[r].listed))
            /\ Leave(r)
            /\ UNCHANGED <<file, cache, time, flipped, spent>>

----------------------------------------------------------------------------
(* Somebody edits, and the clock.                                          *)

Edited(declared) == /\ flipped' = IF declared = file.declared THEN flipped ELSE time
                    /\ UNCHANGED <<cache, time, request, fresh>>

(* A file is edited, or put back as it was.                                *)
EditFile == \E v \in 1..MaxVersions, d \in BOOLEAN :
  /\ v # file.version /\ v <= spent.versions + 1
  /\ file' = [version |-> v, declared |-> d]
  /\ spent' = [spent EXCEPT !.versions = IF v > @ THEN v ELSE @]
  /\ Edited(d)

EditInclude == /\ spent.includes < MaxIncludes
               /\ file' = [file EXCEPT !.declared = ~@]
               /\ spent' = [spent EXCEPT !.includes = @ + 1]
               /\ Edited(file'.declared)

(* Time passes in the calls, not between them.                             *)
Tick == /\ time < MaxTime /\ \A r \in Requests : request[r].at \notin {"lookup", "judge"}
        /\ time' = time + 1
        /\ UNCHANGED <<file, cache, request, flipped, fresh, spent>>

Next == \/ \E r \in Requests : \/ Stat(r) \/ Lookup(r) \/ ReadServices(r) \/ Insert(r)
                               \/ TimesOut(r) \/ Judge(r)
        \/ EditFile \/ EditInclude \/ Tick

Spec == Init /\ [][Next]_vars

----------------------------------------------------------------------------
(* Properties.                                                             *)

(* Whether a service is declared is answered from no longer ago than an    *)
(* entry may live and a resolution may take, whatever requests race and    *)
(* whichever file was edited or put back.                                  *)
AnswersAreFresh == fresh
=============================================================================
