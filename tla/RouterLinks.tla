---------------------------- MODULE RouterLinks ----------------------------
(* containers.routers: the answer behind the dashboard's launch links, read    *)
(* from docker under one lock, reused while the list of containers is the same, *)
(* and not asked for again for a while after docker failed to answer. Docker's  *)
(* state is the version of what it lists; what the labels say follows from it.  *)
EXTENDS Naturals

CONSTANTS Callers,
          MaxChanges, MaxFaults, MaxCalls,  \* bounds: changes of docker's state, failures, calls
          Quiet                              \* the back-off, in ticks of the clock
Never == 0
NoAnswer == [key |-> Never, answer |-> Never]   \* answer 0 with a key: a final failure

VARIABLES docker,      \* the version docker is at
          cache, backoff,  \* the last failed read's time, 0 if none
          races, lock,
          call,        \* caller -> [at, try, listed, read, answer]
          seen,        \* ghost: caller -> the versions docker went through during its call
             now, faults, changes, calls
linkVars == <<docker, cache, backoff, races, lock, call, seen, now, faults, changes, calls>>

NoCall == [at |-> "idle", try |-> 0, listed |-> Never, read |-> Never, answer |-> Never]
Init == /\ docker = 1 /\ cache = NoAnswer /\ backoff = Never /\ races = 0 /\ lock = 0
        /\ call = [c \in Callers |-> NoCall] /\ seen = [c \in Callers |-> {}]
        /\ now = 1 /\ faults = 0 /\ changes = 0 /\ calls = 0

BackingOff == backoff # Never /\ now - backoff < Quiet
Fault == faults < MaxFaults /\ faults' = faults + 1
To(c, at) == call' = [call EXCEPT ![c].at = at]
Ends(c) == call' = [call EXCEPT ![c].at = "failed"] /\ lock' = 0
Same == UNCHANGED <<docker, seen, now, changes, calls>>

Call(c) == /\ call[c].at = "idle" /\ calls < MaxCalls /\ calls' = calls + 1
           /\ call' = [call EXCEPT ![c] = [NoCall EXCEPT !.at = IF BackingOff THEN "failed" ELSE "waiting"]]
           /\ seen' = [seen EXCEPT ![c] = {docker}]
           /\ UNCHANGED <<docker, cache, backoff, races, lock, now, faults, changes>>
(* The lock within half a second, or "read in progress" *)
Acquire(c) == /\ call[c].at = "waiting"
              /\ \/ lock = 0 /\ lock' = c /\ To(c, "locked")
                 \/ lock # 0 /\ To(c, "failed") /\ UNCHANGED lock
              /\ UNCHANGED <<cache, backoff, races, faults>> /\ Same
List(c) ==
  /\ call[c].at = "locked"
  /\ \/ BackingOff /\ Ends(c) /\ UNCHANGED <<backoff, faults>>
     \/ /\ ~BackingOff /\ call' = [call EXCEPT ![c].at = "listed", ![c].listed = docker]
        /\ UNCHANGED <<lock, backoff, faults>>
     \/ ~BackingOff /\ Fault /\ backoff' = now /\ Ends(c)
  /\ UNCHANGED <<cache, races>> /\ Same
Hit(c) == cache.key = call[c].listed
FromCache(c) ==
  /\ call[c].at = "listed" /\ Hit(c)
  /\ races' = 0 /\ lock' = 0
  /\ call' = [call EXCEPT ![c].at = IF cache.answer = Never THEN "failed" ELSE "answered",
                          ![c].answer = cache.answer]
  /\ UNCHANGED <<cache, backoff, faults>> /\ Same
(* read_router_owners: the labels now, with the list they belong to; a container that *)
(* vanished in between; a failure that would repeat; or any other                      *)
Retries(c, count) == IF call[c].try = 0
                     THEN /\ call' = [call EXCEPT ![c].at = "locked2", ![c].try = 1]
                          /\ UNCHANGED <<lock, races, backoff>>
                     ELSE /\ Ends(c) /\ races' = count
                          /\ backoff' = IF count >= 2 THEN now ELSE backoff
Matches(c) == docker = call[c].listed
Inspect(c) ==
  /\ call[c].at = "listed" /\ ~Hit(c)
  /\ \/ /\ Matches(c)
        /\ cache' = [key |-> call[c].listed, answer |-> docker]
        /\ call' = [call EXCEPT ![c].at = "answered", ![c].answer = docker]
        /\ lock' = 0 /\ races' = 0 /\ backoff' = Never /\ UNCHANGED faults
     \/ ~Matches(c) /\ Retries(c, races + 1) /\ UNCHANGED <<cache, faults>>
     \/ /\ Fault /\ Ends(c) /\ backoff' = now /\ races' = 0
        /\ cache' \in {cache, [key |-> call[c].listed, answer |-> Never]}
  /\ Same
(* The second attempt, unless too little time is left for it *)
ListAgain(c) ==
  /\ call[c].at = "locked2"
  /\ \/ /\ call' = [call EXCEPT ![c].at = "listed", ![c].listed = docker]
        /\ UNCHANGED <<lock, backoff, races, faults>>
     \/ /\ Fault /\ Ends(c)
        /\ \/ backoff' = now /\ UNCHANGED races
           \/ races' = races + 1 /\ backoff' = IF races' >= 2 THEN now ELSE backoff
  /\ UNCHANGED cache /\ Same
Return(c) == /\ call[c].at \in {"answered", "failed"}
             /\ call' = [call EXCEPT ![c] = NoCall] /\ seen' = [seen EXCEPT ![c] = {}]
             /\ UNCHANGED <<docker, cache, backoff, races, lock, now, faults, changes, calls>>

Changes == /\ changes < MaxChanges /\ changes' = changes + 1
           /\ docker' \in 1..(MaxChanges + 1) \ {docker}
           /\ seen' = [c \in Callers |-> IF seen[c] = {} THEN {} ELSE seen[c] \cup {docker'}]
           /\ UNCHANGED <<cache, backoff, races, lock, call, now, faults, calls>>
Tick == /\ now < Quiet + 2 /\ now' = now + 1
        /\ UNCHANGED <<docker, cache, backoff, races, lock, call, seen, faults, changes, calls>>

Next == \/ Changes \/ Tick
        \/ \E c \in Callers : \/ Call(c) \/ Acquire(c) \/ List(c) \/ FromCache(c) \/ Inspect(c)
                              \/ ListAgain(c) \/ Return(c)
Spec == Init /\ [][Next]_linkVars

-----------------------------------------------------------------------------
(* Whoever filled the cache and whatever changed meanwhile, the links a caller gets are *)
(* those of containers that were there during its own call.                              *)
LinksAreCurrent == \A c \in Callers : call[c].at = "answered" => call[c].answer \in seen[c]
=============================================================================
