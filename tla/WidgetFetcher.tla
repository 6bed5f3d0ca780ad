--------------------------- MODULE WidgetFetcher ---------------------------
(* An app's numbers on a container's page: the cache of one page, the jobs that *)
(* ask the app, who joins them, and what of it all is kept.  The container may  *)
(* be recreated at any time; each of its instances runs the widget's app.  The  *)
(* clock moves on with every reading of it that is compared with another.       *)
EXTENDS Naturals, FiniteSets

CONSTANTS Requests,              \* page views; each asks once
          MaxInstances,          \* bound: the container is recreated that often, less one
          MaxTicks, MaxFaults,   \* bounds: time passing by itself, failures
          CacheAge, FailedAge, Budget, MaxInflight

VARIABLES now, ticks, faults,
          instance,   \* the container there is now
          cache,      \* the entry of this page
          inflight,   \* instance -> the request whose job asks it, or none
          job,        \* request -> the job it started
          req         \* request -> [at, asked, target, job, answer]
widgetVars == <<now, ticks, faults, instance, cache, inflight, job, req>>

None == 0        \* requests are numbered from 1
(* An answer: which instance's numbers it shows, and which old ones, dimmed (0: none) *)
Answer(state, from, stale) == [state |-> state, from |-> from, stale |-> stale]
NoAnswer == Answer("none", 0, 0)
NoEntry == [at |-> 0, ttl |-> 0, instance |-> 0, answer |-> NoAnswer, good |-> 0]
NoJob == [at |-> "none", started |-> 0, answer |-> NoAnswer]
Init == /\ now = 0 /\ ticks = 0 /\ faults = 0 /\ instance = 1 /\ cache = NoEntry
        /\ inflight = [i \in 1..MaxInstances |-> None]
        /\ job = [r \in Requests |-> NoJob]
        /\ req = [r \in Requests |-> [at |-> "idle", asked |-> 0, target |-> 0, job |-> None,
                                      answer |-> NoAnswer]]

Fault == faults < MaxFaults /\ faults' = faults + 1
Fresh == cache # NoEntry /\ now - cache.at < cache.ttl
Same(target) == cache.instance = target
Gets(r, answer) == req' = [req EXCEPT ![r].at = "answered", ![r].answer = answer]

(* The route: a fresh answer as it is, which asks nobody what container there is now; or the *)
(* time, and then core's answer                                                                *)
Ask(r) == /\ req[r].at = "idle"
          /\ IF Fresh
             THEN /\ req' = [req EXCEPT ![r].at = "answered", ![r].asked = now,
                                        ![r].target = cache.instance, ![r].answer = cache.answer]
                  /\ UNCHANGED now
             ELSE req' = [req EXCEPT ![r].at = "asking", ![r].asked = now + 1] /\ now' = now + 1
          /\ UNCHANGED <<ticks, faults, instance, cache, inflight, job>>
Resolve(r) == /\ req[r].at = "asking"
              /\ req' = [req EXCEPT ![r].at = "resolved", ![r].target = instance]
              /\ UNCHANGED <<now, ticks, faults, instance, cache, inflight, job>>

(* _store and _fail_fast: an answer about `target' that was asked for at `asked'.  Old *)
(* numbers to show with an error were looked up before, the entry is the one there now.  *)
(* Mutant: whoever stores last is right. *)
NeverLate(target, asked) == FALSE
Late(target, asked) == cache # NoEntry /\ ~Same(target) /\ cache.at > asked
KeepsGood(target, answer) == /\ answer.state = "error" /\ Same(target)
                             /\ Fresh /\ cache.answer.state = "ok"
Store(target, asked, answer, ttl) ==
  /\ now' = now + 1
  /\ cache' = IF Late(target, asked) \/ KeepsGood(target, answer) THEN cache
              ELSE [at |-> now + 1, ttl |-> ttl, instance |-> target, answer |-> answer,
                    good |-> IF answer.state = "ok" THEN answer.from
                             ELSE IF Same(target) THEN cache.good ELSE 0]
Kept(target, asked, answer) == IF ~Late(target, asked) /\ KeepsGood(target, answer)
                               THEN cache.answer ELSE answer
Failure(target) == Answer("error", 0, IF Same(target) THEN cache.good ELSE 0)

(* Mutant: a page joins whatever job its own asks already. *)
AnyJob(target) == IF \E i \in 1..MaxInstances : inflight[i] # None
                  THEN inflight[CHOOSE i \in 1..MaxInstances : inflight[i] # None] ELSE None
JobFor(target) == inflight[target]
Running == {i \in 1..MaxInstances : inflight[i] # None}
Fails(r) == req' = [req EXCEPT ![r].at = "failing", ![r].answer = Failure(req[r].target)]
(* fetch, under the lock: the entry of this very instance, the job asking it, no place *)
(* for another one (other pages' jobs hold some), or a job of its own.                  *)
Fetch(r) ==
  LET target == req[r].target IN
  /\ req[r].at = "resolved"
  /\ IF Fresh /\ Same(target) THEN Gets(r, cache.answer) /\ UNCHANGED <<inflight, job, faults>>
     ELSE IF JobFor(target) # None
     THEN /\ req' = [req EXCEPT ![r].at = "waiting", ![r].job = JobFor(target)]
          /\ UNCHANGED <<inflight, job, faults>>
     ELSE \/ /\ Cardinality(Running) < MaxInflight
             /\ inflight' = [inflight EXCEPT ![target] = r]
             /\ job' = [job EXCEPT ![r] = [NoJob EXCEPT !.at = "running", !.started = now]]
             /\ req' = [req EXCEPT ![r].at = "waiting", ![r].job = r]
             /\ UNCHANGED faults
          \/ Fails(r) /\ UNCHANGED <<inflight, job>>
             /\ IF Cardinality(Running) < MaxInflight THEN Fault ELSE UNCHANGED faults
  /\ UNCHANGED <<now, ticks, instance, cache>>
FailFast(r) == /\ req[r].at = "failing"
               /\ Store(req[r].target, req[r].asked, req[r].answer, FailedAge)
               /\ Gets(r, Kept(req[r].target, req[r].asked, req[r].answer))
               /\ UNCHANGED <<ticks, faults, instance, inflight, job>>
(* A joiner waits only for what is left of the job's own budget *)
Wait(r) == /\ req[r].at = "waiting"
           /\ \/ job[req[r].job].at = "done" /\ Gets(r, job[req[r].job].answer)
              \/ job[req[r].job].at # "done" /\ now >= job[req[r].job].started + Budget /\ Fails(r)
           /\ UNCHANGED <<now, ticks, faults, instance, cache, inflight, job>>
Leaves(r) == /\ req[r].at = "answered" /\ req' = [req EXCEPT ![r].at = "left", ![r].answer = NoAnswer]
             /\ UNCHANGED <<now, ticks, faults, instance, cache, inflight, job>>

Moved(r) == instance # req[r].target
InFull(r) == Answer("ok", req[r].target, 0)
(* _fetch_now: the container is looked at again right before the key is sent; then it *)
(* answers in time and in full, or there is an error.                                   *)
Reverify(r) ==
  /\ job[r].at = "running"
  /\ \/ ~Moved(r) /\ job' = [job EXCEPT ![r].at = "sent"] /\ UNCHANGED faults
     \/ /\ IF Moved(r) THEN UNCHANGED faults ELSE Fault
        /\ job' = [job EXCEPT ![r].at = "storing", ![r].answer = Failure(req[r].target)]
  /\ UNCHANGED <<now, ticks, instance, cache, inflight, req>>
Asked(r) ==
  /\ job[r].at = "sent"
  /\ \/ /\ job' = [job EXCEPT ![r].at = "storing", ![r].answer = InFull(r)]
        /\ UNCHANGED faults
     \/ /\ Fault
        /\ job' = [job EXCEPT ![r].at = "storing", ![r].answer = Failure(req[r].target)]
  /\ UNCHANGED <<now, ticks, instance, cache, inflight, req>>
Settle(r) ==
  /\ job[r].at = "storing"
  /\ Store(req[r].target, req[r].asked, job[r].answer, CacheAge)
  /\ job' = [job EXCEPT ![r].at = "stored",
                        ![r].answer = Kept(req[r].target, req[r].asked, job[r].answer)]
  /\ UNCHANGED <<ticks, faults, instance, inflight, req>>
Release(r) == /\ job[r].at = "stored"
              /\ job' = [job EXCEPT ![r].at = "done"]
              /\ inflight' = [inflight EXCEPT ![req[r].target] = None]
              /\ UNCHANGED <<now, ticks, faults, instance, cache, req>>

Recreated == /\ instance < MaxInstances /\ instance' = instance + 1
             /\ UNCHANGED <<now, ticks, faults, cache, inflight, job, req>>
Tick == /\ ticks < MaxTicks /\ ticks' = ticks + 1 /\ now' = now + 1
        /\ UNCHANGED <<faults, instance, cache, inflight, job, req>>

Next == \/ Recreated \/ Tick
        \/ \E r \in Requests : \/ Ask(r) \/ Resolve(r) \/ Fetch(r) \/ FailFast(r) \/ Wait(r)
                               \/ Leaves(r) \/ Reverify(r) \/ Asked(r) \/ Settle(r) \/ Release(r)
Spec == Init /\ [][Next]_widgetVars

-----------------------------------------------------------------------------
(* What is shown, fresh or dimmed, is of the container it was asked about, whatever is    *)
(* recreated meanwhile: nothing of a predecessor's comes from the entry, a job somebody    *)
(* else started, or one that ended late, to a page that asked core what there is now.  A    *)
(* page the route answers from its cache asks nobody: what it is shown is all of the one    *)
(* container its entry is of, which may have been recreated since the entry was made.        *)
NoPredecessorShown == \A r \in Requests : req[r].at = "answered" =>
  {req[r].answer.from, req[r].answer.stale} \subseteq {0, req[r].target}
(* What the page keeps moves on only: to a later instance, and of one instance not from *)
(* good numbers that are still fresh to an error, nor to none at all.                     *)
CacheMovesOn ==
  /\ cache'.instance >= cache.instance
  /\ cache # cache' /\ cache'.instance = cache.instance =>
       /\ Fresh /\ cache.answer.state = "ok" => cache'.answer.state = "ok"
       /\ cache.good # 0 => cache'.good # 0
=============================================================================
