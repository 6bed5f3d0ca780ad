------------------------------ MODULE Attempts ------------------------------
(* The attempt ledger: how often and how soon after one another automation  *)
(* may change one target.  A proposal is checked against the ledger when it *)
(* is made (policy.limit_refusal) and the run again when the engine starts  *)
(* it (store.reserve_runbook_attempts).  Time is `now'; a day is Day long.  *)
EXTENDS Integers, Sequences, FiniteSets, FiniteSetsExt, Functions

CONSTANTS Runs, Targets,
          Plans,              \* the runbooks: sequences of the targets their steps change
          Day, Cooldown, MaxPerDay,
          MaxNow              \* bound: the clock stops there

VARIABLES now,
          legacy,    \* start times of executions from before the ledger, per target
          run,       \* run -> its plan, whether the limits apply to its origin, and its stage
          ledger     \* the attempts rows, oldest first
attemptVars == <<now, legacy, run, ledger>>

Fresh == [plan |-> <<>>, limited |-> TRUE, stage |-> "none"]
Init == /\ now = 0 /\ ledger = <<>>
        /\ run = [r \in Runs |-> Fresh]
        /\ legacy \in [Targets -> SUBSET {0}]

Live(i) == ledger[i].state \in {"reserved", "consumed"}
Recent(t, since) == {i \in DOMAIN ledger : /\ ledger[i].target = t /\ Live(i)
                                            /\ ledger[i].at >= since}
Requested(plan, t) == Cardinality({n \in DOMAIN plan : plan[n] = t})

(* policy.limit_refusal over recent_pair_attempts and _legacy_attempts *)
Lookback == IF Day > Cooldown THEN Day ELSE Cooldown
LimitRefusal(t, requested) ==
  LET rows   == Recent(t, now - Lookback)
      old    == {at \in legacy[t] : at >= now - Lookback}
      times  == {ledger[i].at : i \in rows} \cup old
      count  == Cardinality({i \in rows : ledger[i].at >= now - Day})
                  + Cardinality({at \in old : at >= now - Day})
  IN  \/ times # {} /\ now - Max(times) < Cooldown
      \/ count + requested > MaxPerDay
ProposalRefused(plan) == \E t \in Range(plan) : LimitRefusal(t, Requested(plan, t))

(* reserve_runbook_attempts for one target of a run the limits apply to *)
CoolingDown(t) == \E i \in Recent(t, now - Lookback) : ledger[i].at > now - Cooldown
(* Mutant: a runbook counts once however often it changes the target. *)
CountedOnce(t, requested) == Cardinality(Recent(t, now - Day)) + 1 > MaxPerDay
OverTheCap(t, requested) == Cardinality(Recent(t, now - Day)) + requested > MaxPerDay
ReservationRefused(plan) ==
  \E t \in Range(plan) : CoolingDown(t) \/ OverTheCap(t, Requested(plan, t))

(* propose_plan and run_automatic check the limits of every origin but the operators' *)
Propose(r, plan) ==
  /\ run[r].stage = "none"
  /\ ~ProposalRefused(plan)
  /\ run' = [run EXCEPT ![r] = [plan |-> plan, limited |-> TRUE, stage |-> "approved"]]
  /\ UNCHANGED <<now, legacy, ledger>>
(* an operator's own request, or a rollback: LIMIT_EXEMPT_ORIGINS *)
Request(r, plan) ==
  /\ run[r].stage = "none"
  /\ run' = [run EXCEPT ![r] = [plan |-> plan, limited |-> FALSE, stage |-> "approved"]]
  /\ UNCHANGED <<now, legacy, ledger>>

NoneRunning == \A r \in Runs : run[r].stage # "running"
(* The engine reserves every attempt of the run, or none; under the mutation lock one *)
(* run goes at a time.                                                                *)
Start(r) ==
  /\ run[r].stage = "approved" /\ NoneRunning
  /\ IF run[r].limited /\ ReservationRefused(run[r].plan)
     THEN /\ run' = [run EXCEPT ![r].stage = "over"] /\ UNCHANGED ledger
     ELSE /\ run' = [run EXCEPT ![r].stage = "running"]
          /\ ledger' = ledger \o [n \in DOMAIN run[r].plan |->
               [run |-> r, n |-> n, target |-> run[r].plan[n], state |-> "reserved", at |-> now]]
  /\ UNCHANGED <<now, legacy>>

Settle(S, state) == ledger' = [i \in DOMAIN ledger |->
                       IF i \in S THEN [ledger[i] EXCEPT !.state = state] ELSE ledger[i]]
Reserved(r) == {i \in DOMAIN ledger : ledger[i].run = r /\ ledger[i].state = "reserved"}
(* dispatch consumes the attempt of the next step *)
Consume(r) == /\ run[r].stage = "running" /\ Reserved(r) # {}
              /\ Settle({Min(Reserved(r))}, "consumed")
              /\ UNCHANGED <<now, legacy, run>>
(* The run passes, fails or is aborted: what it did not dispatch is given back.  A    *)
(* crash ends it too, and reconcile_reserved_attempts keeps the attempt of a step     *)
(* that was dispatched.                                                               *)
End(r) == /\ run[r].stage = "running"
          /\ run' = [run EXCEPT ![r].stage = "over"]
          /\ \/ Settle(Reserved(r), "released")
             \/ /\ Reserved(r) # {}
                /\ LET cut == Min(Reserved(r)) IN
                   ledger' = [i \in DOMAIN ledger |->
                      CASE i = cut -> [ledger[i] EXCEPT !.state = "consumed"]
                        [] i \in Reserved(r) \ {cut} -> [ledger[i] EXCEPT !.state = "released"]
                        [] OTHER -> ledger[i]]
          /\ UNCHANGED <<now, legacy>>
Tick == now < MaxNow /\ now' = now + 1 /\ UNCHANGED <<legacy, run, ledger>>

Next == \/ Tick
        \/ \E r \in Runs : \/ Start(r) \/ Consume(r) \/ End(r)
                           \/ \E p \in Plans : Propose(r, p) \/ Request(r, p)
Spec == Init /\ [][Next]_attemptVars

-----------------------------------------------------------------------------
(* What automation did to one target in any day stays within the cap, counting what    *)
(* operators did before it and every step of one runbook, and no run of automation     *)
(* follows another change of the target, or one from before the ledger, within the     *)
(* cooldown: whatever was checked at proposal time, released, cut off or reconciled.   *)
ByAutomation(i) == Live(i) /\ run[ledger[i].run].limited
CapHolds == \A i \in DOMAIN ledger : ByAutomation(i) =>
  Cardinality({j \in 1..i : /\ Live(j) /\ ledger[j].target = ledger[i].target
                            /\ ledger[j].at >= ledger[i].at - Day}) <= MaxPerDay
CooldownHolds == \A i \in DOMAIN ledger : ByAutomation(i) =>
  /\ \A j \in 1..(i - 1) : (/\ Live(j) /\ ledger[j].target = ledger[i].target
                            /\ ledger[j].run # ledger[i].run)
                            => ledger[i].at - ledger[j].at >= Cooldown
  /\ \A at \in legacy[ledger[i].target] : ledger[i].at - at >= Cooldown
LimitsHold == CapHolds /\ CooldownHolds

(* The two checks are written apart, one over times and one in SQL: what the proposal  *)
(* lets through, the reservation of the same instant lets through as well, so a card   *)
(* nobody else gets ahead of is never refused after it was approved.                   *)
ProposalIsStricter == \A p \in Plans : ~ProposalRefused(p) => ~ReservationRefused(p)
=============================================================================
