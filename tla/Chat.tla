-------------------------------- MODULE Chat --------------------------------
(* The chat service: tickets, the bounded pool that works on them, and the  *)
(* daily limit of LLM calls.                                                *)
EXTENDS Naturals, Sequences, FiniteSets

CONSTANTS Tickets,            \* one per operator and submission id
          Slots,              \* CHAT_WORKERS + CHAT_QUEUE_LIMIT; one ticket is worked on at a time
          DailyLimit,         \* CHAT_DAILY_CALL_LIMIT
          MaxDay, MaxCalls, MaxFaults   \* bounds: days, calls of a ticket, failed writes and restarts

VARIABLES day,
          status,    \* chat_tickets
          at,        \* ticket -> where the code handling it has got to
          queue,     \* the executor's queue
          free,      \* the semaphore
          calls,     \* chat.llm_call events: the day of each, and who made it
          from,      \* the day start the reservation under way counts from
          faults
chatVars == <<day, status, at, queue, free, calls, from, faults>>

Init == /\ day = 1 /\ queue = <<>> /\ free = Slots /\ calls = <<>> /\ from = 0 /\ faults = 0
        /\ status = [t \in Tickets |-> "none"] /\ at = [t \in Tickets |-> "nowhere"]

Open(t) == status[t] \in {"queued", "running"}
Goes(t, place) == at' = [at EXCEPT ![t] = place]
(* set_chat_ticket_running and finish_chat_ticket touch a ticket only where it may go *)
Running(t) == status' = IF status[t] = "queued" THEN [status EXCEPT ![t] = "running"] ELSE status
Finish(t, how) == status' = IF Open(t) THEN [status EXCEPT ![t] = how] ELSE status
Fault == faults < MaxFaults /\ faults' = faults + 1

(* ask: the ticket is created or, for a repeated submission, only read *)
Create(t) == /\ status[t] = "none"
             /\ status' = [status EXCEPT ![t] = "queued"] /\ Goes(t, "asked")
             /\ UNCHANGED <<day, queue, free, calls, from, faults>>
Admit(t) == /\ at[t] = "asked" /\ free > 0
            /\ free' = free - 1 /\ Goes(t, "admitted")
            /\ UNCHANGED <<day, status, queue, calls, from, faults>>
Busy(t) == /\ at[t] = "asked" /\ free = 0
           /\ Finish(t, "failed") /\ Goes(t, "nowhere")
           /\ UNCHANGED <<day, queue, free, calls, from, faults>>
Submit(t) == /\ at[t] = "admitted"
             /\ queue' = Append(queue, t) /\ Goes(t, "queued")
             /\ UNCHANGED <<day, status, free, calls, from, faults>>
SubmitFails(t) == /\ at[t] = "admitted" /\ Fault
                  /\ free' = free + 1 /\ Finish(t, "failed") /\ Goes(t, "nowhere")
                  /\ UNCHANGED <<day, queue, calls, from>>

(* _work, on the pool's thread *)
Idle == \A t \in Tickets : at[t] \notin {"working", "calling", "leaving"}
Work == /\ queue # <<>> /\ Idle
        /\ queue' = Tail(queue) /\ Running(Head(queue)) /\ Goes(Head(queue), "working")
        /\ UNCHANGED <<day, free, calls, from, faults>>
MadeBy(t) == Cardinality({i \in DOMAIN calls : calls[i].by = t})
Used(start) == Cardinality({i \in DOMAIN calls : calls[i].day >= start})
Exhausted(start) == Used(start) >= DailyLimit
(* The day start is computed first; the count and the record are one transaction *)
Call(t) == /\ at[t] = "working" /\ MadeBy(t) < MaxCalls
           /\ from' = day /\ Goes(t, "calling")
           /\ UNCHANGED <<day, status, queue, free, calls, faults>>
Reserve(t) == /\ at[t] = "calling" /\ Goes(t, "working")
              /\ calls' = IF Exhausted(from) THEN calls ELSE Append(calls, [day |-> day, by |-> t])
              /\ UNCHANGED <<day, status, queue, free, from, faults>>
(* The investigation ends or raises and its verdict is written; in the end the slot is freed. *)
(* Should the verdict's write fail, the handler writes failed, and should that fail too the   *)
(* ticket stays open.                                                                         *)
Verdict(t) == /\ at[t] = "working" /\ Goes(t, "leaving")
              /\ \/ (\E how \in {"done", "failed"} : Finish(t, how)) /\ UNCHANGED faults
                 \/ Fault /\ UNCHANGED status
              /\ UNCHANGED <<day, queue, free, calls, from>>
Leave(t) == /\ at[t] = "leaving" /\ free' = free + 1 /\ Goes(t, "nowhere")
            /\ UNCHANGED <<day, status, queue, calls, from, faults>>

(* Core restarts: the pool is gone, and reconcile_on_startup interrupts what was open *)
Restart == /\ Fault /\ queue' = <<>> /\ free' = Slots /\ at' = [t \in Tickets |-> "nowhere"]
           /\ status' = [t \in Tickets |-> IF Open(t) THEN "interrupted" ELSE status[t]]
           /\ UNCHANGED <<day, calls, from>>
Midnight == day < MaxDay /\ day' = day + 1 /\ UNCHANGED <<status, at, queue, free, calls, from, faults>>

Next == \/ Work \/ Restart \/ Midnight
        \/ \E t \in Tickets : \/ Create(t) \/ Admit(t) \/ Busy(t) \/ Submit(t) \/ SubmitFails(t)
                              \/ Call(t) \/ Reserve(t) \/ Verdict(t) \/ Leave(t)
Spec == Init /\ [][Next]_chatVars

-----------------------------------------------------------------------------
(* No day sees more calls than the limit, though a reservation may count from a day   *)
(* that ended before it was written.                                                   *)
QuotaHolds == \A d \in 1..MaxDay : Cardinality({i \in DOMAIN calls : calls[i].day = d}) <= DailyLimit

(* Every slot is free or held by one ticket under way, so the service never fills up   *)
(* with slots nobody gives back; and without failed writes an open ticket is always    *)
(* one somebody is handling.                                                            *)
Holding == {t \in Tickets : at[t] \in {"admitted", "queued", "working", "calling", "leaving"}}
SlotsAreAccounted == /\ free + Cardinality(Holding) = Slots
                     /\ faults = 0 => \A t \in Tickets : Open(t) => at[t] # "nowhere"
=============================================================================
