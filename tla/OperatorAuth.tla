---------------------------- MODULE OperatorAuth ----------------------------
(* Signing in to the dashboard: the failure counters of an operator and of  *)
(* an address, their lock windows.  Each call a request makes to core is    *)
(* one transaction, and requests interleave between them.                   *)
EXTENDS Integers, Sequences, FiniteSets, FiniteSetsExt

CONSTANTS Requests, Operators, Addresses,
          LockTime,           \* AUTH_LOCK_SECONDS
          MaxFailures,        \* AUTH_MAX_FAILURES
          MaxTime, MaxLog     \* bounds: the clock, and recorded failures

Nobody == "?"        \* no passphrase matched
VARIABLES now,
          failures,  \* every failure ever recorded; auth_failures holds those in `kept'
          kept,
          counter,   \* auth_counters: key -> [after, until]; a key without a row has none
          ghost,     \* the counters as they would be if no row were ever dropped
          request    \* request -> [at, op, ip]
authVars == <<now, failures, kept, counter, ghost, request>>

Key(kind, value) == [kind |-> kind, value |-> value]
AllKeys == {Key("operator", o) : o \in Operators} \cup {Key("ip", a) : a \in Addresses}
(* _auth_keys: a failure of nobody counts toward the address only *)
AuthKeys(op, ip) == {Key("ip", ip)} \cup (IF op = Nobody THEN {} ELSE {Key("operator", op)})

NoRow == [after |-> 0, until |-> 0]
Idle == [at |-> "idle", op |-> Nobody, ip |-> CHOOSE a \in Addresses : TRUE]
Init == /\ now = 1 /\ failures = <<>> /\ kept = {}
        /\ counter = [k \in {} |-> NoRow] /\ ghost = [k \in AllKeys |-> NoRow]
        /\ request = [r \in Requests |-> Idle]

Counter(rows, k) == IF k \in DOMAIN rows THEN rows[k] ELSE NoRow
LockedIn(rows, k) == Counter(rows, k).until > now
(* Mutant: failures made under the lock spend the budget that follows it. *)
CountAll(log, ids, rows, k) ==
  Cardinality({i \in ids : /\ k \in log[i].keys /\ log[i].at > now - LockTime
                           /\ i > Counter(rows, k).after})
Count(log, ids, rows, k) ==
  Cardinality({i \in ids : /\ k \in log[i].keys /\ log[i].at > now - LockTime
                           /\ i > Counter(rows, k).after
                           /\ log[i].at >= Counter(rows, k).until})
(* auth_status *)
Locked(op, ip) == \E k \in AuthKeys(op, ip) : LockedIn(counter, k)

(* The rows record_auth_failure drops, and the counters that filter nothing any more *)
Outdated(log, ids) == {i \in ids : log[i].at <= now - LockTime}
IdleRows(rows, ids) ==
  {k \in DOMAIN rows : /\ rows[k].until <= now - LockTime
                       /\ \A i \in ids : rows[k].after < i}
Drop(rows, S) == [k \in DOMAIN rows \ S |-> rows[k]]
Put(rows, S, row) == [k \in DOMAIN rows \cup S |-> IF k \in S THEN row ELSE rows[k]]

RecordFailure(r) ==
  LET op == request[r].op  ip == request[r].ip
      id  == Len(failures) + 1
      log == Append(failures, [keys |-> AuthKeys(op, ip), at |-> now,
                               under |-> {k \in AuthKeys(op, ip) : LockedIn(counter, k)}])
      ids == (kept \cup {id}) \ Outdated(log, kept)
      Full(rows, seen) == {k \in AuthKeys(op, ip) : /\ Count(log, seen, rows, k) >= MaxFailures
                                                     /\ ~LockedIn(rows, k)}
      Reset == [after |-> id, until |-> now + LockTime]
      left == Drop(counter, IdleRows(counter, ids))
  IN  /\ request[r].at = "failing" /\ id <= MaxLog
      /\ failures' = log /\ kept' = ids
      /\ counter' = Put(left, Full(left, ids), Reset)
      /\ ghost' = Put(ghost, Full(ghost, 1..id), Reset)
      /\ request' = [request EXCEPT ![r] = Idle]
      /\ UNCHANGED <<now>>

RecordSuccess(r) ==
  LET keys == AuthKeys(request[r].op, request[r].ip)
      Reset == [after |-> IF kept = {} THEN 0 ELSE Max(kept), until |-> 0]
  IN  /\ request[r].at = "passed"
      /\ counter' = Put(counter, keys, Reset)
      /\ ghost' = Put(ghost, keys, [after |-> Len(failures), until |-> 0])
      /\ request' = [request EXCEPT ![r] = Idle]
      /\ UNCHANGED <<now, failures, kept>>

Goes(r, at, op, ip) == /\ request' = [request EXCEPT ![r] =
                            IF at = "idle" THEN Idle ELSE [at |-> at, op |-> op, ip |-> ip]]
                       /\ UNCHANGED <<now, failures, kept, counter, ghost>>
(* POST /login: the address is asked about first; then the passphrase finds an operator or none *)
Login(r, ip) ==
  /\ request[r].at = "idle" /\ ~Locked(Nobody, ip)
  /\ \/ Goes(r, "failing", Nobody, ip)
     \/ \E op \in Operators : Goes(r, "matched", op, ip)
(* The operator is asked about too; then the code is right and not used before, or not. *)
AskAgain(r) ==
  /\ request[r].at = "matched"
  /\ \E at \in IF Locked(request[r].op, request[r].ip) THEN {"idle"} ELSE {"failing", "passed"} :
       Goes(r, at, request[r].op, request[r].ip)
(* POST /api/elevate: the passphrase again, without a code *)
Elevate(r, op, ip) ==
  /\ request[r].at = "idle" /\ ~Locked(op, ip)
  /\ Goes(r, "failing", op, ip) \/ Goes(r, "passed", op, ip)
Tick == /\ now < MaxTime /\ now' = now + 1
        /\ UNCHANGED <<failures, kept, counter, ghost, request>>

Next == \/ Tick
        \/ \E r \in Requests :
             \/ AskAgain(r) \/ RecordFailure(r) \/ RecordSuccess(r)
             \/ \E ip \in Addresses : \/ Login(r, ip)
                                      \/ \E op \in Operators : Elevate(r, op, ip)
Spec == Init /\ [][Next]_authVars

-----------------------------------------------------------------------------
(* Failure rows and counters are dropped as new failures arrive.  No key is ever      *)
(* locked, open or closer to its lock than it would be had every row been kept.       *)
PruningIsInvisible ==
  \A k \in AllKeys :
     /\ LockedIn(counter, k) <=> LockedIn(ghost, k)
     /\ Count(failures, kept, counter, k) = Count(failures, DOMAIN failures, ghost, k)

(* A key is locked only by MaxFailures failures of its own, made within the window    *)
(* while it was open, and a failure never moves the deadline of a lock that is still   *)
(* running: every lock is followed by a full budget.                                   *)
LockIsEarned ==
  \A k \in AllKeys : Counter(counter', k).until > Counter(counter, k).until =>
     /\ ~LockedIn(counter, k)
     /\ Cardinality({i \in DOMAIN failures' : /\ k \in failures'[i].keys \ failures'[i].under
                                              /\ failures'[i].at > now - LockTime}) >= MaxFailures
=============================================================================
