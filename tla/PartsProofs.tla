----------------------------- MODULE PartsProofs -----------------------------
(***************************************************************************)
(* Theorems about the components of Parts, each for every value of its     *)
(* constants.  A theorem here is about the behaviours of one component     *)
(* alone; PartsTheorems puts them together.                                *)
(***************************************************************************)
EXTENDS Parts, FiniteSetTheorems, WellFoundedInduction, TLAPS

(* The variables by the names the components give them.                    *)
now == v2
legacy == v1
run == v3
ledger == v4
day == v2
status == v8
at == v3
queue == v5
free == v7
calls == v4
from == v6
faults == v1
file == v2
loaded == v8
owner == v9
op == v3
foreign == v10
announced == v6
watch == v5
edits == v4
tries == v7
dir == v5
extra == v9
backup == v13
base == v12
effect == v10
pre == v11
binding == v8
ours == v14
made == v6
slipped == v15
fresh == v7
target == v2
version == v1
ids == v7
read == v4
stage == v8
bound == v9
intact == v5
cache == v3
time == v5
request == v1
flipped == v6
spent == v4
host == v4
discovery == v6
answers == v9
reviewed == v7
phase == v13
applied == v10
chat == v5
test == v12
enrol == v8
proof == v1
proven == v14
acts == v11
runs == v2
proc == v5
path == v4
conn == v3
refused == v2
starts == v1
provider == v4
allowed == v6
service == v3
action == v9
result == v10
told == v2
disturbed == v5
done == v8
others == v7
state == v5
disk == v4
snap == v8
saved == v7
scan == v11
urgent == v9
cut == v10
scans == v3
changes == v6
kind == v6
pending == v4
receipts == v1
incident == v5
history == v2
failures == v4
kept == v6
counter == v5
ghost == v3
epoch == v4
revoked == v8
token == v1
marker == v6
req == v5
proved == v9
alive == v7
verdict == v6
calm == v10
settled == v9
crashes == v7
turns == v8
lines == v2
core == v8
up == v7
cmd == v6
ops == v9
offset == v7
until == v9
waited == v13
aimed == v8
lock == v5
todo == v12
results == v11
asked == v6
patches == v10
USE DEF now, legacy, run, ledger, day, status, at, queue, free, calls, from, faults, file,
        loaded, owner, op, foreign, announced, watch, edits, tries, dir, extra, backup, base,
        effect, pre, binding, ours, made, slipped, fresh, target, version, ids, read, stage, bound,
        intact, cache, time, request, flipped, spent, host, discovery, answers, reviewed,
        phase, applied, chat, test, enrol, proof, proven, acts, runs, proc, path, conn,
        refused, starts, provider, allowed, service, action, result, told, disturbed, done,
        others, state, disk, snap, saved, scan, urgent, cut, scans, changes, kind, pending,
        receipts, incident, history, failures, kept, counter, ghost, epoch, revoked, token,
        marker, req, proved, alive, verdict, calm, settled, crashes, turns, lines, core, up,
        cmd, ops, offset, until, waited, aimed, lock, todo, results, asked, patches

----------------------------------------------------------------------------
(* A sequence and its elements.                                            *)
LEMMA ElementsOfSeq ==
  ASSUME NEW S, NEW s \in Seq(S)
  PROVE  /\ Len(s) \in Nat /\ DOMAIN s = 1..Len(s)
         /\ \A i \in 1..Len(s) : s[i] \in S
OBVIOUS

(* The first n numbers are finitely many, and n of them.                   *)
LEMMA UpToIsFinite ==
  ASSUME NEW n \in Nat
  PROVE  IsFiniteSet(1..n) /\ Cardinality(1..n) = n
<1>1. 1 \in Int /\ n \in Int
  OBVIOUS
<1>2. IsFiniteSet(1..n) /\ Cardinality(1..n) = IF 1 > n THEN 0 ELSE n - 1 + 1
  BY <1>1, FS_Interval
<1>3. QED BY <1>2

LEMMA FunctionIsSeq ==
  ASSUME NEW S, NEW n \in Nat, NEW f \in [1..n -> S]
  PROVE  f \in Seq(S) /\ Len(f) = n
OBVIOUS

LEMMA ElementsOfConcat ==
  ASSUME NEW S, NEW s \in Seq(S), NEW t \in Seq(S)
  PROVE  /\ s \o t \in Seq(S) /\ Len(s \o t) = Len(s) + Len(t)
         /\ \A i \in 1..Len(s) : (s \o t)[i] = s[i]
         /\ \A i \in 1..Len(t) : (s \o t)[Len(s) + i] = t[i]
OBVIOUS

(* A set of numbers has a least, and a bounded one a greatest: that which  *)
(* the bound exceeds by the least.                                         *)
LEMMA LeastExists ==
  ASSUME NEW S \in SUBSET Nat, S # {}
  PROVE  \E i \in S : \A j \in S : i <= j
<1>. DEFINE Less == {pair \in Nat \X Nat : pair[1] < pair[2]}
<1>1. IsWellFoundedOn(Less, Nat)
  <2>1. OpToRel(<, Nat) = Less
    BY DEF OpToRel
  <2>2. QED BY <2>1, NatLessThanWellFounded, Zenon
<1>2. PICK i \in S : \A j \in S : ~(<<j, i>> \in Less)
  <2>. HIDE DEF Less
  <2>1. S \subseteq Nat
    OBVIOUS
  <2>2. QED BY <1>1, <2>1, WFMin, Zenon
<1>3. \A j \in S : ~(j < i)
  <2>. SUFFICES ASSUME NEW j \in S, j < i PROVE <<j, i>> \in Less
    BY <1>2
  <2>1. <<j, i>> \in Nat \X Nat /\ <<j, i>>[1] = j /\ <<j, i>>[2] = i
    OBVIOUS
  <2>2. QED BY <2>1, Zenon
<1>4. QED BY <1>3

LEMMA GreatestExists ==
  ASSUME NEW n \in Nat, NEW S \in SUBSET (0..n), S # {}
  PROVE  \E i \in S : \A j \in S : j <= i
<1>. DEFINE Short == {n - i : i \in S}
<1>1. \A i \in S : i \in 0..n /\ n - i \in Nat
  OBVIOUS
<1>2. Short \in SUBSET Nat /\ Short # {}
  BY <1>1
<1>3. PICK k \in Short : \A j \in Short : k <= j
  <2>. HIDE DEF Short
  <2>1. QED BY <1>2, LeastExists
<1>4. PICK i \in S : k = n - i
  BY <1>3
<1>5. ASSUME NEW j \in S PROVE j <= i
  <2>1. n - j \in Short /\ n - j \in Nat /\ n - i \in Nat /\ j \in 0..n /\ i \in 0..n
    BY <1>1
  <2>2. n - i <= n - j
    BY <1>3, <1>4, <2>1
  <2>3. QED BY <2>1, <2>2
<1>6. QED BY <1>5

----------------------------------------------------------------------------
(* Attempts.                                                               *)

AtConstants == /\ Day \in Nat /\ Cooldown \in Nat /\ MaxPerDay \in Nat
               /\ Plans \subseteq Seq(Targets)

Row == [run : Runs, n : Nat, target : Targets, state : {"reserved", "consumed", "released"}, at : Nat]
AtTypeOK ==
  /\ now \in Nat
  /\ legacy \in [Targets -> SUBSET {0}]
  /\ run \in [Runs -> [plan : Seq(Targets), limited : BOOLEAN,
                       stage : {"none", "approved", "running", "over"}]]
  /\ ledger \in Seq(Row)

(* A row is of a run that was approved, and of a moment that is not to     *)
(* come.                                                                   *)
RowIsOfARun(i) == ledger[i].at <= now /\ run[ledger[i].run].stage # "none"

(* What was done before the ledger was long ago when the limits let a run  *)
(* through, and stays so.                                                  *)
LegacyIsOld(r) == run[r].limited /\ run[r].stage = "approved" =>
  \A n \in DOMAIN run[r].plan : \A then \in legacy[run[r].plan[n]] : now - then >= Cooldown

(* What CapHolds and CooldownHolds say of one row.                         *)
Window(i) == {j \in 1..i : /\ At!Live(j) /\ ledger[j].target = ledger[i].target
                           /\ ledger[j].at >= ledger[i].at - Day}
CapOf(i) == At!ByAutomation(i) => Cardinality(Window(i)) <= MaxPerDay
Spaced(i, j) == At!Live(j) /\ ledger[j].target = ledger[i].target /\ ledger[j].run # ledger[i].run =>
  ledger[i].at - ledger[j].at >= Cooldown
CooldownOf(i) == At!ByAutomation(i) => /\ \A j \in 1..(i - 1) : Spaced(i, j)
                                       /\ \A then \in legacy[ledger[i].target] : ledger[i].at - then >= Cooldown

AtInv == /\ AtTypeOK
         /\ \A i \in 1..Len(ledger) : RowIsOfARun(i) /\ CapOf(i) /\ CooldownOf(i)
         /\ \A r \in Runs : LegacyIsOld(r)

(* The instance counts as the theorems about cardinality do.               *)
LEMMA AttemptsCount ==
  ASSUME NEW S
  PROVE  At!Cardinality(S) = Cardinality(S)
BY DEF At!Cardinality, Cardinality

----------------------------------------------------------------------------
(* The two checks.                                                         *)

(* Nothing that counts was done to a target within the cooldown.           *)
Rested(t) == \A i \in 1..Len(ledger) : At!Live(i) /\ ledger[i].target = t => now - ledger[i].at >= Cooldown
FitsTheCap(t, requested) == Cardinality(At!Recent(t, now - Day)) + requested <= MaxPerDay

LEMMA RowsAreTyped ==
  ASSUME AtTypeOK
  PROVE  /\ Len(ledger) \in Nat /\ DOMAIN ledger = 1..Len(ledger)
         /\ \A i \in 1..Len(ledger) : /\ ledger[i] \in Row
                                      /\ ledger[i].run \in Runs /\ ledger[i].at \in Nat
                                      /\ ledger[i].target \in Targets
<1>1. ledger \in Seq(Row)
  BY DEF AtTypeOK
<1>2. /\ Len(ledger) \in Nat /\ DOMAIN ledger = 1..Len(ledger)
      /\ \A i \in 1..Len(ledger) : ledger[i] \in Row
  BY <1>1, ElementsOfSeq
<1>3. QED BY <1>2 DEF Row

LEMMA RecentIsFinite ==
  ASSUME AtTypeOK, NEW t, NEW since
  PROVE  /\ IsFiniteSet(At!Recent(t, since)) /\ Cardinality(At!Recent(t, since)) \in Nat
         /\ At!Recent(t, since) \subseteq 1..Len(ledger)
<1>1. Len(ledger) \in Nat /\ DOMAIN ledger = 1..Len(ledger)
  BY RowsAreTyped
<1>2. At!Recent(t, since) \subseteq 1..Len(ledger)
  BY <1>1 DEF At!Recent
<1>3. IsFiniteSet(1..Len(ledger))
  BY <1>1, UpToIsFinite
<1>4. QED BY <1>2, <1>3, FS_Subset, FS_CardinalityType

LEMMA LookbackIsBoth ==
  ASSUME AtConstants
  PROVE  At!Lookback \in Nat /\ At!Lookback >= Day /\ At!Lookback >= Cooldown
BY DEF AtConstants, At!Lookback

(* A target that rested is not cooling down, and the other way round.      *)
LEMMA ReservationChecksRest ==
  ASSUME AtConstants, AtTypeOK, NEW t
  PROVE  ~At!CoolingDown(t) <=> Rested(t)
<1>1. Len(ledger) \in Nat /\ DOMAIN ledger = 1..Len(ledger) /\ now \in Nat /\ Cooldown \in Nat
  BY RowsAreTyped DEF AtTypeOK, AtConstants
<1>2. \A i \in 1..Len(ledger) : ledger[i].at \in Nat
  BY RowsAreTyped
<1>3. At!CoolingDown(t) <=> \E i \in 1..Len(ledger) :
        At!Live(i) /\ ledger[i].target = t /\ ledger[i].at >= now - At!Lookback /\ ledger[i].at > now - Cooldown
  BY <1>1 DEF At!CoolingDown, At!Recent
<1>4. \A i \in 1..Len(ledger) : ledger[i].at > now - Cooldown => ledger[i].at >= now - At!Lookback
  BY <1>1, <1>2, LookbackIsBoth
<1>5. QED BY <1>1, <1>2, <1>3, <1>4 DEF Rested

LEMMA ReservationChecksCap ==
  ASSUME AtConstants, AtTypeOK, NEW t, NEW requested \in Nat
  PROVE  ~At!OverTheCap(t, requested) <=> FitsTheCap(t, requested)
<1>1. Cardinality(At!Recent(t, now - Day)) \in Nat
  BY RecentIsFinite
<1>2. QED BY <1>1, AttemptsCount DEF At!OverTheCap, FitsTheCap, AtConstants

LEMMA LatestBoundsTimes ==
  ASSUME NEW n \in Nat, NEW S \in SUBSET (0..n), S # {}
  PROVE  At!Max(S) \in S /\ \A x \in S : x <= At!Max(S)
<1>1. \E x \in S : \A y \in S : x >= y
  BY GreatestExists
<1>2. QED BY <1>1 DEF At!Max

(* What a proposal is refused for is more than what a reservation is: the  *)
(* executions from before the ledger count for it too.                     *)
LEMMA ProposalChecks ==
  ASSUME AtConstants, AtTypeOK, \A i \in 1..Len(ledger) : ledger[i].at <= now,
         NEW t \in Targets, NEW requested \in Nat, ~At!LimitRefusal(t, requested)
  PROVE  /\ Rested(t) /\ FitsTheCap(t, requested)
         /\ \A then \in legacy[t] : now - then >= Cooldown
<1>. DEFINE rows == At!Recent(t, now - At!Lookback)
            old == {then \in legacy[t] : then >= now - At!Lookback}
            times == {ledger[i].at : i \in rows} \cup old
            lately == {i \in rows : ledger[i].at >= now - Day}
            before == {then \in old : then >= now - Day}
<1>1. /\ ~(times # {} /\ now - At!Max(times) < Cooldown)
      /\ ~(At!Cardinality(lately) + At!Cardinality(before) + requested > MaxPerDay)
  BY DEF At!LimitRefusal
<1>2. /\ Len(ledger) \in Nat /\ DOMAIN ledger = 1..Len(ledger) /\ now \in Nat
      /\ Cooldown \in Nat /\ Day \in Nat /\ MaxPerDay \in Nat
      /\ legacy[t] \subseteq {0}
  BY RowsAreTyped DEF AtTypeOK, AtConstants
<1>3. \A i \in 1..Len(ledger) : ledger[i].at \in Nat
  BY RowsAreTyped
<1>4. rows \subseteq 1..Len(ledger)
  BY RecentIsFinite
<1>5. times \in SUBSET (0..now)
  <2>1. \A i \in rows : ledger[i].at \in 0..now
    BY <1>2, <1>3, <1>4
  <2>2. old \subseteq 0..now
    BY <1>2
  <2>3. QED BY <2>1, <2>2
<1>6. \A x \in times : now - x >= Cooldown
  <2>. SUFFICES ASSUME NEW x \in times PROVE now - x >= Cooldown
    OBVIOUS
  <2>1. At!Max(times) \in times /\ x <= At!Max(times)
    <3>. HIDE DEF times
    <3>1. QED BY <1>2, <1>5, LatestBoundsTimes
  <2>2. now - At!Max(times) >= Cooldown /\ x \in 0..now /\ At!Max(times) \in 0..now
    <3>1. times # {} /\ x \in times
      OBVIOUS
    <3>. HIDE DEF times
    <3>2. PICK latest : latest = At!Max(times)
      OBVIOUS
    <3>3. latest \in 0..now /\ x \in 0..now
      BY <1>5, <2>1, <3>2
    <3>4. ~(now - latest < Cooldown)
      BY <1>1, <3>1, <3>2, Zenon
    <3>5. now - latest >= Cooldown
      BY <1>2, <3>3, <3>4
    <3>6. QED BY <3>2, <3>3, <3>5, Zenon
  <2>. HIDE DEF times
  <2>3. QED BY <1>2, <2>1, <2>2
<1>7. Rested(t)
  <2>. SUFFICES ASSUME NEW i \in 1..Len(ledger), At!Live(i), ledger[i].target = t
                PROVE  now - ledger[i].at >= Cooldown
    BY DEF Rested
  <2>1. CASE ledger[i].at >= now - At!Lookback
    <3>1. i \in rows
      BY <1>2, <2>1 DEF At!Recent
    <3>2. QED BY <1>6, <3>1
  <2>2. CASE ~(ledger[i].at >= now - At!Lookback)
    BY <1>2, <1>3, <2>2, LookbackIsBoth
  <2>3. QED BY <2>1, <2>2
<1>8. FitsTheCap(t, requested)
  <2>1. lately = At!Recent(t, now - Day)
    BY <1>2, <1>3, LookbackIsBoth DEF At!Recent
  <2>2. Cardinality(lately) \in Nat
    BY <2>1, RecentIsFinite
  <2>3. Cardinality(before) \in Nat
    <3>1. IsFiniteSet({0}) /\ before \in SUBSET {0}
      BY <1>2, FS_Singleton
    <3>2. IsFiniteSet(before)
      BY <3>1, FS_Subset
    <3>3. QED BY <3>2, FS_CardinalityType
  <2>4. ~(Cardinality(lately) + Cardinality(before) + requested > MaxPerDay)
    BY <1>1, AttemptsCount
  <2>. HIDE DEF lately, before
  <2>5. QED BY <1>2, <2>1, <2>2, <2>3, <2>4 DEF FitsTheCap
<1>9. \A then \in legacy[t] : now - then >= Cooldown
  <2>. SUFFICES ASSUME NEW then \in legacy[t] PROVE now - then >= Cooldown
    OBVIOUS
  <2>1. CASE then \in old
    BY <1>6, <2>1
  <2>2. CASE then \notin old
    BY <1>2, <2>2, LookbackIsBoth
  <2>3. QED BY <2>1, <2>2
<1>10. QED BY <1>7, <1>8, <1>9

LEMMA RequestedIsANumber ==
  ASSUME NEW plan \in Seq(Targets), NEW t
  PROVE  /\ IsFiniteSet({n \in DOMAIN plan : plan[n] = t})
         /\ At!Requested(plan, t) = Cardinality({n \in DOMAIN plan : plan[n] = t})
         /\ At!Requested(plan, t) \in Nat
<1>1. IsFiniteSet(DOMAIN plan)
  BY ElementsOfSeq, UpToIsFinite
<1>2. IsFiniteSet({n \in DOMAIN plan : plan[n] = t})
  BY <1>1, FS_Subset
<1>3. QED BY <1>2, AttemptsCount, FS_CardinalityType DEF At!Requested

LEMMA PlanNames ==
  ASSUME NEW plan \in Seq(Targets)
  PROVE  At!Range(plan) \subseteq Targets /\ \A n \in DOMAIN plan : plan[n] \in At!Range(plan)
BY ElementsOfSeq DEF At!Range

----------------------------------------------------------------------------
(* The rows of the ledger.                                                 *)

(* Rows that stay what they are, or no longer count, keep within the       *)
(* limits.                                                                 *)
LEMMA OldRowsKeep ==
  ASSUME AtConstants, AtInv, legacy' = legacy, NEW i \in 1..Len(ledger),
         \A j \in 1..Len(ledger) : /\ ledger'[j].target = ledger[j].target /\ ledger'[j].at = ledger[j].at
                                   /\ ledger'[j].run = ledger[j].run /\ (At!Live(j)' => At!Live(j)),
         run'[ledger[i].run].limited = run[ledger[i].run].limited
  PROVE  CapOf(i)' /\ CooldownOf(i)'
<1>1. Len(ledger) \in Nat /\ \A j \in 1..i : j \in 1..Len(ledger)
  BY RowsAreTyped DEF AtInv
<1>2. At!ByAutomation(i)' => At!ByAutomation(i)
  BY DEF At!ByAutomation
<1>3. CapOf(i)'
  <2>1. Window(i)' \subseteq Window(i)
    BY <1>1 DEF Window
  <2>2. IsFiniteSet(1..i) /\ Window(i) \subseteq 1..i
    <3>1. i \in Nat
      BY <1>1
    <3>2. IsFiniteSet(1..i)
      BY <3>1, UpToIsFinite
    <3>3. Window(i) \subseteq 1..i
      BY DEF Window
    <3>4. QED BY <3>2, <3>3
  <2>3. IsFiniteSet(Window(i))
    BY <2>2, FS_Subset
  <2>4. /\ Cardinality(Window(i)') <= Cardinality(Window(i))
        /\ Cardinality(Window(i)) \in Nat /\ Cardinality(Window(i)') \in Nat
    BY <2>1, <2>3, FS_Subset, FS_CardinalityType
  <2>5. CapOf(i)
    BY DEF AtInv
  <2>6. At!ByAutomation(i)' => Cardinality(Window(i)') <= MaxPerDay
    <3>. SUFFICES ASSUME At!ByAutomation(i)' PROVE Cardinality(Window(i)') <= MaxPerDay
      OBVIOUS
    <3>1. Cardinality(Window(i)) <= MaxPerDay
      BY <1>2, <2>5 DEF CapOf
    <3>2. QED BY <2>4, <3>1 DEF AtConstants
  <2>7. QED BY <2>6 DEF CapOf
<1>4. CooldownOf(i)'
  <2>1. CooldownOf(i)
    BY DEF AtInv
  <2>2. \A j \in 1..(i - 1) : j \in 1..Len(ledger)
    BY <1>1
  <2>3. QED BY <1>2, <2>1, <2>2 DEF CooldownOf, Spaced
<1>5. QED BY <1>3, <1>4

(* Rows that are settled: those that change were reserved, and count no    *)
(* longer or as they did.                                                  *)
LEMMA RowsSettle ==
  ASSUME AtConstants, AtInv, UNCHANGED <<now, legacy>>,
         NEW mark \in [1..Len(ledger) -> {"reserved", "consumed", "released"}],
         \A i \in 1..Len(ledger) : mark[i] # ledger[i].state => ledger[i].state = "reserved",
         ledger' = [i \in DOMAIN ledger |-> [ledger[i] EXCEPT !.state = mark[i]]],
         run' \in [Runs -> [plan : Seq(Targets), limited : BOOLEAN,
                            stage : {"none", "approved", "running", "over"}]],
         \A q \in Runs : run'[q] = run[q] \/ (/\ run'[q].limited = run[q].limited
                                              /\ run'[q].stage = "over")
  PROVE  AtInv'
<1>1. /\ Len(ledger) \in Nat /\ DOMAIN ledger = 1..Len(ledger)
      /\ \A i \in 1..Len(ledger) : ledger[i] \in Row /\ ledger[i].run \in Runs
  BY RowsAreTyped DEF AtInv
<1>2. /\ ledger' \in Seq(Row) /\ Len(ledger') = Len(ledger)
      /\ \A i \in 1..Len(ledger) : /\ ledger'[i].target = ledger[i].target /\ ledger'[i].at = ledger[i].at
                                   /\ ledger'[i].run = ledger[i].run /\ ledger'[i].state = mark[i]
  <2>1. \A i \in 1..Len(ledger) : [ledger[i] EXCEPT !.state = mark[i]] \in Row
    BY <1>1 DEF Row
  <2>2. ledger' \in [1..Len(ledger) -> Row]
    BY <1>1, <2>1
  <2>3. ledger' \in Seq(Row) /\ Len(ledger') = Len(ledger)
    BY <1>1, <2>2
  <2>4. QED BY <1>1, <2>3 DEF Row
<1>3. AtTypeOK'
  BY <1>2 DEF AtInv, AtTypeOK
<1>4. \A i \in 1..Len(ledger) : At!Live(i)' => At!Live(i)
  BY <1>2 DEF At!Live
<1>5. \A i \in 1..Len(ledger) : CapOf(i)' /\ CooldownOf(i)'
  BY <1>1, <1>2, <1>4, OldRowsKeep
<1>6. \A i \in 1..Len(ledger) : RowIsOfARun(i)'
  BY <1>1, <1>2 DEF AtInv, RowIsOfARun
<1>7. \A q \in Runs : LegacyIsOld(q)'
  BY DEF AtInv, LegacyIsOld
<1>8. QED BY <1>2, <1>3, <1>5, <1>6, <1>7 DEF AtInv

LEMMA LedgerGrows ==
  ASSUME NEW R, ledger \in Seq(R), NEW new \in Seq(R), NEW n, Len(new) = n, ledger' = ledger \o new
  PROVE  /\ ledger' \in Seq(R) /\ Len(ledger') = Len(ledger) + n
         /\ \A i \in 1..Len(ledger) : ledger'[i] = ledger[i]
         /\ \A i \in 1..n : ledger'[Len(ledger) + i] = new[i]
<1>1. ledger \o new \in Seq(R) /\ Len(ledger \o new) = Len(ledger) + n
  OBVIOUS
<1>2. \A i \in 1..Len(ledger) : (ledger \o new)[i] = ledger[i]
  OBVIOUS
<1>3. \A i \in 1..n : (ledger \o new)[Len(ledger) + i] = new[i]
  OBVIOUS
<1>4. QED BY <1>1, <1>2, <1>3, Zenon

(* A run that starts adds a reserved row for each of its steps.            *)
LEMMA RowsAreAdded ==
  ASSUME AtTypeOK, NEW r \in Runs, NEW plan \in Seq(Targets),
         ledger' = ledger \o [n \in DOMAIN plan |->
           [run |-> r, n |-> n, target |-> plan[n], state |-> "reserved", at |-> now]]
  PROVE  /\ ledger' \in Seq(Row) /\ Len(ledger') = Len(ledger) + Len(plan)
         /\ \A i \in 1..Len(ledger) : ledger'[i] = ledger[i]
         /\ \A n \in 1..Len(plan) : /\ ledger'[Len(ledger) + n].run = r
                                    /\ ledger'[Len(ledger) + n].target = plan[n]
                                    /\ ledger'[Len(ledger) + n].at = now
<1>. DEFINE rows == [n \in DOMAIN plan |->
              [run |-> r, n |-> n, target |-> plan[n], state |-> "reserved", at |-> now]]
<1>1. /\ Len(plan) \in Nat /\ DOMAIN plan = 1..Len(plan) /\ \A n \in 1..Len(plan) : plan[n] \in Targets
  BY ElementsOfSeq
<1>2. ledger \in Seq(Row) /\ now \in Nat
  BY DEF AtTypeOK
<1>3. rows \in [1..Len(plan) -> Row]
  BY <1>1, <1>2 DEF Row
<1>4. \A n \in 1..Len(plan) : rows[n].run = r /\ rows[n].target = plan[n] /\ rows[n].at = now
  BY <1>1
<1>5. ledger' = ledger \o rows
  OBVIOUS
<1>. HIDE DEF rows
<1>6. rows \in Seq(Row) /\ Len(rows) = Len(plan)
  BY <1>1, <1>3, FunctionIsSeq
<1>7. /\ ledger' \in Seq(Row) /\ Len(ledger') = Len(ledger) + Len(plan)
      /\ \A i \in 1..Len(ledger) : ledger'[i] = ledger[i]
      /\ \A n \in 1..Len(plan) : ledger'[Len(ledger) + n] = rows[n]
  <2>1. PICK new : new = rows
    OBVIOUS
  <2>2. new \in Seq(Row) /\ Len(new) = Len(plan) /\ ledger' = ledger \o new
    BY <1>5, <1>6, <2>1
  <2>3. /\ ledger' \in Seq(Row) /\ Len(ledger') = Len(ledger) + Len(plan)
        /\ \A i \in 1..Len(ledger) : ledger'[i] = ledger[i]
        /\ \A n \in 1..Len(plan) : ledger'[Len(ledger) + n] = new[n]
    BY <1>2, <2>2, LedgerGrows
  <2>4. QED BY <2>1, <2>3
<1>8. QED BY <1>4, <1>7

LEMMA StartKeepsLimits ==
  ASSUME AtConstants, AtInv, NEW r \in Runs, At!Start(r)
  PROVE  AtInv'
<1>0. PICK L \in Nat, plan \in Seq(Targets) : L = Len(ledger) /\ plan = run[r].plan
  BY RowsAreTyped DEF AtInv, AtTypeOK
<1>1. /\ run[r].stage = "approved" /\ UNCHANGED <<now, legacy>>
      /\ now \in Nat /\ run[r].limited \in BOOLEAN
  BY DEF At!Start, AtInv, AtTypeOK
<1>2. CASE run[r].limited /\ At!ReservationRefused(plan)
  <2>1. run' = [run EXCEPT ![r].stage = "over"] /\ ledger' = ledger
    BY <1>0, <1>2 DEF At!Start
  <2>2. /\ run' \in [Runs -> [plan : Seq(Targets), limited : BOOLEAN,
                              stage : {"none", "approved", "running", "over"}]]
        /\ \A q \in Runs : /\ run'[q].limited = run[q].limited
                           /\ q # r => run'[q] = run[q]
                           /\ q = r => run'[q].stage = "over"
    BY <2>1 DEF AtInv, AtTypeOK
  <2>3. AtTypeOK'
    BY <1>1, <2>1, <2>2 DEF AtInv, AtTypeOK
  <2>4. \A i \in 1..Len(ledger) : RowIsOfARun(i)' /\ CapOf(i)' /\ CooldownOf(i)'
    <3>1. \A i \in 1..Len(ledger) : ledger[i].run \in Runs
      BY RowsAreTyped DEF AtInv
    <3>2. \A i \in 1..Len(ledger) : RowIsOfARun(i)'
      BY <1>1, <2>1, <2>2, <3>1 DEF AtInv, RowIsOfARun
    <3>3. \A i \in 1..Len(ledger) : At!Live(i)' => At!Live(i)
      BY <2>1 DEF At!Live
    <3>4. QED BY <1>1, <2>1, <2>2, <3>1, <3>2, <3>3, OldRowsKeep
  <2>5. \A q \in Runs : LegacyIsOld(q)'
    BY <1>1, <2>2 DEF AtInv, LegacyIsOld
  <2>6. QED BY <2>1, <2>3, <2>4, <2>5 DEF AtInv
<1>3. CASE ~(run[r].limited /\ At!ReservationRefused(plan))
  <2>1. /\ run' = [run EXCEPT ![r].stage = "running"]
        /\ ledger' = ledger \o [n \in DOMAIN plan |->
             [run |-> r, n |-> n, target |-> plan[n], state |-> "reserved", at |-> now]]
    BY <1>0, <1>3 DEF At!Start
  <2>2. /\ run' \in [Runs -> [plan : Seq(Targets), limited : BOOLEAN,
                              stage : {"none", "approved", "running", "over"}]]
        /\ \A q \in Runs : /\ run'[q].limited = run[q].limited
                           /\ q # r => run'[q] = run[q]
                           /\ q = r => run'[q].stage = "running"
    BY <2>1 DEF AtInv, AtTypeOK
  <2>3. /\ L \in Nat /\ Len(plan) \in Nat /\ DOMAIN plan = 1..Len(plan)
        /\ \A i \in 1..L : /\ ledger[i].run \in Runs /\ ledger[i].at \in Nat
                           /\ ledger[i].at <= now
                           /\ run[ledger[i].run].stage # "none"
    BY <1>0, <1>1, RowsAreTyped, ElementsOfSeq DEF AtInv, RowIsOfARun
  <2>4. /\ ledger' \in Seq(Row) /\ Len(ledger') = L + Len(plan)
        /\ \A i \in 1..L : ledger'[i] = ledger[i]
        /\ \A n \in 1..Len(plan) : /\ ledger'[L + n].run = r /\ ledger'[L + n].target = plan[n]
                                   /\ ledger'[L + n].at = now
    <3>1. AtTypeOK
      BY DEF AtInv
    <3>. HIDE DEF AtInv
    <3>2. /\ ledger' \in Seq(Row) /\ Len(ledger') = Len(ledger) + Len(plan)
          /\ \A i \in 1..Len(ledger) : ledger'[i] = ledger[i]
          /\ \A n \in 1..Len(plan) : /\ ledger'[Len(ledger) + n].run = r
                                     /\ ledger'[Len(ledger) + n].target = plan[n]
                                     /\ ledger'[Len(ledger) + n].at = now
      BY <2>1, <3>1, RowsAreAdded
    <3>3. QED BY <1>0, <3>2
  <2>5. AtTypeOK'
    BY <1>1, <2>2, <2>4 DEF AtInv, AtTypeOK
  <2>6. ASSUME NEW i \in 1..Len(ledger')
        PROVE  i \in 1..L \/ \E n \in 1..Len(plan) : i = L + n
    <3>1. i \in 1..(L + Len(plan))
      BY <2>4
    <3>2. CASE i > L
      <4>1. i - L \in 1..Len(plan) /\ i = L + (i - L)
        BY <2>3, <3>1, <3>2
      <4>2. QED BY <4>1
    <3>3. QED BY <2>3, <3>1, <3>2
  <2>7. \A i \in 1..L : At!Live(i)' => At!Live(i)
    BY <2>4 DEF At!Live
  <2>8. \A i \in 1..L : RowIsOfARun(i)' /\ CapOf(i)' /\ CooldownOf(i)'
    <3>1. ASSUME NEW i \in 1..L PROVE RowIsOfARun(i)'
      <4>1. run'[ledger[i].run].stage # "none"
        BY <1>1, <2>2, <2>3
      <4>2. QED BY <1>1, <2>3, <2>4, <4>1 DEF RowIsOfARun
    <3>2. \A i \in 1..L : CapOf(i)' /\ CooldownOf(i)'
      BY <1>0, <1>1, <2>2, <2>3, <2>4, <2>7, OldRowsKeep
    <3>3. QED BY <3>1, <3>2
  <2>9. ASSUME NEW n \in 1..Len(plan)
        PROVE  RowIsOfARun(L + n)' /\ CapOf(L + n)' /\ CooldownOf(L + n)'
    <3>. DEFINE t == plan[n]
    <3>1. /\ ledger'[L + n].run = r /\ ledger'[L + n].target = t /\ ledger'[L + n].at = now
          /\ L + n \in Nat /\ L + n \in 1..Len(ledger')
      BY <2>3, <2>4
    <3>2. RowIsOfARun(L + n)'
      BY <1>1, <2>2, <3>1 DEF RowIsOfARun
    <3>3. At!ByAutomation(L + n)' => run[r].limited
      BY <2>2, <3>1 DEF At!ByAutomation
    <3>. DEFINE requested == At!Requested(plan, t)
    <3>4. requested \in Nat /\ t \in Targets
      BY <1>1, <2>3, RequestedIsANumber, ElementsOfSeq
    <3>5. run[r].limited => Rested(t) /\ FitsTheCap(t, requested)
      <4>1. t \in At!Range(plan)
        BY <1>1, <2>3, PlanNames
      <4>2. run[r].limited => ~At!CoolingDown(t) /\ ~At!OverTheCap(t, requested)
        BY <1>3, <4>1 DEF At!ReservationRefused
      <4>. HIDE DEF t, requested
      <4>3. QED BY <3>4, <4>2, ReservationChecksRest, ReservationChecksCap DEF AtInv
    <3>6. CapOf(L + n)'
      <4>. DEFINE recent == At!Recent(t, now - Day)
                  wanted == {m \in DOMAIN plan : plan[m] = t}
                  placed == {L + m : m \in wanted}
      <4>1. IsFiniteSet(wanted) /\ Cardinality(wanted) = requested /\ Cardinality(wanted) \in Nat
        BY <1>1, RequestedIsANumber
      <4>2. IsFiniteSet(placed) /\ Cardinality(placed) <= Cardinality(wanted) /\ Cardinality(placed) \in Nat
        <5>. DEFINE shift == [m \in wanted |-> L + m]
        <5>1. shift \in Surjection(wanted, placed)
          BY DEF Surjection
        <5>. HIDE DEF shift, wanted, placed
        <5>2. QED BY <4>1, <5>1, FS_Surjection, FS_CardinalityType
      <4>3. IsFiniteSet(recent) /\ Cardinality(recent) \in Nat
        BY RecentIsFinite DEF AtInv
      <4>4. Window(L + n)' \subseteq recent \cup placed
        <5>. SUFFICES ASSUME NEW j \in 1..(L + n), At!Live(j)', ledger'[j].target = t, ledger'[j].at >= now - Day
                      PROVE  j \in recent \cup placed
          BY <1>1, <3>1 DEF Window
        <5>1. CASE j \in 1..L
          BY <1>0, <2>3, <2>4, <2>7, <5>1, RowsAreTyped DEF At!Recent, AtInv
        <5>2. CASE j \notin 1..L
          <6>1. j \in 1..Len(ledger')
            BY <2>3, <2>4
          <6>2. PICK m \in 1..Len(plan) : j = L + m
            BY <2>6, <5>2, <6>1
          <6>3. m \in wanted
            BY <2>3, <2>4, <6>2
          <6>4. QED BY <6>2, <6>3
        <5>3. QED BY <5>1, <5>2
      <4>. HIDE DEF recent, wanted, placed
      <4>5. /\ IsFiniteSet(recent \cup placed)
            /\ Cardinality(recent \cup placed) <= Cardinality(recent) + Cardinality(placed)
        <5>1. IsFiniteSet(recent \cap placed)
          BY <4>3, FS_Subset
        <5>2. Cardinality(recent \cap placed) \in Nat
          BY <5>1, FS_CardinalityType
        <5>3. /\ IsFiniteSet(recent \cup placed)
              /\ Cardinality(recent \cup placed) =
                   Cardinality(recent) + Cardinality(placed) - Cardinality(recent \cap placed)
          BY <4>2, <4>3, FS_Union
        <5>4. QED BY <4>2, <4>3, <5>2, <5>3
      <4>6. /\ Cardinality(Window(L + n)') <= Cardinality(recent \cup placed)
            /\ Cardinality(Window(L + n)') \in Nat /\ Cardinality(recent \cup placed) \in Nat
        BY <4>4, <4>5, FS_Subset, FS_CardinalityType
      <4>7. run[r].limited => Cardinality(recent) + requested <= MaxPerDay
        BY <3>5 DEF FitsTheCap, recent
      <4>. HIDE DEF requested, t
      <4>8. run[r].limited => Cardinality(Window(L + n)') <= MaxPerDay
        BY <4>1, <4>2, <4>3, <4>5, <4>6, <4>7 DEF AtConstants
      <4>9. QED BY <3>3, <4>8 DEF CapOf
    <3>7. CooldownOf(L + n)'
      <4>1. ASSUME run[r].limited, NEW j \in 1..(L + n - 1) PROVE Spaced(L + n, j)'
        <5>1. CASE j \in 1..L
          BY <1>0, <1>1, <2>3, <2>4, <2>7, <3>1, <3>5, <4>1, <5>1 DEF Spaced, Rested
        <5>2. CASE j \notin 1..L
          <6>1. j \in 1..Len(ledger')
            BY <2>3, <2>4
          <6>2. PICK m \in 1..Len(plan) : j = L + m
            BY <2>6, <5>2, <6>1
          <6>3. QED BY <2>4, <3>1, <6>2 DEF Spaced
        <5>3. QED BY <5>1, <5>2
      <4>2. run[r].limited => \A then \in legacy[t] : now - then >= Cooldown
        BY <1>0, <1>1, <2>3 DEF AtInv, LegacyIsOld
      <4>3. QED BY <1>1, <3>1, <3>3, <4>1, <4>2 DEF CooldownOf
    <3>8. QED BY <3>2, <3>6, <3>7
  <2>10. \A q \in Runs : LegacyIsOld(q)'
    BY <1>1, <2>2 DEF AtInv, LegacyIsOld
  <2>11. QED BY <2>5, <2>6, <2>8, <2>9, <2>10 DEF AtInv
<1>4. QED BY <1>2, <1>3

LEMMA ApprovalKeepsLimits ==
  ASSUME AtConstants, AtInv, NEW r \in Runs, run[r].stage = "none", NEW plan \in Seq(Targets),
         NEW limited \in BOOLEAN, UNCHANGED <<now, legacy, ledger>>,
         run' = [run EXCEPT ![r] = [plan |-> plan, limited |-> limited, stage |-> "approved"]],
         limited => \A n \in DOMAIN plan : \A then \in legacy[plan[n]] : now - then >= Cooldown
  PROVE  AtInv'
<1>1. \A i \in 1..Len(ledger) : /\ ledger[i].run \in Runs /\ ledger[i].run # r
                                /\ run'[ledger[i].run] = run[ledger[i].run]
  BY RowsAreTyped DEF AtInv, AtTypeOK, RowIsOfARun
<1>2. run' \in [Runs -> [plan : Seq(Targets), limited : BOOLEAN,
                         stage : {"none", "approved", "running", "over"}]]
  <2>1. [plan |-> plan, limited |-> limited, stage |-> "approved"] \in
          [plan : Seq(Targets), limited : BOOLEAN, stage : {"none", "approved", "running", "over"}]
    OBVIOUS
  <2>2. QED BY <2>1 DEF AtInv, AtTypeOK
<1>3. AtTypeOK'
  BY <1>2 DEF AtInv, AtTypeOK
<1>4. \A i \in 1..Len(ledger) : At!Live(i)' => At!Live(i)
  BY DEF At!Live
<1>5. \A i \in 1..Len(ledger) : CapOf(i)' /\ CooldownOf(i)'
  BY <1>1, <1>4, OldRowsKeep
<1>6. \A i \in 1..Len(ledger) : RowIsOfARun(i)'
  BY <1>1 DEF AtInv, RowIsOfARun
<1>7. ASSUME NEW q \in Runs PROVE LegacyIsOld(q)'
  <2>1. CASE q = r
    <3>1. run'[r].plan = plan /\ run'[r].limited = limited
      BY DEF AtInv, AtTypeOK
    <3>2. QED BY <2>1, <3>1 DEF LegacyIsOld
  <2>2. CASE q # r
    BY <2>2 DEF LegacyIsOld, AtInv, AtTypeOK
  <2>3. QED BY <2>1, <2>2
<1>8. QED BY <1>3, <1>5, <1>6, <1>7 DEF AtInv

LEMMA ProposalKeepsLimits ==
  ASSUME AtConstants, AtInv, NEW r \in Runs, NEW plan \in Plans, At!Propose(r, plan)
  PROVE  AtInv'
<1>1. plan \in Seq(Targets)
  BY DEF AtConstants
<1>2. ASSUME NEW n \in DOMAIN plan PROVE \A then \in legacy[plan[n]] : now - then >= Cooldown
  <2>1. plan[n] \in Targets /\ plan[n] \in At!Range(plan)
    BY <1>1, PlanNames
  <2>2. At!Requested(plan, plan[n]) \in Nat
    BY <1>1, RequestedIsANumber
  <2>3. ~At!LimitRefusal(plan[n], At!Requested(plan, plan[n]))
    BY <2>1 DEF At!Propose, At!ProposalRefused
  <2>4. AtTypeOK /\ \A i \in 1..Len(ledger) : ledger[i].at <= now
    BY DEF AtInv, RowIsOfARun
  <2>5. QED BY <2>1, <2>2, <2>3, <2>4, ProposalChecks
<1>3. /\ run[r].stage = "none" /\ UNCHANGED <<now, legacy, ledger>>
      /\ run' = [run EXCEPT ![r] = [plan |-> plan, limited |-> TRUE, stage |-> "approved"]]
  BY DEF At!Propose
<1>4. QED BY <1>1, <1>2, <1>3, ApprovalKeepsLimits

LEMMA RequestKeepsLimits ==
  ASSUME AtConstants, AtInv, NEW r \in Runs, NEW plan \in Plans, At!Request(r, plan)
  PROVE  AtInv'
<1>1. plan \in Seq(Targets)
  BY DEF AtConstants
<1>2. /\ run[r].stage = "none" /\ UNCHANGED <<now, legacy, ledger>>
      /\ run' = [run EXCEPT ![r] = [plan |-> plan, limited |-> FALSE, stage |-> "approved"]]
  BY DEF At!Request
<1>3. QED BY <1>1, <1>2, ApprovalKeepsLimits

LEMMA RowIsItself ==
  ASSUME NEW row \in Row
  PROVE  [row EXCEPT !.state = row.state] = row
BY DEF Row

LEMMA FirstIsReserved ==
  ASSUME AtTypeOK, NEW r, At!Reserved(r) # {}
  PROVE  At!Min(At!Reserved(r)) \in At!Reserved(r)
<1>1. At!Reserved(r) \in SUBSET Nat
  BY RowsAreTyped DEF At!Reserved
<1>2. \E i \in At!Reserved(r) : \A j \in At!Reserved(r) : i <= j
  BY <1>1, LeastExists
<1>3. QED BY <1>2 DEF At!Min

LEMMA ConsumeKeepsLimits ==
  ASSUME AtConstants, AtInv, NEW r \in Runs, At!Consume(r)
  PROVE  AtInv'
<1>1. PICK first : first = At!Min(At!Reserved(r))
  OBVIOUS
<1>2. first \in At!Reserved(r)
  BY <1>1, FirstIsReserved DEF At!Consume, AtInv
<1>3. PICK mark : mark = [i \in 1..Len(ledger) |-> IF i = first THEN "consumed" ELSE ledger[i].state]
  OBVIOUS
<1>4. DOMAIN ledger = 1..Len(ledger) /\ \A i \in 1..Len(ledger) : ledger[i] \in Row
  BY RowsAreTyped DEF AtInv
<1>5. mark \in [1..Len(ledger) -> {"reserved", "consumed", "released"}]
  BY <1>3, <1>4 DEF Row
<1>6. \A i \in 1..Len(ledger) : mark[i] # ledger[i].state => ledger[i].state = "reserved"
  BY <1>2, <1>3 DEF At!Reserved
<1>7. ledger' = [i \in DOMAIN ledger |-> [ledger[i] EXCEPT !.state = mark[i]]]
  BY <1>1, <1>3, <1>4, RowIsItself DEF At!Consume, At!Settle
<1>8. UNCHANGED <<now, legacy, run>>
  BY DEF At!Consume
<1>9. run' \in [Runs -> [plan : Seq(Targets), limited : BOOLEAN,
                         stage : {"none", "approved", "running", "over"}]]
  BY <1>8 DEF AtInv, AtTypeOK
<1>10. QED BY <1>5, <1>6, <1>7, <1>8, <1>9, RowsSettle

LEMMA EndKeepsLimits ==
  ASSUME AtConstants, AtInv, NEW r \in Runs, At!End(r)
  PROVE  AtInv'
<1>1. DOMAIN ledger = 1..Len(ledger) /\ \A i \in 1..Len(ledger) : ledger[i] \in Row
  BY RowsAreTyped DEF AtInv
<1>2. UNCHANGED <<now, legacy>> /\ run' = [run EXCEPT ![r].stage = "over"]
  BY DEF At!End
<1>3. /\ run' \in [Runs -> [plan : Seq(Targets), limited : BOOLEAN,
                            stage : {"none", "approved", "running", "over"}]]
      /\ \A q \in Runs : run'[q] = run[q] \/ (/\ run'[q].limited = run[q].limited
                                              /\ run'[q].stage = "over")
  BY <1>2 DEF AtInv, AtTypeOK
<1>4. CASE At!Settle(At!Reserved(r), "released")
  <2>1. PICK mark : mark = [i \in 1..Len(ledger) |->
                                IF i \in At!Reserved(r) THEN "released" ELSE ledger[i].state]
    OBVIOUS
  <2>2. mark \in [1..Len(ledger) -> {"reserved", "consumed", "released"}]
    BY <1>1, <2>1 DEF Row
  <2>3. \A i \in 1..Len(ledger) : mark[i] # ledger[i].state => ledger[i].state = "reserved"
    BY <2>1 DEF At!Reserved
  <2>4. ledger' = [i \in DOMAIN ledger |-> [ledger[i] EXCEPT !.state = mark[i]]]
    BY <1>1, <1>4, <2>1, RowIsItself DEF At!Settle
  <2>5. QED BY <1>2, <1>3, <2>2, <2>3, <2>4, RowsSettle
<1>5. CASE At!Reserved(r) # {} /\ ~At!Settle(At!Reserved(r), "released")
  <2>1. PICK first : first = At!Min(At!Reserved(r))
    OBVIOUS
  <2>2. first \in At!Reserved(r)
    BY <1>5, <2>1, FirstIsReserved DEF AtInv
  <2>3. ledger' = [i \in DOMAIN ledger |->
           CASE i = first -> [ledger[i] EXCEPT !.state = "consumed"]
             [] i \in At!Reserved(r) \ {first} -> [ledger[i] EXCEPT !.state = "released"]
             [] OTHER -> ledger[i]]
    BY <1>5, <2>1 DEF At!End
  <2>4. PICK mark : mark = [i \in 1..Len(ledger) |->
                                CASE i = first -> "consumed"
                                  [] i \in At!Reserved(r) \ {first} -> "released"
                                  [] OTHER -> ledger[i].state]
    OBVIOUS
  <2>5. mark \in [1..Len(ledger) -> {"reserved", "consumed", "released"}]
    BY <1>1, <2>4 DEF Row
  <2>6. \A i \in 1..Len(ledger) : mark[i] # ledger[i].state => ledger[i].state = "reserved"
    BY <2>2, <2>4 DEF At!Reserved
  <2>7. ledger' = [i \in DOMAIN ledger |-> [ledger[i] EXCEPT !.state = mark[i]]]
    BY <1>1, <2>3, <2>4, RowIsItself
  <2>8. QED BY <1>2, <1>3, <2>5, <2>6, <2>7, RowsSettle
<1>6. QED BY <1>4, <1>5 DEF At!End

LEMMA TickKeepsLimits ==
  ASSUME AtConstants, AtInv, At!Tick
  PROVE  AtInv'
<1>1. now' = now + 1 /\ UNCHANGED <<legacy, run, ledger>> /\ now \in Nat
  BY DEF At!Tick, AtInv, AtTypeOK
<1>2. AtTypeOK'
  BY <1>1 DEF AtInv, AtTypeOK
<1>3. \A i \in 1..Len(ledger) : ledger[i].at \in Nat /\ (At!Live(i)' => At!Live(i))
  BY <1>1, RowsAreTyped DEF AtInv, At!Live
<1>4. \A i \in 1..Len(ledger) : CapOf(i)' /\ CooldownOf(i)'
  BY <1>1, <1>3, OldRowsKeep
<1>5. \A i \in 1..Len(ledger) : RowIsOfARun(i)'
  BY <1>1, <1>3 DEF AtInv, RowIsOfARun
<1>6. ASSUME NEW q \in Runs PROVE LegacyIsOld(q)'
  <2>1. ASSUME run[q].limited, run[q].stage = "approved",
               NEW n \in DOMAIN run[q].plan, NEW then \in legacy[run[q].plan[n]]
        PROVE  now + 1 - then >= Cooldown /\ then \in Nat
    <3>1. now - then >= Cooldown
      BY <2>1 DEF AtInv, LegacyIsOld
    <3>2. run[q].plan \in Seq(Targets)
      BY DEF AtInv, AtTypeOK
    <3>3. run[q].plan[n] \in Targets
      BY <3>2, PlanNames
    <3>4. then \in Nat
      BY <3>3 DEF AtInv, AtTypeOK
    <3>5. QED BY <1>1, <3>1, <3>4 DEF AtConstants
  <2>2. ASSUME run'[q].limited, run'[q].stage = "approved",
               NEW n \in DOMAIN run'[q].plan, NEW then \in legacy'[run'[q].plan[n]]
        PROVE  now' - then >= Cooldown
    <3>1. now' = now + 1 /\ legacy' = legacy /\ run' = run
      BY <1>1
    <3>2. run[q].limited /\ run[q].stage = "approved"
      BY <2>2, <3>1
    <3>3. n \in DOMAIN run[q].plan
      BY <3>1
    <3>4. then \in legacy[run[q].plan[n]]
      BY <3>1
    <3>5. now + 1 - then >= Cooldown /\ then \in Nat
      BY <2>1, <3>2, <3>3, <3>4, Zenon
    <3>6. QED BY <1>1, <3>1, <3>5 DEF AtConstants
  <2>3. QED BY <2>2 DEF LegacyIsOld
<1>7. QED BY <1>1, <1>2, <1>4, <1>5, <1>6 DEF AtInv

LEMMA InitAttempts == AtConstants /\ At!Init => AtInv
<1>. SUFFICES ASSUME AtConstants, At!Init PROVE AtInv
  OBVIOUS
<1>1. /\ now = 0 /\ ledger = <<>> /\ Len(ledger) = 0 /\ ledger \in Seq(Row)
      /\ legacy \in [Targets -> SUBSET {0}]
      /\ run = [r \in Runs |-> [plan |-> <<>>, limited |-> TRUE, stage |-> "none"]]
  BY DEF At!Init, At!Fresh
<1>2. [plan |-> <<>>, limited |-> TRUE, stage |-> "none"] \in
        [plan : Seq(Targets), limited : BOOLEAN, stage : {"none", "approved", "running", "over"}]
  OBVIOUS
<1>3. AtTypeOK
  BY <1>1, <1>2 DEF AtTypeOK
<1>4. \A r \in Runs : LegacyIsOld(r)
  BY <1>1 DEF LegacyIsOld
<1>5. QED BY <1>1, <1>3, <1>4 DEF AtInv

LEMMA StepAttempts ==
  ASSUME AtConstants, AtInv, [At!Next]_<<now, legacy, run, ledger>>
  PROVE  AtInv'
<1>1. CASE At!Tick
  BY <1>1, TickKeepsLimits
<1>2. ASSUME NEW r \in Runs, At!Start(r) PROVE AtInv'
  BY <1>2, StartKeepsLimits
<1>3. ASSUME NEW r \in Runs, At!Consume(r) PROVE AtInv'
  BY <1>3, ConsumeKeepsLimits
<1>4. ASSUME NEW r \in Runs, At!End(r) PROVE AtInv'
  BY <1>4, EndKeepsLimits
<1>5. ASSUME NEW r \in Runs, NEW plan \in Plans, At!Propose(r, plan) PROVE AtInv'
  BY <1>5, ProposalKeepsLimits
<1>6. ASSUME NEW r \in Runs, NEW plan \in Plans, At!Request(r, plan) PROVE AtInv'
  BY <1>6, RequestKeepsLimits
<1>7. CASE UNCHANGED <<now, legacy, run, ledger>>
  BY <1>7, ZenonT(40) DEF AtInv, AtTypeOK, RowIsOfARun, CapOf, CooldownOf, Window, Spaced, LegacyIsOld,
     At!ByAutomation, At!Live
<1>8. QED BY <1>1, <1>2, <1>3, <1>4, <1>5, <1>6, <1>7 DEF At!Next

(* Every step keeps what the limits rest on, whatever the runbooks, the    *)
(* cap and the cooldown.                                                   *)
THEOREM AttemptsInvariant == At!Spec => []AtInv
<1>1. At!Init => AtInv
  BY LimitsAssumption, InitAttempts DEF AtConstants
<1>2. AtInv /\ [At!Next]_At!attemptVars => AtInv'
  BY LimitsAssumption, StepAttempts DEF AtConstants, At!attemptVars
<1>3. QED BY <1>1, <1>2, PTL DEF At!Spec

LEMMA LimitsFollow ==
  AtInv => At!LimitsHold
<1>. SUFFICES ASSUME AtInv PROVE At!LimitsHold
  OBVIOUS
<1>1. DOMAIN ledger = 1..Len(ledger)
  BY RowsAreTyped DEF AtInv
<1>2. At!CapHolds
  <2>1. \A i \in 1..Len(ledger) : CapOf(i)
    BY DEF AtInv
  <2>2. QED BY <1>1, <2>1, AttemptsCount DEF At!CapHolds, CapOf, Window
<1>3. At!CooldownHolds
  <2>1. \A i \in 1..Len(ledger) : CooldownOf(i)
    BY DEF AtInv
  <2>2. QED BY <1>1, <2>1 DEF At!CooldownHolds, CooldownOf, Spaced
<1>4. QED BY <1>2, <1>3 DEF At!LimitsHold

(* Whatever was checked when it was proposed, released, cut off or         *)
(* reconciled since: automation stays within the cap of every target in    *)
(* any day, and within its cooldown after any other run.                   *)
THEOREM AutomationIsLimited == At!Spec => []At!LimitsHold
<1>1. AtInv => At!LimitsHold
  BY LimitsFollow
<1>2. QED BY <1>1, AttemptsInvariant, PTL

LEMMA ProposalsFollow ==
  AtInv => At!ProposalIsStricter
<1>. SUFFICES ASSUME AtInv, NEW plan \in Plans, ~At!ProposalRefused(plan),
                     NEW t \in At!Range(plan)
              PROVE  ~At!CoolingDown(t) /\ ~At!OverTheCap(t, At!Requested(plan, t))
  BY DEF At!ProposalIsStricter, At!ReservationRefused
<1>0. AtConstants
  BY LimitsAssumption DEF AtConstants
<1>1. plan \in Seq(Targets)
  BY <1>0 DEF AtConstants
<1>2. t \in Targets /\ At!Requested(plan, t) \in Nat
  BY <1>1, PlanNames, RequestedIsANumber
<1>3. AtTypeOK /\ \A i \in 1..Len(ledger) : ledger[i].at <= now
  BY DEF AtInv, RowIsOfARun
<1>4. ~At!LimitRefusal(t, At!Requested(plan, t))
  BY DEF At!ProposalRefused
<1>5. QED BY <1>0, <1>2, <1>3, <1>4, ProposalChecks, ReservationChecksRest, ReservationChecksCap

(* The two checks are written apart: a runbook that policy would let       *)
(* through is one that the reservation of that moment lets through.        *)
THEOREM CardsAreNotRefusedLater == At!Spec => []At!ProposalIsStricter
<1>1. AtInv => At!ProposalIsStricter
  BY ProposalsFollow
<1>2. QED BY <1>1, AttemptsInvariant, PTL

----------------------------------------------------------------------------
(* Chat.                                                                   *)

ChConstants == IsFiniteSet(Tickets) /\ ChatSlots \in Nat /\ DailyLimit \in Nat

Held == {"admitted", "queued", "working", "calling", "leaving"}
ChTypeOK ==
  /\ day \in Nat /\ from \in Nat /\ faults \in Nat /\ free \in Int
  /\ status \in [Tickets -> {"none", "queued", "running", "done", "failed", "interrupted"}]
  /\ at \in [Tickets -> Held \cup {"nowhere", "asked"}]
  /\ queue \in Seq(Tickets)
  /\ calls \in Seq([day : Nat, by : Tickets])

CallsOf(d) == {i \in DOMAIN calls : calls[i].day = d}
QuotaKept == \A d \in Nat : Cardinality(CallsOf(d)) <= DailyLimit

(* Nobody counts from a day that is still to come, nor was a call made on  *)
(* one.                                                                    *)
CallsArePast == from <= day /\ \A i \in DOMAIN calls : calls[i].day <= day

(* The executor's queue has each ticket that waits in it once.             *)
QueueIsWaiting == /\ \A i \in 1..Len(queue) : at[queue[i]] = "queued"
                  /\ \A i, j \in 1..Len(queue) : queue[i] = queue[j] => i = j

SlotsAreHeld == free + Cardinality(Ch!Holding) = ChatSlots
Unseen(t) == status[t] = "none" => at[t] = "nowhere"
IsHandled(t) == faults = 0 /\ Ch!Open(t) => at[t] \notin {"nowhere", "leaving"}

ChInv == /\ ChTypeOK
         /\ QuotaKept /\ CallsArePast
         /\ QueueIsWaiting /\ SlotsAreHeld
         /\ \A t \in Tickets : Unseen(t) /\ IsHandled(t)

(* The instance counts as the theorems about cardinality do.               *)
LEMMA ChatCounts ==
  ASSUME NEW S
  PROVE  Ch!Cardinality(S) = Cardinality(S)
BY DEF Ch!Cardinality, Cardinality

LEMMA InitChat ==
  ASSUME ChConstants, Ch!Init
  PROVE  ChInv
<1>1. ChTypeOK /\ CallsArePast /\ QueueIsWaiting
  BY DEF ChConstants, Ch!Init, ChTypeOK, Held, CallsArePast, QueueIsWaiting
<1>2. QuotaKept
  <2>1. \A d : CallsOf(d) = {}
    BY DEF Ch!Init, CallsOf
  <2>2. QED BY <2>1, FS_EmptySet DEF QuotaKept, ChConstants
<1>3. SlotsAreHeld
  <2>1. Ch!Holding = {}
    BY DEF Ch!Init, Ch!Holding
  <2>2. QED BY <2>1, FS_EmptySet DEF SlotsAreHeld, ChConstants, Ch!Init
<1>4. \A t \in Tickets : Unseen(t) /\ IsHandled(t)
  BY DEF Ch!Init, Unseen, IsHandled, Ch!Open
<1>5. QED BY <1>1, <1>2, <1>3, <1>4 DEF ChInv

(* What a step does that leaves the calls alone.                           *)
LEMMA CallsStay ==
  ASSUME ChInv, calls' = calls, day' \in Nat, day' >= day, from' \in {from, day}
  PROVE  QuotaKept' /\ CallsArePast'
<1>1. QuotaKept'
  BY DEF ChInv, QuotaKept, CallsOf
<1>2. CallsArePast'
  <2>1. /\ day \in Nat /\ from \in Nat /\ from <= day /\ calls \in Seq([day : Nat, by : Tickets])
        /\ \A i \in DOMAIN calls : calls[i].day <= day
    BY DEF ChInv, ChTypeOK, CallsArePast
  <2>2. \A i \in DOMAIN calls : calls[i].day <= day'
    <3>1. \A i \in DOMAIN calls : calls[i].day \in Nat
      <4>1. DOMAIN calls = 1..Len(calls) /\ \A i \in 1..Len(calls) : calls[i] \in [day : Nat, by : Tickets]
        <5>1. calls \in Seq([day : Nat, by : Tickets])
          BY <2>1
        <5>2. QED BY <5>1, ElementsOfSeq
      <4>2. QED BY <4>1
    <3>2. QED BY <2>1, <3>1
  <2>3. QED BY <2>1, <2>2 DEF CallsArePast
<1>3. QED BY <1>1, <1>2

(* A ticket that moves between two places of which both hold a slot, or    *)
(* neither does, leaves the account as it was; else it takes the slot that *)
(* is no longer free, or gives back the one that is.                       *)
LEMMA OneTicket ==
  ASSUME ChConstants, ChInv, NEW t \in Tickets, NEW place \in Held \cup {"nowhere", "asked"},
         Ch!Goes(t, place),
         free' = free + (IF at[t] \in Held THEN 1 ELSE 0) - (IF place \in Held THEN 1 ELSE 0)
  PROVE  /\ SlotsAreHeld' /\ free' \in Int
         /\ at' \in [Tickets -> Held \cup {"nowhere", "asked"}]
         /\ at'[t] = place /\ \A x \in Tickets \ {t} : at'[x] = at[x]
<1>1. /\ at' \in [Tickets -> Held \cup {"nowhere", "asked"}]
      /\ at'[t] = place /\ \A x \in Tickets \ {t} : at'[x] = at[x]
  BY DEF Ch!Goes, ChInv, ChTypeOK
<1>2. IsFiniteSet(Ch!Holding) /\ Cardinality(Ch!Holding) \in Nat
  BY FS_Subset, FS_CardinalityType DEF Ch!Holding, ChConstants
<1>3. free \in Int /\ free + Cardinality(Ch!Holding) = ChatSlots /\ ChatSlots \in Nat
  BY DEF ChInv, ChTypeOK, SlotsAreHeld, ChConstants
<1>4. t \in Ch!Holding <=> at[t] \in Held
  BY DEF Ch!Holding, Held
<1>5. CASE place \in Held
  <2>1. Ch!Holding' = Ch!Holding \cup {t}
    BY <1>1, <1>5 DEF Ch!Holding, Held
  <2>2. Cardinality(Ch!Holding') = IF t \in Ch!Holding THEN Cardinality(Ch!Holding)
                                   ELSE Cardinality(Ch!Holding) + 1
    BY <1>2, <2>1, FS_AddElement
  <2>3. QED BY <1>1, <1>2, <1>3, <1>4, <1>5, <2>2 DEF SlotsAreHeld
<1>6. CASE place \notin Held
  <2>1. Ch!Holding' = Ch!Holding \ {t}
    BY <1>1, <1>6 DEF Ch!Holding, Held
  <2>2. Cardinality(Ch!Holding') = IF t \in Ch!Holding THEN Cardinality(Ch!Holding) - 1
                                   ELSE Cardinality(Ch!Holding)
    BY <1>2, <2>1, FS_RemoveElement
  <2>3. QED BY <1>1, <1>2, <1>3, <1>4, <1>6, <2>2 DEF SlotsAreHeld
<1>7. QED BY <1>5, <1>6

(* A ticket that does not wait in the queue moves, and not into it.        *)
LEMMA QueueStays ==
  ASSUME ChInv, NEW t \in Tickets, at[t] # "queued",
         \A x \in Tickets \ {t} : at'[x] = at[x], queue' = queue
  PROVE  QueueIsWaiting'
BY DEF ChInv, ChTypeOK, QueueIsWaiting

(* A reservation that finds the day's quota not used up makes one call     *)
(* more, of the present day.                                               *)
LEMMA ReserveKeepsQuota ==
  ASSUME ChConstants, ChInv, NEW t \in Tickets, Ch!Reserve(t)
  PROVE  QuotaKept' /\ CallsArePast' /\ calls' \in Seq([day : Nat, by : Tickets])
<1>1. day \in Nat /\ from \in Nat /\ from <= day /\ calls \in Seq([day : Nat, by : Tickets])
      /\ day' = day /\ from' = from
  BY DEF ChInv, ChTypeOK, CallsArePast, Ch!Reserve
<1>2. CASE Ch!Exhausted(from)
  BY <1>1, <1>2, CallsStay DEF Ch!Reserve
<1>3. CASE ~Ch!Exhausted(from)
  <2>. DEFINE call == [day |-> day, by |-> t]
  <2>1. calls' = Append(calls, call) /\ call \in [day : Nat, by : Tickets]
    BY <1>1, <1>3 DEF Ch!Reserve
  <2>2. /\ calls' \in Seq([day : Nat, by : Tickets]) /\ Len(calls') = Len(calls) + 1
        /\ DOMAIN calls' = 1..(Len(calls) + 1) /\ DOMAIN calls = 1..Len(calls)
        /\ calls'[Len(calls) + 1] = call /\ \A i \in 1..Len(calls) : calls'[i] = calls[i]
    BY <1>1, <2>1
  <2>3. call.day = day
    OBVIOUS
  <2>. HIDE DEF call
  <2>4. CallsArePast'
    <3>1. ASSUME NEW i \in DOMAIN calls' PROVE calls'[i].day <= day
      <4>1. i \in 1..Len(calls) \/ i = Len(calls) + 1
        BY <1>1, <2>2
      <4>2. CASE i \in 1..Len(calls)
        <5>1. calls'[i] = calls[i] /\ i \in DOMAIN calls
          BY <2>2, <4>2
        <5>2. QED BY <5>1 DEF ChInv, CallsArePast
      <4>3. CASE i = Len(calls) + 1
        BY <1>1, <2>2, <2>3, <4>3
      <4>4. QED BY <4>1, <4>2, <4>3
    <3>2. QED BY <1>1, <3>1 DEF CallsArePast
  <2>5. IsFiniteSet(DOMAIN calls) /\ Len(calls) \in Nat
    <3>1. Len(calls) \in Nat /\ DOMAIN calls = 1..Len(calls)
      BY <1>1, ElementsOfSeq
    <3>2. IsFiniteSet(1..Len(calls))
      BY <3>1, UpToIsFinite
    <3>3. QED BY <3>1, <3>2
  <2>6. ASSUME NEW d \in Nat PROVE Cardinality(CallsOf(d)') <= DailyLimit
    <3>1. IsFiniteSet(CallsOf(d)) /\ Cardinality(CallsOf(d)) \in Nat /\ Cardinality(CallsOf(d)) <= DailyLimit
      BY <2>5, FS_Subset, FS_CardinalityType DEF CallsOf, ChInv, QuotaKept
    <3>2. CASE d # day
      <4>1. CallsOf(d)' = CallsOf(d)
        BY <1>1, <2>2, <2>3, <3>2 DEF CallsOf
      <4>2. QED BY <3>1, <4>1
    <3>3. CASE d = day
      <4>. DEFINE since == {i \in DOMAIN calls : calls[i].day >= from}
      <4>1. CallsOf(d) \subseteq since /\ IsFiniteSet(since)
        BY <1>1, <2>5, <3>3, FS_Subset DEF CallsOf
      <4>2. Cardinality(CallsOf(d)) <= Cardinality(since) /\ Cardinality(since) \in Nat
        BY <4>1, FS_Subset, FS_CardinalityType
      <4>3. Cardinality(since) < DailyLimit
        <5>1. Ch!Used(from) = Cardinality(since)
          BY ChatCounts DEF Ch!Used
        <5>2. QED BY <1>3, <4>2, <5>1 DEF Ch!Exhausted, ChConstants
      <4>4. CallsOf(d)' = CallsOf(d) \cup {Len(calls) + 1}
        BY <1>1, <2>2, <2>3, <2>5, <3>3 DEF CallsOf
      <4>5. Cardinality(CallsOf(d)') <= Cardinality(CallsOf(d)) + 1
        <5>. DEFINE S == CallsOf(d)
        <5>1. Cardinality(S \cup {Len(calls) + 1}) = IF Len(calls) + 1 \in S THEN Cardinality(S)
                                                      ELSE Cardinality(S) + 1
          BY <3>1, FS_AddElement
        <5>2. QED BY <3>1, <4>4, <5>1
      <4>6. Cardinality(CallsOf(d)') \in Nat
        BY <3>1, <4>4, FS_AddElement, FS_CardinalityType
      <4>. HIDE DEF since
      <4>7. QED BY <3>1, <4>2, <4>3, <4>5, <4>6 DEF ChConstants
    <3>4. QED BY <3>2, <3>3
  <2>7. QED BY <2>2, <2>4, <2>6 DEF QuotaKept
<1>4. QED BY <1>2, <1>3

LEMMA StepChat ==
  ASSUME ChConstants, ChInv, [Ch!Next]_Ch!chatVars
  PROVE  ChInv'
<1>. USE DEF Held
<1>1. CASE Ch!Work
  <2>. DEFINE t == Head(queue)
  <2>1. /\ queue \in Seq(Tickets) /\ queue # <<>> /\ queue' = Tail(queue) /\ Ch!Running(t)
        /\ Ch!Goes(t, "working") /\ UNCHANGED <<day, free, calls, from, faults>>
    BY <1>1 DEF Ch!Work, ChInv, ChTypeOK
  <2>2. /\ t \in Tickets /\ t = queue[1] /\ Len(queue) \in Nat \ {0}
        /\ queue' \in Seq(Tickets) /\ Len(queue') = Len(queue) - 1
        /\ \A i \in 1..Len(queue') : queue'[i] = queue[i + 1]
    BY <2>1
  <2>3. at[t] = "queued"
    BY <2>2 DEF ChInv, QueueIsWaiting
  <2>. HIDE DEF t
  <2>4. /\ SlotsAreHeld' /\ free' \in Int
        /\ at' \in [Tickets -> Held \cup {"nowhere", "asked"}]
        /\ at'[t] = "working" /\ \A x \in Tickets \ {t} : at'[x] = at[x]
    BY <2>1, <2>2, <2>3, OneTicket DEF ChInv, ChTypeOK
  <2>5. /\ status' \in [Tickets -> {"none", "queued", "running", "done", "failed", "interrupted"}]
        /\ \A x \in Tickets : status'[x] = status[x] \/ (x = t /\ status'[x] = "running")
    BY <2>1, <2>2 DEF Ch!Running, ChInv, ChTypeOK
  <2>6. QueueIsWaiting'
    <3>1. ASSUME NEW i \in 1..Len(queue') PROVE queue'[i] = queue[i + 1] /\ i + 1 \in 1..Len(queue)
      BY <2>2
    <3>2. ASSUME NEW i \in 1..Len(queue') PROVE at'[queue'[i]] = "queued"
      <4>1. i + 1 # 1 /\ 1 \in 1..Len(queue) /\ queue[i + 1] \in Tickets
        BY <2>1, <2>2, <3>1
      <4>2. queue[i + 1] # t
        BY <2>2, <3>1, <4>1 DEF ChInv, QueueIsWaiting
      <4>3. at[queue[i + 1]] = "queued"
        BY <3>1 DEF ChInv, QueueIsWaiting
      <4>4. at'[queue[i + 1]] = at[queue[i + 1]]
        BY <2>4, <4>1, <4>2
      <4>5. QED BY <3>1, <4>3, <4>4
    <3>3. ASSUME NEW i \in 1..Len(queue'), NEW j \in 1..Len(queue'), queue'[i] = queue'[j] PROVE i = j
      <4>1. i + 1 = j + 1
        BY <3>1, <3>3 DEF ChInv, QueueIsWaiting
      <4>2. QED BY <4>1
    <3>4. QED BY <3>2, <3>3 DEF QueueIsWaiting
  <2>7. QuotaKept' /\ CallsArePast'
    BY <2>1, CallsStay DEF ChInv, ChTypeOK
  <2>8. \A x \in Tickets : Unseen(x)' /\ IsHandled(x)'
    BY <2>1, <2>3, <2>4, <2>5 DEF ChInv, Unseen, IsHandled, Ch!Open
  <2>9. ChTypeOK'
    BY <2>1, <2>2, <2>4, <2>5 DEF ChInv, ChTypeOK
  <2>10. QED BY <2>4, <2>6, <2>7, <2>8, <2>9 DEF ChInv
<1>2. CASE Ch!Restart
  <2>1. /\ faults' = faults + 1 /\ queue' = <<>> /\ free' = ChatSlots /\ UNCHANGED <<day, calls, from>>
        /\ at' = [x \in Tickets |-> "nowhere"]
        /\ status' = [x \in Tickets |-> IF Ch!Open(x) THEN "interrupted" ELSE status[x]]
    BY <1>2 DEF Ch!Restart, Ch!Fault
  <2>2. ChTypeOK'
    BY <2>1 DEF ChInv, ChTypeOK, ChConstants
  <2>3. SlotsAreHeld'
    <3>1. Ch!Holding' = {}
      BY <2>1 DEF Ch!Holding
    <3>2. QED BY <2>1, <3>1, FS_EmptySet DEF SlotsAreHeld, ChConstants
  <2>4. QuotaKept' /\ CallsArePast'
    BY <2>1, CallsStay DEF ChInv, ChTypeOK
  <2>5. QueueIsWaiting'
    BY <2>1 DEF QueueIsWaiting
  <2>6. \A x \in Tickets : Unseen(x)' /\ IsHandled(x)'
    BY <2>1 DEF ChInv, ChTypeOK, Unseen, IsHandled
  <2>7. QED BY <2>2, <2>3, <2>4, <2>5, <2>6 DEF ChInv
<1>3. CASE Ch!Midnight
  <2>1. day' = day + 1 /\ UNCHANGED <<status, at, queue, free, calls, from, faults>>
    BY <1>3 DEF Ch!Midnight
  <2>2. QuotaKept' /\ CallsArePast'
    BY <2>1, CallsStay DEF ChInv, ChTypeOK
  <2>3. QED
    BY <2>1, <2>2 DEF ChInv, ChTypeOK, QueueIsWaiting, SlotsAreHeld, Ch!Holding, Unseen, IsHandled, Ch!Open
<1>4. ASSUME NEW t \in Tickets, Ch!Create(t) PROVE ChInv'
  <2>1. /\ status[t] = "none" /\ at[t] = "nowhere" /\ status' = [status EXCEPT ![t] = "queued"]
        /\ Ch!Goes(t, "asked") /\ UNCHANGED <<day, queue, free, calls, from, faults>>
    BY <1>4 DEF Ch!Create, ChInv, Unseen
  <2>2. /\ SlotsAreHeld' /\ free' \in Int
        /\ at' \in [Tickets -> Held \cup {"nowhere", "asked"}]
        /\ at'[t] = "asked" /\ \A x \in Tickets \ {t} : at'[x] = at[x]
    <3>1. free \in Int /\ "asked" \in {"nowhere", "asked"} /\ "asked" \notin Held /\ at[t] \notin Held
      BY <2>1 DEF ChInv, ChTypeOK
    <3>2. free' = free + (IF at[t] \in Held THEN 1 ELSE 0) - (IF "asked" \in Held THEN 1 ELSE 0)
      BY <2>1, <3>1
    <3>3. QED BY <2>1, <3>1, <3>2, OneTicket
  <2>3. QuotaKept' /\ CallsArePast' /\ QueueIsWaiting'
    BY <2>1, <2>2, CallsStay, QueueStays DEF ChInv, ChTypeOK
  <2>4. ChTypeOK' /\ \A x \in Tickets : Unseen(x)' /\ IsHandled(x)'
    BY <2>1, <2>2 DEF ChInv, ChTypeOK, Unseen, IsHandled, Ch!Open
  <2>5. QED BY <2>2, <2>3, <2>4 DEF ChInv
<1>5. ASSUME NEW t \in Tickets, Ch!Admit(t) PROVE ChInv'
  <2>1. at[t] = "asked" /\ free' = free - 1 /\ Ch!Goes(t, "admitted")
        /\ UNCHANGED <<day, status, queue, calls, from, faults>>
    BY <1>5 DEF Ch!Admit
  <2>2. /\ SlotsAreHeld' /\ free' \in Int
        /\ at' \in [Tickets -> Held \cup {"nowhere", "asked"}]
        /\ at'[t] = "admitted" /\ \A x \in Tickets \ {t} : at'[x] = at[x]
    BY <2>1, OneTicket DEF ChInv, ChTypeOK
  <2>3. QuotaKept' /\ CallsArePast' /\ QueueIsWaiting'
    BY <2>1, <2>2, CallsStay, QueueStays DEF ChInv, ChTypeOK
  <2>4. ChTypeOK' /\ \A x \in Tickets : Unseen(x)' /\ IsHandled(x)'
    BY <2>1, <2>2 DEF ChInv, ChTypeOK, Unseen, IsHandled, Ch!Open
  <2>5. QED BY <2>2, <2>3, <2>4 DEF ChInv
<1>6. ASSUME NEW t \in Tickets, Ch!Busy(t) PROVE ChInv'
  <2>1. at[t] = "asked" /\ Ch!Finish(t, "failed") /\ Ch!Goes(t, "nowhere")
        /\ UNCHANGED <<day, queue, free, calls, from, faults>>
    BY <1>6 DEF Ch!Busy
  <2>2. /\ SlotsAreHeld' /\ free' \in Int
        /\ at' \in [Tickets -> Held \cup {"nowhere", "asked"}]
        /\ at'[t] = "nowhere" /\ \A x \in Tickets \ {t} : at'[x] = at[x]
    <3>1. free \in Int /\ "nowhere" \in {"nowhere", "asked"} /\ "nowhere" \notin Held /\ at[t] \notin Held
      BY <2>1 DEF ChInv, ChTypeOK
    <3>2. free' = free + (IF at[t] \in Held THEN 1 ELSE 0) - (IF "nowhere" \in Held THEN 1 ELSE 0)
      BY <2>1, <3>1
    <3>3. QED BY <2>1, <3>1, <3>2, OneTicket
  <2>3. QuotaKept' /\ CallsArePast' /\ QueueIsWaiting'
    BY <2>1, <2>2, CallsStay, QueueStays DEF ChInv, ChTypeOK
  <2>4. ChTypeOK' /\ \A x \in Tickets : Unseen(x)' /\ IsHandled(x)'
    BY <2>1, <2>2 DEF ChInv, ChTypeOK, Unseen, IsHandled, Ch!Open, Ch!Finish
  <2>5. QED BY <2>2, <2>3, <2>4 DEF ChInv
<1>7. ASSUME NEW t \in Tickets, Ch!Submit(t) PROVE ChInv'
  <2>1. at[t] = "admitted" /\ queue' = Append(queue, t) /\ Ch!Goes(t, "queued")
        /\ UNCHANGED <<day, status, free, calls, from, faults>>
    BY <1>7 DEF Ch!Submit
  <2>2. /\ SlotsAreHeld' /\ free' \in Int
        /\ at' \in [Tickets -> Held \cup {"nowhere", "asked"}]
        /\ at'[t] = "queued" /\ \A x \in Tickets \ {t} : at'[x] = at[x]
    BY <2>1, OneTicket DEF ChInv, ChTypeOK
  <2>3. /\ queue' \in Seq(Tickets) /\ Len(queue) \in Nat /\ Len(queue') = Len(queue) + 1
        /\ queue'[Len(queue) + 1] = t /\ \A i \in 1..Len(queue) : queue'[i] = queue[i] /\ queue[i] \in Tickets
    BY <2>1 DEF ChInv, ChTypeOK
  <2>4. \A i \in 1..Len(queue) : queue[i] # t /\ at'[queue[i]] = "queued"
    BY <2>1, <2>2, <2>3 DEF ChInv, QueueIsWaiting
  <2>5. QueueIsWaiting'
    <3>1. \A i \in 1..Len(queue') : i \in 1..Len(queue) \/ i = Len(queue) + 1
      BY <2>3
    <3>2. \A i \in 1..Len(queue') : at'[queue'[i]] = "queued"
      BY <2>2, <2>3, <2>4, <3>1
    <3>3. \A i, j \in 1..Len(queue') : queue'[i] = queue'[j] => i = j
      BY <2>3, <2>4, <3>1 DEF ChInv, QueueIsWaiting
    <3>4. QED BY <3>2, <3>3 DEF QueueIsWaiting
  <2>6. QuotaKept' /\ CallsArePast'
    BY <2>1, CallsStay DEF ChInv, ChTypeOK
  <2>7. ChTypeOK' /\ \A x \in Tickets : Unseen(x)' /\ IsHandled(x)'
    BY <2>1, <2>2, <2>3 DEF ChInv, ChTypeOK, Unseen, IsHandled, Ch!Open
  <2>8. QED BY <2>2, <2>5, <2>6, <2>7 DEF ChInv
<1>8. ASSUME NEW t \in Tickets, Ch!SubmitFails(t) PROVE ChInv'
  <2>1. at[t] = "admitted" /\ faults' = faults + 1 /\ free' = free + 1 /\ Ch!Finish(t, "failed")
        /\ Ch!Goes(t, "nowhere") /\ UNCHANGED <<day, queue, calls, from>>
    BY <1>8 DEF Ch!SubmitFails, Ch!Fault
  <2>2. /\ SlotsAreHeld' /\ free' \in Int
        /\ at' \in [Tickets -> Held \cup {"nowhere", "asked"}]
        /\ at'[t] = "nowhere" /\ \A x \in Tickets \ {t} : at'[x] = at[x]
    BY <2>1, OneTicket DEF ChInv, ChTypeOK
  <2>3. QuotaKept' /\ CallsArePast' /\ QueueIsWaiting'
    BY <2>1, <2>2, CallsStay, QueueStays DEF ChInv, ChTypeOK
  <2>4. ChTypeOK' /\ \A x \in Tickets : Unseen(x)' /\ IsHandled(x)'
    BY <2>1, <2>2 DEF ChInv, ChTypeOK, Unseen, IsHandled, Ch!Open, Ch!Finish
  <2>5. QED BY <2>2, <2>3, <2>4 DEF ChInv
<1>9. ASSUME NEW t \in Tickets, Ch!Call(t) PROVE ChInv'
  <2>1. at[t] = "working" /\ from' = day /\ Ch!Goes(t, "calling")
        /\ UNCHANGED <<day, status, queue, free, calls, faults>>
    BY <1>9 DEF Ch!Call
  <2>2. /\ SlotsAreHeld' /\ free' \in Int
        /\ at' \in [Tickets -> Held \cup {"nowhere", "asked"}]
        /\ at'[t] = "calling" /\ \A x \in Tickets \ {t} : at'[x] = at[x]
    BY <2>1, OneTicket DEF ChInv, ChTypeOK
  <2>3. QuotaKept' /\ CallsArePast' /\ QueueIsWaiting'
    BY <2>1, <2>2, CallsStay, QueueStays DEF ChInv, ChTypeOK
  <2>4. ChTypeOK' /\ \A x \in Tickets : Unseen(x)' /\ IsHandled(x)'
    BY <2>1, <2>2 DEF ChInv, ChTypeOK, Unseen, IsHandled, Ch!Open
  <2>5. QED BY <2>2, <2>3, <2>4 DEF ChInv
<1>10. ASSUME NEW t \in Tickets, Ch!Reserve(t) PROVE ChInv'
  <2>1. at[t] = "calling" /\ Ch!Goes(t, "working") /\ UNCHANGED <<day, status, queue, free, from, faults>>
    BY <1>10 DEF Ch!Reserve
  <2>2. /\ SlotsAreHeld' /\ free' \in Int
        /\ at' \in [Tickets -> Held \cup {"nowhere", "asked"}]
        /\ at'[t] = "working" /\ \A x \in Tickets \ {t} : at'[x] = at[x]
    BY <2>1, OneTicket DEF ChInv, ChTypeOK
  <2>3. QuotaKept' /\ CallsArePast' /\ calls' \in Seq([day : Nat, by : Tickets]) /\ QueueIsWaiting'
    BY <1>10, <2>1, <2>2, ReserveKeepsQuota, QueueStays
  <2>4. ChTypeOK' /\ \A x \in Tickets : Unseen(x)' /\ IsHandled(x)'
    BY <2>1, <2>2, <2>3 DEF ChInv, ChTypeOK, Unseen, IsHandled, Ch!Open
  <2>5. QED BY <2>2, <2>3, <2>4 DEF ChInv
<1>11. ASSUME NEW t \in Tickets, Ch!Verdict(t) PROVE ChInv'
  <2>1. /\ at[t] = "working" /\ Ch!Goes(t, "leaving") /\ UNCHANGED <<day, queue, free, calls, from>>
        /\ \/ (\E how \in {"done", "failed"} : Ch!Finish(t, how)) /\ faults' = faults
           \/ faults' = faults + 1 /\ status' = status
    BY <1>11 DEF Ch!Verdict, Ch!Fault
  <2>2. /\ SlotsAreHeld' /\ free' \in Int
        /\ at' \in [Tickets -> Held \cup {"nowhere", "asked"}]
        /\ at'[t] = "leaving" /\ \A x \in Tickets \ {t} : at'[x] = at[x]
    BY <2>1, OneTicket DEF ChInv, ChTypeOK
  <2>3. QuotaKept' /\ CallsArePast' /\ QueueIsWaiting'
    BY <2>1, <2>2, CallsStay, QueueStays DEF ChInv, ChTypeOK
  <2>4. ChTypeOK' /\ \A x \in Tickets : Unseen(x)' /\ IsHandled(x)'
    BY <2>1, <2>2 DEF ChInv, ChTypeOK, Unseen, IsHandled, Ch!Open, Ch!Finish
  <2>5. QED BY <2>2, <2>3, <2>4 DEF ChInv
<1>12. ASSUME NEW t \in Tickets, Ch!Leave(t) PROVE ChInv'
  <2>1. at[t] = "leaving" /\ free' = free + 1 /\ Ch!Goes(t, "nowhere")
        /\ UNCHANGED <<day, status, queue, calls, from, faults>>
    BY <1>12 DEF Ch!Leave
  <2>2. /\ SlotsAreHeld' /\ free' \in Int
        /\ at' \in [Tickets -> Held \cup {"nowhere", "asked"}]
        /\ at'[t] = "nowhere" /\ \A x \in Tickets \ {t} : at'[x] = at[x]
    BY <2>1, OneTicket DEF ChInv, ChTypeOK
  <2>3. QuotaKept' /\ CallsArePast' /\ QueueIsWaiting'
    BY <2>1, <2>2, CallsStay, QueueStays DEF ChInv, ChTypeOK
  <2>4. ChTypeOK' /\ \A x \in Tickets : Unseen(x)' /\ IsHandled(x)'
    BY <2>1, <2>2 DEF ChInv, ChTypeOK, Unseen, IsHandled, Ch!Open
  <2>5. QED BY <2>2, <2>3, <2>4 DEF ChInv
<1>13. CASE UNCHANGED Ch!chatVars
  <2>1. UNCHANGED <<day, status, at, queue, free, calls, from, faults>>
    BY <1>13 DEF Ch!chatVars
  <2>2. QuotaKept' /\ CallsArePast'
    BY <2>1, CallsStay DEF ChInv, ChTypeOK
  <2>3. QED
    BY <2>1, <2>2 DEF ChInv, ChTypeOK, QueueIsWaiting, SlotsAreHeld, Ch!Holding, Unseen, IsHandled, Ch!Open
<1>. QED
  BY <1>1, <1>2, <1>3, <1>4, <1>5, <1>6, <1>7, <1>8, <1>9, <1>10, <1>11, <1>12, <1>13 DEF Ch!Next

(* ChInv is inductive.                                                     *)
THEOREM ChatInvariant == Ch!Spec => []ChInv
<1>1. Ch!Init => ChInv
  BY ChatAssumption, InitChat DEF ChConstants
<1>2. ChInv /\ [Ch!Next]_Ch!chatVars => ChInv'
  BY ChatAssumption, StepChat DEF ChConstants
<1>3. QED BY <1>1, <1>2, PTL DEF Ch!Spec

LEMMA QuotaFollows ==
  ChInv => Ch!QuotaHolds
<1>. SUFFICES ASSUME ChInv, NEW d \in 1..MaxDay
              PROVE  Ch!Cardinality({i \in DOMAIN calls : calls[i].day = d}) <= DailyLimit
  BY DEF Ch!QuotaHolds
<1>1. d \in Nat
  OBVIOUS
<1>2. Cardinality(CallsOf(d)) <= DailyLimit
  BY <1>1 DEF ChInv, QuotaKept
<1>3. QED BY <1>2, ChatCounts DEF CallsOf

(* Whatever the tickets, the limit and the number of slots: no day sees    *)
(* more calls than the limit, though midnight falls between a reservation's *)
(* count and its record.                                                   *)
THEOREM QuotaIsKept == Ch!Spec => []Ch!QuotaHolds
<1>1. ChInv => Ch!QuotaHolds
  BY QuotaFollows
<1>2. QED BY <1>1, ChatInvariant, PTL

LEMMA SlotsFollow ==
  ChInv => Ch!SlotsAreAccounted
BY ChatCounts DEF ChInv, SlotsAreHeld, IsHandled, Ch!SlotsAreAccounted

(* Every slot of the pool is free or held by one ticket under way, and     *)
(* while no write fails an open ticket is always one somebody handles.     *)
THEOREM SlotsComeBack == Ch!Spec => []Ch!SlotsAreAccounted
<1>1. ChInv => Ch!SlotsAreAccounted
  BY SlotsFollow
<1>2. QED BY <1>1, ChatInvariant, PTL

----------------------------------------------------------------------------
(* ConfigService.                                                          *)

(* The name that stands for a free lock is no operator's.                  *)
CfConstants == Cf!NoOne \notin Operators

Texts == [plain : 0..2, sensitive : 0..2, wiring : 0..2]
UnderWay == {"locked", "compared", "written", "activating"}
CfRequest == [at : UnderWay \cup {"idle", "drafted"}, base : Texts, draft : Texts, live : Texts,
              elevated : BOOLEAN]

CfTypeOK == /\ file \in Texts /\ loaded \in Texts
            /\ owner \in Operators \cup {Cf!NoOne}
            /\ op \in [Operators -> CfRequest]

(* The lock belongs to the one request that is under way.                  *)
OwnerIsUnderWay == \A o \in Operators : op[o].at \in UnderWay <=> owner = o

(* What core enforces, what somebody else has put there, or what the       *)
(* operator was told of.                                                   *)
Accounted(text) == text = loaded \/ text \in foreign \/ announced

(* Until a request has written, the file is accounted for; what it would   *)
(* put back stays so.                                                      *)
FileIsAccounted == (\A o \in Operators : op[o].at \notin {"written", "activating"}) => Accounted(file)
LiveIsAccounted(o) == op[o].at \in {"compared", "written"} => Accounted(op[o].live)

(* What was decided of a draft stays true of it until it is written.       *)
StaysAllowed(o) == op[o].at = "compared" => Cf!Allowed(o, op[o].live)

(* What would be put back is what the operator saw, and until then the file *)
(* holds the draft or what somebody has put there since.                   *)
WrittenIsThere(o) ==
  /\ op[o].at \in {"compared", "written"} => op[o].live = op[o].base
  /\ op[o].at = "written" => file = op[o].draft \/ file \in foreign

CfInv == /\ CfTypeOK
         /\ OwnerIsUnderWay
         /\ FileIsAccounted
         /\ \A o \in Operators : LiveIsAccounted(o) /\ StaysAllowed(o) /\ WrittenIsThere(o)

LEMMA ChangesAreTexts ==
  ASSUME NEW text \in Texts
  PROVE  Cf!Changes(text) \subseteq Texts /\ Cf!Invalid \in Texts
BY DEF Cf!Changes, Texts, Cf!Invalid

LEMMA InitConfig ==
  ASSUME CfConstants, Cf!Init
  PROVE  CfInv
BY DEF CfConstants, Cf!Init, Cf!First, Cf!Idle, Cf!Invalid, CfInv, CfTypeOK, Texts, CfRequest,
       UnderWay, OwnerIsUnderWay, FileIsAccounted, LiveIsAccounted, Accounted, StaysAllowed,
       WrittenIsThere

(* A request's step moves that request alone.                              *)
LEMMA OneRequest ==
  ASSUME CfInv, NEW o \in Operators, NEW q \in CfRequest, op' = [op EXCEPT ![o] = q]
  PROVE  /\ op' \in [Operators -> CfRequest] /\ op'[o] = q
         /\ \A other \in Operators \ {o} : op'[other] = op[other]
BY DEF CfInv, CfTypeOK

LEMMA MovesOn ==
  ASSUME CfInv, NEW o \in Operators, NEW where \in UnderWay, op' = [op EXCEPT ![o].at = where]
  PROVE  /\ op' \in [Operators -> CfRequest]
         /\ op'[o].at = where /\ op'[o].draft = op[o].draft /\ op'[o].base = op[o].base
         /\ op'[o].live = op[o].live /\ op'[o].elevated = op[o].elevated
         /\ \A other \in Operators \ {o} : op'[other] = op[other]
BY DEF CfInv, CfTypeOK, CfRequest, UnderWay

(* A request that ends, refused or not, leaves the lock free and itself    *)
(* idle; what it owes is that the file is accounted for.                   *)
LEMMA Ends ==
  ASSUME CfConstants, CfInv, NEW o \in Operators, owner = o, Cf!Refuse(o),
         file' \in Texts, loaded' = loaded, Accounted(file)'
  PROVE  CfInv'
<1>1. /\ op' \in [Operators -> CfRequest] /\ op'[o] = Cf!Idle
      /\ \A other \in Operators \ {o} : op'[other] = op[other]
  <2>1. Cf!Idle \in CfRequest
    BY DEF Cf!Idle, Cf!Invalid, CfRequest, Texts
  <2>2. QED BY <2>1, OneRequest DEF Cf!Refuse
<1>2. \A x \in Operators : op'[x].at \notin UnderWay
  BY <1>1 DEF CfInv, OwnerIsUnderWay, Cf!Idle, UnderWay
<1>3. CfTypeOK'
  BY <1>1 DEF CfInv, CfTypeOK, Cf!Refuse
<1>4. OwnerIsUnderWay'
  BY <1>2 DEF OwnerIsUnderWay, Cf!Refuse, CfConstants
<1>5. QED
  BY <1>2, <1>3, <1>4 DEF CfInv, FileIsAccounted, LiveIsAccounted, StaysAllowed, WrittenIsThere, UnderWay

(* Core starts again with what the file holds.                             *)
LEMMA CoreStarts ==
  ASSUME CfConstants, CfInv, Cf!Reexec, file' = file
  PROVE  CfInv'
<1>1. Cf!Idle \in CfRequest /\ Cf!Idle.at = "idle"
  BY DEF Cf!Idle, Cf!Invalid, CfRequest, Texts
<1>2. op' \in [Operators -> CfRequest] /\ \A x \in Operators : op'[x] = Cf!Idle
  BY <1>1 DEF Cf!Reexec
<1>3. QED
  BY <1>1, <1>2 DEF CfConstants, CfInv, CfTypeOK, Cf!Reexec, OwnerIsUnderWay, UnderWay, FileIsAccounted,
       LiveIsAccounted, StaysAllowed, WrittenIsThere, Accounted

(* What is said of every request carries over when none of them moves.     *)
LEMMA NoneMoves ==
  ASSUME CfInv, op' = op, owner' = owner, loaded' = loaded, file' \in Texts,
         foreign \subseteq foreign', announced => announced',
         file' = file \/ file' \in foreign'
  PROVE  CfInv'
<1>1. \A text : Accounted(text) => Accounted(text)'
  BY DEF Accounted
<1>2. CfTypeOK' /\ OwnerIsUnderWay'
  BY DEF CfInv, CfTypeOK, OwnerIsUnderWay
<1>3. FileIsAccounted'
  BY <1>1 DEF CfInv, FileIsAccounted, Accounted
<1>4. \A o \in Operators : LiveIsAccounted(o)'
  BY <1>1 DEF CfInv, LiveIsAccounted
<1>5. \A o \in Operators : StaysAllowed(o)'
  BY DEF CfInv, StaysAllowed, Cf!Allowed
<1>6. \A o \in Operators : WrittenIsThere(o)'
  BY DEF CfInv, WrittenIsThere
<1>7. QED BY <1>2, <1>3, <1>4, <1>5, <1>6 DEF CfInv

LEMMA StepConfig ==
  ASSUME CfConstants, CfInv, [Cf!Next]_Cf!configVars
  PROVE  CfInv'
<1>. USE DEF Cf!Same
<1>1. CASE Cf!Restart
  BY <1>1, CoreStarts DEF Cf!Restart
<1>2. CASE Cf!HostEdit
  <2>1. file' \in Texts
    BY <1>2, ChangesAreTexts DEF Cf!HostEdit, CfInv, CfTypeOK
  <2>2. QED BY <1>2, <2>1, NoneMoves DEF Cf!HostEdit
<1>3. CASE Cf!Follow
  BY <1>3, NoneMoves DEF Cf!Follow, CfInv, CfTypeOK
<1>4. CASE Cf!Renew
  BY <1>4, NoneMoves DEF Cf!Renew, CfInv, CfTypeOK
<1>5. ASSUME NEW o \in Operators, Cf!Draft(o) PROVE CfInv'
  <2>1. PICK draft \in {Cf!Invalid} \cup Cf!Changes(file), e \in BOOLEAN :
          op' = [op EXCEPT ![o] = [Cf!Idle EXCEPT !.at = "drafted", !.base = file, !.draft = draft,
                                                  !.elevated = e]]
    BY <1>5 DEF Cf!Draft
  <2>. DEFINE q == [Cf!Idle EXCEPT !.at = "drafted", !.base = file, !.draft = draft, !.elevated = e]
  <2>2. q \in CfRequest /\ q.at = "drafted"
    <3>1. file \in Texts /\ draft \in Texts /\ Cf!Invalid \in Texts
      BY <2>1, ChangesAreTexts DEF CfInv, CfTypeOK
    <3>2. QED BY <3>1 DEF Cf!Idle, CfRequest
  <2>3. /\ op' \in [Operators -> CfRequest] /\ op'[o].at = "drafted"
        /\ \A other \in Operators \ {o} : op'[other] = op[other]
    <3>. HIDE DEF q
    <3>1. op' = [op EXCEPT ![o] = q]
      BY <2>1 DEF q
    <3>2. QED BY <2>2, <3>1, OneRequest
  <2>. HIDE DEF q
  <2>4. op[o].at = "idle" /\ UNCHANGED <<file, loaded, owner, foreign, announced>>
    BY <1>5 DEF Cf!Draft
  <2>5. CfTypeOK' /\ OwnerIsUnderWay'
    BY <2>3, <2>4 DEF CfInv, CfTypeOK, OwnerIsUnderWay, UnderWay
  <2>6. FileIsAccounted'
    BY <2>3, <2>4 DEF CfInv, FileIsAccounted, Accounted
  <2>7. \A x \in Operators : LiveIsAccounted(x)' /\ StaysAllowed(x)' /\ WrittenIsThere(x)'
    BY <2>3, <2>4 DEF CfInv, LiveIsAccounted, Accounted, StaysAllowed, WrittenIsThere, Cf!Allowed
  <2>8. QED BY <2>5, <2>6, <2>7 DEF CfInv
<1>6. ASSUME NEW o \in Operators, Cf!Begin(o) PROVE CfInv'
  <2>1. op[o].at = "drafted" /\ UNCHANGED <<file, loaded, foreign, announced>>
    BY <1>6 DEF Cf!Begin
  <2>2. CASE op[o].draft = Cf!Invalid \/ owner # Cf!NoOne
    <3>1. Cf!Idle \in CfRequest /\ Cf!Idle.at = "idle"
      BY DEF Cf!Idle, Cf!Invalid, CfRequest, Texts
    <3>2. /\ op' \in [Operators -> CfRequest] /\ op'[o].at = "idle" /\ owner' = owner
          /\ \A other \in Operators \ {o} : op'[other] = op[other]
      BY <1>6, <2>2, <3>1, OneRequest DEF Cf!Begin
    <3>3. CfTypeOK' /\ OwnerIsUnderWay'
      BY <2>1, <3>2 DEF CfInv, CfTypeOK, OwnerIsUnderWay, UnderWay
    <3>4. FileIsAccounted'
      BY <2>1, <3>2 DEF CfInv, FileIsAccounted, Accounted
    <3>5. \A x \in Operators : LiveIsAccounted(x)' /\ StaysAllowed(x)' /\ WrittenIsThere(x)'
      BY <2>1, <3>2 DEF CfInv, LiveIsAccounted, Accounted, StaysAllowed, WrittenIsThere, Cf!Allowed
    <3>6. QED BY <3>3, <3>4, <3>5 DEF CfInv
  <2>3. CASE ~(op[o].draft = Cf!Invalid \/ owner # Cf!NoOne)
    <3>1. op' = [op EXCEPT ![o].at = "locked"] /\ owner = Cf!NoOne /\ owner' = o
      BY <1>6, <2>3 DEF Cf!Begin, Cf!To
    <3>2. /\ op' \in [Operators -> CfRequest] /\ op'[o].at = "locked"
          /\ \A other \in Operators \ {o} : op'[other] = op[other]
      BY <3>1, MovesOn DEF UnderWay
    <3>3. CfTypeOK' /\ OwnerIsUnderWay'
      BY <2>1, <3>1, <3>2 DEF CfInv, CfTypeOK, OwnerIsUnderWay, UnderWay, CfConstants
    <3>4. FileIsAccounted'
      BY <2>1, <3>2 DEF CfInv, FileIsAccounted, Accounted
    <3>5. \A x \in Operators : LiveIsAccounted(x)' /\ StaysAllowed(x)' /\ WrittenIsThere(x)'
      BY <2>1, <3>2 DEF CfInv, LiveIsAccounted, Accounted, StaysAllowed, WrittenIsThere, Cf!Allowed
    <3>6. QED BY <3>3, <3>4, <3>5 DEF CfInv
  <2>4. QED BY <2>2, <2>3
<1>7. ASSUME NEW o \in Operators, Cf!Compare(o) PROVE CfInv'
  <2>1. /\ op[o].at = "locked" /\ owner = o /\ Accounted(file)
        /\ UNCHANGED <<file, loaded, foreign, announced>>
    BY <1>7 DEF Cf!Compare, CfInv, OwnerIsUnderWay, UnderWay, FileIsAccounted
  <2>2. CASE Cf!Allowed(o, file)
    <3>. DEFINE q == [[op[o] EXCEPT !.at = "compared"] EXCEPT !.live = file]
    <3>1. /\ op' = [op EXCEPT ![o].at = "compared", ![o].live = file] /\ owner' = owner
      BY <1>7, <2>2 DEF Cf!Compare
    <3>2. /\ q \in CfRequest /\ q.at = "compared" /\ q.live = file
          /\ q.draft = op[o].draft /\ q.base = op[o].base /\ q.elevated = op[o].elevated
      BY DEF CfInv, CfTypeOK, CfRequest, UnderWay
    <3>3. op' = [op EXCEPT ![o] = q]
      BY <3>1 DEF CfInv, CfTypeOK
    <3>4. /\ op' \in [Operators -> CfRequest] /\ op'[o].at = "compared" /\ op'[o].live = file
          /\ op'[o].draft = op[o].draft /\ op'[o].base = op[o].base /\ op'[o].elevated = op[o].elevated
          /\ \A other \in Operators \ {o} : op'[other] = op[other]
      <4>. HIDE DEF q
      <4>1. QED BY <3>2, <3>3, OneRequest
    <3>. HIDE DEF q
    <3>5. CfTypeOK' /\ OwnerIsUnderWay'
      BY <2>1, <3>1, <3>4 DEF CfInv, CfTypeOK, OwnerIsUnderWay, UnderWay
    <3>6. FileIsAccounted' /\ \A x \in Operators : LiveIsAccounted(x)'
      BY <2>1, <3>4 DEF CfInv, FileIsAccounted, LiveIsAccounted, Accounted
    <3>7. \A x \in Operators : StaysAllowed(x)' /\ WrittenIsThere(x)'
      BY <2>1, <2>2, <3>4 DEF CfInv, StaysAllowed, WrittenIsThere, Cf!Allowed
    <3>8. QED BY <3>5, <3>6, <3>7 DEF CfInv
  <2>3. CASE ~Cf!Allowed(o, file)
    BY <1>7, <2>1, <2>3, Ends DEF Cf!Compare, CfInv, CfTypeOK, Accounted
  <2>4. QED BY <2>2, <2>3
<1>8. ASSUME NEW o \in Operators, Cf!Write(o) PROVE CfInv'
  <2>1. /\ op[o].at = "compared" /\ owner = o /\ Accounted(file) /\ Accounted(op[o].live)
        /\ op[o] \in CfRequest /\ op[o].draft # op[o].live /\ op[o].live = op[o].base
        /\ UNCHANGED <<loaded, announced>>
    BY <1>8 DEF Cf!Write, CfInv, CfTypeOK, OwnerIsUnderWay, UnderWay, FileIsAccounted, LiveIsAccounted,
         StaysAllowed, Cf!Allowed
  <2>2. CASE /\ file' = op[o].draft /\ foreign' = foreign \ {op[o].draft} /\ Cf!To(o, "written")
             /\ owner' = owner
    <3>1. /\ op' \in [Operators -> CfRequest] /\ op'[o].at = "written" /\ op'[o].live = op[o].live
          /\ op'[o].base = op[o].base /\ op'[o].draft = op[o].draft
          /\ \A other \in Operators \ {o} : op'[other] = op[other]
      BY <2>2, MovesOn DEF Cf!To, UnderWay
    <3>2. CfTypeOK' /\ OwnerIsUnderWay'
      BY <2>1, <2>2, <3>1 DEF CfInv, CfTypeOK, CfRequest, OwnerIsUnderWay, UnderWay
    <3>3. FileIsAccounted'
      BY <3>1 DEF FileIsAccounted
    <3>4. \A x \in Operators : op'[x].at \in UnderWay => x = o
      BY <2>1, <2>2, <3>2 DEF OwnerIsUnderWay
    <3>5. \A x \in Operators : LiveIsAccounted(x)' /\ StaysAllowed(x)' /\ WrittenIsThere(x)'
      BY <2>1, <2>2, <3>1, <3>4 DEF LiveIsAccounted, Accounted, StaysAllowed, WrittenIsThere, UnderWay
    <3>6. QED BY <3>2, <3>3, <3>5 DEF CfInv
  <2>3. CASE Cf!Refuse(o) /\ UNCHANGED <<file, foreign>>
    BY <2>1, <2>3, Ends DEF CfInv, CfTypeOK, Accounted
  <2>4. QED BY <1>8, <2>2, <2>3 DEF Cf!Write
<1>9. ASSUME NEW o \in Operators, Cf!StartActivation(o) PROVE CfInv'
  <2>1. /\ op[o].at = "written" /\ op' = [op EXCEPT ![o].at = "activating"]
        /\ UNCHANGED <<file, owner, loaded, foreign, announced>>
    BY <1>9 DEF Cf!StartActivation, Cf!To
  <2>2. /\ op' \in [Operators -> CfRequest] /\ op'[o].at = "activating"
        /\ \A other \in Operators \ {o} : op'[other] = op[other]
    BY <2>1, MovesOn DEF UnderWay
  <2>3. CfTypeOK' /\ OwnerIsUnderWay' /\ FileIsAccounted'
    BY <2>1, <2>2 DEF CfInv, CfTypeOK, OwnerIsUnderWay, UnderWay, FileIsAccounted
  <2>4. \A x \in Operators : LiveIsAccounted(x)' /\ StaysAllowed(x)' /\ WrittenIsThere(x)'
    BY <2>1, <2>2 DEF CfInv, LiveIsAccounted, Accounted, StaysAllowed, WrittenIsThere, Cf!Allowed
  <2>5. QED BY <2>3, <2>4 DEF CfInv
<1>10. ASSUME NEW o \in Operators, Cf!StartFails(o) PROVE CfInv'
  <2>1. owner = o /\ Accounted(op[o].live) /\ op[o].live \in Texts
    BY <1>10 DEF Cf!StartFails, CfInv, CfTypeOK, CfRequest, OwnerIsUnderWay, UnderWay, LiveIsAccounted
  <2>2. file' \in Texts /\ Accounted(file)'
    BY <1>10, <2>1 DEF Cf!StartFails, Cf!Restore, Accounted, CfInv, CfTypeOK
  <2>3. QED BY <1>10, <2>1, <2>2, Ends DEF Cf!StartFails
<1>11. ASSUME NEW o \in Operators, Cf!Activate(o) PROVE CfInv'
  <2>1. owner = o /\ file' = file
    BY <1>11 DEF Cf!Activate, CfInv, OwnerIsUnderWay, UnderWay
  <2>2. CASE Cf!Reexec
    BY <2>1, <2>2, CoreStarts
  <2>3. CASE announced' = TRUE /\ Cf!Refuse(o) /\ UNCHANGED <<loaded, foreign>>
    BY <2>1, <2>3, Ends DEF CfInv, CfTypeOK, Accounted
  <2>4. QED BY <1>11, <2>2, <2>3 DEF Cf!Activate
<1>12. CASE UNCHANGED Cf!configVars
  BY <1>12, NoneMoves DEF Cf!configVars, CfInv, CfTypeOK
<1>. QED BY <1>1, <1>2, <1>3, <1>4, <1>5, <1>6, <1>7, <1>8, <1>9, <1>10, <1>11, <1>12 DEF Cf!Next

(* CfInv is inductive.                                                     *)
THEOREM ConfigInvariant == Cf!Spec => []CfInv
<1>1. Cf!Init => CfInv
  BY ConfigAssumption, InitConfig DEF CfConstants
<1>2. CfInv /\ [Cf!Next]_Cf!configVars => CfInv'
  BY ConfigAssumption, StepConfig DEF CfConstants
<1>3. QED BY <1>1, <1>2, PTL DEF Cf!Spec

LEMMA EnforcementFollows ==
  CfInv => Cf!DiskIsEnforced
BY ConfigAssumption DEF CfInv, CfTypeOK, OwnerIsUnderWay, UnderWay, FileIsAccounted, Accounted, Cf!DiskIsEnforced

(* However many operators edit the file, whoever else edits it meanwhile,  *)
(* and wherever a write, a restore or an activation fails: with the lock   *)
(* free, core enforces what is on disk, or somebody put it there on the    *)
(* host, or the operator was told.                                         *)
THEOREM DiskStaysEnforced == Cf!Spec => []Cf!DiskIsEnforced
<1>1. CfInv => Cf!DiskIsEnforced
  BY EnforcementFollows
<1>2. QED BY <1>1, ConfigInvariant, PTL

LEMMA SightFollows ==
  CfInv /\ [Cf!Next]_Cf!configVars => [Cf!NothingSlipsIn]_Cf!configVars
<1>. SUFFICES ASSUME CfInv, Cf!Next, NEW o \in Operators, op[o].at = "compared", op'[o].at = "written"
              PROVE  /\ file = op[o].base /\ file'.wiring = file.wiring
                     /\ file'.sensitive # file.sensitive => Switch /\ op[o].elevated
  BY DEF Cf!NothingSlipsIn
<1>1. op \in [Operators -> CfRequest] /\ Cf!Allowed(o, op[o].live)
  BY DEF CfInv, CfTypeOK, StaysAllowed
<1>2. Cf!Write(o)
  <2>1. ~Cf!Restart /\ ~Cf!HostEdit /\ ~Cf!Follow /\ ~Cf!Renew
    BY DEF Cf!Restart, Cf!Reexec, Cf!Idle, Cf!HostEdit, Cf!Follow, Cf!Renew
  <2>2. PICK x \in Operators : \/ Cf!Draft(x) \/ Cf!Begin(x) \/ Cf!Compare(x) \/ Cf!Write(x)
                               \/ Cf!StartActivation(x) \/ Cf!StartFails(x) \/ Cf!Activate(x)
    BY <2>1 DEF Cf!Next
  <2>3. ~Cf!Draft(x)
    BY <1>1 DEF Cf!Draft, Cf!Idle
  <2>4. ~Cf!Begin(x)
    BY <1>1 DEF Cf!Begin, Cf!To, Cf!Idle
  <2>5. ~Cf!Compare(x)
    BY <1>1 DEF Cf!Compare, Cf!Refuse, Cf!Idle
  <2>6. ~Cf!StartActivation(x)
    BY <1>1 DEF Cf!StartActivation, Cf!To
  <2>7. ~Cf!StartFails(x) /\ ~Cf!Activate(x)
    BY <1>1 DEF Cf!StartFails, Cf!Activate, Cf!Refuse, Cf!Reexec, Cf!Idle
  <2>8. Cf!Write(x) => x = o
    BY <1>1 DEF Cf!Write, Cf!To, Cf!Refuse, Cf!Idle
  <2>9. QED BY <2>2, <2>3, <2>4, <2>5, <2>6, <2>7, <2>8
<1>3. file = op[o].live /\ file' = op[o].draft
  BY <1>1, <1>2 DEF Cf!Write, Cf!StillThere, Cf!Refuse, Cf!Idle
<1>4. QED BY <1>1, <1>3 DEF Cf!Allowed, Cf!Locked, Cf!NeedsElevation

LEMMA RestoreFollows ==
  CfInv /\ [Cf!Next]_Cf!configVars => [Cf!RestoreTakesItsOwn]_Cf!configVars
<1>. SUFFICES ASSUME CfInv, Cf!Next, NEW o \in Operators, op[o].at = "written", op'[o].at = "idle",
                     file' # file
              PROVE  file' = op[o].base /\ (file = op[o].draft \/ file \in foreign)
  BY DEF Cf!RestoreTakesItsOwn
<1>1. op \in [Operators -> CfRequest] /\ WrittenIsThere(o) /\ owner = o
  BY DEF CfInv, CfTypeOK, OwnerIsUnderWay, UnderWay
<1>2. file' = op[o].live
  <2>1. ~Cf!Restart /\ ~Cf!Follow /\ ~Cf!Renew /\ ~Cf!HostEdit
    BY DEF Cf!Restart, Cf!HostEdit, Cf!Follow, Cf!Renew
  <2>2. PICK x \in Operators : \/ Cf!Draft(x) \/ Cf!Begin(x) \/ Cf!Compare(x) \/ Cf!Write(x)
                               \/ Cf!StartActivation(x) \/ Cf!StartFails(x) \/ Cf!Activate(x)
    BY <2>1 DEF Cf!Next
  <2>3. ~Cf!Draft(x) /\ ~Cf!Begin(x) /\ ~Cf!Compare(x) /\ ~Cf!StartActivation(x) /\ ~Cf!Activate(x)
    BY DEF Cf!Draft, Cf!Begin, Cf!Compare, Cf!StartActivation, Cf!Activate
  <2>4. ~Cf!Write(x)
    BY <1>1 DEF Cf!Write, CfInv, OwnerIsUnderWay, UnderWay
  <2>5. Cf!StartFails(x)
    BY <2>2, <2>3, <2>4
  <2>6. x = o
    BY <1>1, <2>5 DEF Cf!StartFails, CfInv, OwnerIsUnderWay, UnderWay
  <2>7. QED BY <2>5, <2>6 DEF Cf!StartFails, Cf!Restore
<1>3. QED BY <1>1, <1>2 DEF WrittenIsThere

(* What a request writes differs from the text the operator saw, which is  *)
(* the text it replaces, by what the switch and the passphrase allow; what *)
(* is put back when the activation cannot start is that text, in the place *)
(* of the draft or of what somebody has put there on the host since.       *)
THEOREM OnlyWhatWasSeen ==
  Cf!Spec => [][Cf!NothingSlipsIn /\ Cf!RestoreTakesItsOwn]_Cf!configVars
<1>1. /\ CfInv /\ [Cf!Next]_Cf!configVars => [Cf!NothingSlipsIn]_Cf!configVars
      /\ CfInv /\ [Cf!Next]_Cf!configVars => [Cf!RestoreTakesItsOwn]_Cf!configVars
  BY SightFollows, RestoreFollows
<1>2. CfInv /\ [Cf!Next]_Cf!configVars =>
        [Cf!NothingSlipsIn /\ Cf!RestoreTakesItsOwn]_Cf!configVars
  BY <1>1
<1>3. QED BY <1>2, ConfigInvariant, PTL DEF Cf!Spec

----------------------------------------------------------------------------
(* ComposeWrite.                                                           *)

Contents == {Cw!Missing, "old", "new", "else"}
CwTypeOK ==
  /\ file \in [text : Contents, id : Nat] /\ dir \in Nat
  /\ fresh \in Nat \ {0}
  /\ base \in Contents /\ backup \in Contents
  /\ pre \in [prev : Contents, existed : BOOLEAN, staged : Nat, created : {"unknown", "yes", "no"},
              createdDir : {"unknown", "yes", "no"}, inode : Nat]
  /\ binding \in [created : BOOLEAN, createdDir : BOOLEAN, inode : Nat, staged : Nat, prev : Contents]
  /\ ours \in Nat /\ made \in Nat /\ slipped \in BOOLEAN

(* The store knows of no staged file but the one that was staged, and says *)
(* that the write created the file, or the directory, only if it did.      *)
RecordIsTrue ==
  /\ pre.staged \in {0, ours}
  /\ pre.created # "unknown" => pre.staged = ours
  /\ pre.created = "yes" => base = Cw!Missing
  /\ IF pre.createdDir = "yes" THEN pre.inode = made ELSE pre.createdDir = "unknown" => pre.inode = 0

(* Nothing is staged, and nothing recorded, before the write gets there;   *)
(* the directory it made stays while its temporary file is in it.          *)
BeforeStaging ==
  at \in {"idle", "approved", "dispatched", "compared"} => pre.staged = 0 /\ pre.created = "unknown"
                                                           /\ pre.createdDir = "unknown"
                                                           /\ made = 0
BeforeRecording ==
  at \in {"filled", "staged", "renamed"} => /\ pre.created = "unknown" /\ pre.createdDir = "unknown"
                                            /\ made # 0 => dir = made
AfterStaging == at \in {"staged", "renamed"} => pre.staged = ours

(* The binding of a rollback claims no more than the record supports.      *)
Bound == {"planned", "restoring", "swapping", "removing"}
BindingIsTrue ==
  at \in Bound => /\ binding.prev = pre.prev
                  /\ binding.created => /\ binding.staged = ours
                                        /\ Cw!Missing \in {base, pre.prev}
                  /\ binding.createdDir => binding.inode \in {0, made}
RestoresAFile == /\ at \in {"restoring", "swapping"} => ~binding.created
                 /\ at = "removing" => binding.created

CwRecord == /\ CwTypeOK /\ RecordIsTrue
         /\ BeforeStaging /\ BeforeRecording /\ AfterStaging
         /\ BindingIsTrue /\ RestoresAFile

(* Until somebody slips in, the file is as the last comparison found it.   *)
SeenIsStill ==
  /\ at \in {"compared", "filled", "staged"} /\ ~slipped => file.text = base
  /\ at = "swapping" /\ ~slipped => file.text = "new"
  /\ at = "removing" /\ ~slipped => file.text = "new" /\ file.id = binding.staged

CwInv == CwRecord /\ SeenIsStill

LEMMA InitCompose ==
  ASSUME Cw!Init
  PROVE  CwInv
<1>1. SeenIsStill
  BY DEF Cw!Init, SeenIsStill
<1>2. CwTypeOK
  <2>1. file \in [text : Contents, id : Nat] /\ dir \in Nat
    BY DEF Cw!Init, Cw!NoFile, Cw!Missing, Contents
  <2>2. pre = Cw!NoRecord /\ binding = Cw!NoBinding /\ base = Cw!Missing /\ backup = Cw!Missing
        /\ ours = 0 /\ made = 0 /\ fresh = 3
    BY DEF Cw!Init
  <2>3. pre \in [prev : Contents, existed : BOOLEAN, staged : Nat, created : {"unknown", "yes", "no"},
                createdDir : {"unknown", "yes", "no"}, inode : Nat]
    BY <2>2 DEF Cw!NoRecord, Cw!Missing, Contents
  <2>4. binding \in [created : BOOLEAN, createdDir : BOOLEAN, inode : Nat, staged : Nat, prev : Contents]
    BY <2>2 DEF Cw!NoBinding, Cw!Missing, Contents
  <2>5. base \in Contents /\ backup \in Contents
    BY <2>2 DEF Contents
  <2>6. ours \in Nat /\ made \in Nat /\ fresh \in Nat \ {0}
    BY <2>2
  <2>7. slipped \in BOOLEAN
    BY DEF Cw!Init
  <2>8. QED BY <2>1, <2>3, <2>4, <2>5, <2>6, <2>7 DEF CwTypeOK
<1>3. /\ at = "idle" /\ made = 0
      /\ pre.staged = 0 /\ pre.created = "unknown" /\ pre.createdDir = "unknown" /\ pre.inode = 0
  BY DEF Cw!Init, Cw!NoRecord
<1>4. RecordIsTrue
  BY <1>3 DEF RecordIsTrue
<1>5. QED
  BY <1>1, <1>2, <1>3, <1>4
  DEF CwInv, CwRecord, BeforeStaging, BeforeRecording, AfterStaging, BindingIsTrue, Bound,
      RestoresAFile

(* A step that leaves the record, and goes to no place that promises       *)
(* anything of it.                                                         *)
LEMMA NothingPromised ==
  ASSUME CwRecord, UNCHANGED <<pre, binding, ours, made, base>>,
         at' \notin {"idle", "approved", "dispatched", "compared", "filled", "staged", "renamed"} \cup Bound,
         CwTypeOK'
  PROVE  CwRecord'
BY DEF CwRecord, RecordIsTrue, BeforeStaging, BeforeRecording, AfterStaging, BindingIsTrue, Bound, RestoresAFile

LEMMA StepRecord ==
  ASSUME CwRecord, [Cw!Next]_Cw!composeVars
  PROVE  CwRecord'
<1>. USE DEF Cw!Disk, Cw!Ghosts, Cw!Ends, Cw!Missing
<1>1. CASE Cw!Propose
  <2>1. CwTypeOK'
    BY <1>1 DEF Cw!Propose, CwRecord, CwTypeOK
  <2>2. QED
    BY <1>1, <2>1 DEF Cw!Propose, CwRecord, RecordIsTrue, BeforeStaging, BeforeRecording, AfterStaging,
         BindingIsTrue, Bound, RestoresAFile
<1>2. CASE Cw!Dispatch
  <2>1. pre' = [Cw!NoRecord EXCEPT !.prev = file.text, !.existed = dir # 0]
    BY <1>2 DEF Cw!Dispatch
  <2>2. /\ pre'.staged = 0 /\ pre'.created = "unknown" /\ pre'.createdDir = "unknown" /\ pre'.inode = 0
        /\ pre' \in [prev : Contents, existed : BOOLEAN, staged : Nat, created : {"unknown", "yes", "no"},
                     createdDir : {"unknown", "yes", "no"}, inode : Nat]
    BY <2>1 DEF Cw!NoRecord, CwRecord, CwTypeOK
  <2>3. QED
    BY <1>2, <2>2 DEF Cw!Dispatch, CwRecord, CwTypeOK, RecordIsTrue, BeforeStaging, BeforeRecording,
         AfterStaging, BindingIsTrue, Bound, RestoresAFile
<1>3. CASE Cw!Compare
  <2>1. CwTypeOK'
    BY <1>3 DEF Cw!Compare, CwRecord, CwTypeOK
  <2>2. QED
    BY <1>3, <2>1 DEF Cw!Compare, CwRecord, RecordIsTrue, BeforeStaging, BeforeRecording, AfterStaging,
         BindingIsTrue, Bound, RestoresAFile
<1>4. CASE Cw!Stage
  <2>1. CwTypeOK' /\ (made' # 0 => dir' = made')
    BY <1>4 DEF Cw!Stage, Cw!MakesDirectory, CwRecord, CwTypeOK, BeforeStaging
  <2>2. QED
    BY <1>4, <2>1 DEF Cw!Stage, Cw!MakesDirectory, CwRecord, CwTypeOK, RecordIsTrue, BeforeStaging, BeforeRecording,
         AfterStaging, BindingIsTrue, Bound, RestoresAFile
<1>17. CASE Cw!NothingToKeep
  <2>1. CwTypeOK'
    BY <1>17 DEF Cw!NothingToKeep, Cw!MakesDirectory, CwRecord, CwTypeOK
  <2>2. /\ at \in {"compared", "filled"} /\ at' = "failed"
        /\ UNCHANGED <<base, pre, binding, ours>>
    BY <1>17 DEF Cw!NothingToKeep
  <2>3. QED
    BY <2>1, <2>2 DEF CwRecord, RecordIsTrue, BeforeStaging, BeforeRecording, AfterStaging,
         BindingIsTrue, Bound, RestoresAFile
<1>5. CASE Cw!NoteStaged
  <2>1. /\ pre'.staged = ours /\ pre'.created = pre.created /\ pre'.createdDir = pre.createdDir
        /\ pre'.inode = pre.inode /\ pre'.prev = pre.prev
        /\ CwTypeOK'
    BY <1>5 DEF Cw!NoteStaged, CwRecord, CwTypeOK
  <2>2. QED
    BY <1>5, <2>1 DEF Cw!NoteStaged, CwRecord, RecordIsTrue, BeforeStaging, BeforeRecording, AfterStaging,
         BindingIsTrue, Bound, RestoresAFile
<1>6. CASE Cw!Rename
  <2>1. CwTypeOK'
    BY <1>6 DEF Cw!Rename, CwRecord, CwTypeOK, Contents
  <2>2. QED
    BY <1>6, <2>1 DEF Cw!Rename, CwRecord, RecordIsTrue, BeforeStaging, BeforeRecording, AfterStaging,
         BindingIsTrue, Bound, RestoresAFile
<1>7. CASE Cw!NoteWritten
  <2>1. /\ pre'.staged = pre.staged /\ pre'.prev = pre.prev
        /\ pre'.created = Cw!YesNo(base = Cw!Missing) /\ pre'.createdDir = Cw!YesNo(made # 0)
        /\ pre'.inode = dir
        /\ CwTypeOK'
    BY <1>7 DEF Cw!NoteWritten, CwRecord, CwTypeOK, Cw!YesNo
  <2>2. at = "renamed" /\ at' = "written" /\ UNCHANGED <<dir, base, binding, ours, made>>
    BY <1>7 DEF Cw!NoteWritten
  <2>3. RecordIsTrue'
    BY <2>1, <2>2 DEF Cw!YesNo, CwRecord, RecordIsTrue, AfterStaging, BeforeRecording
  <2>4. QED
    BY <2>1, <2>2, <2>3 DEF CwRecord, BeforeStaging, BeforeRecording, AfterStaging, BindingIsTrue, Bound,
         RestoresAFile
<1>8. CASE Cw!CutShort
  BY <1>8, NothingPromised DEF Cw!CutShort, CwRecord, CwTypeOK, Bound
<1>9. CASE Cw!PlanRollback
  <2>1. /\ binding'.created = Cw!CreatedFile /\ binding'.prev = pre.prev /\ binding'.inode = pre.inode
        /\ binding'.staged = (IF Cw!CreatedFile THEN pre.staged ELSE 0)
        /\ binding'.createdDir = (IF pre.createdDir # "unknown" THEN pre.createdDir = "yes"
                                  ELSE Cw!CreatedFile /\ ~pre.existed)
        /\ at' = "planned" /\ UNCHANGED <<file, dir, backup, base, pre, ours, made, slipped, fresh>>
    BY <1>9 DEF Cw!PlanRollback
  <2>2. CwTypeOK'
    <3>1. Cw!CreatedFile \in BOOLEAN
      BY DEF Cw!CreatedFile, Cw!IsTheStagedFile, CwRecord, CwTypeOK
    <3>2. binding' = [created |-> binding'.created, createdDir |-> binding'.createdDir,
                      inode |-> binding'.inode, prev |-> binding'.prev, staged |-> binding'.staged]
      BY <1>9 DEF Cw!PlanRollback
    <3>3. binding'.createdDir \in BOOLEAN
      BY <2>1, <3>1 DEF CwRecord, CwTypeOK
    <3>4. QED BY <2>1, <3>1, <3>2, <3>3 DEF CwRecord, CwTypeOK
  <2>3. Cw!CreatedFile => pre.staged = ours /\ Cw!Missing \in {base, pre.prev}
    BY DEF Cw!CreatedFile, Cw!IsTheStagedFile, CwRecord, CwTypeOK, RecordIsTrue
  <2>4. binding'.createdDir => binding'.inode \in {0, made}
    BY <2>1 DEF CwRecord, CwTypeOK, RecordIsTrue
  <2>5. QED
    BY <2>1, <2>2, <2>3, <2>4 DEF CwRecord, RecordIsTrue, BeforeStaging, BeforeRecording, AfterStaging,
         BindingIsTrue, Bound, RestoresAFile
<1>10. CASE Cw!RestoreRefuses
  BY <1>10, NothingPromised DEF Cw!RestoreRefuses, CwRecord, CwTypeOK, Bound
<1>11. CASE Cw!RestoreRemoves
  BY <1>11, NothingPromised DEF Cw!RestoreRemoves, Cw!NoFile, CwRecord, CwTypeOK, Contents, Bound
<1>12. CASE Cw!RestoreCompares
  <2>1. CwTypeOK'
    BY <1>12 DEF Cw!RestoreCompares, CwRecord, CwTypeOK
  <2>2. QED
    BY <1>12, <2>1 DEF Cw!RestoreCompares, CwRecord, RecordIsTrue, BeforeStaging, BeforeRecording,
         AfterStaging, BindingIsTrue, Bound, RestoresAFile
<1>18. CASE Cw!RestoreLooks
  <2>1. CwTypeOK'
    BY <1>18 DEF Cw!RestoreLooks, CwRecord, CwTypeOK
  <2>2. QED
    BY <1>18, <2>1 DEF Cw!RestoreLooks, CwRecord, RecordIsTrue, BeforeStaging, BeforeRecording,
         AfterStaging, BindingIsTrue, Bound, RestoresAFile
<1>19. CASE Cw!RestoreComparesAgain
  <2>1. CwTypeOK'
    BY <1>19 DEF Cw!RestoreComparesAgain, CwRecord, CwTypeOK
  <2>2. QED
    BY <1>19, <2>1 DEF Cw!RestoreComparesAgain, CwRecord, RecordIsTrue, BeforeStaging,
         BeforeRecording, AfterStaging, BindingIsTrue, Bound, RestoresAFile
<1>13. CASE Cw!RestoreRenames
  <2>1. CwTypeOK'
    BY <1>13 DEF Cw!RestoreRenames, CwRecord, CwTypeOK
  <2>2. QED BY <1>13, <2>1, NothingPromised DEF Cw!RestoreRenames, Bound
<1>14. CASE Cw!RestoreFails
  BY <1>14, NothingPromised DEF Cw!RestoreFails, CwRecord, CwTypeOK, Bound
<1>15. CASE Cw!Others
  <2>1. /\ UNCHANGED <<base, at, pre, binding, ours, made>> /\ Cw!Touches
        /\ slipped' = (slipped \/ (at \in Cw!Unwatched /\ file' # file))
    BY <1>15 DEF Cw!Others
  <2>2. CwTypeOK'
    <3>1. slipped' \in BOOLEAN
      BY <2>1
    <3>2. QED BY <2>1, <3>1 DEF Cw!Touches, Cw!NoFile, CwRecord, CwTypeOK, Contents
  <2>3. ~Cw!Quiet => dir' = dir
    BY <2>1 DEF Cw!Touches
  <2>4. QED
    BY <2>1, <2>2, <2>3 DEF Cw!Quiet, CwRecord, RecordIsTrue, BeforeStaging, BeforeRecording, AfterStaging,
         BindingIsTrue, Bound, RestoresAFile
<1>16. CASE UNCHANGED Cw!composeVars
  <2>1. CwTypeOK'
    BY <1>16 DEF Cw!composeVars, CwRecord, CwTypeOK
  <2>2. QED
    BY <1>16, <2>1 DEF Cw!composeVars, CwRecord, RecordIsTrue, BeforeStaging, BeforeRecording, AfterStaging,
         BindingIsTrue, Bound, RestoresAFile
<1>. QED
  BY <1>1, <1>2, <1>3, <1>4, <1>5, <1>6, <1>7, <1>8, <1>9, <1>10, <1>11, <1>12, <1>13, <1>14, <1>15, <1>16,
     <1>17, <1>18, <1>19
     DEF Cw!Next

LEMMA StepLooks ==
  ASSUME CwRecord, SeenIsStill, [Cw!Next]_Cw!composeVars
  PROVE  SeenIsStill'
<1>. USE DEF Cw!Disk, Cw!Ghosts, SeenIsStill
<1>1. CASE Cw!Propose \/ Cw!Dispatch \/ Cw!Rename \/ Cw!NoteWritten \/ Cw!CutShort \/ Cw!NothingToKeep
  BY <1>1 DEF Cw!Propose, Cw!Dispatch, Cw!Rename, Cw!NoteWritten, Cw!CutShort, Cw!NothingToKeep, Cw!Ends
<1>2. CASE Cw!Compare
  BY <1>2 DEF Cw!Compare, Cw!Ends
<1>3. CASE Cw!Stage \/ Cw!NoteStaged
  BY <1>3 DEF Cw!Stage, Cw!NoteStaged
<1>4. CASE Cw!PlanRollback \/ Cw!RestoreRefuses \/ Cw!RestoreCompares \/ Cw!RestoreRemoves
           \/ Cw!RestoreRenames \/ Cw!RestoreFails
  BY <1>4 DEF Cw!PlanRollback, Cw!RestoreRefuses, Cw!RestoreCompares, Cw!RestoreRemoves,
              Cw!RestoreRenames, Cw!RestoreFails
<1>5. CASE Cw!RestoreLooks \/ Cw!RestoreComparesAgain
  BY <1>5 DEF Cw!RestoreLooks, Cw!RestoreComparesAgain, Cw!IsOurs
<1>6. CASE Cw!Others
  <2>1. /\ UNCHANGED <<base, at, binding>>
        /\ slipped' = (slipped \/ (at \in Cw!Unwatched /\ file' # file))
    BY <1>6 DEF Cw!Others
  <2>2. QED BY <2>1 DEF Cw!Unwatched, CwRecord, CwTypeOK
<1>7. CASE UNCHANGED Cw!composeVars
  BY <1>7 DEF Cw!composeVars
<1>8. QED BY <1>1, <1>2, <1>3, <1>4, <1>5, <1>6, <1>7 DEF Cw!Next

LEMMA StepCompose ==
  ASSUME CwInv, [Cw!Next]_Cw!composeVars
  PROVE  CwInv'
BY StepRecord, StepLooks DEF CwInv

(* CwInv is inductive.                                                     *)
THEOREM ComposeInvariant == Cw!Spec => []CwInv
<1>1. Cw!Init => CwInv
  BY InitCompose
<1>2. CwInv /\ [Cw!Next]_Cw!composeVars => CwInv'
  BY StepCompose
<1>3. QED BY <1>1, <1>2, PTL DEF Cw!Spec

LEMMA WriteFollows ==
  CwInv /\ [Cw!Next]_Cw!composeVars => [Cw!WriteReplacesWhatItSaw]_Cw!composeVars
<1>. SUFFICES ASSUME CwInv, Cw!Next, at' = "renamed", at # "renamed"
              PROVE  slipped \/ file.text = base
  BY DEF Cw!WriteReplacesWhatItSaw
<1>1. Cw!Rename
  BY DEF Cw!Next, Cw!Propose, Cw!Dispatch, Cw!Compare, Cw!Stage, Cw!NothingToKeep, Cw!NoteStaged,
       Cw!NoteWritten, Cw!Ends, Cw!CutShort, Cw!PlanRollback, Cw!RestoreRefuses, Cw!RestoreLooks,
       Cw!RestoreRemoves, Cw!RestoreCompares, Cw!RestoreComparesAgain, Cw!RestoreRenames,
       Cw!RestoreFails, Cw!Others
<1>2. QED BY <1>1 DEF Cw!Rename, CwInv, SeenIsStill

(* write_compose, whatever others do in the directory: what the rename     *)
(* replaces is what the approval expects, unless somebody put something    *)
(* else there after the comparison.                                        *)
THEOREM WritesReplaceWhatTheySaw == Cw!Spec => [][Cw!WriteReplacesWhatItSaw]_Cw!composeVars
<1>1. CwInv /\ [Cw!Next]_Cw!composeVars => [Cw!WriteReplacesWhatItSaw]_Cw!composeVars
  BY WriteFollows
<1>2. QED BY <1>1, ComposeInvariant, PTL DEF Cw!Spec

LEMMA RollbackFollows ==
  CwInv /\ [Cw!Next]_Cw!composeVars => [Cw!RollbackTakesItsOwn]_Cw!composeVars
<1>. SUFFICES ASSUME CwInv, Cw!Next, at' = "undone", at # "undone"
              PROVE  /\ slipped \/ (file.text = "new" /\ (file' = Cw!NoFile => file.id = ours))
                     /\ dir' # dir => dir = made
                     /\ file'.text \in {base, pre.prev}
  BY DEF Cw!RollbackTakesItsOwn
<1>1. Cw!RestoreRemoves \/ Cw!RestoreRenames
  BY DEF Cw!Next, Cw!Propose, Cw!Dispatch, Cw!Compare, Cw!Stage, Cw!NothingToKeep, Cw!NoteStaged,
       Cw!Rename, Cw!NoteWritten, Cw!Ends, Cw!CutShort, Cw!PlanRollback, Cw!RestoreRefuses,
       Cw!RestoreLooks, Cw!RestoreCompares, Cw!RestoreComparesAgain, Cw!RestoreFails, Cw!Others
<1>2. CASE Cw!RestoreRemoves
  <2>1. /\ binding.created /\ binding.staged = ours /\ Cw!Missing \in {base, pre.prev}
        /\ binding.createdDir => binding.inode \in {0, made}
    BY <1>2 DEF Cw!RestoreRemoves, CwInv, CwRecord, BindingIsTrue, Bound, RestoresAFile
  <2>2. slipped \/ (file.text = "new" /\ file.id = ours)
    BY <1>2, <2>1 DEF Cw!RestoreRemoves, CwInv, SeenIsStill
  <2>3. QED
    BY <1>2, <2>1, <2>2 DEF Cw!RestoreRemoves, Cw!OurDirectory, Cw!NoFile
<1>3. CASE Cw!RestoreRenames
  <2>1. file' # Cw!NoFile
    BY <1>3 DEF Cw!RestoreRenames, Cw!NoFile, CwInv, CwRecord, CwTypeOK
  <2>2. slipped \/ file.text = "new"
    BY <1>3 DEF Cw!RestoreRenames, CwInv, SeenIsStill
  <2>3. QED
    BY <1>3, <2>1, <2>2 DEF Cw!RestoreRenames, CwInv, CwRecord, BindingIsTrue, Bound
<1>4. QED BY <1>1, <1>2, <1>3

(* However often others put the same text there, move the directory away   *)
(* or spoil the copy, and wherever the write was cut short: a rollback     *)
(* removes the file its write renamed into place and no other, or replaces *)
(* what was written and nothing else, unless somebody changed it after its *)
(* last look; it removes no directory but the one the write made; and it   *)
(* leaves what the approval, or the look before the write, had found.      *)
THEOREM RollbackIsItsOwn == Cw!Spec => [][Cw!RollbackTakesItsOwn]_Cw!composeVars
<1>1. CwInv /\ [Cw!Next]_Cw!composeVars => [Cw!RollbackTakesItsOwn]_Cw!composeVars
  BY RollbackFollows
<1>2. QED BY <1>1, ComposeInvariant, PTL DEF Cw!Spec

----------------------------------------------------------------------------
(* Targets.                                                                *)

TaPlaces == {"rest", "list", "hash", "id", "compare", "command"}
Reading == [version : Nat, id : Nat]
TaTypeOK ==
  /\ target \in Ta!Targeted
  /\ version \in Nat /\ made \in Nat /\ ids \subseteq 1..made
  /\ at \in TaPlaces /\ stage \in {"asked", "bound", "approved", "done", "refused"}
  /\ read \in Reading /\ bound \in Reading /\ bound.id <= made /\ read.id <= made
  /\ intact \in BOOLEAN

(* Nobody works on a proposal that waits or is over, nor acts on one that  *)
(* is not approved.                                                        *)
StageFits == /\ stage \in {"bound", "done", "refused"} => at = "rest"
             /\ at = "command" => stage = "approved"

(* From its beginning an execution remembers every moment at which all is  *)
(* as approved; so once it has read the approved version, either it was    *)
(* such a moment, or the approved container, which never comes back, was   *)
(* gone already.                                                           *)
IsRemembered ==
  /\ Ta!Executing /\ Ta!AsApproved(version, ids) => intact
  /\ Ta!Executing /\ at = "id" /\ read.version = bound.version /\ bound.id \in ids => intact
  /\ Ta!Executing /\ at = "compare" /\ Ta!AsBound => intact

(* What goes on with a guarded service is an update that a person asked    *)
(* for.                                                                    *)
PersonAsked ==
  (at # "rest" \/ stage \in {"bound", "approved", "done"}) /\ Ta!IsGuarded =>
    target.name = "adguard" /\ target.kind = "update.canary" /\ target.origin = "operator"

TaInv == /\ TaTypeOK /\ StageFits /\ IsRemembered /\ PersonAsked
         /\ Ta!OnlyWhatWasApproved

LEMMA InitTargets ==
  ASSUME Ta!Init
  PROVE  TaInv
<1>1. TaTypeOK
  <2>1. Ta!Nothing \in Reading /\ Ta!Nothing.id = 0
    BY DEF Ta!Nothing, Reading
  <2>2. ids \subseteq 1..made
    BY DEF Ta!Init
  <2>3. intact \in BOOLEAN
    BY Zenon DEF Ta!Init
  <2>4. bound.id <= made /\ read.id <= made
    BY <2>1 DEF Ta!Init
  <2>5. QED BY <2>3, <2>4, <2>1, <2>2 DEF Ta!Init, TaTypeOK, TaPlaces
<1>2. QED
  BY <1>1 DEF Ta!Init, TaInv, StageFits, IsRemembered, Ta!Executing, PersonAsked, Ta!OnlyWhatWasApproved,
       Ta!Acting

LEMMA NewestIsThere ==
  ASSUME TaInv, ids # {}
  PROVE  Ta!Newest \in ids
<1>1. \E i \in ids : \A j \in ids : j <= i
  <2>1. ids \in SUBSET (0..made) /\ made \in Nat
    BY DEF TaInv, TaTypeOK
  <2>2. QED BY <2>1, GreatestExists
<1>2. QED BY <1>1 DEF Ta!Newest

(* Others edit the file and make and remove containers; the approved one   *)
(* is never made again, and what is then as approved is noticed.           *)
LEMMA OthersAct ==
  ASSUME TaInv, Ta!Noticed, version' \in Nat, made' \in Nat, made' >= made, ids' \subseteq 1..made',
         \A i \in ids' : i \in ids \/ i > made
  PROVE  TaInv'
<1>1. UNCHANGED <<target, at, read, stage, bound>>
  BY DEF Ta!Noticed
<1>2. TaTypeOK'
  BY <1>1 DEF TaInv, TaTypeOK, Reading, Ta!Noticed
<1>3. StageFits' /\ PersonAsked'
  BY <1>1 DEF TaInv, StageFits, PersonAsked, Ta!IsGuarded
<1>4. intact => intact'
  BY DEF Ta!Noticed
<1>5. bound.id \in ids' => bound.id \in ids
  BY DEF TaInv, TaTypeOK, Reading
<1>6. IsRemembered'
  <2>1. (Ta!Executing /\ Ta!AsApproved(version, ids))' => intact'
    BY <1>1 DEF Ta!Noticed, Ta!Executing, Ta!AsApproved
  <2>2. (Ta!Executing /\ at = "id" /\ read.version = bound.version /\ bound.id \in ids)' => intact'
    BY <1>1, <1>4, <1>5 DEF TaInv, IsRemembered, Ta!Executing
  <2>3. (Ta!Executing /\ at = "compare" /\ Ta!AsBound)' => intact'
    BY <1>1, <1>4 DEF TaInv, IsRemembered, Ta!Executing, Ta!AsBound
  <2>4. QED BY <2>1, <2>2, <2>3 DEF IsRemembered
<1>7. Ta!OnlyWhatWasApproved'
  BY <1>1, <1>4 DEF TaInv, Ta!OnlyWhatWasApproved, Ta!Acting
<1>8. QED BY <1>2, <1>3, <1>6, <1>7 DEF TaInv

LEMMA StepTargets ==
  ASSUME TaInv, [Ta!Next]_Ta!vars
  PROVE  TaInv'
<1>. USE DEF Ta!world, Ta!GoOn
<1>1. CASE Ta!Begin
  <2>1. /\ UNCHANGED <<target, version, ids, made, read, stage, bound>>
        /\ at = "rest" /\ at' = "list" /\ stage \in {"asked", "approved"} /\ Ta!MayBeMutated
        /\ intact' = (stage = "approved" /\ Ta!AsApproved(version, ids))
    BY <1>1 DEF Ta!Begin
  <2>2. TaTypeOK' /\ StageFits'
    BY <2>1 DEF TaInv, TaTypeOK, TaPlaces, StageFits
  <2>3. IsRemembered' /\ Ta!OnlyWhatWasApproved'
    BY <2>1 DEF IsRemembered, Ta!Executing, Ta!AsApproved, Ta!OnlyWhatWasApproved, Ta!Acting
  <2>4. PersonAsked'
    BY <2>1 DEF TaInv, TaTypeOK, Ta!Targeted, PersonAsked, Ta!MayBeMutated, Ta!IsGuarded, Ta!AllowGuardedUpdate,
         Ta!GuardedUpdateAllowed
  <2>5. QED BY <2>2, <2>3, <2>4 DEF TaInv
<1>2. CASE Ta!Refuse
  BY <1>2 DEF Ta!Refuse, TaInv, TaTypeOK, TaPlaces, StageFits, IsRemembered, Ta!Executing, PersonAsked,
       Ta!OnlyWhatWasApproved, Ta!Acting
<1>3. CASE Ta!FindContainer
  BY <1>3 DEF Ta!FindContainer, TaInv, TaTypeOK, TaPlaces, StageFits, IsRemembered, Ta!Executing,
       Ta!AsApproved, PersonAsked, Ta!IsGuarded, Ta!OnlyWhatWasApproved, Ta!Acting
<1>4. CASE Ta!Hash
  <2>1. /\ UNCHANGED <<target, version, ids, made, stage, bound, intact>> /\ at = "hash" /\ at' = "id"
        /\ read' \in Reading /\ read'.version = version /\ read'.id = read.id
    BY <1>4 DEF Ta!Hash, TaInv, TaTypeOK, Reading
  <2>2. QED
    BY <2>1 DEF TaInv, TaTypeOK, TaPlaces, StageFits, IsRemembered, Ta!Executing, Ta!AsApproved,
         PersonAsked, Ta!IsGuarded, Ta!OnlyWhatWasApproved, Ta!Acting
<1>5. CASE Ta!ReadId
  <2>1. /\ UNCHANGED <<target, version, ids, made, stage, bound, intact>> /\ at = "id" /\ at' = "compare"
        /\ read' = [read EXCEPT !.id = Ta!Newest] /\ Ta!Newest \in ids
    BY <1>5, NewestIsThere DEF Ta!ReadId
  <2>2. /\ read' \in Reading /\ read'.version = read.version /\ read'.id \in ids /\ read'.id <= made
    BY <2>1 DEF TaInv, TaTypeOK, Reading
  <2>3. QED
    BY <2>1, <2>2 DEF TaInv, TaTypeOK, TaPlaces, StageFits, IsRemembered, Ta!Executing, Ta!AsApproved,
         Ta!AsBound, PersonAsked, Ta!IsGuarded, Ta!OnlyWhatWasApproved, Ta!Acting
<1>6. CASE Ta!Bind
  BY <1>6 DEF Ta!Bind, Ta!Nothing, TaInv, TaTypeOK, TaPlaces, Reading, StageFits, IsRemembered,
       Ta!Executing, Ta!IsGuarded, PersonAsked, Ta!OnlyWhatWasApproved, Ta!Acting
<1>7. CASE Ta!Approve
  BY <1>7 DEF Ta!Approve, TaInv, TaTypeOK, StageFits, IsRemembered, Ta!Executing, Ta!IsGuarded,
       PersonAsked, Ta!OnlyWhatWasApproved, Ta!Acting
<1>8. CASE Ta!Compare
  BY <1>8 DEF Ta!Compare, TaInv, TaTypeOK, TaPlaces, StageFits, IsRemembered, Ta!Executing, Ta!AsApproved,
       Ta!IsGuarded, PersonAsked, Ta!OnlyWhatWasApproved, Ta!Acting
<1>9. CASE Ta!Command
  BY <1>9 DEF Ta!Command, TaInv, TaTypeOK, TaPlaces, StageFits, IsRemembered, Ta!Executing,
       Ta!IsGuarded, PersonAsked, Ta!OnlyWhatWasApproved, Ta!Acting
<1>10. CASE Ta!Edit
  BY <1>10, OthersAct DEF Ta!Edit, TaInv, TaTypeOK
<1>11. CASE Ta!Recreate
  <2>1. PICK old \in SUBSET ids : ids' = old \cup {made'}
    BY <1>11 DEF Ta!Recreate
  <2>2. made \in Nat /\ made' = made + 1 /\ ids \subseteq 1..made /\ version' = version /\ version \in Nat
    BY <1>11 DEF Ta!Recreate, TaInv, TaTypeOK
  <2>3. ids' \subseteq 1..made' /\ \A i \in ids' : i \in ids \/ i > made
    BY <2>1, <2>2
  <2>4. QED BY <1>11, <2>2, <2>3, OthersAct DEF Ta!Recreate
<1>12. CASE Ta!Remove
  BY <1>12, OthersAct DEF Ta!Remove, TaInv, TaTypeOK
<1>13. CASE UNCHANGED Ta!vars
  BY <1>13 DEF Ta!vars, TaInv, TaTypeOK, StageFits, IsRemembered, Ta!Executing, Ta!AsApproved, Ta!AsBound,
       Ta!IsGuarded, PersonAsked, Ta!OnlyWhatWasApproved, Ta!Acting
<1>. QED
  BY <1>1, <1>2, <1>3, <1>4, <1>5, <1>6, <1>7, <1>8, <1>9, <1>10, <1>11, <1>12, <1>13
     DEF Ta!Next, Ta!RefuseGuarded, Ta!RefuseTarget, Ta!RefusePlan, Ta!RefuseDrift

(* TaInv is inductive.                                                     *)
THEOREM TargetsInvariant == Ta!Spec => []TaInv
<1>1. Ta!Init => TaInv
  BY InitTargets
<1>2. TaInv /\ [Ta!Next]_Ta!vars => TaInv'
  BY StepTargets
<1>3. QED BY <1>1, <1>2, PTL DEF Ta!Spec

LEMMA ApprovalFollows ==
  TaInv => Ta!OnlyWhatWasApproved
BY DEF TaInv

(* However often the file is edited and put back and the container made    *)
(* anew between any two reads: a step acts only if there was one moment of *)
(* its execution at which both were those its approval names.              *)
THEOREM ActsOnWhatWasApproved == Ta!Spec => []Ta!OnlyWhatWasApproved
<1>1. TaInv => Ta!OnlyWhatWasApproved
  BY ApprovalFollows
<1>2. QED BY <1>1, TargetsInvariant, PTL

LEMMA GuardFollows ==
  TaInv => Ta!GuardHolds
BY DEF TaInv, PersonAsked, Ta!GuardHolds, Ta!Acting

(* Nothing acts on Traefik, and on AdGuard only an update that a person    *)
(* asked for.                                                              *)
THEOREM GuardedServicesAreSafe == Ta!Spec => []Ta!GuardHolds
<1>1. TaInv => Ta!GuardHolds
  BY GuardFollows
<1>2. QED BY <1>1, TargetsInvariant, PTL

----------------------------------------------------------------------------
(* The cache of the services a compose file declares.                     *)

Places == {"rest", "lookup", "read", "insert", "judge"}
Entry == [version : Nat, listed : BOOLEAN, at : Nat]
Thread == [at : Places, version : Nat, listed : BOOLEAN, began : Nat]

TcTypeOK ==
  /\ file \in [version : Nat \ {0}, declared : BOOLEAN]
  /\ cache \in Entry
  /\ time \in Nat
  /\ request \in [WebRequests -> Thread]
  /\ flipped \in Nat
  /\ fresh \in BOOLEAN
  /\ flipped <= time

(* What was read at a moment no earlier than `since' is what is declared,  *)
(* or somebody changed it at that moment or later.                         *)
SeenSince(listed, since) == listed = file.declared \/ flipped >= since

(* An entry was read at most a budget before the moment it is dated, since *)
(* the deadline is checked again when the answer has come.                 *)
EntryIsDated == cache.version # 0 => SeenSince(cache.listed, cache.at - Budget) /\ cache.at <= time

(* A thread knows which file it looks for, never the version 0 of a cache  *)
(* without an entry; what it has read, it has read since it began.         *)
ReadSinceBegun(r) == request[r].at = "insert" => SeenSince(request[r].listed, request[r].began)
LooksForAFile(r) == request[r].at # "rest" => request[r].version # 0 /\ request[r].began <= time

(* Between the lookup and the verdict the clock stands still.              *)
JudgesFresh(r) == request[r].at = "judge" => Tc!Current(request[r].listed)

CacheInv ==
  /\ TcTypeOK
  /\ EntryIsDated
  /\ \A r \in WebRequests : ReadSinceBegun(r) /\ LooksForAFile(r) /\ JudgesFresh(r)
  /\ Tc!AnswersAreFresh

----------------------------------------------------------------------------
LEMMA InitCache ==
  ASSUME TTL \in Nat, Budget \in Nat, Tc!Init
  PROVE  CacheInv
BY DEF Tc!Init, CacheInv, TcTypeOK, Entry, Thread, Places, Tc!Idle, EntryIsDated,
       ReadSinceBegun, LooksForAFile, JudgesFresh, Tc!AnswersAreFresh

(* A thread's step moves that thread alone.                                *)
LEMMA ThreadTyped ==
  ASSUME TcTypeOK, NEW r \in WebRequests, NEW t \in Thread,
         request' = [request EXCEPT ![r] = t]
  PROVE  /\ request' \in [WebRequests -> Thread]
         /\ request'[r] = t
         /\ \A o \in WebRequests \ {r} : request'[o] = request[o]
BY DEF TcTypeOK

LEMMA StepCache ==
  ASSUME TTL \in Nat, Budget \in Nat, CacheInv, [Tc!Next]_Tc!vars
  PROVE  CacheInv'
<1>1. ASSUME NEW r \in WebRequests, Tc!Stat(r) PROVE CacheInv'
  <2>1. DEFINE t == [Tc!Idle EXCEPT !.at = "lookup", !.version = file.version, !.began = time]
  <2>2. t \in Thread /\ t.at = "lookup" /\ t.version = file.version /\ t.began = time
    BY DEF CacheInv, TcTypeOK, Thread, Places, Tc!Idle
  <2>3. request' = [request EXCEPT ![r] = t] /\ UNCHANGED <<file, cache, time, flipped, fresh>>
    BY <1>1 DEF Tc!Stat
  <2>. HIDE DEF t
  <2>4. /\ request' \in [WebRequests -> Thread] /\ request'[r] = t
        /\ \A o \in WebRequests \ {r} : request'[o] = request[o]
    BY <2>2, <2>3, ThreadTyped DEF CacheInv
  <2>5. QED
    BY <2>2, <2>3, <2>4 DEF CacheInv, TcTypeOK, EntryIsDated, SeenSince, ReadSinceBegun, LooksForAFile,
         JudgesFresh, Tc!AnswersAreFresh, Tc!Current
<1>2. ASSUME NEW r \in WebRequests, Tc!Lookup(r) PROVE CacheInv'
  <2>1. CASE Tc!Usable(request[r].version)
    <3>1. /\ request' = [request EXCEPT ![r].at = "judge", ![r].listed = cache.listed]
          /\ request[r].at = "lookup" /\ UNCHANGED <<file, cache, time, flipped, fresh>>
      BY <1>2, <2>1 DEF Tc!Lookup
    <3>2. /\ request' \in [WebRequests -> Thread]
          /\ request'[r].at = "judge" /\ request'[r].listed = cache.listed
          /\ request'[r].version = request[r].version /\ request'[r].began = request[r].began
          /\ \A o \in WebRequests \ {r} : request'[o] = request[o]
      BY <3>1 DEF CacheInv, TcTypeOK, Entry, Thread, Places
    <3>3. Tc!Current(cache.listed)
      <4>1. cache.version # 0 /\ cache.at + TTL >= time /\ cache.at \in Nat
        BY <2>1, <3>1 DEF Tc!Usable, CacheInv, LooksForAFile, TcTypeOK, Entry
      <4>2. QED BY <4>1 DEF CacheInv, EntryIsDated, SeenSince, Tc!Current, TcTypeOK
    <3>4. QED
      BY <3>1, <3>2, <3>3 DEF CacheInv, TcTypeOK, EntryIsDated, SeenSince, ReadSinceBegun,
           LooksForAFile, JudgesFresh, Tc!AnswersAreFresh, Tc!Current
  <2>2. CASE ~Tc!Usable(request[r].version)
    <3>1. request' = [request EXCEPT ![r].at = "read"]
      BY <1>2, <2>2 DEF Tc!Lookup
    <3>2. QED
      BY <1>2, <3>1 DEF CacheInv, TcTypeOK, Entry, Thread, Places, EntryIsDated, Tc!Lookup, SeenSince,
           ReadSinceBegun, LooksForAFile, JudgesFresh, Tc!AnswersAreFresh, Tc!Current
  <2>3. QED BY <2>1, <2>2
<1>3. ASSUME NEW r \in WebRequests, Tc!ReadServices(r) PROVE CacheInv'
  <2>. DEFINE t == [request[r] EXCEPT !.at = "insert", !.listed = file.declared]
  <2>1. request[r] \in Thread /\ file.declared \in BOOLEAN /\ time \in Nat /\ request[r].began \in Nat
    BY DEF CacheInv, TcTypeOK, Thread
  <2>2. /\ t \in Thread /\ t.at = "insert" /\ t.listed = file.declared
        /\ t.version = request[r].version /\ t.began = request[r].began
    BY <2>1 DEF Thread, Places
  <2>3. /\ request' = [request EXCEPT ![r] = t] /\ UNCHANGED <<file, cache, time, flipped, fresh>>
        /\ request[r].at = "read"
    BY <1>3 DEF Tc!ReadServices
  <2>. HIDE DEF t
  <2>4. /\ request' \in [WebRequests -> Thread] /\ request'[r] = t
        /\ \A o \in WebRequests \ {r} : request'[o] = request[o]
    BY <2>2, <2>3, ThreadTyped DEF CacheInv
  <2>5. t.version # 0 /\ t.began <= time
    BY <2>2, <2>3 DEF CacheInv, LooksForAFile
  <2>6. SeenSince(file.declared, t.began)
    BY <2>1, <2>2, <2>5 DEF SeenSince
  <2>7. QED
    BY <2>2, <2>3, <2>4, <2>5, <2>6 DEF CacheInv, TcTypeOK, EntryIsDated, SeenSince, ReadSinceBegun,
         LooksForAFile, JudgesFresh, Tc!AnswersAreFresh, Tc!Current
<1>4. ASSUME NEW r \in WebRequests, Tc!Insert(r) PROVE CacheInv'
  BY <1>4 DEF CacheInv, TcTypeOK, Entry, Thread, Places, Tc!Idle, EntryIsDated, Tc!Insert, SeenSince,
       ReadSinceBegun, LooksForAFile, JudgesFresh, Tc!AnswersAreFresh, Tc!Current, Tc!InTime
<1>5. ASSUME NEW r \in WebRequests, Tc!TimesOut(r) PROVE CacheInv'
  BY <1>5 DEF CacheInv, TcTypeOK, Entry, Thread, Places, Tc!Idle, EntryIsDated, Tc!TimesOut, SeenSince,
       ReadSinceBegun, LooksForAFile, JudgesFresh, Tc!AnswersAreFresh, Tc!Current, Tc!InTime, Tc!Leave
<1>6. ASSUME NEW r \in WebRequests, Tc!Judge(r) PROVE CacheInv'
  BY <1>6 DEF CacheInv, TcTypeOK, Entry, Thread, Places, Tc!Idle, EntryIsDated, Tc!Judge, SeenSince,
       ReadSinceBegun, LooksForAFile, JudgesFresh, Tc!AnswersAreFresh, Tc!Current, Tc!Leave
<1>7. ASSUME Tc!EditFile PROVE CacheInv'
  BY <1>7 DEF CacheInv, TcTypeOK, Entry, Thread, Places, EntryIsDated, Tc!EditFile, Tc!Edited, SeenSince,
       ReadSinceBegun, LooksForAFile, JudgesFresh, Tc!AnswersAreFresh, Tc!Current
<1>8. ASSUME Tc!EditInclude PROVE CacheInv'
  <2>1. /\ file' = [file EXCEPT !.declared = ~file.declared]
        /\ UNCHANGED <<cache, time, request, fresh>>
        /\ flipped' = IF file'.declared = file.declared THEN flipped ELSE time
    BY <1>8 DEF Tc!EditInclude, Tc!Edited
  <2>2. /\ file' \in [version : Nat \ {0}, declared : BOOLEAN]
        /\ file'.declared # file.declared
    BY <2>1 DEF CacheInv, TcTypeOK
  <2>3. flipped' = time
    BY <2>1, <2>2
  <2>4. QED
    BY <2>1, <2>2, <2>3 DEF CacheInv, TcTypeOK, Entry, Thread, Places, EntryIsDated, SeenSince,
         ReadSinceBegun, LooksForAFile, JudgesFresh, Tc!AnswersAreFresh, Tc!Current
<1>9. ASSUME Tc!Tick PROVE CacheInv'
  BY <1>9 DEF CacheInv, TcTypeOK, Entry, Thread, Places, EntryIsDated, Tc!Tick, SeenSince,
       ReadSinceBegun, LooksForAFile, JudgesFresh, Tc!AnswersAreFresh, Tc!Current
<1>10. ASSUME UNCHANGED Tc!vars PROVE CacheInv'
  <2>1. UNCHANGED <<file, cache, time, request, flipped, fresh>>
    BY <1>10 DEF Tc!vars
  <2>2. TcTypeOK' /\ Tc!AnswersAreFresh'
    BY <2>1 DEF CacheInv, TcTypeOK, Tc!AnswersAreFresh
  <2>3. EntryIsDated'
    BY <2>1 DEF CacheInv, EntryIsDated, SeenSince
  <2>4. \A r \in WebRequests : ReadSinceBegun(r)' /\ LooksForAFile(r)' /\ JudgesFresh(r)'
    BY <2>1 DEF CacheInv, ReadSinceBegun, LooksForAFile, JudgesFresh, SeenSince, Tc!Current
  <2>5. QED BY <2>2, <2>3, <2>4 DEF CacheInv
<1>. QED BY <1>1, <1>2, <1>3, <1>4, <1>5, <1>6, <1>7, <1>8, <1>9, <1>10 DEF Tc!Next

(* CacheInv is inductive.                                                  *)
THEOREM CacheInvariant == Tc!Spec => []CacheInv
<1>1. Tc!Init => CacheInv
  BY CacheAssumption, InitCache
<1>2. CacheInv /\ [Tc!Next]_Tc!vars => CacheInv'
  BY CacheAssumption, StepCache
<1>3. QED BY <1>1, <1>2, PTL DEF Tc!Spec

LEMMA FreshnessFollows ==
  CacheInv => Tc!AnswersAreFresh
BY DEF CacheInv

(* Whatever requests race, and whichever file was edited or put back,      *)
(* resolve_target answers from no longer ago than an entry may live and a  *)
(* resolution may take.                                                    *)
THEOREM NoStaleAnswer == Tc!Spec => []Tc!AnswersAreFresh
<1>1. CacheInv => Tc!AnswersAreFresh
  BY FreshnessFollows
<1>2. QED BY <1>1, CacheInvariant, PTL

----------------------------------------------------------------------------
(* SetupSession.                                                           *)

SeTypeOK ==
  /\ answers \in [choice : Choices \cup {Se!None}, telegram : Chats \cup {Se!None}, operator : Nat]
  /\ chat \in Chats \cup {Se!None} /\ test \in [Se!Requests -> Chats \cup {Se!None}]
  /\ enrol \in [secret : Nat, failures : Nat, last : Nat] /\ proof \in [Se!Requests -> Nat]

(* A code was right for the secret that is about to become the answer,     *)
(* whatever was enrolled since.                                            *)
ProofIsProven(r) == proof[r] # 0 => <<"operator", proof[r]>> \in proven

(* There is a host to discover, and a plan only of one that was discovered. *)
HostIsFound == /\ host \in Nat \ {0}
               /\ reviewed # Se!NoPlan => discovery # 0

SeInv == /\ SeTypeOK /\ HostIsFound
         /\ \A r \in Se!Requests : ProofIsProven(r)
         /\ Se!AnswersAreProven
         /\ Se!ReviewIsCurrent

LEMMA InitSession ==
  ASSUME Se!Init
  PROVE  SeInv
BY DEF Se!Init, Se!None, Se!NoPlan, SeInv, SeTypeOK, HostIsFound, ProofIsProven, Se!AnswersAreProven, Se!ReviewIsCurrent

(* An answer that is merged is a plain one, or proven, or none.            *)
LEMMA MergeKeeps ==
  ASSUME SeInv, NEW key \in {"choice", "telegram", "operator"}, NEW value, Se!Merge(key, value),
         key = "choice" => value \in Choices \cup {Se!None},
         key = "telegram" => value \in Chats \cup {Se!None},
         key = "operator" => value \in Nat,
         key # "choice" /\ value # Se!None => <<key, value>> \in proven', proven \subseteq proven'
  PROVE  /\ answers' \in [choice : Choices \cup {Se!None}, telegram : Chats \cup {Se!None}, operator : Nat]
         /\ Se!AnswersAreProven' /\ Se!ReviewIsCurrent'
<1>1. answers' = [answers EXCEPT ![key] = value] /\ reviewed' = Se!NoPlan
  BY DEF Se!Merge
<1>2. Se!ReviewIsCurrent'
  BY <1>1 DEF Se!ReviewIsCurrent
<1>3. CASE key = "choice"
  <2>1. answers' = [answers EXCEPT !.choice = value]
    BY <1>1, <1>3
  <2>2. QED BY <1>2, <1>3, <2>1 DEF SeInv, SeTypeOK, Se!AnswersAreProven
<1>4. CASE key = "telegram"
  <2>1. answers' = [answers EXCEPT !.telegram = value]
    BY <1>1, <1>4
  <2>2. QED BY <1>2, <1>4, <2>1 DEF SeInv, SeTypeOK, Se!AnswersAreProven
<1>5. CASE key = "operator"
  <2>1. answers' = [answers EXCEPT !.operator = value]
    BY <1>1, <1>5
  <2>2. QED BY <1>2, <1>5, <2>1 DEF SeInv, SeTypeOK, Se!AnswersAreProven
<1>6. QED BY <1>3, <1>4, <1>5

(* A step that leaves the answers, the review and the proofs.              *)
ReviewStays == \/ UNCHANGED <<discovery, reviewed>>
               \/ reviewed' = Se!NoPlan
LEMMA NothingAnswered ==
  ASSUME SeInv, UNCHANGED <<answers, proof>>, proven \subseteq proven', ReviewStays, host' \in Nat \ {0},
         chat' \in Chats \cup {Se!None}, test' \in [Se!Requests -> Chats \cup {Se!None}],
         enrol' \in [secret : Nat, failures : Nat, last : Nat]
  PROVE  SeInv'
BY DEF SeInv, SeTypeOK, HostIsFound, ReviewStays, ProofIsProven, Se!AnswersAreProven, Se!ReviewIsCurrent

(* Answers that are rejected leave what was reviewed, and what it is of.   *)
LEMMA RejectLeaves ==
  ASSUME SeInv, Se!Reject
  PROVE  UNCHANGED answers /\ ReviewStays
BY DEF Se!Reject, Se!Found, SeInv, HostIsFound, ReviewStays

LEMMA StepSession ==
  ASSUME SeInv, [Se!Next]_Se!sessionVars
  PROVE  SeInv'
<1>0. /\ chat \in Chats \cup {Se!None} /\ test \in [Se!Requests -> Chats \cup {Se!None}]
      /\ enrol \in [secret : Nat, failures : Nat, last : Nat] /\ host \in Nat \ {0}
  BY DEF SeInv, SeTypeOK, HostIsFound
<1>. USE DEF ReviewStays
<1>1. CASE Se!RunDiscover
  BY <1>0, <1>1, NothingAnswered DEF Se!RunDiscover
<1>2. CASE Se!SetAnswers
  <2>1. UNCHANGED <<chat, test, enrol, proof, proven, host>>
    BY <1>2 DEF Se!SetAnswers
  <2>2. CASE Se!Reject
    BY <1>0, <2>1, <2>2, RejectLeaves, NothingAnswered
  <2>3. ASSUME NEW key \in {"choice", "telegram", "operator"}, NEW value \in Choices \cup {Se!None},
               Se!Merge(key, value), key # "choice" => value = Se!None
        PROVE  SeInv'
    <3>1. /\ answers' \in [choice : Choices \cup {Se!None}, telegram : Chats \cup {Se!None}, operator : Nat]
          /\ Se!AnswersAreProven' /\ Se!ReviewIsCurrent'
      BY <2>1, <2>3, MergeKeeps DEF Se!None
    <3>2. reviewed' = Se!NoPlan
      BY <2>3 DEF Se!Merge
    <3>3. QED BY <1>0, <2>1, <3>1, <3>2 DEF SeInv, SeTypeOK, HostIsFound, ProofIsProven
  <2>4. CASE \E c \in Choices : Se!Merge("choice", c)
    BY <2>3, <2>4
  <2>5. CASE \E key \in {"telegram", "operator"} : answers[key] # Se!None /\ Se!Merge(key, Se!None)
    BY <2>3, <2>5
  <2>6. QED BY <1>2, <2>2, <2>4, <2>5 DEF Se!SetAnswers
<1>3. CASE Se!BuildPlan
  <2>1. /\ UNCHANGED <<answers, chat, test, enrol, proof, proven, host>>
        /\ reviewed' = Se!Plan(discovery', answers) /\ discovery' # 0
    BY <1>0, <1>3 DEF Se!BuildPlan, Se!Found
  <2>2. Se!ReviewIsCurrent'
    BY <2>1 DEF Se!ReviewIsCurrent, Se!Plan
  <2>3. QED BY <1>0, <2>1, <2>2 DEF SeInv, SeTypeOK, HostIsFound, ProofIsProven, Se!AnswersAreProven
<1>4. CASE Se!Approve \/ Se!Retry \/ Se!Undo
  BY <1>0, <1>4, NothingAnswered DEF Se!Approve, Se!Retry, Se!Undo, Se!Begin
<1>5. CASE Se!Starts \/ Se!Finish
  BY <1>0, <1>5, NothingAnswered DEF Se!Starts, Se!Finish
<1>15. CASE Se!Ends
  <2>1. host' \in Nat \ {0}
    BY <1>0, <1>15 DEF Se!Ends
  <2>2. QED BY <1>0, <1>15, <2>1, NothingAnswered DEF Se!Ends
<1>6. CASE Se!TelegramFind
  BY <1>0, <1>6, NothingAnswered DEF Se!TelegramFind, Se!Elsewhere
<1>7. CASE Se!TotpBegin
  <2>1. enrol' \in [secret : Nat, failures : Nat, last : Nat]
    BY <1>0, <1>7 DEF Se!TotpBegin
  <2>2. QED BY <1>0, <1>7, <2>1, NothingAnswered DEF Se!TotpBegin, Se!Elsewhere
<1>8. CASE Se!HostChanges
  <2>1. host' \in Nat \ {0}
    BY <1>0, <1>8 DEF Se!HostChanges
  <2>2. QED BY <1>0, <1>8, <2>1, NothingAnswered DEF Se!HostChanges
<1>9. ASSUME NEW r \in Se!Requests, Se!TelegramTest(r) PROVE SeInv'
  <2>1. test' \in [Se!Requests -> Chats \cup {Se!None}]
    BY <1>0, <1>9 DEF Se!TelegramTest
  <2>2. QED BY <1>0, <1>9, <2>1, NothingAnswered DEF Se!TelegramTest, Se!Elsewhere
<1>10. ASSUME NEW r \in Se!Requests, Se!Sent(r) PROVE SeInv'
  <2>1. /\ test' \in [Se!Requests -> Chats \cup {Se!None}] /\ UNCHANGED <<enrol, proof, host>>
        /\ test[r] # Se!None /\ test[r] \in Chats \cup {Se!None}
    BY <1>0, <1>10 DEF Se!Sent, Se!Elsewhere
  <2>2. CASE /\ proven' = proven \cup {<<"telegram", test[r]>>} /\ chat' = Se!None
             /\ Se!Merge("telegram", test[r])
    <3>1. /\ answers' \in [choice : Choices \cup {Se!None}, telegram : Chats \cup {Se!None}, operator : Nat]
          /\ Se!AnswersAreProven' /\ Se!ReviewIsCurrent'
      BY <2>1, <2>2, MergeKeeps
    <3>2. reviewed' = Se!NoPlan
      BY <2>2 DEF Se!Merge
    <3>3. QED BY <1>0, <2>1, <2>2, <3>1, <3>2 DEF SeInv, SeTypeOK, HostIsFound, ProofIsProven
  <2>3. CASE /\ proven' = proven \cup {<<"telegram", test[r]>>} /\ chat' = Se!None
             /\ Se!Reject
    <3>1. UNCHANGED answers /\ ReviewStays
      BY <2>3, RejectLeaves
    <3>2. QED BY <1>0, <2>1, <2>3, <3>1, NothingAnswered
  <2>4. CASE UNCHANGED <<proven, discovery, answers, reviewed, chat>>
    BY <1>0, <2>1, <2>4, NothingAnswered
  <2>5. QED BY <1>10, <2>2, <2>3, <2>4 DEF Se!Sent, Se!TestedPair
<1>11. ASSUME NEW r \in Se!Requests, Se!TotpVerify(r) PROVE SeInv'
  <2>1. UNCHANGED <<host, discovery, answers, reviewed, chat, test>>
    BY <1>11 DEF Se!TotpVerify, Se!Elsewhere
  <2>2. CASE enrol' = [enrol EXCEPT !.failures = @ + 1] /\ UNCHANGED <<proof, proven>>
    <3>1. enrol' \in [secret : Nat, failures : Nat, last : Nat]
      BY <1>0, <2>2
    <3>2. QED BY <1>0, <2>1, <2>2, <3>1, NothingAnswered
  <2>3. CASE /\ proof' = [proof EXCEPT ![r] = enrol.secret]
             /\ proven' = proven \cup {<<"operator", enrol.secret>>} /\ UNCHANGED enrol
    <3>1. enrol.secret \in Nat
      BY <1>0
    <3>2. /\ proof' \in [Se!Requests -> Nat] /\ proof'[r] = enrol.secret
          /\ \A o \in Se!Requests \ {r} : proof'[o] = proof[o]
      BY <2>3, <3>1 DEF SeInv, SeTypeOK
    <3>3. \A o \in Se!Requests : ProofIsProven(o)'
      BY <2>3, <3>2 DEF SeInv, ProofIsProven
    <3>4. QED
      BY <2>1, <2>3, <3>2, <3>3 DEF SeInv, SeTypeOK, HostIsFound, Se!AnswersAreProven, Se!ReviewIsCurrent
  <2>4. QED BY <1>11, <2>2, <2>3 DEF Se!TotpVerify
<1>12. ASSUME NEW r \in Se!Requests, Se!TotpKeep(r) PROVE SeInv'
  <2>1. /\ UNCHANGED <<chat, test, proven, host>> /\ proof[r] # 0
        /\ proof' = [proof EXCEPT ![r] = 0]
    BY <1>12 DEF Se!TotpKeep, Se!Elsewhere
  <2>2. /\ proof' \in [Se!Requests -> Nat]
        /\ proof[r] \in Nat /\ <<"operator", proof[r]>> \in proven
        /\ \A o \in Se!Requests : ProofIsProven(o)'
    BY <2>1 DEF SeInv, SeTypeOK, ProofIsProven
  <2>3. CASE Se!Merge("operator", proof[r]) /\ enrol' = [enrol EXCEPT !.secret = 0]
    <3>1. enrol' \in [secret : Nat, failures : Nat, last : Nat]
      BY <1>0, <2>3
    <3>2. /\ answers' \in [choice : Choices \cup {Se!None}, telegram : Chats \cup {Se!None}, operator : Nat]
          /\ Se!AnswersAreProven' /\ Se!ReviewIsCurrent'
      BY <2>1, <2>2, <2>3, MergeKeeps
    <3>3. reviewed' = Se!NoPlan
      BY <2>3 DEF Se!Merge
    <3>4. QED BY <1>0, <2>1, <2>2, <3>1, <3>2, <3>3 DEF SeInv, SeTypeOK, HostIsFound
  <2>4. CASE Se!Reject /\ UNCHANGED enrol
    <3>1. UNCHANGED answers /\ ReviewStays
      BY <2>4, RejectLeaves
    <3>2. QED
      BY <1>0, <2>1, <2>2, <2>4, <3>1
      DEF SeInv, SeTypeOK, HostIsFound, Se!AnswersAreProven, Se!ReviewIsCurrent
  <2>5. QED BY <1>12, <2>3, <2>4 DEF Se!TotpKeep
<1>13. CASE UNCHANGED Se!sessionVars
  BY <1>0, <1>13, NothingAnswered DEF Se!sessionVars
<1>14. QED BY <1>1, <1>2, <1>3, <1>4, <1>5, <1>6, <1>7, <1>8, <1>9, <1>10, <1>11, <1>12, <1>13, <1>15 DEF Se!Next

(* SeInv is inductive.                                                     *)
THEOREM WizardInvariant == Se!Spec => []SeInv
<1>1. Se!Init => SeInv
  BY InitSession
<1>2. SeInv /\ [Se!Next]_Se!sessionVars => SeInv'
  BY StepSession
<1>3. QED BY <1>1, <1>2, PTL DEF Se!Spec

LEMMA ProofsFollow ==
  SeInv => Se!AnswersAreProven
BY DEF SeInv

(* Whatever is looked up, enrolled or cleared in other requests between a  *)
(* check and what it settles: a credential among the wizard's answers went *)
(* through its own check as it stands.                                     *)
THEOREM CredentialsAreProven == Se!Spec => []Se!AnswersAreProven
<1>1. SeInv => Se!AnswersAreProven
  BY ProofsFollow
<1>2. QED BY <1>1, WizardInvariant, PTL

LEMMA ReviewFollows ==
  SeInv => Se!ReviewIsCurrent
BY DEF SeInv

(* Whatever is answered, proved, cleared or discovered in other requests:  *)
(* a plan that may be approved was built from the answers there are and    *)
(* from the host as it was last discovered.                                *)
THEOREM ReviewsAreCurrent == Se!Spec => []Se!ReviewIsCurrent
<1>1. SeInv => Se!ReviewIsCurrent
  BY ReviewFollows
<1>2. QED BY <1>1, WizardInvariant, PTL

----------------------------------------------------------------------------
(* RpcServer.                                                              *)

(* The name that stands for an empty path is no process's.                 *)
RpConstants == Rp!Nobody \notin Processes

Connection == [at : {"none", "busy", "reading", "handling", "replying", "ending"}, to : Processes \cup {Rp!Nobody},
               slot : {"none", "general", "reserved"}, method : Rp!Methods \cup {"none"}]
RpTypeOK ==
  /\ proc \in [Processes -> {"off", "probing", "bound", "up", "closing", "draining"}]
  /\ path \in Processes \cup {Rp!Nobody}
  /\ conn \in [Connections -> Connection]
  /\ refused \in [Connections -> SUBSET Connections]

(* A server's socket is at the path from its binding until it closes, and  *)
(* one process at a time gets that far.                                    *)
SocketIsThere == \A p \in Processes : proc[p] \in {"bound", "up"} => path = p
OneStarts == \A p, q \in Processes :
  proc[p] \in {"probing", "bound"} /\ proc[q] \in {"probing", "bound"} => p = q

(* What the kept worker carries out is a decision.                         *)
KeptDecides(c) == conn[c].at = "handling" /\ conn[c].slot = "reserved" => conn[c].method = "approval.decide"

RpInv == /\ RpTypeOK
         /\ SocketIsThere /\ OneStarts
         /\ \A c \in Connections : KeptDecides(c)

LEMMA InitRpc ==
  ASSUME RpConstants, Rp!Init
  PROVE  RpInv
BY DEF RpConstants, Rp!Init, Rp!NoConn, Rp!Methods, RpInv, RpTypeOK, Connection, SocketIsThere, OneStarts, KeptDecides

(* What a process does to its place and the path.                          *)
LEMMA ProcessActs ==
  ASSUME RpConstants, RpInv, NEW p \in Processes, Rp!StartServer(p) \/ Rp!Bind(p) \/ Rp!Listen(p)
  PROVE  RpInv'
<1>1. UNCHANGED <<conn, refused>>
  BY DEF Rp!StartServer, Rp!Bind, Rp!Listen
<1>2. /\ proc' \in [Processes -> {"off", "probing", "bound", "up", "closing", "draining"}]
      /\ path' \in Processes \cup {Rp!Nobody}
      /\ SocketIsThere' /\ OneStarts'
  <2>1. CASE Rp!StartServer(p)
    BY <2>1 DEF RpConstants, RpInv, RpTypeOK, SocketIsThere, OneStarts, Rp!StartServer, Rp!Listening, Rp!At
  <2>2. CASE Rp!Bind(p)
    BY <2>2 DEF RpConstants, RpInv, RpTypeOK, SocketIsThere, OneStarts, Rp!Bind, Rp!At
  <2>3. CASE Rp!Listen(p)
    BY <2>3 DEF RpConstants, RpInv, RpTypeOK, SocketIsThere, OneStarts, Rp!Listen, Rp!Unlinked, Rp!At
  <2>4. QED BY <2>1, <2>2, <2>3
<1>3. QED BY <1>1, <1>2 DEF RpInv, RpTypeOK, KeptDecides

LEMMA ProcessEnds ==
  ASSUME RpConstants, RpInv, NEW p \in Processes, Rp!Stop(p) \/ Rp!Unlink(p) \/ Rp!Drained(p) \/ Rp!Dies(p)
  PROVE  RpInv'
<1>1. /\ proc' \in [Processes -> {"off", "probing", "bound", "up", "closing", "draining"}]
      /\ path' \in Processes \cup {Rp!Nobody}
      /\ SocketIsThere' /\ OneStarts'
  BY DEF RpConstants, RpInv, RpTypeOK, SocketIsThere, OneStarts, Rp!Stop, Rp!Unlink, Rp!Drained, Rp!Dies, Rp!Unlinked, Rp!At
<1>2. /\ conn' \in [Connections -> Connection] /\ \A c \in Connections : KeptDecides(c)'
  <2>1. CASE Rp!Stop(p)
    BY <2>1 DEF Rp!Stop, RpInv, RpTypeOK, Connection, KeptDecides
  <2>2. CASE Rp!Dies(p)
    BY <2>2 DEF Rp!Dies, Rp!NoConn, RpInv, RpTypeOK, Connection, KeptDecides
  <2>3. CASE Rp!Unlink(p) \/ Rp!Drained(p)
    BY <2>3 DEF Rp!Unlink, Rp!Drained, RpInv, RpTypeOK, KeptDecides
  <2>4. QED BY <2>1, <2>2, <2>3
<1>3. refused' \in [Connections -> SUBSET Connections]
  BY DEF RpInv, RpTypeOK, Rp!Stop, Rp!Unlink, Rp!Drained, Rp!Dies
<1>4. QED BY <1>1, <1>2, <1>3 DEF RpInv, RpTypeOK

(* What becomes of one connection.                                         *)
LEMMA ConnectionMoves ==
  ASSUME RpInv, NEW c \in Connections, NEW next \in Connection, UNCHANGED <<proc, path>>,
         conn' = [conn EXCEPT ![c] = next], refused' \in [Connections -> SUBSET Connections],
         next.at = "handling" /\ next.slot = "reserved" => next.method = "approval.decide"
  PROVE  RpInv'
<1>1. /\ conn' \in [Connections -> Connection] /\ conn'[c] = next
      /\ \A o \in Connections \ {c} : conn'[o] = conn[o]
  BY DEF RpInv, RpTypeOK
<1>2. QED BY <1>1 DEF RpInv, RpTypeOK, SocketIsThere, OneStarts, KeptDecides

LEMMA ConnectionIsServed ==
  ASSUME RpInv, NEW c \in Connections,
         Rp!Read(c) \/ Rp!ReadFails(c) \/ Rp!Handle(c) \/ Rp!Reply(c) \/ Rp!EndServe(c)
  PROVE  RpInv'
<1>1. /\ UNCHANGED <<proc, path>> /\ conn[c] \in Connection
      /\ refused' \in [Connections -> SUBSET Connections]
  BY DEF RpInv, RpTypeOK, Rp!Read, Rp!ReadFails, Rp!Handle, Rp!Reply, Rp!EndServe
<1>2. CASE Rp!Read(c)
  <2>1. PICK where \in {"handling", "replying"} :
          /\ conn' = [conn EXCEPT ![c] = [conn[c] EXCEPT !.at = where]]
          /\ where = "handling" => Rp!MayServe(c)
    BY <1>2 DEF Rp!Read
  <2>2. /\ [conn[c] EXCEPT !.at = where] \in Connection
        /\ [conn[c] EXCEPT !.at = where].at = where
        /\ [conn[c] EXCEPT !.at = where].slot = conn[c].slot
        /\ [conn[c] EXCEPT !.at = where].method = conn[c].method
    BY <1>1 DEF Connection
  <2>3. QED BY <1>1, <2>1, <2>2, ConnectionMoves DEF Rp!MayServe
<1>3. CASE Rp!ReadFails(c) \/ Rp!Handle(c) \/ Rp!Reply(c)
  <2>1. PICK where \in {"replying", "ending"} : conn' = [conn EXCEPT ![c] = [conn[c] EXCEPT !.at = where]]
    BY <1>3 DEF Rp!ReadFails, Rp!Handle, Rp!Reply
  <2>2. [conn[c] EXCEPT !.at = where] \in Connection /\ [conn[c] EXCEPT !.at = where].at = where
    BY <1>1 DEF Connection
  <2>3. QED BY <1>1, <2>1, <2>2, ConnectionMoves
<1>4. CASE Rp!EndServe(c)
  <2>1. Rp!NoConn \in Connection /\ Rp!NoConn.at = "none"
    BY DEF Rp!NoConn, Connection
  <2>2. QED BY <1>1, <1>4, <2>1, ConnectionMoves DEF Rp!EndServe
<1>5. QED BY <1>2, <1>3, <1>4

LEMMA ConnectionIsAccepted ==
  ASSUME RpInv, NEW p \in Processes, NEW c \in Connections, Rp!Accept(p, c)
  PROVE  RpInv'
<1>1. PICK method \in Rp!Methods, slot \in {"general", "reserved", "none"} :
        /\ conn' = [conn EXCEPT ![c] = [at |-> IF slot = "none" THEN "busy" ELSE "reading",
                                        to |-> p, slot |-> slot, method |-> method]]
        /\ refused' = [refused EXCEPT ![c] = IF slot = "none" THEN Rp!Holders(p, "reserved") ELSE {}]
  <2>. DEFINE Slot == IF Rp!Cardinality(Rp!Holders(p, "general")) < Workers THEN "general"
                      ELSE IF Rp!Holders(p, "reserved") = {} THEN "reserved" ELSE "none"
  <2>1. Slot \in {"general", "reserved", "none"}
    OBVIOUS
  <2>2. \E method \in Rp!Methods :
          /\ conn' = [conn EXCEPT ![c] = [at |-> IF Slot = "none" THEN "busy" ELSE "reading",
                                          to |-> p, slot |-> Slot, method |-> method]]
          /\ refused' = [refused EXCEPT ![c] = IF Slot = "none" THEN Rp!Holders(p, "reserved") ELSE {}]
    BY DEF Rp!Accept
  <2>. HIDE DEF Slot
  <2>3. QED BY <2>1, <2>2
<1>2. PICK next : next = [at |-> IF slot = "none" THEN "busy" ELSE "reading",
                          to |-> p, slot |-> slot, method |-> method]
  OBVIOUS
<1>3. next \in Connection /\ next.at # "handling"
  BY <1>2 DEF Connection
<1>4. refused' \in [Connections -> SUBSET Connections]
  <2>1. Rp!Holders(p, "reserved") \subseteq Connections
    BY DEF Rp!Holders, Rp!Mine
  <2>2. QED BY <1>1, <2>1 DEF RpInv, RpTypeOK
<1>5. UNCHANGED <<proc, path>>
  BY DEF Rp!Accept
<1>6. QED BY <1>1, <1>2, <1>3, <1>4, <1>5, ConnectionMoves

LEMMA StepRpc ==
  ASSUME RpConstants, RpInv, [Rp!Next]_Rp!rpcVars
  PROVE  RpInv'
<1>1. CASE UNCHANGED Rp!rpcVars
  BY <1>1 DEF Rp!rpcVars, RpInv, RpTypeOK, SocketIsThere, OneStarts, KeptDecides
<1>2. QED BY <1>1, ProcessActs, ProcessEnds, ConnectionIsServed, ConnectionIsAccepted DEF Rp!Next

(* RpInv is inductive.                                                     *)
THEOREM RpcInvariant == Rp!Spec => []RpInv
<1>1. Rp!Init => RpInv
  BY ServerAssumption, InitRpc DEF RpConstants
<1>2. RpInv /\ [Rp!Next]_Rp!rpcVars => RpInv'
  BY ServerAssumption, StepRpc DEF RpConstants
<1>3. QED BY <1>1, <1>2, PTL DEF Rp!Spec

LEMMA ReachFollows ==
  RpInv => Rp!ServerIsReachable
BY DEF RpInv, SocketIsThere, Rp!ServerIsReachable, Rp!Listening

(* However many processes are started, stopped, killed or replaced: the    *)
(* path leads to the server that accepts.                                  *)
THEOREM TheServerIsReached == Rp!Spec => []Rp!ServerIsReachable
<1>1. RpInv => Rp!ServerIsReachable
  BY ReachFollows
<1>2. QED BY <1>1, RpcInvariant, PTL

LEMMA WorkerFollows ==
  RpInv => Rp!DecisionsHaveAWorker
BY DEF RpInv, RpTypeOK, KeptDecides, Rp!DecisionsHaveAWorker

(* A decision is not turned away while the kept worker handles a read.     *)
THEOREM TheKeptWorkerIsKept == Rp!Spec => []Rp!DecisionsHaveAWorker
<1>1. RpInv => Rp!DecisionsHaveAWorker
  BY WorkerFollows
<1>2. QED BY <1>1, RpcInvariant, PTL

----------------------------------------------------------------------------
(* HostControl.                                                            *)

HoWhere == {"none", "gate", "before", "command", "after", "over"}
HoTypeOK ==
  /\ provider \in {"systemd", "mos"} /\ allowed \subseteq Ho!Verbs /\ service \in Ho!States
  /\ action \in [verb : Ho!Verbs \cup {"none"}, at : HoWhere, before : Ho!States \cup {Ho!Unread},
                 ran : BOOLEAN, moved : BOOLEAN]
  /\ result \in [ok : BOOLEAN, effect : {"none", "applied", "not_applied", "unknown"},
                 verb : Ho!Verbs \cup {"none"}]
  /\ told.read \in {told.true, Ho!Unread}

(* How far the action in hand has got, and what it saw before: as long as  *)
(* nobody else was at the service, the service moved if and only if it is  *)
(* another than it was.                                                    *)
ActionFits ==
  /\ action.at # "none" <=> action.verb # "none"
  /\ action.at = "none" => action = Ho!NoAction
  /\ action.at \in {"gate", "before", "command"} => ~action.moved
  /\ action.at \in {"command", "after"} => action.before \in Ho!States
  /\ action.at \in {"command", "after"} /\ disturbed = FALSE => (action.moved <=> service # action.before)
OverIsHonest == action.at = "over" /\ disturbed = FALSE =>
  /\ result.effect = "not_applied" => ~action.moved
  /\ result.effect = "applied" /\ action.verb # "restart" => action.moved
  /\ result.ok => service = Ho!Goal(action.verb)

HoInv == HoTypeOK /\ disturbed \in BOOLEAN /\ ActionFits /\ OverIsHonest

LEMMA InitHost ==
  ASSUME Ho!Init
  PROVE  HoInv
<1>1. disturbed \in BOOLEAN
  BY Zenon DEF Ho!Init
<1>2. QED
  BY <1>1 DEF Ho!Init, Ho!NoAction, Ho!NoResult, Ho!Unread, Ho!Honest, Ho!Verbs, Ho!States, HoInv, HoTypeOK, HoWhere,
     ActionFits, OverIsHonest

(* A reading is the service's state or none, whatever the signals.         *)
LEMMA ReadingsAreTrue ==
  ASSUME HoInv, NEW reading \in Ho!Readings
  PROVE  /\ reading.state \in {service, Ho!Unread}
         /\ reading.told.read \in {reading.told.true, Ho!Unread}
<1>1. told.read \in {told.true, Ho!Unread} /\ service \in Ho!States
  BY DEF HoInv, HoTypeOK
<1>2. CASE reading = [state |-> service, faults |-> faults, told |-> told]
  BY <1>1, <1>2
<1>3. CASE reading = Ho!Misread(Ho!Unread, told)
  BY <1>1, <1>3 DEF Ho!Misread
<1>4. CASE \E signals \in Ho!Signals(service) :
             reading = Ho!Misread(Ho!Understood(signals),
                         [text |-> signals.text, code |-> signals.code, true |-> service,
                          read |-> Ho!Understood(signals)])
  <2>1. PICK signals \in Ho!Signals(service) :
               reading = Ho!Misread(Ho!Understood(signals),
                         [text |-> signals.text, code |-> signals.code, true |-> service,
                          read |-> Ho!Understood(signals)])
    BY <1>4
  <2>2. Ho!Understood(signals) \in {service, Ho!Unread}
    BY <1>1 DEF Ho!Understood, Ho!MosState, Ho!Signals, Ho!States, Ho!Unread
  <2>3. QED BY <2>1, <2>2 DEF Ho!Misread
<1>5. QED BY <1>2, <1>3, <1>4 DEF Ho!Readings

LEMMA ActionEnds ==
  ASSUME HoInv, NEW ok \in BOOLEAN, NEW what \in {"none", "applied", "not_applied", "unknown"},
         action.at # "none", UNCHANGED <<provider, allowed, service, disturbed>>,
         told'.read \in {told'.true, Ho!Unread},
         result' = [ok |-> ok, effect |-> what, verb |-> action.verb],
         action' = [action EXCEPT !.at = "over"],
         disturbed = FALSE => /\ what = "not_applied" => ~action.moved
                              /\ what = "applied" /\ action.verb # "restart" => action.moved
                              /\ ok => service = Ho!Goal(action.verb)
  PROVE  HoInv'
<1>1. /\ action'.at = "over" /\ action'.verb = action.verb /\ action'.moved = action.moved
      /\ action' \in [verb : Ho!Verbs \cup {"none"}, at : HoWhere, before : Ho!States \cup {Ho!Unread},
                      ran : BOOLEAN, moved : BOOLEAN]
      /\ action.verb \in Ho!Verbs \cup {"none"}
  BY DEF HoInv, HoTypeOK, HoWhere
<1>2. /\ result' \in [ok : BOOLEAN, effect : {"none", "applied", "not_applied", "unknown"},
                      verb : Ho!Verbs \cup {"none"}]
      /\ result'.effect = what /\ result'.ok = ok
  BY <1>1
<1>3. HoTypeOK' /\ disturbed' \in BOOLEAN
  BY <1>1, <1>2 DEF HoInv, HoTypeOK
<1>4. ActionFits'
  BY <1>1 DEF HoInv, ActionFits
<1>5. OverIsHonest'
  BY <1>1, <1>2 DEF OverIsHonest
<1>6. QED BY <1>3, <1>4, <1>5 DEF HoInv

(* An action goes from one place to the next.                              *)
LEMMA ActionGoesOn ==
  ASSUME HoInv, NEW where \in {"before", "command"}, action.at \in {"gate", "before"},
         NEW seen \in Ho!States \cup {Ho!Unread},
         where = "command" => seen = service,
         UNCHANGED <<provider, allowed, service, disturbed, result>>,
         told'.read \in {told'.true, Ho!Unread},
         action' = [action EXCEPT !.at = where, !.before = seen]
  PROVE  HoInv'
<1>1. /\ action'.at = where /\ action'.verb = action.verb /\ action'.moved = action.moved
      /\ action'.before = seen
      /\ action' \in [verb : Ho!Verbs \cup {"none"}, at : HoWhere, before : Ho!States \cup {Ho!Unread},
                      ran : BOOLEAN, moved : BOOLEAN]
  BY DEF HoInv, HoTypeOK, HoWhere
<1>2. HoTypeOK' /\ disturbed' \in BOOLEAN
  BY <1>1 DEF HoInv, HoTypeOK
<1>3. ActionFits'
  BY <1>1 DEF HoInv, HoTypeOK, ActionFits
<1>4. OverIsHonest'
  BY <1>1 DEF OverIsHonest
<1>5. QED BY <1>2, <1>3, <1>4 DEF HoInv

LEMMA StepHost ==
  ASSUME HoInv, [Ho!Next]_Ho!hostVars
  PROVE  HoInv'
<1>1. ASSUME NEW verb \in Ho!Verbs, Ho!Begin(verb) PROVE HoInv'
  BY <1>1 DEF Ho!Begin, Ho!NoAction, Ho!NoResult, Ho!Unread, Ho!Verbs, HoInv, HoTypeOK, HoWhere,
     ActionFits, OverIsHonest
<1>2. CASE Ho!Gate
  <2>1. /\ action.at = "gate" /\ UNCHANGED <<provider, allowed, service, told, disturbed>>
        /\ ~action.moved /\ told.read \in {told.true, Ho!Unread}
        /\ action.before \in Ho!States \cup {Ho!Unread}
    BY <1>2 DEF Ho!Gate, HoInv, HoTypeOK, ActionFits
  <2>2. CASE action.verb \in allowed
    <3>1. action' = [action EXCEPT !.at = "before"] /\ UNCHANGED result
      BY <1>2, <2>2 DEF Ho!Gate
    <3>2. action' = [action EXCEPT !.at = "before", !.before = action.before]
      BY <3>1 DEF HoInv, HoTypeOK
    <3>3. QED BY <2>1, <3>1, <3>2, ActionGoesOn
  <2>3. CASE action.verb \notin allowed
    <3>1. /\ result' = [ok |-> FALSE, effect |-> "not_applied", verb |-> action.verb]
          /\ action' = [action EXCEPT !.at = "over"]
      BY <1>2, <2>3 DEF Ho!Gate, Ho!Ends
    <3>2. QED BY <2>1, <3>1, ActionEnds
  <2>4. QED BY <2>2, <2>3
<1>3. CASE Ho!Before
  <2>1. PICK reading \in Ho!Readings : Ho!Reading(reading) /\ Ho!SeenBefore(reading.state)
    BY <1>3 DEF Ho!Before
  <2>2. /\ told'.read \in {told'.true, Ho!Unread} /\ reading.state \in {service, Ho!Unread}
    BY <2>1, ReadingsAreTrue DEF Ho!Reading
  <2>3. action.at = "before" /\ UNCHANGED <<provider, allowed, service, disturbed>>
    BY <1>3 DEF Ho!Before
  <2>4. ~action.moved /\ service \in Ho!States
    BY <2>3 DEF HoInv, HoTypeOK, ActionFits
  <2>5. CASE reading.state = Ho!Unread
    <3>1. /\ result' = [ok |-> FALSE, effect |-> "not_applied", verb |-> action.verb]
          /\ action' = [action EXCEPT !.at = "over"]
      BY <2>1, <2>5 DEF Ho!SeenBefore, Ho!Ends
    <3>2. QED BY <2>2, <2>3, <2>4, <3>1, ActionEnds
  <2>6. CASE reading.state # Ho!Unread
    <3>1. action' = [action EXCEPT !.at = "command", !.before = service] /\ UNCHANGED result
      BY <2>1, <2>2, <2>6 DEF Ho!SeenBefore
    <3>2. QED BY <2>2, <2>3, <2>4, <3>1, ActionGoesOn
  <2>7. QED BY <2>5, <2>6
<1>4. CASE Ho!Command
  <2>1. /\ action.at = "command" /\ UNCHANGED <<provider, allowed, told, disturbed>>
        /\ Ho!Goal(action.verb) \in Ho!States
    BY <1>4 DEF Ho!Command, Ho!Goal, Ho!States
  <2>2. PICK moved \in BOOLEAN, where \in {"after", "over"} :
          /\ action' = [action EXCEPT !.at = where, !.ran = TRUE, !.moved = moved]
          /\ service' \in Ho!States /\ (moved <=> service # service')
          /\ IF where = "after" THEN UNCHANGED result
             ELSE result' = [ok |-> FALSE, effect |-> "unknown", verb |-> action.verb]
    <3>1. CASE /\ service' = Ho!Goal(action.verb)
               /\ action' = [action EXCEPT !.at = "after", !.ran = TRUE, !.moved = service # service']
               /\ UNCHANGED <<result, faults>>
      <4>1. (service # service') \in BOOLEAN
        OBVIOUS
      <4>2. QED BY <2>1, <3>1, <4>1
    <3>2. CASE /\ service' \in {service, Ho!Goal(action.verb)}
               /\ result' = [ok |-> FALSE, effect |-> "unknown", verb |-> action.verb]
               /\ action' = [action EXCEPT !.at = "over", !.ran = TRUE, !.moved = service # service']
      <4>1. (service # service') \in BOOLEAN /\ service' \in Ho!States
        BY <2>1, <3>2 DEF HoInv, HoTypeOK
      <4>2. QED BY <2>1, <3>2, <4>1
    <3>3. CASE /\ service' = service /\ UNCHANGED result
               /\ action' = [action EXCEPT !.at = "after", !.ran = TRUE]
      <4>1. action.moved = FALSE
        BY <2>1 DEF HoInv, HoTypeOK, ActionFits
      <4>2. action' = [action EXCEPT !.at = "after", !.ran = TRUE, !.moved = FALSE]
        BY <3>3, <4>1 DEF HoInv, HoTypeOK
      <4>3. service' \in Ho!States
        BY <3>3 DEF HoInv, HoTypeOK
      <4>4. QED BY <3>3, <4>2, <4>3
    <3>4. QED BY <1>4, <3>1, <3>2, <3>3 DEF Ho!Command
  <2>3. /\ action'.at = where /\ action'.moved = moved /\ action'.before = action.before
        /\ action'.verb = action.verb
        /\ action' \in [verb : Ho!Verbs \cup {"none"}, at : HoWhere, before : Ho!States \cup {Ho!Unread},
                        ran : BOOLEAN, moved : BOOLEAN]
    BY <2>2 DEF HoInv, HoTypeOK, HoWhere
  <2>4. result' \in [ok : BOOLEAN, effect : {"none", "applied", "not_applied", "unknown"},
                     verb : Ho!Verbs \cup {"none"}]
    <3>1. action.verb \in Ho!Verbs \cup {"none"}
      BY DEF HoInv, HoTypeOK
    <3>2. CASE where = "after"
      BY <2>2, <3>2 DEF HoInv, HoTypeOK
    <3>3. CASE where = "over"
      <4>1. result' = [ok |-> FALSE, effect |-> "unknown", verb |-> action.verb]
        BY <2>2, <3>3
      <4>2. QED BY <3>1, <4>1
    <3>4. QED BY <3>2, <3>3
  <2>5. HoTypeOK' /\ disturbed' \in BOOLEAN
    BY <2>1, <2>2, <2>3, <2>4 DEF HoInv, HoTypeOK
  <2>6. ActionFits'
    BY <2>1, <2>2, <2>3 DEF HoInv, HoTypeOK, ActionFits, Ho!States
  <2>7. OverIsHonest'
    BY <2>1, <2>2, <2>3 DEF OverIsHonest
  <2>8. QED BY <2>5, <2>6, <2>7 DEF HoInv
<1>5. CASE Ho!After
  <2>1. PICK reading \in Ho!Readings : Ho!Reading(reading) /\ Ho!SeenAfter(reading.state)
    BY <1>5 DEF Ho!After
  <2>2. /\ told'.read \in {told'.true, Ho!Unread} /\ reading.state \in {service, Ho!Unread}
    BY <2>1, ReadingsAreTrue DEF Ho!Reading
  <2>3. action.at = "after" /\ UNCHANGED <<provider, allowed, service, disturbed>>
    BY <1>5 DEF Ho!After
  <2>4. disturbed = FALSE => (action.moved <=> service # action.before)
    BY <2>3 DEF HoInv, ActionFits
  <2>5. CASE reading.state = Ho!Unread
    <3>1. /\ result' = [ok |-> FALSE, effect |-> "unknown", verb |-> action.verb]
          /\ action' = [action EXCEPT !.at = "over"]
      BY <2>1, <2>5 DEF Ho!SeenAfter, Ho!Ends
    <3>2. QED BY <2>2, <2>3, <3>1, ActionEnds
  <2>6. CASE reading.state # Ho!Unread
    <3>1. PICK ok \in BOOLEAN, what \in {"applied", "not_applied"} :
             ok = (service = Ho!Goal(action.verb)) /\ what = Ho!Effect(service)
      BY DEF Ho!Effect
    <3>2. /\ result' = [ok |-> ok, effect |-> what, verb |-> action.verb]
          /\ action' = [action EXCEPT !.at = "over"]
      BY <2>1, <2>2, <2>6, <3>1 DEF Ho!SeenAfter, Ho!Ends
    <3>3. disturbed = FALSE => /\ what = "not_applied" => ~action.moved
                               /\ what = "applied" /\ action.verb # "restart" => action.moved
                               /\ ok => service = Ho!Goal(action.verb)
      BY <2>4, <3>1 DEF Ho!Effect
    <3>4. QED BY <2>2, <2>3, <3>2, <3>3, ActionEnds
  <2>7. QED BY <2>5, <2>6
<1>6. CASE Ho!Return
  BY <1>6 DEF Ho!Return, Ho!NoAction, Ho!NoResult, Ho!Unread, HoInv, HoTypeOK, HoWhere, ActionFits, OverIsHonest
<1>7. CASE Ho!SomebodyElse
  <2>1. disturbed' \in BOOLEAN /\ (disturbed' = FALSE => action = Ho!NoAction)
    BY <1>7 DEF Ho!SomebodyElse
  <2>2. UNCHANGED <<provider, allowed, action, result, told>> /\ service' \in Ho!States
    BY <1>7 DEF Ho!SomebodyElse
  <2>3. QED BY <2>1, <2>2 DEF HoInv, HoTypeOK, HoWhere, ActionFits, OverIsHonest, Ho!NoAction
<1>8. CASE UNCHANGED Ho!hostVars
  BY <1>8 DEF Ho!hostVars, HoInv, HoTypeOK, ActionFits, OverIsHonest
<1>9. QED BY <1>1, <1>2, <1>3, <1>4, <1>5, <1>6, <1>7, <1>8 DEF Ho!Next

(* HoInv is inductive.                                                     *)
THEOREM HostInvariant == Ho!Spec => []HoInv
<1>1. Ho!Init => HoInv
  BY InitHost
<1>2. HoInv /\ [Ho!Next]_Ho!hostVars => HoInv'
  BY StepHost
<1>3. QED BY <1>1, <1>2, PTL DEF Ho!Spec

LEMMA HonestyFollows ==
  HoInv => Ho!OutcomeIsHonest
BY DEF HoInv, HoTypeOK, OverIsHonest, Ho!OutcomeIsHonest

(* Neither provider takes a service for what it is not, whichever of its   *)
(* two signals is wrong, and what an action says of its effect is true if  *)
(* nobody else was at the service meanwhile.                               *)
THEOREM HostActionsAreHonest == Ho!Spec => []Ho!OutcomeIsHonest
<1>1. HoInv => Ho!OutcomeIsHonest
  BY HonestyFollows
<1>2. QED BY <1>1, HostInvariant, PTL

----------------------------------------------------------------------------
(* Monitor.                                                                *)

Alerts == {"none", "LOW", "MEDIUM", "HIGH", "CRITICAL"}
Entries == [status : {"none", "complete", "incomplete", "unknown"}, missing : SUBSET Members, alert : Alerts]
Findings == [about : {"stack", "disk", "casa_hermes"}, severity : Alerts]
MoTypeOK ==
  /\ disk \in BOOLEAN /\ cut \in BOOLEAN /\ snap \in Entries /\ saved \subseteq Findings
  /\ scan \in [at : {"idle", "measuring", "measured", "published", "analyzed", "saved"},
               mode : Mo!Modes, quiet : BOOLEAN, entry : Entries, disk : BOOLEAN,
               before : SUBSET Findings, findings : SUBSET Findings]

(* Whatever fails in the published snapshot was urgent once and has failed *)
(* since; what has been measured and is called old news is among it.       *)
StillUrgent == snap.missing \subseteq urgent
MeasuredFits == scan.at = "measured" =>
  /\ scan.mode # "full" => scan.entry = Mo!NoEntry
  /\ scan.entry.alert = "LOW" => scan.entry.missing \subseteq snap.missing
  /\ scan.entry.alert \in {"none", "MEDIUM"} => scan.entry.missing = {}
  /\ scan.entry.status = "unknown" => scan.entry.alert = "MEDIUM"

(* What is on file has been told; from saving to reporting it is what the  *)
(* report will tell, or what was on file before and had been told.         *)
FiledIsTold == scan.at # "saved" /\ ~cut => saved \subseteq told
ReportFits ==
  /\ scan.at \in {"analyzed", "saved"} /\ ~scan.quiet => scan.before = {}
  /\ scan.at = "analyzed" => scan.before \subseteq saved
  /\ scan.at = "saved" => /\ saved = scan.findings
                          /\ ~cut => scan.findings \cap scan.before \subseteq told

MoInv == MoTypeOK /\ StillUrgent /\ MeasuredFits /\ FiledIsTold /\ ReportFits

LEMMA InitMonitor ==
  ASSUME Mo!Init
  PROVE  MoInv
BY DEF Mo!Init, Mo!Idle, Mo!NoEntry, Mo!Modes, MoInv, MoTypeOK, Entries, Findings, Alerts, StillUrgent, MeasuredFits,
       FiledIsTold, ReportFits

(* A stack is old news only if all that fails in it failed before.         *)
LEMMA EntryFits ==
  ASSUME MoInv
  PROVE  /\ Mo!Entry \in Entries /\ Mo!Unreadable \in Entries /\ Mo!NoEntry \in Entries
         /\ Mo!Entry.alert = "LOW" => Mo!Entry.missing \subseteq snap.missing
         /\ Mo!Entry.alert \in {"none", "MEDIUM"} => Mo!Entry.missing = {}
         /\ Mo!Entry.status # "unknown"
<1>. DEFINE missing == {s \in Members : Mo!Failing(s)}
<1>1. /\ Mo!Entry = [status |-> IF missing = {} THEN "complete" ELSE "incomplete",
                     missing |-> missing, alert |-> Mo!Alert(missing)]
      /\ missing \subseteq Members
  BY DEF Mo!Entry
<1>. HIDE DEF missing
<1>2. /\ Mo!Alert(missing) \in Alerts /\ Mo!Alert(missing) # "MEDIUM"
      /\ Mo!Alert(missing) = "none" => missing = {}
      /\ Mo!Alert(missing) = "LOW" => missing \subseteq snap.missing
  BY DEF Mo!Alert, Mo!Known, Alerts
<1>3. Mo!Entry \in Entries
  BY <1>1, <1>2 DEF Entries
<1>4. Mo!Unreadable \in Entries /\ Mo!NoEntry \in Entries
  BY DEF Mo!Unreadable, Mo!NoEntry, Entries, Alerts
<1>5. QED BY <1>1, <1>2, <1>3, <1>4

LEMMA StepMonitor ==
  ASSUME MoInv, [Mo!Next]_Mo!monitorVars
  PROVE  MoInv'
<1>. USE DEF Mo!History
<1>1. CASE Mo!HostChanges
  <2>1. disk' \in BOOLEAN /\ UNCHANGED <<snap, saved, scan, told, urgent, cut>>
    BY <1>1 DEF Mo!HostChanges, MoInv, MoTypeOK
  <2>2. QED BY <2>1 DEF MoInv, MoTypeOK, StillUrgent, MeasuredFits, FiledIsTold, ReportFits
<1>2. CASE \E mode \in Mo!Modes, quiet \in BOOLEAN : Mo!Begin(mode, quiet)
  <2>1. PICK mode \in Mo!Modes, quiet \in BOOLEAN :
          scan' = [at |-> "measuring", mode |-> mode, quiet |-> quiet, entry |-> Mo!NoEntry, disk |-> FALSE,
                   before |-> {}, findings |-> {}]
    BY <1>2 DEF Mo!Begin, Mo!Idle
  <2>2. /\ scan'.at = "measuring" /\ scan.at = "idle" /\ UNCHANGED <<disk, snap, saved, told, urgent, cut>>
        /\ scan' \in [at : {"idle", "measuring", "measured", "published", "analyzed", "saved"},
                      mode : Mo!Modes, quiet : BOOLEAN, entry : Entries, disk : BOOLEAN,
                      before : SUBSET Findings, findings : SUBSET Findings]
    BY <1>2, <2>1, EntryFits DEF Mo!Begin
  <2>3. QED BY <2>2 DEF MoInv, MoTypeOK, StillUrgent, MeasuredFits, FiledIsTold, ReportFits
<1>3. CASE Mo!Measure
  <2>1. PICK entry \in Entries :
          /\ scan' = [scan EXCEPT !.at = "measured", !.disk = disk, !.entry = entry]
          /\ scan.mode # "full" => entry = Mo!NoEntry
          /\ entry.alert = "LOW" => entry.missing \subseteq snap.missing
          /\ entry.alert \in {"none", "MEDIUM"} => entry.missing = {}
          /\ entry.status = "unknown" => entry.alert = "MEDIUM"
    <3>1. CASE scan' = [scan EXCEPT !.at = "measured", !.disk = disk,
                                    !.entry = IF scan.mode = "full" THEN Mo!Entry ELSE Mo!NoEntry]
      <4>1. CASE scan.mode = "full"
        BY <3>1, <4>1, EntryFits
      <4>2. CASE scan.mode # "full"
        <5>1. Mo!NoEntry.alert = "none" /\ Mo!NoEntry.missing = {} /\ Mo!NoEntry.status = "none"
          BY DEF Mo!NoEntry
        <5>2. QED BY <3>1, <4>2, <5>1, EntryFits
      <4>3. QED BY <4>1, <4>2
    <3>2. CASE scan.mode = "full" /\ scan' = [scan EXCEPT !.at = "measured", !.disk = disk, !.entry = Mo!Unreadable]
      <4>1. Mo!Unreadable.alert = "MEDIUM" /\ Mo!Unreadable.missing = {}
        BY DEF Mo!Unreadable
      <4>2. QED BY <3>2, <4>1, EntryFits
    <3>3. QED BY <1>3, <3>1, <3>2 DEF Mo!Measure
  <2>2. scan.at = "measuring" /\ UNCHANGED <<disk, snap, saved, told, urgent, cut>>
    BY <1>3 DEF Mo!Measure
  <2>3. QED BY <2>1, <2>2 DEF MoInv, MoTypeOK, StillUrgent, MeasuredFits, FiledIsTold, ReportFits
<1>4. CASE Mo!Publish
  <2>1. /\ scan.at = "measured" /\ snap' = scan.entry /\ snap' \in Entries
        /\ UNCHANGED <<disk, saved, told, cut>>
    BY <1>4 DEF Mo!Publish, MoInv, MoTypeOK
  <2>2. CASE scan.mode # "full"
    <3>1. scan' = Mo!Idle /\ snap'.missing = {}
      BY <1>4, <2>1, <2>2 DEF Mo!Publish, Mo!NoEntry, MoInv, MeasuredFits
    <3>2. QED
      BY <2>1, <3>1 DEF Mo!Idle, Mo!NoEntry, Mo!Modes, MoInv, MoTypeOK, Entries, Alerts, StillUrgent, MeasuredFits, FiledIsTold,
         ReportFits
  <2>3. CASE scan.mode = "full"
    <3>1. /\ scan' = [scan EXCEPT !.at = "published"]
          /\ urgent' = CASE scan.entry.alert \in {"CRITICAL", "HIGH"} -> scan.entry.missing
                         [] scan.entry.status = "unknown" -> {}
                         [] OTHER -> urgent \cap scan.entry.missing
      BY <1>4, <2>3 DEF Mo!Publish
    <3>2. StillUrgent'
      <4>1. CASE scan.entry.alert \in {"CRITICAL", "HIGH"}
        <5>1. scan.entry.status # "unknown"
          BY <2>1, <4>1 DEF MoInv, MeasuredFits
        <5>2. QED BY <2>1, <3>1, <4>1, <5>1 DEF StillUrgent
      <4>2. CASE scan.entry.alert \in {"none", "MEDIUM"}
        BY <2>1, <4>2 DEF MoInv, MeasuredFits, StillUrgent
      <4>3. CASE scan.entry.alert = "LOW"
        <5>1. scan.entry.status # "unknown" /\ scan.entry.missing \subseteq urgent
          BY <2>1, <4>3 DEF MoInv, MeasuredFits, StillUrgent
        <5>2. urgent' = urgent \cap scan.entry.missing
          BY <3>1, <4>3, <5>1
        <5>3. QED BY <2>1, <5>1, <5>2 DEF StillUrgent
      <4>4. QED BY <4>1, <4>2, <4>3 DEF MoInv, MoTypeOK, Entries, Alerts
    <3>3. QED BY <2>1, <3>1, <3>2 DEF MoInv, MoTypeOK, MeasuredFits, FiledIsTold, ReportFits
  <2>4. QED BY <2>2, <2>3
<1>5. CASE Mo!Analyze
  <2>1. /\ scan.at = "published" /\ UNCHANGED <<disk, snap, saved, told, urgent, cut>>
        /\ Mo!Slim \subseteq Findings /\ Mo!Unparsed \subseteq Findings
    BY <1>5 DEF Mo!Analyze, Mo!Slim, Mo!Unparsed, Findings, MoInv, MoTypeOK, Entries, Alerts
  <2>2. CASE scan' = Mo!Idle
    BY <2>1, <2>2 DEF Mo!Idle, Mo!NoEntry, Mo!Modes, MoInv, MoTypeOK, Entries, Alerts, StillUrgent, MeasuredFits, FiledIsTold,
       ReportFits
  <2>3. CASE \E findings \in {Mo!Slim, Mo!Unparsed} :
               scan' = [scan EXCEPT !.at = "analyzed", !.before = IF scan.quiet THEN saved ELSE {},
                                    !.findings = findings]
    <3>1. PICK findings \in SUBSET Findings, before \in SUBSET Findings :
            /\ scan' = [scan EXCEPT !.at = "analyzed", !.before = before, !.findings = findings]
            /\ before = IF scan.quiet THEN saved ELSE {}
      BY <2>1, <2>3 DEF MoInv, MoTypeOK
    <3>2. QED BY <2>1, <3>1 DEF MoInv, MoTypeOK, StillUrgent, MeasuredFits, FiledIsTold, ReportFits
  <2>4. QED BY <1>5, <2>2, <2>3 DEF Mo!Analyze
<1>6. CASE Mo!Save
  BY <1>6 DEF Mo!Save, MoInv, MoTypeOK, StillUrgent, MeasuredFits, FiledIsTold, ReportFits
<1>7. CASE Mo!Report
  <2>1. /\ scan.at = "saved" /\ scan' = Mo!Idle /\ UNCHANGED <<disk, snap, saved, urgent>>
        /\ told' = told \cup (scan.findings \ scan.before) /\ cut' = (cut /\ scan.quiet)
    BY <1>7 DEF Mo!Report, Mo!News
  <2>2. ~cut' => saved \subseteq told'
    BY <2>1 DEF MoInv, MoTypeOK, ReportFits
  <2>3. QED
    BY <2>1, <2>2 DEF Mo!Idle, Mo!NoEntry, Mo!Modes, MoInv, MoTypeOK, Entries, Alerts, StillUrgent, MeasuredFits, FiledIsTold,
       ReportFits
<1>8. CASE Mo!Dies
  <2>1. /\ scan.at # "idle" /\ scan' = Mo!Idle /\ UNCHANGED <<disk, saved, told, urgent>>
        /\ snap' \in {snap, Mo!NoEntry} /\ cut' = (cut \/ scan.at = "saved")
    BY <1>8 DEF Mo!Dies
  <2>2. cut' \in BOOLEAN /\ (~cut' => ~cut /\ scan.at # "saved")
    BY <2>1 DEF MoInv, MoTypeOK
  <2>3. UNCHANGED <<disk, saved, told, urgent>> /\ snap' \in Entries /\ snap'.missing \subseteq urgent
    BY <2>1, EntryFits DEF MoInv, MoTypeOK, StillUrgent, Mo!NoEntry
  <2>4. QED
    BY <2>1, <2>2, <2>3 DEF Mo!Idle, Mo!NoEntry, Mo!Modes, MoInv, MoTypeOK, Entries, Alerts, StillUrgent, MeasuredFits, FiledIsTold, ReportFits
<1>9. CASE UNCHANGED Mo!monitorVars
  BY <1>9 DEF Mo!monitorVars, MoInv, MoTypeOK, StillUrgent, MeasuredFits, FiledIsTold, ReportFits
<1>10. QED BY <1>1, <1>2, <1>3, <1>4, <1>5, <1>6, <1>7, <1>8, <1>9 DEF Mo!Next

(* MoInv is inductive.                                                     *)
THEOREM MonitorInvariant == Mo!Spec => []MoInv
<1>1. Mo!Init => MoInv
  BY InitMonitor
<1>2. MoInv /\ [Mo!Next]_Mo!monitorVars => MoInv'
  BY StepMonitor
<1>3. QED BY <1>1, <1>2, PTL DEF Mo!Spec

LEMMA NewsFollows ==
  MoInv => Mo!LowIsKnown
BY DEF MoInv, StillUrgent, Mo!LowIsKnown

(* A failure is called old news only while everything that fails was       *)
(* published as urgent once and has failed in every full snapshot since.   *)
THEOREM OldNewsIsOld == Mo!Spec => []Mo!LowIsKnown
<1>1. MoInv => Mo!LowIsKnown
  BY NewsFollows
<1>2. QED BY <1>1, MonitorInvariant, PTL

LEMMA TellingFollows ==
  MoInv => Mo!NothingSavedUntold
BY DEF MoInv, FiledIsTold, Mo!NothingSavedUntold

(* What is on file has been told to somebody, whatever order of scans,     *)
(* quiet or not, and of answers that cannot be parsed.                     *)
THEOREM FilingIsTelling == Mo!Spec => []Mo!NothingSavedUntold
<1>1. MoInv => Mo!NothingSavedUntold
  BY TellingFollows
<1>2. QED BY <1>1, MonitorInvariant, PTL

----------------------------------------------------------------------------
(* Incidents.                                                              *)

Observations == {o \in [condition : {"healthy", "unknown", "failing"},
                        severity : {"none", "MEDIUM", "HIGH", "CRITICAL"}] :
                   /\ o.condition = "healthy" => o.severity = "none"
                   /\ o.condition = "failing" => o.severity # "none"}
Sightings == {<<>>} \cup {<<o>> : o \in Observations}
InTypeOK ==
  /\ kind \in In!Kinds /\ scans \in Nat /\ pending.scan \in Nat
  /\ history \in Seq([scan : Nat, seen : Sightings])
  /\ incident \in [status : {"none", "open", "resolved"}, seen : Observations, scan : Nat, first : Nat,
                   occurrences : Nat]

(* The conjuncts of RowTellsHistory by name: the scans that reported the   *)
(* subject bad, and those that count.                                      *)
AlertsTo(n) == {i \in 1..n : In!Alerting(i)}
Counts(i) == In!Alerting(i) \/ (In!Said(i, {"unknown"}) /\ In!OpenAfter(i - 1))
CountedTo(n) == {i \in 1..n : Counts(i)}
StatusTells == incident.status = IF AlertsTo(Len(history)) = {} THEN "none"
                                 ELSE IF In!OpenAfter(Len(history)) THEN "open" ELSE "resolved"
CountTells == incident.occurrences = Cardinality(CountedTo(Len(history)))
FirstTells == \A i \in AlertsTo(Len(history)) :
  (\A j \in AlertsTo(Len(history)) : i <= j) => incident.first = history[i].scan

InInv == InTypeOK /\ StatusTells /\ CountTells /\ FirstTells

(* Whatever the kind of subject: an observation is of one of three         *)
(* conditions, and one that fails has a severity.                          *)
LEMMA KindsObserve ==
  ASSUME NEW k \in In!Kinds, NEW fact \in DOMAIN k
  PROVE  k[fact] \in Observations
<1>. USE DEF In!Failing, In!Unknown, In!Healthy, Observations
<1>1. CASE k = In!ContainerHealth
  BY <1>1 DEF In!ContainerHealth
<1>2. CASE k = In!StackCompleteness
  BY <1>2 DEF In!StackCompleteness
<1>3. CASE k = In!DiskUsage
  BY <1>3 DEF In!DiskUsage
<1>4. CASE k = In!ConfiguredMounts
  BY <1>4 DEF In!ConfiguredMounts
<1>5. CASE k = In!UnraidExports
  BY <1>5 DEF In!UnraidExports
<1>6. CASE k = In!NfsDiscovery
  BY <1>6 DEF In!NfsDiscovery
<1>7. CASE k = In!NfsMount
  BY <1>7 DEF In!NfsMount
<1>8. CASE k = In!VpnPortForwarding
  BY <1>8 DEF In!VpnPortForwarding
<1>9. CASE k = In!BackupJob
  BY <1>9 DEF In!BackupJob
<1>10. CASE k = In!SystemdService
  BY <1>10 DEF In!SystemdService
<1>11. CASE k = In!TlsCertificate
  BY <1>11 DEF In!TlsCertificate
<1>12. QED BY <1>1, <1>2, <1>3, <1>4, <1>5, <1>6, <1>7, <1>8, <1>9, <1>10, <1>11 DEF In!Kinds

LEMMA InitIncidents ==
  ASSUME In!Init
  PROVE  InInv
<1>1. history = <<>> /\ Len(history) = 0 /\ incident = In!NoRow
  BY DEF In!Init
<1>2. InTypeOK
  BY <1>1 DEF In!Init, In!None, In!NoRow, In!Healthy, InTypeOK, Observations
<1>3. AlertsTo(0) = {} /\ CountedTo(0) = {}
  BY DEF AlertsTo, CountedTo
<1>4. QED BY <1>1, <1>2, <1>3, FS_EmptySet DEF InInv, StatusTells, CountTells, FirstTells, In!NoRow

(* One more scan is reconciled: what was said before stays said, and the   *)
(* subject is in trouble after it if it is reported bad, or was in trouble *)
(* and is not seen healthy.                                                *)
LEMMA OneMore ==
  ASSUME InInv, NEW entry \in [scan : Nat, seen : Sightings], history' = Append(history, entry),
         NEW n, n = Len(history)
  PROVE  /\ Len(history') = n + 1 /\ n \in Nat /\ history' \in Seq([scan : Nat, seen : Sightings])
         /\ history'[n + 1] = entry /\ \A i \in 1..n : history'[i] = history[i]
         /\ \A i \in 1..n : (In!Alerting(i)' <=> In!Alerting(i))
         /\ (In!OpenAfter(n)' <=> In!OpenAfter(n))
         /\ (In!OpenAfter(n + 1)' <=> In!Alerting(n + 1)' \/ (In!OpenAfter(n) /\ ~In!Said(n + 1, {"healthy"})'))
         /\ CountedTo(n)' = CountedTo(n)
<1>1. /\ Len(history') = n + 1 /\ n \in Nat /\ history' \in Seq([scan : Nat, seen : Sightings])
      /\ history'[n + 1] = entry /\ \A i \in 1..n : history'[i] = history[i]
  BY DEF InInv, InTypeOK
<1>2. \A i \in 1..n : \A c : (In!Said(i, c)' <=> In!Said(i, c))
  BY <1>1 DEF In!Said
<1>3. \A i \in 1..n : (In!Alerting(i)' <=> In!Alerting(i))
  BY <1>1, <1>2 DEF In!Alerting
<1>4. \A i \in 0..n : (In!OpenAfter(i)' <=> In!OpenAfter(i))
  <2>. SUFFICES ASSUME NEW i \in 0..n PROVE (In!OpenAfter(i)' <=> In!OpenAfter(i))
    OBVIOUS
  <2>1. \A j \in 1..i : j \in 1..n /\ \A k \in (j + 1)..i : k \in 1..n
    BY <1>1
  <2>2. \A j \in 1..i : /\ (In!Alerting(j)' <=> In!Alerting(j))
                        /\ \A k \in (j + 1)..i : (In!Said(k, {"healthy"})' <=> In!Said(k, {"healthy"}))
    BY <1>2, <1>3, <2>1
  <2>3. QED BY <2>2 DEF In!OpenAfter
<1>5. (In!OpenAfter(n + 1)' <=> In!Alerting(n + 1)' \/ (In!OpenAfter(n) /\ ~In!Said(n + 1, {"healthy"})'))
  <2>1. ASSUME In!OpenAfter(n + 1)', ~In!Alerting(n + 1)'
        PROVE  In!OpenAfter(n) /\ ~In!Said(n + 1, {"healthy"})'
    <3>1. PICK j \in 1..(n + 1) : In!Alerting(j)' /\ \A k \in (j + 1)..(n + 1) : ~In!Said(k, {"healthy"})'
      BY <2>1 DEF In!OpenAfter
    <3>2. j \in 1..n /\ n + 1 \in (j + 1)..(n + 1)
      BY <1>1, <2>1, <3>1
    <3>3. In!Alerting(j) /\ \A k \in (j + 1)..n : ~In!Said(k, {"healthy"})
      BY <1>1, <1>2, <1>3, <3>1, <3>2
    <3>4. QED BY <3>1, <3>2, <3>3 DEF In!OpenAfter
  <2>2. ASSUME In!Alerting(n + 1)' PROVE In!OpenAfter(n + 1)'
    BY <1>1, <2>2, SMTT(30) DEF In!OpenAfter
  <2>3. ASSUME In!OpenAfter(n), ~In!Said(n + 1, {"healthy"})' PROVE In!OpenAfter(n + 1)'
    <3>1. PICK j \in 1..n : In!Alerting(j) /\ \A k \in (j + 1)..n : ~In!Said(k, {"healthy"})
      BY <2>3 DEF In!OpenAfter
    <3>2. j \in 1..(n + 1) /\ In!Alerting(j)'
      BY <1>1, <1>3, <3>1
    <3>3. \A k \in (j + 1)..(n + 1) : ~In!Said(k, {"healthy"})'
      BY <1>1, <1>2, <2>3, <3>1
    <3>4. QED BY <3>2, <3>3 DEF In!OpenAfter
  <2>4. In!OpenAfter(n + 1)' \in BOOLEAN
    BY DEF In!OpenAfter
  <2>5. QED BY <2>1, <2>2, <2>3, <2>4
<1>6. CountedTo(n)' = CountedTo(n)
  <2>1. \A i \in 1..n : i - 1 \in 0..n
    BY <1>1
  <2>2. \A i \in 1..n : /\ (In!Alerting(i)' <=> In!Alerting(i))
                        /\ (In!Said(i, {"unknown"})' <=> In!Said(i, {"unknown"}))
                        /\ (In!OpenAfter(i - 1)' <=> In!OpenAfter(i - 1))
    BY <1>2, <1>3, <1>4, <2>1
  <2>3. \A i \in 1..n : i \in CountedTo(n)' <=> i \in CountedTo(n)
    BY <2>2 DEF CountedTo, Counts
  <2>4. CountedTo(n)' \subseteq 1..n /\ CountedTo(n) \subseteq 1..n
    BY DEF CountedTo
  <2>5. QED BY <2>3, <2>4
<1>7. 0..n # {} /\ n \in 0..n
  BY <1>1
<1>8. QED BY <1>1, <1>3, <1>4, <1>5, <1>6, <1>7

LEMMA CountsNext ==
  ASSUME NEW n \in Nat
  PROVE  Counts(n + 1)' <=> In!Alerting(n + 1)' \/ (In!Said(n + 1, {"unknown"})' /\ In!OpenAfter(n)')
<1>1. n + 1 - 1 = n
  OBVIOUS
<1>2. In!OpenAfter(n + 1 - 1)' <=> In!OpenAfter(n)'
  BY <1>1 DEF In!OpenAfter
<1>3. Counts(n + 1)' <=> In!Alerting(n + 1)' \/ (In!Said(n + 1, {"unknown"})' /\ In!OpenAfter(n + 1 - 1)')
  BY DEF Counts
<1>4. QED BY <1>2, <1>3

LEMMA StepIncidents ==
  ASSUME InInv, [In!Next]_In!incidentVars
  PROVE  InInv'
<1>1. CASE In!Reconcile
  <2>. DEFINE seen == In!Observed(pending.fact)
              entry == [scan |-> pending.scan, seen |-> seen]
  <2>1. /\ history' = Append(history, entry) /\ UNCHANGED <<kind, scans, pending>>
        /\ incident' = IF seen = <<>> THEN incident ELSE In!Reconciled(seen[1], incident, pending.scan)
    BY <1>1 DEF In!Reconcile
  <2>2. seen \in Sightings /\ (seen # <<>> => seen = <<seen[1]>> /\ seen[1] \in Observations)
    BY KindsObserve DEF In!Observed, Sightings, InInv, InTypeOK
  <2>. HIDE DEF seen
  <2>3. entry \in [scan : Nat, seen : Sightings]
    BY <2>2 DEF InInv, InTypeOK
  <2>. HIDE DEF entry
  <2>4. PICK n : n = Len(history)
    OBVIOUS
  <2>5. /\ Len(history') = n + 1 /\ n \in Nat /\ history' \in Seq([scan : Nat, seen : Sightings])
        /\ history'[n + 1] = entry /\ \A i \in 1..n : history'[i] = history[i]
        /\ \A i \in 1..n : (In!Alerting(i)' <=> In!Alerting(i))
        /\ (In!OpenAfter(n)' <=> In!OpenAfter(n))
        /\ (In!OpenAfter(n + 1)' <=> In!Alerting(n + 1)' \/ (In!OpenAfter(n) /\ ~In!Said(n + 1, {"healthy"})'))
        /\ CountedTo(n)' = CountedTo(n)
    BY <2>1, <2>3, <2>4, OneMore
  <2>6. PICK bad \in BOOLEAN, counts \in BOOLEAN, was \in BOOLEAN, open \in BOOLEAN :
          /\ bad <=> In!Alerting(n + 1)'
          /\ was <=> In!OpenAfter(n)
          /\ open <=> In!OpenAfter(n + 1)'
          /\ counts <=> In!Alerting(n + 1)' \/ (In!Said(n + 1, {"unknown"})' /\ In!OpenAfter(n))
    <3>. DEFINE B == IF In!Alerting(n + 1)' THEN TRUE ELSE FALSE
                W == IF In!OpenAfter(n) THEN TRUE ELSE FALSE
                O == IF In!OpenAfter(n + 1)' THEN TRUE ELSE FALSE
                C == IF In!Alerting(n + 1)' \/ (In!Said(n + 1, {"unknown"})' /\ In!OpenAfter(n)) THEN TRUE ELSE FALSE
    <3>1. B \in BOOLEAN /\ W \in BOOLEAN /\ O \in BOOLEAN /\ C \in BOOLEAN
      OBVIOUS
    <3>2. /\ B <=> In!Alerting(n + 1)'
          /\ W <=> In!OpenAfter(n)
          /\ O <=> In!OpenAfter(n + 1)'
          /\ C <=> In!Alerting(n + 1)' \/ (In!Said(n + 1, {"unknown"})' /\ In!OpenAfter(n))
      OBVIOUS
    <3>. HIDE DEF B, W, O, C
    <3>3. QED BY <3>1, <3>2, Zenon
  <2>7. /\ bad <=> seen # <<>> /\ seen[1].condition \in {"failing", "unknown"} /\ seen[1].severity # "none"
        /\ open <=> bad \/ (was /\ ~(seen # <<>> /\ seen[1].condition = "healthy"))
        /\ counts <=> bad \/ (seen # <<>> /\ seen[1].condition = "unknown" /\ was)
    <3>1. /\ In!Said(n + 1, {"healthy"})' <=> seen # <<>> /\ seen[1].condition = "healthy"
          /\ In!Said(n + 1, {"unknown"})' <=> seen # <<>> /\ seen[1].condition = "unknown"
          /\ In!Alerting(n + 1)' <=> /\ seen # <<>> /\ seen[1].condition \in {"failing", "unknown"}
                                    /\ seen[1].severity # "none"
      BY <2>5 DEF In!Said, In!Alerting, entry
    <3>2. QED BY <2>5, <2>6, <3>1
  <2>. DEFINE before == AlertsTo(n)
              after == AlertsTo(n + 1)'
  <2>8. after = before \cup (IF bad THEN {n + 1} ELSE {}) /\ before \subseteq 1..n
    <3>1. \A i : i \in 1..(n + 1) <=> i \in 1..n \/ i = n + 1
      BY <2>5
    <3>2. \A i \in 1..n : In!Alerting(i)' <=> In!Alerting(i)
      BY <2>5
    <3>3. QED BY <2>6, <3>1, <3>2 DEF AlertsTo
  <2>9. /\ CountedTo(n) \subseteq 1..n
        /\ CountedTo(n + 1)' = CountedTo(n) \cup (IF counts THEN {n + 1} ELSE {})
    <3>1. \A i : i \in 1..(n + 1) <=> i \in 1..n \/ i = n + 1
      BY <2>5
    <3>2. n + 1 - 1 = n /\ n + 1 \in 1..(n + 1)
      BY <2>5
    <3>3. \A i \in 1..n : i \in CountedTo(n + 1)' <=> i \in CountedTo(n)'
      BY <3>1 DEF CountedTo
    <3>4. n + 1 \in CountedTo(n + 1)' <=> counts
      <4>1. n + 1 \in CountedTo(n + 1)' <=> Counts(n + 1)'
        BY <3>2 DEF CountedTo
      <4>2. QED BY <2>5, <2>6, <4>1, CountsNext
    <3>5. CountedTo(n) \subseteq 1..n /\ CountedTo(n + 1)' \subseteq 1..(n + 1)
      BY DEF CountedTo
    <3>6. \A i : i \in CountedTo(n + 1)' <=> i \in CountedTo(n) \/ (counts /\ i = n + 1)
      BY <2>5, <3>1, <3>3, <3>4, <3>5
    <3>7. QED BY <3>5, <3>6
  <2>10. /\ Cardinality(CountedTo(n)) \in Nat
         /\ Cardinality(CountedTo(n) \cup {n + 1}) = Cardinality(CountedTo(n)) + 1
    <3>1. IsFiniteSet(1..n)
      BY <2>5, UpToIsFinite
    <3>2. IsFiniteSet(CountedTo(n)) /\ n + 1 \notin CountedTo(n)
      BY <2>5, <2>9, <3>1, FS_Subset
    <3>3. QED BY <3>2, FS_AddElement, FS_CardinalityType
  <2>11. /\ incident.status = IF before = {} THEN "none" ELSE IF was THEN "open" ELSE "resolved"
         /\ was => before # {}
         /\ incident.occurrences = Cardinality(CountedTo(n))
         /\ \A i \in before : (\A j \in before : i <= j) => incident.first = history[i].scan
    <3>1. In!OpenAfter(n) => before # {}
      BY DEF In!OpenAfter, AlertsTo
    <3>2. QED BY <2>4, <2>6, <3>1 DEF InInv, StatusTells, CountTells, FirstTells
  <2>. HIDE DEF before, after
  <2>12. /\ incident'.status = IF after = {} THEN "none" ELSE IF open THEN "open" ELSE "resolved"
         /\ incident'.occurrences = incident.occurrences + (IF counts THEN 1 ELSE 0)
         /\ incident'.first = IF bad /\ before = {} THEN pending.scan ELSE incident.first
         /\ incident' \in [status : {"none", "open", "resolved"}, seen : Observations, scan : Nat, first : Nat,
                           occurrences : Nat]
    <3>1. /\ incident \in [status : {"none", "open", "resolved"}, seen : Observations, scan : Nat, first : Nat,
                           occurrences : Nat]
          /\ pending.scan \in Nat
      BY DEF InInv, InTypeOK
    <3>2. (bad => after # {}) /\ (~bad => after = before) /\ (before # {} => after # {})
      BY <2>8
    <3>3. CASE seen = <<>>
      BY <2>1, <2>7, <2>11, <3>1, <3>2, <3>3
    <3>4. CASE seen # <<>> /\ seen[1].condition = "healthy"
      <4>1. incident' = IF incident.status = "none" THEN incident
                        ELSE [incident EXCEPT !.status = "resolved", !.scan = pending.scan]
        BY <2>1, <3>4 DEF In!Reconciled
      <4>2. ~bad /\ ~counts /\ ~open
        BY <2>7, <3>4
      <4>3. CASE before = {}
        BY <2>11, <3>1, <3>2, <4>1, <4>2, <4>3
      <4>4. CASE before # {}
        <5>1. incident' = [incident EXCEPT !.status = "resolved", !.scan = pending.scan] /\ after # {}
          BY <2>11, <3>2, <4>1, <4>2, <4>4
        <5>2. /\ incident'.status = "resolved" /\ incident'.occurrences = incident.occurrences
              /\ incident'.first = incident.first /\ incident.occurrences \in Nat
              /\ incident' \in [status : {"none", "open", "resolved"}, seen : Observations, scan : Nat, first : Nat,
                                occurrences : Nat]
          BY <3>1, <5>1
        <5>3. QED BY <4>2, <4>4, <5>1, <5>2
      <4>5. QED BY <4>3, <4>4
    <3>5. CASE /\ seen # <<>> /\ seen[1].condition = "unknown" /\ seen[1].severity = "none"
               /\ incident.status # "open"
      <4>1. incident' = incident
        BY <2>1, <3>5 DEF In!Reconciled
      <4>2. ~bad /\ ~was /\ ~open /\ ~counts
        BY <2>7, <2>11, <3>5
      <4>3. QED BY <2>11, <3>1, <3>2, <4>1, <4>2
    <3>6. CASE /\ seen # <<>> /\ seen[1].condition # "healthy"
               /\ ~(seen[1].condition = "unknown" /\ seen[1].severity = "none" /\ incident.status # "open")
      <4>1. incident' = [status |-> "open", seen |-> seen[1], scan |-> pending.scan,
                         first |-> In!FirstSeen(incident, pending.scan),
                         occurrences |-> incident.occurrences + 1]
        BY <2>1, <3>6 DEF In!Reconciled
      <4>2. counts /\ open /\ after # {} /\ (before = {} => bad)
        BY <2>2, <2>7, <2>11, <3>2, <3>6 DEF Observations
      <4>3. In!FirstSeen(incident, pending.scan) = IF before = {} THEN pending.scan ELSE incident.first
        BY <2>11 DEF In!FirstSeen
      <4>4. QED BY <2>2, <3>1, <3>6, <4>1, <4>2, <4>3
    <3>7. QED BY <3>3, <3>4, <3>5, <3>6
  <2>13. StatusTells'
    BY <2>5, <2>6, <2>12 DEF StatusTells, after
  <2>14. CountTells'
    <3>1. incident'.occurrences = Cardinality(CountedTo(n + 1)')
      <4>1. CASE counts
        BY <2>9, <2>10, <2>11, <2>12, <4>1
      <4>2. CASE ~counts
        <5>1. CountedTo(n + 1)' = CountedTo(n)
          BY <2>9, <4>2
        <5>2. incident'.occurrences = Cardinality(CountedTo(n))
          BY <2>10, <2>11, <2>12, <4>2
        <5>3. QED BY <5>1, <5>2
      <4>3. QED BY <4>1, <4>2
    <3>2. Len(history') = n + 1
      BY <2>5
    <3>3. QED BY <3>1, <3>2 DEF CountTells
  <2>15. FirstTells'
    <3>. SUFFICES ASSUME NEW i \in after, \A j \in after : i <= j
                  PROVE  incident'.first = history'[i].scan
      BY <2>5 DEF FirstTells, after
    <3>1. CASE before = {}
      <4>1. i = n + 1 /\ bad
        BY <2>8, <3>1
      <4>2. QED BY <2>5, <2>12, <3>1, <4>1 DEF entry
    <3>2. CASE before # {}
      <4>1. i \in before /\ i \in 1..n /\ \A j \in before : i <= j
        <5>1. PICK k \in before : k \in 1..n /\ k \in after
          BY <2>8, <3>2
        <5>2. i <= k /\ i \in before \cup {n + 1}
          BY <2>8, <5>1
        <5>3. i # n + 1
          BY <2>5, <5>1, <5>2
        <5>4. \A j \in before : j \in after
          BY <2>8
        <5>5. QED BY <2>8, <5>2, <5>3, <5>4
      <4>2. incident.first = history[i].scan
        BY <2>11, <4>1
      <4>3. incident'.first = incident.first /\ history'[i] = history[i]
        BY <2>5, <2>12, <3>2, <4>1
      <4>4. QED BY <4>2, <4>3
    <3>3. QED BY <3>1, <3>2
  <2>16. QED BY <2>1, <2>5, <2>12, <2>13, <2>14, <2>15 DEF InInv, InTypeOK
<1>2. CASE In!Scan \/ In!EndScan \/ UNCHANGED In!incidentVars
  <2>1. UNCHANGED <<kind, history, incident>> /\ scans' \in Nat /\ pending'.scan \in Nat
    BY <1>2 DEF In!Scan, In!EndScan, In!None, In!incidentVars, InInv, InTypeOK
  <2>2. InTypeOK'
    BY <2>1 DEF InInv, InTypeOK
  <2>3. StatusTells' /\ CountTells' /\ FirstTells'
    <3>1. CountTells'
      BY <2>1 DEF InInv, CountTells, CountedTo, Counts, In!OpenAfter, In!Alerting, In!Said
    <3>2. StatusTells'
      BY <2>1 DEF InInv, StatusTells, AlertsTo, In!OpenAfter, In!Alerting, In!Said
    <3>3. FirstTells'
      BY <2>1 DEF InInv, FirstTells, AlertsTo, In!Alerting, In!Said
    <3>4. QED BY <3>1, <3>2, <3>3
  <2>4. QED BY <2>2, <2>3 DEF InInv
<1>3. QED BY <1>1, <1>2 DEF In!Next

LEMMA IncidentsCount ==
  ASSUME NEW S
  PROVE  In!Cardinality(S) = Cardinality(S)
BY DEF In!Cardinality, Cardinality

(* InInv is inductive.                                                     *)
THEOREM IncidentInvariant == In!Spec => []InInv
<1>1. In!Init => InInv
  BY InitIncidents
<1>2. InInv /\ [In!Next]_In!incidentVars => InInv'
  BY StepIncidents
<1>3. QED BY <1>1, <1>2, PTL DEF In!Spec

LEMMA HistoryFollows ==
  InInv => In!RowTellsHistory
<1>. SUFFICES ASSUME InInv PROVE In!RowTellsHistory
  OBVIOUS
<1>1. AlertsTo(Len(history)) # {} =>
        incident.first = history[CHOOSE i \in AlertsTo(Len(history)) : \A j \in AlertsTo(Len(history)) : i <= j].scan
  <2>. SUFFICES ASSUME AlertsTo(Len(history)) # {}
                PROVE  incident.first = history[CHOOSE i \in AlertsTo(Len(history)) :
                                                  \A j \in AlertsTo(Len(history)) : i <= j].scan
    OBVIOUS
  <2>1. AlertsTo(Len(history)) \in SUBSET Nat
    BY DEF AlertsTo, InInv, InTypeOK
  <2>2. \E i \in AlertsTo(Len(history)) : \A j \in AlertsTo(Len(history)) : i <= j
    BY <2>1, LeastExists
  <2>3. QED BY <2>2 DEF InInv, FirstTells
<1>2. QED BY <1>1, IncidentsCount DEF InInv, StatusTells, CountTells, AlertsTo, CountedTo, Counts, In!RowTellsHistory

(* The row of a subject always says what its whole history of reconciled   *)
(* scans says, whatever was unknown, missing or dropped in between.        *)
THEOREM RowsTellHistory == In!Spec => []In!RowTellsHistory
<1>1. InInv => In!RowTellsHistory
  BY HistoryFollows
<1>2. QED BY <1>1, IncidentInvariant, PTL

----------------------------------------------------------------------------
(* OperatorAuth.                                                           *)

OpConstants == LockTime \in Nat /\ MaxFailures \in Nat

CounterRow == [after : Nat, until : Nat]
Failure == [keys : SUBSET Op!AllKeys, at : Nat, under : SUBSET Op!AllKeys]
OpTypeOK ==
  /\ now \in Nat /\ failures \in Seq(Failure) /\ kept \subseteq 1..Len(failures)
  /\ DOMAIN counter \subseteq Op!AllKeys /\ \A k \in DOMAIN counter : counter[k] \in CounterRow
  /\ ghost \in [Op!AllKeys -> CounterRow]
  /\ request \in [WebRequests -> [at : {"idle", "matched", "failing", "passed"}, op : Accounts \cup {Op!Nobody},
                               ip : Addresses \cup {Op!Idle.ip}]]
  /\ \A r \in WebRequests : request[r].at # "idle" => request[r].ip \in Addresses

Recent(log, i) == log[i].at > now - LockTime
Passes(log, row, i) == i > row.after /\ log[i].at >= row.until

(* Two rows of one key that nobody can tell apart: they end the same lock, *)
(* or none that still matters, and count the same failures of the window.  *)
Twins(log, row, other) ==
  /\ row \in CounterRow /\ other \in CounterRow /\ row.after <= Len(log) /\ other.after <= Len(log)
  /\ row.until = other.until \/ (row.until = 0 /\ other.until <= now - LockTime)
  /\ \A i \in 1..Len(log) : Recent(log, i) => (Passes(log, row, i) <=> Passes(log, other, i))
(* A failure that counts was not made under the lock.                      *)
OpenWhenCounted(log, row, k) == \A i \in 1..Len(log) :
  Recent(log, i) /\ k \in log[i].keys /\ Passes(log, row, i) => k \notin log[i].under
(* Only failures that count no more have been dropped.                     *)
DroppedAreOld(log, rest) == \A i \in 1..Len(log) : log[i].at <= now /\ (Recent(log, i) => i \in rest)

OpInv ==
  /\ OpTypeOK /\ DroppedAreOld(failures, kept)
  /\ \A k \in Op!AllKeys : /\ Twins(failures, Op!Counter(counter, k), ghost[k])
                           /\ OpenWhenCounted(failures, Op!Counter(counter, k), k)

LEMMA InitAuth ==
  ASSUME Op!Init
  PROVE  OpInv
<1>1. /\ now = 1 /\ failures = <<>> /\ kept = {} /\ DOMAIN counter = {}
      /\ ghost = [k \in Op!AllKeys |-> Op!NoRow] /\ request = [r \in WebRequests |-> Op!Idle]
      /\ Len(failures) = 0 /\ failures \in Seq(Failure)
  BY DEF Op!Init
<1>2. Op!NoRow \in CounterRow /\ Op!NoRow.after = 0 /\ Op!NoRow.until = 0
  BY DEF Op!NoRow, CounterRow
<1>3. Op!Idle \in [at : {"idle", "matched", "failing", "passed"}, op : Accounts \cup {Op!Nobody},
                   ip : Addresses \cup {Op!Idle.ip}] /\ Op!Idle.at = "idle"
  BY DEF Op!Idle
<1>4. OpTypeOK
  BY <1>1, <1>2, <1>3 DEF OpTypeOK
<1>5. \A k \in Op!AllKeys : Op!Counter(counter, k) = Op!NoRow /\ ghost[k] = Op!NoRow
  BY <1>1 DEF Op!Counter
<1>6. QED BY <1>1, <1>2, <1>4, <1>5 DEF OpInv, Twins, OpenWhenCounted, DroppedAreOld

(* Twins are locked alike and count alike, whatever old failures are left. *)
LEMMA TwinsCountAlike ==
  ASSUME OpConstants, now \in Nat, NEW log \in Seq(Failure), NEW rest \in SUBSET (1..Len(log)), DroppedAreOld(log, rest),
         NEW rows, NEW twins, NEW k, Twins(log, Op!Counter(rows, k), Op!Counter(twins, k))
  PROVE  /\ Op!Count(log, rest, rows, k) = Op!Count(log, 1..Len(log), twins, k)
         /\ Op!LockedIn(rows, k) <=> Op!LockedIn(twins, k)
<1>1. {i \in rest : /\ k \in log[i].keys /\ log[i].at > now - LockTime
                   /\ i > Op!Counter(rows, k).after /\ log[i].at >= Op!Counter(rows, k).until}
      = {i \in 1..Len(log) : /\ k \in log[i].keys /\ log[i].at > now - LockTime
                             /\ i > Op!Counter(twins, k).after /\ log[i].at >= Op!Counter(twins, k).until}
  BY DEF Twins, DroppedAreOld, Recent, Passes
<1>2. Op!LockedIn(rows, k) <=> Op!LockedIn(twins, k)
  BY DEF Op!LockedIn, Twins, CounterRow, OpConstants
<1>3. QED BY <1>1, <1>2 DEF Op!Count

LEMMA CountersRead ==
  ASSUME OpInv, NEW k \in Op!AllKeys
  PROVE  /\ Op!Counter(counter, k) \in CounterRow /\ ghost[k] \in CounterRow
         /\ Op!Counter(ghost, k) = ghost[k]
BY DEF OpInv, OpTypeOK, Twins, Op!Counter

LEMMA PutReads ==
  ASSUME NEW rows, NEW S, NEW row, NEW k
  PROVE  Op!Counter(Op!Put(rows, S, row), k) = IF k \in S THEN row ELSE Op!Counter(rows, k)
BY DEF Op!Put, Op!Counter

LEMMA DropReads ==
  ASSUME NEW rows, NEW S, NEW k
  PROVE  Op!Counter(Op!Drop(rows, S), k) = IF k \in S THEN Op!NoRow ELSE Op!Counter(rows, k)
BY DEF Op!Drop, Op!Counter

(* The rows of a failure under the keys, and what pruning leaves of them.  *)
Logged(keys, log, rest, left) ==
  /\ log = Append(failures, [keys |-> keys, at |-> now, under |-> {x \in keys : Op!LockedIn(counter, x)}])
  /\ rest = (kept \cup {Len(failures) + 1}) \ Op!Outdated(log, kept)
  /\ left = Op!Drop(counter, Op!IdleRows(counter, rest))

(* A failure is recorded: with its row, and without the old ones, each     *)
(* counter has the twin it had.                                            *)
LEMMA FailureKeepsTwins ==
  ASSUME OpConstants, OpInv, NEW keys \in SUBSET Op!AllKeys, NEW k \in Op!AllKeys, NEW log, NEW rest, NEW left,
         Logged(keys, log, rest, left)
  PROVE  /\ log \in Seq(Failure) /\ Len(log) = Len(failures) + 1 /\ rest \subseteq 1..Len(log)
         /\ DroppedAreOld(log, rest)
         /\ Twins(log, Op!Counter(left, k), ghost[k]) /\ OpenWhenCounted(log, Op!Counter(left, k), k)
         /\ Op!Counter(left, k).until <= Op!Counter(counter, k).until
         /\ Op!LockedIn(counter, k) => Op!LockedIn(left, k)
<1>. USE DEF Logged
<1>. DEFINE n == Len(failures)
            last == [keys |-> keys, at |-> now, under |-> {x \in keys : Op!LockedIn(counter, x)}]
<1>1. last \in Failure /\ last.at = now /\ last.keys = keys /\ (k \in last.under => Op!LockedIn(counter, k))
  BY DEF Failure, OpInv, OpTypeOK
<1>. HIDE DEF last
<1>2. /\ failures \in Seq(Failure) /\ n \in Nat /\ now \in Nat /\ LockTime \in Nat /\ kept \subseteq 1..n
      /\ DroppedAreOld(failures, kept)
  BY DEF OpInv, OpTypeOK, OpConstants
<1>3. /\ log \in Seq(Failure) /\ Len(log) = n + 1 /\ log[n + 1] = last
      /\ \A i \in 1..n : log[i] = failures[i] /\ log[i].at \in Nat
      /\ log = Append(failures, last)
  <2>1. log = Append(failures, last)
    BY DEF last
  <2>2. /\ log \in Seq(Failure) /\ Len(log) = n + 1 /\ log[n + 1] = last
        /\ \A i \in 1..n : log[i] = failures[i] /\ failures[i] \in Failure
    BY <1>1, <1>2, <2>1
  <2>3. \A f \in Failure : f.at \in Nat
    BY DEF Failure
  <2>4. QED BY <2>1, <2>2, <2>3
<1>. HIDE DEF n
<1>4. \A i : i \in 1..(n + 1) <=> i \in 1..n \/ i = n + 1
  BY <1>2
<1>5. /\ rest \subseteq 1..(n + 1) /\ n + 1 \in rest
      /\ \A i \in 1..n : Recent(log, i) => i \in rest
  <2>1. \A i : i \in rest <=> /\ i \in kept \/ i = n + 1
                              /\ ~(i \in kept /\ log[i].at <= now - LockTime)
    BY DEF Op!Outdated, n
  <2>2. \A i \in 1..n : Recent(log, i) => i \in kept /\ ~(log[i].at <= now - LockTime)
    <3>1. \A i \in 1..n : log[i] = failures[i] /\ log[i].at \in Nat
      BY <1>3
    <3>2. QED BY <1>2, <3>1 DEF DroppedAreOld, Recent, n
  <2>3. n + 1 \notin kept /\ kept \subseteq 1..(n + 1)
    BY <1>2
  <2>4. n + 1 \in rest /\ n + 1 \in 1..(n + 1)
    BY <1>2, <2>1, <2>3
  <2>5. rest \subseteq 1..(n + 1)
    BY <2>1, <2>3, <2>4
  <2>6. \A i \in 1..n : Recent(log, i) => i \in rest
    BY <2>1, <2>2
  <2>7. QED BY <2>4, <2>5, <2>6
<1>6. DroppedAreOld(log, rest)
  <2>1. log[n + 1].at <= now /\ \A i \in 1..n : log[i].at <= now
    BY <1>1, <1>2, <1>3 DEF DroppedAreOld, n
  <2>2. QED BY <1>3, <1>4, <1>5, <2>1 DEF DroppedAreOld
<1>. DEFINE old == Op!Counter(counter, k)
            new == Op!Counter(left, k)
<1>7. /\ old \in CounterRow /\ old.after <= n /\ ghost[k] \in CounterRow /\ ghost[k].after <= n
      /\ old.until = ghost[k].until \/ (old.until = 0 /\ ghost[k].until <= now - LockTime)
      /\ \A i \in 1..n : Recent(log, i) => (Passes(log, old, i) <=> Passes(log, ghost[k], i))
      /\ \A i \in 1..n : Recent(log, i) /\ k \in log[i].keys /\ Passes(log, old, i) => k \notin log[i].under
  BY <1>3 DEF OpInv, Twins, OpenWhenCounted, Recent, Passes, n
<1>8. \/ new = old
      \/ /\ new = Op!NoRow /\ old.until <= now - LockTime
         /\ \A i \in rest : old.after < i
  BY DropReads DEF Op!IdleRows, Op!Counter
<1>. HIDE DEF old, new
<1>9. Op!NoRow \in CounterRow /\ Op!NoRow.after = 0 /\ Op!NoRow.until = 0
  BY DEF Op!NoRow, CounterRow
<1>10. /\ new \in CounterRow /\ new.after <= n /\ new.until <= old.until
       /\ new.until = ghost[k].until \/ (new.until = 0 /\ ghost[k].until <= now - LockTime)
  BY <1>2, <1>7, <1>8, <1>9 DEF CounterRow
<1>11. \A i \in 1..n : Recent(log, i) => (Passes(log, new, i) <=> Passes(log, old, i))
  <2>. SUFFICES ASSUME NEW i \in 1..n, Recent(log, i), new # old
                PROVE  Passes(log, new, i) /\ Passes(log, old, i)
    OBVIOUS
  <2>1. /\ i \in rest /\ log[i].at > now - LockTime
        /\ log[i].at \in Nat /\ i \in Nat /\ i > 0
    <3>1. i \in Nat /\ i > 0
      BY <1>2
    <3>2. log[i].at \in Nat
      BY <1>3
    <3>3. log[i].at > now - LockTime
      BY Zenon DEF Recent
    <3>4. i \in rest
      BY <1>5
    <3>5. QED BY <3>1, <3>2, <3>3, <3>4
  <2>2. old.until <= now - LockTime /\ i > old.after /\ new = Op!NoRow
    BY <1>2, <1>5, <1>7, <1>8, <2>1 DEF CounterRow
  <2>3. old.until \in Nat
    BY <1>7 DEF CounterRow
  <2>4. i > Op!NoRow.after /\ log[i].at >= Op!NoRow.until /\ i > old.after /\ log[i].at >= old.until
    <3>1. \A t \in Nat, u \in Nat : t >= 0 /\ (t > now - LockTime /\ u <= now - LockTime => t >= u)
      BY <1>2
    <3>2. log[i].at >= 0 /\ log[i].at >= old.until
      BY <2>1, <2>2, <2>3, <3>1
    <3>3. QED BY <1>9, <2>1, <2>2, <3>2
  <2>5. QED BY <2>2, <2>4 DEF Passes
<1>12. /\ Passes(log, new, n + 1) <=> new.until <= now
       /\ Passes(log, ghost[k], n + 1) <=> ghost[k].until <= now
       /\ new.until <= now <=> ghost[k].until <= now
       /\ new.until <= now <=> old.until <= now
  BY <1>1, <1>2, <1>3, <1>7, <1>8, <1>9, <1>10 DEF Passes, CounterRow
<1>13. Twins(log, new, ghost[k])
  <2>1. \A i \in 1..(n + 1) : Recent(log, i) => (Passes(log, new, i) <=> Passes(log, ghost[k], i))
    <3>1. \A i \in 1..n : Recent(log, i) => (Passes(log, new, i) <=> Passes(log, ghost[k], i))
      BY <1>7, <1>11
    <3>2. Passes(log, new, n + 1) <=> Passes(log, ghost[k], n + 1)
      BY <1>12
    <3>3. QED BY <1>4, <3>1, <3>2
  <2>2. new.after <= n + 1 /\ ghost[k].after <= n + 1
    BY <1>2, <1>7, <1>10 DEF CounterRow
  <2>3. QED BY <1>3, <1>7, <1>10, <2>1, <2>2 DEF Twins
<1>14. Op!LockedIn(counter, k) <=> ~(old.until <= now)
  BY <1>2, <1>7 DEF Op!LockedIn, old, CounterRow
<1>15. OpenWhenCounted(log, new, k)
  BY <1>1, <1>3, <1>4, <1>7, <1>11, <1>12, <1>14 DEF OpenWhenCounted
<1>16. Op!LockedIn(left, k) <=> ~(new.until <= now)
  BY <1>2, <1>10 DEF Op!LockedIn, new, CounterRow
<1>17. QED BY <1>3, <1>5, <1>6, <1>10, <1>12, <1>13, <1>14, <1>15, <1>16 DEF new, old, n

LEMMA IdleIsTyped ==
  Op!Idle \in [at : {"idle", "matched", "failing", "passed"}, op : Accounts \cup {Op!Nobody},
               ip : Addresses \cup {Op!Idle.ip}] /\ Op!Idle.at = "idle"
BY DEF Op!Idle

LEMMA AuthCount ==
  ASSUME NEW S
  PROVE  Op!Cardinality(S) = Cardinality(S)
BY DEF Op!Cardinality, Cardinality

LEMMA StepAuth ==
  ASSUME OpConstants, OpInv, [Op!Next]_Op!authVars
  PROVE  OpInv' /\ [Op!LockIsEarned]_Op!authVars
<1>. DEFINE n == Len(failures)
<1>1. /\ now \in Nat /\ n \in Nat /\ LockTime \in Nat /\ failures \in Seq(Failure) /\ kept \subseteq 1..n
      /\ DroppedAreOld(failures, kept)
  BY DEF OpInv, OpTypeOK, OpConstants
<1>2. CASE UNCHANGED <<failures, kept, counter, ghost, request>> /\ now' \in {now, now + 1}
  <2>1. now' \in Nat /\ now <= now' /\ \A i \in 1..n : failures[i].at \in Nat
    <3>1. \A i \in 1..n : failures[i] \in Failure
      BY <1>1
    <3>2. \A f \in Failure : f.at \in Nat
      BY DEF Failure
    <3>3. QED BY <1>1, <1>2, <3>1, <3>2
  <2>2. \A i \in 1..n : Recent(failures, i)' => Recent(failures, i)
    BY <1>1, <1>2, <2>1 DEF Recent
  <2>3. OpTypeOK' /\ DroppedAreOld(failures, kept)'
    BY <1>1, <1>2, <2>1, <2>2 DEF OpInv, OpTypeOK, DroppedAreOld, Op!Idle
  <2>4. ASSUME NEW k \in Op!AllKeys
        PROVE  /\ Twins(failures, Op!Counter(counter, k), ghost[k])'
               /\ OpenWhenCounted(failures, Op!Counter(counter, k), k)'
    <3>1. Op!Counter(counter, k)' = Op!Counter(counter, k) /\ ghost' = ghost /\ failures' = failures
      BY <1>2 DEF Op!Counter, Op!NoRow
    <3>2. Twins(failures, Op!Counter(counter, k), ghost[k]) /\ OpenWhenCounted(failures, Op!Counter(counter, k), k)
      BY DEF OpInv
    <3>3. ghost[k].until <= now - LockTime => ghost[k].until <= now' - LockTime
      BY <1>1, <2>1, CountersRead DEF CounterRow
    <3>4. QED BY <2>2, <3>1, <3>2, <3>3 DEF Twins, OpenWhenCounted, Passes
  <2>5. OpInv'
    BY <2>3, <2>4 DEF OpInv
  <2>6. Op!LockIsEarned
    <3>1. \A k \in Op!AllKeys : Op!Counter(counter', k) = Op!Counter(counter, k) /\ Op!Counter(counter, k).until \in Nat
      BY <1>2, CountersRead DEF CounterRow
    <3>2. QED BY <3>1 DEF Op!LockIsEarned
  <2>7. QED BY <2>5, <2>6
<1>3. ASSUME NEW r \in WebRequests, NEW place \in {"idle", "matched", "failing", "passed"},
             NEW who \in Accounts \cup {Op!Nobody}, NEW ip \in Addresses, Op!Goes(r, place, who, ip)
      PROVE  OpInv' /\ Op!LockIsEarned
  <2>1. PICK row \in [at : {"idle", "matched", "failing", "passed"}, op : Accounts \cup {Op!Nobody},
                     ip : Addresses \cup {Op!Idle.ip}] :
          /\ request' = [request EXCEPT ![r] = row] /\ (row.at # "idle" => row.ip \in Addresses)
          /\ UNCHANGED <<now, failures, kept, counter, ghost>>
    <3>. DEFINE row == IF place = "idle" THEN Op!Idle ELSE [at |-> place, op |-> who, ip |-> ip]
    <3>1. request' = [request EXCEPT ![r] = row] /\ UNCHANGED <<now, failures, kept, counter, ghost>>
      BY <1>3 DEF Op!Goes
    <3>2. row \in [at : {"idle", "matched", "failing", "passed"}, op : Accounts \cup {Op!Nobody},
                   ip : Addresses \cup {Op!Idle.ip}]
      BY IdleIsTyped
    <3>3. row.at # "idle" => row.ip \in Addresses
      BY IdleIsTyped
    <3>. HIDE DEF row
    <3>4. QED BY <3>1, <3>2, <3>3
  <2>2. OpTypeOK'
    BY <2>1 DEF OpInv, OpTypeOK
  <2>3. \A k \in Op!AllKeys : Op!Counter(counter, k)' = Op!Counter(counter, k) /\ ghost' = ghost
    BY <2>1 DEF Op!Counter, Op!NoRow
  <2>4. DroppedAreOld(failures, kept)' /\
        \A k \in Op!AllKeys : /\ Twins(failures, Op!Counter(counter, k), ghost[k])'
                              /\ OpenWhenCounted(failures, Op!Counter(counter, k), k)'
    BY <2>1, <2>3 DEF OpInv, DroppedAreOld, Twins, OpenWhenCounted, Recent, Passes
  <2>5. Op!LockIsEarned
    <3>1. \A k \in Op!AllKeys : Op!Counter(counter', k) = Op!Counter(counter, k) /\ Op!Counter(counter, k).until \in Nat
      BY <2>1, CountersRead DEF CounterRow
    <3>2. QED BY <3>1 DEF Op!LockIsEarned
  <2>6. QED BY <2>2, <2>4, <2>5 DEF OpInv
<1>4. ASSUME NEW r \in WebRequests, Op!RecordFailure(r)
      PROVE  OpInv' /\ Op!LockIsEarned
  <2>. DEFINE keys == Op!AuthKeys(request[r].op, request[r].ip)
              log == Append(failures, [keys |-> keys, at |-> now, under |-> {k \in keys : Op!LockedIn(counter, k)}])
              rest == (kept \cup {n + 1}) \ Op!Outdated(log, kept)
              left == Op!Drop(counter, Op!IdleRows(counter, rest))
              reset == [after |-> n + 1, until |-> now + LockTime]
              full == {k \in keys : /\ Op!Count(log, rest, left, k) >= MaxFailures
                                    /\ ~Op!LockedIn(left, k)}
              twin == {k \in keys : /\ Op!Count(log, 1..(n + 1), ghost, k) >= MaxFailures
                                    /\ ~Op!LockedIn(ghost, k)}
  <2>1. /\ failures' = log /\ kept' = rest /\ counter' = Op!Put(left, full, reset)
        /\ ghost' = Op!Put(ghost, twin, reset) /\ request' = [request EXCEPT ![r] = Op!Idle]
        /\ now' = now /\ request[r].at = "failing"
    BY <1>4, Zenon DEF Op!RecordFailure
  <2>2. keys \subseteq Op!AllKeys
    <3>1. request[r].op \in Accounts \cup {Op!Nobody} /\ request[r].ip \in Addresses
      BY <2>1 DEF OpInv, OpTypeOK
    <3>2. QED BY <3>1 DEF Op!AuthKeys, Op!AllKeys
  <2>3. ASSUME NEW k \in Op!AllKeys
        PROVE  /\ log \in Seq(Failure) /\ Len(log) = n + 1 /\ rest \subseteq 1..(n + 1)
               /\ DroppedAreOld(log, rest)
               /\ Twins(log, Op!Counter(left, k), ghost[k]) /\ OpenWhenCounted(log, Op!Counter(left, k), k)
               /\ Op!Counter(left, k).until <= Op!Counter(counter, k).until
               /\ Op!LockedIn(counter, k) => Op!LockedIn(left, k)
    <3>1. Logged(keys, log, rest, left)
      BY DEF Logged
    <3>. HIDE DEF keys, log, rest, left
    <3>2. keys \in SUBSET Op!AllKeys
      BY <2>2
    <3>3. /\ log \in Seq(Failure) /\ Len(log) = Len(failures) + 1 /\ rest \subseteq 1..Len(log)
          /\ DroppedAreOld(log, rest)
          /\ Twins(log, Op!Counter(left, k), ghost[k]) /\ OpenWhenCounted(log, Op!Counter(left, k), k)
          /\ Op!Counter(left, k).until <= Op!Counter(counter, k).until
          /\ Op!LockedIn(counter, k) => Op!LockedIn(left, k)
      BY <3>1, <3>2, FailureKeepsTwins
    <3>4. QED BY <3>3
  <2>4. /\ log \in Seq(Failure) /\ Len(log) = n + 1 /\ rest \subseteq 1..(n + 1) /\ DroppedAreOld(log, rest)
    <3>1. PICK k : k \in Op!AllKeys
      <4>1. request[r].ip \in Addresses
        BY <2>1 DEF OpInv, OpTypeOK
      <4>2. QED BY <4>1 DEF Op!AllKeys
    <3>2. QED BY <2>3, <3>1
  <2>5. DOMAIN left \subseteq DOMAIN counter
    BY DEF Op!Drop
  <2>. HIDE DEF keys, log, rest, left
  <2>6. \A k \in Op!AllKeys : /\ Op!Count(log, rest, left, k) = Op!Count(log, 1..(n + 1), ghost, k)
                              /\ Op!LockedIn(left, k) <=> Op!LockedIn(ghost, k)
    <3>. SUFFICES ASSUME NEW k \in Op!AllKeys
                  PROVE  /\ Op!Count(log, rest, left, k) = Op!Count(log, 1..(n + 1), ghost, k)
                         /\ Op!LockedIn(left, k) <=> Op!LockedIn(ghost, k)
      OBVIOUS
    <3>1. Twins(log, Op!Counter(left, k), Op!Counter(ghost, k))
      BY <2>3, CountersRead
    <3>2. QED BY <1>1, <2>4, <3>1, TwinsCountAlike
  <2>7. twin = full
    BY <2>2, <2>6
  <2>. HIDE DEF full, twin
  <2>8. /\ full \subseteq keys /\ reset \in CounterRow /\ reset.after = n + 1 /\ reset.until = now + LockTime
    BY <1>1 DEF full, CounterRow
  <2>. HIDE DEF reset
  <2>9. \A k \in Op!AllKeys : /\ Op!Counter(counter', k) = IF k \in full THEN reset ELSE Op!Counter(left, k)
                              /\ ghost'[k] = IF k \in full THEN reset ELSE ghost[k]
    <3>1. \A k \in Op!AllKeys : ghost'[k] = IF k \in full THEN reset ELSE ghost[k]
      BY <2>1, <2>7 DEF Op!Put, OpInv, OpTypeOK
    <3>2. QED BY <2>1, <3>1, PutReads
  <2>10. OpTypeOK'
    <3>1. ghost' \in [Op!AllKeys -> CounterRow]
      BY <2>1, <2>2, <2>7, <2>8 DEF Op!Put, OpInv, OpTypeOK
    <3>2. DOMAIN counter' \subseteq Op!AllKeys
      BY <2>1, <2>2, <2>5, <2>8 DEF Op!Put, OpInv, OpTypeOK
    <3>3. \A k \in DOMAIN counter' : counter'[k] \in CounterRow
      <4>1. \A k \in Op!AllKeys : Op!Counter(counter', k) \in CounterRow
        BY <2>3, <2>8, <2>9 DEF Twins
      <4>2. QED BY <3>2, <4>1 DEF Op!Counter
    <3>4. request' \in [WebRequests -> [at : {"idle", "matched", "failing", "passed"}, op : Accounts \cup {Op!Nobody},
                                     ip : Addresses \cup {Op!Idle.ip}]]
          /\ \A x \in WebRequests : request'[x].at # "idle" => request'[x].ip \in Addresses
      BY <2>1, IdleIsTyped DEF OpInv, OpTypeOK
    <3>5. QED BY <1>1, <2>1, <2>4, <3>1, <3>2, <3>3, <3>4 DEF OpTypeOK
  <2>11. DroppedAreOld(failures, kept)'
    BY <2>1, <2>4 DEF DroppedAreOld, Recent
  <2>12. ASSUME NEW k \in Op!AllKeys
         PROVE  /\ Twins(failures, Op!Counter(counter, k), ghost[k])'
                /\ OpenWhenCounted(failures, Op!Counter(counter, k), k)'
    <3>1. Op!Counter(counter, k)' = Op!Counter(counter', k)
      BY DEF Op!Counter, Op!NoRow
    <3>2. CASE k \in full
      <4>1. \A i \in 1..(n + 1) : ~Passes(log, reset, i)
        BY <1>1, <2>8 DEF Passes
      <4>2. /\ Twins(log, reset, reset) /\ OpenWhenCounted(log, reset, k)
        BY <1>1, <2>4, <2>8, <4>1 DEF Twins, OpenWhenCounted
      <4>3. QED BY <2>1, <2>9, <3>1, <3>2, <4>2 DEF Twins, OpenWhenCounted, Recent, Passes
    <3>3. CASE k \notin full
      <4>1. Twins(log, Op!Counter(left, k), ghost[k]) /\ OpenWhenCounted(log, Op!Counter(left, k), k)
        BY <2>3
      <4>2. QED BY <2>1, <2>9, <3>1, <3>3, <4>1 DEF Twins, OpenWhenCounted, Recent, Passes
    <3>4. QED BY <3>2, <3>3
  <2>13. Op!LockIsEarned
    <3>. SUFFICES ASSUME NEW k \in Op!AllKeys, Op!Counter(counter', k).until > Op!Counter(counter, k).until
                  PROVE  /\ ~Op!LockedIn(counter, k)
                         /\ Op!Cardinality({i \in DOMAIN failures' : /\ k \in failures'[i].keys \ failures'[i].under
                                                                     /\ failures'[i].at > now - LockTime}) >= MaxFailures
      BY Zenon DEF Op!LockIsEarned
    <3>1. k \in full
      BY <1>1, <2>3, <2>9, CountersRead DEF CounterRow, Twins
    <3>2. ~Op!LockedIn(left, k) /\ Op!Count(log, rest, left, k) >= MaxFailures
      BY <3>1 DEF full
    <3>3. ~Op!LockedIn(counter, k)
      BY <2>3, <3>2
    <3>. DEFINE counted == {i \in rest : /\ k \in log[i].keys /\ log[i].at > now - LockTime
                                         /\ i > Op!Counter(left, k).after /\ log[i].at >= Op!Counter(left, k).until}
                open == {i \in DOMAIN log : k \in log[i].keys \ log[i].under /\ log[i].at > now - LockTime}
    <3>4. DOMAIN log = 1..(n + 1)
      BY <2>4
    <3>5. counted \subseteq open /\ IsFiniteSet(open)
      <4>1. OpenWhenCounted(log, Op!Counter(left, k), k)
        BY <2>3
      <4>2. ASSUME NEW i \in counted
            PROVE  i \in open
        BY <2>4, <3>4, <4>1, <4>2 DEF OpenWhenCounted, Recent, Passes
      <4>3. IsFiniteSet(1..(n + 1))
        BY <1>1, UpToIsFinite
      <4>4. open \subseteq 1..(n + 1)
        BY <3>4
      <4>. HIDE DEF open
      <4>5. IsFiniteSet(open)
        BY <4>3, <4>4, FS_Subset
      <4>6. QED BY <4>2, <4>5
    <3>6. Op!Count(log, rest, left, k) = Cardinality(counted)
      BY AuthCount DEF Op!Count
    <3>. HIDE DEF counted, open
    <3>7. Cardinality(counted) <= Cardinality(open) /\ Cardinality(counted) \in Nat /\ Cardinality(open) \in Nat
      BY <3>5, FS_Subset, FS_CardinalityType
    <3>8. Cardinality(open) >= MaxFailures
      BY <3>2, <3>6, <3>7 DEF OpConstants
    <3>9. QED BY <2>1, <3>3, <3>8, AuthCount DEF open
  <2>14. QED BY <2>10, <2>11, <2>12, <2>13 DEF OpInv
<1>5. ASSUME NEW r \in WebRequests, Op!RecordSuccess(r)
      PROVE  OpInv' /\ Op!LockIsEarned
  <2>. DEFINE keys == Op!AuthKeys(request[r].op, request[r].ip)
              reset == [after |-> IF kept = {} THEN 0 ELSE Op!Max(kept), until |-> 0]
              twin == [after |-> n, until |-> 0]
  <2>1. /\ counter' = Op!Put(counter, keys, reset) /\ ghost' = Op!Put(ghost, keys, twin)
        /\ request' = [request EXCEPT ![r] = Op!Idle] /\ UNCHANGED <<now, failures, kept>>
        /\ request[r].at = "passed"
    BY <1>5, Zenon DEF Op!RecordSuccess
  <2>2. keys \subseteq Op!AllKeys
    <3>1. request[r].op \in Accounts \cup {Op!Nobody} /\ request[r].ip \in Addresses
      BY <2>1 DEF OpInv, OpTypeOK
    <3>2. QED BY <3>1 DEF Op!AuthKeys, Op!AllKeys
  <2>3. reset \in CounterRow /\ reset.after <= n /\ reset.until = 0 /\ \A i \in kept : i <= reset.after
    <3>1. CASE kept = {}
      BY <1>1, <3>1 DEF CounterRow
    <3>2. CASE kept # {}
      <4>1. kept \in SUBSET (0..n)
        BY <1>1
      <4>2. \E i \in kept : \A j \in kept : j <= i
        BY <1>1, <3>2, <4>1, GreatestExists
      <4>3. \E i \in kept : \A j \in kept : i >= j
        BY <1>1, <4>2
      <4>4. Op!Max(kept) \in kept /\ \A j \in kept : Op!Max(kept) >= j
        BY <4>3 DEF Op!Max
      <4>5. reset = [after |-> Op!Max(kept), until |-> 0]
        BY <3>2
      <4>6. Op!Max(kept) \in Nat /\ Op!Max(kept) <= n /\ \A i \in kept : i <= Op!Max(kept)
        <5>. DEFINE most == Op!Max(kept)
        <5>1. most \in kept /\ \A j \in kept : most >= j
          BY <4>4
        <5>2. kept \subseteq Nat /\ \A j \in kept : j <= n
          BY <1>1
        <5>. HIDE DEF most
        <5>3. most \in Nat /\ most <= n /\ \A j \in kept : j <= most
          BY <1>1, <5>1, <5>2
        <5>4. QED BY <5>3 DEF most
      <4>. HIDE DEF reset
      <4>7. QED BY <4>5, <4>6 DEF CounterRow
    <3>3. QED BY <3>1, <3>2
  <2>4. twin \in CounterRow /\ twin.after = n /\ twin.until = 0
    BY <1>1 DEF CounterRow
  <2>. HIDE DEF keys, reset, twin
  <2>5. \A k \in Op!AllKeys : /\ Op!Counter(counter', k) = IF k \in keys THEN reset ELSE Op!Counter(counter, k)
                              /\ ghost'[k] = IF k \in keys THEN twin ELSE ghost[k]
    <3>1. \A k \in Op!AllKeys : ghost'[k] = IF k \in keys THEN twin ELSE ghost[k]
      BY <2>1 DEF Op!Put, OpInv, OpTypeOK
    <3>2. QED BY <2>1, <3>1, PutReads
  <2>6. OpTypeOK'
    <3>1. ghost' \in [Op!AllKeys -> CounterRow]
      BY <2>1, <2>2, <2>4 DEF Op!Put, OpInv, OpTypeOK
    <3>2. DOMAIN counter' \subseteq Op!AllKeys
      BY <2>1, <2>2 DEF Op!Put, OpInv, OpTypeOK
    <3>3. \A k \in DOMAIN counter' : counter'[k] \in CounterRow
      <4>1. \A k \in Op!AllKeys : Op!Counter(counter', k) \in CounterRow
        BY <2>3, <2>5, CountersRead
      <4>2. QED BY <3>2, <4>1 DEF Op!Counter
    <3>4. request' \in [WebRequests -> [at : {"idle", "matched", "failing", "passed"}, op : Accounts \cup {Op!Nobody},
                                     ip : Addresses \cup {Op!Idle.ip}]]
          /\ \A x \in WebRequests : request'[x].at # "idle" => request'[x].ip \in Addresses
      BY <2>1, IdleIsTyped DEF OpInv, OpTypeOK
    <3>5. QED BY <1>1, <2>1, <3>1, <3>2, <3>3, <3>4 DEF OpTypeOK
  <2>7. DroppedAreOld(failures, kept)'
    BY <1>1, <2>1 DEF DroppedAreOld, Recent
  <2>8. ASSUME NEW k \in Op!AllKeys
        PROVE  /\ Twins(failures, Op!Counter(counter, k), ghost[k])'
               /\ OpenWhenCounted(failures, Op!Counter(counter, k), k)'
    <3>1. Op!Counter(counter, k)' = Op!Counter(counter', k)
      BY DEF Op!Counter, Op!NoRow
    <3>2. CASE k \in keys
      <4>1. \A i \in 1..n : Recent(failures, i) => ~Passes(failures, reset, i) /\ ~Passes(failures, twin, i)
        BY <1>1, <2>3, <2>4 DEF Passes, DroppedAreOld, CounterRow
      <4>2. /\ Twins(failures, reset, twin) /\ OpenWhenCounted(failures, reset, k)
        BY <1>1, <2>3, <2>4, <4>1 DEF Twins, OpenWhenCounted
      <4>3. QED BY <2>1, <2>5, <3>1, <3>2, <4>2 DEF Twins, OpenWhenCounted, Recent, Passes
    <3>3. CASE k \notin keys
      <4>1. Twins(failures, Op!Counter(counter, k), ghost[k]) /\ OpenWhenCounted(failures, Op!Counter(counter, k), k)
        BY DEF OpInv
      <4>2. QED BY <2>1, <2>5, <3>1, <3>3, <4>1 DEF Twins, OpenWhenCounted, Recent, Passes
    <3>4. QED BY <3>2, <3>3
  <2>9. Op!LockIsEarned
    <3>1. \A k \in Op!AllKeys : ~(Op!Counter(counter', k).until > Op!Counter(counter, k).until)
      BY <2>3, <2>5, CountersRead DEF CounterRow
    <3>2. QED BY <3>1, Zenon DEF Op!LockIsEarned
  <2>10. QED BY <2>6, <2>7, <2>8, <2>9 DEF OpInv
<1>6. CASE Op!Tick
  BY <1>2, <1>6 DEF Op!Tick
<1>7. CASE UNCHANGED Op!authVars
  BY <1>2, <1>7 DEF Op!authVars
<1>8. ASSUME NEW r \in WebRequests, Op!AskAgain(r)
      PROVE  OpInv' /\ Op!LockIsEarned
  <2>1. PICK place \in {"idle", "failing", "passed"} : Op!Goes(r, place, request[r].op, request[r].ip)
    BY <1>8 DEF Op!AskAgain
  <2>2. request[r].op \in Accounts \cup {Op!Nobody} /\ request[r].ip \in Addresses
    BY <1>8 DEF Op!AskAgain, OpInv, OpTypeOK
  <2>3. QED BY <1>3, <2>1, <2>2
<1>9. ASSUME NEW r \in WebRequests, NEW ip \in Addresses, Op!Login(r, ip)
      PROVE  OpInv' /\ Op!LockIsEarned
  BY <1>3, <1>9 DEF Op!Login
<1>10. ASSUME NEW r \in WebRequests, NEW ip \in Addresses, NEW who \in Accounts, Op!Elevate(r, who, ip)
       PROVE  OpInv' /\ Op!LockIsEarned
  BY <1>3, <1>10 DEF Op!Elevate
<1>11. QED BY <1>4, <1>5, <1>6, <1>7, <1>8, <1>9, <1>10 DEF Op!Next

(* OpInv is inductive.                                                     *)
THEOREM AuthInvariant == Op!Spec => []OpInv
<1>1. Op!Init => OpInv
  BY SignInAssumption, InitAuth DEF OpConstants
<1>2. OpInv /\ [Op!Next]_Op!authVars => OpInv'
  BY SignInAssumption, StepAuth DEF OpConstants
<1>3. QED BY <1>1, <1>2, PTL DEF Op!Spec

LEMMA PruningFollows ==
  OpInv => Op!PruningIsInvisible
<1>. SUFFICES ASSUME OpInv, NEW k \in Op!AllKeys
              PROVE  /\ Op!LockedIn(counter, k) <=> Op!LockedIn(ghost, k)
                     /\ Op!Count(failures, kept, counter, k) = Op!Count(failures, DOMAIN failures, ghost, k)
  BY DEF Op!PruningIsInvisible
<1>1. /\ now \in Nat /\ failures \in Seq(Failure) /\ kept \subseteq 1..Len(failures)
      /\ DOMAIN failures = 1..Len(failures) /\ DroppedAreOld(failures, kept)
  BY DEF OpInv, OpTypeOK
<1>2. Twins(failures, Op!Counter(counter, k), Op!Counter(ghost, k))
  BY CountersRead DEF OpInv
<1>3. OpConstants
  BY SignInAssumption DEF OpConstants
<1>4. QED BY <1>1, <1>2, <1>3, TwinsCountAlike

(* Failure rows and counters are dropped as new failures arrive, and no    *)
(* key is ever locked, open or closer to its lock for it.                  *)
THEOREM DroppingIsInvisible == Op!Spec => []Op!PruningIsInvisible
<1>1. OpInv => Op!PruningIsInvisible
  BY PruningFollows
<1>2. QED BY <1>1, AuthInvariant, PTL

LEMMA LocksFollow ==
  OpInv /\ [Op!Next]_Op!authVars => [Op!LockIsEarned]_Op!authVars
BY SignInAssumption, StepAuth DEF OpConstants

(* A key is locked only by that many failures of its own, made within the  *)
(* window while it was open, and no lock that runs is prolonged.           *)
THEOREM LocksAreEarned == Op!Spec => [][Op!LockIsEarned]_Op!authVars
<1>1. OpInv /\ [Op!Next]_Op!authVars => [Op!LockIsEarned]_Op!authVars
  BY LocksFollow
<1>2. QED BY <1>1, AuthInvariant, PTL DEF Op!Spec

----------------------------------------------------------------------------
(* DeviceSessions.                                                         *)

(* What is assumed of the constants: there is a worker, an entry of the    *)
(* cache is trusted for some time at all, and times are whole numbers.     *)
DeConstants == /\ WebWorkers # {} /\ CacheAge \in Nat \ {0}
               /\ ElevatedFor \in Nat /\ ElevatedCap \in Nat /\ MaxTime \in Nat /\ MaxRevokes \in Nat

DePlaces == {"idle", "asking", "in", "elevating", "checking", "elevated"}
EpochReading == [epoch : Int, at : Nat]
DeToken == [epoch : Int, id : Nat]
DeMarker == [token : Nat, epoch : Int, first : Nat, until : Nat]
DeRequest == [at : DePlaces, worker : WebWorkers, since : Nat, got : EpochReading,
              token : DeToken, marker : DeMarker]

DeTypeOK ==
  /\ now \in Nat /\ now <= MaxTime
  /\ epoch \in 0..MaxRevokes
  /\ revoked \in [0..MaxRevokes -> Nat]
  /\ cache \in [WebWorkers -> EpochReading]
  /\ token \in DeToken
  /\ marker \in DeMarker
  /\ req \in [WebRequests -> DeRequest]
  /\ proved \in Nat /\ alive \in Nat /\ proved <= now /\ alive <= now

(* Only epochs that are over have been revoked.                            *)
RevokedAreOver == \A e \in 0..MaxRevokes : e >= epoch => revoked[e] = MaxTime + 1

(* An epoch was read, at the moment the reading is dated, before it was    *)
(* revoked: the clock is read before the question is put to core.          *)
ReadInTime(g) == g.epoch >= 0 => g.epoch <= epoch /\ g.at <= now /\ g.at <= revoked[g.epoch]

DeIssued(t) == t.id > 0 => t.epoch \in 0..epoch

(* Every copy of the marker, the browser's and those requests carry, is as *)
(* old as some passphrase and deed at most.                                *)
DeEarned(m) == m.epoch >= 0 => m.first <= proved /\ m.until <= alive + ElevatedFor

(* What a request has in hand.                                             *)
DeAsking == {"asking", "elevating", "checking"}
DeCarries(q) ==
  /\ q.since <= now
  /\ q.at # "idle" => q.token.id > 0
  /\ DeIssued(q.token) /\ DeEarned(q.marker) /\ ReadInTime(q.got)
  /\ q.at \in DeAsking => q.got.epoch >= 0 /\ q.since <= q.got.at

DeBites(q) ==
  /\ q.at = "in" => q.since - revoked[q.token.epoch] < CacheAge
  /\ q.at = "elevated" => q.since <= revoked[q.token.epoch]

DeInv ==
  /\ DeTypeOK
  /\ RevokedAreOver
  /\ \A w \in WebWorkers : ReadInTime(cache[w])
  /\ DeIssued(token) /\ DeEarned(marker)
  /\ \A r \in WebRequests : DeCarries(req[r]) /\ DeBites(req[r])

----------------------------------------------------------------------------
LEMMA IdleIsAPlace ==
  ASSUME DeConstants
  PROVE  De!Idle \in DeRequest
BY DEF DeConstants, De!Idle, DeRequest, DePlaces, De!Nothing, De!NoToken, De!NoMarker, EpochReading,
         DeToken, DeMarker

LEMMA InitDevices ==
  ASSUME DeConstants, De!Init
  PROVE  DeInv
<1>1. DeTypeOK
  BY IdleIsAPlace DEF DeConstants, De!Init, DeTypeOK, De!Nothing, De!NoToken, De!NoMarker, EpochReading,
         DeToken, DeMarker
<1>2. RevokedAreOver
  BY DEF De!Init, RevokedAreOver
<1>3. \A w \in WebWorkers : ReadInTime(cache[w])
  BY DEF De!Init, ReadInTime, De!Nothing
<1>4. DeIssued(token) /\ DeEarned(marker)
  BY DEF De!Init, DeIssued, DeEarned, De!NoToken, De!NoMarker
<1>5. \A r \in WebRequests : DeCarries(req[r]) /\ DeBites(req[r])
  <2>1. DeCarries(De!Idle) /\ DeBites(De!Idle)
    BY DEF De!Init, DeCarries, DeBites, De!Idle, De!Nothing, De!NoToken, De!NoMarker, DeIssued, DeEarned,
           ReadInTime, DeAsking
  <2>2. QED BY <2>1 DEF De!Init
<1>6. QED BY <1>1, <1>2, <1>3, <1>4, <1>5 DEF DeInv

(* While no epoch is revoked, a request that does not move keeps what it   *)
(* has, though the clock goes on and deeds renew the marker.               *)
LEMMA OtherRequestsKeep ==
  ASSUME DeConstants, DeInv, NEW q \in DeRequest, DeCarries(q), DeBites(q),
         epoch' = epoch, revoked' = revoked, now' \in Nat, now' >= now,
         proved' \in Nat, proved' >= proved, alive' \in Nat, alive' >= alive
  PROVE  DeCarries(q)' /\ DeBites(q)'
<1>1. /\ now \in Nat /\ proved \in Nat /\ alive \in Nat /\ ElevatedFor \in Nat
      /\ q.since \in Nat /\ q.marker \in DeMarker /\ q.got \in EpochReading
  BY DEF DeConstants, DeInv, DeTypeOK, DeRequest
<1>2. DeEarned(q.marker)'
  BY <1>1 DEF DeCarries, DeEarned, DeMarker
<1>3. ReadInTime(q.got)' /\ DeIssued(q.token)'
  BY <1>1 DEF DeCarries, ReadInTime, DeIssued, EpochReading
<1>4. DeBites(q)'
  BY DEF DeBites
<1>5. q.since <= now'
  BY <1>1 DEF DeCarries
<1>6. QED BY <1>2, <1>3, <1>4, <1>5 DEF DeCarries

(* A step that moves one request.                                          *)
LEMMA OneMoves ==
  ASSUME DeConstants, DeInv, NEW r \in WebRequests, NEW q \in DeRequest,
         req' = [req EXCEPT ![r] = q], DeCarries(q)', DeBites(q)',
         epoch' = epoch, revoked' = revoked, token' = token, now' = now,
         proved' \in Nat, proved' >= proved, proved' <= now,
         alive' \in Nat, alive' >= alive, alive' <= now,
         marker' \in DeMarker, DeEarned(marker)',
         cache' \in [WebWorkers -> EpochReading], \A w \in WebWorkers : ReadInTime(cache'[w])
  PROVE  DeInv'
<1>1. DeTypeOK'
  BY DEF DeInv, DeTypeOK
<1>2. RevokedAreOver'
  BY DEF DeInv, RevokedAreOver
<1>3. \A w \in WebWorkers : ReadInTime(cache[w])'
  BY DEF ReadInTime
<1>4. DeIssued(token)'
  BY DEF DeInv, DeIssued
<1>5. \A o \in WebRequests : DeCarries(req[o])' /\ DeBites(req[o])'
  <2>1. req'[r] = q /\ \A o \in WebRequests \ {r} : req'[o] = req[o]
    BY DEF DeInv, DeTypeOK
  <2>2. DeCarries(req[r])' /\ DeBites(req[r])'
    BY <2>1 DEF DeCarries, DeBites
  <2>3. ASSUME NEW o \in WebRequests, o # r PROVE DeCarries(req[o])' /\ DeBites(req[o])'
    <3>1. PICK p \in DeRequest : p = req[o]
      BY DEF DeInv, DeTypeOK
    <3>2. DeCarries(p) /\ DeBites(p) /\ now' >= now
      BY <3>1 DEF DeInv, DeTypeOK
    <3>3. DeCarries(p)' /\ DeBites(p)'
      BY <3>2, OtherRequestsKeep DEF DeInv, DeTypeOK
    <3>4. req'[o] = p
      BY <2>1, <2>3, <3>1
    <3>5. QED BY <3>3, <3>4 DEF DeCarries, DeBites
  <2>4. QED BY <2>2, <2>3
<1>6. QED BY <1>1, <1>2, <1>3, <1>4, <1>5 DEF DeInv

(* Most steps change nothing but requests and a worker's cache.            *)
LEMMA CacheKept ==
  ASSUME DeInv, NEW w \in WebWorkers, NEW g \in EpochReading, ReadInTime(g),
         cache' = [cache EXCEPT ![w] = g]
  PROVE  cache' \in [WebWorkers -> EpochReading] /\ \A v \in WebWorkers : ReadInTime(cache'[v])
BY DEF DeInv, DeTypeOK

LEMMA RequestFields ==
  ASSUME DeInv, NEW r \in WebRequests
  PROVE  /\ req[r] \in DeRequest /\ req[r].at \in DePlaces /\ req[r].worker \in WebWorkers
         /\ req[r].since \in Nat /\ req[r].got \in EpochReading /\ req[r].token \in DeToken
         /\ req[r].marker \in DeMarker
         /\ DeCarries(req[r]) /\ DeBites(req[r])
BY DEF DeInv, DeTypeOK, DeRequest

LEMMA ReadsNow ==
  ASSUME DeConstants, DeInv
  PROVE  /\ [epoch |-> epoch, at |-> now] \in EpochReading
         /\ ReadInTime([epoch |-> epoch, at |-> now])
BY DEF DeConstants, DeInv, DeTypeOK, RevokedAreOver, EpochReading, ReadInTime

LEMMA IdleCarries ==
  ASSUME DeConstants, DeInv, now' \in Nat
  PROVE  De!Idle \in DeRequest /\ DeCarries(De!Idle)' /\ DeBites(De!Idle)'
<1>1. /\ De!Idle.at = "idle" /\ De!Idle.since = 0 /\ De!Idle.got = De!Nothing /\ De!Idle.token = De!NoToken
      /\ De!Idle.marker = De!NoMarker
  BY DEF De!Idle
<1>2. DeBites(De!Idle)'
  BY <1>1 DEF DeBites
<1>3. DeCarries(De!Idle)'
  BY <1>1 DEF DeCarries, DeIssued, DeEarned, ReadInTime, DeAsking, De!Nothing, De!NoToken, De!NoMarker
<1>4. QED BY <1>2, <1>3, IdleIsAPlace

LEMMA ArriveStep ==
  ASSUME DeConstants, DeInv, NEW r \in WebRequests, NEW w \in WebWorkers, De!Arrive(r, w)
  PROVE  DeInv'
<1>1. /\ UNCHANGED <<now, epoch, revoked, cache, token, marker, proved, alive>> /\ token.id > 0
  BY DEF De!Arrive
<1>2. /\ token \in DeToken /\ marker \in DeMarker /\ now \in Nat /\ DeIssued(token) /\ DeEarned(marker)
      /\ \A v \in WebWorkers : ReadInTime(cache[v]) /\ cache[v] \in EpochReading
      /\ CacheAge \in Nat \ {0} /\ MaxRevokes \in Nat /\ epoch \in 0..MaxRevokes
      /\ revoked \in [0..MaxRevokes -> Nat]
  BY DEF DeInv, DeTypeOK, DeConstants
<1>3. PICK q \in DeRequest :
        /\ req' = [req EXCEPT ![r] = q]
        /\ q.since = now /\ q.token = token /\ q.marker = marker
        /\ \/ q.at = "in" /\ q.got = De!Nothing /\ De!Usable(w) /\ cache[w].epoch = token.epoch
           \/ q.at = "asking" /\ q.got = [epoch |-> epoch, at |-> now]
  <2>1. PICK in : in = [at |-> "in", worker |-> w, since |-> now, got |-> De!Nothing, token |-> token,
                        marker |-> marker]
    OBVIOUS
  <2>2. PICK ask : ask = [at |-> "asking", worker |-> w, since |-> now,
                          got |-> [epoch |-> epoch, at |-> now], token |-> token, marker |-> marker]
    OBVIOUS
  <2>3. De!Nothing \in EpochReading /\ [epoch |-> epoch, at |-> now] \in EpochReading
    BY <1>2 DEF De!Nothing, EpochReading
  <2>4. in \in DeRequest /\ ask \in DeRequest
    BY <2>1, <2>2, <2>3, <1>2 DEF DeRequest, DePlaces
  <2>5. \/ De!Usable(w) /\ cache[w].epoch = token.epoch /\ req' = [req EXCEPT ![r] = in]
        \/ req' = [req EXCEPT ![r] = ask]
    BY <2>1, <2>2 DEF De!Arrive
  <2>6. QED BY <2>1, <2>2, <2>4, <2>5
<1>4. DeBites(q)
  <2>1. CASE q.at = "in"
    <3>1. q.token.epoch >= 0 /\ q.token.epoch \in 0..MaxRevokes /\ cache[w].epoch = q.token.epoch
      BY <1>1, <1>2, <1>3, <2>1 DEF DeIssued, De!Usable
    <3>2. cache[w].at <= revoked[q.token.epoch] /\ now - cache[w].at < CacheAge
      BY <1>2, <1>3, <2>1, <3>1 DEF ReadInTime, De!Usable
    <3>3. revoked[q.token.epoch] \in Nat /\ cache[w].at \in Nat
      BY <1>2, <3>1 DEF EpochReading
    <3>4. QED BY <1>2, <1>3, <2>1, <3>2, <3>3 DEF DeBites
  <2>2. CASE q.at = "asking"
    BY <2>2 DEF DeBites
  <2>3. QED BY <1>3, <2>1, <2>2
<1>5. DeCarries(q)
  <2>1. ReadInTime(q.got)
    BY <1>3, ReadsNow DEF ReadInTime, De!Nothing
  <2>2. q.at = "asking" => q.got.epoch >= 0 /\ q.since <= q.got.at
    BY <1>2, <1>3
  <2>3. q.since <= now /\ q.token.id > 0 /\ DeIssued(q.token) /\ DeEarned(q.marker)
    BY <1>1, <1>2, <1>3
  <2>4. q.at = "in" \/ q.at = "asking"
    BY <1>3
  <2>5. QED BY <2>1, <2>2, <2>3, <2>4 DEF DeCarries, DeAsking
<1>6. DeCarries(q)' /\ DeBites(q)'
  BY <1>1, <1>4, <1>5, OtherRequestsKeep DEF DeInv, DeTypeOK
<1>7. DeEarned(marker)'
  BY <1>1, <1>2 DEF DeEarned
<1>8. cache' \in [WebWorkers -> EpochReading] /\ \A v \in WebWorkers : ReadInTime(cache'[v])
  BY <1>1, <1>2 DEF DeInv, DeTypeOK
<1>9. /\ proved' \in Nat /\ alive' \in Nat /\ proved' <= now /\ alive' <= now /\ marker' \in DeMarker
      /\ proved' >= proved /\ alive' >= alive
  BY <1>1, <1>2 DEF DeInv, DeTypeOK
<1>10. epoch' = epoch /\ revoked' = revoked /\ token' = token /\ now' = now
  BY <1>1
<1>11. QED BY <1>3, <1>6, <1>7, <1>8, <1>9, <1>10, OneMoves

(* A request that stays in its hands moves to place p with the reading g.  *)
MovesTo(r, p, g) == req' = [req EXCEPT ![r].at = p, ![r].got = g]

LEMMA Goes ==
  ASSUME DeInv, NEW r \in WebRequests, NEW p \in DePlaces, NEW g \in EpochReading, MovesTo(r, p, g)
  PROVE  \E q \in DeRequest :
           /\ req' = [req EXCEPT ![r] = q]
           /\ q.at = p /\ q.got = g /\ q.since = req[r].since /\ q.token = req[r].token
           /\ q.marker = req[r].marker
<1>1. PICK old \in DeRequest : old = req[r]
  BY RequestFields
<1>2. PICK q : q = [old EXCEPT !.at = p, !.got = g]
  OBVIOUS
<1>3. q \in DeRequest
  BY <1>2 DEF DeRequest
<1>4. /\ q.at = p /\ q.got = g /\ q.since = old.since /\ q.token = old.token /\ q.marker = old.marker
  BY <1>2 DEF DeRequest
<1>5. req' = [req EXCEPT ![r] = q]
  BY <1>1, <1>2 DEF DeInv, DeTypeOK, MovesTo
<1>6. QED BY <1>1, <1>3, <1>4, <1>5

(* What a request that goes on keeps, and what it then still owes.         *)
LEMMA GoesWell ==
  ASSUME DeConstants, DeInv, NEW r \in WebRequests, NEW q \in DeRequest,
         req[r].at # "idle", q.since = req[r].since, q.token = req[r].token,
         q.marker = req[r].marker, ReadInTime(q.got), DeBites(q),
         q.at \in DeAsking => q.got.epoch >= 0 /\ q.since <= q.got.at
  PROVE  DeCarries(q)
BY RequestFields DEF DeCarries

(* A step of one request that issues, revokes and earns nothing.           *)
LEMMA PlainMove ==
  ASSUME DeConstants, DeInv, NEW r \in WebRequests, NEW q \in DeRequest,
         req' = [req EXCEPT ![r] = q], DeCarries(q), DeBites(q),
         UNCHANGED <<now, epoch, revoked, token, marker, proved, alive>>,
         cache' \in [WebWorkers -> EpochReading], \A w \in WebWorkers : ReadInTime(cache'[w])
  PROVE  DeInv'
<1>1. /\ proved' \in Nat /\ alive' \in Nat /\ proved' <= now /\ alive' <= now /\ marker' \in DeMarker
      /\ proved' >= proved /\ alive' >= alive /\ now' \in Nat /\ now' >= now
  BY DEF DeInv, DeTypeOK
<1>2. epoch' = epoch /\ revoked' = revoked /\ token' = token /\ now' = now
  OBVIOUS
<1>3. DeCarries(q)' /\ DeBites(q)'
  BY <1>1, <1>2, OtherRequestsKeep
<1>4. DeEarned(marker)'
  BY DEF DeInv, DeEarned
<1>5. QED BY <1>1, <1>2, <1>3, <1>4, OneMoves

LEMMA CacheStays ==
  ASSUME DeInv, cache' = cache
  PROVE  cache' \in [WebWorkers -> EpochReading] /\ \A w \in WebWorkers : ReadInTime(cache'[w])
BY DEF DeInv, DeTypeOK

(* A request that is over leaves nothing behind but what it has earned.    *)
LEMMA OverStep ==
  ASSUME DeConstants, DeInv, NEW r \in WebRequests, De!Over(r),
         UNCHANGED <<now, epoch, revoked, token>>,
         proved' \in Nat, proved' >= proved, proved' <= now,
         alive' \in Nat, alive' >= alive, alive' <= now,
         marker' \in DeMarker, DeEarned(marker)',
         cache' \in [WebWorkers -> EpochReading], \A w \in WebWorkers : ReadInTime(cache'[w])
  PROVE  DeInv'
<1>1. epoch' = epoch /\ revoked' = revoked /\ token' = token /\ now' = now /\ now' \in Nat
  BY DEF DeInv, DeTypeOK
<1>2. De!Idle \in DeRequest /\ DeCarries(De!Idle)' /\ DeBites(De!Idle)'
  BY <1>1, IdleCarries
<1>3. req' = [req EXCEPT ![r] = De!Idle]
  BY DEF De!Over
<1>4. QED BY <1>1, <1>2, <1>3, OneMoves

LEMMA PageStep ==
  ASSUME DeConstants, DeInv, NEW r \in WebRequests, De!Page(r)
  PROVE  DeInv'
<1>1. De!Over(r) /\ UNCHANGED <<now, epoch, revoked, cache, token, marker, proved, alive>>
  BY DEF De!Page
<1>2. /\ proved' \in Nat /\ alive' \in Nat /\ proved' <= now /\ alive' <= now /\ marker' \in DeMarker
      /\ proved' >= proved /\ alive' >= alive
  BY <1>1 DEF DeInv, DeTypeOK
<1>3. DeEarned(marker)'
  BY <1>1 DEF DeInv, DeEarned
<1>4. QED BY <1>1, <1>2, <1>3, CacheStays, OverStep

LEMMA AskFreshStep ==
  ASSUME DeConstants, DeInv, NEW r \in WebRequests, NEW why \in {"elevating", "checking"},
         De!AskFresh(r, why)
  PROVE  DeInv'
<1>1. /\ req[r].at = "in"
      /\ req' = [req EXCEPT ![r].at = why, ![r].got = [epoch |-> epoch, at |-> now]]
      /\ UNCHANGED <<now, epoch, revoked, cache, token, marker, proved, alive>>
  BY DEF De!AskFresh
<1>2. PICK g \in EpochReading : g = [epoch |-> epoch, at |-> now]
  BY ReadsNow
<1>3. ReadInTime(g) /\ g.epoch >= 0 /\ g.at = now
  BY <1>2, ReadsNow DEF DeInv, DeTypeOK
<1>4. PICK q \in DeRequest :
        /\ req' = [req EXCEPT ![r] = q]
        /\ q.at = why /\ q.got = g /\ q.since = req[r].since /\ q.token = req[r].token
        /\ q.marker = req[r].marker
  <2>1. why \in DePlaces
    BY DEF DePlaces
  <2>2. MovesTo(r, why, g)
    BY <1>1, <1>2 DEF MovesTo
  <2>3. QED BY <2>1, <2>2, Goes
<1>5. DeBites(q)
  BY <1>4 DEF DeBites
<1>6. DeCarries(q)
  BY <1>1, <1>3, <1>4, <1>5, GoesWell, RequestFields DEF DeCarries
<1>7. QED BY <1>1, <1>4, <1>5, <1>6, CacheStays, PlainMove

(* The answer of core reaches the worker's cache, dated by the question.   *)
LEMMA AnswerKept ==
  ASSUME DeInv, NEW r \in WebRequests,
         cache' = [cache EXCEPT ![req[r].worker] = De!Dated(req[r].got)]
  PROVE  cache' \in [WebWorkers -> EpochReading] /\ \A v \in WebWorkers : ReadInTime(cache'[v])
<1>1. PICK w \in WebWorkers, g \in EpochReading : w = req[r].worker /\ g = req[r].got
  BY RequestFields
<1>2. ReadInTime(g) /\ cache' = [cache EXCEPT ![w] = g]
  BY <1>1, RequestFields DEF DeCarries, De!Dated
<1>3. QED BY <1>2, CacheKept

(* The token was good when core was asked, and core was asked after the    *)
(* request came: whenever the device is revoked, the request came before.  *)
LEMMA CameBefore ==
  ASSUME DeConstants, DeInv, NEW r \in WebRequests, req[r].at \in DeAsking,
         req[r].got.epoch = req[r].token.epoch
  PROVE  /\ req[r].since <= revoked[req[r].token.epoch]
         /\ revoked[req[r].token.epoch] \in Nat
<1>1. PICK q \in DeRequest : q = req[r]
  BY RequestFields
<1>2. DeCarries(q) /\ q.got.epoch = q.token.epoch /\ q.at \in DeAsking
  BY <1>1, RequestFields
<1>3. q.got.epoch \in 0..MaxRevokes /\ q.got.at <= revoked[q.got.epoch]
  <2>1. q.got.epoch >= 0 /\ ReadInTime(q.got) /\ q.got.epoch \in Int
    BY <1>2 DEF DeCarries, DeRequest, EpochReading
  <2>2. epoch \in 0..MaxRevokes /\ MaxRevokes \in Nat
    BY DEF DeInv, DeTypeOK, DeConstants
  <2>3. QED BY <2>1, <2>2 DEF ReadInTime
<1>4. q.since <= q.got.at /\ q.since \in Nat /\ q.got.at \in Nat
  BY <1>2 DEF DeCarries, DeRequest, EpochReading
<1>5. revoked[q.got.epoch] \in Nat
  BY <1>3 DEF DeInv, DeTypeOK
<1>6. QED BY <1>1, <1>2, <1>3, <1>4, <1>5

LEMMA KeepStep ==
  ASSUME DeConstants, DeInv, NEW r \in WebRequests, NEW then \in {"in", "elevated"},
         req[r].at \in DeAsking, De!Keep(r, then),
         UNCHANGED <<now, epoch, revoked, token, marker, proved, alive>>
  PROVE  DeInv'
<1>1. cache' \in [WebWorkers -> EpochReading] /\ \A v \in WebWorkers : ReadInTime(cache'[v])
  BY AnswerKept DEF De!Keep
<1>2. CASE req[r].got.epoch = req[r].token.epoch
  <2>1. req' = [req EXCEPT ![r].at = then, ![r].got = De!Nothing]
    BY <1>2 DEF De!Keep, De!To
  <2>2. De!Nothing \in EpochReading /\ ReadInTime(De!Nothing)
    BY DEF De!Nothing, EpochReading, ReadInTime
  <2>3. PICK q \in DeRequest :
          /\ req' = [req EXCEPT ![r] = q]
          /\ q.at = then /\ q.got = De!Nothing /\ q.since = req[r].since /\ q.token = req[r].token
          /\ q.marker = req[r].marker
    <3>1. then \in DePlaces
      BY DEF DePlaces
    <3>2. PICK g \in EpochReading : g = De!Nothing
      BY <2>2
    <3>3. MovesTo(r, then, g)
      BY <2>1, <3>2 DEF MovesTo
    <3>4. QED BY <3>1, <3>2, <3>3, Goes
  <2>4. DeBites(q)
    <3>1. q.since <= revoked[q.token.epoch] /\ revoked[q.token.epoch] \in Nat /\ q.since \in Nat
      BY <1>2, <2>3, CameBefore DEF DeRequest
    <3>2. QED BY <3>1 DEF DeBites, DeConstants
  <2>5. DeCarries(q)
    <3>1. req[r].at # "idle" /\ q.at \notin DeAsking
      BY <2>3 DEF DeAsking
    <3>2. ReadInTime(q.got)
      BY <2>2, <2>3 DEF ReadInTime
    <3>3. QED BY <2>3, <2>4, <3>1, <3>2, GoesWell
  <2>6. QED BY <1>1, <2>3, <2>4, <2>5, PlainMove
<1>3. CASE req[r].got.epoch # req[r].token.epoch
  <2>1. De!Over(r)
    BY <1>3 DEF De!Keep
  <2>2. /\ proved' \in Nat /\ alive' \in Nat /\ proved' <= now /\ alive' <= now /\ marker' \in DeMarker
        /\ proved' >= proved /\ alive' >= alive
    BY DEF DeInv, DeTypeOK
  <2>3. DeEarned(marker)'
    BY DEF DeInv, DeEarned
  <2>4. QED BY <1>1, <2>1, <2>2, <2>3, OverStep
<1>4. QED BY <1>2, <1>3

LEMMA LetInStep ==
  ASSUME DeConstants, DeInv, NEW r \in WebRequests, De!LetIn(r)
  PROVE  DeInv'
<1>1. /\ req[r].at \in DeAsking /\ De!Keep(r, "in")
      /\ UNCHANGED <<now, epoch, revoked, token, marker, proved, alive>>
  BY DEF De!LetIn, DeAsking, De!Keep
<1>2. QED BY <1>1, KeepStep

(* An answer comes too late or is not the token's: the cache keeps it, and *)
(* the request is over.                                                    *)
LEMMA ElevatedStep ==
  ASSUME DeConstants, DeInv, NEW r \in WebRequests, De!Elevated(r)
  PROVE  DeInv'
<1>1. /\ req[r].at \in DeAsking
      /\ UNCHANGED <<now, epoch, revoked, token, marker, proved, alive>>
  BY DEF De!Elevated, DeAsking
<1>2. CASE De!Keep(r, "elevated")
  BY <1>1, <1>2, KeepStep
<1>3. CASE De!Over(r) /\ cache' = [cache EXCEPT ![req[r].worker] = De!Dated(req[r].got)]
  <2>1. /\ proved' \in Nat /\ alive' \in Nat /\ proved' <= now /\ alive' <= now /\ marker' \in DeMarker
        /\ proved' >= proved /\ alive' >= alive
    BY <1>1 DEF DeInv, DeTypeOK
  <2>2. DeEarned(marker)'
    BY <1>1 DEF DeInv, DeEarned
  <2>3. cache' \in [WebWorkers -> EpochReading] /\ \A v \in WebWorkers : ReadInTime(cache'[v])
    BY <1>3, AnswerKept
  <2>4. QED BY <1>1, <1>3, <2>1, <2>2, <2>3, OverStep
<1>4. QED BY <1>2, <1>3 DEF De!Elevated

LEMMA ElevateStep ==
  ASSUME DeConstants, DeInv, NEW r \in WebRequests, De!Elevate(r)
  PROVE  DeInv'
<1>1. /\ De!Over(r) /\ cache' = [cache EXCEPT ![req[r].worker] = De!Dated(req[r].got)]
      /\ UNCHANGED <<now, epoch, revoked, token>>
  BY DEF De!Elevate
<1>2. cache' \in [WebWorkers -> EpochReading] /\ \A v \in WebWorkers : ReadInTime(cache'[v])
  BY <1>1, AnswerKept
<1>3. now \in Nat /\ proved \in Nat /\ alive \in Nat /\ proved <= now /\ alive <= now /\ ElevatedFor \in Nat
  BY DEF DeInv, DeTypeOK, DeConstants
<1>4. CASE UNCHANGED <<marker, proved, alive>>
  <2>1. marker' \in DeMarker /\ DeEarned(marker)'
    BY <1>4 DEF DeInv, DeTypeOK, DeEarned
  <2>2. QED BY <1>1, <1>2, <1>3, <1>4, <2>1, OverStep
<1>5. CASE /\ marker' = [token |-> req[r].token.id, epoch |-> req[r].got.epoch,
                         first |-> now, until |-> now + ElevatedFor]
           /\ proved' = now /\ alive' = now
  <2>1. req[r].token.id \in Nat /\ req[r].got.epoch \in Int
    BY RequestFields DEF DeToken, EpochReading
  <2>2. marker' \in DeMarker
    BY <1>3, <1>5, <2>1 DEF DeMarker
  <2>3. DeEarned(marker)'
    BY <1>3, <1>5 DEF DeEarned
  <2>4. QED BY <1>1, <1>2, <1>3, <1>5, <2>2, <2>3, OverStep
<1>6. QED BY <1>4, <1>5 DEF De!Elevate

(* The deed slides the window of the marker the request came with.         *)
LEMMA ActStep ==
  ASSUME DeConstants, DeInv, NEW r \in WebRequests, De!Act(r)
  PROVE  DeInv'
<1>1. De!Over(r) /\ UNCHANGED <<now, epoch, revoked, cache, token, proved>>
  BY DEF De!Act
<1>2. now \in Nat /\ proved \in Nat /\ alive \in Nat /\ proved <= now /\ alive <= now /\ ElevatedFor \in Nat
  BY DEF DeInv, DeTypeOK, DeConstants
<1>3. cache' \in [WebWorkers -> EpochReading] /\ \A v \in WebWorkers : ReadInTime(cache'[v])
  BY <1>1, CacheStays
<1>4. CASE UNCHANGED <<marker, alive>>
  <2>1. marker' \in DeMarker /\ DeEarned(marker)'
    BY <1>1, <1>4 DEF DeInv, DeTypeOK, DeEarned
  <2>2. QED BY <1>1, <1>2, <1>3, <1>4, <2>1, OverStep
<1>5. CASE marker' = De!Refreshed(req[r].marker) /\ alive' = now
  <2>1. PICK m \in DeMarker : m = req[r].marker
    BY RequestFields
  <2>2. DeEarned(m)
    BY <2>1, RequestFields DEF DeCarries
  <2>3. marker' = [m EXCEPT !.until = now + ElevatedFor]
    BY <1>5, <2>1 DEF De!Refreshed
  <2>4. /\ marker' \in DeMarker /\ marker'.epoch = m.epoch /\ marker'.first = m.first
        /\ marker'.until = now + ElevatedFor
    BY <1>2, <2>3 DEF DeMarker
  <2>5. DeEarned(marker)'
    BY <1>1, <1>2, <1>5, <2>2, <2>4 DEF DeEarned
  <2>6. QED BY <1>1, <1>2, <1>3, <1>5, <2>4, <2>5, OverStep
<1>6. QED BY <1>4, <1>5 DEF De!Act

LEMMA SignInStep ==
  ASSUME DeConstants, DeInv, De!SignIn
  PROVE  DeInv'
<1>1. /\ token' = [epoch |-> epoch, id |-> token.id + 1]
      /\ UNCHANGED <<now, epoch, revoked, cache, marker, req, proved, alive>>
  BY DEF De!SignIn
<1>2. DeTypeOK'
  BY <1>1 DEF DeInv, DeTypeOK, DeToken
<1>3. RevokedAreOver' /\ DeEarned(marker)' /\ DeIssued(token)'
  BY <1>1 DEF DeInv, DeTypeOK, RevokedAreOver, DeEarned, DeIssued
<1>4. \A w \in WebWorkers : ReadInTime(cache[w])'
  BY <1>1 DEF DeInv, ReadInTime
<1>5. \A r \in WebRequests : DeCarries(req[r])' /\ DeBites(req[r])'
  BY <1>1 DEF DeInv, DeCarries, DeBites, DeIssued, DeEarned, ReadInTime
<1>6. QED BY <1>2, <1>3, <1>4, <1>5 DEF DeInv

LEMMA TickStep ==
  ASSUME DeConstants, DeInv, De!Tick
  PROVE  DeInv'
<1>1. /\ now < MaxTime /\ now' = now + 1
      /\ UNCHANGED <<epoch, revoked, cache, token, marker, req, proved, alive>>
  BY DEF De!Tick
<1>2. DeTypeOK'
  BY <1>1 DEF DeInv, DeTypeOK, DeConstants
<1>3. RevokedAreOver' /\ DeEarned(marker)' /\ DeIssued(token)'
  BY <1>1 DEF DeInv, RevokedAreOver, DeEarned, DeIssued
<1>4. \A w \in WebWorkers : ReadInTime(cache[w])'
  BY <1>1 DEF DeInv, DeTypeOK, ReadInTime, EpochReading
<1>5. ASSUME NEW r \in WebRequests PROVE DeCarries(req[r])' /\ DeBites(req[r])'
  <2>1. PICK q \in DeRequest : q = req[r] /\ DeCarries(q) /\ DeBites(q)
    BY RequestFields
  <2>2. DeCarries(q)' /\ DeBites(q)'
    BY <1>1, <2>1, OtherRequestsKeep DEF DeInv, DeTypeOK
  <2>3. QED BY <1>1, <2>1, <2>2 DEF DeCarries, DeBites
<1>6. QED BY <1>2, <1>3, <1>4, <1>5 DEF DeInv

(* Whatever was read of the epoch that ends was read by now, and whoever   *)
(* is in has come by now.                                                  *)
LEMMA RevokeStep ==
  ASSUME DeConstants, DeInv, De!Revoke
  PROVE  DeInv'
<1>1. /\ epoch < MaxRevokes /\ epoch' = epoch + 1 /\ revoked' = [revoked EXCEPT ![epoch] = now]
      /\ UNCHANGED <<now, cache, token, marker, req, proved, alive>>
  BY DEF De!Revoke
<1>2. /\ now \in Nat /\ epoch \in 0..MaxRevokes /\ MaxRevokes \in Nat /\ CacheAge \in Nat \ {0}
      /\ revoked \in [0..MaxRevokes -> Nat]
  BY DEF DeInv, DeTypeOK, DeConstants
<1>3. /\ revoked' \in [0..MaxRevokes -> Nat] /\ revoked'[epoch] = now
      /\ \A e \in (0..MaxRevokes) \ {epoch} : revoked'[e] = revoked[e]
  BY <1>1, <1>2
<1>4. DeTypeOK'
  BY <1>1, <1>2, <1>3 DEF DeInv, DeTypeOK
<1>5. RevokedAreOver'
  BY <1>1, <1>2, <1>3 DEF DeInv, RevokedAreOver
<1>6. DeEarned(marker)' /\ DeIssued(token)'
  BY <1>1, <1>2 DEF DeInv, DeEarned, DeIssued
<1>7. ASSUME NEW g \in EpochReading, ReadInTime(g) PROVE ReadInTime(g)'
  BY <1>1, <1>2, <1>3, <1>7 DEF ReadInTime, EpochReading
<1>8. ASSUME NEW w \in WebWorkers PROVE ReadInTime(cache[w])'
  <2>1. PICK g \in EpochReading : g = cache[w] /\ ReadInTime(g)
    BY DEF DeInv, DeTypeOK
  <2>2. QED BY <1>1, <1>7, <2>1 DEF ReadInTime
<1>9. ASSUME NEW r \in WebRequests PROVE DeCarries(req[r])' /\ DeBites(req[r])'
  <2>1. PICK q \in DeRequest : q = req[r] /\ DeCarries(q) /\ DeBites(q)
    BY RequestFields
  <2>2. q.got \in EpochReading /\ q.since \in Nat /\ q.token \in DeToken
    BY DEF DeRequest
  <2>3. ReadInTime(q.got)'
    BY <1>7, <2>1, <2>2 DEF DeCarries
  <2>4. DeIssued(q.token)' /\ DeEarned(q.marker)'
    BY <1>1, <1>2, <2>1 DEF DeCarries, DeIssued, DeEarned
  <2>5. DeCarries(q)'
    BY <1>1, <2>1, <2>3, <2>4 DEF DeCarries
  <2>6. DeBites(q)'
    <3>1. CASE q.at \in {"in", "elevated"}
      <4>1. q.token.epoch \in 0..epoch /\ q.since <= now
        BY <2>1, <3>1 DEF DeCarries, DeIssued
      <4>2. CASE q.token.epoch = epoch
        BY <1>2, <1>3, <2>2, <4>1, <4>2 DEF DeBites
      <4>3. CASE q.token.epoch # epoch
        <5>1. revoked'[q.token.epoch] = revoked[q.token.epoch]
          BY <1>2, <1>3, <4>1, <4>3
        <5>2. QED BY <2>1, <5>1 DEF DeBites
      <4>4. QED BY <4>2, <4>3
    <3>2. CASE q.at \notin {"in", "elevated"}
      BY <3>2 DEF DeBites
    <3>3. QED BY <3>1, <3>2
  <2>7. req'[r] = q
    BY <1>1, <2>1
  <2>8. QED BY <2>5, <2>6, <2>7 DEF DeCarries, DeBites
<1>10. QED BY <1>4, <1>5, <1>6, <1>8, <1>9 DEF DeInv

LEMMA StutterStep ==
  ASSUME DeInv, UNCHANGED De!sessionVars
  PROVE  DeInv'
<1>1. UNCHANGED <<now, epoch, revoked, cache, token, marker, req, proved, alive>>
  BY DEF De!sessionVars
<1>2. DeTypeOK'
  BY <1>1 DEF DeInv, DeTypeOK
<1>3. RevokedAreOver' /\ DeEarned(marker)' /\ DeIssued(token)'
  BY <1>1 DEF DeInv, RevokedAreOver, DeEarned, DeIssued
<1>4. \A w \in WebWorkers : ReadInTime(cache[w])'
  BY <1>1 DEF DeInv, ReadInTime
<1>5. \A r \in WebRequests : DeCarries(req[r])' /\ DeBites(req[r])'
  BY <1>1 DEF DeInv, DeCarries, DeBites, DeIssued, DeEarned, ReadInTime
<1>6. QED BY <1>2, <1>3, <1>4, <1>5 DEF DeInv

LEMMA StepDevices ==
  ASSUME DeConstants, DeInv, [De!Next]_De!sessionVars
  PROVE  DeInv'
<1>1. CASE De!SignIn \/ De!Revoke \/ De!Tick
  BY <1>1, SignInStep, RevokeStep, TickStep
<1>2. ASSUME NEW r \in WebRequests,
             \/ De!LetIn(r) \/ De!Page(r) \/ De!Elevate(r) \/ De!Elevated(r) \/ De!Act(r)
             \/ De!AskFresh(r, "elevating") \/ De!AskFresh(r, "checking")
             \/ \E w \in WebWorkers : De!Arrive(r, w)
      PROVE  DeInv'
  BY <1>2, LetInStep, PageStep, ElevateStep, ElevatedStep, ActStep, AskFreshStep, ArriveStep
<1>3. CASE UNCHANGED De!sessionVars
  BY <1>3, StutterStep
<1>4. QED BY <1>1, <1>2, <1>3 DEF De!Next

(* SessionInv is inductive.                                                *)
THEOREM DeviceInvariant == De!Spec => []DeInv
<1>1. De!Init => DeInv
  BY SessionAssumption, InitDevices DEF DeConstants
<1>2. DeInv /\ [De!Next]_De!sessionVars => DeInv'
  BY SessionAssumption, StepDevices DEF DeConstants
<1>3. QED BY <1>1, <1>2, PTL DEF De!Spec

LEMMA RevocationFollows ==
  DeInv => De!RevocationBites
BY DEF DeInv, DeBites, De!RevocationBites

(* epoch() and authenticate: a revoked device is refused by every worker   *)
(* once a cache entry has aged, and an elevated request never came with a  *)
(* token revoked before it.                                                *)
THEOREM RevocationsBite == De!Spec => []De!RevocationBites
<1>1. DeInv => De!RevocationBites
  BY RevocationFollows
<1>2. QED BY <1>1, DeviceInvariant, PTL

----------------------------------------------------------------------------
(* The deed follows the passphrase.                                        *)

LEMMA ValidIsRecent ==
  ASSUME DeConstants, DeInv, NEW m \in DeMarker, NEW t \in DeToken, DeEarned(m), De!Valid(m, t)
  PROVE  now - proved <= ElevatedCap /\ now - alive <= ElevatedFor
BY SMTT(30) DEF DeConstants, DeInv, DeTypeOK, DeMarker, DeEarned, De!Valid

LEMMA ElevatedIsRecent ==
  ASSUME DeConstants, DeInv, [De!Next]_De!sessionVars
  PROVE  De!ElevationIsRecent
<1>0. req \in [WebRequests -> DeRequest]
  BY DEF DeInv, DeTypeOK
<1>1. ASSUME NEW r \in WebRequests, De!AskFresh(r, "checking"), NEW o \in WebRequests,
             req'[o].at = "checking", req[o].at # "checking"
      PROVE  now - proved <= ElevatedCap /\ now - alive <= ElevatedFor
  <2>1. De!Valid(req[r].marker, req[r].token)
    BY <1>1 DEF De!AskFresh
  <2>2. PICK m \in DeMarker, t \in DeToken : m = req[r].marker /\ t = req[r].token
    BY RequestFields
  <2>3. DeEarned(m)
    BY <2>2, RequestFields DEF DeCarries
  <2>4. QED BY <2>1, <2>2, <2>3, ValidIsRecent
<1>2. ASSUME NEW r \in WebRequests, NEW then \in {"in", "elevated"}, De!Keep(r, then),
             NEW o \in WebRequests, req[o].at # "checking"
      PROVE  req'[o].at # "checking"
  <2>1. CASE req' = [req EXCEPT ![r].at = then, ![r].got = De!Nothing]
    BY <1>0, <1>2, <2>1 DEF DeRequest
  <2>2. CASE req' = [req EXCEPT ![r] = De!Idle]
    BY <1>0, <1>2, <2>2 DEF De!Idle
  <2>3. QED BY <1>2, <2>1, <2>2 DEF De!Keep, De!To, De!Over
<1>3. ASSUME NEW r \in WebRequests, De!Page(r) \/ De!Elevate(r) \/ De!Act(r) \/ De!Over(r),
             NEW o \in WebRequests, req[o].at # "checking"
      PROVE  req'[o].at # "checking"
  BY <1>0, <1>3 DEF De!Page, De!Elevate, De!Act, De!Over, De!Idle
<1>4. ASSUME NEW r \in WebRequests, De!LetIn(r) \/ De!Elevated(r),
             NEW o \in WebRequests, req[o].at # "checking"
      PROVE  req'[o].at # "checking"
  <2>1. De!Keep(r, "in") \/ De!Keep(r, "elevated") \/ De!Over(r)
    BY <1>4 DEF De!LetIn, De!Elevated
  <2>2. QED BY <1>2, <1>3, <1>4, <2>1
<1>5. ASSUME NEW r \in WebRequests, De!AskFresh(r, "elevating"),
             NEW o \in WebRequests, req[o].at # "checking"
      PROVE  req'[o].at # "checking"
  <2>1. req' = [req EXCEPT ![r].at = "elevating", ![r].got = [epoch |-> epoch, at |-> now]]
    BY <1>5 DEF De!AskFresh
  <2>2. QED BY <1>0, <1>5, <2>1 DEF DeRequest
<1>6. ASSUME NEW r \in WebRequests, NEW w \in WebWorkers, De!Arrive(r, w),
             NEW o \in WebRequests, req[o].at # "checking"
      PROVE  req'[o].at # "checking"
  BY <1>0, <1>6 DEF De!Arrive
<1>7. CASE De!SignIn \/ De!Revoke \/ De!Tick \/ UNCHANGED De!sessionVars
  <2>1. req' = req
    BY <1>7 DEF De!SignIn, De!Revoke, De!Tick, De!sessionVars
  <2>2. QED BY <2>1 DEF De!ElevationIsRecent
<1>8. QED BY <1>1, <1>3, <1>4, <1>5, <1>6, <1>7 DEF De!Next, De!ElevationIsRecent

LEMMA ElevationFollows ==
  DeInv /\ [De!Next]_De!sessionVars => [De!ElevationIsRecent]_De!sessionVars
BY SessionAssumption, ElevatedIsRecent DEF DeConstants

(* read_elevation: when a request's marker is accepted, the passphrase was *)
(* entered at most Cap ago, and that or the last deed at most Window ago,  *)
(* however the renewals of several requests overtake one another.          *)
THEOREM ElevationsAreRecent == De!Spec => [][De!ElevationIsRecent]_De!sessionVars
<1>1. DeInv /\ [De!Next]_De!sessionVars => [De!ElevationIsRecent]_De!sessionVars
  BY ElevationFollows
<1>2. QED BY <1>1, DeviceInvariant, PTL DEF De!Spec

----------------------------------------------------------------------------
(* Verify.                                                                 *)

VeConstants == PollEvery \in Nat /\ StableFor \in Nat

Health == {"none", "starting", "healthy", "unhealthy"}
Count == Nat \cup {Ve!Unread}
Watch == [kind : Ve!Kinds, at : {"list", "read", "decide", "sleep"}, start : Nat, round : Nat,
          all : SUBSET Containers, todo : SUBSET Containers, good : BOOLEAN, since : Count,
          base : [Containers -> Count]]
VeTypeOK ==
  /\ now \in Nat /\ faults \in Nat
  /\ run \in [Containers -> [up : BOOLEAN, health : Health, restarts : Nat]]
  /\ watch \in Watch
  /\ verdict \in {"none", "passed", "failed"}
  /\ calm \in [Containers -> BOOLEAN] /\ settled \in [Containers -> Nat]
  /\ read \in [Containers -> [calm : BOOLEAN, at : Nat, from : Nat]]

(* A crash shows in the count it is compared with, or in a container that  *)
(* is down for good.                                                       *)
CrashShows(c) == watch.base[c] # Ve!Unread =>
  /\ run[c].restarts >= watch.base[c]
  /\ calm[c] \/ ~run[c].up \/ run[c].restarts > watch.base[c]
ReadCalm(c) == read[c].calm

(* Where a round stands: those still to be read are among the watched, and *)
(* those read have their count.                                            *)
RoundFits ==
  /\ watch.todo \subseteq watch.all
  /\ watch.at \in {"list", "decide"} => watch.todo = {}
  /\ watch.at \in {"read", "decide"} => \A c \in watch.all \ watch.todo : watch.base[c] # Ve!Unread
  /\ watch.at = "sleep" /\ watch.kind = "stack" => \A c \in watch.all : watch.base[c] # Ve!Unread
  /\ watch.kind # "stack" => \A c \in Containers : watch.base[c] # Ve!Unread

(* As long as no reading is slow, a round is one moment; who did not crash *)
(* is settled since the moment the watch counts from, and was when it was  *)
(* read.                                                                   *)
Quick == faults = 0 /\ verdict = "none" /\ watch.kind # "canary"
SettledBy(c, moment) == calm[c] => run[c].health # "starting" /\ settled[c] <= moment
WindowFits ==
  /\ watch.at \in {"read", "decide"} => now = watch.round
  /\ watch.round <= now /\ \A c \in Containers : settled[c] <= now
  /\ watch.since # Ve!Never => /\ watch.since <= watch.round
                               /\ \A c \in watch.all : watch.base[c] # Ve!Unread /\ SettledBy(c, watch.since)
  /\ watch.at \in {"read", "decide"} => \A c \in watch.all \ watch.todo :
       /\ read[c].at = watch.round /\ read[c].from <= watch.round
       /\ watch.since # Ve!Never => read[c].from <= watch.since
       /\ watch.good => SettledBy(c, watch.round)
SettledFits == Quick => WindowFits

VeInv == /\ VeTypeOK /\ RoundFits /\ SettledFits
         /\ \A c \in Containers : CrashShows(c) /\ ReadCalm(c)
         /\ Ve!PassedIsEarned

LEMMA InitVerify ==
  ASSUME Ve!Init
  PROVE  VeInv
<1>1. /\ now = 0 /\ faults = 0 /\ verdict = "none"
      /\ calm = [c \in Containers |-> TRUE] /\ settled = [c \in Containers |-> 0]
      /\ read = [c \in Containers |-> [calm |-> TRUE, at |-> 0, from |-> 0]]
  BY DEF Ve!Init
<1>2. run \in [Containers -> [up : BOOLEAN, health : Health, restarts : Nat]]
  <2>1. \A h \in {"none", "starting"} : [up |-> TRUE, health |-> h, restarts |-> 0] \in
                                          [up : BOOLEAN, health : Health, restarts : Nat]
    BY DEF Health
  <2>. DEFINE Starts == {[up |-> TRUE, health |-> h, restarts |-> 0] : h \in {"none", "starting"}}
  <2>2. run \in [Containers -> Starts]
    BY DEF Ve!Init
  <2>3. Starts \subseteq [up : BOOLEAN, health : Health, restarts : Nat]
    BY <2>1
  <2>. HIDE DEF Starts
  <2>4. QED BY <2>2, <2>3
<1>3. PICK way \in Ve!Kinds, targets \in SUBSET Containers :
        watch = [kind |-> way, at |-> IF way = "stack" THEN "list" ELSE "sleep", start |-> 0,
                 round |-> 0, all |-> targets, todo |-> {}, good |-> TRUE, since |-> Ve!Never,
                 base |-> [c \in Containers |-> IF way = "stack" THEN Ve!Unread ELSE 0]]
  BY DEF Ve!Init
<1>4. /\ watch \in Watch /\ watch.todo = {} /\ watch.since = Ve!Never /\ watch.round = 0
      /\ watch.at = IF watch.kind = "stack" THEN "list" ELSE "sleep"
      /\ watch.base = [c \in Containers |-> IF watch.kind = "stack" THEN Ve!Unread ELSE 0]
  BY <1>3 DEF Watch, Count, Ve!Never, Ve!Unread, Ve!Kinds
<1>5. VeTypeOK
  BY <1>1, <1>2, <1>4 DEF VeTypeOK
<1>6. RoundFits
  BY <1>4 DEF RoundFits, Ve!Unread
<1>7. SettledFits
  BY <1>1, <1>4 DEF SettledFits, WindowFits, Quick
<1>8. ASSUME NEW c \in Containers PROVE CrashShows(c) /\ ReadCalm(c)
  <2>1. run[c].restarts \in Nat /\ calm[c] = TRUE /\ read[c].calm = TRUE
    BY <1>1, <1>2
  <2>2. watch.base[c] \in {0, Ve!Unread}
    BY <1>4
  <2>3. QED BY <2>1, <2>2 DEF CrashShows, ReadCalm
<1>9. Ve!PassedIsEarned
  BY <1>1 DEF Ve!PassedIsEarned
<1>10. QED BY <1>5, <1>6, <1>7, <1>8, <1>9 DEF VeInv

(* Containers crash and turn between the readings.                         *)
LEMMA ContainersChange ==
  ASSUME VeInv, NEW c \in Containers, Ve!Crashes(c) \/ Ve!Turns(c)
  PROVE  VeInv'
<1>1. /\ UNCHANGED <<now, watch, verdict, read, faults>> /\ verdict = "none" /\ run[c].up
      /\ run[c] \in [up : BOOLEAN, health : Health, restarts : Nat] /\ now \in Nat
  BY DEF Ve!Crashes, Ve!Turns, Ve!Watching, VeInv, VeTypeOK
<1>2. CASE Ve!Crashes(c)
  <2>1. PICK next \in [up : BOOLEAN, health : Health, restarts : Nat] :
          /\ run' = [run EXCEPT ![c] = next]
          /\ next.restarts >= run[c].restarts
          /\ ~next.up \/ next.restarts > run[c].restarts
    <3>1. CASE run' = [run EXCEPT ![c] = [up |-> TRUE, restarts |-> @.restarts + 1,
                                          health |-> IF @.health = "none" THEN "none" ELSE "starting"]]
      <4>1. [up |-> TRUE, restarts |-> run[c].restarts + 1,
             health |-> IF run[c].health = "none" THEN "none" ELSE "starting"]
               \in [up : BOOLEAN, health : Health, restarts : Nat]
        BY <1>1 DEF Health
      <4>2. WITNESS [up |-> TRUE, restarts |-> run[c].restarts + 1,
                     health |-> IF run[c].health = "none" THEN "none" ELSE "starting"]
              \in [up : BOOLEAN, health : Health, restarts : Nat]
      <4>3. QED BY <1>1, <3>1, <4>1
    <3>2. CASE run' = [run EXCEPT ![c].up = FALSE]
      <4>1. [run[c] EXCEPT !.up = FALSE] \in [up : BOOLEAN, health : Health, restarts : Nat]
        BY <1>1
      <4>2. WITNESS [run[c] EXCEPT !.up = FALSE] \in [up : BOOLEAN, health : Health, restarts : Nat]
      <4>3. QED BY <1>1, <3>2, <4>1
    <3>3. QED BY <1>2, <3>1, <3>2 DEF Ve!Crashes
  <2>2. calm' = [calm EXCEPT ![c] = FALSE] /\ settled' = settled
    BY <1>2 DEF Ve!Crashes
  <2>3. /\ run' \in [Containers -> [up : BOOLEAN, health : Health, restarts : Nat]]
        /\ run'[c] = next /\ \A o \in Containers \ {c} : run'[o] = run[o]
        /\ calm' \in [Containers -> BOOLEAN] /\ ~calm'[c] /\ \A o \in Containers \ {c} : calm'[o] = calm[o]
    BY <2>1, <2>2 DEF VeInv, VeTypeOK
  <2>4. VeTypeOK' /\ RoundFits' /\ Ve!PassedIsEarned'
    BY <1>1, <2>2, <2>3 DEF VeInv, VeTypeOK, RoundFits, Ve!PassedIsEarned
  <2>5. SettledFits'
    <3>1. \A o \in Containers : \A moment : SettledBy(o, moment) => SettledBy(o, moment)'
      BY <2>2, <2>3 DEF SettledBy
    <3>2. watch.all \subseteq Containers
      BY DEF VeInv, VeTypeOK, Watch
    <3>3. QED BY <1>1, <2>2, <3>1, <3>2 DEF VeInv, SettledFits, WindowFits, Quick
  <2>6. \A o \in Containers : CrashShows(o)' /\ ReadCalm(o)'
    <3>1. watch.base[c] \in Count
      BY DEF VeInv, VeTypeOK, Watch
    <3>2. CrashShows(c)'
      BY <1>1, <2>1, <2>3, <3>1 DEF VeInv, CrashShows, Count
    <3>3. QED BY <1>1, <2>3, <3>2 DEF VeInv, CrashShows, ReadCalm
  <2>7. QED BY <2>4, <2>5, <2>6 DEF VeInv
<1>3. CASE Ve!Turns(c)
  <2>1. PICK health \in {"healthy", "unhealthy"} : run' = [run EXCEPT ![c].health = health]
    BY <1>3 DEF Ve!Turns
  <2>2. /\ calm' = calm
        /\ settled' = IF run[c].health = "starting" THEN [settled EXCEPT ![c] = now] ELSE settled
    BY <1>3 DEF Ve!Turns
  <2>3. /\ run' \in [Containers -> [up : BOOLEAN, health : Health, restarts : Nat]]
        /\ run'[c].up = run[c].up /\ run'[c].restarts = run[c].restarts /\ run'[c].health = health
        /\ \A o \in Containers \ {c} : run'[o] = run[o]
    BY <1>1, <2>1 DEF VeInv, VeTypeOK, Health
  <2>4. /\ settled' \in [Containers -> Nat] /\ \A o \in Containers \ {c} : settled'[o] = settled[o]
        /\ run[c].health # "starting" => settled' = settled
        /\ settled'[c] \in {settled[c], now}
    BY <1>1, <2>2 DEF VeInv, VeTypeOK
  <2>5. VeTypeOK' /\ RoundFits' /\ Ve!PassedIsEarned'
    BY <1>1, <2>2, <2>3, <2>4 DEF VeInv, VeTypeOK, RoundFits, Ve!PassedIsEarned
  <2>6. SettledFits'
    <3>1. \A o \in Containers : \A moment : SettledBy(o, moment) => SettledBy(o, moment)'
      BY <2>2, <2>3, <2>4 DEF SettledBy
    <3>2. watch.all \subseteq Containers
      BY DEF VeInv, VeTypeOK, Watch
    <3>3. Quick => \A o \in Containers : settled'[o] <= now
      BY <1>1, <2>4 DEF VeInv, SettledFits, WindowFits
    <3>4. QED BY <1>1, <3>1, <3>2, <3>3 DEF VeInv, SettledFits, WindowFits, Quick
  <2>7. \A o \in Containers : CrashShows(o)' /\ ReadCalm(o)'
    BY <1>1, <2>2, <2>3 DEF VeInv, CrashShows, ReadCalm
  <2>8. QED BY <2>5, <2>6, <2>7 DEF VeInv
<1>4. QED BY <1>2, <1>3

(* Nothing is read, and the verdict is none or bad.                        *)
LEMMA CheckFails ==
  ASSUME VeInv, verdict = "none", verdict' = "failed", faults' \in Nat,
         UNCHANGED <<now, run, watch, calm, settled, read>>
  PROVE  VeInv'
<1>1. VeTypeOK' /\ RoundFits' /\ SettledFits' /\ Ve!PassedIsEarned'
  BY DEF VeInv, VeTypeOK, RoundFits, SettledFits, WindowFits, Quick, Ve!PassedIsEarned
<1>2. QED BY <1>1 DEF VeInv, CrashShows, ReadCalm

(* A round begins.                                                         *)
LEMMA RoundBegins ==
  ASSUME VeInv, watch.at \in {"list", "sleep"}, now' \in Nat, now <= now', watch' = Ve!Round(now'),
         verdict = "none", UNCHANGED <<run, verdict, calm, settled, read, faults>>
  PROVE  VeInv'
<1>1. /\ watch \in Watch
      /\ watch' = [watch EXCEPT !.at = "read", !.round = now', !.todo = watch.all, !.good = TRUE]
  BY DEF VeInv, VeTypeOK, Ve!Round
<1>2. /\ watch' \in Watch /\ watch'.at = "read" /\ watch'.round = now' /\ watch'.todo = watch.all
      /\ watch'.all = watch.all /\ watch'.base = watch.base /\ watch'.since = watch.since
      /\ watch'.kind = watch.kind
  BY <1>1 DEF Watch
<1>3. VeTypeOK' /\ RoundFits' /\ Ve!PassedIsEarned'
  BY <1>2 DEF VeInv, VeTypeOK, RoundFits, Ve!PassedIsEarned
<1>4. SettledFits'
  <2>. SUFFICES ASSUME Quick'
                PROVE  /\ watch'.round <= now' /\ \A c \in Containers : settled[c] <= now'
                       /\ watch.since # Ve!Never =>
                            /\ watch.since <= now'
                            /\ \A c \in watch.all : watch.base[c] # Ve!Unread /\ SettledBy(c, watch.since)'
    BY <1>2 DEF SettledFits, WindowFits
  <2>1. Quick /\ SettledFits
    BY <1>2 DEF Quick, VeInv
  <2>2. now \in Nat /\ settled \in [Containers -> Nat] /\ watch.round \in Nat /\ watch.since \in Int
    BY <1>1 DEF VeInv, VeTypeOK, Watch, Count, Ve!Unread
  <2>3. \A c \in watch.all : SettledBy(c, watch.since) => SettledBy(c, watch.since)'
    BY <1>2 DEF SettledBy
  <2>4. \A c \in Containers : settled[c] <= now'
    BY <2>1, <2>2 DEF SettledFits, WindowFits
  <2>5. QED BY <1>2, <2>1, <2>2, <2>3, <2>4 DEF SettledFits, WindowFits
<1>5. \A c \in Containers : CrashShows(c)' /\ ReadCalm(c)'
  BY <1>2 DEF VeInv, CrashShows, ReadCalm
<1>6. QED BY <1>3, <1>4, <1>5 DEF VeInv

(* A container is read, and is as it should be.                            *)
LEMMA ContainerIsRead ==
  ASSUME VeInv, NEW c \in Containers, verdict = "none", watch.at = "read", c \in watch.todo, ~Ve!Bad(c),
         watch' = [watch EXCEPT !.todo = @ \ {c}, !.base[c] = Ve!Base(c), !.good = @ /\ ~Ve!Waits(c),
                                !.at = IF watch.todo = {c} THEN "decide" ELSE "read"],
         calm' = [calm EXCEPT ![c] = @ \/ watch.base[c] = Ve!Unread],
         read' = [read EXCEPT ![c] = [calm |-> calm'[c], at |-> now, from |-> settled[c]]],
         UNCHANGED <<now, run, verdict, settled, faults>>
  PROVE  VeInv'
<1>1. /\ watch \in Watch /\ run[c] \in [up : BOOLEAN, health : Health, restarts : Nat]
      /\ run[c].up /\ run[c].restarts <= Ve!Base(c) /\ settled[c] \in Nat /\ now \in Nat
      /\ watch.base[c] \in Count /\ calm[c] \in BOOLEAN
  <2>1. /\ watch \in Watch /\ run[c] \in [up : BOOLEAN, health : Health, restarts : Nat]
        /\ settled[c] \in Nat /\ now \in Nat /\ calm[c] \in BOOLEAN
    BY DEF VeInv, VeTypeOK
  <2>2. watch.base[c] \in Count
    BY <2>1 DEF Watch
  <2>3. Ve!Base(c) \in Int
    BY <2>1, <2>2 DEF Ve!Base, Count, Ve!Unread
  <2>4. QED BY <2>1, <2>2, <2>3 DEF Ve!Bad
<1>2. Ve!Base(c) \in Nat /\ (watch.base[c] # Ve!Unread => Ve!Base(c) = watch.base[c])
      /\ (watch.base[c] = Ve!Unread => Ve!Base(c) = run[c].restarts)
  BY <1>1 DEF Ve!Base, Count, Ve!Unread
<1>3. /\ calm' \in [Containers -> BOOLEAN] /\ \A o \in Containers \ {c} : calm'[o] = calm[o]
      /\ calm'[c] = TRUE
      /\ watch.base[c] # Ve!Unread => calm[c] = TRUE
  <2>1. watch.base[c] # Ve!Unread => calm[c] = TRUE
    <3>1. CrashShows(c)
      BY DEF VeInv
    <3>2. QED BY <1>1, <1>2, <3>1 DEF CrashShows
  <2>2. calm \in [Containers -> BOOLEAN] /\ (calm[c] \/ watch.base[c] = Ve!Unread) = TRUE
    BY <2>1 DEF VeInv, VeTypeOK
  <2>3. QED BY <2>1, <2>2
<1>4. /\ read' \in [Containers -> [calm : BOOLEAN, at : Nat, from : Nat]]
      /\ \A o \in Containers \ {c} : read'[o] = read[o]
      /\ read'[c].calm = TRUE /\ read'[c].at = now /\ read'[c].from = settled[c]
  <2>1. [calm |-> calm'[c], at |-> now, from |-> settled[c]] \in [calm : BOOLEAN, at : Nat, from : Nat]
    BY <1>1, <1>3
  <2>2. QED BY <1>3, <2>1 DEF VeInv, VeTypeOK
<1>5. /\ watch' \in Watch /\ watch'.todo = watch.todo \ {c} /\ watch'.all = watch.all
      /\ watch'.at = IF watch.todo = {c} THEN "decide" ELSE "read"
      /\ watch'.since = watch.since /\ watch'.round = watch.round /\ watch'.kind = watch.kind
      /\ watch'.base = [watch.base EXCEPT ![c] = Ve!Base(c)]
      /\ watch'.good => watch.good /\ ~Ve!Waits(c)
  <2>1. (watch.good /\ ~Ve!Waits(c)) \in BOOLEAN
    BY Zenon
  <2>2. [watch.base EXCEPT ![c] = Ve!Base(c)] \in [Containers -> Count]
    BY <1>1, <1>2 DEF Watch, Count
  <2>3. QED BY <1>1, <2>1, <2>2 DEF Watch
<1>6. /\ watch'.base[c] = Ve!Base(c) /\ watch'.base[c] # Ve!Unread
      /\ \A o \in Containers \ {c} : watch'.base[o] = watch.base[o]
  <2>1. watch.base \in [Containers -> Count] /\ Ve!Base(c) # Ve!Unread
    BY <1>1, <1>2 DEF Watch, Ve!Unread
  <2>2. QED BY <1>5, <2>1
<1>7. VeTypeOK' /\ Ve!PassedIsEarned'
  BY <1>3, <1>4, <1>5 DEF VeInv, VeTypeOK, Ve!PassedIsEarned
<1>8. watch.all \subseteq Containers /\ watch.todo \subseteq watch.all
  BY <1>1 DEF VeInv, RoundFits, Watch
<1>9. RoundFits'
  BY <1>5, <1>6, <1>8 DEF VeInv, RoundFits
<1>10. \A o \in Containers : CrashShows(o)' /\ ReadCalm(o)'
  <2>1. CrashShows(c)' /\ ReadCalm(c)'
    BY <1>1, <1>2, <1>3, <1>4, <1>6 DEF CrashShows, ReadCalm, VeInv
  <2>2. QED BY <1>3, <1>4, <1>6, <2>1 DEF VeInv, CrashShows, ReadCalm
<1>11. SettledFits'
  <2>. SUFFICES ASSUME Quick' PROVE WindowFits'
    BY DEF SettledFits
  <2>1. Quick /\ SettledFits
    BY <1>5 DEF Quick, VeInv
  <2>2. now = watch.round /\ settled[c] <= now
    BY <2>1 DEF SettledFits, WindowFits
  <2>3. watch.since # Ve!Never => settled[c] <= watch.since
    BY <1>3, <1>8, <2>1 DEF SettledFits, WindowFits, SettledBy
  <2>5. watch'.good => SettledBy(c, watch.round)'
    BY <1>5, <2>1, <2>2 DEF SettledBy, Ve!Waits, Quick
  <2>6. ASSUME NEW o \in watch.all, o \notin watch.todo \/ o = c
        PROVE  /\ read'[o].at = watch.round /\ read'[o].from <= watch.round
               /\ watch.since # Ve!Never => read'[o].from <= watch.since
               /\ watch'.good => SettledBy(o, watch.round)'
    <3>0. o \in Containers
      BY <1>8
    <3>1. CASE o = c
      BY <1>4, <2>2, <2>3, <2>5, <3>1
    <3>2. CASE o # c
      <4>1. /\ read[o].at = watch.round /\ read[o].from <= watch.round
            /\ watch.since # Ve!Never => read[o].from <= watch.since
            /\ watch.good => SettledBy(o, watch.round)
        BY <2>1, <2>6, <3>2 DEF SettledFits, WindowFits
      <4>2. SettledBy(o, watch.round) => SettledBy(o, watch.round)'
        BY <1>3, <1>5, <3>0, <3>2 DEF SettledBy
      <4>3. QED BY <1>4, <1>5, <3>0, <3>2, <4>1, <4>2
    <3>3. QED BY <3>1, <3>2
  <2>7. ASSUME watch.since # Ve!Never, NEW o \in watch.all
        PROVE  watch'.base[o] # Ve!Unread /\ SettledBy(o, watch.since)'
    <3>1. watch.base[o] # Ve!Unread /\ SettledBy(o, watch.since) /\ o \in Containers
      BY <1>8, <2>1, <2>7 DEF SettledFits, WindowFits
    <3>2. calm'[o] = calm[o]
      BY <1>3, <3>1
    <3>3. QED BY <1>5, <1>6, <3>1, <3>2 DEF SettledBy
  <2>8. QED BY <1>5, <2>1, <2>2, <2>6, <2>7 DEF SettledFits, WindowFits
<1>12. QED BY <1>7, <1>9, <1>10, <1>11 DEF VeInv

(* The end of a round: a verdict, or the wait for the next.                *)
LEMMA RoundEnds ==
  ASSUME VeConstants, VeInv, Ve!Decide
  PROVE  VeInv'
<1>1. /\ verdict = "none" /\ watch.at = "decide" /\ watch \in Watch /\ faults \in Nat
      /\ UNCHANGED <<now, run, calm, settled, read, faults>>
  BY DEF Ve!Decide, Ve!Watching, VeInv, VeTypeOK
<1>2. /\ watch.todo = {} /\ watch.all \subseteq Containers /\ watch.round \in Nat
      /\ watch.since \in Int /\ watch.good \in BOOLEAN
  BY <1>1 DEF VeInv, RoundFits, Watch, Count, Ve!Unread
<1>3. ASSUME Quick
      PROVE  /\ WindowFits
             /\ \A c \in watch.all : /\ read[c].at = watch.round /\ read[c].from <= watch.round
                                     /\ watch.since # Ve!Never => read[c].from <= watch.since
                                     /\ watch.good => SettledBy(c, watch.round)
  BY <1>1, <1>2, <1>3 DEF VeInv, SettledFits, WindowFits
<1>4. CASE Ve!Steady /\ verdict' = "passed" /\ UNCHANGED watch
  <2>1. Ve!PassedIsEarned'
    <3>. SUFFICES ASSUME NEW c \in watch.all
                  PROVE  /\ read[c].calm
                         /\ watch.kind # "canary" /\ faults = 0 => read[c].at - read[c].from >= StableFor
      BY <1>1, <1>4 DEF Ve!PassedIsEarned
    <3>1. read[c].calm
      BY <1>2 DEF VeInv, ReadCalm
    <3>2. ASSUME watch.kind # "canary", faults = 0 PROVE read[c].at - read[c].from >= StableFor
      <4>1. Quick
        BY <1>1, <3>2 DEF Quick
      <4>2. watch.good /\ watch.round - Ve!Since >= StableFor
        BY <1>4, <3>2 DEF Ve!Steady
      <4>3. read[c].from \in Nat /\ c \in Containers
        BY <1>2 DEF VeInv, VeTypeOK
      <4>4. QED BY <1>2, <1>3, <4>1, <4>2, <4>3 DEF VeConstants, Ve!Since
    <3>3. QED BY <3>1, <3>2
  <2>2. VeTypeOK' /\ RoundFits' /\ SettledFits'
    BY <1>1, <1>4 DEF VeInv, VeTypeOK, RoundFits, SettledFits, Quick
  <2>3. QED BY <1>1, <1>4, <2>1, <2>2 DEF VeInv, CrashShows, ReadCalm
<1>5. CASE Ve!Fails
  BY <1>1, <1>5, CheckFails DEF Ve!Fails
<1>6. CASE watch' = [watch EXCEPT !.since = Ve!Since, !.at = "sleep"] /\ UNCHANGED verdict
  <2>1. Ve!Since \in Count
    BY <1>1, <1>2 DEF Watch, Count, Ve!Since, Ve!Never, Ve!Unread
  <2>2. /\ watch' \in Watch /\ watch'.at = "sleep" /\ watch'.since = Ve!Since /\ watch'.todo = {}
        /\ watch'.all = watch.all /\ watch'.round = watch.round /\ watch'.kind = watch.kind
        /\ watch'.base = watch.base
    BY <1>1, <1>2, <1>6, <2>1 DEF Watch
  <2>3. VeTypeOK' /\ Ve!PassedIsEarned' /\ RoundFits'
    BY <1>1, <1>2, <1>6, <2>2 DEF VeInv, VeTypeOK, RoundFits, Ve!PassedIsEarned
  <2>4. SettledFits'
    <3>. SUFFICES ASSUME Quick PROVE WindowFits'
      BY <1>1, <1>6, <2>2 DEF SettledFits, Quick
    <3>1. Ve!Since # Ve!Never => Ve!Since <= watch.round
      BY <1>2, <1>3 DEF WindowFits, Ve!Since
    <3>2. ASSUME Ve!Since # Ve!Never, NEW c \in watch.all
          PROVE  watch.base[c] # Ve!Unread /\ SettledBy(c, Ve!Since)
      <4>1. watch.base[c] # Ve!Unread
        BY <1>1, <1>2 DEF VeInv, RoundFits
      <4>2. QED BY <1>3, <3>2, <4>1 DEF WindowFits, Ve!Since
    <3>3. ASSUME Ve!Since # Ve!Never, NEW c \in watch.all
          PROVE  SettledBy(c, watch.since)'
      BY <1>1, <2>2, <3>2, <3>3 DEF SettledBy
    <3>4. watch.round <= now /\ \A c \in Containers : settled[c] <= now
      BY <1>3 DEF WindowFits
    <3>5. QED BY <1>1, <2>2, <3>1, <3>2, <3>3, <3>4 DEF WindowFits
  <2>5. QED BY <1>1, <2>2, <2>3, <2>4 DEF VeInv, CrashShows, ReadCalm
<1>7. QED BY <1>4, <1>5, <1>6 DEF Ve!Decide

LEMMA StepVerify ==
  ASSUME VeConstants, VeInv, [Ve!Next]_Ve!verifyVars
  PROVE  VeInv'
<1>1. now \in Nat /\ faults \in Nat /\ watch \in Watch
  BY DEF VeInv, VeTypeOK
<1>2. Ve!Fault => faults' \in Nat /\ faults' > 0
  BY <1>1 DEF Ve!Fault
<1>3. ASSUME NEW c \in Containers, Ve!Read(c) PROVE VeInv'
  <2>1. /\ verdict = "none" /\ watch.at = "read" /\ c \in watch.todo
        /\ UNCHANGED <<now, run, settled>>
    BY <1>3 DEF Ve!Read, Ve!Watching
  <2>2. CASE Ve!Fails /\ UNCHANGED <<calm, read>> /\ faults' \in Nat
    BY <2>1, <2>2, CheckFails DEF Ve!Fails
  <2>3. CASE ~Ve!Bad(c) /\ ~(Ve!Fails /\ UNCHANGED <<calm, read>> /\ faults' \in Nat)
    BY <1>1, <1>2, <1>3, <2>1, <2>3, ContainerIsRead DEF Ve!Read
  <2>4. QED BY <1>1, <1>2, <1>3, <2>2, <2>3 DEF Ve!Read
<1>4. CASE Ve!List
  <2>1. CASE Ve!Fault /\ Ve!Fails
    BY <1>2, <1>4, <2>1, CheckFails DEF Ve!List, Ve!Fails, Ve!Watching
  <2>2. CASE watch' = Ve!Round(now) /\ UNCHANGED <<verdict, faults>>
    BY <1>1, <1>4, <2>2, RoundBegins DEF Ve!List, Ve!Watching, Ve!Round
  <2>3. QED BY <1>4, <2>1, <2>2 DEF Ve!List
<1>5. CASE Ve!Slow
  <2>1. /\ now' \in Nat /\ faults' \in Nat /\ faults' > 0 /\ verdict = "none"
        /\ UNCHANGED <<run, watch, verdict, calm, settled, read>>
    BY <1>1, <1>2, <1>5 DEF Ve!Slow, Ve!Watching
  <2>2. VeTypeOK' /\ RoundFits' /\ SettledFits' /\ Ve!PassedIsEarned'
    BY <2>1 DEF VeInv, VeTypeOK, RoundFits, SettledFits, Quick, Ve!PassedIsEarned
  <2>3. QED BY <2>1, <2>2 DEF VeInv, CrashShows, ReadCalm
<1>6. CASE Ve!Sleep
  BY <1>1, <1>6, RoundBegins DEF Ve!Sleep, Ve!Watching, VeConstants
<1>7. CASE UNCHANGED Ve!verifyVars
  <2>1. UNCHANGED <<now, run, watch, verdict, calm, settled, read, faults>>
    BY <1>7 DEF Ve!verifyVars
  <2>2. VeTypeOK' /\ RoundFits' /\ SettledFits' /\ Ve!PassedIsEarned'
    BY <2>1 DEF VeInv, VeTypeOK, RoundFits, SettledFits, WindowFits, SettledBy, Quick, Ve!PassedIsEarned
  <2>3. QED BY <2>1, <2>2 DEF VeInv, CrashShows, ReadCalm
<1>8. QED BY <1>3, <1>4, <1>5, <1>6, <1>7, ContainersChange, RoundEnds DEF Ve!Next

LEMMA VerdictFollows ==
  VeInv => Ve!PassedIsEarned
BY DEF VeInv

LEMMA VerdictInvariant == Ve!Spec => []VeInv
<1>1. VeConstants
  BY VerifyAssumption DEF VeConstants
<1>2. VeInv /\ [Ve!Next]_Ve!verifyVars => VeInv'
  BY <1>1, StepVerify
<1>3. QED BY <1>2, InitVerify, PTL DEF Ve!Spec

(* A check that passes watched containers that have not crashed since it   *)
(* took their counts and that were ready for the whole of its window, as   *)
(* long as no reading was slow.                                            *)
THEOREM VerdictsAreEarned == Ve!Spec => []Ve!PassedIsEarned
<1>1. QED BY VerdictInvariant, VerdictFollows, PTL

----------------------------------------------------------------------------
(* StackOps.                                                               *)

StConstants == IsFiniteSet(DOMAIN StackSize) /\ StackSize \in [DOMAIN StackSize -> Nat]

(* SetToSeq's sequence is of the set's members, each of them.              *)
LEMMA SequenceOfSet ==
  ASSUME NEW S, IsFiniteSet(S)
  PROVE  /\ St!SetToSeq(S) \in Seq(S)
         /\ \A x \in S : \E i \in DOMAIN St!SetToSeq(S) : St!SetToSeq(S)[i] = x
         /\ Len(St!SetToSeq(S)) = Cardinality(S)
<1>1. Cardinality(S) \in Nat /\ ExistsBijection(1..Cardinality(S), S)
  BY FS_CardinalityType
<1>2. PICK f \in [1..Cardinality(S) -> S] : St!IsInjective(f)
  BY <1>1 DEF ExistsBijection, Bijection, Injection, IsInjective, St!IsInjective
<1>. DEFINE seq == St!SetToSeq(S)
<1>3. seq \in [1..Cardinality(S) -> S] /\ St!IsInjective(seq)
  <2>1. Cardinality(S) = St!Cardinality(S)
    BY Zenon DEF Cardinality, St!Cardinality
  <2>2. QED BY <1>2, <2>1 DEF St!SetToSeq
<1>4. IsFiniteSet(1..Cardinality(S)) /\ Cardinality(1..Cardinality(S)) = Cardinality(S)
  BY <1>1, UpToIsFinite
<1>5. seq \in Injection(1..Cardinality(S), S)
  BY <1>3 DEF Injection, IsInjective, St!IsInjective
<1>6. seq \in Surjection(1..Cardinality(S), S)
  BY <1>4, <1>5, FS_Injection
<1>7. \A x \in S : \E i \in 1..Cardinality(S) : seq[i] = x
  BY <1>6 DEF Surjection
<1>8. seq \in Seq(S) /\ Len(seq) = Cardinality(S) /\ DOMAIN seq = 1..Cardinality(S)
  BY <1>1, <1>3
<1>9. QED BY <1>7, <1>8

Stack == DOMAIN StackSize \cup {St!Ingress}
Effects == {"applied", "no-change", "created", "error"}
Result == [stack : DOMAIN StackSize, ok : BOOLEAN, effect : Effects]
StTypeOK ==
  /\ up \in [DOMAIN StackSize -> Nat] /\ dir \subseteq DOMAIN StackSize
  /\ cmd \in [verb : {"none", "up", "down"}, all : BOOLEAN, listed : BOOLEAN, left : Seq(DOMAIN StackSize),
              results : Seq(Result), said : {"none", "refused", "done", "failed"}]
  /\ op \in [verb : {"none", "start", "stop", "create", "restart", "upgrade", "delete"}, stack : Stack,
             at : {"none", "before", "pull", "run", "after", "write", "remove"},
             before : {"none", "running", "stopped", "not-found", "error"}]

Left == {cmd.left[i] : i \in DOMAIN cmd.left}
Touched == {cmd.results[i].stack : i \in DOMAIN cmd.results} \cup IF op = St!NoOp THEN {} ELSE {op.stack}

(* A command has its operations to itself.                                 *)
CommandFits ==
  /\ op.at = "none" => op = St!NoOp
  /\ op.at # "none" => op.stack \in DOMAIN StackSize
  /\ cmd.verb = "none" => cmd = St!NoCmd /\ op.verb # "stop"
  /\ cmd.verb # "none" /\ op.at # "none" =>
       /\ op.verb = IF cmd.verb = "up" THEN "start" ELSE "stop"
       /\ op.at \in {"before", "run", "after"} /\ cmd.said = "none"

(* One on all stacks has before it what it has not touched, in its order.  *)
OrderIsKept == cmd.all /\ cmd.listed =>
  /\ Touched \cup Left = St!Covered(cmd.verb)
  /\ cmd.verb = "up" => \A i \in DOMAIN cmd.left : cmd.left[i] = St!Ingress => i = 1 /\ Touched = {}
  /\ cmd.verb = "down" /\ St!Ingress \in Touched => cmd.left = <<>>
  /\ cmd.verb = "down" => \A i \in DOMAIN cmd.left : cmd.left[i] = St!Ingress => i = Len(cmd.left)

(* What was stopped well is down.                                          *)
StoppedIsDown ==
  /\ cmd.verb = "down" => \A i \in DOMAIN cmd.results :
       cmd.results[i].ok => up[cmd.results[i].stack] = 0
  /\ op.verb = "stop" /\ op.at = "after" => up[op.stack] = 0
  /\ cmd.said = "done" => /\ cmd.left = <<>> /\ op.at = "none"
                          /\ \A i \in DOMAIN cmd.results : cmd.results[i].ok
  /\ ~cmd.listed => cmd.left = <<>> /\ cmd.results = <<>> /\ op.at = "none" /\ cmd.verb = "down"

StInv == StTypeOK /\ CommandFits /\ OrderIsKept /\ StoppedIsDown

LEMMA BracketsFollow ==
  ASSUME StInv
  PROVE  St!IngressBracketsTheRest
<1>. SUFFICES ASSUME cmd.all
              PROVE  IF cmd.verb = "up" THEN Touched # {} /\ St!Ingress \in St!Covered("up") => St!Ingress \in Touched
                     ELSE St!Ingress \in Touched => Touched = dir
  BY DEF St!IngressBracketsTheRest, Touched
<1>1. CASE cmd.listed
  <2>1. cmd.verb # "none"
    BY DEF StInv, CommandFits, St!NoCmd
  <2>2. cmd.verb \in {"up", "down"}
    BY <2>1 DEF StInv, StTypeOK
  <2>3. cmd.left = <<>> => Left = {}
    BY DEF Left
  <2>4. cmd.verb = "up" /\ St!Ingress \in Left => Touched = {}
    BY <1>1 DEF StInv, OrderIsKept, Left
  <2>5. QED BY <1>1, <2>2, <2>3, <2>4 DEF StInv, OrderIsKept, St!Covered
<1>2. CASE ~cmd.listed
  BY <1>2 DEF StInv, StoppedIsDown, CommandFits, Touched
<1>3. QED BY <1>1, <1>2 DEF StInv, StTypeOK

LEMMA DownFollows ==
  ASSUME StInv
  PROVE  St!DownMeansDown
<1>. SUFFICES ASSUME cmd.verb = "down", cmd.all, cmd.listed, cmd.said = "done", NEW s \in dir
              PROVE  up[s] = 0
  BY DEF St!DownMeansDown
<1>1. cmd.left = <<>> /\ op = St!NoOp /\ Left = {}
  BY DEF StInv, StoppedIsDown, CommandFits, Left
<1>2. s \in {cmd.results[i].stack : i \in DOMAIN cmd.results}
  BY <1>1 DEF StInv, OrderIsKept, Touched, St!Covered
<1>3. QED BY <1>2 DEF StInv, StoppedIsDown

LEMMA InitStacks ==
  ASSUME StConstants, St!Init
  PROVE  StInv
<1>1. /\ up \in [DOMAIN StackSize -> Nat] /\ dir = DOMAIN StackSize
      /\ cmd = [verb |-> "none", all |-> FALSE, listed |-> TRUE, left |-> <<>>, results |-> <<>>,
                said |-> "none"]
      /\ op = [verb |-> "none", stack |-> St!Ingress, at |-> "none", before |-> "none"]
  BY DEF St!Init, St!Stacks, St!NoCmd, St!NoOp
<1>2. <<>> \in Seq(DOMAIN StackSize) /\ <<>> \in Seq(Result)
  OBVIOUS
<1>3. StTypeOK
  BY <1>1, <1>2 DEF StTypeOK, Stack
<1>4. QED BY <1>1, <1>3 DEF StInv, CommandFits, OrderIsKept, StoppedIsDown, St!NoOp, St!NoCmd

LEMMA OrderFits ==
  ASSUME NEW set, IsFiniteSet(set), NEW verb
  PROVE  LET all == St!Ordered(verb, set) IN
         /\ all \in Seq(set) /\ \A x \in set : \E i \in DOMAIN all : all[i] = x
         /\ verb = "up" => \A i \in DOMAIN all : all[i] = St!Ingress => i = 1
         /\ verb # "up" => \A i \in DOMAIN all : all[i] = St!Ingress => i = Len(all)
<1>. DEFINE rest == St!SetToSeq(set \ {St!Ingress})
            ingress == St!SetToSeq(set \cap {St!Ingress})
<1>1. /\ IsFiniteSet(set \ {St!Ingress}) /\ IsFiniteSet(set \cap {St!Ingress})
      /\ Cardinality(set \cap {St!Ingress}) = IF St!Ingress \in set THEN 1 ELSE 0
  <2>1. CASE St!Ingress \in set
    BY <2>1, FS_Subset, FS_Singleton, set \cap {St!Ingress} = {St!Ingress}
  <2>2. CASE St!Ingress \notin set
    BY <2>2, FS_Subset, FS_EmptySet, set \cap {St!Ingress} = {}
  <2>3. QED BY <2>1, <2>2
<1>2. /\ rest \in Seq(set \ {St!Ingress}) /\ \A x \in set \ {St!Ingress} : \E i \in DOMAIN rest : rest[i] = x
      /\ ingress \in Seq(set \cap {St!Ingress})
      /\ Len(ingress) = IF St!Ingress \in set THEN 1 ELSE 0
      /\ St!Ingress \in set => ingress[1] = St!Ingress
  <2>1. /\ rest \in Seq(set \ {St!Ingress}) /\ \A x \in set \ {St!Ingress} : \E i \in DOMAIN rest : rest[i] = x
    BY <1>1, SequenceOfSet
  <2>2. ingress \in Seq(set \cap {St!Ingress}) /\ Len(ingress) = IF St!Ingress \in set THEN 1 ELSE 0
    BY <1>1, SequenceOfSet
  <2>. HIDE DEF rest, ingress
  <2>3. St!Ingress \in set => ingress[1] \in set \cap {St!Ingress}
    <3>1. Len(ingress) = 1 => 1 \in 1..Len(ingress)
      OBVIOUS
    <3>2. \A i \in 1..Len(ingress) : ingress[i] \in set \cap {St!Ingress}
      BY <2>2, ElementsOfSeq
    <3>3. QED BY <2>2, <3>1, <3>2
  <2>4. QED BY <2>1, <2>2, <2>3
<1>. HIDE DEF rest, ingress
<1>3. /\ DOMAIN rest = 1..Len(rest) /\ Len(rest) \in Nat /\ DOMAIN ingress = 1..Len(ingress)
      /\ \A i \in DOMAIN rest : rest[i] # St!Ingress /\ rest[i] \in set
      /\ rest \in Seq(set) /\ ingress \in Seq(set)
  <2>1. /\ DOMAIN rest = 1..Len(rest) /\ Len(rest) \in Nat /\ DOMAIN ingress = 1..Len(ingress)
        /\ \A i \in DOMAIN rest : rest[i] \in set \ {St!Ingress}
    BY <1>2, ElementsOfSeq
  <2>2. rest \in Seq(set) /\ ingress \in Seq(set)
    BY <1>2
  <2>3. QED BY <2>1, <2>2
<1>4. CASE verb = "up"
  <2>1. St!Ordered(verb, set) = ingress \o rest
    BY <1>4 DEF St!Ordered, rest, ingress
  <2>. DEFINE all == ingress \o rest
  <2>2. /\ all \in Seq(set) /\ Len(all) = Len(ingress) + Len(rest) /\ DOMAIN all = 1..Len(all)
        /\ \A i \in 1..Len(ingress) : all[i] = ingress[i]
        /\ \A i \in 1..Len(rest) : all[Len(ingress) + i] = rest[i]
    BY <1>3, ElementsOfConcat, ElementsOfSeq
  <2>. HIDE DEF all
  <2>3. Len(ingress) \in Nat
    BY <1>2
  <2>4. ASSUME NEW x \in set PROVE \E i \in DOMAIN all : all[i] = x
    <3>1. CASE x = St!Ingress
      <4>1. 1 \in 1..Len(ingress) /\ 1 \in 1..Len(all)
        BY <1>2, <1>3, <2>2, <3>1
      <4>2. QED BY <1>2, <2>2, <3>1, <4>1
    <3>2. CASE x # St!Ingress
      <4>1. PICK i \in DOMAIN rest : rest[i] = x
        BY <1>2, <3>2
      <4>2. i \in 1..Len(rest) /\ Len(ingress) + i \in 1..Len(all)
        BY <1>3, <2>2, <2>3, <4>1
      <4>3. QED BY <2>2, <4>1, <4>2
    <3>3. QED BY <3>1, <3>2
  <2>5. ASSUME NEW i \in DOMAIN all, all[i] = St!Ingress PROVE i = 1
    <3>1. i - Len(ingress) \notin 1..Len(rest)
      <4>1. i - Len(ingress) \in 1..Len(rest) => all[Len(ingress) + (i - Len(ingress))] = rest[i - Len(ingress)]
        BY <2>2
      <4>2. Len(ingress) + (i - Len(ingress)) = i
        BY <2>2, <2>3, <2>5
      <4>3. QED BY <1>3, <2>5, <4>1, <4>2
    <3>2. QED BY <1>2, <1>3, <2>2, <2>3, <2>5, <3>1
  <2>6. QED BY <1>4, <2>1, <2>2, <2>4, <2>5 DEF all
<1>5. CASE verb # "up"
  <2>1. St!Ordered(verb, set) = rest \o ingress
    BY <1>5 DEF St!Ordered, rest, ingress
  <2>. DEFINE all == rest \o ingress
  <2>2. /\ all \in Seq(set) /\ Len(all) = Len(rest) + Len(ingress) /\ DOMAIN all = 1..Len(all)
        /\ \A i \in 1..Len(rest) : all[i] = rest[i]
        /\ \A i \in 1..Len(ingress) : all[Len(rest) + i] = ingress[i]
    BY <1>3, ElementsOfConcat, ElementsOfSeq
  <2>. HIDE DEF all
  <2>4. ASSUME NEW x \in set PROVE \E i \in DOMAIN all : all[i] = x
    <3>1. CASE x = St!Ingress
      <4>1. 1 \in 1..Len(ingress) /\ Len(rest) + 1 \in 1..Len(all)
        BY <1>2, <1>3, <2>2, <3>1
      <4>2. QED BY <1>2, <2>2, <3>1, <4>1
    <3>2. CASE x # St!Ingress
      <4>1. PICK i \in DOMAIN rest : rest[i] = x
        BY <1>2, <3>2
      <4>2. i \in 1..Len(rest) /\ i \in 1..Len(all)
        BY <1>2, <1>3, <2>2, <4>1
      <4>3. QED BY <2>2, <4>1, <4>2
    <3>3. QED BY <3>1, <3>2
  <2>5. ASSUME NEW i \in DOMAIN all, all[i] = St!Ingress PROVE i = Len(all)
    <3>1. i \notin 1..Len(rest)
      BY <1>3, <2>2, <2>5
    <3>2. QED BY <1>2, <1>3, <2>2, <3>1
  <2>6. QED BY <1>5, <2>1, <2>2, <2>4, <2>5 DEF all
<1>6. QED BY <1>4, <1>5

(* A command is given.                                                     *)
LEMMA CommandIsGiven ==
  ASSUME StConstants, StInv, NEW verb \in {"up", "down"}, NEW force, St!Command(verb, force)
  PROVE  StInv'
<1>1. /\ cmd = St!NoCmd /\ op = St!NoOp /\ op.at = "none" /\ UNCHANGED <<up, dir, op>>
      /\ cmd.results = <<>>
  BY DEF St!Command, St!NoOp, St!NoCmd
<1>. DEFINE Fresh(all, listed, left, said) ==
       [verb |-> verb, all |-> all, listed |-> listed, left |-> left, results |-> <<>>, said |-> said]
<1>2. \/ cmd' = Fresh(FALSE, TRUE, <<>>, "refused")
      \/ cmd' = Fresh(TRUE, TRUE, St!Ordered(verb, St!Covered(verb)), "none")
      \/ verb = "down" /\ cmd' = Fresh(TRUE, FALSE, <<>>, "none")
      \/ \E s \in DOMAIN StackSize : cmd' = Fresh(FALSE, TRUE, <<s>>, "none")
  BY DEF St!Command, St!NoCmd, St!Stacks
<1>3. /\ <<>> \in Seq(DOMAIN StackSize) /\ <<>> \in Seq(Result) /\ \A s \in DOMAIN StackSize : <<s>> \in Seq(DOMAIN StackSize)
  OBVIOUS
<1>4. St!Covered(verb) \subseteq DOMAIN StackSize /\ IsFiniteSet(St!Covered(verb))
  BY FS_Subset DEF St!Covered, StInv, StTypeOK, StConstants
<1>. DEFINE all == St!Ordered(verb, St!Covered(verb))
<1>5. /\ all \in Seq(DOMAIN StackSize) /\ {all[i] : i \in DOMAIN all} = St!Covered(verb)
      /\ verb = "up" => \A i \in DOMAIN all : all[i] = St!Ingress => i = 1
      /\ verb # "up" => \A i \in DOMAIN all : all[i] = St!Ingress => i = Len(all)
  <2>1. /\ all \in Seq(St!Covered(verb)) /\ \A x \in St!Covered(verb) : \E i \in DOMAIN all : all[i] = x
        /\ verb = "up" => \A i \in DOMAIN all : all[i] = St!Ingress => i = 1
        /\ verb # "up" => \A i \in DOMAIN all : all[i] = St!Ingress => i = Len(all)
    BY <1>4, OrderFits
  <2>. HIDE DEF all
  <2>2. all \in Seq(DOMAIN StackSize)
    BY <1>4, <2>1
  <2>3. \A i \in DOMAIN all : all[i] \in St!Covered(verb)
    BY <2>1, ElementsOfSeq
  <2>4. QED BY <2>1, <2>2, <2>3
<1>. HIDE DEF all
<1>6. /\ cmd'.verb = verb /\ cmd'.results = <<>> /\ cmd'.said \in {"none", "refused"}
      /\ cmd' \in [verb : {"none", "up", "down"}, all : BOOLEAN, listed : BOOLEAN, left : Seq(DOMAIN StackSize),
                   results : Seq(Result), said : {"none", "refused", "done", "failed"}]
      /\ ~cmd'.listed => cmd'.left = <<>> /\ verb = "down"
      /\ cmd'.all /\ cmd'.listed => cmd'.left = all
  <2>1. CASE cmd' = Fresh(TRUE, TRUE, all, "none")
    BY <1>3, <1>5, <2>1
  <2>2. CASE \E s \in DOMAIN StackSize : cmd' = Fresh(FALSE, TRUE, <<s>>, "none")
    BY <1>3, <2>2
  <2>3. CASE cmd' = Fresh(FALSE, TRUE, <<>>, "refused")
    BY <1>3, <2>3
  <2>4. CASE verb = "down" /\ cmd' = Fresh(TRUE, FALSE, <<>>, "none")
    BY <1>3, <2>4
  <2>5. all = St!Ordered(verb, St!Covered(verb))
    BY DEF all
  <2>6. QED BY <1>2, <2>1, <2>2, <2>3, <2>4, <2>5
<1>7. StTypeOK'
  BY <1>1, <1>6 DEF StInv, StTypeOK, Stack
<1>8. CommandFits'
  BY <1>1, <1>6 DEF CommandFits
<1>9. OrderIsKept'
  <2>1. Touched' = {}
    BY <1>1, <1>6 DEF Touched, St!NoOp
  <2>2. cmd'.all /\ cmd'.listed => Left' = St!Covered(verb)
    BY <1>5, <1>6 DEF Left
  <2>3. St!Covered(verb)' = St!Covered(verb)
    BY <1>1 DEF St!Covered
  <2>4. QED BY <1>5, <1>6, <2>1, <2>2, <2>3 DEF OrderIsKept
<1>10. StoppedIsDown'
  BY <1>1, <1>6 DEF StoppedIsDown
<1>11. QED BY <1>7, <1>8, <1>9, <1>10 DEF StInv

(* Its next stack is taken, and what is said when there is none.           *)
LEMMA NextIsTaken ==
  ASSUME StInv, St!NextStack
  PROVE  StInv'
<1>1. /\ cmd.verb \in {"up", "down"} /\ cmd.said = "none" /\ op = St!NoOp /\ op.at = "none"
      /\ cmd.left \in Seq(DOMAIN StackSize) /\ cmd.left # <<>> /\ UNCHANGED <<up, dir>>
  BY DEF St!NextStack, St!NoOp, StInv, StTypeOK
<1>2. /\ op' = [verb |-> IF cmd.verb = "up" THEN "start" ELSE "stop", stack |-> cmd.left[1],
                at |-> "before", before |-> "none"]
      /\ cmd' = [cmd EXCEPT !.left = Tail(@)]
  BY <1>1 DEF St!NextStack
<1>3. /\ Tail(cmd.left) \in Seq(DOMAIN StackSize) /\ cmd.left[1] \in DOMAIN StackSize /\ Len(cmd.left) >= 1
      /\ Len(cmd.left) \in Nat /\ DOMAIN cmd.left = 1..Len(cmd.left)
      /\ DOMAIN Tail(cmd.left) = 1..Len(Tail(cmd.left))
      /\ Len(Tail(cmd.left)) = Len(cmd.left) - 1
      /\ \A i \in 1..Len(Tail(cmd.left)) : Tail(cmd.left)[i] = cmd.left[i + 1]
  <2>1. \A s \in Seq(DOMAIN StackSize) : s # <<>> =>
          /\ Tail(s) \in Seq(DOMAIN StackSize) /\ s[1] \in DOMAIN StackSize /\ Len(s) >= 1
          /\ Len(s) \in Nat /\ DOMAIN s = 1..Len(s) /\ DOMAIN Tail(s) = 1..Len(Tail(s))
          /\ Len(Tail(s)) = Len(s) - 1 /\ \A i \in 1..Len(Tail(s)) : Tail(s)[i] = s[i + 1]
    OBVIOUS
  <2>2. QED BY <1>1, <2>1
<1>4. /\ cmd'.verb = cmd.verb /\ cmd'.left = Tail(cmd.left) /\ cmd'.results = cmd.results
      /\ cmd'.all = cmd.all /\ cmd'.listed = cmd.listed /\ cmd'.said = "none"
  BY <1>1, <1>2 DEF StInv, StTypeOK
<1>5. StTypeOK'
  BY <1>1, <1>2, <1>3 DEF StInv, StTypeOK, Stack
<1>6. CommandFits'
  BY <1>1, <1>2, <1>3, <1>4 DEF CommandFits
<1>7. Left = {cmd.left[1]} \cup Left'
  <2>1. ASSUME NEW i \in 1..Len(cmd.left), i # 1 PROVE cmd.left[i] \in Left'
    <3>1. i - 1 \in DOMAIN cmd'.left /\ cmd'.left[i - 1] = cmd.left[i]
      BY <1>3, <1>4, <2>1
    <3>2. QED BY <3>1 DEF Left
  <2>2. ASSUME NEW i \in 1..Len(Tail(cmd.left)) PROVE Tail(cmd.left)[i] \in Left
    <3>1. i + 1 \in 1..Len(cmd.left)
      BY <1>3
    <3>2. QED BY <1>1, <1>3, <3>1 DEF Left
  <2>3. cmd.left[1] \in Left
    BY <1>1, <1>3 DEF Left
  <2>4. \A x \in Left : x = cmd.left[1] \/ x \in Left'
    BY <1>3, <2>1 DEF Left
  <2>5. \A x \in Left' : x \in Left
    BY <1>3, <1>4, <2>2 DEF Left
  <2>6. QED BY <2>3, <2>4, <2>5
<1>8. Touched' = Touched \cup {cmd.left[1]}
  BY <1>1, <1>2, <1>4 DEF Touched, St!NoOp
<1>9. OrderIsKept'
  <2>. SUFFICES ASSUME cmd.all, cmd.listed PROVE OrderIsKept'
    BY <1>4 DEF OrderIsKept
  <2>1. Touched' \cup Left' = St!Covered(cmd.verb)'
    BY <1>1, <1>4, <1>7, <1>8 DEF StInv, OrderIsKept, St!Covered
  <2>2. ASSUME cmd.verb = "up", NEW i \in 1..Len(Tail(cmd.left)), Tail(cmd.left)[i] = St!Ingress
        PROVE  FALSE
    <3>1. i + 1 \in DOMAIN cmd.left /\ cmd.left[i + 1] = St!Ingress /\ i + 1 # 1
      BY <1>1, <1>3, <2>2
    <3>2. QED BY <2>2, <3>1 DEF StInv, OrderIsKept
  <2>3. ASSUME cmd.verb = "down", St!Ingress \in Touched' PROVE Tail(cmd.left) = <<>>
    <3>1. cmd.left[1] = St!Ingress /\ 1 \in DOMAIN cmd.left
      BY <1>1, <1>3, <1>8, <2>3 DEF StInv, OrderIsKept
    <3>2. 1 = Len(cmd.left)
      BY <2>3, <3>1 DEF StInv, OrderIsKept
    <3>3. Len(Tail(cmd.left)) = 0
      BY <1>3, <3>2
    <3>4. \A s \in Seq(DOMAIN StackSize) : Len(s) = 0 => s = <<>>
      OBVIOUS
    <3>5. QED BY <1>3, <3>3, <3>4
  <2>4. ASSUME cmd.verb = "down", NEW i \in 1..Len(Tail(cmd.left)), Tail(cmd.left)[i] = St!Ingress
        PROVE  i = Len(Tail(cmd.left))
    <3>1. i + 1 \in DOMAIN cmd.left /\ cmd.left[i + 1] = St!Ingress
      BY <1>1, <1>3, <2>4
    <3>2. i + 1 = Len(cmd.left)
      BY <2>4, <3>1 DEF StInv, OrderIsKept
    <3>3. QED BY <1>3, <3>2
  <2>5. QED BY <1>3, <1>4, <2>1, <2>2, <2>3, <2>4 DEF OrderIsKept
<1>10. StoppedIsDown'
  BY <1>1, <1>2, <1>4 DEF StInv, StoppedIsDown
<1>11. QED BY <1>5, <1>6, <1>9, <1>10 DEF StInv

(* A command is over, or forgotten.                                        *)
LEMMA CommandEnds ==
  ASSUME StInv, St!Say \/ St!Ends
  PROVE  StInv'
<1>1. UNCHANGED <<up, dir, op>>
  BY DEF St!Say, St!Ends
<1>2. CASE St!Say
  <2>1. /\ op = St!NoOp /\ op.at = "none" /\ cmd.left = <<>> /\ cmd.verb # "none"
        /\ cmd' = [cmd EXCEPT !.said = IF \A i \in DOMAIN cmd.results : cmd.results[i].ok
                                       THEN "done" ELSE "failed"]
    BY <1>2 DEF St!Say, St!NoOp
  <2>2. /\ cmd'.verb = cmd.verb /\ cmd'.left = <<>> /\ cmd'.results = cmd.results /\ cmd'.all = cmd.all
        /\ cmd'.listed = cmd.listed
        /\ cmd'.said = "done" => \A i \in DOMAIN cmd.results : cmd.results[i].ok
    BY <2>1 DEF StInv, StTypeOK
  <2>3. StTypeOK'
    BY <1>1, <2>1 DEF StInv, StTypeOK
  <2>4. Left' = Left /\ Touched' = Touched /\ St!Covered(cmd.verb)' = St!Covered(cmd.verb)
    BY <1>1, <2>1, <2>2 DEF Left, Touched, St!Covered
  <2>5. CommandFits' /\ OrderIsKept' /\ StoppedIsDown'
    BY <1>1, <2>1, <2>2, <2>4 DEF StInv, CommandFits, OrderIsKept, StoppedIsDown
  <2>6. QED BY <2>3, <2>5 DEF StInv
<1>3. CASE St!Ends
  <2>1. /\ cmd.said # "none"
        /\ cmd' = [verb |-> "none", all |-> FALSE, listed |-> TRUE, left |-> <<>>, results |-> <<>>,
                   said |-> "none"]
    BY <1>3 DEF St!Ends, St!NoCmd
  <2>2. <<>> \in Seq(DOMAIN StackSize) /\ <<>> \in Seq(Result)
    OBVIOUS
  <2>3. StTypeOK'
    BY <1>1, <2>1, <2>2 DEF StInv, StTypeOK
  <2>4. CommandFits' /\ OrderIsKept' /\ StoppedIsDown'
    BY <1>1, <2>1 DEF StInv, CommandFits, OrderIsKept, StoppedIsDown, St!NoCmd, St!NoOp
  <2>5. QED BY <2>3, <2>4 DEF StInv
<1>4. QED BY <1>2, <1>3

(* Fewer containers run, of a stack nothing was promised of or of any.     *)
LEMMA FewerRun ==
  ASSUME StInv, NEW s \in DOMAIN StackSize, up' \in [DOMAIN StackSize -> Nat], up[s] = 0 => up'[s] = 0,
         \A t \in DOMAIN StackSize \ {s} : up'[t] = up[t], UNCHANGED <<dir, cmd, op>>
  PROVE  StInv'
<1>1. \A t \in DOMAIN StackSize : up[t] = 0 => up'[t] = 0
  OBVIOUS
<1>2. /\ \A i \in DOMAIN cmd.results : cmd.results[i].stack \in DOMAIN StackSize
      /\ op.at # "none" => op.stack \in DOMAIN StackSize
  <2>1. cmd.results \in Seq(Result)
    BY DEF StInv, StTypeOK
  <2>2. \A i \in DOMAIN cmd.results : cmd.results[i] \in Result
    BY <2>1, ElementsOfSeq
  <2>3. QED BY <2>2 DEF Result, StInv, CommandFits
<1>3. StTypeOK' /\ CommandFits'
  BY DEF StInv, StTypeOK, CommandFits
<1>4. Touched' = Touched /\ Left' = Left /\ St!Covered(cmd.verb)' = St!Covered(cmd.verb)
  BY DEF Touched, Left, St!Covered
<1>5. OrderIsKept'
  BY <1>4 DEF StInv, OrderIsKept
<1>6. StoppedIsDown'
  BY <1>1, <1>2 DEF StInv, StoppedIsDown
<1>7. QED BY <1>3, <1>5, <1>6 DEF StInv

(* An operation of the interface's own moves.                              *)
LEMMA DirectMoves ==
  ASSUME StInv, cmd = St!NoCmd, cmd' = cmd, StTypeOK', op'.verb # "stop",
         op'.at = "none" => op' = St!NoOp, op'.at # "none" => op'.stack \in DOMAIN StackSize
  PROVE  StInv'
<1>1. cmd.results = <<>> /\ cmd.verb = "none" /\ ~cmd.all /\ cmd.listed /\ cmd.said = "none"
  BY DEF St!NoCmd
<1>2. QED BY <1>1 DEF StInv, CommandFits, OrderIsKept, StoppedIsDown

(* One of a command's goes on, on its own stack, or is over.               *)
OnItsStack == /\ up' \in [DOMAIN StackSize -> Nat] /\ \A t \in DOMAIN StackSize \ {op.stack} : up'[t] = up[t]
              /\ op.verb = "stop" /\ up[op.stack] = 0 => up'[op.stack] = 0

LEMMA ResultsName ==
  ASSUME StInv
  PROVE  /\ DOMAIN cmd.results = 1..Len(cmd.results) /\ Len(cmd.results) \in Nat
         /\ \A i \in DOMAIN cmd.results : cmd.results[i] \in Result /\ cmd.results[i].stack \in DOMAIN StackSize
<1>1. cmd.results \in Seq(Result)
  BY DEF StInv, StTypeOK
<1>2. \A i \in DOMAIN cmd.results : cmd.results[i] \in Result
  BY <1>1, ElementsOfSeq
<1>3. QED BY <1>1, <1>2, ElementsOfSeq DEF Result

LEMMA OperationGoesOn ==
  ASSUME StInv, cmd.verb # "none", op.at # "none", OnItsStack, UNCHANGED <<dir, cmd>>, StTypeOK',
         op'.verb = op.verb, op'.stack = op.stack, op'.at \in {"run", "after"},
         op'.verb = "stop" /\ op'.at = "after" => up'[op.stack] = 0
  PROVE  StInv'
<1>1. /\ op # St!NoOp /\ op' # St!NoOp /\ cmd.said = "none" /\ cmd.listed
      /\ op.stack \in DOMAIN StackSize /\ op.verb = IF cmd.verb = "up" THEN "start" ELSE "stop"
  BY DEF StInv, CommandFits, StoppedIsDown, St!NoOp
<1>2. cmd.verb = "down" => op.verb = "stop"
  BY <1>1
<1>3. Touched' = Touched /\ Left' = Left /\ St!Covered(cmd.verb)' = St!Covered(cmd.verb)
  BY <1>1 DEF Touched, Left, St!Covered
<1>4. CommandFits'
  BY <1>1 DEF StInv, CommandFits
<1>5. OrderIsKept'
  BY <1>3 DEF StInv, OrderIsKept
<1>6. StoppedIsDown'
  BY <1>1, <1>2, ResultsName DEF StInv, StoppedIsDown, OnItsStack
<1>7. QED BY <1>4, <1>5, <1>6 DEF StInv

LEMMA OperationEnds ==
  ASSUME StInv, cmd.verb # "none", op.at # "none", OnItsStack, UNCHANGED dir,
         NEW ok \in BOOLEAN, NEW outcome \in Effects, St!Finish(ok, outcome),
         ok /\ op.verb = "stop" => up'[op.stack] = 0
  PROVE  StInv'
<1>1. /\ op # St!NoOp /\ cmd # St!NoCmd /\ cmd.said = "none" /\ cmd.listed
      /\ op.stack \in DOMAIN StackSize /\ op.verb = IF cmd.verb = "up" THEN "start" ELSE "stop"
  BY DEF StInv, CommandFits, StoppedIsDown, St!NoOp, St!NoCmd
<1>. DEFINE row == [stack |-> op.stack, ok |-> ok, effect |-> outcome]
            rows == Append(cmd.results, row)
            n == Len(cmd.results)
<1>2. op' = St!NoOp /\ op'.at = "none" /\ op'.verb = "none" /\ cmd' = [cmd EXCEPT !.results = rows]
  BY <1>1 DEF St!Finish, St!NoOp
<1>3. row \in Result /\ row.stack = op.stack /\ row.ok = ok
  BY <1>1 DEF Result
<1>4. /\ rows \in Seq(Result) /\ DOMAIN rows = 1..(n + 1) /\ rows[n + 1] = row
      /\ \A i \in 1..n : rows[i] = cmd.results[i]
      /\ n \in Nat /\ DOMAIN cmd.results = 1..n
  <2>. HIDE DEF row
  <2>1. cmd.results \in Seq(Result)
    BY DEF StInv, StTypeOK
  <2>2. \A s \in Seq(Result) :
          /\ Append(s, row) \in Seq(Result) /\ DOMAIN Append(s, row) = 1..(Len(s) + 1)
          /\ Append(s, row)[Len(s) + 1] = row /\ \A i \in 1..Len(s) : Append(s, row)[i] = s[i]
          /\ Len(s) \in Nat /\ DOMAIN s = 1..Len(s)
    BY <1>3
  <2>3. QED BY <2>1, <2>2
<1>. HIDE DEF row, rows
<1>5. /\ cmd'.verb = cmd.verb /\ cmd'.left = cmd.left /\ cmd'.all = cmd.all /\ cmd'.said = "none"
      /\ cmd'.results = rows /\ cmd'.listed
  BY <1>1, <1>2 DEF StInv, StTypeOK
<1>6. StTypeOK'
  <2>1. cmd' \in [verb : {"none", "up", "down"}, all : BOOLEAN, listed : BOOLEAN, left : Seq(DOMAIN StackSize),
                  results : Seq(Result), said : {"none", "refused", "done", "failed"}]
    BY <1>2, <1>4 DEF StInv, StTypeOK
  <2>2. QED BY <1>2, <2>1 DEF StInv, StTypeOK, OnItsStack, St!NoOp, Stack
<1>7. CommandFits'
  BY <1>2, <1>5 DEF CommandFits
<1>8. /\ Touched' = Touched /\ Left' = Left /\ St!Covered(cmd.verb)' = St!Covered(cmd.verb)
  <2>1. Touched' = {rows[i].stack : i \in 1..(n + 1)}
    BY <1>2, <1>4, <1>5 DEF Touched
  <2>2. Touched = {cmd.results[i].stack : i \in 1..n} \cup {op.stack}
    BY <1>1, <1>4 DEF Touched
  <2>3. \A i \in 1..(n + 1) : i \in 1..n \/ i = n + 1
    BY <1>4
  <2>4. \A x \in Touched' : x \in Touched
    BY <1>3, <1>4, <2>1, <2>2, <2>3
  <2>5. \A x \in Touched : x \in Touched'
    <3>1. n + 1 \in 1..(n + 1) /\ \A i \in 1..n : i \in 1..(n + 1)
      BY <1>4
    <3>2. op.stack = rows[n + 1].stack
      BY <1>3, <1>4
    <3>3. \A i \in 1..n : cmd.results[i].stack = rows[i].stack
      BY <1>4
    <3>4. QED BY <2>1, <2>2, <3>1, <3>2, <3>3
  <2>6. QED BY <1>5, <2>4, <2>5 DEF Left, St!Covered
<1>9. OrderIsKept'
  BY <1>1, <1>5, <1>8 DEF StInv, OrderIsKept
<1>10. StoppedIsDown'
  <2>. SUFFICES ASSUME cmd.verb = "down", NEW i \in 1..(n + 1), rows[i].ok PROVE up'[rows[i].stack] = 0
    BY <1>2, <1>4, <1>5 DEF StoppedIsDown
  <2>1. CASE i = n + 1
    BY <1>1, <1>3, <1>4, <2>1
  <2>2. CASE i \in 1..n
    <3>1. cmd.results[i].ok /\ i \in DOMAIN cmd.results
      BY <1>4, <2>2
    <3>2. cmd.results[i].stack \in DOMAIN StackSize /\ up[cmd.results[i].stack] = 0
      BY <3>1, ResultsName DEF StInv, StoppedIsDown
    <3>3. CASE cmd.results[i].stack # op.stack
      BY <1>4, <2>2, <3>2, <3>3 DEF OnItsStack
    <3>4. CASE cmd.results[i].stack = op.stack
      BY <1>1, <1>4, <2>2, <3>2, <3>4 DEF OnItsStack
    <3>5. QED BY <3>3, <3>4
  <2>3. QED BY <1>4, <2>1, <2>2
<1>11. QED BY <1>6, <1>7, <1>9, <1>10 DEF StInv

(* What the command or the API does to the running containers.             *)
LEMMA ContainersFit ==
  ASSUME StConstants, StInv, op.stack \in DOMAIN StackSize, St!Works(op.stack) \/ St!Fails(op.stack)
  PROVE  /\ OnItsStack
         /\ St!Works(op.stack) /\ op.verb = "stop" => up'[op.stack] = 0
<1>. DEFINE goal == St!Goal(op.verb, up[op.stack], StackSize[op.stack])
<1>1. /\ goal \in Nat /\ (op.verb = "stop" => goal = 0) /\ up[op.stack] \in Nat
      /\ up \in [DOMAIN StackSize -> Nat]
  <2>1. up[op.stack] \in Nat /\ StackSize[op.stack] \in Nat /\ up \in [DOMAIN StackSize -> Nat]
    BY DEF StInv, StTypeOK, StConstants
  <2>2. QED BY <2>1 DEF St!Goal, St!Stopped, St!Restarted, St!Raised
<1>. HIDE DEF goal
<1>2. PICK n \in Nat : /\ up' = [up EXCEPT ![op.stack] = n]
                       /\ op.verb = "stop" /\ up[op.stack] = 0 => n = 0
                       /\ St!Works(op.stack) => n = goal
  <2>1. CASE St!Works(op.stack)
    BY <1>1, <2>1 DEF St!Works, goal
  <2>2. CASE St!Fails(op.stack) /\ ~St!Works(op.stack)
    <3>1. PICK n \in IF op.stack \in dir THEN St!Between(up[op.stack], goal) ELSE {up[op.stack]} :
                 up' = [up EXCEPT ![op.stack] = n]
      BY <2>2 DEF St!Fails, goal
    <3>2. n \in Nat /\ (op.verb = "stop" /\ up[op.stack] = 0 => n = 0)
      BY <1>1 DEF St!Between
    <3>3. QED BY <2>2, <3>1, <3>2
  <2>3. QED BY <2>1, <2>2
<1>3. QED BY <1>1, <1>2 DEF OnItsStack

(* An operation's steps, of the interface's own and of a command's.        *)
Operation == [verb : {"none", "start", "stop", "create", "restart", "upgrade", "delete"}, stack : Stack,
              at : {"none", "before", "pull", "run", "after", "write", "remove"},
              before : {"none", "running", "stopped", "not-found", "error"}]
OperationMoves == \/ St!Before \/ St!Pull \/ St!Write \/ St!Run \/ St!DeleteByApi \/ St!StopToDelete
                  \/ St!RmTree \/ St!After

LEMMA DirectSteps ==
  ASSUME StConstants, StInv, OperationMoves, cmd.verb = "none"
  PROVE  StInv'
<1>1. /\ cmd = St!NoCmd /\ op.verb # "stop" /\ op \in Operation /\ op.at # "none"
      /\ op.stack \in DOMAIN StackSize /\ up \in [DOMAIN StackSize -> Nat] /\ dir \subseteq DOMAIN StackSize
  BY DEF StInv, StTypeOK, CommandFits, Operation, OperationMoves, St!Before, St!Pull, St!Write, St!Run,
         St!DeleteByApi, St!StopToDelete, St!RmTree, St!After
<1>2. ASSUME NEW next \in {"pull", "run", "after", "write", "remove", "before"},
             NEW verb \in {"start", op.verb}, NEW before \in {op.before, "running", "stopped", "not-found", "error"},
             op' = [op EXCEPT !.at = next, !.verb = verb, !.before = before]
      PROVE  op' \in Operation /\ op'.at # "none" /\ op'.verb # "stop" /\ op'.stack = op.stack
  BY <1>1, <1>2 DEF Operation
<1>3. ASSUME NEW ok, NEW outcome, St!Finish(ok, outcome) PROVE op' = St!NoOp /\ cmd' = cmd
  BY <1>1, <1>3 DEF St!Finish
<1>4. St!NoOp \in Operation /\ St!NoOp.verb # "stop" /\ St!NoOp.at = "none"
  BY DEF St!NoOp, Operation, Stack
<1>5. (St!Works(op.stack) \/ St!Fails(op.stack)) => up' \in [DOMAIN StackSize -> Nat]
  BY <1>1, ContainersFit DEF OnItsStack
<1>6. /\ up' \in [DOMAIN StackSize -> Nat] /\ dir' \subseteq DOMAIN StackSize
  BY <1>1, <1>5 DEF OperationMoves, St!Before, St!Pull, St!Write, St!Run, St!DeleteByApi, St!StopToDelete,
                    St!RmTree, St!After
<1>7. cmd' = cmd /\ (op' = St!NoOp \/ (op' \in Operation /\ op'.at # "none" /\ op'.verb # "stop" /\ op'.stack = op.stack))
  <2>1. CASE St!Before
    <3>1. PICK found \in {"running", "stopped", "not-found", "error"} :
            \/ St!Finish(TRUE, "no-change")
            \/ \E next \in {"write", "pull", "run"} : op' = [op EXCEPT !.before = found, !.at = next] /\ UNCHANGED cmd
      BY <2>1 DEF St!Before
    <3>2. CASE St!Finish(TRUE, "no-change")
      BY <1>3, <3>2
    <3>3. CASE \E next \in {"write", "pull", "run"} : op' = [op EXCEPT !.before = found, !.at = next] /\ UNCHANGED cmd
      BY <1>1, <3>3 DEF Operation
    <3>4. QED BY <3>1, <3>2, <3>3
  <2>2. CASE \E next \in {"run", "after", "remove"} : St!Goes(next)
    BY <1>1, <2>2 DEF St!Goes, Operation
  <2>3. CASE \E ok \in BOOLEAN, outcome \in Effects : St!Finish(ok, outcome)
    BY <1>3, <2>3
  <2>4. CASE St!Write
    <3>1. CASE op' = [op EXCEPT !.at = "before", !.verb = "start"] /\ UNCHANGED cmd
      BY <1>1, <3>1 DEF Operation
    <3>2. QED BY <2>2, <2>3, <2>4, <3>1 DEF St!Write, Effects
  <2>5. CASE St!After
    <3>1. PICK found \in {"running", "stopped", "not-found", "error"} :
            St!Finish(TRUE, IF op.verb = "create" THEN St!Made(found) ELSE St!Effect(found))
      BY <2>5 DEF St!After
    <3>2. QED BY <1>3, <3>1
  <2>6. CASE St!Pull \/ St!Run \/ St!DeleteByApi \/ St!StopToDelete \/ St!RmTree
    BY <2>2, <2>3, <2>6 DEF St!Pull, St!Run, St!DeleteByApi, St!StopToDelete, St!RmTree, Effects
  <2>7. QED BY <2>1, <2>4, <2>5, <2>6 DEF OperationMoves
<1>8. StTypeOK'
  BY <1>4, <1>6, <1>7 DEF StInv, StTypeOK, Operation
<1>9. QED BY <1>1, <1>4, <1>7, <1>8, DirectMoves

LEMMA CommandSteps ==
  ASSUME StConstants, StInv, OperationMoves, cmd.verb # "none"
  PROVE  StInv'
<1>1. /\ op.verb \in {"start", "stop"} /\ op \in Operation /\ op.at \in {"before", "run", "after"}
      /\ op.stack \in DOMAIN StackSize /\ up \in [DOMAIN StackSize -> Nat]
  <2>1. op.at # "none"
    BY DEF OperationMoves, St!Before, St!Pull, St!Write, St!Run, St!DeleteByApi, St!StopToDelete, St!RmTree, St!After
  <2>2. QED BY <2>1 DEF StInv, StTypeOK, CommandFits, Operation
<1>2. CASE St!Before
  <2>1. PICK found \in {"running", "stopped", "not-found", "error"} :
          op' = [op EXCEPT !.before = found, !.at = "run"]
    BY <1>1, <1>2 DEF St!Before
  <2>2. op' \in Operation /\ op'.verb = op.verb /\ op'.stack = op.stack /\ op'.at = "run"
    BY <1>1, <2>1 DEF Operation
  <2>3. UNCHANGED <<up, dir, cmd>>
    BY <1>1, <1>2 DEF St!Before
  <2>4. StTypeOK' /\ OnItsStack
    BY <1>1, <2>2, <2>3 DEF StInv, StTypeOK, Operation, OnItsStack
  <2>5. QED BY <1>1, <2>2, <2>3, <2>4, OperationGoesOn
<1>3. CASE St!Run
  <2>1. CASE St!Works(op.stack) /\ St!Goes("after")
    <3>1. op' \in Operation /\ op'.verb = op.verb /\ op'.stack = op.stack /\ op'.at = "after"
      BY <1>1, <2>1 DEF St!Goes, Operation
    <3>2. OnItsStack /\ (op.verb = "stop" => up'[op.stack] = 0) /\ UNCHANGED <<dir, cmd>>
      BY <1>1, <1>3, <2>1, ContainersFit DEF St!Run, St!Goes
    <3>3. StTypeOK'
      BY <3>1, <3>2 DEF StInv, StTypeOK, Operation, OnItsStack
    <3>4. QED BY <1>1, <3>1, <3>2, <3>3, OperationGoesOn
  <2>2. CASE St!Fails(op.stack) /\ St!Finish(FALSE, "error")
    <3>1. OnItsStack /\ UNCHANGED dir
      BY <1>1, <1>3, <2>2, ContainersFit DEF St!Run
    <3>2. "error" \in Effects
      BY DEF Effects
    <3>3. QED BY <1>1, <2>2, <3>1, <3>2, OperationEnds
  <2>3. QED BY <1>1, <1>3, <2>1, <2>2 DEF St!Run
<1>4. CASE St!After
  <2>1. PICK found \in {"running", "stopped", "not-found", "error"} : St!Finish(TRUE, St!Effect(found))
    BY <1>1, <1>4 DEF St!After
  <2>2. St!Effect(found) \in Effects
    BY DEF St!Effect, Effects
  <2>3. UNCHANGED <<up, dir>> /\ OnItsStack /\ (op.verb = "stop" => up'[op.stack] = 0)
    BY <1>1, <1>4 DEF St!After, OnItsStack, StInv, StoppedIsDown
  <2>4. QED BY <1>1, <2>1, <2>2, <2>3, OperationEnds
<1>5. QED BY <1>1, <1>2, <1>3, <1>4
      DEF OperationMoves, St!Pull, St!Write, St!DeleteByApi, St!StopToDelete, St!RmTree

LEMMA StepStacks ==
  ASSUME StConstants, StInv, [St!Next]_St!stackVars
  PROVE  StInv'
<1>1. up \in [DOMAIN StackSize -> Nat] /\ op \in Operation
  BY DEF StInv, StTypeOK, Operation
<1>2. ASSUME NEW verb \in {"create", "restart", "upgrade", "delete"}, NEW s \in DOMAIN StackSize, St!Direct(verb, s)
      PROVE  StInv'
  <2>1. /\ cmd = St!NoCmd /\ UNCHANGED <<up, dir, cmd>>
        /\ op' = [verb |-> verb, stack |-> s, before |-> "none",
                  at |-> IF verb = "create" /\ provider = "systemd" THEN "write" ELSE "before"]
    BY <1>2 DEF St!Direct
  <2>2. StTypeOK'
    BY <2>1 DEF StInv, StTypeOK, Stack
  <2>3. QED BY <2>1, <2>2, DirectMoves
<1>3. CASE St!Dies
  <2>1. PICK s \in DOMAIN StackSize : up[s] > 0 /\ up' = [up EXCEPT ![s] = @ - 1]
    BY <1>3 DEF St!Dies, St!Stacks
  <2>2. up' \in [DOMAIN StackSize -> Nat] /\ \A t \in DOMAIN StackSize \ {s} : up'[t] = up[t]
    BY <1>1, <2>1
  <2>3. QED BY <1>1, <1>3, <2>1, <2>2, FewerRun DEF St!Dies
<1>4. CASE St!CoreChanges \/ UNCHANGED St!stackVars
  <2>1. UNCHANGED <<up, dir, cmd, op>>
    BY <1>4 DEF St!CoreChanges, St!stackVars
  <2>2. Touched' = Touched /\ Left' = Left /\ St!Covered(cmd.verb)' = St!Covered(cmd.verb)
    BY <2>1 DEF Touched, Left, St!Covered
  <2>3. QED BY <2>1, <2>2 DEF StInv, StTypeOK, CommandFits, OrderIsKept, StoppedIsDown
<1>5. ASSUME NEW verb \in {"up", "down"}, NEW force \in BOOLEAN, St!Command(verb, force) PROVE StInv'
  BY <1>5, CommandIsGiven
<1>6. CASE OperationMoves
  BY <1>6, DirectSteps, CommandSteps
<1>7. CASE St!NextStack \/ St!Say \/ St!Ends
  BY <1>7, NextIsTaken, CommandEnds
<1>8. QED BY <1>2, <1>3, <1>4, <1>5, <1>6, <1>7 DEF St!Next, OperationMoves, St!Stacks

----------------------------------------------------------------------------
(* WeeklyPass.                                                             *)

(* One window opens in every week.                                         *)
LEMMA WindowsAreMultiples ==
  ASSUME NEW w \in Nat \ {0}, NEW t \in Int
  PROVE  t % w = 0 <=> \E q \in Int : t = q * w
<1>1. t \div w \in Int
  OBVIOUS
<1>2. t = w * (t \div w) + (t % w)
  OBVIOUS
<1>3. ASSUME t % w = 0 PROVE t = (t \div w) * w
  BY <1>1, <1>2, <1>3
<1>4. ASSUME NEW q \in Int, t = q * w PROVE t % w = 0
  BY <1>4
<1>5. QED BY <1>1, <1>3, <1>4

LEMMA OneWindow ==
  ASSUME NEW w \in Nat \ {0}, NEW p \in Int, NEW q \in Int, p * w < q * w + w
  PROVE  p <= q
<1>1. ASSUME p >= q + 1 PROVE FALSE
  <2>1. p - q - 1 \in Nat
    BY <1>1
  <2>2. \A a, b \in Nat : a * b \in Nat
    OBVIOUS
  <2>3. (p - q - 1) * w >= 0
    BY <2>1, <2>2
  <2>4. (p - q - 1) * w = p * w - q * w - w
    OBVIOUS
  <2>5. p * w \in Int /\ q * w \in Int
    OBVIOUS
  <2>6. QED BY <2>3, <2>4, <2>5
<1>2. QED BY <1>1

LEMMA NextWindowIs ==
  ASSUME Week \in Nat \ {0}, NEW wall \in Int
  PROVE  /\ We!NextWindow(wall) \in (wall + 1)..(wall + Week) /\ We!NextWindow(wall) % Week = 0
         /\ \A t \in (wall + 1)..(wall + Week) : t % Week = 0 => t = We!NextWindow(wall)
<1>1. \E t \in (wall + 1)..(wall + Week) : t % Week = 0
  <2>. DEFINE rest == wall % Week
              t == wall + Week - rest
  <2>1. rest \in 0..(Week - 1) /\ wall \div Week \in Int
    OBVIOUS
  <2>2. wall = Week * (wall \div Week) + rest
    OBVIOUS
  <2>3. t = (wall \div Week + 1) * Week
    BY <2>1, <2>2
  <2>. HIDE DEF t, rest
  <2>4. t % Week = 0
    <3>1. wall \div Week + 1 \in Int /\ t \in Int
      BY <2>1 DEF t
    <3>2. \E q \in Int : t = q * Week
      BY <2>3, <3>1
    <3>3. QED BY <3>1, <3>2, WindowsAreMultiples
  <2>5. QED BY <2>1, <2>4 DEF t
<1>2. We!NextWindow(wall) \in (wall + 1)..(wall + Week) /\ We!NextWindow(wall) % Week = 0
  BY <1>1 DEF We!NextWindow
<1>3. ASSUME NEW s \in (wall + 1)..(wall + Week), NEW t \in (wall + 1)..(wall + Week),
             s % Week = 0, t % Week = 0
      PROVE  s = t
  <2>. s \in Int /\ t \in Int
    OBVIOUS
  <2>1. PICK p \in Int : s = p * Week
    BY <1>3, WindowsAreMultiples
  <2>2. PICK q \in Int : t = q * Week
    BY <1>3, WindowsAreMultiples
  <2>3. s < t + Week /\ t < s + Week
    OBVIOUS
  <2>4. p <= q /\ q <= p
    BY <2>1, <2>2, <2>3, OneWindow
  <2>5. p = q
    BY <2>4
  <2>6. QED BY <2>1, <2>2, <2>5
<1>4. QED BY <1>2, <1>3

(* A pass and everything else between two windows take less than a week,   *)
(* the sleep that clears one is as long as the clock is put back, and the  *)
(* mark a pass ends with is not a service's name.                          *)
WeConstants == /\ Eligible \in Seq(STRING \ {"ending"})
               /\ Week \in Nat \ {0} /\ {BusyRetry, MaxWait, Clear, Shift, MaxPatches} \subseteq Nat
               /\ Shift <= Clear /\ Shift + MaxWait + BusyRetry + MaxPatches + Clear + 1 < Week

Fates == [image : {"before", "newer", "unknown"}, moved : BOOLEAN, watched : BOOLEAN]
Results == {"none", "skipped", "updated", "no_change", "rolled_back", "pull_failed", "rollback_failed",
            "interrupted", "error"}
WeTypeOK ==
  /\ now \in Int /\ offset \in {0, Shift, -Shift} /\ until \in Int
  /\ at \in {"plan", "asleep", "try", "waiting", "pass", "clearing"}
  /\ waited \in Nat /\ waited <= MaxWait + BusyRetry
  /\ aimed \in Seq(Int)
  /\ lock \in {"free", "weekly", "patchnow", "other"} /\ (lock = "weekly" <=> at = "pass")
  /\ patches \in 0..MaxPatches /\ (lock = "patchnow" => patches >= 1)
  /\ results \in [We!Named -> Results] /\ host \in [We!Named -> Fates]

(* How far the wall clock may be from the window w that was slept towards, *)
(* where the loop is at a, the clock at t, the wall's off from it: put      *)
(* forward or back, waited for a busy host, and k other passes kept it.    *)
Slack(off) == IF off = 0 THEN 0 ELSE Shift
Latest(w, off, wt, k) == w + Slack(off) + wt + k
Fits(w, a, t, off, u, wt, k) ==
  /\ a = "asleep" => u + off = w /\ t <= u + k
  /\ a \in {"try", "pass"} => w - Slack(off) <= t + off /\ t + off <= Latest(w, off, wt, k)
  /\ a = "waiting" => /\ w - Slack(off) <= u + off /\ u + off <= Latest(w, off, wt, k)
                      /\ t + off <= Latest(w, off, wt, k)
  /\ a = "clearing" => /\ w - Slack(off) + Clear <= u + off
                       /\ u + off <= Latest(w, off, wt, k) + 1 + Clear
                       /\ t + off <= Latest(w, off, wt, k) + 1 + Clear
  /\ a = "plan" => w <= t + off /\ t + off <= Latest(w, off, wt, k) + 1 + Clear
Kept == IF lock = "patchnow" THEN patches - 1 ELSE patches
AimFits(w) == Fits(w, at, now, offset, until, waited, Kept)
AimsFit == /\ aimed = <<>> => at = "plan"
           /\ aimed # <<>> => LET window == aimed[Len(aimed)] IN window % Week = 0 /\ AimFits(window)

TodoFits == todo \in Seq(STRING \ {"ending"}) \/ todo = <<"ending">>

WeInv == WeTypeOK /\ AimsFit /\ TodoFits /\ We!EveryWeekOnce /\ We!ReportIsHonest /\ We!ChangesAreSeen

LEMMA InitWeekly ==
  ASSUME WeConstants, We!Init
  PROVE  WeInv
<1>1. /\ now \in Int /\ offset = 0 /\ at = "plan" /\ until = 0 /\ waited = 0 /\ aimed = <<>>
      /\ lock = "free" /\ patches = 0
      /\ results = [s \in We!Named |-> "none"]
      /\ host = [s \in We!Named |-> [image |-> "before", moved |-> FALSE, watched |-> FALSE]]
  BY DEF We!Init, WeConstants, We!NoResults, We!Quiet, We!Untouched
<1>2. results \in [We!Named -> Results] /\ host \in [We!Named -> Fates]
  BY <1>1 DEF Results, Fates
<1>3. WeTypeOK
  BY <1>1, <1>2 DEF WeTypeOK, WeConstants
<1>4. We!ReportIsHonest
  BY <1>1 DEF We!ReportIsHonest
<1>5. We!EveryWeekOnce
  BY <1>1 DEF We!EveryWeekOnce
<1>6. todo = <<>>
  BY DEF We!Init
<1>7. TodoFits /\ We!ChangesAreSeen
  BY <1>6 DEF TodoFits, We!ChangesAreSeen
<1>8. QED BY <1>1, <1>3, <1>4, <1>5, <1>7 DEF WeInv, AimsFit

(* Every end an update can have is classified as what it is.               *)
LEMMA EndsAreHonest ==
  ASSUME NEW e \in We!Idle \cup We!Deployed
  PROVE  /\ e.service \in Fates /\ We!Classify(e.row) \in Results
         /\ We!Classify(e.row) = "updated" => e.service = We!Watched("newer")
         /\ We!Classify(e.row) = "rolled_back" => e.service = We!Watched("before")
         /\ We!Classify(e.row) \in {"skipped", "pull_failed", "no_change"} => ~e.service.moved
<1>1. /\ We!Classify(We!NoRow) = "skipped"
      /\ We!Classify(We!Row("skipped", "none", FALSE, "")) = "skipped"
      /\ We!Classify(We!Row("failed", "not_applied", FALSE, "refused")) = "skipped"
      /\ We!Classify(We!Row("failed", "not_applied", FALSE, "pull failed")) = "pull_failed"
      /\ We!Classify(We!Row("passed", "not_applied", TRUE, "current")) = "no_change"
  BY DEF We!Classify, We!Row, We!NoRow
<1>2. /\ We!Classify(We!Row("passed", "applied", TRUE, "")) = "updated"
      /\ We!Classify(We!Row("failed", "not_applied", TRUE, "")) = "rolled_back"
      /\ We!Classify(We!Row("failed", "unknown", TRUE, "")) = "rollback_failed"
      /\ We!Classify(We!Row("failed", "unknown", FALSE, "")) = "interrupted"
  BY DEF We!Classify, We!Row
<1>3. /\ We!Untouched \in Fates /\ ~We!Untouched.moved
      /\ We!Watched("newer") \in Fates /\ We!Watched("before") \in Fates /\ We!Unwatched \in Fates
  BY DEF We!Untouched, We!Watched, We!Unwatched, Fates
<1>4. \A r, s : We!End(r, s).row = r /\ We!End(r, s).service = s
  BY DEF We!End
<1>5. CASE e \in We!Idle
  <2>1. PICK r \in {We!NoRow, We!Row("skipped", "none", FALSE, ""), We!Row("failed", "not_applied", FALSE, "refused"),
                    We!Row("failed", "not_applied", FALSE, "pull failed"),
                    We!Row("passed", "not_applied", TRUE, "current")} : e = We!End(r, We!Untouched)
    BY <1>5 DEF We!Idle
  <2>2. We!Classify(r) \in {"skipped", "pull_failed", "no_change"}
    BY <1>1, <2>1
  <2>3. e.row = r /\ e.service = We!Untouched
    BY <1>4, <2>1
  <2>4. QED BY <1>3, <2>2, <2>3 DEF Results
<1>6. CASE e \in We!Deployed
  <2>1. CASE e = We!End(We!Row("passed", "applied", TRUE, ""), We!Watched("newer"))
    BY <1>2, <1>3, <1>4, <2>1 DEF Results
  <2>2. CASE e = We!End(We!Row("failed", "not_applied", TRUE, ""), We!Watched("before"))
    BY <1>2, <1>3, <1>4, <2>2 DEF Results
  <2>3. CASE \E o \in BOOLEAN : e = We!End(We!Row("failed", "unknown", o, ""), We!Unwatched)
    <3>1. PICK o \in BOOLEAN : e = We!End(We!Row("failed", "unknown", o, ""), We!Unwatched)
      BY <2>3
    <3>2. We!Classify(We!Row("failed", "unknown", o, "")) \in {"rollback_failed", "interrupted"}
      <4>1. CASE o = TRUE
        BY <1>2, <4>1
      <4>2. CASE o = FALSE
        BY <1>2, <4>2
      <4>3. QED BY <4>1, <4>2
    <3>3. e.row = We!Row("failed", "unknown", o, "") /\ e.service = We!Unwatched
      BY <1>4, <3>1
    <3>4. QED BY <1>3, <3>2, <3>3 DEF Results
  <2>4. QED BY <1>6, <2>1, <2>2, <2>3 DEF We!Deployed
<1>7. QED BY <1>5, <1>6

LEMMA ReportStays ==
  ASSUME WeInv, [We!Next]_We!vars
  PROVE  /\ results' \in [We!Named -> Results] /\ host' \in [We!Named -> Fates]
         /\ We!ReportIsHonest'
<1>1. /\ results \in [We!Named -> Results] /\ host \in [We!Named -> Fates]
      /\ We!ReportIsHonest
  BY DEF WeInv, WeTypeOK
<1>2. CASE UNCHANGED <<results, host>>
  BY <1>1, <1>2 DEF We!ReportIsHonest
<1>3. CASE We!Update
  <2>1. PICK e \in We!Idle \cup We!Deployed :
          /\ host' = [host EXCEPT ![Head(todo)] = e.service]
          /\ \E end \in {We!Classify(e.row), "error"} : results' = [results EXCEPT ![Head(todo)] = end]
    BY <1>3 DEF We!Update
  <2>. PICK end \in {We!Classify(e.row), "error"} : results' = [results EXCEPT ![Head(todo)] = end]
    BY <2>1
  <2>2. e.service \in Fates /\ end \in Results
    BY EndsAreHonest DEF Results
  <2>3. /\ results' \in [We!Named -> Results] /\ host' \in [We!Named -> Fates]
        /\ \A s \in We!Named : /\ s # Head(todo) => results'[s] = results[s] /\ host'[s] = host[s]
                               /\ s = Head(todo) => results'[s] = end /\ host'[s] = e.service
    BY <1>1, <2>1, <2>2
  <2>4. ASSUME NEW s \in We!Named
        PROVE  /\ results'[s] = "updated" => host'[s] = We!Watched("newer")
               /\ results'[s] = "rolled_back" => host'[s] = We!Watched("before")
               /\ results'[s] \in {"skipped", "pull_failed", "no_change"} => ~host'[s].moved
    <3>1. CASE s # Head(todo)
      BY <1>1, <2>3, <3>1 DEF We!ReportIsHonest
    <3>2. CASE s = Head(todo)
      BY <2>1, <2>3, <3>2, EndsAreHonest
    <3>3. QED BY <3>1, <3>2
  <2>5. We!ReportIsHonest'
    BY <2>4 DEF We!ReportIsHonest, We!Watched
  <2>6. QED BY <2>3, <2>5
<1>4. CASE We!EndPass
  <2>1. /\ results' = [s \in We!Named |-> "none"]
        /\ host' = [s \in We!Named |-> [image |-> "before", moved |-> FALSE, watched |-> FALSE]]
    BY <1>4 DEF We!EndPass, We!NoResults, We!Quiet, We!Untouched
  <2>2. results' \in [We!Named -> Results] /\ host' \in [We!Named -> Fates]
    BY <2>1 DEF Results, Fates
  <2>3. We!ReportIsHonest'
    BY <2>1 DEF We!ReportIsHonest
  <2>4. QED BY <2>2, <2>3
<1>5. QED BY <1>2, <1>3, <1>4
      DEF We!Next, We!vars, We!pass, We!Plan, We!Wake, We!Begin, We!WaitForHost, We!SkipWeek, We!PatchNow,
          We!AskForScan, We!OthersBegin, We!OthersEnd

(* A pass that comes to its end knows what it moved.                       *)
LEMMA ChangesStay ==
  ASSUME WeConstants, WeInv, [We!Next]_We!vars
  PROVE  TodoFits' /\ We!ChangesAreSeen'
<1>. DEFINE Name == STRING \ {"ending"}
<1>1. /\ Eligible \in Seq(Name) /\ (todo \in Seq(Name) \/ todo = <<"ending">>)
      /\ results \in [We!Named -> Results] /\ We!ReportIsHonest /\ We!ChangesAreSeen
  BY DEF WeConstants, WeInv, TodoFits, WeTypeOK
<1>2. \A q \in Seq(Name) : q # <<"ending">>
  <2>. SUFFICES ASSUME NEW q \in Seq(Name), q = <<"ending">> PROVE FALSE
    OBVIOUS
  <2>1. Len(q) = 1 /\ q[1] = "ending"
    OBVIOUS
  <2>2. q[1] \in Name
    BY <2>1, ElementsOfSeq
  <2>3. QED BY <2>1, <2>2 DEF Name
<1>3. CASE todo' \in Seq(Name)
  <2>1. todo' # <<"ending">>
    BY <1>2, <1>3
  <2>2. TodoFits'
    BY <1>3 DEF TodoFits, Name
  <2>3. We!ChangesAreSeen'
    BY <2>1 DEF We!ChangesAreSeen
  <2>4. QED BY <2>2, <2>3
<1>4. CASE We!Begin \/ We!PatchNow
  BY <1>1, <1>3, <1>4 DEF We!Begin, We!PatchNow, We!StartPass
<1>5. CASE We!Update
  <2>1. todo \in Seq(Name) /\ todo # <<>> /\ todo' = Tail(todo)
    BY <1>1, <1>5 DEF We!Update
  <2>2. todo' \in Seq(Name)
    BY <2>1
  <2>3. QED BY <1>3, <2>2
<1>6. CASE We!AskForScan
  <2>1. /\ todo' = <<"ending">> /\ results' = results /\ host' = host
        /\ asked' = \E s \in We!Named : results[s] \in {"updated", "rolled_back"}
    BY <1>6 DEF We!AskForScan, We!WorthAScan
  <2>2. ASSUME NEW s \in We!Named, host[s].moved, results[s] \in {"updated", "no_change", "rolled_back"}
        PROVE  asked'
    <3>1. results[s] # "no_change"
      BY <1>1, <2>2 DEF We!ReportIsHonest
    <3>2. QED BY <2>1, <2>2, <3>1
  <2>3. We!ChangesAreSeen'
    BY <2>1, <2>2 DEF We!ChangesAreSeen, We!NeedsAPerson
  <2>4. QED BY <2>1, <2>3 DEF TodoFits
<1>7. CASE We!EndPass
  <2>1. todo' = <<>>
    BY <1>7 DEF We!EndPass
  <2>2. QED BY <1>3, <2>1
<1>8. CASE UNCHANGED We!pass
  BY <1>1, <1>8 DEF TodoFits, We!ChangesAreSeen, We!pass
<1>9. QED BY <1>4, <1>5, <1>6, <1>7, <1>8
      DEF We!Next, We!vars, We!pass, We!Plan, We!Wake, We!WaitForHost, We!SkipWeek, We!OthersBegin, We!OthersEnd

(* The numbers stay within their bounds.                                   *)
LEMMA WeeklyTyped ==
  ASSUME WeConstants, WeInv, [We!Next]_We!vars
  PROVE  WeTypeOK'
<1>1. /\ BusyRetry \in Nat /\ MaxWait \in Nat /\ Clear \in Nat /\ Shift \in Nat /\ MaxPatches \in Nat
      /\ Week \in Nat \ {0} /\ WeTypeOK
  BY DEF WeInv, WeConstants
<1>2. /\ results' \in [We!Named -> Results] /\ host' \in [We!Named -> Fates]
  BY ReportStays
<1>3. CASE We!Plan
  <2>1. We!NextWindow(We!Wall) \in Int
    <3>1. now + offset \in Int
      BY <1>1 DEF WeTypeOK
    <3>2. QED BY <1>1, <3>1, NextWindowIs DEF We!Wall
  <2>2. QED BY <1>1, <1>2, <1>3, <2>1 DEF WeTypeOK, We!Plan, We!SleepFor, We!clock, We!pass, We!Wall
<1>4. CASE We!Wake
  BY <1>1, <1>2, <1>4 DEF WeTypeOK, We!Wake, We!pass
<1>5. CASE We!Begin \/ We!PatchNow
  BY <1>1, <1>2, <1>5 DEF WeTypeOK, We!Begin, We!PatchNow, We!StartPass, We!clock, We!loop, We!pass
<1>6. CASE We!WaitForHost \/ We!SkipWeek
  <2>1. UNCHANGED <<now, offset, lock, patches, aimed>> /\ at = "try" /\ at' \in {"waiting", "clearing"}
    BY <1>6 DEF We!WaitForHost, We!SkipWeek, We!SleepFor, We!clock
  <2>2. until' \in Int /\ waited' \in Nat /\ waited' <= MaxWait + BusyRetry
    BY <1>1, <1>6, <2>1 DEF WeTypeOK, We!WaitForHost, We!SkipWeek, We!SleepFor
  <2>3. QED BY <1>1, <1>2, <2>1, <2>2 DEF WeTypeOK
<1>7. CASE We!EndPass
  BY <1>1, <1>2, <1>7 DEF WeTypeOK, We!EndPass, We!SleepFor, We!Running, We!Passes
<1>8. CASE We!Update \/ We!AskForScan \/ We!OthersBegin \/ We!OthersEnd
  BY <1>1, <1>2, <1>8 DEF WeTypeOK, We!Update, We!AskForScan, We!OthersBegin, We!OthersEnd, We!clock, We!loop, We!pass
<1>9. CASE UNCHANGED We!vars
  BY <1>1, <1>2, <1>9 DEF WeTypeOK, We!vars
<1>10. QED BY <1>3, <1>4, <1>5, <1>6, <1>7, <1>8, <1>9 DEF We!Next

(* The clock's steps: the window slept towards stays in sight.             *)
LEMMA Woken ==
  ASSUME Shift \in Nat, Clear \in Nat, Shift <= Clear,
         NEW w \in Int, NEW t \in Int, NEW u \in Int, NEW wt \in Nat, NEW k \in Nat,
         NEW off \in Int, NEW off2 \in Int, -Shift <= off2, off2 <= Shift, off = 0 \/ off2 = off,
         NEW a, a = "asleep" \/ a = "waiting" \/ a = "clearing", Fits(w, a, t, off, u, wt, k),
         NEW t2 \in Int, u > t => t2 = u, u <= t => t2 = t,
         NEW a2, a = "clearing" => a2 = "plan", a # "clearing" => a2 = "try"
  PROVE  Fits(w, a2, t2, off2, u, wt, k)
<1>1. /\ t2 \in Int /\ t2 >= u /\ t2 >= t /\ (t2 = u \/ t2 = t)
      /\ off \in Int /\ off2 \in Int /\ Slack(off) \in Nat /\ Slack(off2) \in Nat
      /\ Slack(off2) <= Shift /\ Slack(off) <= Slack(off2)
  BY DEF Slack
<1>2. /\ off2 <= off + Slack(off2) - Slack(off) /\ off <= off2 + Slack(off2) - Slack(off)
  <2>1. CASE off = 0
    BY <2>1 DEF Slack
  <2>2. CASE off # 0
    BY <2>2 DEF Slack
  <2>3. QED BY <2>1, <2>2
<1>3. CASE a = "asleep"
  <2>1. u + off = w /\ t <= u + k
    BY <1>3 DEF Fits
  <2>2. w - Slack(off2) <= t2 + off2 /\ t2 + off2 <= w + Slack(off2) + wt + k
    BY <1>1, <1>2, <2>1
  <2>3. Fits(w, "try", t2, off2, u, wt, k)
    BY <2>2 DEF Fits, Latest
  <2>4. QED BY <1>3, <2>3
<1>4. CASE a = "waiting"
  <2>1. /\ w - Slack(off) <= u + off /\ u + off <= w + Slack(off) + wt + k
        /\ t + off <= w + Slack(off) + wt + k
    BY <1>4 DEF Fits, Latest
  <2>2. w - Slack(off2) <= t2 + off2 /\ t2 + off2 <= w + Slack(off2) + wt + k
    BY <1>1, <1>2, <2>1
  <2>3. Fits(w, "try", t2, off2, u, wt, k)
    BY <2>2 DEF Fits, Latest
  <2>4. QED BY <1>4, <2>3
<1>5. CASE a = "clearing"
  <2>1. /\ w - Slack(off) + Clear <= u + off /\ u + off <= w + Slack(off) + wt + k + 1 + Clear
        /\ t + off <= w + Slack(off) + wt + k + 1 + Clear
    BY <1>5 DEF Fits, Latest
  <2>2. w <= t2 + off2 /\ t2 + off2 <= w + Slack(off2) + wt + k + 1 + Clear
    BY <1>1, <1>2, <2>1
  <2>3. Fits(w, "plan", t2, off2, u, wt, k)
    BY <2>2 DEF Fits, Latest
  <2>4. QED BY <1>5, <2>3
<1>6. QED BY <1>3, <1>4, <1>5

LEMMA Begun ==
  ASSUME NEW w, NEW t, NEW u, NEW wt, NEW k, NEW off, Fits(w, "try", t, off, u, wt, k)
  PROVE  Fits(w, "pass", t, off, u, wt, k)
BY DEF Fits

LEMMA Delayed ==
  ASSUME Shift \in Nat, BusyRetry \in Nat, NEW w \in Int, NEW t \in Int, NEW u, NEW wt \in Nat, NEW k \in Nat,
         NEW off \in Int, Fits(w, "try", t, off, u, wt, k),
         NEW u2, u2 = t + BusyRetry, NEW wt2, wt2 = wt + BusyRetry
  PROVE  Fits(w, "waiting", t, off, u2, wt2, k)
<1>1. off \in Int /\ Slack(off) \in Nat
  BY DEF Slack
<1>2. w - Slack(off) <= t + off /\ t + off <= w + Slack(off) + wt + k
  BY DEF Fits, Latest
<1>3. QED BY <1>1, <1>2 DEF Fits, Latest

LEMMA Passed ==
  ASSUME Shift \in Nat, Clear \in Nat, NEW w \in Int, NEW t \in Int, NEW u, NEW wt \in Nat, NEW k \in Nat,
         NEW off \in Int, NEW a \in {"try", "pass"}, Fits(w, a, t, off, u, wt, k),
         NEW t2 \in {t, t + 1}, NEW u2, u2 = t2 + Clear
  PROVE  Fits(w, "clearing", t2, off, u2, wt, k)
<1>1. off \in Int /\ Slack(off) \in Nat
  BY DEF Slack
<1>2. w - Slack(off) <= t + off /\ t + off <= w + Slack(off) + wt + k
  BY DEF Fits, Latest
<1>3. QED BY <1>1, <1>2 DEF Fits, Latest

LEMMA Overtaken ==
  ASSUME Shift \in Nat, Clear \in Nat, NEW w \in Int, NEW t \in Int, NEW u \in Int, NEW wt \in Nat, NEW k \in Nat,
         NEW off \in Int, NEW a, a # "pass",
         Fits(w, a, t, off, u, wt, k), NEW t2 \in Int, t2 = t \/ t2 = t + 1, NEW k2 \in Int, k2 = k + 1
  PROVE  Fits(w, a, t2, off, u, wt, k2)
<1>1. off \in Int /\ Slack(off) \in Nat
  BY DEF Slack
<1>2. CASE a = "asleep"
  BY <1>1, <1>2 DEF Fits
<1>3. CASE a = "try"
  BY <1>1, <1>3 DEF Fits, Latest
<1>4. CASE a = "waiting"
  BY <1>1, <1>4 DEF Fits, Latest
<1>5. CASE a = "clearing"
  BY <1>1, <1>5 DEF Fits, Latest
<1>6. CASE a = "plan"
  BY <1>1, <1>6 DEF Fits, Latest
<1>7. QED BY <1>2, <1>3, <1>4, <1>5, <1>6 DEF Fits

LEMMA AimStays ==
  ASSUME WeConstants, WeInv, [We!Next]_We!vars, ~We!Plan, NEW w \in Int, AimFits(w)
  PROVE  AimFits(w)' /\ aimed' = aimed
<1>1. /\ BusyRetry \in Nat /\ Clear \in Nat /\ Shift \in Nat /\ Shift <= Clear
      /\ now \in Int /\ offset \in {0, Shift, -Shift} /\ until \in Int /\ waited \in Nat /\ patches \in Nat
      /\ lock = "weekly" <=> at = "pass"
      /\ (lock = "patchnow" => patches >= 1) /\ offset \in Int
      /\ at \in {"plan", "asleep", "try", "waiting", "pass", "clearing"}
  BY DEF WeInv, WeTypeOK, WeConstants
<1>2. Kept \in Nat /\ Fits(w, at, now, offset, until, waited, Kept)
  BY <1>1 DEF Kept, AimFits
<1>3. CASE We!Wake
  <2>1. /\ until' = until /\ waited' = waited /\ aimed' = aimed /\ Kept' = Kept
        /\ offset' \in Int /\ -Shift <= offset' /\ offset' <= Shift /\ (offset = 0 \/ offset' = offset)
        /\ now' \in Int /\ (until > now => now' = until) /\ (until <= now => now' = now)
        /\ (at = "asleep" \/ at = "waiting" \/ at = "clearing")
        /\ (at = "clearing" => at' = "plan") /\ (at # "clearing" => at' = "try")
    BY <1>1, <1>3 DEF We!Wake, Kept
  <2>2. Fits(w, at', now', offset', until, waited, Kept)
    BY <1>1, <1>2, <2>1, Woken
  <2>3. QED BY <2>1, <2>2 DEF AimFits
<1>4. CASE We!WaitForHost
  <2>1. /\ at = "try" /\ at' = "waiting" /\ now' = now /\ offset' = offset /\ until' = now + BusyRetry
        /\ waited' = waited + BusyRetry /\ aimed' = aimed /\ Kept' = Kept
    BY <1>4 DEF We!WaitForHost, We!SleepFor, We!clock, Kept
  <2>2. Fits(w, "waiting", now, offset, until', waited', Kept)
    BY <1>1, <1>2, <2>1, Delayed
  <2>3. QED BY <2>1, <2>2 DEF AimFits
<1>5. CASE We!SkipWeek
  <2>1. /\ at = "try" /\ at' = "clearing" /\ now' = now /\ offset' = offset /\ until' = now' + Clear
        /\ waited' = waited /\ aimed' = aimed /\ Kept' = Kept
    BY <1>5 DEF We!SkipWeek, We!SleepFor, We!clock, Kept
  <2>2. Fits(w, "clearing", now', offset, until', waited, Kept)
    BY <1>1, <1>2, <2>1, Passed
  <2>3. QED BY <2>1, <2>2 DEF AimFits
<1>6. CASE We!EndPass /\ lock = "weekly"
  <2>1. /\ at = "pass" /\ at' = "clearing" /\ now' \in {now, now + 1} /\ offset' = offset
        /\ until' = now' + Clear /\ waited' = waited /\ aimed' = aimed /\ Kept' = Kept
    BY <1>1, <1>6 DEF We!EndPass, We!SleepFor, Kept
  <2>2. Fits(w, "clearing", now', offset, until', waited, Kept)
    BY <1>1, <1>2, <2>1, Passed
  <2>3. QED BY <2>1, <2>2 DEF AimFits
<1>7. CASE We!EndPass /\ lock = "patchnow"
  <2>1. /\ at' = at /\ at \in {"asleep", "try", "waiting", "clearing", "plan"} /\ (now' = now \/ now' = now + 1)
        /\ now' \in Int /\ Kept' \in Int
        /\ offset' = offset /\ until' = until /\ waited' = waited /\ aimed' = aimed /\ Kept' = Kept + 1
    BY <1>1, <1>2, <1>7 DEF We!EndPass, Kept
  <2>2. Fits(w, at, now', offset, until, waited, Kept')
    BY <1>1, <1>2, <2>1, Overtaken
  <2>3. QED BY <2>1, <2>2 DEF AimFits
<1>8. CASE We!Begin
  <2>1. /\ at = "try" /\ at' = "pass" /\ now' = now /\ offset' = offset /\ until' = until
        /\ waited' = waited /\ aimed' = aimed /\ Kept' = Kept
    BY <1>8 DEF We!Begin, We!StartPass, We!clock, Kept
  <2>2. Fits(w, "pass", now, offset, until, waited, Kept)
    BY <1>2, <2>1, Begun
  <2>3. QED BY <2>1, <2>2 DEF AimFits
<1>9. CASE We!PatchNow \/ We!Update \/ We!AskForScan \/ We!OthersBegin \/ We!OthersEnd \/ UNCHANGED We!vars
  <2>1. at' = at /\ now' = now /\ offset' = offset /\ until' = until /\ waited' = waited /\ aimed' = aimed
    BY <1>9 DEF We!PatchNow, We!Update, We!AskForScan, We!OthersBegin, We!OthersEnd, We!clock, We!loop, We!vars
  <2>2. \/ lock' = lock /\ patches' = patches
        \/ lock # "patchnow" /\ lock' # "patchnow" /\ patches' = patches
        \/ lock = "free" /\ lock' = "patchnow" /\ patches' = patches + 1
    BY <1>9 DEF We!PatchNow, We!StartPass, We!Update, We!AskForScan, We!OthersBegin, We!OthersEnd, We!vars
  <2>3. Kept' = Kept
    BY <1>1, <2>2 DEF Kept
  <2>4. QED BY <1>2, <2>1, <2>3 DEF AimFits
<1>10. We!EndPass => lock \in {"weekly", "patchnow"}
  BY DEF We!EndPass, We!Running, We!Passes
<1>11. QED BY <1>3, <1>4, <1>5, <1>6, <1>7, <1>8, <1>9, <1>10 DEF We!Next

(* The next window is a week after the last.                               *)
LEMMA Periodic ==
  ASSUME NEW w \in Nat \ {0}, NEW t \in Int, t % w = 0, NEW s \in Int, s = t + w
  PROVE  s % w = 0
<1>1. PICK q \in Int : t = q * w
  BY WindowsAreMultiples
<1>2. s = (q + 1) * w /\ q + 1 \in Int
  BY <1>1
<1>3. \E p \in Int : s = p * w
  BY <1>2
<1>4. QED BY <1>3, WindowsAreMultiples

LEMMA WindowIsRecent ==
  ASSUME Shift \in Nat, Clear \in Nat,
         NEW w \in Int, NEW t \in Int, NEW u, NEW wt \in Nat, NEW k \in Nat,
         NEW off \in {0, Shift, -Shift}, Fits(w, "plan", t, off, u, wt, k)
  PROVE  w <= t + off /\ t + off <= w + Shift + wt + k + 1 + Clear
<1>1. Slack(off) \in 0..Shift /\ off \in Int
  BY DEF Slack
<1>2. QED BY <1>1 DEF Fits, Latest

LEMMA AimIsTaken ==
  ASSUME WeConstants, WeInv, We!Plan
  PROVE  AimsFit' /\ We!EveryWeekOnce'
<1>. DEFINE n == Len(aimed)
<1>1. /\ BusyRetry \in Nat /\ MaxWait \in Nat /\ Clear \in Nat /\ Shift \in Nat /\ MaxPatches \in Nat
      /\ Week \in Nat \ {0} /\ Shift + MaxWait + BusyRetry + MaxPatches + Clear + 1 < Week
      /\ waited \in Nat /\ waited <= MaxWait + BusyRetry /\ Kept \in 0..MaxPatches
      /\ aimed \in Seq(Int) /\ now \in Int /\ offset \in Int /\ offset \in {0, Shift, -Shift}
  <2>1. /\ BusyRetry \in Nat /\ MaxWait \in Nat /\ Clear \in Nat /\ Shift \in Nat /\ MaxPatches \in Nat
        /\ Week \in Nat \ {0} /\ Shift + MaxWait + BusyRetry + MaxPatches + Clear + 1 < Week
    BY DEF WeConstants
  <2>2. /\ waited \in Nat /\ waited <= MaxWait + BusyRetry
        /\ aimed \in Seq(Int) /\ now \in Int /\ offset \in {0, Shift, -Shift}
        /\ patches \in 0..MaxPatches /\ (lock = "patchnow" => patches >= 1)
    BY DEF WeInv, WeTypeOK
  <2>3. Kept \in 0..MaxPatches
    BY <2>1, <2>2 DEF Kept
  <2>4. QED BY <2>1, <2>2, <2>3
<1>2. PICK wall \in Int : wall = now + offset
  BY <1>1
<1>3. /\ We!NextWindow(wall) \in Int /\ We!NextWindow(wall) > wall /\ We!NextWindow(wall) % Week = 0
      /\ \A t \in (wall + 1)..(wall + Week) : t % Week = 0 => t = We!NextWindow(wall)
  <2>1. Week \in Nat \ {0}
    BY <1>1
  <2>2. /\ We!NextWindow(wall) \in (wall + 1)..(wall + Week) /\ We!NextWindow(wall) % Week = 0
        /\ \A t \in (wall + 1)..(wall + Week) : t % Week = 0 => t = We!NextWindow(wall)
    BY <2>1, NextWindowIs
  <2>3. We!NextWindow(wall) \in Int /\ We!NextWindow(wall) > wall
    BY <2>1, <2>2
  <2>4. QED BY <2>2, <2>3
<1>4. PICK next \in Int : /\ next = We!NextWindow(wall) /\ next > wall /\ next % Week = 0
                          /\ \A t \in (wall + 1)..(wall + Week) : t % Week = 0 => t = next
  BY <1>3
<1>5. /\ now' = now /\ offset' = offset /\ waited' = 0 /\ at' = "asleep" /\ aimed' = Append(aimed, next)
      /\ until' = now + (next - wall) /\ Kept' = Kept /\ at = "plan"
  BY <1>2, <1>4 DEF We!Plan, We!clock, We!SleepFor, We!Wall, Kept
<1>6. /\ Append(aimed, next) \in Seq(Int) /\ Len(Append(aimed, next)) = n + 1 /\ n \in Nat
      /\ Append(aimed, next)[n + 1] = next /\ \A i \in 1..n : Append(aimed, next)[i] = aimed[i]
      /\ \A i \in 1..n : aimed[i] \in Int
      /\ aimed = <<>> => n = 0
      /\ n = 0 => aimed = <<>>
  BY <1>1, <1>4
<1>7. n > 0 => next = aimed[n] + Week
  <2>. SUFFICES ASSUME n > 0 PROVE next = aimed[n] + Week
    OBVIOUS
  <2>1. aimed[n] \in Int /\ aimed[n] % Week = 0 /\ AimFits(aimed[n])
    BY <1>1, <1>6 DEF WeInv, AimsFit
  <2>2. PICK window \in Int : window = aimed[n]
    BY <2>1
  <2>3. Fits(window, "plan", now, offset, until, waited, Kept)
    BY <1>5, <2>1, <2>2 DEF AimFits
  <2>4. window <= wall /\ wall <= window + Shift + waited + Kept + 1 + Clear
    BY <1>1, <1>2, <2>3, WindowIsRecent
  <2>5. window + Week \in (wall + 1)..(wall + Week)
    BY <1>1, <2>4
  <2>6. (window + Week) % Week = 0
    BY <1>1, <2>1, <2>2, <2>5, Periodic
  <2>7. QED BY <1>4, <2>2, <2>5, <2>6
<1>8. We!EveryWeekOnce'
  <2>. SUFFICES ASSUME NEW i \in 2..(n + 1) PROVE aimed'[i] = aimed'[i - 1] + Week
    BY <1>5, <1>6 DEF We!EveryWeekOnce
  <2>1. CASE i = n + 1
    <3>1. n > 0 /\ i - 1 = n /\ n \in 1..n
      BY <1>6, <2>1
    <3>2. QED BY <1>5, <1>6, <1>7, <2>1, <3>1
  <2>2. CASE i \in 2..n
    <3>1. i \in 1..n /\ i - 1 \in 1..n
      BY <1>6, <2>2
    <3>2. aimed[i] = aimed[i - 1] + Week
      BY <2>2 DEF WeInv, We!EveryWeekOnce
    <3>3. QED BY <1>5, <1>6, <3>1, <3>2
  <2>3. QED BY <1>6, <2>1, <2>2
<1>9. AimsFit'
  <2>1. aimed' # <<>> /\ aimed'[Len(aimed')] = next
    BY <1>5, <1>6
  <2>2. now + (next - wall) + offset = next /\ now <= now + (next - wall) + Kept
    BY <1>1, <1>2, <1>4
  <2>3. Fits(next, "asleep", now, offset, now + (next - wall), 0, Kept)
    BY <2>2 DEF Fits
  <2>4. AimFits(next)'
    BY <1>5, <2>3 DEF AimFits
  <2>5. QED BY <1>4, <2>1, <2>4 DEF AimsFit
<1>10. QED BY <1>8, <1>9

LEMMA StepWeekly ==
  ASSUME WeConstants, WeInv, [We!Next]_We!vars
  PROVE  WeInv'
<1>1. WeTypeOK' /\ We!ReportIsHonest' /\ TodoFits' /\ We!ChangesAreSeen'
  BY WeeklyTyped, ReportStays, ChangesStay
<1>2. CASE We!Plan
  BY <1>1, <1>2, AimIsTaken DEF WeInv
<1>3. CASE ~We!Plan /\ aimed # <<>>
  <2>1. PICK window \in Int : window = aimed[Len(aimed)] /\ AimFits(window) /\ window % Week = 0
    <3>1. aimed \in Seq(Int) /\ AimsFit
      BY DEF WeInv, WeTypeOK
    <3>2. \A s \in Seq(Int) : s # <<>> => s[Len(s)] \in Int
      OBVIOUS
    <3>3. QED BY <1>3, <3>1, <3>2 DEF AimsFit
  <2>2. AimFits(window)' /\ aimed' = aimed
    BY <1>3, <2>1, AimStays
  <2>3. aimed' # <<>> /\ aimed'[Len(aimed')] = window
    BY <1>3, <2>1, <2>2
  <2>4. AimsFit'
    BY <2>1, <2>2, <2>3 DEF AimsFit
  <2>5. We!EveryWeekOnce'
    BY <2>2 DEF WeInv, We!EveryWeekOnce
  <2>6. QED BY <1>1, <2>4, <2>5 DEF WeInv
<1>4. CASE ~We!Plan /\ aimed = <<>>
  <2>1. at = "plan" /\ lock # "weekly"
    BY <1>4 DEF WeInv, AimsFit, WeTypeOK
  <2>2. UNCHANGED <<at, aimed>>
    BY <1>4, <2>1 DEF We!Next, We!vars, We!Wake, We!Begin, We!WaitForHost, We!SkipWeek, We!PatchNow, We!Update,
         We!AskForScan, We!EndPass, We!OthersBegin, We!OthersEnd, We!clock, We!loop
  <2>3. AimsFit' /\ We!EveryWeekOnce'
    BY <1>4, <2>1, <2>2 DEF WeInv, AimsFit, We!EveryWeekOnce
  <2>4. QED BY <1>1, <2>3 DEF WeInv
<1>5. QED BY <1>2, <1>3, <1>4

LEMMA WeeksFollow ==
  WeInv => We!EveryWeekOnce
BY DEF WeInv

LEMMA ReportFollows ==
  WeInv => We!ReportIsHonest
BY DEF WeInv

LEMMA ChangesFollow ==
  WeInv => We!ChangesAreSeen
BY DEF WeInv

=============================================================================
