------------------------------- MODULE Fleet -------------------------------
(* The other hosts' cards on the dashboard: one refresh at a time reads the     *)
(* collector, works out from the container names which of its systems is this    *)
(* very machine, and replaces the view pages are served.  All its calls share    *)
(* one session token, which the hub may stop accepting at any time.              *)
EXTENDS Naturals, FiniteSets

CONSTANTS Others, Configured,     \* the systems besides this machine; those in the inventory
          MaxRotations, MaxRounds, MaxRefreshes   \* bounds

Local == "local"
Systems == {Local} \cup Others
None == "none"
Slots == 1..2              \* refresh threads

(* hosts.py's thresholds, and the names each system may have in common with this machine: *)
(* its own list may be out of date; another may run some of the same, or most of it.        *)
LocalNames == 10
MinCoverage(best) == 2 * best >= LocalNames
Margin(best, second) == best >= 3 * second
Unread == 99
MayShare(s) == IF s = Local THEN {1, 3, 10} ELSE {1, 4, 6}

VARIABLES world,          \* the collector's round of numbers
          good, token,    \* the session the hub accepts; the one the provider holds, 0 if none
          view,           \* system -> the round its card shows, 0 if unknown, or no card
          misled,         \* ghost: the view was built from a list with most of this machine's
                          \* names, and from no or hardly any list of its own
          refreshing, refreshes,
          job             \* slot -> the refresh under way
fleetVars == <<world, good, token, view, misled, refreshing, refreshes, job>>

(* A call: where it is, what it reads, its token, its one re-authentication, the times it *)
(* sent the password, and those the hub gave it a token for                                 *)
NoCall == [at |-> "none", left |-> {}, token |-> 0, reauth |-> 1, posts |-> 0, logins |-> 0]
NoJob == [at |-> "none", hosts |-> NoCall, containers |-> [s \in Systems |-> NoCall],
          listed |-> FALSE, round |-> [s \in Systems |-> 0], named |-> {}]
NoCard == Unread
Unknown == [s \in Systems |-> IF s \in Configured THEN 0 ELSE NoCard]
Init == /\ world = 1 /\ good = 1 /\ token = 0
        /\ view = Unknown /\ misled = FALSE /\ refreshing = FALSE /\ refreshes = 0
        /\ job = [j \in Slots |-> NoJob]

(* FleetCache.view: a page starts the next refresh when it is due *)
IdleNow == ~refreshing
View == /\ IdleNow /\ refreshes < MaxRefreshes /\ refreshes' = refreshes + 1
        /\ refreshing' = TRUE
        /\ \E j \in Slots : /\ job[j].at = "none" /\ \A i \in Slots : i < j => job[i].at # "none"
                            /\ job' = [job EXCEPT ![j].at = "collecting", ![j].hosts =
                                         [NoCall EXCEPT !.at = "asking", !.left = {"list"}]]
        /\ UNCHANGED <<world, good, token, view, misled>>

-----------------------------------------------------------------------------
(* BeszelHubProvider._get, a step at a time, for the call `c' of slot j (the listing and   *)
(* every host's numbers, or one host's containers); `Put' is what it becomes.               *)
Call(j, c) == IF c = "hosts" THEN job[j].hosts ELSE job[j].containers[c]
With(j, c, v) == IF c = "hosts" THEN [job[j] EXCEPT !.hosts = v]
                 ELSE [job[j] EXCEPT !.containers[c] = v]
Put(j, c, v) == job' = [job EXCEPT ![j] = With(j, c, v)]
Elsewhere == UNCHANGED <<world, good, view, misled, refreshing, refreshes>>
Target(call) == CHOOSE x \in call.left : "list" \in call.left => x = "list"
(* What a read leaves when it fails, or succeeds: a host's own numbers or names, or nothing *)
Over(call) == [call EXCEPT !.left = @ \ {Target(call)}, !.token = 0,
                           !.at = IF Cardinality(call.left) = 1 THEN "over" ELSE "asking"]
Failed(call) == IF Target(call) = "list" THEN [call EXCEPT !.at = "over", !.token = 0] ELSE Over(call)
ReadFails(j, c) == Put(j, c, Failed(Call(j, c)))

(* No time is left, or no account configured; else the token held, or the password, which is *)
(* accepted, refused or lost on the way.                                                       *)
Sent(call) == [call EXCEPT !.posts = @ + 1]
Authenticate(j, c) ==
  /\ Call(j, c).at = "asking"
  /\ \/ ReadFails(j, c)
     \/ token # 0 /\ Put(j, c, [Call(j, c) EXCEPT !.at = "getting", !.token = token])
     \/ /\ token = 0
        /\ \/ Put(j, c, [Sent(Call(j, c)) EXCEPT !.at = "posted", !.token = good, !.logins = @ + 1])
           \/ Put(j, c, Failed(Sent(Call(j, c))))
  /\ UNCHANGED token /\ Elsewhere
Keep(j, c) == /\ Call(j, c).at = "posted" /\ token' = Call(j, c).token
              /\ Put(j, c, [Call(j, c) EXCEPT !.at = "getting"])
              /\ Elsewhere
(* _forget: only the token that was refused *)
Forget(refused) == token' = IF token = refused THEN 0 ELSE token
Spend(call) == [call EXCEPT !.reauth = @ - 1]
Refused(j, c) ==
  /\ Call(j, c).at = "getting" /\ Call(j, c).token # good
  /\ IF Call(j, c).reauth > 0
     THEN Put(j, c, [Spend(Call(j, c)) EXCEPT !.at = "asking"]) /\ Forget(Call(j, c).token)
     ELSE ReadFails(j, c) /\ UNCHANGED token
  /\ Elsewhere
(* stats_query: the rows the collector has of a host, and the one that is asked for. *)
(* Mutant: whichever comes first. *)
AnyRow == 1..world
Row == {world}
Answered(j, c) ==
  LET call == Call(j, c)  what == Target(call) IN
  /\ call.at = "getting" /\ call.token = good
  /\ IF c # "hosts"
     THEN job' = [job EXCEPT ![j] = [With(j, c, Over(call)) EXCEPT !.named = @ \cup {c}]]
     ELSE \E row \in Row : job' = [job EXCEPT ![j] =
            IF what = "list"
            THEN [With(j, c, [call EXCEPT !.left = Systems, !.at = "asking"]) EXCEPT !.listed = TRUE]
            ELSE [With(j, c, Over(call)) EXCEPT !.round[what] = row]]
  /\ UNCHANGED token /\ Elsewhere
(* No answer, one too large or unreadable, or out of time for this read *)
Lost(j, c) == /\ Call(j, c).at = "getting" /\ ReadFails(j, c) /\ UNCHANGED token /\ Elsewhere

-----------------------------------------------------------------------------
(* _collect: the listing first; then every host's containers at once; then all is there *)
Listed(j) ==
  /\ job[j].hosts.at = "over" /\ job[j].listed /\ job[j].containers[Local] = NoCall
  /\ job' = [job EXCEPT ![j].containers = [s \in Systems |->
                 [NoCall EXCEPT !.at = "asking", !.left = {"containers"}]]]
  /\ UNCHANGED token /\ Elsewhere
Collected(j) == /\ job[j].hosts.at = "over"
                /\ job[j].listed => \A s \in Systems : job[j].containers[s].at = "over"
(* locality: whose names cover this machine's, clearly ahead of every other system *)
Locality(n) ==
  LET Settles(s) == /\ n[s] # Unread /\ MinCoverage(n[s])
                    /\ \A t \in Systems \ {s} : n[t] # Unread => Margin(n[s], n[t])
  IN  IF \E s \in Systems : Settles(s) THEN CHOOSE s \in Systems : Settles(s) ELSE None
Cards(j, id) == [s \in Systems |->
  IF s = id \/ (s \notin Configured /\ id = None) THEN NoCard ELSE job[j].round[s]]
(* How many of this machine's names each list has, of those that were read; then Docker    *)
(* names this machine's containers, or could not be read; and when that settles nothing, the  *)
(* inventory names this machine's own system, or does not.                                      *)
Shared(named) == {n \in [Systems -> 0..LocalNames \cup {Unread}] :
                    \A s \in Systems : IF s \in named THEN n[s] \in MayShare(s) ELSE n[s] = Unread}
LooksAlike(n) == \E s \in Others : /\ n[s] # Unread /\ 2 * n[s] >= LocalNames
                                   /\ n[Local] = Unread \/ 3 * n[Local] <= n[s]
Replace(j) ==
  /\ Collected(j)
  /\ \E n \in Shared(job[j].named) :
       /\ misled' = LooksAlike(n)
       /\ \E id \in {Locality(n), None}, pin \in {Local, None} :
            view' = IF job[j].listed THEN Cards(j, IF id = None THEN pin ELSE id) ELSE Unknown
  /\ refreshing' = FALSE /\ job' = [job EXCEPT ![j] = NoJob]
  /\ UNCHANGED <<world, good, token, refreshes>>

Rotate == /\ good < MaxRotations /\ good' = good + 1
          /\ UNCHANGED <<world, token, view, misled, refreshing, refreshes, job>>
NextRound == /\ world < MaxRounds /\ world' = world + 1
             /\ UNCHANGED <<good, token, view, misled, refreshing, refreshes, job>>
Next == \/ View \/ Rotate \/ NextRound
        \/ \E j \in Slots : \/ Listed(j) \/ Replace(j)
                            \/ \E c \in {"hosts"} \cup Systems :
                                 \/ Authenticate(j, c) \/ Keep(j, c) \/ Refused(j, c)
                                 \/ Answered(j, c) \/ Lost(j, c)
Spec == Init /\ [][Next]_fleetVars

-----------------------------------------------------------------------------
(* A refused token buys a call one login: however the hub's tokens expire, and whatever   *)
(* calls share them, none is given more than two, and one that reads a single host's         *)
(* containers sends the password no more often. A call that reads every host may send it    *)
(* once more per host when the hub refuses the login itself; that is not bounded here.       *)
TokensAreFew == \A j \in Slots : \A c \in {"hosts"} \cup Systems :
  /\ Call(j, c).logins <= 2
  /\ c # "hosts" => Call(j, c).posts <= 2
(* This machine has no card among the other hosts, whichever lists were read, unless another *)
(* system's list has most of this machine's names, and its own was not read or is so out of   *)
(* date that it has a third as many.                                                           *)
NoCardForThisMachine == view[Local] # NoCard => misled
(* The view is replaced by later ones only: a card never goes back to older numbers. *)
CardsMoveOn == \A s \in Systems :
  {view[s], view'[s]} \cap {0, NoCard} = {} => view'[s] >= view[s]
=============================================================================
