-------------------------- MODULE SetupApplyProofs --------------------------
(***************************************************************************)
(* Theorems about SetupApply.  The inductive invariant SetupInv says of     *)
(* each step of the plan what its object on the host may be (HostFits), by *)
(* what the journal has on record and by how far the run has got in the    *)
(* operations of the step in hand (TodoFits); which staged files may lie   *)
(* about (TempsFit); whose promise is kept (PromiseFits); and that what is *)
(* about to be written or removed has been looked at (LookFits).           *)
(***************************************************************************)
EXTENDS SetupApply, SequenceTheorems, WellFoundedInduction, TLAPS

(* What a journal entry may be.                                            *)
PhaseNames == Phases \cup {"digest", "was_on", "was_up"}
Notes == [phase : PhaseNames, n : Nat, was : Bodies]

(* The operations a step of kind k is made of, and those of its inverse.   *)
Ends == {"check", "verify", "undone"}

ActOps(k) ==
  CASE k \in Files -> {"look", "intent", "stage", "staged", "commit", "committed"}
                        \cup (IF k = "sudoers" THEN {"visudo"} ELSE {}) \cup (IF k = "unit" THEN {"reload"} ELSE {})
    [] k = "remove" -> {"rm_look", "removing", "rm_unlink", "removed", "reload"}
    [] k = "dir" -> {"creating", "mkdir", "created"}
    [] k = "tight" -> {"tightening", "chmod"}
    [] k = "venv" -> {"creating", "build", "created", "deps", "digest"}
    [] k = "enable" -> {"if_enable", "enabling", "systemctl_enable", "enabled",
                        "if_start", "starting", "systemctl_start", "started"}
    [] k = "disable" -> {"flags", "if_stop", "systemctl_stop", "stopped",
                         "if_disable", "systemctl_disable", "disabled"}
    [] k \in Commands -> {"running", "grant", "scan", "copy", "snapshot"}

Rewrites == {"undo_intent", "undo_stage", "undo_commit"}
UndoOps(k) ==
  CASE k \in Files -> Rewrites \cup {"unlink"} \cup (IF k = "unit" THEN {"reload"} ELSE {})
    [] k = "remove" -> Rewrites \cup {"reload"}
    [] k \in {"dir", "venv"} -> {"unlink"}
    [] k = "tight" -> {"chmod_back"}
    [] k = "enable" -> {"systemctl_stop", "systemctl_disable"}
    [] k = "disable" -> {"systemctl_enable", "systemctl_start"}
    [] k \in Commands -> {}

(* What may come after operation o.                                        *)
ActNext(k, o) ==
  CASE o = "look" -> {"intent"}
    [] o = "intent" -> {"stage"}
    [] o = "stage" -> {"staged"}
    [] o = "staged" -> (IF k = "sudoers" THEN {"visudo"} ELSE {"commit"})
    [] o = "visudo" -> {"commit"}
    [] o = "commit" -> {"committed"}
    [] o = "committed" -> (IF k = "unit" THEN {"reload"} ELSE {"verify"})
    [] o = "rm_look" -> {"removing"}
    [] o = "removing" -> {"rm_unlink"}
    [] o = "rm_unlink" -> {"removed"}
    [] o = "removed" -> {"reload"}
    [] o = "creating" -> (IF k = "dir" THEN {"mkdir"} ELSE {"build"})
    [] o \in {"mkdir", "build"} -> {"created"}
    [] o = "created" -> (IF k = "dir" THEN {"verify"} ELSE {"deps"})
    [] o = "deps" -> {"digest"}
    [] o = "tightening" -> {"chmod"}
    [] o = "enabling" -> {"systemctl_enable"}
    [] o = "systemctl_enable" -> {"enabled"}
    [] o \in {"if_enable", "enabled"} -> {"if_start"}
    [] o = "starting" -> {"systemctl_start"}
    [] o = "systemctl_start" -> {"started"}
    [] o = "flags" -> {"if_stop"}
    [] o = "systemctl_stop" -> {"stopped"}
    [] o \in {"if_stop", "stopped"} -> {"if_disable"}
    [] o = "systemctl_disable" -> {"disabled"}
    [] o = "running" -> {"grant"}
    [] o = "copy" -> {"snapshot"}
    [] o \in {"reload", "digest", "chmod", "if_start", "started", "if_disable", "disabled", "grant", "scan", "snapshot"} -> {"verify"}
    [] OTHER -> {}

UndoNext(i, o) ==
  CASE o = "undo_intent" -> {"undo_stage"}
    [] o = "undo_stage" -> {"undo_commit"}
    [] o \in {"undo_commit", "unlink"} -> (IF plan[i].kind \in {"unit", "remove"} THEN {"reload"} ELSE {"undone"})
    [] o = "systemctl_stop" -> (IF Has("enabled", i) THEN {"systemctl_disable"} ELSE {"undone"})
    [] o = "systemctl_enable" -> (IF Has("stopped", i) THEN {"systemctl_start"} ELSE {"undone"})
    [] o \in {"reload", "chmod_back", "systemctl_disable", "systemctl_start"} -> {"undone"}
    [] OTHER -> {}

Ops(i) == IF mode = "undo" THEN UndoOps(plan[i].kind) \cup {"undone"} ELSE ActOps(plan[i].kind) \cup {"check", "verify"}
Follows(i, o) == IF mode = "undo" THEN UndoNext(i, o) ELSE ActNext(plan[i].kind, o)

(* Step i is in hand, and its next operation is one of S.                  *)
InHand(i, S) == todo # <<>> /\ At = i /\ Head(todo) \in S

----------------------------------------------------------------------------
SetupTypes ==
  /\ plan \in Plans
  /\ file \in [1..N -> [body : Bodies, id : 0..made]]
  /\ svc \in [1..N -> [on : BOOLEAN, up : BOOLEAN]]
  /\ temps \in [1..N -> SUBSET (1..made)]
  /\ backup \in [1..N -> Bodies]
  /\ rec \in [1..N -> [status : {"none", "started", "ok", "failed"}, satisfied : BOOLEAN, undone : {"no", "undone", "kept"}]]
  /\ ev \in [1..N -> SUBSET Notes]
  /\ stale \subseteq 1..N /\ moved \subseteq 1..N /\ touched \subseteq 1..N
  /\ cut \subseteq {"apply", "undo"} \X (1..N)
  /\ mode \in {"idle", "apply", "undo"}
  /\ queue \subseteq 1..N
  /\ seen \in Bodies
  /\ made \in Nat

Evidenced ==
  \A i \in 1..N : \A e \in ev[i] :
    /\ e.n <= made
    /\ e.phase \in {"intent", "created"} => e.n > 0
    /\ plan[i].kind = "enable" => e.phase \notin {"disabled", "stopped"}
    /\ plan[i].kind = "disable" => e.phase \notin {"enabled", "started"}

(* Where a run is.                                                         *)
RunFits ==
  /\ mode = "idle" => queue = {} /\ todo = <<>>
  /\ todo # <<>> => /\ queue # {}
                    /\ rec[At].undone = "no"
                    /\ mode = "apply" => rec[At].status = "started"
                    /\ mode = "undo" => plan[At].kind \notin Commands
  /\ mode = "undo" => \A i \in queue : rec[i].undone = "no"
  /\ mode = "apply" => \A i \in 1..N \ queue : rec[i].status = "ok"
  /\ result = "done" => mode = "idle" /\ \A i \in 1..N : rec[i].status = "ok"
  /\ result # "none" => mode = "idle"

TodoFits ==
  todo # <<>> =>
    /\ todo \in Seq(Ops(At))
    /\ todo[Len(todo)] \in Ends
    /\ \A k \in 1..Len(todo) - 1 : todo[k + 1] \in Follows(At, todo[k])

(* What has a number of its own has one above 0.                           *)
Counted == todo # <<>> /\ Head(todo) \in {"undo_stage", "created"} => made > 0

(* A staged file is journaled before it is made.                           *)
TempsFit(i) ==
  /\ InHand(i, {"stage", "staged", "visudo", "commit"}) => Note("intent", made, seen) \in ev[i]
  /\ InHand(i, {"visudo", "commit"}) => Note("staged", made, "none") \in ev[i]
  /\ <<"undo", i>> \notin cut =>
       \A n \in temps[i] :
         \/ InHand(i, {"staged", "visudo", "commit", "undo_commit"}) /\ n = made
         \/ /\ rec[i].status = "started"
            /\ \E e \in Found("intent", i) : e.n = n
            /\ ~(mode = "apply" /\ todo # <<>> /\ At = i)

(* The promise of a step.                                                  *)
Holds(i) == Satisfied(i) \/ Effect(i) = "applied"
PromiseFits(i) ==
  (i \notin touched /\ <<"undo", i>> \notin cut /\ plan[i].kind # "probe") =>
     /\ mode = "apply" /\ i \notin queue => Holds(i)
     /\ rec[i].status = "ok" /\ rec[i].undone = "no" /\ ~(mode = "undo" /\ todo # <<>> /\ At = i) => Holds(i)
     /\ result = "done" => Holds(i)

(* What nobody else touched is as planning saw it or as the plan wants it, *)
(* and the journal tells which.                                            *)
FileFits(i) ==
  /\ Body(i) \in {plan[i].orig, "new"}
  /\ \A e \in Found("intent", i) : e.was = plan[i].orig /\ plan[i].orig # "new"
  /\ Body(i) # plan[i].orig => /\ Note("intent", file[i].id, plan[i].orig) \in ev[i]
                               /\ Note("staged", file[i].id, "none") \in ev[i]
  /\ i \in stale => plan[i].kind = "unit"
  /\ InHand(i, {"look"}) => Body(i) # "new"
  /\ InHand(i, {"intent"}) => seen = plan[i].orig /\ plan[i].orig # "new"

RemoveFits(i) ==
  /\ Body(i) \in {plan[i].orig, "none"}
  /\ Has("removing", i) => plan[i].orig = "old" /\ backup[i] = "old"
  /\ Body(i) # plan[i].orig => Has("removing", i)
  /\ InHand(i, {"removing"}) => plan[i].orig = "old" /\ backup[i] = "old"
  /\ InHand(i, {"rm_unlink"}) => Has("removing", i)

DirFits(i) ==
  /\ Body(i) \in {plan[i].orig, "new"}
  /\ Has("created", i) \/ InHand(i, {"created"}) => plan[i].orig = "none"
  /\ Body(i) # plan[i].orig => /\ plan[i].orig = "none"
                               /\ Has("created", i) \/ InHand(i, {"created"}) \/ CutShort(i)
  /\ i \notin stale

TightFits(i) ==
  /\ Body(i) \in {plan[i].orig, "new"}
  /\ Has("tightening", i) \/ InHand(i, {"tightening"}) => plan[i].orig = "old"
  /\ Body(i) # plan[i].orig => Has("tightening", i)
  /\ InHand(i, {"chmod"}) => Has("tightening", i)
  /\ i \notin stale

VenvFits(i) ==
  /\ Body(i) = "none" => plan[i].orig = "none"
  /\ Has("created", i) \/ InHand(i, {"created"}) => plan[i].orig = "none"
  /\ i \notin stale

EnableFits(i) ==
  ~CutShort(i) => /\ svc[i].on => Has("enabled", i) \/ InHand(i, {"enabled"})
                  /\ svc[i].up => Has("started", i) \/ InHand(i, {"started"})
                  /\ mode = "undo" /\ InHand(i, {"systemctl_disable"}) => ~svc[i].up

DisableFits(i) ==
  ~CutShort(i) => /\ ~svc[i].on => Has("disabled", i) \/ InHand(i, {"disabled"})
                  /\ ~svc[i].up => Has("stopped", i) \/ InHand(i, {"stopped"})
                  /\ mode = "undo" /\ InHand(i, {"systemctl_start"}) => svc[i].on

(* What an undo in hand is about to do leads back, and has when it ends.   *)
UndoFits(i) ==
  /\ InHand(i, Rewrites) => backup[i] = plan[i].orig
  /\ InHand(i, {"unlink"}) => plan[i].orig = "none"
  /\ InHand(i, {"chmod_back"}) => plan[i].orig = "old"
  /\ mode = "undo" /\ InHand(i, {"reload"}) => Body(i) = plan[i].orig
  /\ InHand(i, {"undone"}) \/ rec[i].undone = "undone" => CutShort(i) \/ Restored(i)

HostFits(i) ==
  i \notin touched =>
    /\ plan[i].kind \in Files => FileFits(i)
    /\ plan[i].kind = "remove" => RemoveFits(i)
    /\ plan[i].kind = "dir" => DirFits(i)
    /\ plan[i].kind = "tight" => TightFits(i)
    /\ plan[i].kind = "venv" => VenvFits(i)
    /\ plan[i].kind = "enable" => EnableFits(i)
    /\ plan[i].kind = "disable" => DisableFits(i)
    /\ plan[i].kind \in Commands => rec[i].undone # "undone"
    /\ UndoFits(i)

(* Since the run last looked, nobody has moved what it is about to change. *)
LookFits(i) ==
  (i \notin moved /\ plan[i].kind # "venv") =>
    /\ InHand(i, {"intent", "stage", "staged", "visudo", "commit", "removing", "rm_unlink", "tightening", "chmod", "chmod_back"})
         => Body(i) # "edit"
    /\ InHand(i, Rewrites \cup {"unlink"}) => Body(i) # "edit" /\ (Body(i) # "none" => file[i].id > 0)

SetupInv ==
  /\ SetupTypes /\ Evidenced /\ RunFits /\ TodoFits /\ Counted
  /\ \A i \in 1..N : TempsFit(i) /\ PromiseFits(i) /\ HostFits(i) /\ LookFits(i)

----------------------------------------------------------------------------
(* A step of the plan the run does not have in hand, and one that a step   *)
(* of the model leaves as it is.                                           *)
Rests(i) == ~(todo # <<>> /\ At = i)
Same(i) ==
  /\ plan' = plan /\ file'[i] = file[i] /\ svc'[i] = svc[i] /\ (i \in stale' <=> i \in stale)
  /\ temps'[i] = temps[i] /\ backup'[i] = backup[i] /\ ev'[i] = ev[i] /\ rec'[i] = rec[i]
  /\ (i \in touched => i \in touched') /\ cut \subseteq cut'
Alike(i) ==
  /\ plan' = plan /\ file'[i] = file[i] /\ svc'[i] = svc[i] /\ (i \in stale' <=> i \in stale)
  /\ backup'[i] = backup[i] /\ ev'[i] = ev[i] /\ rec'[i].undone = rec[i].undone
  /\ (i \in touched => i \in touched') /\ cut \subseteq cut'

----------------------------------------------------------------------------
(* The step a run is at.                                                   *)

LEMMA LeastExists ==
  ASSUME NEW S \in SUBSET Nat, S # {}
  PROVE  \E i \in S : \A j \in S : i <= j
<1> DEFINE Less == {ss \in Nat \X Nat : ss[1] < ss[2]}
<1>1. IsWellFoundedOn(Less, Nat)
  <2>1. OpToRel(<, Nat) = Less
    BY DEF OpToRel
  <2>2. QED
    BY <2>1, NatLessThanWellFounded, Zenon
<1> HIDE DEF Less
<1>2. S \subseteq Nat
  OBVIOUS
<1>3. \E i \in S : \A j \in S : ~(<<j, i>> \in Less)
  BY <1>1, <1>2, WFMin, Zenon
<1>4. PICK i \in S : \A j \in S : ~(<<j, i>> \in Less)
  BY <1>3
<1>5. ASSUME NEW j \in S, j < i
      PROVE  <<j, i>> \in Less
  <2>1. <<j, i>> \in Nat \X Nat /\ <<j, i>>[1] = j /\ <<j, i>>[2] = i
    BY <1>2
  <2>2. QED
    BY <1>5, <2>1, Zenon DEF Less
<1>6. \A j \in S : ~(j < i)
  BY <1>4, <1>5
<1>7. QED
  BY <1>2, <1>6

LEMMA GreatestExists ==
  ASSUME NEW n \in Nat, NEW S \in SUBSET (0..n), S # {}
  PROVE  \E i \in S : \A j \in S : j <= i
<1> DEFINE T == {n - i : i \in S}
<1>0. \A i \in S : i \in Nat /\ i <= n
  OBVIOUS
<1>1. T \in SUBSET Nat /\ T # {}
  <2>1. \A i \in S : n - i \in Nat
    BY <1>0
  <2>2. QED
    BY <2>1
<1>2. PICK k \in T : \A j \in T : k <= j
  BY <1>1, LeastExists
<1>3. PICK i \in S : k = n - i
  BY <1>2
<1>4. \A j \in S : n - i <= n - j
  BY <1>2, <1>3
<1>5. QED
  BY <1>3, <1>4

LEMMA PlanFits ==
  ASSUME SetupTypes
  PROVE  /\ plan \in Seq(Steps) /\ N \in Nat /\ N > 0
         /\ \A i \in 1..N : plan[i] \in Steps
BY SetupAssumption DEF SetupTypes, N

LEMMA AtIsQueued ==
  ASSUME SetupTypes, queue # {}
  PROVE  At \in queue /\ At \in 1..N
<1>1. N \in Nat /\ queue \in SUBSET (0..N) /\ queue \in SUBSET Nat
  BY PlanFits DEF SetupTypes
<1>2. \E i \in queue : \A j \in queue : i <= j
  BY <1>1, LeastExists
<1>3. \E i \in queue : \A j \in queue : j <= i
  BY <1>1, GreatestExists
<1>4. \E i \in queue : \A j \in queue : IF mode = "undo" THEN j <= i ELSE i <= j
  BY <1>2, <1>3
<1>5. At \in queue
  BY <1>4 DEF At
<1>6. QED
  BY <1>5 DEF SetupTypes

LEMMA AtStays ==
  ASSUME mode' = mode, queue' = queue
  PROVE  At' = At
BY DEF At

(* The latest entry of a kind is an entry of that kind.                    *)
LEMMA LatestIsFound ==
  ASSUME SetupTypes, Evidenced, NEW i \in 1..N, NEW p, Has(p, i)
  PROVE  Latest(p, i) \in Found(p, i)
<1> DEFINE S == {e.n : e \in Found(p, i)}
<1>1. ev[i] \subseteq Notes /\ made \in Nat
  BY DEF SetupTypes
<1>2. \A e \in Found(p, i) : e.n \in 0..made
  BY <1>1 DEF Found, Notes, Evidenced
<1>3. S \in SUBSET (0..made) /\ S # {}
  BY <1>2 DEF Has
<1>4. PICK m \in S : \A n \in S : n <= m
  BY <1>1, <1>3, GreatestExists
<1>5. \E e \in Found(p, i) : \A f \in Found(p, i) : f.n <= e.n
  BY <1>4
<1>6. QED
  BY <1>5 DEF Latest

----------------------------------------------------------------------------
(* What the operation at hand tells of the run and of its step.            *)

LEMMA KindsAre ==
  ASSUME SetupTypes, NEW i \in 1..N
  PROVE  /\ plan[i].kind \in Kinds
         /\ plan[i].orig \in {"none", "old", "new"}
BY PlanFits DEF Steps

LEMMA HeadIsAnOp ==
  ASSUME SetupTypes, RunFits, TodoFits, todo # <<>>
  PROVE  /\ todo \in Seq(Ops(At)) /\ Head(todo) \in Ops(At)
         /\ At \in queue /\ At \in 1..N
         /\ mode \in {"apply", "undo"}
         /\ Head(todo) = todo[1] /\ Len(todo) > 0
<1>1. At \in queue /\ At \in 1..N
  BY AtIsQueued DEF RunFits
<1>2. mode \in {"apply", "undo"}
  BY DEF SetupTypes, RunFits
<1>3. QED
  BY <1>1, <1>2 DEF TodoFits

LEMMA ActKinds ==
  ASSUME NEW k \in Kinds, NEW o \in ActOps(k)
  PROVE  /\ o \in {"look", "intent", "stage", "staged", "commit", "committed"} => k \in Files
         /\ o = "visudo" => k = "sudoers"
         /\ o = "reload" => k \in {"unit", "remove"}
         /\ o \in {"rm_look", "removing", "rm_unlink", "removed"} => k = "remove"
         /\ o \in {"creating", "created"} => k \in {"dir", "venv"}
         /\ o = "mkdir" => k = "dir"
         /\ o \in {"build", "deps", "digest"} => k = "venv"
         /\ o \in {"tightening", "chmod"} => k = "tight"
         /\ o \in {"if_enable", "enabling", "systemctl_enable", "enabled",
                   "if_start", "starting", "systemctl_start", "started"} => k = "enable"
         /\ o \in {"flags", "if_stop", "systemctl_stop", "stopped",
                   "if_disable", "systemctl_disable", "disabled"} => k = "disable"
         /\ o \in {"running", "grant", "scan", "copy", "snapshot"} => k \in Commands
         /\ o \notin Ends \cup Rewrites \cup {"unlink", "chmod_back"}
<1>1. CASE k \in Files
  BY <1>1 DEF ActOps, Ends, Rewrites, Files
<1>2. CASE k \in Commands
  BY <1>2 DEF ActOps, Ends, Rewrites, Files, Commands
<1>3. CASE k \in {"remove", "dir", "tight", "venv"}
  BY <1>3 DEF ActOps, Ends, Rewrites, Files, Commands
<1>4. CASE k \in {"enable", "disable"}
  BY <1>4 DEF ActOps, Ends, Rewrites, Files, Commands
<1>5. QED
  BY <1>1, <1>2, <1>3, <1>4 DEF Kinds, Services

LEMMA UndoKinds ==
  ASSUME NEW k \in Kinds, NEW o \in UndoOps(k)
  PROVE  /\ o \in Rewrites => k \in Files \cup {"remove"}
         /\ o = "unlink" => k \in Files \cup {"dir", "venv"}
         /\ o = "chmod_back" => k = "tight"
         /\ o = "reload" => k \in {"unit", "remove"}
         /\ o \in {"systemctl_stop", "systemctl_disable"} => k = "enable"
         /\ o \in {"systemctl_enable", "systemctl_start"} => k = "disable"
         /\ o \in Rewrites \cup {"unlink", "chmod_back", "reload", "systemctl_stop", "systemctl_disable",
                                 "systemctl_enable", "systemctl_start"}
<1>1. CASE k \in Files
  BY <1>1 DEF UndoOps, Rewrites, Files
<1>2. CASE k \in Commands
  BY <1>2 DEF UndoOps, Rewrites, Files, Commands
<1>3. CASE k \in {"remove", "dir", "tight", "venv"}
  BY <1>3 DEF UndoOps, Rewrites, Files, Commands
<1>4. CASE k \in {"enable", "disable"}
  BY <1>4 DEF UndoOps, Rewrites, Files, Commands
<1>5. QED
  BY <1>1, <1>2, <1>3, <1>4 DEF Kinds, Services

(* The same, of the operation at the head.                                 *)
LEMMA HeadKinds ==
  ASSUME SetupTypes, RunFits, TodoFits, todo # <<>>,
         NEW o, o = Head(todo)
  PROVE  /\ o \in {"look", "intent", "stage", "staged", "commit", "committed"} => mode = "apply" /\ Kind \in Files
         /\ o = "visudo" => mode = "apply" /\ Kind = "sudoers"
         /\ o = "reload" => Kind \in {"unit", "remove"}
         /\ o \in {"rm_look", "removing", "rm_unlink", "removed"} => mode = "apply" /\ Kind = "remove"
         /\ o \in {"creating", "created"} => mode = "apply" /\ Kind \in {"dir", "venv"}
         /\ o = "mkdir" => mode = "apply" /\ Kind = "dir"
         /\ o \in {"build", "deps", "digest"} => mode = "apply" /\ Kind = "venv"
         /\ o \in {"tightening", "chmod"} => mode = "apply" /\ Kind = "tight"
         /\ o \in {"if_enable", "enabling", "enabled", "if_start", "starting", "started"} => mode = "apply" /\ Kind = "enable"
         /\ o \in {"flags", "if_stop", "stopped", "if_disable", "disabled"} => mode = "apply" /\ Kind = "disable"
         /\ o \in {"systemctl_enable", "systemctl_start"} =>
              (mode = "apply" /\ Kind = "enable") \/ (mode = "undo" /\ Kind = "disable")
         /\ o \in {"systemctl_stop", "systemctl_disable"} =>
              (mode = "apply" /\ Kind = "disable") \/ (mode = "undo" /\ Kind = "enable")
         /\ o \in {"running", "grant", "scan", "copy", "snapshot"} => mode = "apply" /\ Kind \in Commands
         /\ o \in Rewrites => mode = "undo" /\ Kind \in Files \cup {"remove"}
         /\ o = "unlink" => mode = "undo" /\ Kind \in Files \cup {"dir", "venv"}
         /\ o = "chmod_back" => mode = "undo" /\ Kind = "tight"
         /\ o \in {"check", "verify"} => mode = "apply"
         /\ o = "undone" => mode = "undo" /\ Kind \notin Commands
<1>1. Kind \in Kinds /\ mode \in {"apply", "undo"} /\ o \in Ops(At) /\ Kind = plan[At].kind
  BY HeadIsAnOp, KindsAre DEF Kind
<1>2. CASE mode = "apply"
  <2>1. o \in {"check", "verify"} \/ o \in ActOps(Kind)
    BY <1>1, <1>2 DEF Ops
  <2>2. CASE o \in {"check", "verify"}
    BY <1>2, <2>2 DEF Rewrites
  <2>3. CASE o \in ActOps(Kind)
    BY <1>1, <1>2, <2>3, ActKinds DEF Rewrites, Ends
  <2>4. QED
    BY <2>1, <2>2, <2>3
<1>3. CASE mode = "undo"
  <2>1. o = "undone" \/ o \in UndoOps(Kind)
    BY <1>1, <1>3 DEF Ops
  <2>2. CASE o = "undone"
    <3>1. Kind \notin Commands
      BY <1>3, Zenon DEF RunFits, Kind
    <3>2. QED
      BY <1>3, <2>2, <3>1 DEF Rewrites
  <2>3. CASE o \in UndoOps(Kind)
    <3>1. /\ o \in Rewrites => Kind \in Files \cup {"remove"}
          /\ o = "unlink" => Kind \in Files \cup {"dir", "venv"}
          /\ o = "chmod_back" => Kind = "tight"
          /\ o = "reload" => Kind \in {"unit", "remove"}
          /\ o \in {"systemctl_stop", "systemctl_disable"} => Kind = "enable"
          /\ o \in {"systemctl_enable", "systemctl_start"} => Kind = "disable"
      BY <1>1, <2>3, UndoKinds, Zenon
    <3>2. o \in {"undo_intent", "undo_stage", "undo_commit", "unlink", "chmod_back", "reload", "systemctl_stop",
                 "systemctl_disable", "systemctl_enable", "systemctl_start"}
      BY <1>1, <2>3, UndoKinds DEF Rewrites
    <3>3. QED
      BY <1>3, <3>1, <3>2 DEF Rewrites
  <2>4. QED
    BY <2>1, <2>2, <2>3
<1>4. QED
  BY <1>1, <1>2, <1>3

LEMMA LongIsNotEmpty ==
  ASSUME NEW S, NEW s \in Seq(S), Len(s) > 0
  PROVE  s # <<>> /\ Head(s) = s[1]
<1>1. Len(<<>>) = 0
  OBVIOUS
<1>2. s # <<>>
  BY <1>1
<1>3. QED
  BY <1>2

(* An operation is followed by the next one of its sequence.               *)
LEMMA GoesOn ==
  ASSUME SetupTypes, RunFits, TodoFits, todo # <<>>, Head(todo) \notin Ends,
         todo' = Tail(todo), UNCHANGED <<mode, queue, plan>>,
         mode = "undo" => \A i \in 1..N : /\ Has("enabled", i)' <=> Has("enabled", i)
                                          /\ Has("stopped", i)' <=> Has("stopped", i)
  PROVE  /\ todo' # <<>> /\ At' = At
         /\ Head(todo') \in Follows(At, Head(todo))
         /\ TodoFits'
<1>0. PICK a \in 1..N : a = At
  BY HeadIsAnOp
<1>1. At' = a
  BY <1>0, AtStays
<1>3. Ops(a)' = Ops(a)
  BY DEF Ops
<1> DEFINE S == Ops(a)
           F(o) == Follows(a, o)
<1>4. /\ todo \in Seq(S) /\ todo # <<>>
      /\ todo[Len(todo)] \in Ends
      /\ \A k \in 1..Len(todo) - 1 : todo[k + 1] \in F(todo[k])
  BY <1>0 DEF TodoFits
<1> HIDE DEF S, F
<1>5. Len(todo) \in Nat /\ Len(todo) > 1 /\ Head(todo) = todo[1]
  BY <1>4
<1>6. /\ Tail(todo) \in Seq(S) /\ Len(Tail(todo)) = Len(todo) - 1
      /\ \A k \in 1..Len(todo) - 1 : Tail(todo)[k] = todo[k + 1]
  BY <1>4, <1>5
<1>7. Tail(todo) # <<>> /\ Head(Tail(todo)) = todo[2]
  <2>1. Len(Tail(todo)) > 0
    BY <1>5, <1>6
  <2>2. Tail(todo) # <<>>
    BY <2>1, <1>6, LongIsNotEmpty
  <2>3. Head(Tail(todo)) = Tail(todo)[1]
    BY <1>6, <2>1, LongIsNotEmpty
  <2>4. QED
    BY <1>5, <1>6, <2>2, <2>3
<1>8. todo[2] \in F(todo[1])
  BY <1>4, <1>5
<1>9. Tail(todo)[Len(Tail(todo))] \in Ends
  <2>1. Tail(todo)[Len(todo) - 1] = todo[Len(todo) - 1 + 1] /\ Len(todo) - 1 + 1 = Len(todo)
    BY <1>5, <1>6
  <2>2. QED
    BY <1>4, <1>6, <2>1
<1>10. \A k \in 1..Len(Tail(todo)) - 1 : Tail(todo)[k + 1] \in F(Tail(todo)[k])
  <2>1. TAKE k \in 1..Len(Tail(todo)) - 1
  <2>2. k + 1 \in 1..Len(todo) - 1 /\ Tail(todo)[k] = todo[k + 1] /\ Tail(todo)[k + 1] = todo[k + 1 + 1]
    BY <1>5, <1>6
  <2>3. QED
    BY <1>4, <2>2
<1>11. TodoFits'
  <2>1. todo' \in Seq(Ops(a)')
    BY <1>3, <1>6 DEF S
  <2>2. \A k \in 1..Len(todo') - 1 : (todo[k + 1] \in Follows(a, todo[k]))'
    <3>1. TAKE k \in 1..Len(todo') - 1
    <3>2. todo'[k + 1] \in Follows(a, Tail(todo)[k])
      BY <1>10 DEF F
    <3>3. CASE mode = "undo"
      BY <3>2, <3>3 DEF Follows, UndoNext
    <3>4. CASE mode # "undo"
      BY <3>2, <3>4 DEF Follows
    <3>5. QED
      BY <3>3, <3>4
  <2>3. QED
    BY <1>1, <1>9, <2>1, <2>2 DEF TodoFits, Ends
<1>12. QED
  BY <1>0, <1>1, <1>5, <1>7, <1>8, <1>11 DEF F

----------------------------------------------------------------------------
(* What is left alone still fits.                                          *)

LEMMA NotInHand ==
  ASSUME NEW i, Rests(i), NEW S
  PROVE  ~InHand(i, S)
BY DEF Rests, InHand

LEMMA NotInHandNext ==
  ASSUME NEW i, Rests(i)', NEW S
  PROVE  ~InHand(i, S)'
BY DEF Rests, InHand

LEMMA HasStays ==
  ASSUME NEW i, Alike(i), NEW p
  PROVE  /\ Found(p, i)' = Found(p, i) /\ (Has(p, i)' <=> Has(p, i))
         /\ Body(i)' = Body(i) /\ (CutShort(i) => CutShort(i)')
         /\ (Restored(i)' <=> Restored(i))
<1>1. \A q : Found(q, i)' = Found(q, i) /\ (Has(q, i)' <=> Has(q, i))
  BY DEF Alike, Found, Has
<1>2. Body(i)' = Body(i)
  BY DEF Alike, Body
<1>3. CutShort(i) => CutShort(i)'
  BY DEF Alike, CutShort
<1>4. UnitIsRead(i)' <=> UnitIsRead(i)
  BY <1>1 DEF Alike, UnitIsRead
<1>5. Restored(i)' <=> Restored(i)
  BY <1>2, <1>4 DEF Alike, Restored
<1>6. QED
  BY <1>1, <1>2, <1>3, <1>5

LEMMA OthersFit ==
  ASSUME NEW i \in 1..N, HostFits(i), TempsFit(i), Same(i), Rests(i), Rests(i)'
  PROVE  HostFits(i)' /\ TempsFit(i)' /\ LookFits(i)'
<1>1. \A S : ~InHand(i, S) /\ ~InHand(i, S)'
  BY NotInHand, NotInHandNext
<1>0. Alike(i)
  BY DEF Same, Alike
<1>2. \A p : Found(p, i)' = Found(p, i) /\ (Has(p, i)' <=> Has(p, i))
  BY <1>0, HasStays
<1>3. /\ Body(i)' = Body(i) /\ (CutShort(i) => CutShort(i)')
      /\ (Restored(i)' <=> Restored(i))
  BY <1>0, HasStays
<1>4. LookFits(i)'
  BY <1>1 DEF LookFits
<1>5. TempsFit(i)'
  BY <1>1, <1>2 DEF TempsFit, Same, Rests
<1>6. FileFits(i) => FileFits(i)'
  BY <1>1, <1>2, <1>3 DEF FileFits, Same
<1>7. RemoveFits(i) => RemoveFits(i)'
  BY <1>1, <1>2, <1>3 DEF RemoveFits, Same
<1>8. DirFits(i) => DirFits(i)'
  BY <1>1, <1>2, <1>3 DEF DirFits, Same
<1>9. TightFits(i) => TightFits(i)'
  BY <1>1, <1>2, <1>3 DEF TightFits, Same
<1>10. VenvFits(i) => VenvFits(i)'
  BY <1>1, <1>2, <1>3 DEF VenvFits, Same
<1>11. EnableFits(i) => EnableFits(i)'
  BY <1>1, <1>2, <1>3 DEF EnableFits, Same
<1>12. DisableFits(i) => DisableFits(i)'
  BY <1>1, <1>2, <1>3 DEF DisableFits, Same
<1>13. UndoFits(i) => UndoFits(i)'
  BY <1>1, <1>2, <1>3 DEF UndoFits, Same
<1>14. HostFits(i)'
  BY <1>6, <1>7, <1>8, <1>9, <1>10, <1>11, <1>12, <1>13 DEF HostFits, Same
<1>15. QED
  BY <1>4, <1>5, <1>14

(* The promise of a step, by its kind.                                     *)
Kept(i) ==
  CASE plan[i].kind \in {"file", "sudoers", "hook"} -> FileSatisfied(i)
    [] plan[i].kind = "unit" -> FileSatisfied(i) /\ i \notin stale
    [] plan[i].kind = "unhook" -> UnhookSatisfied(i)
    [] plan[i].kind = "remove" -> Body(i) = "none"
    [] plan[i].kind \in {"dir", "tight"} -> DirSatisfied(i)
    [] plan[i].kind = "enable" -> EnableSatisfied(i)
    [] plan[i].kind = "disable" -> DisableSatisfied(i)
    [] plan[i].kind \in {"env", "venv", "access"} -> Body(i) = "new"
    [] plan[i].kind = "snapshot" -> Has("snapshot", i)
    [] plan[i].kind = "probe" -> FALSE

HoldsAsKept == \A i : plan[i].kind \in Kinds => (Holds(i) <=> Kept(i))

LEMMA HoldsIsKept == HoldsAsKept
<1> SUFFICES ASSUME NEW i, plan[i].kind \in Kinds
             PROVE  Holds(i) <=> Kept(i)
  BY DEF HoldsAsKept
<1>1. CASE plan[i].kind = "file"
  BY <1>1 DEF Shows, Holds, Kept, Satisfied, Effect, FileSatisfied, FileEffect, Services, Commands
<1>2. CASE plan[i].kind = "sudoers"
  BY <1>2 DEF Shows, Holds, Kept, Satisfied, Effect, FileSatisfied, FileEffect, Services, Commands
<1>3. CASE plan[i].kind = "hook"
  BY <1>3 DEF Shows, Holds, Kept, Satisfied, Effect, FileSatisfied, FileEffect, Services, Commands
<1>4. CASE plan[i].kind = "env"
  BY <1>4 DEF Shows, Holds, Kept, Satisfied, Effect, EnvSatisfied, EnvEffect, Services, Commands
<1>5. CASE plan[i].kind = "unit"
  BY <1>5 DEF Shows, Holds, Kept, Satisfied, Effect, UnitSatisfied, UnitEffect, FileSatisfied, Services, Commands
<1>6. CASE plan[i].kind = "unhook"
  BY <1>6 DEF Shows, Holds, Kept, Satisfied, Effect, UnhookEffect, UnhookSatisfied, Services, Commands
<1>7. CASE plan[i].kind = "remove"
  BY <1>7 DEF Shows, Holds, Kept, Satisfied, Effect, RemoveEffect, RemoveSatisfied, Services, Commands
<1>8. CASE plan[i].kind = "dir"
  BY <1>8 DEF Shows, Holds, Kept, Satisfied, Effect, Services, Commands, DirSatisfied
<1>9. CASE plan[i].kind = "tight"
  BY <1>9 DEF Shows, Holds, Kept, Satisfied, Effect, Services, Commands, DirSatisfied
<1>10. CASE plan[i].kind = "venv"
  BY <1>10 DEF Shows, Holds, Kept, Satisfied, Effect, VenvSatisfied, Services, Commands
<1>11. CASE plan[i].kind = "enable"
  BY <1>11 DEF Shows, Holds, Kept, Satisfied, Effect, Services, Commands, EnableSatisfied
<1>12. CASE plan[i].kind = "disable"
  BY <1>12 DEF Shows, Holds, Kept, Satisfied, Effect, Services, Commands, DisableSatisfied
<1>13. CASE plan[i].kind = "access"
  BY <1>13 DEF Shows, Holds, Kept, Satisfied, Effect, AccessEffect, Services, Commands
<1>14. CASE plan[i].kind = "probe"
  BY <1>14 DEF Shows, Holds, Kept, Satisfied, Effect, Services, Commands
<1>15. CASE plan[i].kind = "snapshot"
  BY <1>15 DEF Shows, Holds, Kept, Satisfied, Effect, SnapshotEffect, Services, Commands, Has
<1>16. QED
  BY <1>1, <1>2, <1>3, <1>4, <1>5, <1>6, <1>7, <1>8, <1>9, <1>10, <1>11, <1>12, <1>13, <1>14, <1>15 DEF Kinds, Files, Services, Commands

LEMMA HoldsIsKeptNext == HoldsAsKept'
BY HoldsIsKept, PTL

LEMMA KeptStays ==
  ASSUME NEW i, Same(i)
  PROVE  Kept(i)' <=> Kept(i)
<1>1. Body(i)' = Body(i) /\ (Has("snapshot", i)' <=> Has("snapshot", i))
  <2>1. Alike(i)
    BY DEF Same, Alike
  <2>2. QED
    BY <2>1, HasStays
<1>2. QED
  BY <1>1 DEF Kept, FileSatisfied, UnhookSatisfied, DirSatisfied, EnableSatisfied, DisableSatisfied, Same

LEMMA HoldsStays ==
  ASSUME SetupTypes, NEW i \in 1..N, Same(i)
  PROVE  Holds(i)' <=> Holds(i)
<1>1. plan[i].kind \in Kinds /\ plan' = plan
  BY KindsAre DEF Same
<1>2. Holds(i)' <=> Kept(i)'
  BY <1>1, HoldsIsKeptNext DEF HoldsAsKept
<1>3. QED
  BY <1>1, <1>2, HoldsIsKept, KeptStays DEF HoldsAsKept

LEMMA OthersPromise ==
  ASSUME SetupTypes, NEW i \in 1..N, PromiseFits(i), Same(i), Rests(i),
         mode' = "apply" /\ i \notin queue' =>
           (mode = "apply" /\ i \notin queue) \/ (rec[i].status = "ok" /\ rec[i].undone = "no"),
         result' = "done" => result = "done" \/ (mode = "apply" /\ i \notin queue)
  PROVE  PromiseFits(i)'
<1>1. Holds(i)' <=> Holds(i)
  BY HoldsStays
<1>2. QED
  BY <1>1 DEF PromiseFits, Same, Rests

----------------------------------------------------------------------------
LEMMA ThisHand ==
  ASSUME NEW a, a = At, todo # <<>>
  PROVE  \A S : InHand(a, S) <=> Head(todo) \in S
BY DEF InHand

LEMMA NextHand ==
  ASSUME NEW a, a = At', todo' # <<>>
  PROVE  \A S : InHand(a, S)' <=> Head(todo') \in S
BY DEF InHand

(* One operation of the step in hand, that ends neither the step nor the   *)
(* run: what is left to show is of this step.                              *)

LEMMA GoStep ==
  ASSUME SetupInv, todo # <<>>, Head(todo) \notin Ends, NEW a, a = At,
         todo' = Tail(todo), UNCHANGED <<mode, queue, result, plan, rec, touched, cut>>,
         SetupTypes', Evidenced', Head(todo) \in {"undo_intent", "mkdir", "build"} => made' > 0,
         mode = "undo" => \A i \in 1..N : /\ Has("enabled", i)' <=> Has("enabled", i)
                                          /\ Has("stopped", i)' <=> Has("stopped", i),
         \A i \in 1..N \ {a} : Same(i)
  PROVE  /\ a \in queue /\ a \in 1..N
         /\ todo' # <<>> /\ At' = a /\ Head(todo') \in Follows(a, Head(todo))
         /\ TempsFit(a)' /\ HostFits(a)' /\ LookFits(a)' => SetupInv'
<1>1. SetupTypes /\ Evidenced /\ RunFits /\ TodoFits
  BY DEF SetupInv
<1>2. a \in queue /\ a \in 1..N /\ mode \in {"apply", "undo"}
  BY <1>1, HeadIsAnOp
<1>3. todo' # <<>> /\ At' = a /\ Head(todo') \in Follows(a, Head(todo)) /\ TodoFits'
  BY <1>1, GoesOn
<1>4. RunFits'
  BY <1>1, <1>2, <1>3 DEF RunFits, N
<1>5. \A i \in 1..N \ {a} : HostFits(i)' /\ TempsFit(i)' /\ LookFits(i)' /\ PromiseFits(i)'
  <2>1. TAKE i \in 1..N \ {a}
  <2>2. HostFits(i) /\ TempsFit(i) /\ PromiseFits(i) /\ Same(i)
    BY DEF SetupInv
  <2>3. Rests(i)
    BY DEF Rests
  <2>4. Rests(i)'
    BY <1>3 DEF Rests
  <2>5. QED
    BY <1>1, <2>2, <2>3, <2>4, OthersFit, OthersPromise
<1>6. PromiseFits(a)'
  <2>1. result # "done"
    BY <1>1, <1>2 DEF RunFits
  <2>2. CASE mode = "apply"
    <3>1. rec[a].status = "started"
      BY <1>1, <2>2 DEF RunFits
    <3>2. QED
      BY <1>2, <2>1, <2>2, <3>1 DEF PromiseFits
  <2>3. CASE mode = "undo"
    BY <1>3, <2>1, <2>3 DEF PromiseFits
  <2>4. QED
    BY <1>2, <2>2, <2>3
<1>7. (1..N)' = 1..N
  BY DEF N
<1>8. Counted'
  <2>1. Head(todo') \in {"undo_stage", "created"} => Head(todo) \in {"undo_intent", "mkdir", "build"}
    BY <1>3 DEF Follows, ActNext, UndoNext
  <2>2. QED
    BY <2>1 DEF Counted
<1>9. QED
  BY <1>2, <1>3, <1>4, <1>5, <1>6, <1>7, <1>8 DEF SetupInv

(* The operation at the head, and the step it belongs to.                  *)
LEMMA OpOf ==
  ASSUME SetupInv, NEW o, Op(o), NEW a, a = At
  PROVE  /\ todo # <<>> /\ o = Head(todo) /\ a \in queue /\ a \in 1..N
         /\ Counted /\ SetupTypes /\ Evidenced /\ RunFits /\ TodoFits
         /\ TempsFit(a) /\ PromiseFits(a) /\ HostFits(a) /\ LookFits(a)
         /\ Kind = plan[a].kind /\ plan[a].kind \in Kinds /\ plan[a].orig \in {"none", "old", "new"}
         /\ rec[a].undone = "no" /\ (mode = "apply" => rec[a].status = "started")
         /\ mode \in {"apply", "undo"}
         /\ \A S : InHand(a, S) <=> o \in S
<1>1. Counted /\ SetupTypes /\ Evidenced /\ RunFits /\ TodoFits /\ todo # <<>> /\ o = Head(todo) /\ Kind = plan[a].kind
  BY DEF SetupInv, Op, Kind
<1>2. a \in queue /\ a \in 1..N /\ mode \in {"apply", "undo"}
  BY <1>1, HeadIsAnOp
<1>3. TempsFit(a) /\ PromiseFits(a) /\ HostFits(a) /\ LookFits(a)
  BY <1>2 DEF SetupInv
<1>4. plan[a].kind \in Kinds /\ plan[a].orig \in {"none", "old", "new"}
  BY <1>1, <1>2, KindsAre
<1>5. rec[a].undone = "no" /\ (mode = "apply" => rec[a].status = "started")
  BY <1>1 DEF RunFits
<1>6. \A S : InHand(a, S) <=> o \in S
  BY <1>1, ThisHand
<1>7. QED
  BY <1>1, <1>2, <1>3, <1>4, <1>5, <1>6

(* What an operation that goes on has to show.                             *)
LEMMA OpStep ==
  ASSUME SetupInv, NEW o, Op(o), o \notin Ends, NEW a, a = At, NEW q, q = Head(todo'),
         todo' = Tail(todo), UNCHANGED <<mode, queue, result, plan, rec, touched, cut>>,
         SetupTypes', Evidenced', o \in {"undo_intent", "mkdir", "build"} => made' > 0,
         mode = "undo" => \A i \in 1..N : /\ Has("enabled", i)' <=> Has("enabled", i)
                                          /\ Has("stopped", i)' <=> Has("stopped", i),
         \A i \in 1..N \ {a} : Same(i)
  PROVE  /\ todo' # <<>> /\ At' = a /\ q \in Follows(a, o)
         /\ \A S : InHand(a, S)' <=> q \in S
         /\ TempsFit(a)' /\ HostFits(a)' /\ LookFits(a)' => SetupInv'
<1>1. todo # <<>> /\ o = Head(todo) /\ SetupTypes
  BY OpOf
<1>2. /\ todo' # <<>> /\ At' = a /\ q \in Follows(a, o)
      /\ TempsFit(a)' /\ HostFits(a)' /\ LookFits(a)' => SetupInv'
  BY <1>1, GoStep
<1>3. \A S : InHand(a, S)' <=> q \in S
  BY <1>2, NextHand
<1>4. QED
  BY <1>2, <1>3

LEMMA ObjectChanges ==
  ASSUME NEW n \in Nat, NEW D, NEW f \in [D -> [body : Bodies, id : 0..n]], NEW a, NEW b \in Bodies, NEW k \in 0..n
  PROVE  [f EXCEPT ![a] = [body |-> b, id |-> k]] \in [D -> [body : Bodies, id : 0..n]]
BY DEF Bodies

(* What SetupTypes says of the objects and their numbers.                  *)
LEMMA TypesAre ==
  ASSUME SetupTypes
  PROVE  /\ made \in Nat /\ made \in 0..made
         /\ file \in [1..N -> [body : Bodies, id : 0..made]]
         /\ temps \in [1..N -> SUBSET (1..made)]
         /\ backup \in [1..N -> Bodies] /\ seen \in Bodies
         /\ ev \in [1..N -> SUBSET Notes]
         /\ \A i \in 1..N : Body(i) \in Bodies
<1>1. made \in Nat /\ made \in 0..made
  BY DEF SetupTypes
<1>2. file \in [1..N -> [body : Bodies, id : 0..made]]
  BY DEF SetupTypes
<1>3. \A i \in 1..N : Body(i) \in Bodies
  BY <1>2 DEF Body
<1>4. QED
  BY <1>1, <1>2, <1>3 DEF SetupTypes


LEMMA CommitStep == SetupInv /\ Commit => SetupInv'
<1> SUFFICES ASSUME SetupInv, Commit
             PROVE  SetupInv'
  OBVIOUS
<1>1. PICK o : /\ Op(o)
               /\ \/ o = "commit" /\ Rename("new")
                  \/ o = "undo_commit" /\ Rename(backup[At])
  BY DEF Commit
<1>2. PICK a : a = At
  OBVIOUS
<1>0. o = "commit" \/ o = "undo_commit"
  BY <1>1
<1>3. /\ todo # <<>> /\ o = Head(todo) /\ a \in queue /\ a \in 1..N
      /\ SetupTypes /\ Evidenced /\ RunFits /\ TodoFits
      /\ TempsFit(a) /\ HostFits(a) /\ LookFits(a)
      /\ Kind = plan[a].kind /\ plan[a].kind \in Kinds /\ plan[a].orig \in {"none", "old", "new"}
      /\ rec[a].undone = "no" /\ (mode = "apply" => rec[a].status = "started")
      /\ \A S : InHand(a, S) <=> o \in S
  BY <1>1, <1>2, OpOf
<1>4. PICK b : b \in Bodies /\ b = (IF o = "commit" THEN "new" ELSE backup[a])
  BY <1>3, TypesAre DEF Bodies
<1>5. /\ file' = [file EXCEPT ![a] = [body |-> b, id |-> made]]
      /\ temps' = [temps EXCEPT ![a] = @ \ {made}]
      /\ stale' = IF plan[a].kind \in {"unit", "remove"} THEN stale \cup {a} ELSE stale
  BY <1>1, <1>2, <1>4 DEF Rename, Kind
<1>6. /\ todo' = Tail(todo) /\ UNCHANGED <<mode, queue, result, plan, rec, touched, cut>>
      /\ UNCHANGED <<made, seen, svc, backup, ev, moved>>
  BY DEF Commit, Go, Own, journal, history
<1>7. SetupTypes'
  <2>1. file' \in [1..N -> [body : Bodies, id : 0..made]]
    <3>1. file \in [1..N -> [body : Bodies, id : 0..made]] /\ made \in Nat /\ made \in 0..made
      BY <1>3, TypesAre
    <3>2. QED
      BY <1>4, <1>5, <3>1, ObjectChanges
  <2>2. temps' \in [1..N -> SUBSET (1..made)]
    BY <1>3, <1>5 DEF SetupTypes
  <2>3. stale' \subseteq 1..N
    BY <1>3, <1>5 DEF SetupTypes
  <2>4. QED
    BY <1>3, <1>6, <2>1, <2>2, <2>3 DEF SetupTypes, N
<1>8. Evidenced'
  BY <1>3, <1>6 DEF Evidenced, N
<1>9. \A i \in 1..N \ {a} : Same(i)
  BY <1>3, <1>5, <1>6 DEF Same, SetupTypes
<1>10. PICK q : q = Head(todo')
  OBVIOUS
<1>11. /\ todo' # <<>> /\ At' = a /\ q \in Follows(a, o)
       /\ \A S : InHand(a, S)' <=> q \in S
       /\ TempsFit(a)' /\ HostFits(a)' /\ LookFits(a)' => SetupInv'
  <2>1. o \notin Ends /\ o \notin {"undo_intent", "mkdir", "build"} /\ (\A i \in 1..N : (Has("enabled", i)' <=> Has("enabled", i)) /\ (Has("stopped", i)' <=> Has("stopped", i)))
    BY <1>0, <1>6 DEF Ends, Has, Found
  <2>2. QED
    BY <1>1, <1>2, <1>6, <1>7, <1>8, <1>9, <1>10, <2>1, OpStep
<1>12. /\ \A S : InHand(a, S) <=> o \in S
       /\ \A S : InHand(a, S)' <=> q \in S
  BY <1>3, <1>11
<1>13. /\ o = "commit" => mode = "apply" /\ plan[a].kind \in Files /\ q = "committed"
       /\ o = "undo_commit" => mode = "undo" /\ plan[a].kind \in Files \cup {"remove"}
                               /\ q = IF plan[a].kind \in {"unit", "remove"} THEN "reload" ELSE "undone"
  <2>1. /\ o = "commit" => mode = "apply" /\ plan[a].kind \in Files
        /\ o = "undo_commit" => mode = "undo" /\ plan[a].kind \in Files \cup {"remove"}
    BY <1>2, <1>3, HeadKinds DEF Kind, Rewrites
  <2>2. QED
    BY <1>1, <1>11, <2>1 DEF Follows, ActNext, UndoNext
<1>14. /\ file'[a] = [body |-> b, id |-> made] /\ temps'[a] = temps[a] \ {made}
       /\ Body(a)' = b /\ ev'[a] = ev[a] /\ rec'[a] = rec[a]
       /\ rec[a].undone = "no"
  BY <1>2, <1>3, <1>5, <1>6, TypesAre DEF Body, RunFits
<1>15. TempsFit(a)'
  BY <1>0, <1>2, <1>3, <1>6, <1>12, <1>13, <1>14 DEF TempsFit, Found
<1>16. LookFits(a)'
  BY <1>0, <1>12, <1>13 DEF LookFits, Rewrites
<1>17. HostFits(a)'
  <2> SUFFICES ASSUME a \notin touched
               PROVE  HostFits(a)'
    BY <1>6 DEF HostFits
  <2>1. CASE o = "commit"
    <3>1. Note("intent", made, seen) \in ev[a] /\ Note("staged", made, "none") \in ev[a]
      BY <1>3, <1>12, <2>1 DEF TempsFit, Found
    <3>2. FileFits(a)
      BY <1>3, <1>13, <2>1, Zenon DEF HostFits
    <3>3. seen = plan[a].orig
      BY <3>1, <3>2 DEF FileFits, Found, Note
    <3>4. FileFits(a)'
      <4>1. /\ Body(a)' = "new" /\ file'[a].id = made /\ Found("intent", a)' = Found("intent", a) /\ plan' = plan
            /\ a \in stale' => plan[a].kind = "unit"
        BY <1>4, <1>5, <1>6, <1>13, <1>14, <2>1, <3>2 DEF FileFits, Found, Files
      <4>2. Body(a)' # plan[a].orig => Note("intent", made, plan[a].orig) \in ev'[a] /\ Note("staged", made, "none") \in ev'[a]
        BY <1>14, <3>1, <3>3
      <4>3. QED
        <5>1. ~InHand(a, {"look"})' /\ ~InHand(a, {"intent"})'
          BY <1>12, <1>13, <2>1
        <5>2. QED
          BY <3>2, <4>1, <4>2, <5>1 DEF FileFits
    <3>5. UndoFits(a)'
      BY <1>12, <1>13, <1>14, <2>1 DEF UndoFits, Rewrites
    <3>6. QED
      BY <1>6, <1>13, <2>1, <3>4, <3>5 DEF HostFits, Files, Commands
  <2>2. CASE o = "undo_commit"
    <3>1. b = plan[a].orig /\ plan'[a] = plan[a]
      BY <1>3, <1>4, <1>6, <1>12, <2>2 DEF HostFits, UndoFits, Rewrites
    <3>2. plan[a].kind \in Files => FileFits(a)'
      BY <1>3, <1>5, <1>6, <1>12, <1>13, <1>14, <2>2, <3>1 DEF HostFits, FileFits, Found, Files
    <3>3. plan[a].kind = "remove" => RemoveFits(a)'
      BY <1>3, <1>6, <1>12, <1>13, <1>14, <2>2, <3>1 DEF HostFits, RemoveFits, Found, Has
    <3>4. UndoFits(a)'
      <4>1. plan[a].kind \notin {"unit", "remove"} => a \notin stale'
        BY <1>3, <1>5, <1>13, <2>2 DEF HostFits, FileFits
      <4>2. plan[a].kind \notin {"unit", "remove"} => Restored(a)'
        BY <1>6, <1>13, <1>14, <2>2, <3>1, <4>1 DEF Restored, UnitIsRead, Files, Services
      <4>3. QED
        BY <1>12, <1>13, <1>14, <2>2, <3>1, <4>2 DEF UndoFits, Rewrites
    <3>5. QED
      BY <1>6, <1>13, <2>2, <3>1, <3>2, <3>3, <3>4 DEF HostFits, Files, Commands
  <2>3. QED
    BY <1>1, <2>1, <2>2
<1>18. QED
  BY <1>11, <1>15, <1>16, <1>17


LEMMA LookOnlyStep == SetupInv /\ LookOnly => SetupInv'
<1> SUFFICES ASSUME SetupInv, LookOnly
             PROVE  SetupInv'
  OBVIOUS
<1>1. PICK o : Op(o) /\ (o = "scan" \/ o = "visudo")
  BY DEF LookOnly
<1>0. o = "scan" \/ o = "visudo"
  BY <1>1
<1>2. PICK a : a = At
  OBVIOUS
<1>3. /\ Counted /\ todo # <<>> /\ o = Head(todo) /\ a \in queue /\ a \in 1..N
      /\ SetupTypes /\ Evidenced /\ RunFits /\ TodoFits
      /\ TempsFit(a) /\ HostFits(a) /\ LookFits(a)
      /\ Kind = plan[a].kind /\ plan[a].kind \in Kinds /\ plan[a].orig \in {"none", "old", "new"}
      /\ rec[a].undone = "no" /\ (mode = "apply" => rec[a].status = "started")
      /\ \A S : InHand(a, S) <=> o \in S
  BY <1>1, <1>2, OpOf
<1>4. /\ todo' = Tail(todo) /\ UNCHANGED <<mode, queue, result, plan, rec, touched, cut>>
      /\ UNCHANGED <<made, seen, file, temps, svc, stale, backup, ev, moved>>
  BY <1>0, <1>1, <1>2, <1>3 DEF LookOnly, Go, Own, host, journal, history
<1>5. SetupTypes'
  BY <1>3, <1>4 DEF SetupTypes, N
<1>6. Evidenced'
  BY <1>3, <1>4 DEF Evidenced, N
<1>7. \A i \in 1..N \ {a} : Same(i)
  BY <1>3, <1>4 DEF Same, SetupTypes
<1>8. PICK q : q = Head(todo')
  OBVIOUS
<1>9. /\ todo' # <<>> /\ At' = a /\ q \in Follows(a, o)
      /\ \A S : InHand(a, S)' <=> q \in S
      /\ TempsFit(a)' /\ HostFits(a)' /\ LookFits(a)' => SetupInv'
  <2>1. o \notin Ends /\ (o \in {"undo_intent", "mkdir", "build"} => made' > 0)
    BY <1>0 DEF Ends
  <2>2. mode = "undo" => \A i \in 1..N : (Has("enabled", i)' <=> Has("enabled", i)) /\ (Has("stopped", i)' <=> Has("stopped", i))
    BY <1>4 DEF Has, Found
  <2>3. QED
    BY <1>1, <1>2, <1>4, <1>5, <1>6, <1>7, <1>8, <2>1, <2>2, OpStep
<1>10. /\ o = "visudo" => mode = "apply" /\ plan[a].kind = "sudoers" /\ q = "commit"
       /\ o = "scan" => mode = "apply" /\ plan[a].kind \in Commands /\ q = "verify"
  <2>1. /\ o = "visudo" => mode = "apply" /\ plan[a].kind = "sudoers"
        /\ o = "scan" => mode = "apply" /\ plan[a].kind \in Commands
    BY <1>0, <1>3, HeadKinds DEF Commands
  <2>2. QED
    BY <1>0, <1>9, <2>1 DEF Follows, ActNext, UndoNext
<1>11. TempsFit(a)'
  BY <1>0, <1>2, <1>3, <1>4, <1>9, <1>10 DEF TempsFit, Found
<1>12. LookFits(a)'
  BY <1>0, <1>3, <1>4, <1>9, <1>10 DEF LookFits, Rewrites, Body
<1>13. HostFits(a)'
  <2> SUFFICES ASSUME a \notin touched
               PROVE  HostFits(a)'
    BY <1>4 DEF HostFits
  <2>1. UndoFits(a)'
    BY <1>0, <1>3, <1>4, <1>9, <1>10 DEF UndoFits, Rewrites
  <2>2. plan[a].kind = "sudoers" => FileFits(a)'
    BY <1>0, <1>3, <1>4, <1>9, <1>10 DEF HostFits, FileFits, Found, Body, Files
  <2>3. QED
    BY <1>0, <1>3, <1>4, <1>10, <2>1, <2>2 DEF HostFits, Files, Commands
<1>14. QED
  BY <1>9, <1>11, <1>12, <1>13

LEMMA ReloadStep == SetupInv /\ Reload => SetupInv'
<1> SUFFICES ASSUME SetupInv, Reload
             PROVE  SetupInv'
  OBVIOUS
<1>1. PICK o : Op(o) /\ o = "reload"
  BY DEF Reload
<1>0. o = "reload"
  BY <1>1
<1>2. PICK a : a = At
  OBVIOUS
<1>3. /\ Counted /\ todo # <<>> /\ o = Head(todo) /\ a \in queue /\ a \in 1..N
      /\ SetupTypes /\ Evidenced /\ RunFits /\ TodoFits
      /\ TempsFit(a) /\ HostFits(a) /\ LookFits(a)
      /\ Kind = plan[a].kind /\ plan[a].kind \in Kinds /\ plan[a].orig \in {"none", "old", "new"}
      /\ rec[a].undone = "no" /\ (mode = "apply" => rec[a].status = "started")
      /\ \A S : InHand(a, S) <=> o \in S
  BY <1>1, <1>2, OpOf
<1>4. /\ todo' = Tail(todo) /\ UNCHANGED <<mode, queue, result, plan, rec, touched, cut>>
      /\ stale' = stale \ {a}
      /\ UNCHANGED <<made, seen, file, temps, svc, backup, ev, moved>>
  BY <1>0, <1>1, <1>2, <1>3 DEF Reload, Go, Own, host, journal, history
<1>5. SetupTypes'
  BY <1>3, <1>4 DEF SetupTypes, N
<1>6. Evidenced'
  BY <1>3, <1>4 DEF Evidenced, N
<1>7. \A i \in 1..N \ {a} : Same(i)
  BY <1>3, <1>4 DEF Same, SetupTypes
<1>8. PICK q : q = Head(todo')
  OBVIOUS
<1>9. /\ todo' # <<>> /\ At' = a /\ q \in Follows(a, o)
      /\ \A S : InHand(a, S)' <=> q \in S
      /\ TempsFit(a)' /\ HostFits(a)' /\ LookFits(a)' => SetupInv'
  <2>1. o \notin Ends /\ (o \in {"undo_intent", "mkdir", "build"} => made' > 0)
    BY <1>0 DEF Ends
  <2>2. mode = "undo" => \A i \in 1..N : (Has("enabled", i)' <=> Has("enabled", i)) /\ (Has("stopped", i)' <=> Has("stopped", i))
    BY <1>4 DEF Has, Found
  <2>3. QED
    BY <1>1, <1>2, <1>4, <1>5, <1>6, <1>7, <1>8, <2>1, <2>2, OpStep
<1>10. plan[a].kind \in {"unit", "remove"} /\ q = (IF mode = "undo" THEN "undone" ELSE "verify")
  <2>1. plan[a].kind \in {"unit", "remove"}
    BY <1>0, <1>3, HeadKinds DEF Commands
  <2>2. QED
    BY <1>0, <1>9, <2>1 DEF Follows, ActNext, UndoNext
<1>11. TempsFit(a)'
  BY <1>0, <1>2, <1>3, <1>4, <1>9, <1>10 DEF TempsFit, Found
<1>12. LookFits(a)'
  BY <1>0, <1>3, <1>4, <1>9, <1>10 DEF LookFits, Rewrites, Body
<1>13. HostFits(a)'
  <2> SUFFICES ASSUME a \notin touched
               PROVE  HostFits(a)'
    BY <1>4 DEF HostFits
  <2>1. UndoFits(a)'
    <3>1. mode = "undo" => Restored(a)'
      BY <1>0, <1>3, <1>4, <1>10 DEF HostFits, UndoFits, Restored, UnitIsRead, Services, Body
    <3>2. QED
      BY <1>0, <1>3, <1>4, <1>9, <1>10, <3>1 DEF UndoFits, Rewrites
  <2>2. plan[a].kind = "unit" => FileFits(a)'
    BY <1>0, <1>3, <1>4, <1>9, <1>10 DEF HostFits, FileFits, Found, Body, Files
  <2>3. plan[a].kind = "remove" => RemoveFits(a)'
    BY <1>0, <1>3, <1>4, <1>9, <1>10 DEF HostFits, RemoveFits, Has, Found, Body
  <2>4. QED
    BY <1>0, <1>3, <1>4, <1>10, <2>1, <2>2, <2>3 DEF HostFits, Files, Commands
<1>14. QED
  BY <1>9, <1>11, <1>12, <1>13

LEMMA StageStep == SetupInv /\ Stage => SetupInv'
<1> SUFFICES ASSUME SetupInv, Stage
             PROVE  SetupInv'
  OBVIOUS
<1>1. PICK o : Op(o) /\ (o = "stage" \/ o = "undo_stage")
  BY DEF Stage
<1>0. o = "stage" \/ o = "undo_stage"
  BY <1>1
<1>2. PICK a : a = At
  OBVIOUS
<1>3. /\ Counted /\ todo # <<>> /\ o = Head(todo) /\ a \in queue /\ a \in 1..N
      /\ SetupTypes /\ Evidenced /\ RunFits /\ TodoFits
      /\ TempsFit(a) /\ HostFits(a) /\ LookFits(a)
      /\ Kind = plan[a].kind /\ plan[a].kind \in Kinds /\ plan[a].orig \in {"none", "old", "new"}
      /\ rec[a].undone = "no" /\ (mode = "apply" => rec[a].status = "started")
      /\ \A S : InHand(a, S) <=> o \in S
  BY <1>1, <1>2, OpOf
<1>4. /\ todo' = Tail(todo) /\ UNCHANGED <<mode, queue, result, plan, rec, touched, cut>>
      /\ temps' = [temps EXCEPT ![a] = @ \cup {made}]
      /\ UNCHANGED <<made, seen, file, stale, svc, backup, ev, moved>>
  BY <1>0, <1>1, <1>2, <1>3 DEF Stage, Go, Own, journal, history
<1>5. SetupTypes'
  <2>1. made > 0
    <3>1. CASE o = "stage"
      <4>1. Note("intent", made, seen) \in ev[a]
        BY <1>3, <3>1 DEF TempsFit, Found
      <4>2. QED
        BY <1>3, <4>1 DEF Evidenced, Note
    <3>2. CASE o = "undo_stage"
      <4>1. Counted /\ todo # <<>> /\ Head(todo) = "undo_stage"
        BY <1>3, <3>2
      <4>2. QED
        BY <4>1 DEF Counted
    <3>3. QED
      BY <1>0, <3>1, <3>2
  <2>2. temps' \in [1..N -> SUBSET (1..made)]
    BY <1>3, <1>4, <2>1, TypesAre
  <2>3. QED
    BY <1>3, <1>4, <2>2 DEF SetupTypes, N
<1>6. Evidenced'
  BY <1>3, <1>4 DEF Evidenced, N
<1>7. \A i \in 1..N \ {a} : Same(i)
  BY <1>3, <1>4 DEF Same, SetupTypes
<1>8. PICK q : q = Head(todo')
  OBVIOUS
<1>9. /\ todo' # <<>> /\ At' = a /\ q \in Follows(a, o)
      /\ \A S : InHand(a, S)' <=> q \in S
      /\ TempsFit(a)' /\ HostFits(a)' /\ LookFits(a)' => SetupInv'
  <2>1. o \notin Ends /\ (o \in {"undo_intent", "mkdir", "build"} => made' > 0)
    BY <1>0 DEF Ends
  <2>2. mode = "undo" => \A i \in 1..N : (Has("enabled", i)' <=> Has("enabled", i)) /\ (Has("stopped", i)' <=> Has("stopped", i))
    BY <1>4 DEF Has, Found
  <2>3. QED
    BY <1>1, <1>2, <1>4, <1>5, <1>6, <1>7, <1>8, <2>1, <2>2, OpStep
<1>10. /\ o = "stage" => mode = "apply" /\ plan[a].kind \in Files /\ q = "staged"
       /\ o = "undo_stage" => mode = "undo" /\ plan[a].kind \in Files \cup {"remove"} /\ q = "undo_commit"
  <2>1. /\ o = "stage" => mode = "apply" /\ plan[a].kind \in Files
        /\ o = "undo_stage" => mode = "undo" /\ plan[a].kind \in Files \cup {"remove"}
    BY <1>0, <1>3, HeadKinds DEF Rewrites
  <2>2. QED
    BY <1>0, <1>9, <2>1 DEF Follows, ActNext, UndoNext
<1>11. temps'[a] = temps[a] \cup {made} /\ ev'[a] = ev[a] /\ rec'[a] = rec[a] /\ plan'[a] = plan[a]
       /\ Body(a)' = Body(a) /\ file'[a] = file[a]
  BY <1>3, <1>4, TypesAre DEF Body
<1>12. TempsFit(a)'
  BY <1>0, <1>2, <1>3, <1>4, <1>9, <1>10, <1>11 DEF TempsFit, Found
<1>13. LookFits(a)'
  BY <1>0, <1>3, <1>4, <1>9, <1>10, <1>11 DEF LookFits, Rewrites
<1>14. HostFits(a)'
  <2> SUFFICES ASSUME a \notin touched
               PROVE  HostFits(a)'
    BY <1>4 DEF HostFits
  <2>1. UndoFits(a)'
    BY <1>0, <1>3, <1>4, <1>9, <1>10, <1>11 DEF HostFits, UndoFits, Rewrites
  <2>2. plan[a].kind \in Files => FileFits(a)'
    BY <1>0, <1>3, <1>4, <1>9, <1>10, <1>11 DEF HostFits, FileFits, Found, Files
  <2>3. plan[a].kind = "remove" => RemoveFits(a)'
    BY <1>0, <1>3, <1>4, <1>9, <1>10, <1>11 DEF HostFits, RemoveFits, Has, Found
  <2>4. QED
    BY <1>0, <1>3, <1>4, <1>10, <2>1, <2>2, <2>3 DEF HostFits, Files, Commands
<1>15. QED
  BY <1>9, <1>12, <1>13, <1>14

LEMMA BodyChanges ==
  ASSUME NEW n \in Nat, NEW D, NEW f \in [D -> [body : Bodies, id : 0..n]], NEW a, NEW b \in Bodies
  PROVE  [f EXCEPT ![a].body = b] \in [D -> [body : Bodies, id : 0..n]]
BY DEF Bodies

LEMMA UnlinkStep == SetupInv /\ Unlink => SetupInv'
<1> SUFFICES ASSUME SetupInv, Unlink
             PROVE  SetupInv'
  OBVIOUS
<1>1. PICK o : Op(o) /\ (o = "rm_unlink" \/ o = "unlink")
  BY DEF Unlink
<1>0. o = "rm_unlink" \/ o = "unlink"
  BY <1>1
<1>2. PICK a : a = At
  OBVIOUS
<1>3. /\ Counted /\ todo # <<>> /\ o = Head(todo) /\ a \in queue /\ a \in 1..N
      /\ SetupTypes /\ Evidenced /\ RunFits /\ TodoFits
      /\ TempsFit(a) /\ HostFits(a) /\ LookFits(a)
      /\ Kind = plan[a].kind /\ plan[a].kind \in Kinds /\ plan[a].orig \in {"none", "old", "new"}
      /\ rec[a].undone = "no" /\ (mode = "apply" => rec[a].status = "started")
      /\ \A S : InHand(a, S) <=> o \in S
  BY <1>1, <1>2, OpOf
<1>4. /\ todo' = Tail(todo) /\ UNCHANGED <<mode, queue, result, plan, rec, touched, cut>>
      /\ file' = [file EXCEPT ![a] = [body |-> "none", id |-> 0]]
      /\ stale' = IF plan[a].kind \in {"unit", "remove"} THEN stale \cup {a} ELSE stale
      /\ UNCHANGED <<made, seen, temps, svc, backup, ev, moved>>
  BY <1>0, <1>1, <1>2, <1>3 DEF Unlink, Go, Own, journal, history
<1>5. SetupTypes'
  <2>1. file' \in [1..N -> [body : Bodies, id : 0..made]]
    <3>1. "none" \in Bodies /\ 0 \in 0..made
      BY <1>3, TypesAre DEF Bodies
    <3>2. QED
      BY <1>3, <1>4, <3>1, TypesAre, ObjectChanges
  <2>2. stale' \subseteq 1..N
    BY <1>3, <1>4 DEF SetupTypes
  <2>3. QED
    BY <1>3, <1>4, <2>1, <2>2 DEF SetupTypes, N
<1>6. Evidenced'
  BY <1>3, <1>4 DEF Evidenced, N
<1>7. \A i \in 1..N \ {a} : Same(i)
  BY <1>3, <1>4 DEF Same, SetupTypes
<1>8. PICK q : q = Head(todo')
  OBVIOUS
<1>9. /\ todo' # <<>> /\ At' = a /\ q \in Follows(a, o)
      /\ \A S : InHand(a, S)' <=> q \in S
      /\ TempsFit(a)' /\ HostFits(a)' /\ LookFits(a)' => SetupInv'
  <2>1. o \notin Ends /\ (o \in {"undo_intent", "mkdir", "build"} => made' > 0)
    BY <1>0 DEF Ends
  <2>2. mode = "undo" => \A i \in 1..N : (Has("enabled", i)' <=> Has("enabled", i)) /\ (Has("stopped", i)' <=> Has("stopped", i))
    BY <1>4 DEF Has, Found
  <2>3. QED
    BY <1>1, <1>2, <1>4, <1>5, <1>6, <1>7, <1>8, <2>1, <2>2, OpStep
<1>10. /\ o = "rm_unlink" => mode = "apply" /\ plan[a].kind = "remove" /\ q = "removed"
       /\ o = "unlink" => mode = "undo" /\ plan[a].kind \in Files \cup {"dir", "venv"}
                          /\ q = (IF plan[a].kind = "unit" THEN "reload" ELSE "undone")
  <2>1. /\ o = "rm_unlink" => mode = "apply" /\ plan[a].kind = "remove"
        /\ o = "unlink" => mode = "undo" /\ plan[a].kind \in Files \cup {"dir", "venv"} /\ plan[a].kind # "remove"
    BY <1>0, <1>3, HeadKinds DEF Files
  <2>2. QED
    BY <1>0, <1>9, <2>1 DEF Follows, ActNext, UndoNext
<1>11. /\ file'[a] = [body |-> "none", id |-> 0] /\ Body(a)' = "none"
       /\ ev'[a] = ev[a] /\ rec'[a] = rec[a] /\ plan'[a] = plan[a] /\ temps'[a] = temps[a]
  BY <1>3, <1>4, TypesAre DEF Body
<1>12. TempsFit(a)'
  BY <1>0, <1>2, <1>3, <1>4, <1>9, <1>10, <1>11 DEF TempsFit, Found
<1>13. LookFits(a)'
  BY <1>0, <1>2, <1>3, <1>4, <1>9, <1>10, <1>11 DEF LookFits, Rewrites
<1>14. HostFits(a)'
  <2> SUFFICES ASSUME a \notin touched
               PROVE  HostFits(a)'
    BY <1>4 DEF HostFits
  <2>1. CASE o = "rm_unlink"
    <3>1. RemoveFits(a)'
      BY <1>0, <1>2, <1>3, <1>4, <1>9, <1>10, <1>11, <2>1 DEF HostFits, RemoveFits, Has, Found
    <3>2. UndoFits(a)'
      BY <1>0, <1>2, <1>3, <1>4, <1>9, <1>10, <1>11, <2>1 DEF UndoFits, Rewrites
    <3>3. QED
      BY <1>4, <1>10, <2>1, <3>1, <3>2 DEF HostFits, Files, Commands
  <2>2. CASE o = "unlink"
    <3>1. plan[a].orig = "none"
      BY <1>3, <2>2 DEF HostFits, UndoFits
    <3>2. plan[a].kind \in Files => FileFits(a)'
      BY <1>0, <1>2, <1>3, <1>4, <1>9, <1>10, <1>11, <2>2, <3>1 DEF HostFits, FileFits, Found, Files
    <3>3. plan[a].kind = "dir" => DirFits(a)'
      BY <1>0, <1>2, <1>3, <1>4, <1>9, <1>10, <1>11, <2>2, <3>1 DEF HostFits, DirFits, Has, Found
    <3>4. plan[a].kind = "venv" => VenvFits(a)'
      BY <1>0, <1>2, <1>3, <1>4, <1>9, <1>10, <1>11, <2>2, <3>1 DEF HostFits, VenvFits, Has, Found
    <3>5. UndoFits(a)'
      <4>1. plan[a].kind # "unit" => a \notin stale'
        BY <1>3, <1>4, <1>10, <2>2 DEF HostFits, FileFits, DirFits, VenvFits, Files
      <4>2. plan[a].kind # "unit" => Restored(a)'
        BY <1>4, <1>10, <1>11, <2>2, <3>1, <4>1 DEF Restored, UnitIsRead, Services, Files
      <4>3. QED
        BY <1>0, <1>2, <1>3, <1>4, <1>9, <1>10, <1>11, <2>2, <3>1, <4>2 DEF UndoFits, Rewrites
    <3>6. QED
      BY <1>4, <1>10, <2>2, <3>2, <3>3, <3>4, <3>5 DEF HostFits, Files, Commands
  <2>3. QED
    BY <1>0, <2>1, <2>2
<1>15. QED
  BY <1>9, <1>12, <1>13, <1>14

LEMMA ChangeStep == SetupInv /\ Change => SetupInv'
<1> SUFFICES ASSUME SetupInv, Change
             PROVE  SetupInv'
  OBVIOUS
<1>1. PICK o : \E c : Become(o, c) /\ ((o # "chmod_back" /\ c = "new") \/ (o = "chmod_back" /\ c = "old"))
                 /\ (o = "chmod" \/ o = "deps" \/ o = "grant" \/ o = "copy" \/ o = "chmod_back")
  BY DEF Change
<1>0. o = "chmod" \/ o = "deps" \/ o = "grant" \/ o = "copy" \/ o = "chmod_back"
  BY <1>1
<1>2. PICK a : a = At
  OBVIOUS
<1>3. /\ Counted /\ todo # <<>> /\ o = Head(todo) /\ a \in queue /\ a \in 1..N
      /\ SetupTypes /\ Evidenced /\ RunFits /\ TodoFits
      /\ TempsFit(a) /\ HostFits(a) /\ LookFits(a)
      /\ Kind = plan[a].kind /\ plan[a].kind \in Kinds /\ plan[a].orig \in {"none", "old", "new"}
      /\ rec[a].undone = "no" /\ (mode = "apply" => rec[a].status = "started")
      /\ \A S : InHand(a, S) <=> o \in S
  BY <1>1, <1>2, OpOf DEF Become
<1>b. PICK b : /\ b \in Bodies /\ Become(o, b) /\ (o # "chmod_back" => b = "new") /\ (o = "chmod_back" => b = "old")
  BY <1>1 DEF Bodies
<1>4. /\ todo' = Tail(todo) /\ UNCHANGED <<mode, queue, result, plan, rec, touched, cut>>
      /\ file' = [file EXCEPT ![a].body = b]
      /\ UNCHANGED <<made, seen, temps, stale, svc, backup, ev, moved>>
  BY <1>0, <1>b, <1>2, <1>3 DEF Become, Go, Own, journal, history
<1>5. SetupTypes'
  <2>1. file' \in [1..N -> [body : Bodies, id : 0..made]]
    BY <1>3, <1>4, <1>b, TypesAre, BodyChanges
  <2>2. QED
    BY <1>3, <1>4, <2>1 DEF SetupTypes, N
<1>6. Evidenced'
  BY <1>3, <1>4 DEF Evidenced, N
<1>7. \A i \in 1..N \ {a} : Same(i)
  BY <1>3, <1>4 DEF Same, SetupTypes
<1>8. PICK q : q = Head(todo')
  OBVIOUS
<1>9. /\ todo' # <<>> /\ At' = a /\ q \in Follows(a, o)
      /\ \A S : InHand(a, S)' <=> q \in S
      /\ TempsFit(a)' /\ HostFits(a)' /\ LookFits(a)' => SetupInv'
  <2>1. o \notin Ends /\ (o \in {"undo_intent", "mkdir", "build"} => made' > 0)
    BY <1>0 DEF Ends
  <2>2. mode = "undo" => \A i \in 1..N : (Has("enabled", i)' <=> Has("enabled", i)) /\ (Has("stopped", i)' <=> Has("stopped", i))
    BY <1>4 DEF Has, Found
  <2>3. QED
    BY <1>1, <1>2, <1>4, <1>5, <1>6, <1>7, <1>8, <2>1, <2>2, OpStep DEF Become
<1>10. /\ o = "chmod" => mode = "apply" /\ plan[a].kind = "tight" /\ q = "verify"
       /\ o = "deps" => mode = "apply" /\ plan[a].kind = "venv" /\ q = "digest"
       /\ (o = "grant" \/ o = "copy") => mode = "apply" /\ plan[a].kind \in Commands /\ (q = "verify" \/ q = "snapshot")
       /\ o = "chmod_back" => mode = "undo" /\ plan[a].kind = "tight" /\ q = "undone"
  <2>1. /\ o = "chmod" => mode = "apply" /\ plan[a].kind = "tight"
        /\ o = "deps" => mode = "apply" /\ plan[a].kind = "venv"
        /\ (o = "grant" \/ o = "copy") => mode = "apply" /\ plan[a].kind \in Commands
        /\ o = "chmod_back" => mode = "undo" /\ plan[a].kind = "tight"
    BY <1>0, <1>3, HeadKinds DEF Commands
  <2>2. QED
    BY <1>0, <1>9, <2>1 DEF Follows, ActNext, UndoNext
<1>11. /\ Body(a)' = b /\ file'[a].id = file[a].id
       /\ ev'[a] = ev[a] /\ rec'[a] = rec[a] /\ plan'[a] = plan[a] /\ temps'[a] = temps[a]
  BY <1>3, <1>4, TypesAre DEF Body
<1>12. TempsFit(a)'
  BY <1>0, <1>2, <1>3, <1>4, <1>9, <1>10, <1>11 DEF TempsFit, Found
<1>13. LookFits(a)'
  BY <1>0, <1>2, <1>3, <1>4, <1>9, <1>10, <1>11 DEF LookFits, Rewrites
<1>14. HostFits(a)'
  <2> SUFFICES ASSUME a \notin touched
               PROVE  HostFits(a)'
    BY <1>4 DEF HostFits
  <2>1. plan[a].kind = "tight" => TightFits(a)'
    BY <1>0, <1>2, <1>3, <1>4, <1>9, <1>10, <1>11, <1>b DEF HostFits, UndoFits, TightFits, Has, Found, Commands
  <2>2. plan[a].kind = "venv" => VenvFits(a)'
    BY <1>0, <1>2, <1>3, <1>4, <1>9, <1>10, <1>11, <1>b DEF HostFits, VenvFits, Has, Found, Commands
  <2>3. UndoFits(a)'
    <3>1. o = "chmod_back" => Restored(a)'
      BY <1>3, <1>4, <1>b, <1>10, <1>11 DEF HostFits, UndoFits, TightFits, Restored, UnitIsRead, Services
    <3>2. QED
      BY <1>0, <1>2, <1>3, <1>4, <1>9, <1>10, <1>11, <3>1 DEF UndoFits, Rewrites
  <2>4. QED
    BY <1>0, <1>3, <1>4, <1>10, <2>1, <2>2, <2>3 DEF HostFits, Files, Commands
<1>15. QED
  BY <1>9, <1>12, <1>13, <1>14

LEMMA DigestStep == SetupInv /\ Digest => SetupInv'
<1> SUFFICES ASSUME SetupInv, Digest
             PROVE  SetupInv'
  OBVIOUS
<1>1. PICK o : Op(o) /\ o = "digest"
  BY DEF Digest
<1>0. o = "digest"
  BY <1>1
<1>2. PICK a : a = At
  OBVIOUS
<1>3. /\ Counted /\ todo # <<>> /\ o = Head(todo) /\ a \in queue /\ a \in 1..N
      /\ SetupTypes /\ Evidenced /\ RunFits /\ TodoFits
      /\ TempsFit(a) /\ HostFits(a) /\ LookFits(a)
      /\ Kind = plan[a].kind /\ plan[a].kind \in Kinds /\ plan[a].orig \in {"none", "old", "new"}
      /\ rec[a].undone = "no" /\ (mode = "apply" => rec[a].status = "started")
      /\ \A S : InHand(a, S) <=> o \in S
  BY <1>1, <1>2, OpOf
<1>4. /\ todo' = Tail(todo) /\ UNCHANGED <<mode, queue, result, plan, rec, touched, cut>>
      /\ ev' = [ev EXCEPT ![a] = IF Has("created", a) THEN @ \cup {Note("digest", Latest("created", a).n, Body(a))} ELSE @]
      /\ UNCHANGED <<made, seen, file, temps, stale, svc, backup, moved>>
  BY <1>0, <1>1, <1>2, <1>3 DEF Digest, Go, Own, host, history
<1>e. /\ ev' \in [1..N -> SUBSET Notes]
      /\ \A i \in 1..N \ {a} : ev'[i] = ev[i]
      /\ ev[a] \subseteq ev'[a]
      /\ \A e \in ev'[a] \ ev[a] : e.phase = "digest" /\ e.n <= made
  <2>1. CASE ~Has("created", a)
    BY <1>3, <1>4, <2>1, TypesAre
  <2>2. CASE Has("created", a)
    <3>1. PICK n : n = Latest("created", a).n
      OBVIOUS
    <3>2. n \in Nat /\ n <= made
      <4>1. Latest("created", a) \in ev[a]
        BY <1>3, <2>2, LatestIsFound DEF Found
      <4>2. QED
        BY <1>3, <3>1, <4>1, TypesAre DEF Evidenced, Notes
    <3>3. Note("digest", n, Body(a)) \in Notes
      BY <1>3, <3>2, TypesAre DEF Note, Notes, PhaseNames
    <3>4. ev' = [ev EXCEPT ![a] = @ \cup {Note("digest", n, Body(a))}]
      BY <1>4, <2>2, <3>1
    <3>5. QED
      BY <1>3, <3>2, <3>3, <3>4, TypesAre DEF Note
  <2>3. QED
    BY <2>1, <2>2
<1>5. SetupTypes'
  BY <1>3, <1>4, <1>e DEF SetupTypes, N
<1>6. Evidenced'
  BY <1>3, <1>4, <1>e DEF Evidenced, N
<1>7. \A i \in 1..N \ {a} : Same(i)
  BY <1>3, <1>4 DEF Same, SetupTypes
<1>8. PICK q : q = Head(todo')
  OBVIOUS
<1>9. /\ todo' # <<>> /\ At' = a /\ q \in Follows(a, o)
      /\ \A S : InHand(a, S)' <=> q \in S
      /\ TempsFit(a)' /\ HostFits(a)' /\ LookFits(a)' => SetupInv'
  <2>1. o \notin Ends /\ (o \in {"undo_intent", "mkdir", "build"} => made' > 0)
    BY <1>0 DEF Ends
  <2>2. mode = "undo" => \A i \in 1..N : (Has("enabled", i)' <=> Has("enabled", i)) /\ (Has("stopped", i)' <=> Has("stopped", i))
    BY <1>0, <1>3, HeadKinds
  <2>3. QED
    BY <1>1, <1>2, <1>4, <1>5, <1>6, <1>7, <1>8, <2>1, <2>2, OpStep
<1>10. mode = "apply" /\ plan[a].kind = "venv" /\ q = "verify"
  <2>1. mode = "apply" /\ plan[a].kind = "venv"
    BY <1>0, <1>3, HeadKinds DEF Commands
  <2>2. QED
    BY <1>0, <1>9, <2>1 DEF Follows, ActNext, UndoNext
<1>11. /\ rec'[a] = rec[a] /\ plan'[a] = plan[a] /\ temps'[a] = temps[a] /\ Body(a)' = Body(a)
       /\ Found("intent", a)' = Found("intent", a) /\ Found("created", a)' = Found("created", a)
  BY <1>3, <1>4, <1>e DEF Body, Found
<1>12. TempsFit(a)'
  BY <1>0, <1>2, <1>3, <1>4, <1>9, <1>10, <1>11 DEF TempsFit
<1>13. LookFits(a)'
  BY <1>0, <1>2, <1>3, <1>4, <1>9, <1>10, <1>11 DEF LookFits, Rewrites
<1>14. HostFits(a)'
  <2> SUFFICES ASSUME a \notin touched
               PROVE  HostFits(a)'
    BY <1>4 DEF HostFits
  <2>1. VenvFits(a)'
    BY <1>0, <1>2, <1>3, <1>4, <1>9, <1>10, <1>11 DEF HostFits, VenvFits, Has
  <2>2. UndoFits(a)'
    BY <1>0, <1>2, <1>3, <1>4, <1>9, <1>10, <1>11 DEF UndoFits, Rewrites
  <2>3. QED
    BY <1>4, <1>10, <2>1, <2>2 DEF HostFits, Files, Commands
<1>15. QED
  BY <1>9, <1>12, <1>13, <1>14

LEMMA ServiceChanges ==
  ASSUME NEW D, NEW s \in [D -> [on : BOOLEAN, up : BOOLEAN]], NEW a \in D, NEW b \in BOOLEAN
  PROVE  /\ [s EXCEPT ![a].on = b] \in [D -> [on : BOOLEAN, up : BOOLEAN]]
         /\ [s EXCEPT ![a].up = b] \in [D -> [on : BOOLEAN, up : BOOLEAN]]
OBVIOUS

LEMMA FlagsStep == SetupInv /\ Flags => SetupInv'
<1> SUFFICES ASSUME SetupInv, Flags
             PROVE  SetupInv'
  OBVIOUS
<1>1. PICK o : Op(o) /\ o = "flags"
  BY DEF Flags
<1>0. o = "flags"
  BY <1>1
<1>2. PICK a : a = At
  OBVIOUS
<1>3. /\ Counted /\ todo # <<>> /\ o = Head(todo) /\ a \in queue /\ a \in 1..N
      /\ SetupTypes /\ Evidenced /\ RunFits /\ TodoFits
      /\ TempsFit(a) /\ HostFits(a) /\ LookFits(a)
      /\ Kind = plan[a].kind /\ plan[a].kind \in Kinds /\ plan[a].orig \in {"none", "old", "new"}
      /\ rec[a].undone = "no" /\ (mode = "apply" => rec[a].status = "started")
      /\ \A S : InHand(a, S) <=> o \in S
  BY <1>1, <1>2, OpOf
<1>4. /\ todo' = Tail(todo) /\ UNCHANGED <<mode, queue, result, plan, rec, touched, cut>>
      /\ \E flags \in SUBSET {Note("was_on", 0, "none"), Note("was_up", 0, "none")} :
           ev' = [ev EXCEPT ![a] = {e \in @ : e.phase \notin {"was_on", "was_up"}} \cup flags]
      /\ UNCHANGED <<made, seen, file, temps, stale, svc, backup, moved>>
  <2>1. PICK f : f = {Note("was_on", 0, "none") : x \in {y \in {1} : svc[a].on}} \cup {Note("was_up", 0, "none") : x \in {y \in {1} : svc[a].up}}
    OBVIOUS
  <2>2. f \in SUBSET {Note("was_on", 0, "none"), Note("was_up", 0, "none")}
    BY <2>1
  <2>3. ev' = [ev EXCEPT ![a] = {e \in @ : e.phase \notin {"was_on", "was_up"}} \cup f]
    BY <1>2, <2>1 DEF Flags
  <2>4. QED
    BY <2>2, <2>3, <1>2 DEF Flags, Go, Own, host, history
<1>e. /\ ev' \in [1..N -> SUBSET Notes]
      /\ \A i \in 1..N \ {a} : ev'[i] = ev[i]
      /\ \A e \in ev'[a] : e \in ev[a] \/ (e.phase \in {"was_on", "was_up"} /\ e.n = 0)
      /\ \A e \in ev[a] : e \in ev'[a] \/ e.phase \in {"was_on", "was_up"}
  <2>1. PICK flags \in SUBSET {Note("was_on", 0, "none"), Note("was_up", 0, "none")} :
             ev' = [ev EXCEPT ![a] = {e \in @ : e.phase \notin {"was_on", "was_up"}} \cup flags]
    BY <1>4
  <2>2. \A e \in flags : e \in Notes /\ e.phase \in {"was_on", "was_up"} /\ e.n = 0
    BY DEF Note, Notes, PhaseNames, Bodies
  <2>3. QED
    BY <1>3, <2>1, <2>2, TypesAre
<1>5. SetupTypes'
  BY <1>3, <1>4, <1>e DEF SetupTypes, N
<1>6. Evidenced'
  <2>1. mode = "apply" /\ plan[a].kind = "disable"
    BY <1>0, <1>3, HeadKinds
  <2>2. \A e \in ev'[a] : e.n <= made /\ (e.phase \in {"intent", "created"} => e.n > 0) /\ e.phase \notin {"enabled", "started"}
    BY <1>3, <1>e, <2>1, TypesAre DEF Evidenced
  <2>3. QED
    BY <1>3, <1>4, <1>e, <2>1, <2>2 DEF Evidenced, N
<1>7. \A i \in 1..N \ {a} : Same(i)
  BY <1>3, <1>4 DEF Same, SetupTypes
<1>8. PICK q : q = Head(todo')
  OBVIOUS
<1>9. /\ todo' # <<>> /\ At' = a /\ q \in Follows(a, o)
      /\ \A S : InHand(a, S)' <=> q \in S
      /\ TempsFit(a)' /\ HostFits(a)' /\ LookFits(a)' => SetupInv'
  <2>1. o \notin Ends /\ (o \in {"undo_intent", "mkdir", "build"} => made' > 0)
    BY <1>0 DEF Ends
  <2>2. mode = "undo" => \A i \in 1..N : (Has("enabled", i)' <=> Has("enabled", i)) /\ (Has("stopped", i)' <=> Has("stopped", i))
    BY <1>0, <1>3, HeadKinds
  <2>3. QED
    BY <1>1, <1>2, <1>4, <1>5, <1>6, <1>7, <1>8, <2>1, <2>2, OpStep
<1>10. mode = "apply" /\ plan[a].kind = "disable" /\ q = "if_stop"
  <2>1. mode = "apply" /\ plan[a].kind = "disable"
    BY <1>0, <1>3, HeadKinds DEF Commands
  <2>2. QED
    BY <1>0, <1>9, <2>1 DEF Follows, ActNext, UndoNext
<1>11. /\ rec'[a] = rec[a] /\ plan'[a] = plan[a] /\ temps'[a] = temps[a] /\ svc'[a] = svc[a]
       /\ Found("intent", a)' = Found("intent", a)
       /\ Has("disabled", a)' <=> Has("disabled", a)
       /\ Has("stopped", a)' <=> Has("stopped", a)
       /\ CutShort(a)' <=> CutShort(a)
  BY <1>3, <1>4, <1>e DEF Found, Has, CutShort
<1>12. TempsFit(a)'
  BY <1>0, <1>2, <1>3, <1>4, <1>9, <1>10, <1>11 DEF TempsFit
<1>13. LookFits(a)'
  BY <1>0, <1>2, <1>3, <1>4, <1>9, <1>10, <1>11 DEF LookFits, Rewrites
<1>14. HostFits(a)'
  <2> SUFFICES ASSUME a \notin touched
               PROVE  HostFits(a)'
    BY <1>4 DEF HostFits
  <2>1. DisableFits(a)'
    BY <1>0, <1>2, <1>3, <1>4, <1>9, <1>10, <1>11 DEF HostFits, DisableFits
  <2>2. UndoFits(a)'
    BY <1>0, <1>2, <1>3, <1>4, <1>9, <1>10, <1>11 DEF UndoFits, Rewrites
  <2>3. QED
    BY <1>4, <1>10, <2>1, <2>2 DEF HostFits, Files, Commands
<1>15. QED
  BY <1>9, <1>12, <1>13, <1>14

LEMMA SystemctlStep == SetupInv /\ Systemctl => SetupInv'
<1> SUFFICES ASSUME SetupInv, Systemctl
             PROVE  SetupInv'
  OBVIOUS
<1>1. PICK o : Op(o) /\ (o = "systemctl_enable" \/ o = "systemctl_disable" \/ o = "systemctl_start" \/ o = "systemctl_stop")
  BY DEF Systemctl
<1>0. o = "systemctl_enable" \/ o = "systemctl_disable" \/ o = "systemctl_start" \/ o = "systemctl_stop"
  BY <1>1
<1>2. PICK a : a = At
  OBVIOUS
<1>3. /\ Counted /\ todo # <<>> /\ o = Head(todo) /\ a \in queue /\ a \in 1..N
      /\ SetupTypes /\ Evidenced /\ RunFits /\ TodoFits
      /\ TempsFit(a) /\ HostFits(a) /\ LookFits(a)
      /\ Kind = plan[a].kind /\ plan[a].kind \in Kinds /\ plan[a].orig \in {"none", "old", "new"}
      /\ rec[a].undone = "no" /\ (mode = "apply" => rec[a].status = "started")
      /\ \A S : InHand(a, S) <=> o \in S
  BY <1>1, <1>2, OpOf
<1>4. /\ todo' = Tail(todo) /\ UNCHANGED <<mode, queue, result, plan, rec, touched, cut>>
      /\ o = "systemctl_enable" => svc' = [svc EXCEPT ![a].on = TRUE]
      /\ o = "systemctl_disable" => svc' = [svc EXCEPT ![a].on = FALSE]
      /\ o = "systemctl_start" => svc' = [svc EXCEPT ![a].up = TRUE]
      /\ o = "systemctl_stop" => svc' = [svc EXCEPT ![a].up = FALSE]
      /\ UNCHANGED <<made, seen, file, temps, stale, backup, ev, moved>>
  BY <1>0, <1>1, <1>2, <1>3 DEF Systemctl, Op, Go, Own, journal, history
<1>s. /\ svc' \in [1..N -> [on : BOOLEAN, up : BOOLEAN]]
      /\ \A i \in 1..N \ {a} : svc'[i] = svc[i]
      /\ svc'[a].on = (IF o = "systemctl_enable" THEN TRUE ELSE IF o = "systemctl_disable" THEN FALSE ELSE svc[a].on)
      /\ svc'[a].up = (IF o = "systemctl_start" THEN TRUE ELSE IF o = "systemctl_stop" THEN FALSE ELSE svc[a].up)
  <2>1. svc \in [1..N -> [on : BOOLEAN, up : BOOLEAN]] /\ a \in 1..N
    BY <1>3 DEF SetupTypes
  <2>2. CASE o = "systemctl_enable"
    <3>1. svc' = [svc EXCEPT ![a].on = TRUE]
      BY <1>4, <2>2
    <3>2. svc' \in [1..N -> [on : BOOLEAN, up : BOOLEAN]]
      <4>1. PICK b \in BOOLEAN : b = TRUE
        OBVIOUS
      <4>2. svc' = [svc EXCEPT ![a].on = b]
        BY <3>1, <4>1
      <4>3. QED
        BY <2>1, <4>2, ServiceChanges
    <3>3. QED
      BY <2>1, <2>2, <3>1, <3>2
  <2>3. CASE o = "systemctl_disable"
    <3>1. svc' = [svc EXCEPT ![a].on = FALSE]
      BY <1>4, <2>3
    <3>2. svc' \in [1..N -> [on : BOOLEAN, up : BOOLEAN]]
      <4>1. PICK b \in BOOLEAN : b = FALSE
        OBVIOUS
      <4>2. svc' = [svc EXCEPT ![a].on = b]
        BY <3>1, <4>1
      <4>3. QED
        BY <2>1, <4>2, ServiceChanges
    <3>3. QED
      BY <2>1, <2>3, <3>1, <3>2
  <2>4. CASE o = "systemctl_start"
    <3>1. svc' = [svc EXCEPT ![a].up = TRUE]
      BY <1>4, <2>4
    <3>2. svc' \in [1..N -> [on : BOOLEAN, up : BOOLEAN]]
      <4>1. PICK b \in BOOLEAN : b = TRUE
        OBVIOUS
      <4>2. svc' = [svc EXCEPT ![a].up = b]
        BY <3>1, <4>1
      <4>3. QED
        BY <2>1, <4>2, ServiceChanges
    <3>3. QED
      BY <2>1, <2>4, <3>1, <3>2
  <2>5. CASE o = "systemctl_stop"
    <3>1. svc' = [svc EXCEPT ![a].up = FALSE]
      BY <1>4, <2>5
    <3>2. svc' \in [1..N -> [on : BOOLEAN, up : BOOLEAN]]
      <4>1. PICK b \in BOOLEAN : b = FALSE
        OBVIOUS
      <4>2. svc' = [svc EXCEPT ![a].up = b]
        BY <3>1, <4>1
      <4>3. QED
        BY <2>1, <4>2, ServiceChanges
    <3>3. QED
      BY <2>1, <2>5, <3>1, <3>2
  <2>6. QED
    BY <1>0, <2>2, <2>3, <2>4, <2>5
<1>5. SetupTypes'
  BY <1>3, <1>4, <1>s DEF SetupTypes, N
<1>6. Evidenced'
  BY <1>3, <1>4 DEF Evidenced, N
<1>7. \A i \in 1..N \ {a} : Same(i)
  BY <1>4, <1>s DEF Same
<1>8. PICK q : q = Head(todo')
  OBVIOUS
<1>9. /\ todo' # <<>> /\ At' = a /\ q \in Follows(a, o)
      /\ \A S : InHand(a, S)' <=> q \in S
      /\ TempsFit(a)' /\ HostFits(a)' /\ LookFits(a)' => SetupInv'
  <2>1. o \notin Ends /\ (o \in {"undo_intent", "mkdir", "build"} => made' > 0)
    BY <1>0 DEF Ends
  <2>2. mode = "undo" => \A i \in 1..N : (Has("enabled", i)' <=> Has("enabled", i)) /\ (Has("stopped", i)' <=> Has("stopped", i))
    BY <1>4 DEF Has, Found
  <2>3. QED
    BY <1>1, <1>2, <1>4, <1>5, <1>6, <1>7, <1>8, <2>1, <2>2, OpStep
<1>10. /\ mode = "apply" => plan[a].kind = (IF o = "systemctl_enable" \/ o = "systemctl_start" THEN "enable" ELSE "disable")
       /\ mode = "undo" => plan[a].kind = (IF o = "systemctl_enable" \/ o = "systemctl_start" THEN "disable" ELSE "enable")
       /\ mode = "apply" \/ mode = "undo"
       /\ mode = "apply" => q = (IF o = "systemctl_enable" THEN "enabled" ELSE IF o = "systemctl_disable" THEN "disabled"
                                 ELSE IF o = "systemctl_start" THEN "started" ELSE "stopped")
       /\ mode = "undo" => q = (IF o = "systemctl_stop" /\ Has("enabled", a) THEN "systemctl_disable"
                                ELSE IF o = "systemctl_enable" /\ Has("stopped", a) THEN "systemctl_start" ELSE "undone")
  <2>1. /\ mode = "apply" => plan[a].kind = (IF o = "systemctl_enable" \/ o = "systemctl_start" THEN "enable" ELSE "disable")
        /\ mode = "undo" => plan[a].kind = (IF o = "systemctl_enable" \/ o = "systemctl_start" THEN "disable" ELSE "enable")
        /\ mode = "apply" \/ mode = "undo"
    BY <1>0, <1>3, HeadKinds DEF Commands
  <2>2. QED
    <3>1. CASE mode = "apply"
      BY <1>0, <1>9, <2>1, <3>1 DEF Follows, ActNext
    <3>2. CASE mode = "undo"
      <4>1. q \in UndoNext(a, o)
        BY <1>9, <3>2 DEF Follows
      <4>2. QED
        BY <1>0, <2>1, <3>2, <4>1 DEF UndoNext
    <3>3. QED
      BY <2>1, <3>1, <3>2
<1>11. /\ rec'[a] = rec[a] /\ plan'[a] = plan[a] /\ temps'[a] = temps[a]
       /\ \A p : Found(p, a)' = Found(p, a) /\ (Has(p, a)' <=> Has(p, a))
       /\ CutShort(a)' <=> CutShort(a)
  BY <1>3, <1>4 DEF Found, Has, CutShort
<1>12. TempsFit(a)'
  BY <1>0, <1>2, <1>3, <1>4, <1>9, <1>10, <1>11, SMTT(30) DEF TempsFit
<1>13. LookFits(a)'
  BY <1>0, <1>2, <1>3, <1>4, <1>9, <1>10, <1>11 DEF LookFits, Rewrites
<1>14. HostFits(a)'
  <2> SUFFICES ASSUME a \notin touched
               PROVE  HostFits(a)'
    BY <1>4 DEF HostFits
  <2>1. plan[a].kind = "enable" => EnableFits(a)'
    BY <1>0, <1>2, <1>3, <1>4, <1>9, <1>10, <1>11, <1>s DEF HostFits, EnableFits
  <2>2. plan[a].kind = "disable" => DisableFits(a)'
    BY <1>0, <1>2, <1>3, <1>4, <1>9, <1>10, <1>11, <1>s DEF HostFits, DisableFits
  <2>3. UndoFits(a)'
    <3>1. mode = "undo" /\ q = "undone" /\ ~CutShort(a) /\ plan[a].kind = "enable" => ~svc'[a].on /\ ~svc'[a].up
      BY <1>0, <1>2, <1>3, <1>4, <1>9, <1>10, <1>11, <1>s DEF HostFits, EnableFits
    <3>2. mode = "undo" /\ q = "undone" /\ ~CutShort(a) /\ plan[a].kind = "disable" => svc'[a].on /\ svc'[a].up
      BY <1>0, <1>2, <1>3, <1>4, <1>9, <1>10, <1>11, <1>s DEF HostFits, DisableFits
    <3>3. svc'[a] \in [on : BOOLEAN, up : BOOLEAN]
      BY <1>3, <1>4, <1>5 DEF SetupTypes, N
    <3>4. mode = "undo" /\ q = "undone" /\ ~CutShort(a) => Restored(a)'
      BY <1>10, <1>11, <3>1, <3>2, <3>3 DEF Restored, Services
    <3>5. QED
      BY <1>0, <1>2, <1>3, <1>4, <1>9, <1>10, <1>11, <3>4 DEF UndoFits, Rewrites
  <2>4. QED
    BY <1>4, <1>10, <2>1, <2>2, <2>3 DEF HostFits, Files, Commands
<1>15. QED
  BY <1>9, <1>12, <1>13, <1>14

----------------------------------------------------------------------------
(* The end of a run, and of the step it has in hand.                       *)

LEMMA HostRests ==
  ASSUME NEW i \in 1..N, HostFits(i), Alike(i), Rests(i)',
         InHand(i, {"created", "enabled", "started", "disabled", "stopped"}) => CutShort(i)',
         rec[i].undone = "undone" => Rests(i)
  PROVE  HostFits(i)'
<1>1. \A S : ~InHand(i, S)'
  BY NotInHandNext
<1>2. \A p : Found(p, i)' = Found(p, i) /\ (Has(p, i)' <=> Has(p, i))
  BY HasStays
<1>3. /\ Body(i)' = Body(i) /\ (CutShort(i) => CutShort(i)')
      /\ (Restored(i)' <=> Restored(i))
  BY HasStays
<1>4. /\ InHand(i, {"created"}) => CutShort(i)'
      /\ InHand(i, {"enabled"}) \/ InHand(i, {"started"}) => CutShort(i)'
      /\ InHand(i, {"disabled"}) \/ InHand(i, {"stopped"}) => CutShort(i)'
  BY DEF InHand
<1>6. FileFits(i) => FileFits(i)'
  BY <1>1, <1>2, <1>3 DEF FileFits, Alike
<1>7. RemoveFits(i) => RemoveFits(i)'
  BY <1>1, <1>2, <1>3 DEF RemoveFits, Alike
<1>8. DirFits(i) => DirFits(i)'
  BY <1>1, <1>2, <1>3, <1>4 DEF DirFits, Alike
<1>9. TightFits(i) => TightFits(i)'
  BY <1>1, <1>2, <1>3 DEF TightFits, Alike
<1>10. VenvFits(i) => VenvFits(i)'
  BY <1>1, <1>2, <1>3 DEF VenvFits, Alike
<1>11. EnableFits(i) => EnableFits(i)'
  BY <1>1, <1>2, <1>3, <1>4 DEF EnableFits, Alike
<1>12. DisableFits(i) => DisableFits(i)'
  BY <1>1, <1>2, <1>3, <1>4 DEF DisableFits, Alike
<1>13. UndoFits(i) => UndoFits(i)'
  BY <1>1, <1>2, <1>3 DEF UndoFits, Alike
<1>14. QED
  BY <1>6, <1>7, <1>8, <1>9, <1>10, <1>11, <1>12, <1>13 DEF HostFits, Alike

(* A run that ends short of its plan.                                      *)
LEMMA RunEnds ==
  ASSUME SetupInv, NEW a, a = At,
         mode' = "idle", queue' = {}, todo' = <<>>, result' # "done", plan' = plan,
         SetupTypes', Evidenced', \A i \in 1..N \ {a} : Same(i),
         HostFits(a)', TempsFit(a)', PromiseFits(a)'
  PROVE  SetupInv'
<1>1. SetupTypes /\ RunFits /\ (1..N)' = 1..N
  BY DEF SetupInv, N
<1>2. RunFits'
  BY <1>1 DEF RunFits
<1>3. TodoFits' /\ Counted'
  BY DEF TodoFits, Counted
<1>4. \A i \in 1..N : LookFits(i)'
  BY DEF LookFits, InHand
<1>5. \A i \in 1..N \ {a} : HostFits(i)' /\ TempsFit(i)' /\ PromiseFits(i)'
  <2>1. TAKE i \in 1..N \ {a}
  <2>2. HostFits(i) /\ TempsFit(i) /\ PromiseFits(i) /\ Same(i)
    BY DEF SetupInv
  <2>3. Rests(i) /\ Rests(i)'
    BY DEF Rests
  <2>4. QED
    BY <1>1, <2>2, <2>3, OthersFit, OthersPromise
<1>6. QED
  BY <1>1, <1>2, <1>3, <1>4, <1>5 DEF SetupInv

(* The same, where only the record of the step in hand and the history of  *)
(* who moved what change: a step of apply that is refused or fails.        *)
LEMMA Stops ==
  ASSUME SetupInv, NEW o, Op(o), NEW a, a = At, mode = "apply", Stop,
         o \notin {"created", "enabled", "started", "disabled", "stopped", "staged", "visudo", "commit",
                   "undo_commit"},
         UNCHANGED <<file, svc, stale, temps, backup, ev, plan, touched, cut>>, moved' \subseteq 1..N
  PROVE  SetupInv'
<1>1. /\ Counted /\ todo # <<>> /\ o = Head(todo) /\ a \in queue /\ a \in 1..N
      /\ SetupTypes /\ Evidenced /\ RunFits /\ TodoFits
      /\ TempsFit(a) /\ HostFits(a) /\ LookFits(a)
      /\ plan[a].kind \in Kinds
      /\ rec[a].undone = "no" /\ rec[a].status = "started"
      /\ \A S : InHand(a, S) <=> o \in S
  BY OpOf
<1>2. /\ mode' = "idle" /\ queue' = {} /\ todo' = <<>> /\ result' = "stopped" /\ seen' = seen /\ made' = made
      /\ rec' = [rec EXCEPT ![a] = [rec[a] EXCEPT !.status = "failed"]]
  BY DEF Stop, Settle, Failed, Finish
<1>3. /\ rec' \in [1..N -> [status : {"none", "started", "ok", "failed"}, satisfied : BOOLEAN, undone : {"no", "undone", "kept"}]]
      /\ rec'[a].status = "failed" /\ rec'[a].undone = "no"
      /\ \A i \in 1..N \ {a} : rec'[i] = rec[i]
  <2>1. rec \in [1..N -> [status : {"none", "started", "ok", "failed"}, satisfied : BOOLEAN, undone : {"no", "undone", "kept"}]]
    BY <1>1 DEF SetupTypes
  <2>2. QED
    BY <1>1, <1>2, <2>1
<1>4. SetupTypes'
  BY <1>1, <1>2, <1>3 DEF SetupTypes, N
<1>5. Evidenced'
  BY <1>1, <1>2 DEF Evidenced, N
<1>6. \A i \in 1..N \ {a} : Same(i)
  BY <1>1, <1>2, <1>3 DEF Same
<1>7. TempsFit(a)'
  <2>1. <<"undo", a>> \notin cut => temps[a] = {}
    BY <1>1 DEF TempsFit
  <2>2. \A S : ~InHand(a, S)'
    BY <1>2 DEF InHand
  <2>3. <<"undo", a>> \notin cut' => temps'[a] = {}
    BY <2>1
  <2>4. QED
    BY <2>2, <2>3 DEF TempsFit
<1>8. HostFits(a)'
  <2>1. Alike(a) /\ Rests(a)'
    BY <1>1, <1>2, <1>3 DEF Alike, Rests
  <2>2. QED
    BY <1>1, <2>1, HostRests
<1>9. PromiseFits(a)'
  BY <1>2, <1>3 DEF PromiseFits
<1>10. QED
  BY <1>1, <1>2, <1>4, <1>5, <1>6, <1>7, <1>8, <1>9, RunEnds

----------------------------------------------------------------------------
(* mkdir and the making of an environment.                                 *)

LEMMA Widens ==
  ASSUME NEW n \in Nat, NEW D, NEW f \in [D -> [body : Bodies, id : 0..n]], NEW t \in [D -> SUBSET (1..n)]
  PROVE  f \in [D -> [body : Bodies, id : 0..n + 1]] /\ t \in [D -> SUBSET (1..n + 1)]
<1>1. 0..n \subseteq 0..n + 1 /\ 1..n \subseteq 1..n + 1
  OBVIOUS
<1>2. QED
  BY <1>1

LEMMA EvidenceStays ==
  ASSUME SetupTypes, Evidenced, ev' = ev, plan' = plan, made' \in Nat, made' >= made
  PROVE  Evidenced'
<1>1. ASSUME NEW i \in 1..N, NEW e \in ev[i]
      PROVE  /\ e.n <= made'
             /\ e.phase \in {"intent", "created"} => e.n > 0
             /\ plan[i].kind = "enable" => e.phase \notin {"disabled", "stopped"}
             /\ plan[i].kind = "disable" => e.phase \notin {"enabled", "started"}
  <2>1. made \in Nat /\ e \in Notes
    BY TypesAre
  <2>2. e.n \in Nat /\ e.n <= made
    BY <2>1 DEF Evidenced, Notes
  <2>3. QED
    BY <2>1, <2>2 DEF Evidenced
<1>2. QED
  BY <1>1 DEF Evidenced, N

LEMMA MakeDirGoes == SetupInv /\ MakeDir /\ Body(At) = "none" => SetupInv'
<1> SUFFICES ASSUME SetupInv, MakeDir, Body(At) = "none"
             PROVE  SetupInv'
  OBVIOUS
<1>1. PICK o : Op(o) /\ (o = "mkdir" \/ o = "build")
  BY DEF MakeDir
<1>0. o = "mkdir" \/ o = "build"
  BY <1>1
<1>2. PICK a : a = At
  OBVIOUS
<1>3. /\ Counted /\ todo # <<>> /\ o = Head(todo) /\ a \in queue /\ a \in 1..N
      /\ SetupTypes /\ Evidenced /\ RunFits /\ TodoFits
      /\ TempsFit(a) /\ HostFits(a) /\ LookFits(a)
      /\ Kind = plan[a].kind /\ plan[a].kind \in Kinds /\ plan[a].orig \in {"none", "old", "new"}
      /\ rec[a].undone = "no" /\ (mode = "apply" => rec[a].status = "started")
      /\ \A S : InHand(a, S) <=> o \in S
  BY <1>1, <1>2, OpOf
<1>b. PICK b : b \in Bodies /\ b = (IF Kind = "dir" THEN "new" ELSE "half")
  BY DEF Bodies
<1>4. /\ todo' = Tail(todo) /\ UNCHANGED <<mode, queue, result, plan, rec, touched, cut>>
      /\ file' = [file EXCEPT ![a] = [body |-> b, id |-> made + 1]]
      /\ made' = made + 1
      /\ UNCHANGED <<seen, temps, stale, svc, backup, ev, moved>>
  BY <1>1, <1>2, <1>3, <1>b DEF MakeDir, Go, Own, journal, history
<1>n. Body(a) = "none"
  BY <1>2
<1>5. SetupTypes'
  <2>1. file \in [1..N -> [body : Bodies, id : 0..made + 1]] /\ temps \in [1..N -> SUBSET (1..made + 1)]
    BY <1>3, TypesAre, Widens
  <2>2. made \in Nat /\ made + 1 \in Nat /\ made + 1 \in 0..made + 1
    BY <1>3, TypesAre
  <2>3. file' \in [1..N -> [body : Bodies, id : 0..made + 1]]
    BY <1>4, <1>b, <2>1, <2>2, ObjectChanges
  <2>4. QED
    BY <1>3, <1>4, <2>1, <2>2, <2>3 DEF SetupTypes, N
<1>6. Evidenced'
  <2>1. made' \in Nat /\ made' >= made
    BY <1>3, <1>4, TypesAre
  <2>2. QED
    BY <1>3, <1>4, <2>1, EvidenceStays
<1>7. \A i \in 1..N \ {a} : Same(i)
  BY <1>3, <1>4 DEF Same, SetupTypes
<1>8. PICK q : q = Head(todo')
  OBVIOUS
<1>9. /\ todo' # <<>> /\ At' = a /\ q \in Follows(a, o)
      /\ \A S : InHand(a, S)' <=> q \in S
      /\ TempsFit(a)' /\ HostFits(a)' /\ LookFits(a)' => SetupInv'
  <2>1. o \notin Ends /\ (o \in {"undo_intent", "mkdir", "build"} => made' > 0)
    BY <1>0, <1>3, <1>4, TypesAre DEF Ends
  <2>2. mode = "undo" => \A i \in 1..N : (Has("enabled", i)' <=> Has("enabled", i)) /\ (Has("stopped", i)' <=> Has("stopped", i))
    BY <1>4 DEF Has, Found
  <2>3. QED
    BY <1>1, <1>2, <1>4, <1>5, <1>6, <1>7, <1>8, <2>1, <2>2, OpStep
<1>10. mode = "apply" /\ plan[a].kind = (IF o = "mkdir" THEN "dir" ELSE "venv") /\ q = "created"
  <2>1. mode = "apply" /\ plan[a].kind = (IF o = "mkdir" THEN "dir" ELSE "venv")
    BY <1>0, <1>3, HeadKinds DEF Commands
  <2>2. QED
    BY <1>0, <1>9, <2>1 DEF Follows, ActNext, UndoNext
<1>11. /\ rec'[a] = rec[a] /\ plan'[a] = plan[a] /\ temps'[a] = temps[a] /\ Body(a)' = b
       /\ \A p : Found(p, a)' = Found(p, a) /\ (Has(p, a)' <=> Has(p, a))
       /\ (o = "mkdir" => b = "new") /\ (o = "build" => b = "half")
  BY <1>0, <1>3, <1>4, <1>b, <1>10, TypesAre DEF Found, Has, Body
<1>12. TempsFit(a)'
  <2>1. <<"undo", a>> \notin cut => temps[a] = {}
    BY <1>0, <1>2, <1>3, <1>10 DEF TempsFit, Found
  <2>2. <<"undo", a>> \notin cut' => temps'[a] = {}
    BY <1>4, <2>1
  <2>3. /\ ~InHand(a, {"stage", "staged", "visudo", "commit"})' /\ ~InHand(a, {"visudo", "commit"})'
    BY <1>9, <1>10
  <2>4. QED
    BY <2>2, <2>3 DEF TempsFit
<1>13. LookFits(a)'
  BY <1>0, <1>2, <1>3, <1>4, <1>9, <1>10, <1>11 DEF LookFits, Rewrites
<1>14. HostFits(a)'
  <2> SUFFICES ASSUME a \notin touched
               PROVE  HostFits(a)'
    BY <1>4 DEF HostFits
  <2>1. o = "mkdir" => DirFits(a)'
    BY <1>0, <1>2, <1>3, <1>4, <1>9, <1>10, <1>11, <1>n DEF HostFits, DirFits
  <2>2. o = "build" => VenvFits(a)'
    BY <1>0, <1>2, <1>3, <1>4, <1>9, <1>10, <1>11, <1>n DEF HostFits, VenvFits
  <2>3. UndoFits(a)'
    BY <1>0, <1>2, <1>3, <1>4, <1>9, <1>10, <1>11 DEF UndoFits, Rewrites
  <2>4. QED
    BY <1>0, <1>4, <1>10, <2>1, <2>2, <2>3 DEF HostFits, Files, Commands
<1>15. QED
  BY <1>9, <1>12, <1>13, <1>14

LEMMA MakeDirStep == SetupInv /\ MakeDir => SetupInv'
<1> SUFFICES ASSUME SetupInv, MakeDir
             PROVE  SetupInv'
  OBVIOUS
<1>1. CASE Body(At) = "none"
  BY <1>1, MakeDirGoes
<1>2. CASE Body(At) # "none"
  <2>1. PICK o : Op(o) /\ (o = "mkdir" \/ o = "build")
    BY DEF MakeDir
  <2>2. PICK a : a = At
    OBVIOUS
  <2>3. mode = "apply" /\ moved \subseteq 1..N
    <3>1. SetupTypes /\ RunFits /\ TodoFits /\ todo # <<>> /\ o = Head(todo)
      BY <2>1, <2>2, OpOf
    <3>2. QED
      BY <2>1, <3>1, HeadKinds DEF SetupTypes
  <2>4. /\ Stop /\ UNCHANGED <<file, svc, stale, temps, backup, ev, plan, touched, cut>> /\ moved' \subseteq 1..N
    BY <1>2, <2>3 DEF MakeDir, Own, history, N
  <2>5. o \notin {"created", "enabled", "started", "disabled", "stopped", "staged", "visudo", "commit", "undo_commit"}
    BY <2>1
  <2>6. QED
    BY <2>1, <2>2, <2>3, <2>4, <2>5, Stops
<1>3. QED
  BY <1>1, <1>2


LEMMA WriteStep == SetupInv /\ Write => SetupInv'
<1> SUFFICES ASSUME SetupInv, Write
             PROVE  SetupInv'
  OBVIOUS
<1>1. PICK o : Op(o) /\ o \in Phases
  BY DEF Write, Op
<1>0. o = "intent" \/ o = "staged" \/ o = "committed" \/ o = "removing" \/ o = "removed" \/ o = "creating" \/ o = "created" \/ o = "tightening" \/ o = "running" \/ o = "snapshot" \/ o = "enabling" \/ o = "enabled" \/ o = "starting" \/ o = "started" \/ o = "stopped" \/ o = "disabled" \/ o = "undo_intent"
  BY <1>1 DEF Phases
<1>2. PICK a : a = At
  OBVIOUS
<1>3. /\ Counted /\ todo # <<>> /\ o = Head(todo) /\ a \in queue /\ a \in 1..N
      /\ SetupTypes /\ Evidenced /\ RunFits /\ TodoFits
      /\ TempsFit(a) /\ HostFits(a) /\ LookFits(a)
      /\ Kind = plan[a].kind /\ plan[a].kind \in Kinds /\ plan[a].orig \in {"none", "old", "new"}
      /\ rec[a].undone = "no" /\ (mode = "apply" => rec[a].status = "started")
      /\ \A S : InHand(a, S) <=> o \in S
  BY <1>1, <1>2, OpOf
<1>4. /\ todo' = Tail(todo) /\ UNCHANGED <<mode, queue, result, plan, rec, touched, cut>>
      /\ ev' = [ev EXCEPT ![a] = @ \cup {Evidence(o)}]
      /\ made' = IF o = "intent" \/ o = "undo_intent" THEN made + 1 ELSE made
      /\ UNCHANGED <<seen, file, temps, stale, svc, backup, moved>>
  BY <1>0, <1>1, <1>2, <1>3 DEF Write, Own, host, history
<1>k. /\ (o = "intent" \/ o = "staged" \/ o = "committed") => mode = "apply" /\ plan[a].kind \in Files
      /\ (o = "removing" \/ o = "removed") => mode = "apply" /\ plan[a].kind = "remove"
      /\ (o = "creating" \/ o = "created") => mode = "apply" /\ (plan[a].kind = "dir" \/ plan[a].kind = "venv")
      /\ o = "tightening" => mode = "apply" /\ plan[a].kind = "tight"
      /\ (o = "running" \/ o = "snapshot") => mode = "apply" /\ plan[a].kind \in Commands
      /\ (o = "enabling" \/ o = "enabled" \/ o = "starting" \/ o = "started") => mode = "apply" /\ plan[a].kind = "enable"
      /\ (o = "stopped" \/ o = "disabled") => mode = "apply" /\ plan[a].kind = "disable"
      /\ o = "undo_intent" => mode = "undo" /\ plan[a].kind \in Files \cup {"remove"}
  BY <1>0, <1>3, HeadKinds DEF Rewrites
<1>e. PICK x : /\ x \in Notes /\ x.phase = o /\ x.n <= made' /\ (o = "intent" \/ o = "created" => x.n > 0)
               /\ o = "intent" => x = Note("intent", made + 1, seen) /\ x.was = seen
               /\ o = "staged" => x = Note("staged", made, "none")
               /\ ev' = [ev EXCEPT ![a] = @ \cup {x}]
               /\ ev'[a] = ev[a] \cup {x}
               /\ \A i \in 1..N \ {a} : ev'[i] = ev[i]
               /\ ev' \in [1..N -> SUBSET Notes]
               /\ made' >= made
  <2>1. PICK x : x = Evidence(o)
    OBVIOUS
  <2>2. made \in Nat /\ seen \in Bodies /\ "none" \in Bodies /\ o \in PhaseNames
    BY <1>1, <1>3, TypesAre DEF Bodies, PhaseNames
  <2>3. o = "created" => made > 0
    <3>1. Counted /\ todo # <<>> /\ o = Head(todo)
      BY <1>3
    <3>2. QED
      BY <3>1 DEF Counted
  <2>4. /\ x \in Notes /\ x.phase = o /\ x.n <= made' /\ (o = "intent" \/ o = "created" => x.n > 0)
        /\ o = "intent" => x = Note("intent", made + 1, seen) /\ x.was = seen
        /\ o = "staged" => x = Note("staged", made, "none")
    <3>1. CASE o = "intent"
      BY <1>4, <2>1, <2>2, <3>1 DEF Evidence, Note, Notes
    <3>2. CASE o = "undo_intent"
      BY <1>4, <2>1, <2>2, <3>2 DEF Evidence, Note, Notes
    <3>3. CASE o = "staged" \/ o = "created"
      BY <1>4, <2>1, <2>2, <2>3, <3>3 DEF Evidence, Note, Notes
    <3>4. CASE o \notin {"intent", "undo_intent", "staged", "created"}
      BY <1>4, <2>1, <2>2, <3>4 DEF Evidence, Note, Notes
    <3>5. QED
      BY <3>1, <3>2, <3>3, <3>4
  <2>5. ev \in [1..N -> SUBSET Notes] /\ ev' = [ev EXCEPT ![a] = @ \cup {x}]
    BY <1>3, <1>4, <2>1, TypesAre
  <2>6. made' >= made
    BY <1>4, <2>2
  <2>7. QED
    BY <1>3, <2>4, <2>5, <2>6
<1>f. \A p : /\ p # o => Found(p, a)' = Found(p, a)
             /\ Has(p, a)' <=> Has(p, a) \/ p = o
  BY <1>e DEF Found, Has
<1>5. SetupTypes'
  <2>1. file \in [1..N -> [body : Bodies, id : 0..made + 1]] /\ temps \in [1..N -> SUBSET (1..made + 1)] /\ made \in Nat
    BY <1>3, TypesAre, Widens
  <2>2. /\ file' \in [1..N -> [body : Bodies, id : 0..made']] /\ temps' \in [1..N -> SUBSET (1..made')] /\ made' \in Nat
    BY <1>3, <1>4, <2>1, TypesAre
  <2>3. QED
    BY <1>3, <1>4, <1>e, <2>2 DEF SetupTypes, N
<1>6. Evidenced'
  <2>1. \A i \in 1..N : \A e \in ev[i] : e.n \in Nat /\ e.n <= made'
    <3>1. TAKE i \in 1..N
    <3>2. TAKE e \in ev[i]
    <3>3. e \in Notes /\ made \in Nat /\ made' \in Nat /\ made' >= made
      BY <1>3, <1>4, <1>e, TypesAre
    <3>4. e.n \in Nat /\ e.n <= made
      BY <1>3, <3>3 DEF Evidenced, Notes
    <3>5. QED
      BY <3>3, <3>4
  <2>2. ASSUME NEW i \in 1..N, NEW e \in ev'[i]
        PROVE  /\ e.n <= made'
               /\ e.phase \in {"intent", "created"} => e.n > 0
               /\ plan[i].kind = "enable" => e.phase \notin {"disabled", "stopped"}
               /\ plan[i].kind = "disable" => e.phase \notin {"enabled", "started"}
    <3>1. CASE e \in ev[i]
      BY <1>3, <2>1, <3>1 DEF Evidenced
    <3>2. CASE e \notin ev[i]
      <4>1. i = a /\ e = x
        BY <1>e, <2>2, <3>2
      <4>2. /\ plan[a].kind = "enable" => o \notin {"disabled", "stopped"}
            /\ plan[a].kind = "disable" => o \notin {"enabled", "started"}
        BY <1>k
      <4>3. QED
        BY <1>e, <4>1, <4>2
    <3>3. QED
      BY <3>1, <3>2
  <2>3. QED
    BY <1>4, <2>2 DEF Evidenced, N
<1>7. \A i \in 1..N \ {a} : Same(i)
  BY <1>3, <1>4, <1>e DEF Same
<1>8. PICK q : q = Head(todo')
  OBVIOUS
<1>9. /\ todo' # <<>> /\ At' = a /\ q \in Follows(a, o)
      /\ \A S : InHand(a, S)' <=> q \in S
      /\ TempsFit(a)' /\ HostFits(a)' /\ LookFits(a)' => SetupInv'
  <2>1. o \notin Ends /\ (o \in {"undo_intent", "mkdir", "build"} => made' > 0)
    BY <1>0, <1>3, <1>4, TypesAre DEF Ends
  <2>2. mode = "undo" => \A i \in 1..N : (Has("enabled", i)' <=> Has("enabled", i)) /\ (Has("stopped", i)' <=> Has("stopped", i))
    <3>1. mode = "undo" => o = "undo_intent"
      BY <1>0, <1>k
    <3>2. QED
      BY <1>3, <1>4, <1>e, <1>f, <3>1 DEF Has, Found
  <2>3. QED
    BY <1>1, <1>2, <1>4, <1>5, <1>6, <1>7, <1>8, <2>1, <2>2, OpStep
<1>10. /\ o = "intent" => q = "stage"
       /\ o = "staged" => q = "visudo" \/ q = "commit"
       /\ (o = "committed" \/ o = "removed") => q = "reload" \/ q = "verify"
       /\ o = "removing" => q = "rm_unlink"
       /\ o = "creating" => q = "mkdir" \/ q = "build"
       /\ o = "created" => q = "verify" \/ q = "deps"
       /\ o = "tightening" => q = "chmod"
       /\ (o = "running" \/ o = "snapshot") => q = "grant" \/ q = "verify"
       /\ (o = "enabling" \/ o = "enabled" \/ o = "starting" \/ o = "started")
            => q = "systemctl_enable" \/ q = "if_start" \/ q = "systemctl_start" \/ q = "verify"
       /\ (o = "stopped" \/ o = "disabled") => q = "if_disable" \/ q = "verify"
       /\ o = "undo_intent" => q = "undo_stage"
  <2>1. CASE mode = "apply"
    <3>1. q \in ActNext(plan[a].kind, o) /\ o # "undo_intent"
      BY <1>9, <1>k, <2>1 DEF Follows
    <3>2. QED
      BY <1>0, <3>1 DEF ActNext
  <2>2. CASE mode = "undo"
    <3>1. q \in UndoNext(a, o) /\ o = "undo_intent"
      BY <1>0, <1>9, <1>k, <2>2 DEF Follows
    <3>2. QED
      BY <3>1 DEF UndoNext
  <2>3. QED
    BY <1>0, <1>k, <2>1, <2>2
<1>11. /\ rec'[a] = rec[a] /\ plan'[a] = plan[a] /\ temps'[a] = temps[a] /\ Body(a)' = Body(a) /\ file'[a] = file[a]
       /\ svc'[a] = svc[a] /\ backup'[a] = backup[a] /\ (CutShort(a)' <=> CutShort(a)) /\ ev[a] \subseteq ev'[a]
  BY <1>3, <1>4, <1>e DEF Body, CutShort
<1>12. TempsFit(a)'
  <2>1. InHand(a, {"stage", "staged", "visudo", "commit"})' => Note("intent", made, seen)' \in ev'[a]
    <3>1. o = "intent" \/ o = "staged" \/ ~InHand(a, {"stage", "staged", "visudo", "commit"})'
      BY <1>0, <1>9, <1>10
    <3>2. o = "staged" => Note("intent", made, seen) \in ev[a] /\ made' = made /\ seen' = seen
      BY <1>3, <1>4 DEF TempsFit
    <3>3. o = "intent" => Note("intent", made', seen') \in ev'[a]
      BY <1>4, <1>e DEF Note
    <3>4. QED
      BY <1>11, <3>1, <3>2, <3>3 DEF Note
  <2>2. InHand(a, {"visudo", "commit"})' => Note("staged", made, "none")' \in ev'[a]
    <3>1. o = "staged" \/ ~InHand(a, {"visudo", "commit"})'
      BY <1>0, <1>9, <1>10
    <3>2. o = "staged" => Note("staged", made', "none") \in ev'[a]
      BY <1>4, <1>e DEF Note
    <3>3. QED
      BY <3>1, <3>2 DEF Note
  <2>3. ASSUME <<"undo", a>> \notin cut, NEW n \in temps[a]
        PROVE  \/ InHand(a, {"staged", "visudo", "commit", "undo_commit"})' /\ n = made'
               \/ /\ rec[a].status = "started"
                  /\ \E e \in Found("intent", a)' : e.n = n
                  /\ ~(mode' = "apply" /\ todo' # <<>> /\ At' = a)
    <3>1. \/ o = "staged" /\ n = made
          \/ /\ rec[a].status = "started"
             /\ \E e \in Found("intent", a) : e.n = n
             /\ ~(mode = "apply" /\ todo # <<>> /\ At = a)
      BY <1>0, <1>3, <2>3 DEF TempsFit
    <3>2. CASE o = "staged" /\ n = made
      BY <1>4, <1>9, <1>10, <3>2
    <3>3. CASE ~(o = "staged" /\ n = made)
      <4>1. mode # "apply" /\ mode' # "apply"
        BY <1>2, <1>3, <1>4, <3>1, <3>3
      <4>2. Found("intent", a) \subseteq Found("intent", a)'
        BY <1>11 DEF Found
      <4>3. QED
        BY <3>1, <3>3, <4>1, <4>2
    <3>4. QED
      BY <3>2, <3>3
  <2>4. QED
    BY <1>4, <1>11, <2>1, <2>2, <2>3, Zenon DEF TempsFit
<1>13. LookFits(a)'
  BY <1>0, <1>3, <1>4, <1>9, <1>10, <1>11, <1>f, <1>k DEF LookFits, Rewrites
<1>14. HostFits(a)'
  <2> SUFFICES ASSUME a \notin touched
               PROVE  HostFits(a)'
    BY <1>4 DEF HostFits
  <2>1. UndoFits(a)'
    BY <1>0, <1>3, <1>4, <1>9, <1>10, <1>11, <1>f, <1>k DEF HostFits, UndoFits, Rewrites
  <2>2. plan[a].kind \in Files => FileFits(a)'
    <3>1. SUFFICES ASSUME plan[a].kind \in Files
                   PROVE  FileFits(a)'
      OBVIOUS
    <3>2. FileFits(a)
      BY <1>3, <3>1, Zenon DEF HostFits
    <3>3. o = "intent" => x.was = plan[a].orig /\ plan[a].orig # "new"
      BY <1>3, <1>e, <3>2 DEF FileFits
    <3>4. \A e \in Found("intent", a)' : e.was = plan[a].orig /\ plan[a].orig # "new"
      BY <1>e, <3>2, <3>3 DEF FileFits, Found
    <3>5. ~InHand(a, {"look"})' /\ ~InHand(a, {"intent"})'
      BY <1>0, <1>9, <1>10
    <3>6. QED
      BY <1>4, <1>11, <3>2, <3>4, <3>5 DEF FileFits, Note
  <2>3. plan[a].kind = "remove" => RemoveFits(a)'
    BY <1>0, <1>3, <1>4, <1>9, <1>10, <1>11, <1>f, <1>k DEF HostFits, RemoveFits
  <2>4. plan[a].kind = "dir" => DirFits(a)'
    BY <1>0, <1>3, <1>4, <1>9, <1>10, <1>11, <1>f, <1>k DEF HostFits, DirFits
  <2>5. plan[a].kind = "tight" => TightFits(a)'
    BY <1>0, <1>3, <1>4, <1>9, <1>10, <1>11, <1>f, <1>k DEF HostFits, TightFits
  <2>6. plan[a].kind = "venv" => VenvFits(a)'
    BY <1>0, <1>3, <1>4, <1>9, <1>10, <1>11, <1>f, <1>k DEF HostFits, VenvFits
  <2>7. plan[a].kind = "enable" => EnableFits(a)'
    BY <1>0, <1>3, <1>4, <1>9, <1>10, <1>11, <1>f, <1>k DEF HostFits, EnableFits
  <2>8. plan[a].kind = "disable" => DisableFits(a)'
    BY <1>0, <1>3, <1>4, <1>9, <1>10, <1>11, <1>f, <1>k DEF HostFits, DisableFits
  <2>9. QED
    BY <1>3, <1>4, <1>11, <2>1, <2>2, <2>3, <2>4, <2>5, <2>6, <2>7, <2>8 DEF HostFits
<1>15. QED
  BY <1>9, <1>12, <1>13, <1>14

----------------------------------------------------------------------------
(* A run that takes up operations s of a step of kind k.                   *)
Chained(s, S, F(_)) == s \in Seq(S) /\ s[Len(s)] \in Ends /\ \A j \in 1..Len(s) - 1 : s[j + 1] \in F(s[j])
ActChain(k, s) == s # <<>> /\ Chained(s, ActOps(k) \cup {"check", "verify"}, LAMBDA o : ActNext(k, o))

LEMMA TakesUp ==
  ASSUME NEW a, At' = a, plan' = plan, mode' = "apply", ActChain(plan[a].kind, todo')
  PROVE  TodoFits'
<1> DEFINE k == plan[a].kind
<1>1. PICK s : s = todo'
  OBVIOUS
<1>2. Ops(a)' = ActOps(k) \cup {"check", "verify"}
  BY DEF Ops
<1>3. s \in Seq(Ops(a)') /\ s[Len(s)] \in Ends
  BY <1>1, <1>2 DEF ActChain, Chained
<1>4. \A j \in 1..Len(s) - 1 : s[j + 1] \in ActNext(k, s[j])
  BY <1>1 DEF ActChain, Chained
<1>5. \A j \in 1..Len(todo') - 1 : (todo[j + 1] \in Follows(a, todo[j]))'
  BY <1>1, <1>4 DEF Follows
<1>6. QED
  BY <1>1, <1>3, <1>5 DEF TodoFits, Ends

LEMMA RemoveReloads == ActChain("remove", <<"reload", "verify">>)
<1> DEFINE s == <<"reload", "verify">>
           S == ActOps("remove") \cup {"check", "verify"}
<1>1. "reload" \in S /\ "verify" \in S
  BY DEF ActOps, Files, Commands
<1>2. "verify" \in ActNext("remove", "reload")
  BY DEF ActNext
<1> HIDE DEF S
<1>3. s \in Seq(S) /\ Len(s) = 2 /\ s[1] = "reload" /\ s[2] = "verify" /\ s # <<>>
  BY <1>1
<1>4. \A j \in 1..Len(s) - 1 : s[j + 1] \in ActNext("remove", s[j])
  BY <1>2, <1>3
<1>5. QED
  BY <1>3, <1>4 DEF ActChain, Chained, Ends, S

(* What act is made of is in its order.                                    *)
LEMMA FileChain ==
  ASSUME NEW k \in {"file", "env", "hook", "unhook"}
  PROVE  ActChain(k, FileProgram \o <<"verify">>)
<1> DEFINE s == FileProgram \o <<"verify">>
           S == ActOps(k) \cup {"check", "verify"}
<1>1. /\ "look" \in S /\ "intent" \in S /\ "stage" \in S /\ "staged" \in S /\ "commit" \in S
      /\ "committed" \in S /\ "verify" \in S
  BY DEF ActOps, Files, Commands
<1>2. /\ "intent" \in ActNext(k, "look") /\ "stage" \in ActNext(k, "intent")
      /\ "staged" \in ActNext(k, "stage") /\ "commit" \in ActNext(k, "staged")
      /\ "committed" \in ActNext(k, "commit") /\ "verify" \in ActNext(k, "committed")
  BY DEF ActNext
<1> HIDE DEF S
<1>3. /\ s # <<>> /\ s \in Seq(S) /\ Len(s) = 7 /\ s[1] = "look" /\ s[2] = "intent"
      /\ s[3] = "stage" /\ s[4] = "staged" /\ s[5] = "commit" /\ s[6] = "committed"
      /\ s[7] = "verify"
  BY <1>1 DEF FileProgram
<1> HIDE DEF s
<1>4. \A j \in 1..Len(s) - 1 : s[j + 1] \in ActNext(k, s[j])
  <2>1. TAKE j \in 1..Len(s) - 1
  <2>2. j = 1 \/ j = 2 \/ j = 3 \/ j = 4 \/ j = 5 \/ j = 6
    BY <1>3
  <2>3. QED
    BY <1>2, <1>3, <2>2
<1>5. QED
  BY <1>3, <1>4 DEF ActChain, Chained, Ends, S, s

LEMMA SudoersChain ==
  ASSUME NEW k, k = "sudoers"
  PROVE  ActChain(k, SudoersProgram \o <<"verify">>)
<1> DEFINE s == SudoersProgram \o <<"verify">>
           S == ActOps(k) \cup {"check", "verify"}
<1>1. /\ "look" \in S /\ "intent" \in S /\ "stage" \in S /\ "staged" \in S /\ "visudo" \in S
      /\ "commit" \in S /\ "committed" \in S /\ "verify" \in S
  BY DEF ActOps, Files, Commands
<1>2. /\ "intent" \in ActNext(k, "look") /\ "stage" \in ActNext(k, "intent")
      /\ "staged" \in ActNext(k, "stage") /\ "visudo" \in ActNext(k, "staged")
      /\ "commit" \in ActNext(k, "visudo") /\ "committed" \in ActNext(k, "commit")
      /\ "verify" \in ActNext(k, "committed")
  BY DEF ActNext
<1> HIDE DEF S
<1>3. /\ s # <<>> /\ s \in Seq(S) /\ Len(s) = 8 /\ s[1] = "look" /\ s[2] = "intent"
      /\ s[3] = "stage" /\ s[4] = "staged" /\ s[5] = "visudo" /\ s[6] = "commit"
      /\ s[7] = "committed" /\ s[8] = "verify"
  BY <1>1 DEF SudoersProgram
<1> HIDE DEF s
<1>4. \A j \in 1..Len(s) - 1 : s[j + 1] \in ActNext(k, s[j])
  <2>1. TAKE j \in 1..Len(s) - 1
  <2>2. j = 1 \/ j = 2 \/ j = 3 \/ j = 4 \/ j = 5 \/ j = 6 \/ j = 7
    BY <1>3
  <2>3. QED
    BY <1>2, <1>3, <2>2
<1>5. QED
  BY <1>3, <1>4 DEF ActChain, Chained, Ends, S, s

LEMMA UnitChain ==
  ASSUME NEW k, k = "unit"
  PROVE  ActChain(k, (FileProgram \o <<"reload">>) \o <<"verify">>)
<1> DEFINE s == (FileProgram \o <<"reload">>) \o <<"verify">>
           S == ActOps(k) \cup {"check", "verify"}
<1>1. /\ "look" \in S /\ "intent" \in S /\ "stage" \in S /\ "staged" \in S /\ "commit" \in S
      /\ "committed" \in S /\ "reload" \in S /\ "verify" \in S
  BY DEF ActOps, Files, Commands
<1>2. /\ "intent" \in ActNext(k, "look") /\ "stage" \in ActNext(k, "intent")
      /\ "staged" \in ActNext(k, "stage") /\ "commit" \in ActNext(k, "staged")
      /\ "committed" \in ActNext(k, "commit") /\ "reload" \in ActNext(k, "committed")
      /\ "verify" \in ActNext(k, "reload")
  BY DEF ActNext
<1> HIDE DEF S
<1>3. /\ s # <<>> /\ s \in Seq(S) /\ Len(s) = 8 /\ s[1] = "look" /\ s[2] = "intent"
      /\ s[3] = "stage" /\ s[4] = "staged" /\ s[5] = "commit" /\ s[6] = "committed"
      /\ s[7] = "reload" /\ s[8] = "verify"
  BY <1>1 DEF FileProgram
<1> HIDE DEF s
<1>4. \A j \in 1..Len(s) - 1 : s[j + 1] \in ActNext(k, s[j])
  <2>1. TAKE j \in 1..Len(s) - 1
  <2>2. j = 1 \/ j = 2 \/ j = 3 \/ j = 4 \/ j = 5 \/ j = 6 \/ j = 7
    BY <1>3
  <2>3. QED
    BY <1>2, <1>3, <2>2
<1>5. QED
  BY <1>3, <1>4 DEF ActChain, Chained, Ends, S, s

LEMMA ReloadChain ==
  ASSUME NEW k \in {"unit", "remove"}
  PROVE  ActChain(k, <<"reload">> \o <<"verify">>)
<1> DEFINE s == <<"reload">> \o <<"verify">>
           S == ActOps(k) \cup {"check", "verify"}
<1>1. "reload" \in S /\ "verify" \in S
  BY DEF ActOps, Files, Commands
<1>2. "verify" \in ActNext(k, "reload")
  BY DEF ActNext
<1> HIDE DEF S
<1>3. s # <<>> /\ s \in Seq(S) /\ Len(s) = 2 /\ s[1] = "reload" /\ s[2] = "verify"
  BY <1>1
<1> HIDE DEF s
<1>4. \A j \in 1..Len(s) - 1 : s[j + 1] \in ActNext(k, s[j])
  BY <1>2, <1>3
<1>5. QED
  BY <1>3, <1>4 DEF ActChain, Chained, Ends, S, s

LEMMA RemoveChain ==
  ASSUME NEW k, k = "remove"
  PROVE  ActChain(k, RemoveProgram \o <<"verify">>)
<1> DEFINE s == RemoveProgram \o <<"verify">>
           S == ActOps(k) \cup {"check", "verify"}
<1>1. /\ "rm_look" \in S /\ "removing" \in S /\ "rm_unlink" \in S /\ "removed" \in S
      /\ "reload" \in S /\ "verify" \in S
  BY DEF ActOps, Files, Commands
<1>2. /\ "removing" \in ActNext(k, "rm_look") /\ "rm_unlink" \in ActNext(k, "removing")
      /\ "removed" \in ActNext(k, "rm_unlink") /\ "reload" \in ActNext(k, "removed")
      /\ "verify" \in ActNext(k, "reload")
  BY DEF ActNext
<1> HIDE DEF S
<1>3. /\ s # <<>> /\ s \in Seq(S) /\ Len(s) = 6 /\ s[1] = "rm_look" /\ s[2] = "removing"
      /\ s[3] = "rm_unlink" /\ s[4] = "removed" /\ s[5] = "reload" /\ s[6] = "verify"
  BY <1>1 DEF RemoveProgram
<1> HIDE DEF s
<1>4. \A j \in 1..Len(s) - 1 : s[j + 1] \in ActNext(k, s[j])
  <2>1. TAKE j \in 1..Len(s) - 1
  <2>2. j = 1 \/ j = 2 \/ j = 3 \/ j = 4 \/ j = 5
    BY <1>3
  <2>3. QED
    BY <1>2, <1>3, <2>2
<1>5. QED
  BY <1>3, <1>4 DEF ActChain, Chained, Ends, S, s

LEMMA DirChain ==
  ASSUME NEW k, k = "dir"
  PROVE  ActChain(k, <<"creating", "mkdir", "created">> \o <<"verify">>)
<1> DEFINE s == <<"creating", "mkdir", "created">> \o <<"verify">>
           S == ActOps(k) \cup {"check", "verify"}
<1>1. "creating" \in S /\ "mkdir" \in S /\ "created" \in S /\ "verify" \in S
  BY DEF ActOps, Files, Commands
<1>2. /\ "mkdir" \in ActNext(k, "creating") /\ "created" \in ActNext(k, "mkdir")
      /\ "verify" \in ActNext(k, "created")
  BY DEF ActNext
<1> HIDE DEF S
<1>3. /\ s # <<>> /\ s \in Seq(S) /\ Len(s) = 4 /\ s[1] = "creating" /\ s[2] = "mkdir"
      /\ s[3] = "created" /\ s[4] = "verify"
  BY <1>1
<1> HIDE DEF s
<1>4. \A j \in 1..Len(s) - 1 : s[j + 1] \in ActNext(k, s[j])
  <2>1. TAKE j \in 1..Len(s) - 1
  <2>2. j = 1 \/ j = 2 \/ j = 3
    BY <1>3
  <2>3. QED
    BY <1>2, <1>3, <2>2
<1>5. QED
  BY <1>3, <1>4 DEF ActChain, Chained, Ends, S, s

LEMMA TightChain ==
  ASSUME NEW k, k = "tight"
  PROVE  ActChain(k, <<"tightening", "chmod">> \o <<"verify">>)
<1> DEFINE s == <<"tightening", "chmod">> \o <<"verify">>
           S == ActOps(k) \cup {"check", "verify"}
<1>1. "tightening" \in S /\ "chmod" \in S /\ "verify" \in S
  BY DEF ActOps, Files, Commands
<1>2. "chmod" \in ActNext(k, "tightening") /\ "verify" \in ActNext(k, "chmod")
  BY DEF ActNext
<1> HIDE DEF S
<1>3. /\ s # <<>> /\ s \in Seq(S) /\ Len(s) = 3 /\ s[1] = "tightening" /\ s[2] = "chmod"
      /\ s[3] = "verify"
  BY <1>1
<1> HIDE DEF s
<1>4. \A j \in 1..Len(s) - 1 : s[j + 1] \in ActNext(k, s[j])
  <2>1. TAKE j \in 1..Len(s) - 1
  <2>2. j = 1 \/ j = 2
    BY <1>3
  <2>3. QED
    BY <1>2, <1>3, <2>2
<1>5. QED
  BY <1>3, <1>4 DEF ActChain, Chained, Ends, S, s

LEMMA VenvChain ==
  ASSUME NEW k, k = "venv"
  PROVE  ActChain(k, (<<"creating", "build", "created">> \o <<"deps", "digest">>) \o <<"verify">>)
<1> DEFINE s == (<<"creating", "build", "created">> \o <<"deps", "digest">>) \o <<"verify">>
           S == ActOps(k) \cup {"check", "verify"}
<1>1. /\ "creating" \in S /\ "build" \in S /\ "created" \in S /\ "deps" \in S /\ "digest" \in S
      /\ "verify" \in S
  BY DEF ActOps, Files, Commands
<1>2. /\ "build" \in ActNext(k, "creating") /\ "created" \in ActNext(k, "build")
      /\ "deps" \in ActNext(k, "created") /\ "digest" \in ActNext(k, "deps")
      /\ "verify" \in ActNext(k, "digest")
  BY DEF ActNext
<1> HIDE DEF S
<1>3. /\ s # <<>> /\ s \in Seq(S) /\ Len(s) = 6 /\ s[1] = "creating" /\ s[2] = "build"
      /\ s[3] = "created" /\ s[4] = "deps" /\ s[5] = "digest" /\ s[6] = "verify"
  BY <1>1
<1> HIDE DEF s
<1>4. \A j \in 1..Len(s) - 1 : s[j + 1] \in ActNext(k, s[j])
  <2>1. TAKE j \in 1..Len(s) - 1
  <2>2. j = 1 \/ j = 2 \/ j = 3 \/ j = 4 \/ j = 5
    BY <1>3
  <2>3. QED
    BY <1>2, <1>3, <2>2
<1>5. QED
  BY <1>3, <1>4 DEF ActChain, Chained, Ends, S, s

LEMMA DepsChain ==
  ASSUME NEW k, k = "venv"
  PROVE  ActChain(k, <<"deps", "digest">> \o <<"verify">>)
<1> DEFINE s == <<"deps", "digest">> \o <<"verify">>
           S == ActOps(k) \cup {"check", "verify"}
<1>1. "deps" \in S /\ "digest" \in S /\ "verify" \in S
  BY DEF ActOps, Files, Commands
<1>2. "digest" \in ActNext(k, "deps") /\ "verify" \in ActNext(k, "digest")
  BY DEF ActNext
<1> HIDE DEF S
<1>3. /\ s # <<>> /\ s \in Seq(S) /\ Len(s) = 3 /\ s[1] = "deps" /\ s[2] = "digest"
      /\ s[3] = "verify"
  BY <1>1
<1> HIDE DEF s
<1>4. \A j \in 1..Len(s) - 1 : s[j + 1] \in ActNext(k, s[j])
  <2>1. TAKE j \in 1..Len(s) - 1
  <2>2. j = 1 \/ j = 2
    BY <1>3
  <2>3. QED
    BY <1>2, <1>3, <2>2
<1>5. QED
  BY <1>3, <1>4 DEF ActChain, Chained, Ends, S, s

LEMMA EnableChain ==
  ASSUME NEW k, k = "enable"
  PROVE  ActChain(k, EnableProgram \o <<"verify">>)
<1> DEFINE s == EnableProgram \o <<"verify">>
           S == ActOps(k) \cup {"check", "verify"}
<1>1. "if_enable" \in S /\ "if_start" \in S /\ "verify" \in S
  BY DEF ActOps, Files, Commands
<1>2. "if_start" \in ActNext(k, "if_enable") /\ "verify" \in ActNext(k, "if_start")
  BY DEF ActNext
<1> HIDE DEF S
<1>3. /\ s # <<>> /\ s \in Seq(S) /\ Len(s) = 3 /\ s[1] = "if_enable" /\ s[2] = "if_start"
      /\ s[3] = "verify"
  BY <1>1 DEF EnableProgram
<1> HIDE DEF s
<1>4. \A j \in 1..Len(s) - 1 : s[j + 1] \in ActNext(k, s[j])
  <2>1. TAKE j \in 1..Len(s) - 1
  <2>2. j = 1 \/ j = 2
    BY <1>3
  <2>3. QED
    BY <1>2, <1>3, <2>2
<1>5. QED
  BY <1>3, <1>4 DEF ActChain, Chained, Ends, S, s

LEMMA DisableChain ==
  ASSUME NEW k, k = "disable"
  PROVE  ActChain(k, DisableProgram \o <<"verify">>)
<1> DEFINE s == DisableProgram \o <<"verify">>
           S == ActOps(k) \cup {"check", "verify"}
<1>1. "flags" \in S /\ "if_stop" \in S /\ "if_disable" \in S /\ "verify" \in S
  BY DEF ActOps, Files, Commands
<1>2. /\ "if_stop" \in ActNext(k, "flags") /\ "if_disable" \in ActNext(k, "if_stop")
      /\ "verify" \in ActNext(k, "if_disable")
  BY DEF ActNext
<1> HIDE DEF S
<1>3. /\ s # <<>> /\ s \in Seq(S) /\ Len(s) = 4 /\ s[1] = "flags" /\ s[2] = "if_stop"
      /\ s[3] = "if_disable" /\ s[4] = "verify"
  BY <1>1 DEF DisableProgram
<1> HIDE DEF s
<1>4. \A j \in 1..Len(s) - 1 : s[j + 1] \in ActNext(k, s[j])
  <2>1. TAKE j \in 1..Len(s) - 1
  <2>2. j = 1 \/ j = 2 \/ j = 3
    BY <1>3
  <2>3. QED
    BY <1>2, <1>3, <2>2
<1>5. QED
  BY <1>3, <1>4 DEF ActChain, Chained, Ends, S, s

LEMMA AccessChain ==
  ASSUME NEW k, k = "access"
  PROVE  ActChain(k, AccessProgram \o <<"verify">>)
<1> DEFINE s == AccessProgram \o <<"verify">>
           S == ActOps(k) \cup {"check", "verify"}
<1>1. "running" \in S /\ "grant" \in S /\ "verify" \in S
  BY DEF ActOps, Files, Commands
<1>2. "grant" \in ActNext(k, "running") /\ "verify" \in ActNext(k, "grant")
  BY DEF ActNext
<1> HIDE DEF S
<1>3. /\ s # <<>> /\ s \in Seq(S) /\ Len(s) = 3 /\ s[1] = "running" /\ s[2] = "grant"
      /\ s[3] = "verify"
  BY <1>1 DEF AccessProgram
<1> HIDE DEF s
<1>4. \A j \in 1..Len(s) - 1 : s[j + 1] \in ActNext(k, s[j])
  <2>1. TAKE j \in 1..Len(s) - 1
  <2>2. j = 1 \/ j = 2
    BY <1>3
  <2>3. QED
    BY <1>2, <1>3, <2>2
<1>5. QED
  BY <1>3, <1>4 DEF ActChain, Chained, Ends, S, s

LEMMA ProbeChain ==
  ASSUME NEW k, k = "probe"
  PROVE  ActChain(k, ProbeProgram \o <<"verify">>)
<1> DEFINE s == ProbeProgram \o <<"verify">>
           S == ActOps(k) \cup {"check", "verify"}
<1>1. "scan" \in S /\ "verify" \in S
  BY DEF ActOps, Files, Commands
<1>2. "verify" \in ActNext(k, "scan")
  BY DEF ActNext
<1> HIDE DEF S
<1>3. s # <<>> /\ s \in Seq(S) /\ Len(s) = 2 /\ s[1] = "scan" /\ s[2] = "verify"
  BY <1>1 DEF ProbeProgram
<1> HIDE DEF s
<1>4. \A j \in 1..Len(s) - 1 : s[j + 1] \in ActNext(k, s[j])
  BY <1>2, <1>3
<1>5. QED
  BY <1>3, <1>4 DEF ActChain, Chained, Ends, S, s

LEMMA SnapshotChain ==
  ASSUME NEW k, k = "snapshot"
  PROVE  ActChain(k, SnapshotProgram \o <<"verify">>)
<1> DEFINE s == SnapshotProgram \o <<"verify">>
           S == ActOps(k) \cup {"check", "verify"}
<1>1. "copy" \in S /\ "snapshot" \in S /\ "verify" \in S
  BY DEF ActOps, Files, Commands
<1>2. "snapshot" \in ActNext(k, "copy") /\ "verify" \in ActNext(k, "snapshot")
  BY DEF ActNext
<1> HIDE DEF S
<1>3. /\ s # <<>> /\ s \in Seq(S) /\ Len(s) = 3 /\ s[1] = "copy" /\ s[2] = "snapshot"
      /\ s[3] = "verify"
  BY <1>1 DEF SnapshotProgram
<1> HIDE DEF s
<1>4. \A j \in 1..Len(s) - 1 : s[j + 1] \in ActNext(k, s[j])
  <2>1. TAKE j \in 1..Len(s) - 1
  <2>2. j = 1 \/ j = 2
    BY <1>3
  <2>3. QED
    BY <1>2, <1>3, <2>2
<1>5. QED
  BY <1>3, <1>4 DEF ActChain, Chained, Ends, S, s

(* What a step of the plan is made of, and where it begins.                *)
LEMMA ProgramIs ==
  ASSUME SetupTypes, NEW a \in 1..N, NEW p, p = Program(a) \o <<"verify">>
  PROVE  /\ p # <<>> /\ ActChain(plan[a].kind, p)
         /\ plan[a].kind \in Files => Head(p) = (IF plan[a].kind = "unit" /\ Body(a) = "new" THEN "reload" ELSE "look")
         /\ plan[a].kind = "remove" => Head(p) = "rm_look"
         /\ plan[a].kind = "dir" => Head(p) = "creating"
         /\ plan[a].kind = "tight" => Head(p) = "tightening"
         /\ plan[a].kind = "venv" => Head(p) \in {"creating", "deps"}
         /\ plan[a].kind = "enable" => Head(p) = "if_enable"
         /\ plan[a].kind = "disable" => Head(p) = "flags"
         /\ plan[a].kind \in Commands => Head(p) \in {"running", "scan", "copy"}
<1> DEFINE k == plan[a].kind
<1>0. k \in Kinds
  BY KindsAre
<1>1. CASE plan[a].kind \in {"file", "env", "hook", "unhook"}
  <2>1. Program(a) = FileProgram
    BY <1>1 DEF Program, FileProgram
  <2>2. ActChain(k, p)
    BY <1>1, <2>1, FileChain
  <2>3. p # <<>> /\ Head(p) = "look"
    BY <2>1 DEF FileProgram
  <2>4. QED
    BY <1>1, <2>2, <2>3 DEF Files, Commands
<1>2. CASE plan[a].kind = "sudoers"
  <2>1. Program(a) = SudoersProgram
    BY <1>2 DEF Program, SudoersProgram
  <2>2. ActChain(k, p)
    BY <1>2, <2>1, SudoersChain
  <2>3. p # <<>> /\ Head(p) = "look"
    BY <2>1 DEF SudoersProgram
  <2>4. QED
    BY <1>2, <2>2, <2>3 DEF Files, Commands
<1>3. CASE plan[a].kind = "unit" /\ Body(a) # "new"
  <2>1. Program(a) = FileProgram \o <<"reload">>
    BY <1>3 DEF Program, FileProgram, UnitProgram
  <2>2. ActChain(k, p)
    BY <1>3, <2>1, UnitChain
  <2>3. p # <<>> /\ Head(p) = "look"
    BY <2>1 DEF FileProgram
  <2>4. QED
    BY <1>3, <2>2, <2>3 DEF Files, Commands
<1>4. CASE plan[a].kind = "unit" /\ Body(a) = "new"
  <2>1. Program(a) = <<"reload">>
    BY <1>4 DEF Program, UnitProgram
  <2>2. ActChain(k, p)
    BY <1>4, <2>1, ReloadChain
  <2>3. p # <<>> /\ Head(p) = "reload"
    BY <2>1
  <2>4. QED
    BY <1>4, <2>2, <2>3 DEF Files, Commands
<1>5. CASE plan[a].kind = "remove"
  <2>1. Program(a) = RemoveProgram
    BY <1>5 DEF Program, RemoveProgram
  <2>2. ActChain(k, p)
    BY <1>5, <2>1, RemoveChain
  <2>3. p # <<>> /\ Head(p) = "rm_look"
    BY <2>1 DEF RemoveProgram
  <2>4. QED
    BY <1>5, <2>2, <2>3 DEF Files, Commands
<1>6. CASE plan[a].kind = "dir"
  <2>1. Program(a) = <<"creating", "mkdir", "created">>
    BY <1>6 DEF Program, DirProgram
  <2>2. ActChain(k, p)
    BY <1>6, <2>1, DirChain
  <2>3. p # <<>> /\ Head(p) = "creating"
    BY <2>1
  <2>4. QED
    BY <1>6, <2>2, <2>3 DEF Files, Commands
<1>7. CASE plan[a].kind = "tight"
  <2>1. Program(a) = <<"tightening", "chmod">>
    BY <1>7 DEF Program, DirProgram
  <2>2. ActChain(k, p)
    BY <1>7, <2>1, TightChain
  <2>3. p # <<>> /\ Head(p) = "tightening"
    BY <2>1
  <2>4. QED
    BY <1>7, <2>2, <2>3 DEF Files, Commands
<1>8. CASE plan[a].kind = "venv" /\ Body(a) = "none"
  <2>1. Program(a) = <<"creating", "build", "created">> \o <<"deps", "digest">>
    BY <1>8 DEF Program, VenvProgram
  <2>2. ActChain(k, p)
    BY <1>8, <2>1, VenvChain
  <2>3. p # <<>> /\ Head(p) = "creating"
    BY <2>1
  <2>4. QED
    BY <1>8, <2>2, <2>3 DEF Files, Commands
<1>9. CASE plan[a].kind = "venv" /\ Body(a) # "none"
  <2>1. Program(a) = <<"deps", "digest">>
    BY <1>9 DEF Program, VenvProgram
  <2>2. ActChain(k, p)
    BY <1>9, <2>1, DepsChain
  <2>3. p # <<>> /\ Head(p) = "deps"
    BY <2>1
  <2>4. QED
    BY <1>9, <2>2, <2>3 DEF Files, Commands
<1>10. CASE plan[a].kind = "enable"
  <2>1. Program(a) = EnableProgram
    BY <1>10 DEF Program, EnableProgram
  <2>2. ActChain(k, p)
    BY <1>10, <2>1, EnableChain
  <2>3. p # <<>> /\ Head(p) = "if_enable"
    BY <2>1 DEF EnableProgram
  <2>4. QED
    BY <1>10, <2>2, <2>3 DEF Files, Commands
<1>11. CASE plan[a].kind = "disable"
  <2>1. Program(a) = DisableProgram
    BY <1>11 DEF Program, DisableProgram
  <2>2. ActChain(k, p)
    BY <1>11, <2>1, DisableChain
  <2>3. p # <<>> /\ Head(p) = "flags"
    BY <2>1 DEF DisableProgram
  <2>4. QED
    BY <1>11, <2>2, <2>3 DEF Files, Commands
<1>12. CASE plan[a].kind = "access"
  <2>1. Program(a) = AccessProgram
    BY <1>12 DEF Program, AccessProgram
  <2>2. ActChain(k, p)
    BY <1>12, <2>1, AccessChain
  <2>3. p # <<>> /\ Head(p) = "running"
    BY <2>1 DEF AccessProgram
  <2>4. QED
    BY <1>12, <2>2, <2>3 DEF Files, Commands
<1>13. CASE plan[a].kind = "probe"
  <2>1. Program(a) = ProbeProgram
    BY <1>13 DEF Program, ProbeProgram
  <2>2. ActChain(k, p)
    BY <1>13, <2>1, ProbeChain
  <2>3. p # <<>> /\ Head(p) = "scan"
    BY <2>1 DEF ProbeProgram
  <2>4. QED
    BY <1>13, <2>2, <2>3 DEF Files, Commands
<1>14. CASE plan[a].kind = "snapshot"
  <2>1. Program(a) = SnapshotProgram
    BY <1>14 DEF Program, SnapshotProgram
  <2>2. ActChain(k, p)
    BY <1>14, <2>1, SnapshotChain
  <2>3. p # <<>> /\ Head(p) = "copy"
    BY <2>1 DEF SnapshotProgram
  <2>4. QED
    BY <1>14, <2>2, <2>3 DEF Files, Commands
<1>15. QED
  BY <1>0, <1>1, <1>2, <1>3, <1>4, <1>5, <1>6, <1>7, <1>8, <1>9, <1>10, <1>11, <1>12, <1>13, <1>14 DEF Kinds, Files, Services, Commands

----------------------------------------------------------------------------
(* The step in hand goes on, with whatever operations it has left now.     *)
LEMMA HandGoes ==
  ASSUME SetupInv, NEW a, a = At, queue # {}, mode \in {"apply", "undo"},
         UNCHANGED <<mode, queue, result, plan>>, todo' # <<>>, TodoFits', Counted', SetupTypes', Evidenced',
         rec'[a].undone = "no", mode = "apply" => rec'[a].status = "started",
         mode = "undo" => plan[a].kind \notin Commands,
         \A i \in 1..N \ {a} : Same(i)
  PROVE  /\ a \in queue /\ a \in 1..N /\ At' = a
         /\ \A S : InHand(a, S)' <=> Head(todo') \in S
         /\ TempsFit(a)' /\ HostFits(a)' /\ LookFits(a)' => SetupInv'
<1>1. SetupTypes /\ RunFits /\ (1..N)' = 1..N
  BY DEF SetupInv, N
<1>2. a \in queue /\ a \in 1..N
  BY <1>1, AtIsQueued
<1>3. At' = a
  BY AtStays
<1>4. \A S : InHand(a, S)' <=> Head(todo') \in S
  BY <1>3, NextHand
<1>5. RunFits'
  <2>1. result = "none" /\ mode # "idle"
    BY <1>1 DEF RunFits
  <2>2. mode = "undo" => \A i \in queue : rec'[i].undone = "no"
    <3>1. ASSUME mode = "undo", NEW i \in queue
          PROVE  rec'[i].undone = "no"
      <4>1. CASE i = a
        BY <4>1
      <4>2. CASE i # a
        <5>1. rec'[i] = rec[i] /\ rec[i].undone = "no"
          BY <1>1, <3>1, <4>2 DEF Same, RunFits, SetupTypes
        <5>2. QED
          BY <5>1
      <4>3. QED
        BY <4>1, <4>2
    <3>2. QED
      BY <3>1
  <2>3. mode = "apply" => \A i \in 1..N \ queue : rec'[i].status = "ok"
    BY <1>1, <1>2 DEF Same, RunFits
  <2>4. QED
    BY <1>1, <1>3, <2>1, <2>2, <2>3 DEF RunFits
<1>6. \A i \in 1..N \ {a} : HostFits(i)' /\ TempsFit(i)' /\ LookFits(i)' /\ PromiseFits(i)'
  <2>1. TAKE i \in 1..N \ {a}
  <2>2. HostFits(i) /\ TempsFit(i) /\ PromiseFits(i) /\ Same(i)
    BY DEF SetupInv
  <2>3. Rests(i) /\ Rests(i)'
    BY <1>3 DEF Rests
  <2>4. QED
    BY <1>1, <2>2, <2>3, OthersFit, OthersPromise
<1>7. PromiseFits(a)'
  <2>1. result' # "done"
    BY <1>1 DEF RunFits
  <2>2. CASE mode = "apply"
    BY <1>2, <2>1, <2>2 DEF PromiseFits
  <2>3. CASE mode = "undo"
    BY <1>3, <2>1, <2>3 DEF PromiseFits
  <2>4. QED
    BY <2>2, <2>3
<1>8. QED
  BY <1>1, <1>2, <1>3, <1>4, <1>5, <1>6, <1>7 DEF SetupInv

(* _AtomicFile.write and _remove_with_backup go on after their look.       *)
LEMMA LookGoes ==
  ASSUME SetupInv, Look, NEW o, Op(o), o = "look" \/ o = "rm_look", NEW a, a = At,
         ~(IF Kind = "remove" THEN Body(a) \notin {"none", "old"} ELSE CasViolation(a, Body(a))),
         ~(Body(a) # "none" /\ backup[a] \notin {"none", Body(a)})
  PROVE  SetupInv'
<1>3. /\ Counted /\ todo # <<>> /\ o = Head(todo) /\ a \in queue /\ a \in 1..N
      /\ SetupTypes /\ Evidenced /\ RunFits /\ TodoFits
      /\ TempsFit(a) /\ HostFits(a) /\ LookFits(a)
      /\ Kind = plan[a].kind /\ plan[a].kind \in Kinds /\ plan[a].orig \in {"none", "old", "new"}
      /\ rec[a].undone = "no" /\ (mode = "apply" => rec[a].status = "started")
      /\ \A S : InHand(a, S) <=> o \in S
  BY OpOf
<1>2. mode = "apply" /\ (o = "look" => plan[a].kind \in Files) /\ (o = "rm_look" => plan[a].kind = "remove")
  BY <1>3, HeadKinds
<1>4. /\ backup' = [backup EXCEPT ![a] = IF Body(a) = "none" THEN @ ELSE Body(a)]
      /\ seen' = Body(a) /\ moved' = moved \ {a}
      /\ todo' = IF plan[a].kind = "remove" /\ Body(a) = "none" THEN <<"reload", "verify">> ELSE Tail(todo)
      /\ UNCHANGED <<mode, queue, result, plan, rec, touched, cut, made, file, temps, stale, svc, ev>>
  BY <1>3 DEF Look, Own, history
<1>5. /\ backup' \in [1..N -> Bodies] /\ \A i \in 1..N \ {a} : backup'[i] = backup[i]
      /\ backup'[a] = (IF Body(a) = "none" THEN backup[a] ELSE Body(a))
  BY <1>3, <1>4, TypesAre
<1>6. SetupTypes' /\ Evidenced'
  <2>1. SetupTypes'
    BY <1>3, <1>4, <1>5, TypesAre DEF SetupTypes, N
  <2>2. QED
    BY <1>3, <1>4, <2>1 DEF Evidenced, N
<1>7. \A i \in 1..N \ {a} : Same(i)
  BY <1>4, <1>5 DEF Same
<1>8. PICK q : q = Head(todo')
  OBVIOUS
<1>9. /\ todo' # <<>> /\ At' = a
      /\ \A S : InHand(a, S)' <=> q \in S
      /\ TempsFit(a)' /\ HostFits(a)' /\ LookFits(a)' => SetupInv'
      /\ q = (IF plan[a].kind = "remove" THEN IF Body(a) = "none" THEN "reload" ELSE "removing" ELSE "intent")
  <2>1. CASE plan[a].kind = "remove" /\ Body(a) = "none"
    <3>1. todo' = <<"reload", "verify">>
      BY <1>4, <2>1
    <3>2. todo' # <<>> /\ q = "reload" /\ Counted'
      BY <1>8, <3>1 DEF Counted
    <3>3. TodoFits'
      <4>1. At' = a /\ mode' = "apply" /\ plan' = plan
        BY <1>2, <1>4, AtStays
      <4>2. ActChain(plan[a].kind, todo')
        BY <2>1, <3>1, RemoveReloads
      <4>3. QED
        BY <4>1, <4>2, TakesUp
    <3>4. QED
      BY <1>2, <1>3, <1>4, <1>6, <1>7, <1>8, <2>1, <3>2, <3>3, HandGoes
  <2>2. CASE ~(plan[a].kind = "remove" /\ Body(a) = "none")
    <3>1. todo' = Tail(todo) /\ o \notin Ends /\ o \notin {"undo_intent", "mkdir", "build"}
      BY <1>4, <2>2 DEF Ends
    <3>2. mode # "undo"
      BY <1>2
    <3>3. /\ todo' # <<>> /\ At' = a /\ q \in Follows(a, o)
          /\ \A S : InHand(a, S)' <=> q \in S
          /\ TempsFit(a)' /\ HostFits(a)' /\ LookFits(a)' => SetupInv'
      BY <1>4, <1>6, <1>7, <1>8, <3>1, <3>2, OpStep
    <3>4. q = (IF plan[a].kind = "remove" THEN "removing" ELSE "intent")
      BY <1>2, <3>3 DEF Follows, ActNext, Files
    <3>5. QED
      BY <2>2, <3>3, <3>4
  <2>3. QED
    BY <2>1, <2>2
<1>10. /\ rec'[a] = rec[a] /\ plan'[a] = plan[a] /\ temps'[a] = temps[a] /\ Body(a)' = Body(a) /\ file'[a] = file[a]
       /\ \A p : Found(p, a)' = Found(p, a) /\ (Has(p, a)' <=> Has(p, a))
  BY <1>4 DEF Body, Found, Has
<1>11. Body(a) # "edit" /\ (plan[a].kind = "remove" => Body(a) \in {"none", "old"})
  BY <1>3 DEF CasViolation
<1>12. TempsFit(a)'
  <2>1. <<"undo", a>> \notin cut => temps[a] = {}
    BY <1>2, <1>3 DEF TempsFit
  <2>2. <<"undo", a>> \notin cut' => temps'[a] = {}
    BY <1>4, <2>1
  <2>3. /\ ~InHand(a, {"stage", "staged", "visudo", "commit"})' /\ ~InHand(a, {"visudo", "commit"})'
    BY <1>9
  <2>4. QED
    BY <2>2, <2>3 DEF TempsFit
<1>13. LookFits(a)'
  BY <1>9, <1>10, <1>11 DEF LookFits, Rewrites
<1>14. HostFits(a)'
  <2> SUFFICES ASSUME a \notin touched
               PROVE  HostFits(a)'
    BY <1>4 DEF HostFits
  <2>1. UndoFits(a)'
    BY <1>2, <1>3, <1>4, <1>9, <1>10 DEF UndoFits, Rewrites
  <2>2. o = "look" => FileFits(a)'
    <3>1. SUFFICES ASSUME o = "look"
                   PROVE  FileFits(a)'
      OBVIOUS
    <3>2. FileFits(a)
      BY <1>2, <1>3, <3>1, Zenon DEF HostFits
    <3>3. Body(a) = plan[a].orig /\ plan[a].orig # "new"
      BY <1>3, <3>1, <3>2 DEF FileFits
    <3>4. ~InHand(a, {"look"})'
      BY <1>9
    <3>5. QED
      BY <1>4, <1>10, <3>2, <3>3, <3>4 DEF FileFits, Note
  <2>3. o = "rm_look" => RemoveFits(a)'
    <3>1. SUFFICES ASSUME o = "rm_look"
                   PROVE  RemoveFits(a)'
      OBVIOUS
    <3>2. RemoveFits(a)
      BY <1>2, <1>3, <3>1 DEF HostFits, Files, Commands
    <3>3. ~InHand(a, {"rm_unlink"})' /\ (InHand(a, {"removing"})' => Body(a) # "none")
      BY <1>2, <1>9, <3>1
    <3>4. QED
      BY <1>2, <1>5, <1>10, <1>11, <3>1, <3>2, <3>3 DEF RemoveFits
  <2>4. QED
    BY <1>2, <1>3, <1>4, <1>10, <2>1, <2>2, <2>3 DEF HostFits, Files, Commands
<1>15. QED
  BY <1>9, <1>12, <1>13, <1>14

LEMMA LookStep == SetupInv /\ Look => SetupInv'
<1> SUFFICES ASSUME SetupInv, Look
             PROVE  SetupInv'
  OBVIOUS
<1>1. PICK o : Op(o) /\ (o = "look" \/ o = "rm_look")
  BY DEF Look
<1>2. PICK a : a = At
  OBVIOUS
<1> DEFINE refused == IF Kind = "remove" THEN Body(a) \notin {"none", "old"} ELSE CasViolation(a, Body(a))
           clash == Body(a) # "none" /\ backup[a] \notin {"none", Body(a)}
<1>3. CASE refused \/ clash
  <2>1. mode = "apply" /\ moved \subseteq 1..N
    <3>1. SetupTypes /\ RunFits /\ TodoFits /\ todo # <<>> /\ o = Head(todo)
      BY <1>1, <1>2, OpOf
    <3>2. QED
      BY <1>1, <3>1, HeadKinds DEF SetupTypes
  <2>2. /\ Stop /\ UNCHANGED <<file, svc, stale, temps, backup, ev, plan, touched, cut>> /\ moved' \subseteq 1..N
    BY <1>2, <1>3, <2>1 DEF Look, Own, history
  <2>3. o \notin {"created", "enabled", "started", "disabled", "stopped", "staged", "visudo", "commit", "undo_commit"}
    BY <1>1
  <2>4. QED
    BY <1>1, <1>2, <2>1, <2>2, <2>3, Stops
<1>4. CASE ~refused /\ ~clash
  BY <1>1, <1>2, <1>4, LookGoes
<1>5. QED
  BY <1>3, <1>4

----------------------------------------------------------------------------
(* A step of the plan settles, begins or is left alone.                    *)
Marks == {"enabled", "started", "disabled", "stopped"}

(* Its object stays as it is, and the journal knows no less of it.         *)
LEMMA HostKeeps ==
  ASSUME NEW i \in 1..N, HostFits(i), plan' = plan, UNCHANGED <<file, svc, stale, backup, touched, cut>>,
         i \notin touched /\ rec'[i].undone = "undone" =>
           rec[i].undone = "undone" \/ (plan[i].kind \notin Commands /\ (CutShort(i) \/ Restored(i))),
         ev[i] \subseteq ev'[i], \A e \in ev'[i] \ ev[i] : e.phase \in Marks,
         ~InHand(i, {"created"} \cup Marks),
         NEW q, \A S : InHand(i, S)' => q \in S,
         q \notin {"intent", "removing", "rm_unlink", "created", "chmod", "unlink", "chmod_back", "undone"}
                  \cup Marks \cup Rewrites,
         mode' = "undo" => q \notin {"reload", "systemctl_disable", "systemctl_start"},
         i \notin touched => (q = "look" => Body(i) # "new") /\ (q = "tightening" => plan[i].orig = "old")
  PROVE  HostFits(i)'
<1> SUFFICES ASSUME i \notin touched
             PROVE  HostFits(i)'
  BY DEF HostFits
<1>1. \A p : p \notin Marks => Found(p, i)' = Found(p, i) /\ (Has(p, i)' <=> Has(p, i))
  BY DEF Found, Has
<1>2. \A p : Has(p, i) => Has(p, i)'
  BY DEF Found, Has
<1>3. Body(i)' = Body(i) /\ (CutShort(i)' <=> CutShort(i))
  BY DEF Body, CutShort
<1>4. Restored(i)' <=> Restored(i)
  <2>1. UnitIsRead(i)' <=> UnitIsRead(i)
    BY <1>1 DEF UnitIsRead, Marks
  <2>2. QED
    BY <1>3, <2>1 DEF Restored
<1>5. /\ ~InHand(i, {"created"}) /\ ~InHand(i, {"enabled"}) /\ ~InHand(i, {"started"})
      /\ ~InHand(i, {"disabled"}) /\ ~InHand(i, {"stopped"})
  BY DEF InHand, Marks
<1>6. FileFits(i) => FileFits(i)'
  <2>1. ~InHand(i, {"intent"})' /\ (InHand(i, {"look"})' => Body(i) # "new")
    OBVIOUS
  <2>2. Found("intent", i)' = Found("intent", i)
    BY <1>1 DEF Marks
  <2>3. QED
    BY <1>3, <2>1, <2>2 DEF FileFits
<1>7. RemoveFits(i) => RemoveFits(i)'
  BY <1>1, <1>3 DEF RemoveFits, Marks
<1>8. DirFits(i) => DirFits(i)'
  BY <1>1, <1>3, <1>5 DEF DirFits, Marks
<1>9. TightFits(i) => TightFits(i)'
  BY <1>1, <1>3 DEF TightFits, Marks
<1>10. VenvFits(i) => VenvFits(i)'
  BY <1>1, <1>3, <1>5 DEF VenvFits, Marks
<1>11. EnableFits(i) => EnableFits(i)'
  BY <1>2, <1>3, <1>5 DEF EnableFits
<1>12. DisableFits(i) => DisableFits(i)'
  BY <1>2, <1>3, <1>5 DEF DisableFits
<1>13. UndoFits(i) => UndoFits(i)'
  BY <1>3, <1>4 DEF UndoFits, Rewrites
<1>14. QED
  BY <1>6, <1>7, <1>8, <1>9, <1>10, <1>11, <1>12, <1>13 DEF HostFits

(* The run leaves the step in hand for the next one.                       *)
LEMMA PassOn ==
  ASSUME SetupInv, NEW a, a = At, queue # {}, mode \in {"apply", "undo"}, mode' = mode,
         queue' = queue \ {a}, todo' = <<>>, result' = result, plan' = plan,
         SetupTypes', Evidenced', mode = "apply" => rec'[a].status = "ok",
         \A i \in 1..N \ {a} : Same(i),
         HostFits(a)', TempsFit(a)', PromiseFits(a)'
  PROVE  SetupInv'
<1>1. SetupTypes /\ RunFits /\ (1..N)' = 1..N
  BY DEF SetupInv, N
<1>2. a \in queue /\ a \in 1..N
  BY <1>1, AtIsQueued
<1>3. RunFits'
  <2>1. result = "none" /\ mode # "idle"
    BY <1>1 DEF RunFits
  <2>2. ASSUME mode = "undo", NEW i \in queue \ {a}
        PROVE  rec'[i].undone = "no"
    <3>1. rec'[i] = rec[i] /\ rec[i].undone = "no"
      BY <1>1, <2>2 DEF Same, RunFits, SetupTypes
    <3>2. QED
      BY <3>1
  <2>3. ASSUME mode = "apply", NEW i \in 1..N \ (queue \ {a})
        PROVE  rec'[i].status = "ok"
    BY <1>1, <2>3 DEF Same, RunFits
  <2>4. QED
    BY <1>1, <2>1, <2>2, <2>3 DEF RunFits
<1>4. TodoFits' /\ Counted'
  BY DEF TodoFits, Counted
<1>5. \A i \in 1..N : LookFits(i)'
  BY DEF LookFits, InHand
<1>6. \A i \in 1..N \ {a} : HostFits(i)' /\ TempsFit(i)' /\ PromiseFits(i)'
  <2>1. TAKE i \in 1..N \ {a}
  <2>2. HostFits(i) /\ TempsFit(i) /\ PromiseFits(i) /\ Same(i)
    BY DEF SetupInv
  <2>3. Rests(i) /\ Rests(i)'
    BY DEF Rests
  <2>4. result' # "done"
    BY <1>1 DEF RunFits
  <2>5. QED
    BY <1>1, <2>2, <2>3, <2>4, OthersFit, OthersPromise
<1>7. QED
  BY <1>1, <1>2, <1>3, <1>4, <1>5, <1>6 DEF SetupInv

(* A run begins, ends or moves on, and no step of the plan changes.        *)
LEMMA AllRest ==
  ASSUME SetupInv, todo = <<>>, todo' = <<>>, plan' = plan, SetupTypes', Evidenced', RunFits',
         \A i \in 1..N : Same(i),
         \A i \in 1..N : mode' = "apply" /\ i \notin queue' =>
           (mode = "apply" /\ i \notin queue) \/ (rec[i].status = "ok" /\ rec[i].undone = "no"),
         result' = "done" => result = "done" \/ (mode = "apply" /\ queue = {})
  PROVE  SetupInv'
<1>1. SetupTypes /\ (1..N)' = 1..N
  BY DEF SetupInv, N
<1>2. TodoFits' /\ Counted'
  BY DEF TodoFits, Counted
<1>3. \A i \in 1..N : HostFits(i)' /\ TempsFit(i)' /\ LookFits(i)' /\ PromiseFits(i)'
  <2>1. TAKE i \in 1..N
  <2>2. HostFits(i) /\ TempsFit(i) /\ PromiseFits(i) /\ Same(i)
    BY DEF SetupInv
  <2>3. Rests(i) /\ Rests(i)'
    BY DEF Rests
  <2>4. QED
    BY <1>1, <2>2, <2>3, OthersFit, OthersPromise
<1>4. QED
  BY <1>1, <1>2, <1>3 DEF SetupInv

----------------------------------------------------------------------------
(* Runs begin and end.                                                     *)

(* What a run that has nothing in hand may assume of its step.             *)
LEMMA Between ==
  ASSUME SetupInv, queue # {}, todo = <<>>, NEW a, a = At
  PROVE  /\ SetupTypes /\ Evidenced /\ RunFits /\ mode \in {"apply", "undo"}
         /\ a \in queue /\ a \in 1..N
         /\ TempsFit(a) /\ PromiseFits(a) /\ HostFits(a)
         /\ plan[a].kind \in Kinds /\ plan[a].orig \in {"none", "old", "new"}
         /\ \A S : ~InHand(a, S)
<1>1. SetupTypes /\ Evidenced /\ RunFits /\ mode \in {"apply", "undo"}
  BY DEF SetupInv, SetupTypes, RunFits
<1>2. a \in queue /\ a \in 1..N
  BY <1>1, AtIsQueued
<1>3. TempsFit(a) /\ PromiseFits(a) /\ HostFits(a)
  BY <1>2 DEF SetupInv
<1>4. plan[a].kind \in Kinds /\ plan[a].orig \in {"none", "old", "new"}
  BY <1>1, <1>2, KindsAre
<1>5. \A S : ~InHand(a, S)
  BY DEF InHand
<1>6. QED
  BY <1>1, <1>2, <1>3, <1>4, <1>5

(* While no run moves, what is about to be done fits as before.             *)
LEMMA TodoStays ==
  ASSUME TodoFits, UNCHANGED <<plan, ev, mode, queue, todo>>
  PROVE  TodoFits'
<1>1. PICK a : a = At /\ a = At'
  BY AtStays
<1>2. Has("enabled", a)' = Has("enabled", a) /\ Has("stopped", a)' = Has("stopped", a)
  BY DEF Has, Found
<1>3. Ops(a)' = Ops(a)
  BY DEF Ops
<1>4. ASSUME todo # <<>>, NEW k \in 1..Len(todo) - 1
      PROVE  (todo[k + 1] \in Follows(a, todo[k]))'
  <2>1. todo[k + 1] \in Follows(a, todo[k])
    BY <1>1, <1>4 DEF TodoFits
  <2>2. QED
    BY <1>2, <2>1 DEF Follows, UndoNext
<1>5. QED
  BY <1>1, <1>3, <1>4 DEF TodoFits

(* A step of the plan that is left as it is while no run moves.            *)
LEMMA StepStays ==
  ASSUME SetupTypes, NEW i \in 1..N, TempsFit(i), PromiseFits(i), HostFits(i), LookFits(i), Same(i),
         UNCHANGED <<mode, queue, todo, seen, made, result, cut>>,
         i \in touched' <=> i \in touched, i \in moved' <=> i \in moved
  PROVE  TempsFit(i)' /\ PromiseFits(i)' /\ HostFits(i)' /\ LookFits(i)'
<1>1. Alike(i) /\ At' = At
  BY AtStays DEF Same, Alike
<1>2. \A p : Found(p, i)' = Found(p, i) /\ (Has(p, i)' <=> Has(p, i))
  BY <1>1, HasStays
<1>3. Body(i)' = Body(i) /\ (CutShort(i)' <=> CutShort(i)) /\ (Restored(i)' <=> Restored(i))
  BY <1>1, HasStays DEF CutShort, Same
<1>4. \A S : InHand(i, S)' <=> InHand(i, S)
  BY <1>1 DEF InHand
<1>5. PromiseFits(i)'
  BY <1>1, HoldsStays DEF PromiseFits, Same
<1>6. TempsFit(i)'
  BY <1>1, <1>2, <1>4 DEF TempsFit, Same
<1>7. LookFits(i)'
  BY <1>3, <1>4 DEF LookFits, Same
<1>8. FileFits(i)' <=> FileFits(i)
  BY <1>2, <1>3, <1>4 DEF FileFits, Same
<1>9. RemoveFits(i)' <=> RemoveFits(i)
  BY <1>2, <1>3, <1>4 DEF RemoveFits, Same
<1>10. DirFits(i)' <=> DirFits(i)
  BY <1>2, <1>3, <1>4 DEF DirFits, Same
<1>11. TightFits(i)' <=> TightFits(i)
  BY <1>2, <1>3, <1>4 DEF TightFits, Same
<1>12. VenvFits(i)' <=> VenvFits(i)
  BY <1>2, <1>3, <1>4 DEF VenvFits, Same
<1>13. EnableFits(i)' <=> EnableFits(i)
  BY <1>2, <1>3, <1>4 DEF EnableFits, Same
<1>14. DisableFits(i)' <=> DisableFits(i)
  BY <1>2, <1>3, <1>4 DEF DisableFits, Same
<1>15. UndoFits(i)' <=> UndoFits(i)
  BY <1>2, <1>3, <1>4 DEF UndoFits, Same
<1>16. HostFits(i)'
  BY <1>8, <1>9, <1>10, <1>11, <1>12, <1>13, <1>14, <1>15 DEF HostFits, Same
<1>17. QED
  BY <1>5, <1>6, <1>7, <1>16

LEMMA StutterStep == SetupInv /\ UNCHANGED vars => SetupInv'
<1> SUFFICES ASSUME SetupInv, UNCHANGED vars
             PROVE  SetupInv'
  OBVIOUS
<1>1. UNCHANGED <<plan, file, svc, stale, temps, backup, rec, ev, mode, queue, todo, seen, made, result, moved, touched, cut>>
  BY DEF vars, host, journal, run, history
<1>2. (1..N)' = 1..N /\ At' = At
  BY <1>1 DEF N, At
<1>3. SetupTypes' /\ Evidenced' /\ RunFits' /\ Counted'
  <2>1. SetupTypes'
    BY <1>1, <1>2 DEF SetupInv, SetupTypes
  <2>2. Evidenced'
    BY <1>1, <1>2 DEF SetupInv, Evidenced
  <2>3. RunFits'
    BY <1>1, <1>2 DEF SetupInv, RunFits
  <2>4. Counted'
    BY <1>1, <1>2 DEF SetupInv, Counted
  <2>5. QED
    BY <2>1, <2>2, <2>3, <2>4
<1>4. TodoFits'
  BY <1>1, TodoStays DEF SetupInv
<1>5. \A i \in 1..N : TempsFit(i)' /\ PromiseFits(i)' /\ HostFits(i)' /\ LookFits(i)'
  <2>1. TAKE i \in 1..N
  <2>2. TempsFit(i) /\ PromiseFits(i) /\ HostFits(i) /\ LookFits(i) /\ SetupTypes
    BY DEF SetupInv
  <2>3. Same(i)
    BY <1>1 DEF Same
  <2>4. QED
    BY <1>1, <2>2, <2>3, StepStays
<1>6. QED
  BY <1>2, <1>3, <1>4, <1>5 DEF SetupInv

LEMMA SkipStep == SetupInv /\ Skip => SetupInv'
<1> SUFFICES ASSUME SetupInv, Skip
             PROVE  SetupInv'
  OBVIOUS
<1>1. PICK a : a = At
  OBVIOUS
<1>2. /\ mode = "apply" /\ queue # {} /\ todo = <<>> /\ rec[a].status = "ok" /\ rec[a].undone = "no"
      /\ queue' = queue \ {a} /\ todo' = <<>>
      /\ UNCHANGED <<mode, seen, made, result, file, svc, stale, temps, backup, rec, ev, moved, plan, touched, cut>>
  BY <1>1 DEF Skip, Pass, Own, host, journal, history
<1>3. SetupTypes /\ Evidenced /\ RunFits /\ a \in 1..N
  BY <1>1, <1>2, Between
<1>4. SetupTypes' /\ Evidenced'
  BY <1>2, <1>3 DEF SetupTypes, Evidenced, N
<1>5. RunFits'
  BY <1>2, <1>3 DEF RunFits, N
<1>6. \A i \in 1..N : Same(i)
  BY <1>2 DEF Same
<1>7. \A i \in 1..N : i \notin queue' => i \notin queue \/ (rec[i].status = "ok" /\ rec[i].undone = "no")
  BY <1>2
<1>8. result' # "done"
  BY <1>2, <1>3 DEF RunFits
<1>9. QED
  BY <1>2, <1>4, <1>5, <1>6, <1>7, <1>8, AllRest

LEMMA DoneStep == SetupInv /\ (Done \/ UndoDone) => SetupInv'
<1> SUFFICES ASSUME SetupInv, Done \/ UndoDone
             PROVE  SetupInv'
  OBVIOUS
<1>1. SetupTypes /\ Evidenced /\ RunFits /\ (1..N)' = 1..N
  BY DEF SetupInv, N, Done, UndoDone, Own, history
<1>2. /\ queue = {} /\ mode' = "idle" /\ queue' = {} /\ todo' = <<>>
      /\ (mode = "apply" /\ result' = "done") \/ (mode = "undo" /\ result' = "undone")
      /\ UNCHANGED <<seen, made, file, svc, stale, temps, backup, rec, ev, moved, plan, touched, cut>>
  BY DEF Done, UndoDone, Finish, Own, host, journal, history
<1>3. todo = <<>>
  BY <1>1, <1>2 DEF RunFits
<1>4. SetupTypes' /\ Evidenced'
  BY <1>1, <1>2 DEF SetupTypes, Evidenced, N
<1>5. RunFits'
  BY <1>1, <1>2 DEF RunFits
<1>6. \A i \in 1..N : Same(i)
  BY <1>2 DEF Same
<1>7. QED
  BY <1>2, <1>3, <1>4, <1>5, <1>6, AllRest

LEMMA StartStepOfRun == SetupInv /\ (StartApply \/ StartUndo) => SetupInv'
<1> SUFFICES ASSUME SetupInv, StartApply \/ StartUndo
             PROVE  SetupInv'
  OBVIOUS
<1>1. SetupTypes /\ Evidenced /\ RunFits /\ (1..N)' = 1..N
  BY DEF SetupInv, N, StartApply, StartUndo, history
<1>2. /\ mode = "idle" /\ todo = <<>> /\ todo' = <<>> /\ result' \in {"refused", "nothing_to_undo", "none"}
      /\ \/ mode' = "idle" /\ queue' = {}
         \/ mode' = "apply" /\ queue' = 1..N /\ result' = "none"
         \/ mode' = "undo" /\ queue' = {i \in 1..N : Pending(i)} /\ result' = "none"
      /\ UNCHANGED <<seen, made, file, svc, stale, temps, backup, rec, ev, moved, plan, touched, cut>>
  BY <1>1 DEF StartApply, StartUndo, Finish, host, journal, history, RunFits
<1>3. SetupTypes' /\ Evidenced'
  <2>1. queue' \subseteq 1..N /\ mode' \in {"idle", "apply", "undo"}
    BY <1>2
  <2>2. QED
    BY <1>1, <1>2, <2>1 DEF SetupTypes, Evidenced, N
<1>4. RunFits'
  BY <1>1, <1>2 DEF RunFits, Pending
<1>5. \A i \in 1..N : Same(i)
  BY <1>2 DEF Same
<1>6. \A i \in 1..N : mode' = "apply" => i \in queue'
  BY <1>2
<1>7. QED
  BY <1>2, <1>3, <1>4, <1>5, <1>6, AllRest

----------------------------------------------------------------------------
(* What the journal says of a step.                                        *)
Records == [status : {"none", "started", "ok", "failed"}, satisfied : BOOLEAN, undone : {"no", "undone", "kept"}]
Started(i) == [rec[i] EXCEPT !.status = "started", !.undone = "no"]
Reopened(i) == [rec[i] EXCEPT !.undone = "no"]
Undid(i, how) == [rec[i] EXCEPT !.undone = how]

LEMMA RecordsAre ==
  ASSUME SetupTypes, NEW a \in 1..N
  PROVE  /\ rec \in [1..N -> Records] /\ rec[a] \in Records
         /\ \A b \in BOOLEAN : Ok(a, b) \in Records /\ Ok(a, b).status = "ok" /\ Ok(a, b).undone = rec[a].undone
         /\ Failed(a) \in Records /\ Failed(a).status = "failed" /\ Failed(a).undone = rec[a].undone
         /\ Started(a) \in Records /\ Started(a).status = "started" /\ Started(a).undone = "no"
         /\ Reopened(a) \in Records /\ Reopened(a).status = rec[a].status /\ Reopened(a).undone = "no"
         /\ \A u \in {"undone", "kept"} :
              Undid(a, u) \in Records /\ Undid(a, u).status = rec[a].status /\ Undid(a, u).undone = u
<1>1. rec \in [1..N -> Records] /\ rec[a] \in Records
  BY DEF SetupTypes, Records
<1>2. ASSUME NEW b \in BOOLEAN
      PROVE  Ok(a, b) \in Records /\ Ok(a, b).status = "ok" /\ Ok(a, b).undone = rec[a].undone
  BY <1>1 DEF Ok, Records
<1>3. Failed(a) \in Records /\ Failed(a).status = "failed" /\ Failed(a).undone = rec[a].undone
  BY <1>1 DEF Failed, Records
<1>4. Started(a) \in Records /\ Started(a).status = "started" /\ Started(a).undone = "no"
  BY <1>1 DEF Started, Records
<1>5. Reopened(a) \in Records /\ Reopened(a).status = rec[a].status /\ Reopened(a).undone = "no"
  BY <1>1 DEF Reopened, Records
<1>6. ASSUME NEW u \in {"undone", "kept"}
      PROVE  Undid(a, u) \in Records /\ Undid(a, u).status = rec[a].status /\ Undid(a, u).undone = u
  BY <1>1 DEF Undid, Records
<1>7. QED
  BY <1>1, <1>2, <1>3, <1>4, <1>5, <1>6

LEMMA Settles ==
  ASSUME SetupTypes, NEW a \in 1..N, NEW r \in Records, Settle(a, r)
  PROVE  /\ rec' \in [1..N -> Records] /\ rec'[a] = r
         /\ \A i \in 1..N \ {a} : rec'[i] = rec[i]
<1>1. rec \in [1..N -> Records]
  BY RecordsAre
<1>2. QED
  BY <1>1 DEF Settle

LEMMA CheckChain ==
  ASSUME NEW k
  PROVE  ActChain(k, <<"check">>)
<1> DEFINE s == <<"check">>
           S == ActOps(k) \cup {"check", "verify"}
<1> HIDE DEF S
<1>1. "check" \in S
  BY DEF S
<1>2. s # <<>> /\ s \in Seq(S) /\ Len(s) = 1 /\ s[1] = "check"
  BY <1>1
<1>3. QED
  BY <1>2 DEF ActChain, Chained, Ends, S

LEMMA NothingLies ==
  ASSUME NEW i, <<"undo", i>> \notin cut' => temps'[i] = {}, ~InHand(i, {"stage", "staged", "visudo", "commit"})'
  PROVE  TempsFit(i)'
<1>1. ~InHand(i, {"visudo", "commit"})'
  BY DEF InHand
<1>2. QED
  BY <1>1 DEF TempsFit

LEMMA StartStepStep == SetupInv /\ StartStep => SetupInv'
<1> SUFFICES ASSUME SetupInv, StartStep
             PROVE  SetupInv'
  OBVIOUS
<1>1. PICK a : a = At
  OBVIOUS
<1>2. /\ mode = "apply" /\ queue # {} /\ todo = <<>> /\ todo' = <<"check">> /\ Settle(a, Started(a))
      /\ rec[a].status # "started"
      /\ UNCHANGED <<mode, queue, seen, made, result, file, svc, stale, temps, backup, ev, moved, plan, touched, cut>>
  BY <1>1 DEF StartStep, Started, Own, host, history
<1>3. /\ SetupTypes /\ Evidenced /\ RunFits /\ a \in 1..N
      /\ TempsFit(a) /\ HostFits(a)
      /\ \A S : ~InHand(a, S)
  BY <1>1, <1>2, Between
<1>4. /\ rec' \in [1..N -> Records] /\ rec'[a].status = "started" /\ rec'[a].undone = "no"
      /\ \A i \in 1..N \ {a} : rec'[i] = rec[i]
  BY <1>2, <1>3, RecordsAre, Settles
<1>5. SetupTypes' /\ Evidenced'
  BY <1>2, <1>3, <1>4 DEF SetupTypes, Evidenced, N, Records
<1>6. \A i \in 1..N \ {a} : Same(i)
  BY <1>2, <1>4 DEF Same
<1>7. TodoFits' /\ todo' # <<>> /\ Head(todo') = "check" /\ Counted'
  <2>1. At' = a /\ ActChain(plan[a].kind, todo')
    BY <1>1, <1>2, AtStays, CheckChain
  <2>2. todo' # <<>> /\ Head(todo') = "check"
    BY <1>2
  <2>3. QED
    BY <1>2, <2>1, <2>2, TakesUp DEF Counted
<1>8. /\ \A S : InHand(a, S)' <=> "check" \in S
      /\ TempsFit(a)' /\ HostFits(a)' /\ LookFits(a)' => SetupInv'
  BY <1>1, <1>2, <1>4, <1>5, <1>6, <1>7, HandGoes
<1>9. TempsFit(a)'
  <2>1. <<"undo", a>> \notin cut' => temps'[a] = {}
    BY <1>2, <1>3 DEF TempsFit
  <2>2. QED
    BY <1>8, <2>1, NothingLies
<1>10. HostFits(a)'
  BY <1>2, <1>3, <1>4, <1>8, HostKeeps DEF Marks, Rewrites
<1>11. LookFits(a)'
  BY <1>8 DEF LookFits, Rewrites
<1>12. QED
  BY <1>8, <1>9, <1>10, <1>11

----------------------------------------------------------------------------
(* A step that was in flight when the last run died.                       *)
LEMMA ShownAre ==
  ASSUME SetupTypes, NEW a \in 1..N, NEW e \in Shown(a)
  PROVE  /\ e \in Notes /\ e.n = 0 /\ e.phase \in Marks
         /\ plan[a].kind = "enable" => e.phase \notin {"disabled", "stopped"}
         /\ plan[a].kind = "disable" => e.phase \notin {"enabled", "started"}
<1>0. plan[a].kind \in Kinds
  BY KindsAre
<1>1. CASE plan[a].kind = "enable"
  <2>1. e = Note("enabled", 0, "none") \/ e = Note("started", 0, "none")
    BY <1>1 DEF Shown
  <2>2. QED
    BY <1>1, <2>1 DEF Note, Notes, PhaseNames, Phases, Bodies, Marks
<1>2. CASE plan[a].kind = "disable"
  <2>1. e = Note("stopped", 0, "none") \/ e = Note("disabled", 0, "none")
    BY <1>2 DEF Shown
  <2>2. QED
    BY <1>2, <2>1 DEF Note, Notes, PhaseNames, Phases, Bodies, Marks
<1>3. CASE plan[a].kind \notin {"enable", "disable"}
  BY <1>3 DEF Shown
<1>4. QED
  BY <1>1, <1>2, <1>3

LEMMA ReconcileStep == SetupInv /\ Reconcile => SetupInv'
<1> SUFFICES ASSUME SetupInv, Reconcile
             PROVE  SetupInv'
  OBVIOUS
<1>1. PICK a : a = At
  OBVIOUS
<1>2. /\ mode = "apply" /\ queue # {} /\ todo = <<>> /\ rec[a].status = "started"
      /\ temps' = [temps EXCEPT ![a] = Tidied(a)] /\ ev' = [ev EXCEPT ![a] = @ \cup Shown(a)]
      /\ UNCHANGED <<seen, made, file, svc, stale, backup, moved, plan, touched, cut>>
      /\ \/ Effect(a) = "applied" /\ Settle(a, Ok(a, rec[a].satisfied)) /\ queue' = queue \ {a} /\ todo' = <<>>
            /\ UNCHANGED <<mode, result>>
         \/ Settle(a, Failed(a)) /\ mode' = "idle" /\ queue' = {} /\ todo' = <<>> /\ result' = "stopped"
         \/ Settle(a, Reopened(a)) /\ todo' = <<"check">> /\ UNCHANGED <<mode, queue, result>>
  BY <1>1 DEF Reconcile, InFlight, Reopened, Pass, Finish, Own, history
<1>3. /\ SetupTypes /\ Evidenced /\ RunFits /\ a \in 1..N /\ a \in queue
      /\ TempsFit(a) /\ HostFits(a) /\ PromiseFits(a) /\ plan[a].kind \in Kinds
      /\ \A S : ~InHand(a, S)
  BY <1>1, <1>2, Between
<1>4. /\ rec' \in [1..N -> Records]
      /\ rec'[a].undone = rec[a].undone \/ rec'[a].undone = "no"
      /\ \A i \in 1..N \ {a} : rec'[i] = rec[i]
  <2>1. rec[a].satisfied \in BOOLEAN
    BY <1>3, RecordsAre DEF Records
  <2>2. PICK r \in Records : Settle(a, r) /\ (r.undone = rec[a].undone \/ r.undone = "no")
    BY <1>2, <1>3, <2>1, RecordsAre
  <2>3. QED
    BY <1>3, <2>2, Settles
<1>5. /\ ev' \in [1..N -> SUBSET Notes] /\ ev'[a] = ev[a] \cup Shown(a)
      /\ temps' \in [1..N -> SUBSET (1..made)] /\ temps'[a] = Tidied(a)
      /\ \A i \in 1..N \ {a} : ev'[i] = ev[i] /\ temps'[i] = temps[i]
  <2>1. Shown(a) \subseteq Notes
    BY <1>3, ShownAre
  <2>2. Tidied(a) \subseteq temps[a]
    BY DEF Tidied
  <2>3. ev \in [1..N -> SUBSET Notes] /\ temps \in [1..N -> SUBSET (1..made)]
    BY <1>3, TypesAre
  <2>4. QED
    BY <1>2, <1>3, <2>1, <2>2, <2>3
<1>6. SetupTypes'
  <2>1. queue' \subseteq 1..N /\ mode' \in {"idle", "apply", "undo"}
    BY <1>2, <1>3 DEF SetupTypes
  <2>2. QED
    BY <1>2, <1>3, <1>4, <1>5, <2>1 DEF SetupTypes, N, Records
<1>7. Evidenced'
  <2>1. ASSUME NEW i \in 1..N, NEW e \in ev'[i]
        PROVE  /\ e.n <= made
               /\ e.phase \in {"intent", "created"} => e.n > 0
               /\ plan[i].kind = "enable" => e.phase \notin {"disabled", "stopped"}
               /\ plan[i].kind = "disable" => e.phase \notin {"enabled", "started"}
    <3>1. CASE e \in ev[i]
      BY <1>3, <3>1 DEF Evidenced
    <3>2. CASE e \notin ev[i]
      <4>1. i = a /\ e \in Shown(a)
        BY <1>5, <2>1, <3>2
      <4>2. e.n = 0 /\ 0 <= made
        BY <1>3, <4>1, ShownAre, TypesAre
      <4>3. QED
        BY <1>3, <4>1, <4>2, ShownAre DEF Marks
    <3>3. QED
      BY <3>1, <3>2
  <2>2. QED
    BY <1>2, <2>1 DEF Evidenced, N
<1>8. \A i \in 1..N \ {a} : Same(i)
  BY <1>2, <1>4, <1>5 DEF Same
<1>9. <<"undo", a>> \notin cut' => temps'[a] = {}
  <2>1. ASSUME <<"undo", a>> \notin cut, NEW n \in temps[a]
        PROVE  n \notin Tidied(a)
    BY <1>3, <2>1 DEF TempsFit, Tidied
  <2>2. Tidied(a) \subseteq temps[a]
    BY DEF Tidied
  <2>3. QED
    BY <1>2, <1>5, <2>1, <2>2
<1>10. ASSUME \A S : InHand(a, S)' => "check" \in S, mode' # "undo"
       PROVE  HostFits(a)' /\ TempsFit(a)' /\ LookFits(a)'
  <2>1. /\ ev[a] \subseteq ev'[a] /\ \A e \in ev'[a] \ ev[a] : e.phase \in Marks
    BY <1>3, <1>5, ShownAre
  <2>2. HostFits(a)'
    BY <1>2, <1>3, <1>4, <1>10, <2>1, HostKeeps DEF Marks, Rewrites
  <2>3. TempsFit(a)'
    BY <1>9, <1>10, NothingLies
  <2>4. LookFits(a)'
    BY <1>10 DEF LookFits, Rewrites
  <2>5. QED
    BY <2>2, <2>3, <2>4
<1>11. CASE Effect(a) = "applied" /\ Settle(a, Ok(a, rec[a].satisfied)) /\ queue' = queue \ {a} /\ todo' = <<>>
            /\ UNCHANGED <<mode, result>>
  <2>1. HostFits(a)' /\ TempsFit(a)'
    BY <1>2, <1>10, <1>11 DEF InHand
  <2>2. rec'[a].status = "ok"
    <3>1. rec[a].satisfied \in BOOLEAN
      BY <1>3, RecordsAre DEF Records
    <3>2. QED
      BY <1>3, <1>11, <3>1, RecordsAre, Settles
  <2>3. PromiseFits(a)'
    <3>1. Holds(a)'
      <4>1. plan[a].kind \in Kinds /\ plan' = plan
        BY <1>2, <1>3
      <4>2. Kept(a)
        BY <1>11, <4>1, HoldsIsKept DEF HoldsAsKept, Holds
      <4>3. Kept(a)'
        <5>1. (Has("snapshot", a)' <=> Has("snapshot", a)) /\ Body(a)' = Body(a)
          <6>1. \A e \in ev'[a] \ ev[a] : e.phase \in Marks
            BY <1>3, <1>5, ShownAre
          <6>2. ev[a] \subseteq ev'[a]
            BY <1>5
          <6>3. Found("snapshot", a)' = Found("snapshot", a)
            BY <6>1, <6>2 DEF Found, Marks
          <6>4. QED
            BY <1>2, <6>3 DEF Has, Body
        <5>2. UNCHANGED <<file, svc, stale, plan>>
          BY <1>2
        <5>3. Kept(a)' <=> Kept(a)
          BY <5>1, <5>2 DEF Kept, FileSatisfied, UnhookSatisfied, DirSatisfied, EnableSatisfied, DisableSatisfied
        <5>4. QED
          BY <4>2, <5>3
      <4>4. QED
        BY <4>1, <4>3, HoldsIsKeptNext DEF HoldsAsKept
    <3>2. QED
      BY <3>1 DEF PromiseFits
  <2>4. QED
    BY <1>1, <1>2, <1>6, <1>7, <1>8, <1>11, <2>1, <2>2, <2>3, PassOn
<1>12. CASE Settle(a, Failed(a)) /\ mode' = "idle" /\ queue' = {} /\ todo' = <<>> /\ result' = "stopped"
  <2>1. HostFits(a)' /\ TempsFit(a)'
    BY <1>10, <1>12 DEF InHand
  <2>2. rec'[a].status = "failed"
    BY <1>3, <1>12, RecordsAre, Settles
  <2>3. PromiseFits(a)'
    BY <1>12, <2>2 DEF PromiseFits
  <2>4. QED
    BY <1>1, <1>2, <1>6, <1>7, <1>8, <1>12, <2>1, <2>3, RunEnds
<1>13. CASE Settle(a, Reopened(a)) /\ todo' = <<"check">> /\ UNCHANGED <<mode, queue, result>>
  <2>1. rec'[a].undone = "no" /\ rec'[a].status = "started"
    BY <1>2, <1>3, <1>13, RecordsAre, Settles
  <2>2. TodoFits' /\ todo' # <<>> /\ Head(todo') = "check" /\ Counted'
    <3>1. At' = a /\ ActChain(plan[a].kind, todo')
      BY <1>1, <1>13, AtStays, CheckChain
    <3>2. todo' # <<>> /\ Head(todo') = "check"
      BY <1>13
    <3>3. QED
      BY <1>2, <1>13, <3>1, <3>2, TakesUp DEF Counted
  <2>3. /\ \A S : InHand(a, S)' <=> "check" \in S
        /\ TempsFit(a)' /\ HostFits(a)' /\ LookFits(a)' => SetupInv'
    BY <1>1, <1>2, <1>6, <1>7, <1>8, <1>13, <2>1, <2>2, HandGoes
  <2>4. QED
    BY <1>2, <1>10, <1>13, <2>3
<1>14. QED
  BY <1>2, <1>11, <1>12, <1>13

----------------------------------------------------------------------------
(* The check of a step, its verdict, and what services are asked.          *)
LEMMA HoldsRests ==
  ASSUME NEW i, plan[i].kind \in Kinds, UNCHANGED <<file, svc, stale, plan, ev>>
  PROVE  Holds(i)' <=> Holds(i)
<1>1. Body(i)' = Body(i) /\ (Has("snapshot", i)' <=> Has("snapshot", i))
  BY DEF Body, Has, Found
<1>2. Kept(i)' <=> Kept(i)
  BY <1>1 DEF Kept, FileSatisfied, UnhookSatisfied, DirSatisfied, EnableSatisfied, DisableSatisfied
<1>3. Holds(i)' <=> Kept(i)'
  BY HoldsIsKeptNext DEF HoldsAsKept
<1>4. QED
  BY <1>2, <1>3, HoldsIsKept DEF HoldsAsKept

LEMMA InApply ==
  ASSUME SetupInv, mode = "apply", NEW o, Op(o), NEW a, a = At, o \notin {"staged", "visudo", "commit", "undo_commit"}
  PROVE  <<"undo", a>> \notin cut => temps[a] = {}
<1>1. TempsFit(a) /\ todo # <<>> /\ \A S : InHand(a, S) <=> o \in S
  BY OpOf
<1>2. QED
  BY <1>1 DEF TempsFit

(* A step of apply that is settled as ok.                                  *)
LEMMA SettlesOk ==
  ASSUME SetupInv, mode = "apply", NEW o, Op(o), NEW a, a = At, NEW b \in BOOLEAN, Settle(a, Ok(a, b)), Pass,
         o \notin {"staged", "visudo", "commit", "undo_commit", "created"} \cup Marks,
         Holds(a) \/ plan[a].kind = "probe",
         UNCHANGED <<file, svc, stale, temps, backup, ev, plan, touched, cut>>, moved' \subseteq 1..N
  PROVE  SetupInv'
<1>1. /\ todo # <<>> /\ a \in queue /\ a \in 1..N
      /\ SetupTypes /\ Evidenced /\ RunFits
      /\ TempsFit(a) /\ HostFits(a) /\ plan[a].kind \in Kinds
      /\ \A S : InHand(a, S) <=> o \in S
  BY OpOf
<1>2. queue' = queue \ {a} /\ todo' = <<>> /\ UNCHANGED <<mode, seen, made, result>>
  BY DEF Pass
<1>3. /\ rec' \in [1..N -> Records] /\ rec'[a].status = "ok" /\ rec'[a].undone = rec[a].undone
      /\ \A i \in 1..N \ {a} : rec'[i] = rec[i]
  BY <1>1, RecordsAre, Settles
<1>4. SetupTypes'
  BY <1>1, <1>2, <1>3 DEF SetupTypes, N, Records
<1>5. Evidenced'
  BY <1>1, <1>2 DEF Evidenced, N
<1>6. \A i \in 1..N \ {a} : Same(i)
  BY <1>3 DEF Same
<1>7. \A S : ~InHand(a, S)'
  BY <1>2 DEF InHand
<1>8. TempsFit(a)'
  <2>1. <<"undo", a>> \notin cut' => temps'[a] = {}
    BY InApply
  <2>2. QED
    BY <1>7, <2>1, NothingLies
<1>9. HostFits(a)'
  <2>1. PICK q : q = "check"
    OBVIOUS
  <2>2. \A S : InHand(a, S)' => q \in S
    BY <1>7
  <2>3. /\ q \notin {"intent", "removing", "rm_unlink", "created", "chmod", "unlink", "chmod_back", "undone"}
                   \cup Marks \cup Rewrites
        /\ q # "look" /\ q # "tightening"
    BY <2>1 DEF Marks, Rewrites
  <2>4. ~InHand(a, {"created"} \cup Marks) /\ mode' # "undo" /\ \A e \in ev'[a] \ ev[a] : e.phase \in Marks
    BY <1>1, <1>2
  <2>5. QED
    BY <1>1, <1>3, <2>2, <2>3, <2>4, HostKeeps
<1>10. PromiseFits(a)'
  <2>1. Holds(a)' <=> Holds(a)
    BY <1>1, HoldsRests
  <2>2. plan' = plan
    OBVIOUS
  <2>3. QED
    BY <2>1, <2>2 DEF PromiseFits
<1>11. QED
  BY <1>1, <1>2, <1>3, <1>4, <1>5, <1>6, <1>8, <1>9, <1>10, PassOn

LEMMA VerifyStep == SetupInv /\ Verify => SetupInv'
<1> SUFFICES ASSUME SetupInv, Verify
             PROVE  SetupInv'
  OBVIOUS
<1>1. PICK o : Op(o) /\ o = "verify"
  BY DEF Verify
<1>2. PICK a : a = At
  OBVIOUS
<1>3. /\ todo # <<>> /\ o = Head(todo) /\ SetupTypes /\ RunFits /\ TodoFits
      /\ Kind = plan[a].kind
  BY <1>1, <1>2, OpOf
<1>4. mode = "apply" /\ moved \subseteq 1..N
  BY <1>1, <1>3, HeadKinds DEF SetupTypes
<1>5. /\ UNCHANGED <<file, svc, stale, temps, backup, ev, plan, touched, cut, moved>>
      /\ o \notin {"staged", "visudo", "commit", "undo_commit", "created"} \cup Marks
  BY <1>1 DEF Verify, Own, host, history, Marks
<1>6. CASE Effect(a) = "applied" \/ plan[a].kind = "probe"
  <2>1. Settle(a, Ok(a, FALSE)) /\ Pass
    BY <1>2, <1>3, <1>6 DEF Verify
  <2>2. Holds(a) \/ plan[a].kind = "probe"
    BY <1>6 DEF Holds
  <2>3. PICK b \in BOOLEAN : b = FALSE
    OBVIOUS
  <2>4. QED
    BY <1>1, <1>2, <1>4, <1>5, <2>1, <2>2, <2>3, SettlesOk
<1>7. CASE ~(Effect(a) = "applied" \/ plan[a].kind = "probe")
  <2>1. Stop
    BY <1>2, <1>3, <1>7 DEF Verify
  <2>2. QED
    BY <1>1, <1>2, <1>4, <1>5, <2>1, Stops DEF Marks
<1>8. QED
  BY <1>6, <1>7

LEMMA CheckStep == SetupInv /\ Check => SetupInv'
<1> SUFFICES ASSUME SetupInv, Check
             PROVE  SetupInv'
  OBVIOUS
<1>1. PICK o : Op(o) /\ o = "check"
  BY DEF Check
<1>2. PICK a : a = At
  OBVIOUS
<1>3. /\ todo # <<>> /\ o = Head(todo) /\ a \in queue /\ a \in 1..N
      /\ SetupTypes /\ Evidenced /\ RunFits /\ TodoFits
      /\ TempsFit(a) /\ HostFits(a) /\ LookFits(a)
      /\ Kind = plan[a].kind /\ plan[a].kind \in Kinds /\ plan[a].orig \in {"none", "old", "new"}
      /\ rec[a].undone = "no" /\ (mode = "apply" => rec[a].status = "started")
      /\ \A S : InHand(a, S) <=> o \in S
  BY <1>1, <1>2, OpOf
<1>4. mode = "apply" /\ moved' \subseteq 1..N
  BY <1>1, <1>3, HeadKinds DEF SetupTypes, Check
<1>5. /\ UNCHANGED <<file, svc, stale, temps, backup, ev, plan, touched, cut>>
      /\ o \notin {"staged", "visudo", "commit", "undo_commit", "created"} \cup Marks
  BY <1>1 DEF Check, Own, host, history, Marks
<1>6. CASE Refuses(a)
  <2>1. Stop
    BY <1>2, <1>6 DEF Check
  <2>2. QED
    BY <1>1, <1>2, <1>4, <1>5, <2>1, Stops DEF Marks
<1>7. CASE ~Refuses(a) /\ Satisfied(a)
  <2>1. Settle(a, Ok(a, TRUE)) /\ Pass
    BY <1>2, <1>7 DEF Check
  <2>2. Holds(a)
    BY <1>7 DEF Holds
  <2>3. PICK b \in BOOLEAN : b = TRUE
    OBVIOUS
  <2>4. QED
    BY <1>1, <1>2, <1>4, <1>5, <2>1, <2>2, <2>3, SettlesOk
<1>8. CASE ~Refuses(a) /\ ~Satisfied(a)
  <2>1. todo' = Program(a) \o <<"verify">> /\ UNCHANGED <<rec, mode, queue, seen, made, result>>
    BY <1>2, <1>8 DEF Check
  <2>2. PICK q : q = Head(todo')
    OBVIOUS
  <2>3. /\ todo' # <<>> /\ ActChain(plan[a].kind, todo')
        /\ plan[a].kind \in Files => q = (IF plan[a].kind = "unit" /\ Body(a) = "new" THEN "reload" ELSE "look")
        /\ plan[a].kind = "remove" => q = "rm_look"
        /\ plan[a].kind = "dir" => q = "creating"
        /\ plan[a].kind = "tight" => q = "tightening"
        /\ plan[a].kind = "venv" => q \in {"creating", "deps"}
        /\ plan[a].kind = "enable" => q = "if_enable"
        /\ plan[a].kind = "disable" => q = "flags"
        /\ plan[a].kind \in Commands => q \in {"running", "scan", "copy"}
    BY <1>3, <2>1, <2>2, ProgramIs
  <2>4. /\ q \in {"look", "reload", "rm_look", "creating", "tightening", "deps", "if_enable", "flags",
                  "running", "scan", "copy"}
        /\ q = "look" => plan[a].kind \in Files /\ ~(plan[a].kind = "unit" /\ Body(a) = "new")
        /\ q = "tightening" => plan[a].kind = "tight"
    BY <1>3, <2>3 DEF Kinds, Files, Services, Commands
  <2>5. SetupTypes' /\ Evidenced'
    BY <1>3, <1>4, <1>5, <2>1 DEF SetupTypes, Evidenced, N
  <2>6. TodoFits' /\ Counted'
    <3>1. At' = a
      BY <1>2, <2>1, AtStays
    <3>2. QED
      BY <1>4, <1>5, <2>1, <2>2, <2>3, <2>4, <3>1, TakesUp DEF Counted
  <2>7. \A i \in 1..N \ {a} : Same(i)
    BY <1>5, <2>1 DEF Same
  <2>8. /\ \A S : InHand(a, S)' <=> q \in S
        /\ TempsFit(a)' /\ HostFits(a)' /\ LookFits(a)' => SetupInv'
    BY <1>2, <1>3, <1>4, <1>5, <2>1, <2>2, <2>3, <2>5, <2>6, <2>7, HandGoes
  <2>9. TempsFit(a)'
    <3>1. <<"undo", a>> \notin cut' => temps'[a] = {}
      BY <1>1, <1>2, <1>4, <1>5, InApply
    <3>2. ~InHand(a, {"stage", "staged", "visudo", "commit"})'
      BY <2>4, <2>8
    <3>3. QED
      BY <3>1, <3>2, NothingLies
  <2>10. q = "tightening" => Body(a) = "old"
    BY <1>8, <2>4 DEF Satisfied, DirSatisfied, Commands
  <2>11. HostFits(a)'
    <3>1. q = "look" => Body(a) # "new"
      <4>1. SUFFICES ASSUME q = "look"
                     PROVE  Body(a) # "new"
        OBVIOUS
      <4>2. plan[a].kind \in Files
        BY <2>4, <4>1
      <4>3. QED
        BY <1>8, <2>4, <4>1, <4>2 DEF Satisfied, FileSatisfied, EnvSatisfied, UnhookSatisfied, Files, Commands
    <3>2. a \notin touched /\ q = "tightening" => plan[a].orig = "old"
      <4>1. SUFFICES ASSUME a \notin touched, q = "tightening"
                     PROVE  plan[a].orig = "old"
        OBVIOUS
      <4>2. TightFits(a)
        BY <1>3, <2>4, <4>1, Zenon DEF HostFits
      <4>3. QED
        BY <2>10, <4>1, <4>2 DEF TightFits
    <3>3. q \notin {"intent", "removing", "rm_unlink", "created", "chmod", "unlink", "chmod_back", "undone"}
                   \cup Marks \cup Rewrites
      BY <2>4 DEF Marks, Rewrites
    <3>4. ~InHand(a, {"created"} \cup Marks) /\ mode' # "undo" /\ \A e \in ev'[a] \ ev[a] : e.phase \in Marks
      BY <1>3, <1>4, <1>5, <2>1
    <3>5. QED
      BY <1>3, <1>5, <2>1, <2>8, <3>1, <3>2, <3>3, <3>4, HostKeeps
  <2>12. LookFits(a)'
    <3>1. Body(a)' = Body(a)
      BY <1>5 DEF Body
    <3>2. QED
      BY <2>4, <2>8, <2>10, <3>1 DEF LookFits, Rewrites
  <2>13. QED
    BY <2>8, <2>9, <2>11, <2>12
<1>9. QED
  BY <1>6, <1>7, <1>8

(* What is left of an act after its first operation.                       *)
LEMMA TailChain ==
  ASSUME SetupInv, mode = "apply", todo # <<>>, Head(todo) \notin Ends, NEW a, a = At
  PROVE  ActChain(plan[a].kind, Tail(todo)) /\ Head(Tail(todo)) \in ActNext(plan[a].kind, Head(todo))
<1> DEFINE S == ActOps(plan[a].kind) \cup {"check", "verify"}
           F(o) == ActNext(plan[a].kind, o)
<1>1. /\ todo \in Seq(S) /\ todo # <<>>
      /\ todo[Len(todo)] \in Ends
      /\ \A k \in 1..Len(todo) - 1 : todo[k + 1] \in F(todo[k])
  BY DEF SetupInv, TodoFits, Ops, Follows
<1> HIDE DEF S, F
<1>2. Len(todo) \in Nat /\ Len(todo) > 1 /\ Head(todo) = todo[1]
  BY <1>1
<1>3. /\ Tail(todo) \in Seq(S) /\ Len(Tail(todo)) = Len(todo) - 1
      /\ \A k \in 1..Len(todo) - 1 : Tail(todo)[k] = todo[k + 1]
  BY <1>1, <1>2
<1>4. Tail(todo) # <<>> /\ Head(Tail(todo)) = todo[2]
  <2>1. Len(Tail(todo)) > 0
    BY <1>2, <1>3
  <2>2. Tail(todo) # <<>> /\ Head(Tail(todo)) = Tail(todo)[1]
    BY <2>1, <1>3, LongIsNotEmpty
  <2>3. QED
    BY <1>2, <1>3, <2>2
<1>5. todo[2] \in F(todo[1])
  BY <1>1, <1>2
<1>6. Tail(todo)[Len(Tail(todo))] \in Ends
  <2>1. Tail(todo)[Len(todo) - 1] = todo[Len(todo) - 1 + 1] /\ Len(todo) - 1 + 1 = Len(todo)
    BY <1>2, <1>3
  <2>2. QED
    BY <1>1, <1>3, <2>1
<1>7. \A k \in 1..Len(Tail(todo)) - 1 : Tail(todo)[k + 1] \in F(Tail(todo)[k])
  <2>1. TAKE k \in 1..Len(Tail(todo)) - 1
  <2>2. k + 1 \in 1..Len(todo) - 1 /\ Tail(todo)[k] = todo[k + 1] /\ Tail(todo)[k + 1] = todo[k + 1 + 1]
    BY <1>2, <1>3
  <2>3. QED
    BY <1>1, <2>2
<1>8. ActChain(plan[a].kind, Tail(todo))
  BY <1>3, <1>4, <1>6, <1>7 DEF ActChain, Chained, S, F
<1>9. QED
  BY <1>2, <1>4, <1>5, <1>8 DEF F

LEMMA Joins ==
  ASSUME NEW k, NEW s, NEW t, ActChain(k, t), s # <<>>, s \in Seq(ActOps(k) \cup {"check", "verify"}),
         \A j \in 1..Len(s) - 1 : s[j + 1] \in ActNext(k, s[j]),
         Head(t) \in ActNext(k, s[Len(s)])
  PROVE  ActChain(k, s \o t) /\ s \o t # <<>> /\ Head(s \o t) = s[1]
<1> DEFINE S == ActOps(k) \cup {"check", "verify"}
           F(o) == ActNext(k, o)
<1>1. /\ t # <<>> /\ t \in Seq(S) /\ t[Len(t)] \in Ends /\ \A j \in 1..Len(t) - 1 : t[j + 1] \in F(t[j])
  BY DEF ActChain, Chained
<1>2. s \in Seq(S) /\ (\A j \in 1..Len(s) - 1 : s[j + 1] \in F(s[j])) /\ Head(t) \in F(s[Len(s)])
  OBVIOUS
<1> HIDE DEF S, F
<1>3. PICK u : u = s \o t
  OBVIOUS
<1>4. /\ u \in Seq(S) /\ Len(u) = Len(s) + Len(t) /\ Len(s) \in Nat /\ Len(t) \in Nat /\ Len(s) > 0 /\ Len(t) > 0
      /\ Head(t) = t[1]
  BY <1>1, <1>2, <1>3
<1>5. /\ \A j \in 1..Len(s) : u[j] = s[j]
      /\ \A j \in Len(s) + 1..Len(s) + Len(t) : u[j] = t[j - Len(s)]
  BY <1>1, <1>2, <1>3, <1>4
<1>6. u # <<>> /\ Head(u) = s[1]
  <2>1. Len(u) > 0
    BY <1>4
  <2>2. u # <<>> /\ Head(u) = u[1]
    BY <1>4, <2>1, LongIsNotEmpty
  <2>3. QED
    BY <1>4, <1>5, <2>2
<1>7. u[Len(u)] \in Ends
  <2>1. Len(u) \in Len(s) + 1..Len(s) + Len(t) /\ Len(u) - Len(s) = Len(t)
    BY <1>4
  <2>2. u[Len(u)] = t[Len(u) - Len(s)]
    BY <1>5, <2>1
  <2>3. QED
    BY <1>1, <2>1, <2>2
<1>8. \A j \in 1..Len(u) - 1 : u[j + 1] \in F(u[j])
  <2>1. TAKE j \in 1..Len(u) - 1
  <2>2. CASE j < Len(s)
    <3>1. j \in 1..Len(s) - 1 /\ j \in 1..Len(s) /\ j + 1 \in 1..Len(s)
      BY <1>4, <2>2
    <3>2. u[j] = s[j] /\ u[j + 1] = s[j + 1]
      BY <1>5, <3>1
    <3>3. QED
      BY <1>2, <3>1, <3>2
  <2>3. CASE j = Len(s)
    <3>1. j \in 1..Len(s) /\ j + 1 \in Len(s) + 1..Len(s) + Len(t) /\ j + 1 - Len(s) = 1
      BY <1>4, <2>3
    <3>2. u[j] = s[Len(s)] /\ u[j + 1] = t[1]
      BY <1>5, <2>3, <3>1
    <3>3. QED
      BY <1>2, <1>4, <3>2
  <2>4. CASE j > Len(s)
    <3>1. /\ j \in Len(s) + 1..Len(s) + Len(t) /\ j + 1 \in Len(s) + 1..Len(s) + Len(t)
          /\ j - Len(s) \in 1..Len(t) - 1 /\ j + 1 - Len(s) = (j - Len(s)) + 1
      BY <1>4, <2>4
    <3>2. u[j] = t[j - Len(s)] /\ u[j + 1] = t[(j - Len(s)) + 1]
      BY <1>5, <3>1
    <3>3. QED
      BY <1>1, <3>1, <3>2
  <2>5. QED
    BY <1>4, <2>2, <2>3, <2>4
<1>9. ActChain(k, u)
  BY <1>4, <1>6, <1>7, <1>8 DEF ActChain, Chained, S, F
<1>10. QED
  BY <1>3, <1>6, <1>9

(* What a service's act is asked for fits in before what is left.          *)
LEMMA AskFits ==
  ASSUME NEW k, NEW o, NEW ops, NEW t, ActChain(k, t), Head(t) \in ActNext(k, o),
         \/ k = "enable" /\ o = "if_enable" /\ ops = <<"enabling", "systemctl_enable", "enabled">>
         \/ k = "enable" /\ o = "if_start" /\ ops = <<"starting", "systemctl_start", "started">>
         \/ k = "disable" /\ o = "if_stop" /\ ops = <<"systemctl_stop", "stopped">>
         \/ k = "disable" /\ o = "if_disable" /\ ops = <<"systemctl_disable", "disabled">>
  PROVE  /\ ActChain(k, ops \o t) /\ ops \o t # <<>>
         /\ Head(ops \o t) \in {"enabling", "starting", "systemctl_stop", "systemctl_disable"}
<1> DEFINE S == ActOps(k) \cup {"check", "verify"}
<1>1. /\ k = "enable" => {"enabling", "systemctl_enable", "enabled", "starting", "systemctl_start", "started"} \subseteq S
      /\ k = "disable" => {"systemctl_stop", "stopped", "systemctl_disable", "disabled"} \subseteq S
  BY DEF ActOps, Files, Commands
<1> HIDE DEF S
<1>2. /\ "systemctl_enable" \in ActNext(k, "enabling") /\ "enabled" \in ActNext(k, "systemctl_enable")
      /\ "systemctl_start" \in ActNext(k, "starting") /\ "started" \in ActNext(k, "systemctl_start")
      /\ "stopped" \in ActNext(k, "systemctl_stop") /\ "disabled" \in ActNext(k, "systemctl_disable")
  BY DEF ActNext
<1>3. /\ ActNext(k, "enabled") = ActNext(k, "if_enable") /\ ActNext(k, "started") = ActNext(k, "if_start")
      /\ ActNext(k, "stopped") = ActNext(k, "if_stop") /\ ActNext(k, "disabled") = ActNext(k, "if_disable")
  BY DEF ActNext
<1>4. /\ ops # <<>> /\ ops \in Seq(S) /\ Head(t) \in ActNext(k, ops[Len(ops)])
      /\ \A j \in 1..Len(ops) - 1 : ops[j + 1] \in ActNext(k, ops[j])
      /\ ops[1] \in {"enabling", "starting", "systemctl_stop", "systemctl_disable"}
  <2>1. CASE k = "enable" /\ o = "if_enable" /\ ops = <<"enabling", "systemctl_enable", "enabled">>
    <3>1. ops # <<>> /\ ops \in Seq(S) /\ Len(ops) = 3 /\ ops[1] = "enabling" /\ ops[2] = "systemctl_enable" /\ ops[3] = "enabled"
      BY <1>1, <2>1
    <3>2. \A j \in 1..Len(ops) - 1 : j = 1 \/ j = 2
      BY <3>1
    <3>3. QED
      BY <1>2, <1>3, <2>1, <3>1, <3>2
  <2>2. CASE k = "enable" /\ o = "if_start" /\ ops = <<"starting", "systemctl_start", "started">>
    <3>1. ops # <<>> /\ ops \in Seq(S) /\ Len(ops) = 3 /\ ops[1] = "starting" /\ ops[2] = "systemctl_start" /\ ops[3] = "started"
      BY <1>1, <2>2
    <3>2. \A j \in 1..Len(ops) - 1 : j = 1 \/ j = 2
      BY <3>1
    <3>3. QED
      BY <1>2, <1>3, <2>2, <3>1, <3>2
  <2>3. CASE k = "disable" /\ o = "if_stop" /\ ops = <<"systemctl_stop", "stopped">>
    <3>1. ops # <<>> /\ ops \in Seq(S) /\ Len(ops) = 2 /\ ops[1] = "systemctl_stop" /\ ops[2] = "stopped"
      BY <1>1, <2>3
    <3>2. \A j \in 1..Len(ops) - 1 : j = 1
      BY <3>1
    <3>3. QED
      BY <1>2, <1>3, <2>3, <3>1, <3>2
  <2>4. CASE k = "disable" /\ o = "if_disable" /\ ops = <<"systemctl_disable", "disabled">>
    <3>1. ops # <<>> /\ ops \in Seq(S) /\ Len(ops) = 2 /\ ops[1] = "systemctl_disable" /\ ops[2] = "disabled"
      BY <1>1, <2>4
    <3>2. \A j \in 1..Len(ops) - 1 : j = 1
      BY <3>1
    <3>3. QED
      BY <1>2, <1>3, <2>4, <3>1, <3>2
  <2>5. QED
    BY <2>1, <2>2, <2>3, <2>4
<1>5. QED
  BY <1>4, Joins DEF S

LEMMA AskStep == SetupInv /\ AskService => SetupInv'
<1> SUFFICES ASSUME SetupInv, AskService
             PROVE  SetupInv'
  OBVIOUS
<1>1. PICK o : /\ Op(o) /\ o \in {"if_enable", "if_start", "if_stop", "if_disable"}
               /\ \E ops : /\ \/ o = "if_enable" /\ ops = <<"enabling", "systemctl_enable", "enabled">>
                              \/ o = "if_start" /\ ops = <<"starting", "systemctl_start", "started">>
                              \/ o = "if_stop" /\ ops = <<"systemctl_stop", "stopped">>
                              \/ o = "if_disable" /\ ops = <<"systemctl_disable", "disabled">>
                           /\ todo' = ops \o Tail(todo) \/ todo' = <<>> \o Tail(todo)
  <2>1. /\ Ask("if_enable", ~svc[At].on, <<"enabling", "systemctl_enable", "enabled">>) =>
             Op("if_enable") /\ (todo' = <<"enabling", "systemctl_enable", "enabled">> \o Tail(todo) \/ todo' = <<>> \o Tail(todo))
        /\ Ask("if_start", ~svc[At].up, <<"starting", "systemctl_start", "started">>) =>
             Op("if_start") /\ (todo' = <<"starting", "systemctl_start", "started">> \o Tail(todo) \/ todo' = <<>> \o Tail(todo))
        /\ Ask("if_stop", Has("was_up", At), <<"systemctl_stop", "stopped">>) =>
             Op("if_stop") /\ (todo' = <<"systemctl_stop", "stopped">> \o Tail(todo) \/ todo' = <<>> \o Tail(todo))
        /\ Ask("if_disable", Has("was_on", At), <<"systemctl_disable", "disabled">>) =>
             Op("if_disable") /\ (todo' = <<"systemctl_disable", "disabled">> \o Tail(todo) \/ todo' = <<>> \o Tail(todo))
    BY DEF Ask
  <2>2. QED
    BY <2>1 DEF AskService
<1>2. PICK a : a = At
  OBVIOUS
<1>3. /\ todo # <<>> /\ o = Head(todo) /\ a \in queue /\ a \in 1..N
      /\ SetupTypes /\ Evidenced /\ RunFits /\ TodoFits
      /\ TempsFit(a) /\ HostFits(a) /\ LookFits(a)
      /\ Kind = plan[a].kind /\ plan[a].kind \in Kinds
      /\ rec[a].undone = "no" /\ (mode = "apply" => rec[a].status = "started")
      /\ \A S : InHand(a, S) <=> o \in S
  BY <1>1, <1>2, OpOf
<1>4. /\ mode = "apply" /\ o \notin Ends
      /\ o \in {"if_enable", "if_start"} => plan[a].kind = "enable"
      /\ o \in {"if_stop", "if_disable"} => plan[a].kind = "disable"
  BY <1>1, <1>3, HeadKinds DEF Ends
<1>5. UNCHANGED <<file, svc, stale, temps, backup, rec, ev, plan, touched, cut, moved, mode, queue, seen, made, result>>
  BY DEF AskService, Ask, Own, host, journal, history
<1>6. /\ ActChain(plan[a].kind, Tail(todo)) /\ Head(Tail(todo)) \in ActNext(plan[a].kind, o)
  BY <1>2, <1>3, <1>4, TailChain
<1>7. PICK q : q = Head(todo')
  OBVIOUS
<1>8. /\ ActChain(plan[a].kind, todo') /\ todo' # <<>>
      /\ q \in {"enabling", "starting", "systemctl_stop", "systemctl_disable", "if_start", "if_disable", "verify"}
  <2>1. CASE todo' = <<>> \o Tail(todo)
    <3>1. Tail(todo) \in Seq(ActOps(plan[a].kind) \cup {"check", "verify"}) /\ Tail(todo) # <<>>
      BY <1>6 DEF ActChain, Chained
    <3>2. todo' = Tail(todo)
      BY <2>1, <3>1, ConcatEmptySeq
    <3>3. ActNext(plan[a].kind, o) \subseteq {"if_start", "if_disable", "verify"}
      BY <1>1 DEF ActNext
    <3>4. QED
      BY <1>6, <1>7, <3>1, <3>2, <3>3
  <2>2. CASE todo' # <<>> \o Tail(todo)
    <3>1. PICK ops : /\ \/ o = "if_enable" /\ ops = <<"enabling", "systemctl_enable", "enabled">>
                        \/ o = "if_start" /\ ops = <<"starting", "systemctl_start", "started">>
                        \/ o = "if_stop" /\ ops = <<"systemctl_stop", "stopped">>
                        \/ o = "if_disable" /\ ops = <<"systemctl_disable", "disabled">>
                     /\ todo' = ops \o Tail(todo)
      BY <1>1, <2>2
    <3>2. /\ ActChain(plan[a].kind, ops \o Tail(todo)) /\ ops \o Tail(todo) # <<>>
          /\ Head(ops \o Tail(todo)) \in {"enabling", "starting", "systemctl_stop", "systemctl_disable"}
      BY <1>4, <1>6, <3>1, AskFits
    <3>3. QED
      BY <1>7, <3>1, <3>2
  <2>3. QED
    BY <2>1, <2>2
<1>9. SetupTypes' /\ Evidenced'
  BY <1>3, <1>5 DEF SetupTypes, Evidenced, N
<1>10. TodoFits' /\ Counted'
  <2>1. At' = a
    BY <1>2, <1>5, AtStays
  <2>2. QED
    BY <1>4, <1>5, <1>7, <1>8, <2>1, TakesUp DEF Counted
<1>11. \A i \in 1..N \ {a} : Same(i)
  BY <1>5 DEF Same
<1>12. /\ \A S : InHand(a, S)' <=> q \in S
       /\ TempsFit(a)' /\ HostFits(a)' /\ LookFits(a)' => SetupInv'
  BY <1>2, <1>3, <1>4, <1>5, <1>7, <1>8, <1>9, <1>10, <1>11, HandGoes
<1>13. TempsFit(a)'
  <2>1. <<"undo", a>> \notin cut' => temps'[a] = {}
    BY <1>1, <1>2, <1>4, <1>5, InApply
  <2>2. ~InHand(a, {"stage", "staged", "visudo", "commit"})'
    BY <1>8, <1>12
  <2>3. QED
    BY <2>1, <2>2, NothingLies
<1>14. HostFits(a)'
  <2>1. /\ q \notin {"intent", "removing", "rm_unlink", "created", "chmod", "unlink", "chmod_back", "undone"}
                    \cup Marks \cup Rewrites
        /\ q # "look" /\ q # "tightening"
    BY <1>8 DEF Marks, Rewrites
  <2>2. ~InHand(a, {"created"} \cup Marks) /\ mode' # "undo" /\ \A e \in ev'[a] \ ev[a] : e.phase \in Marks
    BY <1>1, <1>3, <1>4, <1>5 DEF Marks
  <2>3. QED
    BY <1>3, <1>5, <1>12, <2>1, <2>2, HostKeeps
<1>15. LookFits(a)'
  BY <1>8, <1>12 DEF LookFits, Rewrites
<1>16. QED
  BY <1>12, <1>13, <1>14, <1>15

----------------------------------------------------------------------------
(* The inverse of a step.                                                  *)

(* Operations ops, and undone after them, are an undo that begins with q.  *)
UndoTakes(i, ops, q) ==
  /\ ops \o <<"undone">> # <<>> /\ Head(ops \o <<"undone">>) = q
  /\ Chained(ops \o <<"undone">>, UndoOps(plan[i].kind) \cup {"undone"}, LAMBDA o : UndoNext(i, o))

LEMMA TakesUpUndo ==
  ASSUME NEW a, At' = a, plan' = plan, mode' = "undo", ev' = ev, NEW ops, NEW q, UndoTakes(a, ops, q),
         todo' = ops \o <<"undone">>
  PROVE  TodoFits'
<1>1. PICK s : s = todo'
  OBVIOUS
<1>2. Ops(a)' = UndoOps(plan[a].kind) \cup {"undone"}
  BY DEF Ops
<1>3. s \in Seq(Ops(a)') /\ s[Len(s)] \in Ends
  BY <1>1, <1>2 DEF UndoTakes, Chained
<1>4. \A j \in 1..Len(s) - 1 : s[j + 1] \in UndoNext(a, s[j])
  BY <1>1 DEF UndoTakes, Chained
<1>5. \A p : Has(p, a)' <=> Has(p, a)
  BY DEF Has, Found
<1>6. \A j \in 1..Len(todo') - 1 : (todo[j + 1] \in Follows(a, todo[j]))'
  BY <1>1, <1>4, <1>5 DEF Follows, UndoNext
<1>7. QED
  BY <1>1, <1>3, <1>6 DEF TodoFits, Ends

LEMMA NothingChain ==
  ASSUME NEW i, plan[i].kind \in Kinds
  PROVE  UndoTakes(i, <<>>, "undone")
<1> DEFINE s == <<>> \o <<"undone">>
           S == UndoOps(plan[i].kind) \cup {"undone"}
<1>1. "undone" \in S
  BY DEF UndoOps, Rewrites, Files, Commands, Kinds, Services
<1> HIDE DEF S
<1>3. s # <<>> /\ s \in Seq(S) /\ Len(s) = 1 /\ s[1] = "undone"
  BY <1>1
<1> HIDE DEF s
<1>4. QED
  BY <1>3 DEF UndoTakes, Chained, Ends, S, s

LEMMA RereadChain ==
  ASSUME NEW i, plan[i].kind \in {"unit", "remove"}
  PROVE  UndoTakes(i, <<"reload">>, "reload")
<1> DEFINE s == <<"reload">> \o <<"undone">>
           S == UndoOps(plan[i].kind) \cup {"undone"}
<1>1. "reload" \in S /\ "undone" \in S
  BY DEF UndoOps, Rewrites, Files, Commands, Kinds, Services
<1>2. "undone" \in UndoNext(i, "reload")
  BY DEF UndoNext, Files
<1> HIDE DEF S
<1>3. s # <<>> /\ s \in Seq(S) /\ Len(s) = 2 /\ s[1] = "reload" /\ s[2] = "undone"
  BY <1>1
<1> HIDE DEF s
<1>4. \A j \in 1..Len(s) - 1 : s[j + 1] \in UndoNext(i, s[j])
  BY <1>2, <1>3
<1>5. QED
  BY <1>3, <1>4 DEF UndoTakes, Chained, Ends, S, s

LEMMA UnlinkUnitChain ==
  ASSUME NEW i, plan[i].kind = "unit"
  PROVE  UndoTakes(i, (<<"unlink">> \o <<"reload">>), "unlink")
<1> DEFINE s == (<<"unlink">> \o <<"reload">>) \o <<"undone">>
           S == UndoOps(plan[i].kind) \cup {"undone"}
<1>1. "unlink" \in S /\ "reload" \in S /\ "undone" \in S
  BY DEF UndoOps, Rewrites, Files, Commands, Kinds, Services
<1>2. "reload" \in UndoNext(i, "unlink") /\ "undone" \in UndoNext(i, "reload")
  BY DEF UndoNext, Files
<1> HIDE DEF S
<1>3. /\ s # <<>> /\ s \in Seq(S) /\ Len(s) = 3 /\ s[1] = "unlink" /\ s[2] = "reload"
      /\ s[3] = "undone"
  BY <1>1
<1> HIDE DEF s
<1>4. \A j \in 1..Len(s) - 1 : s[j + 1] \in UndoNext(i, s[j])
  <2>1. TAKE j \in 1..Len(s) - 1
  <2>2. j = 1 \/ j = 2
    BY <1>3
  <2>3. QED
    BY <1>2, <1>3, <2>2
<1>5. QED
  BY <1>3, <1>4 DEF UndoTakes, Chained, Ends, S, s

LEMMA UnlinkFileChain ==
  ASSUME NEW i, plan[i].kind \in Files \ {"unit"}
  PROVE  UndoTakes(i, (<<"unlink">> \o <<>>), "unlink")
<1> DEFINE s == (<<"unlink">> \o <<>>) \o <<"undone">>
           S == UndoOps(plan[i].kind) \cup {"undone"}
<1>1. "unlink" \in S /\ "undone" \in S
  BY DEF UndoOps, Rewrites, Files, Commands, Kinds, Services
<1>2. "undone" \in UndoNext(i, "unlink")
  BY DEF UndoNext, Files
<1> HIDE DEF S
<1>3. s # <<>> /\ s \in Seq(S) /\ Len(s) = 2 /\ s[1] = "unlink" /\ s[2] = "undone"
  BY <1>1
<1> HIDE DEF s
<1>4. \A j \in 1..Len(s) - 1 : s[j + 1] \in UndoNext(i, s[j])
  BY <1>2, <1>3
<1>5. QED
  BY <1>3, <1>4 DEF UndoTakes, Chained, Ends, S, s

LEMMA UnlinkDirChain ==
  ASSUME NEW i, plan[i].kind \in {"dir", "venv"}
  PROVE  UndoTakes(i, <<"unlink">>, "unlink")
<1> DEFINE s == <<"unlink">> \o <<"undone">>
           S == UndoOps(plan[i].kind) \cup {"undone"}
<1>1. "unlink" \in S /\ "undone" \in S
  BY DEF UndoOps, Rewrites, Files, Commands, Kinds, Services
<1>2. "undone" \in UndoNext(i, "unlink")
  BY DEF UndoNext, Files
<1> HIDE DEF S
<1>3. s # <<>> /\ s \in Seq(S) /\ Len(s) = 2 /\ s[1] = "unlink" /\ s[2] = "undone"
  BY <1>1
<1> HIDE DEF s
<1>4. \A j \in 1..Len(s) - 1 : s[j + 1] \in UndoNext(i, s[j])
  BY <1>2, <1>3
<1>5. QED
  BY <1>3, <1>4 DEF UndoTakes, Chained, Ends, S, s

LEMMA RestoreUnitChain ==
  ASSUME NEW i, plan[i].kind \in {"unit", "remove"}
  PROVE  UndoTakes(i, (Restore \o <<"reload">>), "undo_intent")
<1> DEFINE s == (Restore \o <<"reload">>) \o <<"undone">>
           S == UndoOps(plan[i].kind) \cup {"undone"}
<1>1. /\ "undo_intent" \in S /\ "undo_stage" \in S /\ "undo_commit" \in S /\ "reload" \in S
      /\ "undone" \in S
  BY DEF UndoOps, Rewrites, Files, Commands, Kinds, Services
<1>2. /\ "undo_stage" \in UndoNext(i, "undo_intent")
      /\ "undo_commit" \in UndoNext(i, "undo_stage") /\ "reload" \in UndoNext(i, "undo_commit")
      /\ "undone" \in UndoNext(i, "reload")
  BY DEF UndoNext, Files
<1> HIDE DEF S
<1>3. /\ s # <<>> /\ s \in Seq(S) /\ Len(s) = 5 /\ s[1] = "undo_intent" /\ s[2] = "undo_stage"
      /\ s[3] = "undo_commit" /\ s[4] = "reload" /\ s[5] = "undone"
  BY <1>1 DEF Restore
<1> HIDE DEF s
<1>4. \A j \in 1..Len(s) - 1 : s[j + 1] \in UndoNext(i, s[j])
  <2>1. TAKE j \in 1..Len(s) - 1
  <2>2. j = 1 \/ j = 2 \/ j = 3 \/ j = 4
    BY <1>3
  <2>3. QED
    BY <1>2, <1>3, <2>2
<1>5. QED
  BY <1>3, <1>4 DEF UndoTakes, Chained, Ends, S, s

LEMMA RestoreFileChain ==
  ASSUME NEW i, plan[i].kind \in Files \ {"unit"}
  PROVE  UndoTakes(i, (Restore \o <<>>), "undo_intent")
<1> DEFINE s == (Restore \o <<>>) \o <<"undone">>
           S == UndoOps(plan[i].kind) \cup {"undone"}
<1>1. "undo_intent" \in S /\ "undo_stage" \in S /\ "undo_commit" \in S /\ "undone" \in S
  BY DEF UndoOps, Rewrites, Files, Commands, Kinds, Services
<1>2. /\ "undo_stage" \in UndoNext(i, "undo_intent")
      /\ "undo_commit" \in UndoNext(i, "undo_stage") /\ "undone" \in UndoNext(i, "undo_commit")
  BY DEF UndoNext, Files
<1> HIDE DEF S
<1>3. /\ s # <<>> /\ s \in Seq(S) /\ Len(s) = 4 /\ s[1] = "undo_intent" /\ s[2] = "undo_stage"
      /\ s[3] = "undo_commit" /\ s[4] = "undone"
  BY <1>1 DEF Restore
<1> HIDE DEF s
<1>4. \A j \in 1..Len(s) - 1 : s[j + 1] \in UndoNext(i, s[j])
  <2>1. TAKE j \in 1..Len(s) - 1
  <2>2. j = 1 \/ j = 2 \/ j = 3
    BY <1>3
  <2>3. QED
    BY <1>2, <1>3, <2>2
<1>5. QED
  BY <1>3, <1>4 DEF UndoTakes, Chained, Ends, S, s

LEMMA LoosenChain ==
  ASSUME NEW i, plan[i].kind = "tight"
  PROVE  UndoTakes(i, <<"chmod_back">>, "chmod_back")
<1> DEFINE s == <<"chmod_back">> \o <<"undone">>
           S == UndoOps(plan[i].kind) \cup {"undone"}
<1>1. "chmod_back" \in S /\ "undone" \in S
  BY DEF UndoOps, Rewrites, Files, Commands, Kinds, Services
<1>2. "undone" \in UndoNext(i, "chmod_back")
  BY DEF UndoNext, Files
<1> HIDE DEF S
<1>3. s # <<>> /\ s \in Seq(S) /\ Len(s) = 2 /\ s[1] = "chmod_back" /\ s[2] = "undone"
  BY <1>1
<1> HIDE DEF s
<1>4. \A j \in 1..Len(s) - 1 : s[j + 1] \in UndoNext(i, s[j])
  BY <1>2, <1>3
<1>5. QED
  BY <1>3, <1>4 DEF UndoTakes, Chained, Ends, S, s

LEMMA BothOffChain ==
  ASSUME NEW i, plan[i].kind = "enable", Has("enabled", i)
  PROVE  UndoTakes(i, (<<"systemctl_stop">> \o <<"systemctl_disable">> \o <<>> \o <<>>), "systemctl_stop")
<1> DEFINE s == (<<"systemctl_stop">> \o <<"systemctl_disable">> \o <<>> \o <<>>) \o <<"undone">>
           S == UndoOps(plan[i].kind) \cup {"undone"}
<1>1. "systemctl_stop" \in S /\ "systemctl_disable" \in S /\ "undone" \in S
  BY DEF UndoOps, Rewrites, Files, Commands, Kinds, Services
<1>2. /\ "systemctl_disable" \in UndoNext(i, "systemctl_stop")
      /\ "undone" \in UndoNext(i, "systemctl_disable")
  BY DEF UndoNext, Files
<1> HIDE DEF S
<1>3. /\ s # <<>> /\ s \in Seq(S) /\ Len(s) = 3 /\ s[1] = "systemctl_stop"
      /\ s[2] = "systemctl_disable" /\ s[3] = "undone"
  BY <1>1
<1> HIDE DEF s
<1>4. \A j \in 1..Len(s) - 1 : s[j + 1] \in UndoNext(i, s[j])
  <2>1. TAKE j \in 1..Len(s) - 1
  <2>2. j = 1 \/ j = 2
    BY <1>3
  <2>3. QED
    BY <1>2, <1>3, <2>2
<1>5. QED
  BY <1>3, <1>4 DEF UndoTakes, Chained, Ends, S, s

LEMMA StopChain ==
  ASSUME NEW i, plan[i].kind = "enable", ~Has("enabled", i)
  PROVE  UndoTakes(i, (<<"systemctl_stop">> \o <<>> \o <<>> \o <<>>), "systemctl_stop")
<1> DEFINE s == (<<"systemctl_stop">> \o <<>> \o <<>> \o <<>>) \o <<"undone">>
           S == UndoOps(plan[i].kind) \cup {"undone"}
<1>1. "systemctl_stop" \in S /\ "undone" \in S
  BY DEF UndoOps, Rewrites, Files, Commands, Kinds, Services
<1>2. "undone" \in UndoNext(i, "systemctl_stop")
  BY DEF UndoNext, Files
<1> HIDE DEF S
<1>3. s # <<>> /\ s \in Seq(S) /\ Len(s) = 2 /\ s[1] = "systemctl_stop" /\ s[2] = "undone"
  BY <1>1
<1> HIDE DEF s
<1>4. \A j \in 1..Len(s) - 1 : s[j + 1] \in UndoNext(i, s[j])
  BY <1>2, <1>3
<1>5. QED
  BY <1>3, <1>4 DEF UndoTakes, Chained, Ends, S, s

LEMMA OffChain ==
  ASSUME NEW i, plan[i].kind = "enable"
  PROVE  UndoTakes(i, (<<>> \o <<"systemctl_disable">> \o <<>> \o <<>>), "systemctl_disable")
<1> DEFINE s == (<<>> \o <<"systemctl_disable">> \o <<>> \o <<>>) \o <<"undone">>
           S == UndoOps(plan[i].kind) \cup {"undone"}
<1>1. "systemctl_disable" \in S /\ "undone" \in S
  BY DEF UndoOps, Rewrites, Files, Commands, Kinds, Services
<1>2. "undone" \in UndoNext(i, "systemctl_disable")
  BY DEF UndoNext, Files
<1> HIDE DEF S
<1>3. /\ s # <<>> /\ s \in Seq(S) /\ Len(s) = 2 /\ s[1] = "systemctl_disable"
      /\ s[2] = "undone"
  BY <1>1
<1> HIDE DEF s
<1>4. \A j \in 1..Len(s) - 1 : s[j + 1] \in UndoNext(i, s[j])
  BY <1>2, <1>3
<1>5. QED
  BY <1>3, <1>4 DEF UndoTakes, Chained, Ends, S, s

LEMMA BothOnChain ==
  ASSUME NEW i, plan[i].kind = "disable", Has("stopped", i)
  PROVE  UndoTakes(i, (<<>> \o <<>> \o <<"systemctl_enable">> \o <<"systemctl_start">>), "systemctl_enable")
<1> DEFINE s == (<<>> \o <<>> \o <<"systemctl_enable">> \o <<"systemctl_start">>) \o <<"undone">>
           S == UndoOps(plan[i].kind) \cup {"undone"}
<1>1. "systemctl_enable" \in S /\ "systemctl_start" \in S /\ "undone" \in S
  BY DEF UndoOps, Rewrites, Files, Commands, Kinds, Services
<1>2. /\ "systemctl_start" \in UndoNext(i, "systemctl_enable")
      /\ "undone" \in UndoNext(i, "systemctl_start")
  BY DEF UndoNext, Files
<1> HIDE DEF S
<1>3. /\ s # <<>> /\ s \in Seq(S) /\ Len(s) = 3 /\ s[1] = "systemctl_enable"
      /\ s[2] = "systemctl_start" /\ s[3] = "undone"
  BY <1>1
<1> HIDE DEF s
<1>4. \A j \in 1..Len(s) - 1 : s[j + 1] \in UndoNext(i, s[j])
  <2>1. TAKE j \in 1..Len(s) - 1
  <2>2. j = 1 \/ j = 2
    BY <1>3
  <2>3. QED
    BY <1>2, <1>3, <2>2
<1>5. QED
  BY <1>3, <1>4 DEF UndoTakes, Chained, Ends, S, s

LEMMA OnChain ==
  ASSUME NEW i, plan[i].kind = "disable", ~Has("stopped", i)
  PROVE  UndoTakes(i, (<<>> \o <<>> \o <<"systemctl_enable">> \o <<>>), "systemctl_enable")
<1> DEFINE s == (<<>> \o <<>> \o <<"systemctl_enable">> \o <<>>) \o <<"undone">>
           S == UndoOps(plan[i].kind) \cup {"undone"}
<1>1. "systemctl_enable" \in S /\ "undone" \in S
  BY DEF UndoOps, Rewrites, Files, Commands, Kinds, Services
<1>2. "undone" \in UndoNext(i, "systemctl_enable")
  BY DEF UndoNext, Files
<1> HIDE DEF S
<1>3. s # <<>> /\ s \in Seq(S) /\ Len(s) = 2 /\ s[1] = "systemctl_enable" /\ s[2] = "undone"
  BY <1>1
<1> HIDE DEF s
<1>4. \A j \in 1..Len(s) - 1 : s[j + 1] \in UndoNext(i, s[j])
  BY <1>2, <1>3
<1>5. QED
  BY <1>3, <1>4 DEF UndoTakes, Chained, Ends, S, s

LEMMA StartChain ==
  ASSUME NEW i, plan[i].kind = "disable"
  PROVE  UndoTakes(i, (<<>> \o <<>> \o <<>> \o <<"systemctl_start">>), "systemctl_start")
<1> DEFINE s == (<<>> \o <<>> \o <<>> \o <<"systemctl_start">>) \o <<"undone">>
           S == UndoOps(plan[i].kind) \cup {"undone"}
<1>1. "systemctl_start" \in S /\ "undone" \in S
  BY DEF UndoOps, Rewrites, Files, Commands, Kinds, Services
<1>2. "undone" \in UndoNext(i, "systemctl_start")
  BY DEF UndoNext, Files
<1> HIDE DEF S
<1>3. s # <<>> /\ s \in Seq(S) /\ Len(s) = 2 /\ s[1] = "systemctl_start" /\ s[2] = "undone"
  BY <1>1
<1> HIDE DEF s
<1>4. \A j \in 1..Len(s) - 1 : s[j + 1] \in UndoNext(i, s[j])
  BY <1>2, <1>3
<1>5. QED
  BY <1>3, <1>4 DEF UndoTakes, Chained, Ends, S, s

(* The first operation of an inverse fits what is on the host.             *)
FirstOps == {"undo_intent", "unlink", "chmod_back", "reload", "undone", "systemctl_stop", "systemctl_disable",
             "systemctl_enable", "systemctl_start"}
FirstFits(i, q) ==
  /\ q \in FirstOps
  /\ i \notin touched =>
       /\ q = "undo_intent" => backup[i] = plan[i].orig
       /\ q = "unlink" => plan[i].orig = "none"
       /\ q = "chmod_back" => plan[i].orig = "old"
       /\ q = "reload" => Body(i) = plan[i].orig
       /\ q = "undone" => CutShort(i) \/ Restored(i)
       /\ plan[i].kind = "enable" /\ q = "systemctl_disable" => CutShort(i) \/ ~svc[i].up
       /\ plan[i].kind = "disable" /\ q = "systemctl_start" => CutShort(i) \/ svc[i].on
  /\ plan[i].kind # "venv" =>
       /\ q \in {"undo_intent", "unlink"} => Body(i) # "edit" /\ (Body(i) # "none" => file[i].id > 0)
       /\ q = "chmod_back" => Body(i) # "edit"
InverseFits(i) == \E q : UndoTakes(i, InverseOf(i), q) /\ FirstFits(i, q)

LEMMA NotesAreFound ==
  ASSUME NEW i, NEW p, NEW n, NEW b, Note(p, n, b) \in ev[i]
  PROVE  /\ Note(p, n, b) \in Found(p, i) /\ Has(p, i)
         /\ Note(p, n, b).n = n /\ Note(p, n, b).was = b
BY DEF Note, Found, Has

LEMMA FileInverseFits ==
  ASSUME SetupTypes, Evidenced, NEW i \in 1..N, HostFits(i), todo = <<>>, plan[i].kind \in Files,
         InverseOf(i) # Refused
  PROVE  InverseFits(i)
<1>1. InverseOf(i) = FileInverse(i) /\ plan[i].kind \notin Services \cup {"venv"}
  BY DEF InverseOf, Files, Services, Commands
<1>2. i \notin touched => FileFits(i)
  BY Zenon DEF HostFits
<1>3. (i \notin touched /\ Body(i) = plan[i].orig /\ (plan[i].kind # "unit" \/ ~Has("intent", i))) => Restored(i)
  <2>1. SUFFICES ASSUME i \notin touched, Body(i) = plan[i].orig, plan[i].kind # "unit" \/ ~Has("intent", i)
                 PROVE  Restored(i)
    OBVIOUS
  <2>2. UnitIsRead(i)
    BY <1>2, <2>1 DEF FileFits, UnitIsRead
  <2>3. plan[i].kind \notin Services
    BY <1>1
  <2>4. QED
    BY <2>1, <2>2, <2>3 DEF Restored
<1>4. CASE ~Has("intent", i)
  <2>1. FileInverse(i) = <<>>
    <3>1. Ours(i) = {}
      BY <1>4 DEF Ours, Has
    <3>2. QED
      BY <1>4, <3>1 DEF FileInverse
  <2>2. UndoTakes(i, FileInverse(i), "undone")
    BY <2>1, NothingChain DEF Kinds
  <2>3. i \notin touched => Body(i) = plan[i].orig
    BY <1>2, <1>4, NotesAreFound DEF FileFits
  <2>4. FirstFits(i, "undone")
    BY <1>3, <1>4, <2>3 DEF FirstFits, FirstOps
  <2>5. QED
    BY <1>1, <2>2, <2>4 DEF InverseFits
<1>5. ASSUME FileInverse(i) = ReloadOf(i), i \notin touched => Body(i) = plan[i].orig
      PROVE  InverseFits(i)
  <2>1. CASE plan[i].kind = "unit"
    <3>1. UndoTakes(i, FileInverse(i), "reload")
      BY <1>5, <2>1, RereadChain DEF ReloadOf
    <3>2. FirstFits(i, "reload")
      BY <1>1, <1>5, <2>1 DEF FirstFits, FirstOps
    <3>3. QED
      BY <1>1, <3>1, <3>2 DEF InverseFits
  <2>2. CASE plan[i].kind # "unit"
    <3>1. ReloadOf(i) = <<>>
      BY <2>2 DEF ReloadOf, Files
    <3>2. UndoTakes(i, FileInverse(i), "undone")
      BY <1>5, <3>1, NothingChain DEF Kinds
    <3>3. FirstFits(i, "undone")
      BY <1>3, <1>5, <2>2 DEF FirstFits, FirstOps
    <3>4. QED
      BY <1>1, <3>2, <3>3 DEF InverseFits
  <2>3. QED
    BY <2>1, <2>2
<1>6. CASE Has("intent", i) /\ Body(i) = "none"
  <2>1. FileInverse(i) = ReloadOf(i) /\ \E e \in Found("intent", i) : e.was = "none"
    <3>1. FileInverse(i) = IF \E e \in Found("intent", i) : e.was = "none" THEN ReloadOf(i) ELSE Refused
      BY <1>6 DEF FileInverse
    <3>2. QED
      BY <1>1, <3>1
  <2>2. i \notin touched => Body(i) = plan[i].orig
    BY <1>2, <1>6, <2>1 DEF FileFits
  <2>3. QED
    BY <1>5, <2>1, <2>2
<1>7. CASE Has("intent", i) /\ Body(i) # "none" /\ Ours(i) = {}
  <2>1. FileInverse(i) = ReloadOf(i)
    <3>1. FileInverse(i) = NotOurs(i)
      BY <1>7 DEF FileInverse
    <3>2. QED
      BY <1>1, <3>1 DEF NotOurs
  <2>2. i \notin touched => Body(i) = plan[i].orig
    <3>1. SUFFICES ASSUME i \notin touched, Body(i) # plan[i].orig
                   PROVE  FALSE
      OBVIOUS
    <3>2. Note("intent", file[i].id, plan[i].orig) \in ev[i] /\ Note("staged", file[i].id, "none") \in ev[i]
      BY <1>2, <3>1 DEF FileFits
    <3>3. PICK e : e = Note("intent", file[i].id, plan[i].orig)
      OBVIOUS
    <3>4. e \in Found("intent", i) /\ e.n = file[i].id
      BY <3>2, <3>3, NotesAreFound
    <3>5. e \in Ours(i)
      BY <3>2, <3>4 DEF Ours
    <3>6. QED
      BY <1>7, <3>5
  <2>3. QED
    BY <1>5, <2>1, <2>2
<1>8. CASE Has("intent", i) /\ Body(i) # "none" /\ Ours(i) # {}
  <2>1. FileInverse(i) = IF Body(i) # "new" THEN Refused
                         ELSE IF \E e \in Ours(i) : e.was = "none" THEN <<"unlink">> \o ReloadOf(i)
                         ELSE IF \E e \in Ours(i) : e.was = backup[i] THEN Restore \o ReloadOf(i) ELSE Refused
    BY <1>8 DEF FileInverse
  <2>2. Body(i) = "new"
    BY <1>1, <2>1
  <2>3. file[i].id > 0
    <3>1. PICK e \in Ours(i) : TRUE
      BY <1>8
    <3>2. e \in ev[i] /\ e.phase = "intent" /\ e.n = file[i].id
      BY DEF Ours, Found
    <3>3. QED
      BY <3>2 DEF Evidenced
  <2>4. i \notin touched => \A e \in Ours(i) : e.was = plan[i].orig
    BY <1>2 DEF FileFits, Ours
  <2>5. CASE \E e \in Ours(i) : e.was = "none"
    <3>1. FileInverse(i) = <<"unlink">> \o ReloadOf(i)
      BY <2>1, <2>2, <2>5
    <3>2. UndoTakes(i, FileInverse(i), "unlink")
      <4>1. CASE plan[i].kind = "unit"
        <5>1. ReloadOf(i) = <<"reload">>
          BY <4>1 DEF ReloadOf
        <5>2. QED
          BY <3>1, <4>1, <5>1, UnlinkUnitChain
      <4>2. CASE plan[i].kind # "unit"
        <5>1. ReloadOf(i) = <<>>
          BY <4>2 DEF ReloadOf, Files
        <5>2. QED
          BY <3>1, <4>2, <5>1, UnlinkFileChain
      <4>3. QED
        BY <4>1, <4>2
    <3>3. FirstFits(i, "unlink")
      BY <2>2, <2>3, <2>4, <2>5 DEF FirstFits, FirstOps
    <3>4. QED
      BY <1>1, <3>2, <3>3 DEF InverseFits
  <2>6. CASE ~ \E e \in Ours(i) : e.was = "none"
    <3>1. FileInverse(i) = Restore \o ReloadOf(i) /\ \E e \in Ours(i) : e.was = backup[i]
      BY <1>1, <2>1, <2>2, <2>6
    <3>2. UndoTakes(i, FileInverse(i), "undo_intent")
      <4>1. CASE plan[i].kind = "unit"
        <5>1. ReloadOf(i) = <<"reload">>
          BY <4>1 DEF ReloadOf
        <5>2. QED
          BY <3>1, <4>1, <5>1, RestoreUnitChain
      <4>2. CASE plan[i].kind # "unit"
        <5>1. ReloadOf(i) = <<>>
          BY <4>2 DEF ReloadOf, Files
        <5>2. QED
          BY <3>1, <4>2, <5>1, RestoreFileChain
      <4>3. QED
        BY <4>1, <4>2
    <3>3. FirstFits(i, "undo_intent")
      BY <2>2, <2>3, <2>4, <3>1 DEF FirstFits, FirstOps
    <3>4. QED
      BY <1>1, <3>2, <3>3 DEF InverseFits
  <2>7. QED
    BY <2>5, <2>6
<1>9. QED
  BY <1>4, <1>6, <1>7, <1>8

LEMMA RemoveInverseFits ==
  ASSUME NEW i \in 1..N, HostFits(i), todo = <<>>, plan[i].kind = "remove",
         InverseOf(i) # Refused
  PROVE  InverseFits(i)
<1>1. InverseOf(i) = RemoveInverse(i) /\ ReloadOf(i) = <<"reload">>
  BY DEF InverseOf, Files, Services, Commands, ReloadOf
<1>2. i \notin touched => RemoveFits(i)
  BY DEF HostFits, Files, Commands
<1>3. ASSUME RemoveInverse(i) = ReloadOf(i), i \notin touched => Body(i) = plan[i].orig
      PROVE  InverseFits(i)
  <2>1. UndoTakes(i, RemoveInverse(i), "reload")
    BY <1>1, <1>3, RereadChain
  <2>2. FirstFits(i, "reload")
    BY <1>3 DEF FirstFits, FirstOps
  <2>3. QED
    BY <1>1, <2>1, <2>2 DEF InverseFits
<1>4. CASE ~Has("removing", i) \/ Body(i) = "old"
  <2>1. RemoveInverse(i) = ReloadOf(i)
    BY <1>4 DEF RemoveInverse
  <2>2. i \notin touched => Body(i) = plan[i].orig
    BY <1>2, <1>4 DEF RemoveFits
  <2>3. QED
    BY <1>3, <2>1, <2>2
<1>5. CASE Has("removing", i) /\ Body(i) = "none"
  <2>1. RemoveInverse(i) = Restore \o ReloadOf(i)
    BY <1>5 DEF RemoveInverse
  <2>2. UndoTakes(i, RemoveInverse(i), "undo_intent")
    BY <1>1, <2>1, RestoreUnitChain
  <2>3. FirstFits(i, "undo_intent")
    BY <1>2, <1>5 DEF RemoveFits, FirstFits, FirstOps
  <2>4. QED
    BY <1>1, <2>2, <2>3 DEF InverseFits
<1>6. CASE Has("removing", i) /\ Body(i) \notin {"old", "none"}
  <2>1. RemoveInverse(i) = IF Has("removed", i) THEN Refused ELSE ReloadOf(i)
    BY <1>6 DEF RemoveInverse
  <2>2. i \in touched
    BY <1>2, <1>6 DEF RemoveFits
  <2>3. QED
    BY <1>1, <1>3, <2>1, <2>2
<1>7. QED
  BY <1>4, <1>5, <1>6

LEMMA DirInverseFits ==
  ASSUME SetupTypes, Evidenced, NEW i \in 1..N, HostFits(i), todo = <<>>, plan[i].kind = "dir",
         InverseOf(i) # Refused
  PROVE  InverseFits(i)
<1>1. InverseOf(i) = DirInverse(i)
  BY DEF InverseOf, Files, Services, Commands
<1>2. i \notin touched => DirFits(i)
  BY DEF HostFits, Files, Commands
<1>3. ~InHand(i, {"created"})
  BY DEF InHand
<1>4. CASE ~Has("created", i) \/ Body(i) = "none"
  <2>1. DirInverse(i) = <<>>
    BY <1>4 DEF DirInverse
  <2>2. UndoTakes(i, DirInverse(i), "undone")
    BY <2>1, NothingChain DEF Kinds
  <2>3. i \notin touched => CutShort(i) \/ Restored(i)
    <3>1. SUFFICES ASSUME i \notin touched, ~CutShort(i)
                   PROVE  Restored(i)
      OBVIOUS
    <3>2. Body(i) = plan[i].orig /\ i \notin stale
      BY <1>2, <1>3, <1>4, <3>1 DEF DirFits
    <3>3. QED
      BY <3>2 DEF Restored, UnitIsRead, Services
  <2>4. FirstFits(i, "undone")
    BY <2>3 DEF FirstFits, FirstOps
  <2>5. QED
    BY <1>1, <2>2, <2>4 DEF InverseFits
<1>5. CASE Has("created", i) /\ Body(i) # "none"
  <2>1. DirInverse(i) = IF file[i].id = Latest("created", i).n /\ Body(i) = "new" THEN <<"unlink">> ELSE Refused
    BY <1>5 DEF DirInverse
  <2>2. file[i].id = Latest("created", i).n /\ Body(i) = "new" /\ DirInverse(i) = <<"unlink">>
    BY <1>1, <2>1
  <2>3. UndoTakes(i, DirInverse(i), "unlink")
    BY <2>2, UnlinkDirChain
  <2>4. Latest("created", i) \in Found("created", i)
    BY <1>5, LatestIsFound
  <2>5. file[i].id > 0
    BY <2>2, <2>4 DEF Evidenced, Found
  <2>6. FirstFits(i, "unlink")
    BY <1>2, <1>5, <2>2, <2>5 DEF FirstFits, FirstOps, DirFits
  <2>7. QED
    BY <1>1, <2>3, <2>6 DEF InverseFits
<1>6. QED
  BY <1>4, <1>5

LEMMA TightInverseFits ==
  ASSUME NEW i \in 1..N, HostFits(i), todo = <<>>, plan[i].kind = "tight",
         InverseOf(i) # Refused
  PROVE  InverseFits(i)
<1>1. InverseOf(i) = TightInverse(i)
  BY DEF InverseOf, Files, Services, Commands
<1>2. i \notin touched => TightFits(i)
  BY DEF HostFits, Files, Commands
<1>3. CASE ~Has("tightening", i) \/ Body(i) = "old"
  <2>1. TightInverse(i) = <<>>
    BY <1>3 DEF TightInverse
  <2>2. UndoTakes(i, TightInverse(i), "undone")
    BY <2>1, NothingChain DEF Kinds
  <2>3. i \notin touched => Restored(i)
    <3>1. SUFFICES ASSUME i \notin touched
                   PROVE  Restored(i)
      OBVIOUS
    <3>2. Body(i) = plan[i].orig /\ i \notin stale
      BY <1>2, <1>3, <3>1 DEF TightFits
    <3>3. QED
      BY <3>2 DEF Restored, UnitIsRead, Services
  <2>4. FirstFits(i, "undone")
    BY <2>3 DEF FirstFits, FirstOps
  <2>5. QED
    BY <1>1, <2>2, <2>4 DEF InverseFits
<1>4. CASE Has("tightening", i) /\ Body(i) # "old"
  <2>1. TightInverse(i) = IF Body(i) = "new" THEN <<"chmod_back">> ELSE Refused
    BY <1>4 DEF TightInverse
  <2>2. Body(i) = "new" /\ TightInverse(i) = <<"chmod_back">>
    BY <1>1, <2>1
  <2>3. UndoTakes(i, TightInverse(i), "chmod_back")
    BY <2>2, LoosenChain
  <2>4. FirstFits(i, "chmod_back")
    BY <1>2, <1>4, <2>2 DEF FirstFits, FirstOps, TightFits
  <2>5. QED
    BY <1>1, <2>3, <2>4 DEF InverseFits
<1>5. QED
  BY <1>3, <1>4

LEMMA VenvInverseFits ==
  ASSUME NEW i \in 1..N, HostFits(i), todo = <<>>, plan[i].kind = "venv",
         InverseOf(i) # Refused, InverseOf(i) # Irreversible
  PROVE  InverseFits(i)
<1>1. InverseOf(i) = VenvInverse(i)
  BY DEF InverseOf, Files, Services, Commands
<1>2. i \notin touched => VenvFits(i)
  BY DEF HostFits, Files, Commands
<1>3. Has("created", i)
  BY <1>1 DEF VenvInverse
<1>4. CASE Body(i) = "none"
  <2>1. VenvInverse(i) = <<>>
    BY <1>3, <1>4 DEF VenvInverse
  <2>2. UndoTakes(i, VenvInverse(i), "undone")
    BY <2>1, NothingChain DEF Kinds
  <2>3. i \notin touched => Restored(i)
    <3>1. SUFFICES ASSUME i \notin touched
                   PROVE  Restored(i)
      OBVIOUS
    <3>2. Body(i) = plan[i].orig /\ i \notin stale
      BY <1>2, <1>4, <3>1 DEF VenvFits
    <3>3. QED
      BY <3>2 DEF Restored, UnitIsRead, Services
  <2>4. FirstFits(i, "undone")
    BY <2>3 DEF FirstFits, FirstOps
  <2>5. QED
    BY <1>1, <2>2, <2>4 DEF InverseFits
<1>5. CASE Body(i) # "none"
  <2>1. VenvInverse(i) = <<"unlink">> \/ VenvInverse(i) = Refused
    BY <1>3, <1>5 DEF VenvInverse
  <2>2. UndoTakes(i, VenvInverse(i), "unlink")
    BY <1>1, <2>1, UnlinkDirChain
  <2>3. FirstFits(i, "unlink")
    BY <1>2, <1>3 DEF FirstFits, FirstOps, VenvFits
  <2>4. QED
    BY <1>1, <2>2, <2>3 DEF InverseFits
<1>6. QED
  BY <1>4, <1>5

LEMMA ServiceInverseFits ==
  ASSUME SetupTypes, Evidenced, NEW i \in 1..N, HostFits(i), todo = <<>>, plan[i].kind \in Services,
         InverseOf(i) # Irreversible
  PROVE  InverseFits(i)
<1> DEFINE Off == If(Has("started", i), <<"systemctl_stop">>)
           Unset == If(Has("enabled", i), <<"systemctl_disable">>)
           Set == If(Has("disabled", i), <<"systemctl_enable">>)
           On == If(Has("stopped", i), <<"systemctl_start">>)
<1>1. InverseOf(i) = Off \o Unset \o Set \o On
  <2>1. InverseOf(i) = ServiceInverse(i)
    BY DEF InverseOf, Files, Services
  <2>2. QED
    BY <2>1 DEF ServiceInverse
<1>2. /\ plan[i].kind = "enable" => ~Has("disabled", i) /\ ~Has("stopped", i)
      /\ plan[i].kind = "disable" => ~Has("enabled", i) /\ ~Has("started", i)
  BY DEF Evidenced, Has, Found
<1>3. /\ i \notin touched /\ plan[i].kind = "enable" => EnableFits(i)
      /\ i \notin touched /\ plan[i].kind = "disable" => DisableFits(i)
  BY DEF HostFits, Files, Commands
<1>4. /\ ~InHand(i, {"enabled"}) /\ ~InHand(i, {"started"})
      /\ ~InHand(i, {"disabled"}) /\ ~InHand(i, {"stopped"})
  BY DEF InHand
<1>5. Off \o Unset \o Set \o On # <<>>
  <2>1. InverseOf(i) = ServiceInverse(i) /\ ServiceInverse(i) # Irreversible
    BY DEF InverseOf, Files, Services
  <2>2. QED
    BY <2>1 DEF ServiceInverse
<1>6. CASE plan[i].kind = "enable"
  <2>1. Set = <<>> /\ On = <<>>
    BY <1>2, <1>6 DEF If
  <2>2. CASE Has("started", i) /\ Has("enabled", i)
    <3>1. Off = <<"systemctl_stop">> /\ Unset = <<"systemctl_disable">>
      BY <2>2 DEF If
    <3>2. UndoTakes(i, InverseOf(i), "systemctl_stop")
      BY <1>1, <1>6, <2>1, <2>2, <3>1, BothOffChain
    <3>3. FirstFits(i, "systemctl_stop")
      BY DEF FirstFits, FirstOps
    <3>4. QED
      BY <3>2, <3>3 DEF InverseFits
  <2>3. CASE Has("started", i) /\ ~Has("enabled", i)
    <3>1. Off = <<"systemctl_stop">> /\ Unset = <<>>
      BY <2>3 DEF If
    <3>2. UndoTakes(i, InverseOf(i), "systemctl_stop")
      BY <1>1, <1>6, <2>1, <2>3, <3>1, StopChain
    <3>3. FirstFits(i, "systemctl_stop")
      BY DEF FirstFits, FirstOps
    <3>4. QED
      BY <3>2, <3>3 DEF InverseFits
  <2>4. CASE ~Has("started", i) /\ Has("enabled", i)
    <3>1. Off = <<>> /\ Unset = <<"systemctl_disable">>
      BY <2>4 DEF If
    <3>2. UndoTakes(i, InverseOf(i), "systemctl_disable")
      BY <1>1, <1>6, <2>1, <3>1, OffChain
    <3>3. FirstFits(i, "systemctl_disable")
      BY <1>3, <1>4, <1>6, <2>4 DEF FirstFits, FirstOps, EnableFits
    <3>4. QED
      BY <3>2, <3>3 DEF InverseFits
  <2>5. CASE ~Has("started", i) /\ ~Has("enabled", i)
    <3>1. Off = <<>> /\ Unset = <<>>
      BY <2>5 DEF If
    <3>2. QED
      BY <1>5, <2>1, <3>1
  <2>6. QED
    BY <2>2, <2>3, <2>4, <2>5
<1>7. CASE plan[i].kind = "disable"
  <2>1. Off = <<>> /\ Unset = <<>>
    BY <1>2, <1>7 DEF If
  <2>2. CASE Has("disabled", i) /\ Has("stopped", i)
    <3>1. Set = <<"systemctl_enable">> /\ On = <<"systemctl_start">>
      BY <2>2 DEF If
    <3>2. UndoTakes(i, InverseOf(i), "systemctl_enable")
      BY <1>1, <1>7, <2>1, <2>2, <3>1, BothOnChain
    <3>3. FirstFits(i, "systemctl_enable")
      BY DEF FirstFits, FirstOps
    <3>4. QED
      BY <3>2, <3>3 DEF InverseFits
  <2>3. CASE Has("disabled", i) /\ ~Has("stopped", i)
    <3>1. Set = <<"systemctl_enable">> /\ On = <<>>
      BY <2>3 DEF If
    <3>2. UndoTakes(i, InverseOf(i), "systemctl_enable")
      BY <1>1, <1>7, <2>1, <2>3, <3>1, OnChain
    <3>3. FirstFits(i, "systemctl_enable")
      BY DEF FirstFits, FirstOps
    <3>4. QED
      BY <3>2, <3>3 DEF InverseFits
  <2>4. CASE ~Has("disabled", i) /\ Has("stopped", i)
    <3>1. Set = <<>> /\ On = <<"systemctl_start">>
      BY <2>4 DEF If
    <3>2. UndoTakes(i, InverseOf(i), "systemctl_start")
      BY <1>1, <1>7, <2>1, <3>1, StartChain
    <3>3. FirstFits(i, "systemctl_start")
      BY <1>3, <1>4, <1>7, <2>4 DEF FirstFits, FirstOps, DisableFits
    <3>4. QED
      BY <3>2, <3>3 DEF InverseFits
  <2>5. CASE ~Has("disabled", i) /\ ~Has("stopped", i)
    <3>1. Set = <<>> /\ On = <<>>
      BY <2>5 DEF If
    <3>2. QED
      BY <1>5, <2>1, <3>1
  <2>6. QED
    BY <2>2, <2>3, <2>4, <2>5
<1>8. QED
  BY <1>6, <1>7 DEF Services

LEMMA InversesFit ==
  ASSUME SetupTypes, Evidenced, NEW i \in 1..N, HostFits(i), todo = <<>>,
         InverseOf(i) # Refused, InverseOf(i) # Irreversible
  PROVE  InverseFits(i) /\ plan[i].kind \notin Commands
<1>1. plan[i].kind \in Kinds
  BY KindsAre
<1>2. plan[i].kind \notin Commands
  BY DEF InverseOf, Files, Services, Commands
<1>3. QED
  BY <1>1, <1>2, FileInverseFits, RemoveInverseFits, DirInverseFits, TightInverseFits, VenvInverseFits,
     ServiceInverseFits DEF Kinds

----------------------------------------------------------------------------
(* A step of undo.                                                         *)

LEMMA TempsStay ==
  ASSUME NEW i, TempsFit(i), temps'[i] \subseteq temps[i], ev[i] \subseteq ev'[i], cut \subseteq cut',
         rec'[i].status = rec[i].status, mode' # "apply",
         ~InHand(i, {"staged", "visudo", "commit", "undo_commit"}), ~InHand(i, {"stage", "staged", "visudo", "commit"})'
  PROVE  TempsFit(i)'
<1>1. ~InHand(i, {"visudo", "commit"})'
  BY DEF InHand
<1>2. <<"undo", i>> \notin cut' =>
        \A n \in temps'[i] : rec'[i].status = "started" /\ \E e \in Found("intent", i)' : e.n = n
  BY DEF TempsFit, Found
<1>3. QED
  BY <1>1, <1>2 DEF TempsFit

LEMMA UndoneStep == SetupInv /\ Undone => SetupInv'
<1> SUFFICES ASSUME SetupInv, Undone
             PROVE  SetupInv'
  OBVIOUS
<1>1. PICK o : Op(o) /\ o = "undone"
  BY DEF Undone
<1>2. PICK a : a = At
  OBVIOUS
<1>3. /\ todo # <<>> /\ o = Head(todo) /\ a \in queue /\ a \in 1..N
      /\ SetupTypes /\ Evidenced /\ RunFits /\ TodoFits
      /\ TempsFit(a) /\ HostFits(a)
      /\ Kind = plan[a].kind /\ plan[a].kind \in Kinds
      /\ \A S : InHand(a, S) <=> o \in S
  BY <1>1, <1>2, OpOf
<1>4. mode = "undo" /\ plan[a].kind \notin Commands
  BY <1>1, <1>3, HeadKinds
<1>5. /\ Settle(a, Undid(a, "undone")) /\ queue' = queue \ {a} /\ todo' = <<>>
      /\ UNCHANGED <<mode, seen, made, result, file, svc, stale, temps, backup, ev, plan, touched, cut, moved>>
  BY <1>2 DEF Undone, Undid, Pass, Own, host, history
<1>6. /\ rec' \in [1..N -> Records] /\ rec'[a].status = rec[a].status /\ rec'[a].undone = "undone"
      /\ \A i \in 1..N \ {a} : rec'[i] = rec[i]
  BY <1>3, <1>5, RecordsAre, Settles
<1>7. SetupTypes' /\ Evidenced'
  <2>1. SetupTypes'
    BY <1>3, <1>5, <1>6 DEF SetupTypes, N, Records
  <2>2. QED
    BY <1>3, <1>5, <2>1 DEF Evidenced, N
<1>8. \A i \in 1..N \ {a} : Same(i)
  BY <1>5, <1>6 DEF Same
<1>9. \A S : ~InHand(a, S)'
  BY <1>5 DEF InHand
<1>10. TempsFit(a)'
  <2>1. ~InHand(a, {"staged", "visudo", "commit", "undo_commit"})
    BY <1>1, <1>3
  <2>2. QED
    BY <1>3, <1>4, <1>5, <1>6, <1>9, <2>1, TempsStay
<1>11. HostFits(a)'
  <2>1. PICK q : q = "check"
    OBVIOUS
  <2>2. a \notin touched => CutShort(a) \/ Restored(a)
    <3>1. a \notin touched => UndoFits(a)
      BY <1>3, Zenon DEF HostFits
    <3>2. QED
      BY <1>1, <1>3, <3>1 DEF UndoFits
  <2>3. /\ q \notin {"intent", "removing", "rm_unlink", "created", "chmod", "unlink", "chmod_back", "undone"}
                   \cup Marks \cup Rewrites
        /\ q # "look" /\ q # "tightening" /\ q \notin {"reload", "systemctl_disable", "systemctl_start"}
    BY <2>1 DEF Marks, Rewrites
  <2>4. ~InHand(a, {"created"} \cup Marks) /\ \A e \in ev'[a] \ ev[a] : e.phase \in Marks
    BY <1>1, <1>3, <1>5 DEF Marks
  <2>5. QED
    BY <1>3, <1>4, <1>5, <1>6, <1>9, <2>2, <2>3, <2>4, HostKeeps
<1>12. PromiseFits(a)'
  <2>1. result' # "done"
    BY <1>3, <1>4, <1>5 DEF RunFits
  <2>2. QED
    BY <1>4, <1>5, <1>6, <2>1 DEF PromiseFits
<1>13. QED
  BY <1>2, <1>3, <1>4, <1>5, <1>6, <1>7, <1>8, <1>10, <1>11, <1>12, PassOn

(* What the host shows of a step stays true when its undo begins.          *)
LEMMA HostBegins ==
  ASSUME NEW i \in 1..N, HostFits(i), plan[i].kind \notin Commands, rec[i].undone = "no", \A S : ~InHand(i, S),
         plan' = plan, UNCHANGED <<file, svc, stale, backup, ev, rec, touched, cut>>,
         NEW q, FirstFits(i, q), \A S : InHand(i, S)' <=> q \in S
  PROVE  HostFits(i)'
<1> SUFFICES ASSUME i \notin touched
             PROVE  HostFits(i)'
  BY DEF HostFits
<1>1. /\ q \in FirstOps
      /\ q = "undo_intent" => backup[i] = plan[i].orig
      /\ q = "unlink" => plan[i].orig = "none"
      /\ q = "chmod_back" => plan[i].orig = "old"
      /\ q = "reload" => Body(i) = plan[i].orig
      /\ q = "undone" => CutShort(i) \/ Restored(i)
      /\ plan[i].kind = "enable" /\ q = "systemctl_disable" => CutShort(i) \/ ~svc[i].up
      /\ plan[i].kind = "disable" /\ q = "systemctl_start" => CutShort(i) \/ svc[i].on
  BY DEF FirstFits
<1>2. /\ \A p : Found(p, i)' = Found(p, i) /\ (Has(p, i)' <=> Has(p, i))
      /\ Body(i)' = Body(i) /\ (CutShort(i)' <=> CutShort(i))
  BY DEF Found, Has, Body, CutShort
<1>3. Restored(i)' <=> Restored(i)
  <2>1. UnitIsRead(i)' <=> UnitIsRead(i)
    BY <1>2 DEF UnitIsRead
  <2>2. QED
    BY <1>2, <2>1 DEF Restored
<1>4. /\ ~InHand(i, {"look"})' /\ ~InHand(i, {"intent"})' /\ ~InHand(i, {"removing"})' /\ ~InHand(i, {"rm_unlink"})'
      /\ ~InHand(i, {"tightening"})' /\ ~InHand(i, {"chmod"})'
  BY <1>1 DEF FirstOps
<1>5. FileFits(i) => FileFits(i)'
  BY <1>2, <1>4 DEF FileFits
<1>6. RemoveFits(i) => RemoveFits(i)'
  BY <1>2, <1>4 DEF RemoveFits
<1>7. TightFits(i) => TightFits(i)'
  BY <1>2, <1>4 DEF TightFits
<1>8. /\ ~InHand(i, {"created"}) /\ ~InHand(i, {"enabled"}) /\ ~InHand(i, {"started"})
      /\ ~InHand(i, {"disabled"}) /\ ~InHand(i, {"stopped"})
  OBVIOUS
<1>9. ~InHand(i, {"created"})'
  BY <1>1 DEF FirstOps
<1>10. DirFits(i) => DirFits(i)'
  BY <1>2, <1>8, <1>9 DEF DirFits
<1>11. VenvFits(i) => VenvFits(i)'
  BY <1>2, <1>8, <1>9 DEF VenvFits
<1>12. plan[i].kind = "enable" /\ EnableFits(i) => EnableFits(i)'
  BY <1>1, <1>2, <1>8 DEF EnableFits
<1>13. plan[i].kind = "disable" /\ DisableFits(i) => DisableFits(i)'
  BY <1>1, <1>2, <1>8 DEF DisableFits
<1>14. UndoFits(i)'
  BY <1>1, <1>2, <1>3 DEF UndoFits, Rewrites, FirstOps
<1>15. QED
  BY <1>5, <1>6, <1>7, <1>10, <1>11, <1>12, <1>13, <1>14 DEF HostFits

LEMMA UndoStepStep == SetupInv /\ UndoStep => SetupInv'
<1> SUFFICES ASSUME SetupInv, UndoStep
             PROVE  SetupInv'
  OBVIOUS
<1>1. PICK a : a = At
  OBVIOUS
<1>2. /\ mode = "undo" /\ queue # {} /\ todo = <<>>
      /\ temps' = [temps EXCEPT ![a] = {n \in @ : Note("undo_intent", n, "none") \notin ev[a]}]
      /\ moved' = moved \ {a} /\ UNCHANGED <<file, svc, stale, backup, ev, plan, touched, cut, seen, made>>
      /\ \/ InverseOf(a) = Refused /\ mode' = "idle" /\ queue' = {} /\ todo' = <<>> /\ result' = "undo_stopped" /\ rec' = rec
         \/ Settle(a, Undid(a, "kept")) /\ queue' = queue \ {a} /\ todo' = <<>> /\ UNCHANGED <<mode, result>>
         \/ /\ InverseOf(a) # Refused /\ InverseOf(a) # Irreversible
            /\ todo' = InverseOf(a) \o <<"undone">> /\ UNCHANGED <<rec, mode, queue, result>>
  BY <1>1 DEF UndoStep, Undid, Pass, Finish, Own, history
<1>3. /\ SetupTypes /\ Evidenced /\ RunFits /\ a \in queue /\ a \in 1..N
      /\ TempsFit(a) /\ PromiseFits(a) /\ HostFits(a) /\ plan[a].kind \in Kinds
      /\ \A S : ~InHand(a, S)
  BY <1>1, <1>2, Between
<1>4. /\ rec' \in [1..N -> Records] /\ rec'[a].status = rec[a].status
      /\ rec'[a] = rec[a] \/ rec'[a].undone = "kept"
      /\ \A i \in 1..N \ {a} : rec'[i] = rec[i]
  <2>1. CASE rec' = rec
    BY <1>3, <2>1, RecordsAre
  <2>2. CASE Settle(a, Undid(a, "kept"))
    BY <1>3, <2>2, RecordsAre, Settles
  <2>3. QED
    BY <1>2, <2>1, <2>2
<1>5. /\ temps' \in [1..N -> SUBSET (1..made)] /\ temps'[a] \subseteq temps[a]
      /\ \A i \in 1..N \ {a} : temps'[i] = temps[i]
  <2>1. temps \in [1..N -> SUBSET (1..made)]
    BY <1>3, TypesAre
  <2>2. QED
    BY <1>2, <1>3, <2>1
<1>6. SetupTypes'
  <2>1. queue' \subseteq 1..N /\ mode' \in {"idle", "apply", "undo"} /\ moved' \subseteq 1..N
    BY <1>2, <1>3 DEF SetupTypes
  <2>2. QED
    BY <1>2, <1>3, <1>4, <1>5, <2>1 DEF SetupTypes, N, Records
<1>7. Evidenced'
  BY <1>2, <1>3 DEF Evidenced, N
<1>8. \A i \in 1..N \ {a} : Same(i)
  BY <1>2, <1>4, <1>5 DEF Same
<1>9. result = "none"
  BY <1>2, <1>3 DEF RunFits
<1>10. ASSUME ~InHand(a, {"stage", "staged", "visudo", "commit"})'
       PROVE  TempsFit(a)'
  BY <1>2, <1>3, <1>4, <1>5, <1>10, TempsStay
<1>11. ASSUME todo' = <<>>
       PROVE  HostFits(a)' /\ TempsFit(a)' /\ PromiseFits(a)'
  <2>1. \A S : ~InHand(a, S)'
    BY <1>11 DEF InHand
  <2>2. TempsFit(a)'
    BY <1>10, <2>1
  <2>3. PICK q : q = "check"
    OBVIOUS
  <2>4. /\ q \notin {"intent", "removing", "rm_unlink", "created", "chmod", "unlink", "chmod_back", "undone"}
                   \cup Marks \cup Rewrites
        /\ q # "look" /\ q # "tightening" /\ q \notin {"reload", "systemctl_disable", "systemctl_start"}
    BY <2>3 DEF Marks, Rewrites
  <2>5. \A e \in ev'[a] \ ev[a] : e.phase \in Marks
    BY <1>2
  <2>6. HostFits(a)'
    BY <1>2, <1>3, <1>4, <2>1, <2>4, <2>5, HostKeeps
  <2>7. Holds(a)' <=> Holds(a)
    BY <1>2, <1>3, HoldsRests
  <2>8. PromiseFits(a)'
    <3>1. mode' # "apply" /\ result' # "done" /\ plan' = plan /\ touched' = touched /\ cut' = cut
      BY <1>2, <1>9
    <3>2. rec'[a].undone = "no" => rec'[a] = rec[a]
      BY <1>4
    <3>3. QED
      BY <1>2, <1>3, <2>7, <3>1, <3>2 DEF PromiseFits
  <2>9. QED
    BY <2>2, <2>6, <2>8
<1>12. CASE InverseOf(a) = Refused /\ mode' = "idle" /\ queue' = {} /\ todo' = <<>> /\ result' = "undo_stopped" /\ rec' = rec
  <2>1. HostFits(a)' /\ TempsFit(a)' /\ PromiseFits(a)'
    BY <1>11, <1>12
  <2>2. QED
    BY <1>1, <1>2, <1>6, <1>7, <1>8, <1>12, <2>1, RunEnds
<1>13. CASE Settle(a, Undid(a, "kept")) /\ queue' = queue \ {a} /\ todo' = <<>> /\ UNCHANGED <<mode, result>>
  <2>1. HostFits(a)' /\ TempsFit(a)' /\ PromiseFits(a)'
    BY <1>11, <1>13
  <2>2. QED
    BY <1>1, <1>2, <1>6, <1>7, <1>8, <1>13, <2>1, PassOn
<1>14. CASE /\ InverseOf(a) # Refused /\ InverseOf(a) # Irreversible
            /\ todo' = InverseOf(a) \o <<"undone">> /\ UNCHANGED <<rec, mode, queue, result>>
  <2>1. InverseFits(a) /\ plan[a].kind \notin Commands
    BY <1>2, <1>3, <1>14, InversesFit
  <2>2. PICK q : UndoTakes(a, InverseOf(a), q) /\ FirstFits(a, q)
    BY <2>1 DEF InverseFits
  <2>3. todo' # <<>> /\ Head(todo') = q /\ q \in FirstOps
    BY <1>14, <2>2 DEF UndoTakes, FirstFits
  <2>4. TodoFits' /\ Counted'
    <3>1. At' = a
      BY <1>1, <1>14, AtStays
    <3>2. TodoFits'
      BY <1>2, <1>14, <2>2, <3>1, TakesUpUndo
    <3>3. Counted'
      BY <2>3 DEF Counted, FirstOps
    <3>4. QED
      BY <3>2, <3>3
  <2>5. rec'[a].undone = "no"
    BY <1>2, <1>3, <1>14 DEF RunFits
  <2>6. /\ \A S : InHand(a, S)' <=> q \in S
        /\ TempsFit(a)' /\ HostFits(a)' /\ LookFits(a)' => SetupInv'
    BY <1>1, <1>2, <1>6, <1>7, <1>8, <1>14, <2>1, <2>3, <2>4, <2>5, HandGoes
  <2>7. TempsFit(a)'
    BY <1>10, <2>3, <2>6 DEF FirstOps
  <2>8. LookFits(a)'
    <3>1. Body(a)' = Body(a) /\ file' = file /\ plan' = plan
      BY <1>2 DEF Body
    <3>2. QED
      BY <2>2, <2>3, <2>6, <3>1 DEF LookFits, FirstFits, FirstOps, Rewrites
  <2>9. HostFits(a)'
    BY <1>2, <1>3, <1>14, <2>1, <2>2, <2>5, <2>6, HostBegins
  <2>10. QED
    BY <2>6, <2>7, <2>8, <2>9
<1>15. QED
  BY <1>2, <1>12, <1>13, <1>14

----------------------------------------------------------------------------
(* Failures, crashes, and what other people do.                            *)

LEMMA FailsStep == SetupInv /\ Fails => SetupInv'
<1> SUFFICES ASSUME SetupInv, Fails
             PROVE  SetupInv'
  OBVIOUS
<1>1. PICK o : Op(o) /\ o = Head(todo) /\ o \in Fallible
  BY DEF Fails, Op
<1>2. PICK a : a = At
  OBVIOUS
<1>3. /\ todo # <<>> /\ a \in queue /\ a \in 1..N
      /\ SetupTypes /\ Evidenced /\ RunFits /\ TempsFit(a) /\ HostFits(a)
      /\ rec[a].undone = "no"
      /\ \A S : InHand(a, S) <=> o \in S
  BY <1>1, <1>2, OpOf
<1>4. /\ temps' = [temps EXCEPT ![a] = @ \ {made}]
      /\ cut' = IF mode = "undo" THEN cut \cup {<<mode, a>>} ELSE cut
      /\ UNCHANGED <<file, svc, stale, backup, ev, plan, touched, moved, seen, made>>
      /\ mode' = "idle" /\ queue' = {} /\ todo' = <<>> /\ result' \in {"stopped", "undo_stopped"}
      /\ mode = "apply" => Settle(a, Failed(a))
      /\ mode # "apply" => rec' = rec
  BY <1>2 DEF Fails, Stop, Finish
<1>5. mode \in {"apply", "undo"}
  BY <1>3 DEF SetupTypes, RunFits
<1>6. /\ rec' \in [1..N -> Records] /\ rec'[a].undone = "no"
      /\ mode = "apply" => rec'[a].status = "failed"
      /\ \A i \in 1..N \ {a} : rec'[i] = rec[i]
  <2>1. rec \in [1..N -> Records]
    BY <1>3, RecordsAre
  <2>2. CASE mode = "apply"
    <3>1. rec' = [rec EXCEPT ![a] = [rec[a] EXCEPT !.status = "failed"]]
      BY <1>4, <2>2 DEF Settle, Failed
    <3>2. QED
      BY <1>3, <2>1, <3>1 DEF Records
  <2>3. CASE mode # "apply"
    BY <1>3, <1>4, <2>1, <2>3
  <2>4. QED
    BY <2>2, <2>3
<1>7. /\ temps' \in [1..N -> SUBSET (1..made)] /\ temps'[a] = temps[a] \ {made}
      /\ \A i \in 1..N \ {a} : temps'[i] = temps[i]
  <2>1. temps \in [1..N -> SUBSET (1..made)]
    BY <1>3, TypesAre
  <2>2. QED
    BY <1>3, <1>4, <2>1
<1>8. SetupTypes' /\ Evidenced'
  <2>1. cut' \subseteq {"apply", "undo"} \X (1..N) /\ cut \subseteq cut'
    BY <1>3, <1>4 DEF SetupTypes
  <2>2. SetupTypes'
    BY <1>3, <1>4, <1>6, <1>7, <2>1 DEF SetupTypes, N, Records
  <2>3. QED
    BY <1>3, <1>4, <2>2 DEF Evidenced, N
<1>9. \A i \in 1..N \ {a} : Same(i)
  BY <1>4, <1>6, <1>7 DEF Same
<1>10. HostFits(a)'
  <2>1. Alike(a) /\ Rests(a)'
    BY <1>3, <1>4, <1>6 DEF Alike, Rests
  <2>2. ~InHand(a, {"created", "enabled", "started", "disabled", "stopped"})
    BY <1>1, <1>3 DEF Fallible
  <2>3. QED
    BY <1>3, <2>1, <2>2, HostRests
<1>11. <<"undo", a>> \in cut' \/ mode = "apply"
  BY <1>4, <1>5
<1>12. TempsFit(a)'
  <2>1. \A S : ~InHand(a, S)'
    BY <1>4 DEF InHand
  <2>2. <<"undo", a>> \notin cut' => temps'[a] = {}
    <3>1. SUFFICES ASSUME <<"undo", a>> \notin cut'
                   PROVE  temps'[a] = {}
      OBVIOUS
    <3>2. mode = "apply" /\ <<"undo", a>> \notin cut
      BY <1>4, <1>11, <3>1
    <3>3. \A n \in temps[a] : n = made
      BY <1>2, <1>3, <3>2 DEF TempsFit
    <3>4. QED
      BY <1>7, <3>3
  <2>3. QED
    BY <2>1, <2>2 DEF TempsFit
<1>13. PromiseFits(a)'
  BY <1>4, <1>6, <1>11 DEF PromiseFits
<1>14. QED
  BY <1>2, <1>3, <1>4, <1>8, <1>9, <1>10, <1>12, <1>13, RunEnds

LEMMA FailsLateStep == SetupInv /\ FailsLate => SetupInv'
<1> SUFFICES ASSUME SetupInv, FailsLate
             PROVE  SetupInv'
  OBVIOUS
<1>1. PICK o : Op(o) /\ o = "systemctl_start"
  BY DEF FailsLate
<1>2. PICK a : a = At
  OBVIOUS
<1>3. /\ todo # <<>> /\ o = Head(todo) /\ a \in queue /\ a \in 1..N
      /\ SetupTypes /\ Evidenced /\ RunFits /\ TodoFits /\ Kind = plan[a].kind
      /\ rec[a].undone = "no"
  BY <1>1, <1>2, OpOf
<1>4. mode = "apply" /\ plan[a].kind = "enable"
  <2>1. mode = "apply"
    BY DEF FailsLate
  <2>2. QED
    BY <1>1, <1>3, <2>1, HeadKinds
<1>5. /\ svc' = [svc EXCEPT ![a].up = TRUE] /\ cut' = cut \cup {<<"apply", a>>}
      /\ UNCHANGED <<file, stale, temps, backup, ev, plan, touched, moved, seen, made>>
      /\ mode' = "idle" /\ queue' = {} /\ todo' = <<>> /\ result' = "stopped" /\ Settle(a, Failed(a))
  BY <1>2, <1>4 DEF FailsLate, Stop, Finish
<1>6. /\ rec' \in [1..N -> Records] /\ rec'[a].undone = "no" /\ rec'[a].status = "failed"
      /\ \A i \in 1..N \ {a} : rec'[i] = rec[i]
  <2>1. rec \in [1..N -> Records]
    BY <1>3, RecordsAre
  <2>2. rec' = [rec EXCEPT ![a] = [rec[a] EXCEPT !.status = "failed"]]
    BY <1>5 DEF Settle, Failed
  <2>3. QED
    BY <1>3, <2>1, <2>2 DEF Records
<1>7. svc' \in [1..N -> [on : BOOLEAN, up : BOOLEAN]] /\ \A i \in 1..N \ {a} : svc'[i] = svc[i]
  <2>1. svc \in [1..N -> [on : BOOLEAN, up : BOOLEAN]]
    BY <1>3 DEF SetupTypes
  <2>2. QED
    BY <1>3, <1>5, <2>1
<1>8. SetupTypes' /\ Evidenced'
  <2>1. cut' \subseteq {"apply", "undo"} \X (1..N)
    BY <1>3, <1>5 DEF SetupTypes
  <2>2. SetupTypes'
    BY <1>3, <1>5, <1>6, <1>7, <2>1 DEF SetupTypes, N, Records
  <2>3. QED
    BY <1>3, <1>5, <2>2 DEF Evidenced, N
<1>9. \A i \in 1..N \ {a} : Same(i)
  BY <1>5, <1>6, <1>7 DEF Same
<1>10. \A S : ~InHand(a, S)'
  BY <1>5 DEF InHand
<1>11. HostFits(a)'
  <2>1. CutShort(a)'
    BY <1>4, <1>5 DEF CutShort, Services
  <2>2. EnableFits(a)' /\ UndoFits(a)'
    BY <1>6, <1>10, <2>1 DEF EnableFits, UndoFits
  <2>3. QED
    BY <1>4, <1>5, <1>6, <2>2 DEF HostFits, Files, Commands
<1>12. TempsFit(a)'
  <2>1. <<"undo", a>> \notin cut => temps[a] = {}
    BY <1>1, <1>2, <1>4, InApply
  <2>2. <<"undo", a>> \notin cut' => temps'[a] = {}
    BY <1>5, <2>1
  <2>3. QED
    BY <1>10, <2>2 DEF TempsFit
<1>13. PromiseFits(a)'
  BY <1>5, <1>6 DEF PromiseFits
<1>14. QED
  BY <1>2, <1>5, <1>8, <1>9, <1>11, <1>12, <1>13, RunEnds

LEMMA CrashStep == SetupInv /\ Crash => SetupInv'
<1> SUFFICES ASSUME SetupInv, Crash
             PROVE  SetupInv'
  OBVIOUS
<1>1. PICK a : a = At
  OBVIOUS
<1>2. /\ mode # "idle" /\ cut' = IF queue = {} THEN cut ELSE cut \cup {<<mode, a>>}
      /\ mode' = "idle" /\ queue' = {} /\ todo' = <<>> /\ result' = "none"
      /\ UNCHANGED <<file, svc, stale, temps, backup, rec, ev, plan, touched, moved, seen, made>>
  BY <1>1 DEF Crash, Finish, host, journal
<1>3. SetupTypes /\ Evidenced /\ RunFits /\ (1..N)' = 1..N
  BY <1>2 DEF SetupInv, N
<1>4. queue # {} => a \in 1..N
  BY <1>1, <1>3, AtIsQueued
<1>5. SetupTypes' /\ Evidenced'
  <2>1. mode \in {"apply", "undo"} /\ cut \subseteq {"apply", "undo"} \X (1..N)
    BY <1>2, <1>3 DEF SetupTypes
  <2>2. cut' \subseteq {"apply", "undo"} \X (1..N)
    BY <1>2, <1>4, <2>1
  <2>3. SetupTypes'
    BY <1>2, <1>3, <2>2 DEF SetupTypes
  <2>4. QED
    BY <1>2, <1>3, <2>3 DEF Evidenced
<1>6. \A i \in 1..N : Same(i)
  BY <1>2 DEF Same
<1>7. CASE todo = <<>>
  <2>1. RunFits'
    BY <1>2, <1>3 DEF RunFits
  <2>2. QED
    BY <1>2, <1>5, <1>6, <1>7, <2>1, AllRest
<1>8. CASE todo # <<>>
  <2>1. PICK o : Op(o) /\ o = Head(todo)
    BY <1>8 DEF Op
  <2>2. /\ a \in queue /\ a \in 1..N /\ TodoFits /\ TempsFit(a) /\ HostFits(a) /\ Kind = plan[a].kind
        /\ rec[a].undone = "no" /\ (mode = "apply" => rec[a].status = "started")
        /\ \A S : InHand(a, S) <=> o \in S
    BY <1>1, <2>1, OpOf
  <2>3. <<mode, a>> \in cut' /\ cut \subseteq cut' /\ mode \in {"apply", "undo"}
    BY <1>2, <1>3, <2>2 DEF SetupTypes
  <2>4. HostFits(a)'
    <3>1. Alike(a) /\ Rests(a)'
      BY <1>2, <2>3 DEF Alike, Rests
    <3>2. ASSUME InHand(a, {"created", "enabled", "started", "disabled", "stopped"})
          PROVE  CutShort(a)'
      <4>1. o \in {"created", "enabled", "started", "disabled", "stopped"}
        BY <2>2, <3>2
      <4>2. mode = "apply" /\ plan[a].kind \in {"dir", "venv", "enable", "disable"}
        BY <1>3, <1>8, <2>1, <2>2, <4>1, HeadKinds
      <4>3. QED
        BY <1>2, <2>3, <4>2 DEF CutShort, Services
    <3>3. QED
      BY <2>2, <3>1, <3>2, HostRests
  <2>5. TempsFit(a)'
    <3>1. \A S : ~InHand(a, S)'
      BY <1>2 DEF InHand
    <3>2. SUFFICES ASSUME <<"undo", a>> \notin cut', NEW n \in temps[a]
                   PROVE  rec[a].status = "started" /\ \E e \in Found("intent", a) : e.n = n
      BY <1>2, <3>1 DEF TempsFit, Found
    <3>3. mode = "apply" /\ <<"undo", a>> \notin cut /\ rec[a].status = "started"
      BY <2>2, <2>3, <3>2
    <3>4. o # "undo_commit"
      BY <1>3, <1>8, <2>1, <2>2, <3>3, HeadKinds DEF Rewrites
    <3>5. InHand(a, {"staged", "visudo", "commit"}) /\ n = made
      BY <1>1, <1>8, <2>2, <3>2, <3>3, <3>4 DEF TempsFit
    <3>6. Note("intent", made, seen) \in ev[a]
      BY <2>2, <3>5 DEF TempsFit
    <3>7. QED
      BY <3>3, <3>5, <3>6, NotesAreFound
  <2>6. PromiseFits(a)'
    BY <1>2, <2>2, <2>3 DEF PromiseFits
  <2>7. QED
    BY <1>1, <1>2, <1>5, <1>6, <2>4, <2>5, <2>6, RunEnds
<1>9. QED
  BY <1>7, <1>8

LEMMA EditStep == SetupInv /\ Edit => SetupInv'
<1> SUFFICES ASSUME SetupInv, Edit
             PROVE  SetupInv'
  OBVIOUS
<1>1. /\ SetupTypes /\ Evidenced /\ RunFits /\ TodoFits /\ Counted
      /\ \A i \in 1..N : TempsFit(i) /\ PromiseFits(i) /\ HostFits(i) /\ LookFits(i)
  BY DEF SetupInv
<1>2. /\ UNCHANGED <<temps, backup, rec, ev, mode, queue, todo, seen, made, result, plan, cut>>
      /\ (1..N)' = 1..N
  BY DEF Edit, journal, run, N
<1>3. PICK i \in 1..N :
        /\ EditService(i) \/ \E b \in {"none", "old", "edit"}, id \in {0, file[i].id} : EditFile(i, b, id)
        /\ touched' = touched \cup {i}
        /\ moved' = moved \cup {i}
  BY DEF Edit
<1>4. /\ file \in [1..N -> [body : Bodies, id : 0..made]]
      /\ svc \in [1..N -> [on : BOOLEAN, up : BOOLEAN]]
      /\ stale \subseteq 1..N /\ made \in Nat
  BY <1>1 DEF SetupTypes
<1>5. /\ file' \in [1..N -> [body : Bodies, id : 0..made]]
      /\ svc' \in [1..N -> [on : BOOLEAN, up : BOOLEAN]]
      /\ stale' \subseteq 1..N
      /\ \A j \in 1..N \ {i} : file'[j] = file[j] /\ svc'[j] = svc[j] /\ (j \in stale' <=> j \in stale)
  <2>1. CASE EditService(i)
    <3>1. UNCHANGED <<file, stale>> /\ \E b \in BOOLEAN : svc' = [svc EXCEPT ![i] = [on |-> b, up |-> b]]
      BY <2>1 DEF EditService
    <3>2. QED
      BY <1>4, <3>1
  <2>2. CASE \E b \in {"none", "old", "edit"}, id \in {0, file[i].id} : EditFile(i, b, id)
    <3>1. PICK b \in {"none", "old", "edit"}, id \in {0, file[i].id} : EditFile(i, b, id)
      BY <2>2
    <3>2. /\ file' = [file EXCEPT ![i] = [body |-> b, id |-> id]] /\ svc' = svc
          /\ stale' = IF plan[i].kind \in {"unit", "remove"} THEN stale \cup {i} ELSE stale
      BY <3>1 DEF EditFile
    <3>3. b \in Bodies /\ id \in 0..made
      BY <1>4 DEF Bodies
    <3>4. QED
      BY <1>4, <3>2, <3>3
  <2>3. QED
    BY <1>3, <2>1, <2>2
<1>6. SetupTypes'
  <2>1. touched' \subseteq 1..N /\ moved' \subseteq 1..N
    BY <1>1, <1>3 DEF SetupTypes
  <2>2. QED
    BY <1>1, <1>2, <1>5, <2>1 DEF SetupTypes
<1>7. Evidenced' /\ Counted'
  BY <1>1, <1>2 DEF Evidenced, Counted
<1>8. At' = At /\ TodoFits'
  BY <1>1, <1>2, AtStays, TodoStays
<1>9. RunFits'
  BY <1>1, <1>2, <1>8 DEF RunFits
<1>10. ASSUME NEW j \in 1..N \ {i}
       PROVE  TempsFit(j)' /\ PromiseFits(j)' /\ HostFits(j)' /\ LookFits(j)'
  <2>1. (j \in touched' <=> j \in touched) /\ (j \in moved' <=> j \in moved)
    BY <1>3
  <2>2. Same(j)
    BY <1>2, <1>5, <2>1 DEF Same
  <2>3. QED
    BY <1>1, <1>2, <2>1, <2>2, StepStays
<1>11. TempsFit(i)'
  <2>1. \A S : InHand(i, S)' <=> InHand(i, S)
    BY <1>2, <1>8 DEF InHand
  <2>2. TempsFit(i)
    BY <1>1
  <2>3. QED
    BY <1>2, <1>8, <2>1, <2>2 DEF TempsFit, Found
<1>12. PromiseFits(i)' /\ HostFits(i)' /\ LookFits(i)'
  <2>1. i \in touched' /\ i \in moved'
    BY <1>3
  <2>2. QED
    BY <2>1 DEF PromiseFits, HostFits, LookFits
<1>13. QED
  BY <1>2, <1>6, <1>7, <1>8, <1>9, <1>10, <1>11, <1>12 DEF SetupInv

----------------------------------------------------------------------------
(* SetupInv holds initially and every step keeps it.                       *)

LEMMA SetupInit == Init => SetupInv
<1> SUFFICES ASSUME Init
             PROVE  SetupInv
  OBVIOUS
<1>1. /\ plan \in Plans /\ ev = [i \in 1..N |-> {}] /\ rec = [i \in 1..N |-> Blank] /\ temps = [i \in 1..N |-> {}]
      /\ file = [i \in 1..N |-> [body |-> plan[i].orig, id |-> 0]]
      /\ svc = [i \in 1..N |-> IF plan[i].kind = "disable" THEN [on |-> TRUE, up |-> TRUE]
                                                           ELSE [on |-> FALSE, up |-> FALSE]]
      /\ stale \subseteq {i \in 1..N : plan[i].kind = "unit" /\ plan[i].orig # "none"}
      /\ backup = [i \in 1..N |-> "none"] /\ seen = "none" /\ made = 0
      /\ mode = "idle" /\ queue = {} /\ todo = <<>> /\ result = "none"
      /\ moved = {} /\ touched = {} /\ cut = {}
  BY DEF Init
<1>2. plan \in Seq(Steps) /\ \A i \in 1..N : plan[i].kind \in Kinds /\ plan[i].orig \in {"none", "old", "new"}
  <2>1. plan \in Seq(Steps) /\ \A i \in 1..N : plan[i] \in Steps
    BY <1>1, SetupAssumption DEF N
  <2>2. QED
    BY <2>1 DEF Steps
<1>3. SetupTypes
  <2>1. file \in [1..N -> [body : Bodies, id : 0..made]]
    BY <1>1, <1>2 DEF Bodies
  <2>2. rec \in [1..N -> Records]
    BY <1>1 DEF Blank, Records
  <2>3. svc \in [1..N -> [on : BOOLEAN, up : BOOLEAN]]
    BY <1>1
  <2>4. temps \in [1..N -> SUBSET (1..made)] /\ ev \in [1..N -> SUBSET Notes] /\ backup \in [1..N -> Bodies]
    BY <1>1 DEF Bodies
  <2>5. QED
    BY <1>1, <2>1, <2>2, <2>3, <2>4 DEF SetupTypes, Bodies, Records
<1>4. Evidenced /\ RunFits /\ TodoFits /\ Counted
  BY <1>1 DEF Evidenced, RunFits, TodoFits, Counted
<1>5. SUFFICES ASSUME NEW i \in 1..N
               PROVE  TempsFit(i) /\ PromiseFits(i) /\ HostFits(i) /\ LookFits(i)
  BY <1>3, <1>4 DEF SetupInv
<1>6. /\ \A S : ~InHand(i, S)
      /\ \A p : Found(p, i) = {} /\ ~Has(p, i)
      /\ Body(i) = plan[i].orig /\ rec[i].status = "none" /\ rec[i].undone = "no" /\ temps[i] = {}
      /\ i \in stale => plan[i].kind = "unit"
      /\ svc[i] = IF plan[i].kind = "disable" THEN [on |-> TRUE, up |-> TRUE] ELSE [on |-> FALSE, up |-> FALSE]
  <2>1. \A S : ~InHand(i, S)
    BY <1>1 DEF InHand
  <2>2. \A p : Found(p, i) = {} /\ ~Has(p, i)
    BY <1>1 DEF Found, Has
  <2>3. Body(i) = plan[i].orig /\ rec[i].status = "none" /\ rec[i].undone = "no" /\ temps[i] = {}
    BY <1>1 DEF Body, Blank
  <2>4. /\ i \in stale => plan[i].kind = "unit"
        /\ svc[i] = IF plan[i].kind = "disable" THEN [on |-> TRUE, up |-> TRUE] ELSE [on |-> FALSE, up |-> FALSE]
    BY <1>1
  <2>5. QED
    BY <2>1, <2>2, <2>3, <2>4
<1>7. TempsFit(i) /\ PromiseFits(i) /\ LookFits(i) /\ UndoFits(i)
  BY <1>1, <1>6 DEF TempsFit, PromiseFits, LookFits, UndoFits
<1>8. plan[i].kind \in Files => FileFits(i)
  BY <1>2, <1>6 DEF FileFits
<1>9. plan[i].kind = "remove" => RemoveFits(i)
  BY <1>6 DEF RemoveFits
<1>10. plan[i].kind = "dir" => DirFits(i)
  BY <1>6 DEF DirFits
<1>11. plan[i].kind = "tight" => TightFits(i)
  BY <1>6 DEF TightFits
<1>12. plan[i].kind = "venv" => VenvFits(i)
  BY <1>6 DEF VenvFits
<1>13. plan[i].kind = "enable" => EnableFits(i)
  BY <1>6 DEF EnableFits
<1>14. plan[i].kind = "disable" => DisableFits(i)
  BY <1>6 DEF DisableFits
<1>15. HostFits(i)
  BY <1>6, <1>7, <1>8, <1>9, <1>10, <1>11, <1>12, <1>13, <1>14 DEF HostFits
<1>16. QED
  BY <1>7, <1>15

LEMMA SetupStep == SetupInv /\ [Next]_vars => SetupInv'
<1> SUFFICES ASSUME SetupInv, [Next]_vars
             PROVE  SetupInv'
  OBVIOUS
<1>1. CASE StartApply \/ StartUndo
  BY <1>1, StartStepOfRun
<1>2. CASE Skip \/ Done \/ UndoDone
  BY <1>2, SkipStep, DoneStep
<1>3. CASE Reconcile \/ StartStep \/ Check \/ Verify
  BY <1>3, ReconcileStep, StartStepStep, CheckStep, VerifyStep
<1>4. CASE Operation
  <2>1. CASE Look \/ Write \/ Stage \/ MakeDir
    BY <2>1, LookStep, WriteStep, StageStep, MakeDirStep
  <2>2. CASE Commit \/ Unlink \/ Change \/ LookOnly
    BY <2>2, CommitStep, UnlinkStep, ChangeStep, LookOnlyStep
  <2>3. CASE Digest \/ Reload \/ AskService \/ Flags \/ Systemctl
    BY <2>3, DigestStep, ReloadStep, AskStep, FlagsStep, SystemctlStep
  <2>4. QED
    BY <1>4, <2>1, <2>2, <2>3 DEF Operation
<1>5. CASE UndoStep \/ Undone
  BY <1>5, UndoStepStep, UndoneStep
<1>6. CASE Fails \/ FailsLate \/ Crash \/ Edit
  BY <1>6, FailsStep, FailsLateStep, CrashStep, EditStep
<1>7. CASE UNCHANGED vars
  BY <1>7, StutterStep
<1>8. QED
  BY <1>1, <1>2, <1>3, <1>4, <1>5, <1>6, <1>7 DEF Next, Works

----------------------------------------------------------------------------
(* What follows of it.                                                     *)

(* At every moment of every sequence of runs of apply and undo, with       *)
(* crashes, failures and other people's edits between any two operations,  *)
(* the host fits the journal.                                              *)
THEOREM SetupInvariant == Spec => []SetupInv
BY SetupInit, SetupStep, PTL DEF Spec

(* The journal, the evidence and the host keep their types, and a setup    *)
(* that is not running has nothing in hand.                                *)
THEOREM SetupTypesHold == Spec => []TypeOK
<1>1. SetupInv => TypeOK
  <2>1. SUFFICES ASSUME SetupTypes, RunFits
                 PROVE  TypeOK
    BY DEF SetupInv
  <2>2. \A i \in 1..N : temps[i] \subseteq 1..made /\ backup[i] \in Bodies
    BY <2>1, TypesAre
  <2>3. QED
    BY <2>1, <2>2 DEF TypeOK, SetupTypes, RunFits
<1>2. QED
  BY <1>1, SetupInvariant, PTL

(* An apply that ends with "done" has left no staged file behind, whatever *)
(* crashed before it (apply_plan, _AtomicFile.reconcile).                  *)
THEOREM NothingIsLeftLying == Spec => []NoLitter
<1>1. SetupInv => NoLitter
  <2>1. SUFFICES ASSUME SetupInv, result = "done", NEW i \in 1..N, <<"undo", i>> \notin cut
                 PROVE  temps[i] = {}
    BY DEF NoLitter
  <2>2. TempsFit(i) /\ rec[i].status = "ok" /\ todo = <<>>
    BY <2>1 DEF SetupInv, RunFits
  <2>3. QED
    BY <2>1, <2>2 DEF TempsFit, InHand
<1>2. QED
  BY <1>1, SetupInvariant, PTL

(* An apply that ends with "done" has kept the promise of every step, the  *)
(* ones it skipped, reconciled or found satisfied as well (apply_plan).    *)
THEOREM DoneIsApplied == Spec => []DoneMeansApplied
<1>1. SetupInv => DoneMeansApplied
  BY DEF SetupInv, PromiseFits, Holds, DoneMeansApplied
<1>2. QED
  BY <1>1, SetupInvariant, PTL

(* What undo says it undid is as it was before setup, however often apply  *)
(* and undo were run, interrupted or failed in between (undo_plan).        *)
THEOREM UndoIsComplete == Spec => []UndoRestores
<1>1. SetupInv => UndoRestores
  <2>1. SUFFICES ASSUME SetupInv, NEW i \in 1..N \ touched, rec[i].undone = "undone", ~CutShort(i)
                 PROVE  Restored(i)
    BY DEF UndoRestores
  <2>2. HostFits(i)
    BY <2>1 DEF SetupInv
  <2>3. UndoFits(i)
    BY <2>1, <2>2, Zenon DEF HostFits
  <2>4. QED
    BY <2>1, <2>3 DEF UndoFits
<1>2. QED
  BY <1>1, SetupInvariant, PTL

(* The bounds count down.                                                  *)
Bounds == left \in [{"runs", "crashes", "faults", "edits"} -> Nat]

LEMMA BoundsHold == Spec => []Bounds
<1>1. Init => Bounds
  BY SetupAssumption DEF Init, Bounds
<1>2. ASSUME Bounds, NEW what \in {"runs", "crashes", "faults", "edits"}, Spend(what)
      PROVE  Bounds'
  <2>1. left[what] - 1 \in Nat /\ left' = [left EXCEPT ![what] = @ - 1]
    BY <1>2 DEF Bounds, Spend
  <2>2. QED
    BY <1>2, <2>1 DEF Bounds
<1>3. Bounds /\ [Next]_vars => Bounds'
  <2>1. SUFFICES ASSUME Bounds, [Next]_vars
                 PROVE  Bounds'
    OBVIOUS
  <2>2. (\E what \in {"runs", "crashes", "faults", "edits"} : Spend(what)) \/ left' = left
    <3>1. CASE StartApply \/ StartUndo
      BY <3>1 DEF StartApply, StartUndo
    <3>2. CASE Fails \/ FailsLate
      BY <3>2 DEF Fails, FailsLate
    <3>3. CASE Crash \/ Edit
      BY <3>3 DEF Crash, Edit
    <3>4. CASE UNCHANGED vars
      BY <3>4 DEF vars
    <3>5. CASE Works
      <4>1. CASE Operation
        BY <4>1 DEF Operation, Own, Look, Write, Stage, MakeDir, Commit, Unlink, Change, Become, LookOnly, Digest,
                    Reload, AskService, Ask, Flags, Systemctl
      <4>2. CASE Skip \/ Reconcile \/ StartStep \/ Check \/ Verify \/ Done \/ UndoStep \/ Undone \/ UndoDone
        BY <4>2 DEF Own, Skip, Reconcile, StartStep, Check, Verify, Done, UndoStep, Undone, UndoDone
      <4>3. QED
        BY <3>5, <4>1, <4>2 DEF Works
    <3>6. QED
      BY <2>1, <3>1, <3>2, <3>3, <3>4, <3>5 DEF Next
  <2>3. QED
    BY <1>2, <2>1, <2>2 DEF Bounds
<1>4. QED
  BY <1>1, <1>3, PTL DEF Spec

(* A step that changes the object of a step of the plan, and is not an     *)
(* edit, is an operation on the step in hand.                              *)
LEMMA WhatChangesFiles ==
  ASSUME SetupInv, Bounds, [Next]_vars, NEW i \in 1..N, file'[i] # file[i], left'.edits = left.edits
  PROVE  /\ i = At
         /\ MakeDir \/ Commit \/ Unlink \/ Change
<1>1. file' # file
  OBVIOUS
<1>2. ~Edit
  <2>1. SUFFICES ASSUME Edit
                 PROVE  FALSE
    OBVIOUS
  <2>2. left' = [left EXCEPT !["edits"] = @ - 1] /\ left["edits"] \in Nat
    BY <2>1 DEF Edit, Spend, Bounds
  <2>3. left'["edits"] = left["edits"] - 1
    BY <2>2 DEF Bounds
  <2>4. QED
    BY <2>2, <2>3
<1>3. MakeDir \/ Commit \/ Unlink \/ Change
  <2>1. ~StartApply /\ ~StartUndo /\ ~(UNCHANGED vars) /\ ~Crash
    BY <1>1 DEF StartApply, StartUndo, vars, host, Crash
  <2>2. ~Fails /\ ~FailsLate
    BY <1>1 DEF Fails, FailsLate
  <2>3. ~Skip /\ ~Reconcile /\ ~StartStep /\ ~Check /\ ~Verify /\ ~Done /\ ~UndoStep /\ ~Undone /\ ~UndoDone
    BY <1>1 DEF Skip, Reconcile, StartStep, Check, Verify, Done, UndoStep, Undone, UndoDone, host
  <2>4. ~Look /\ ~Write /\ ~Stage /\ ~LookOnly /\ ~Digest /\ ~Reload /\ ~AskService /\ ~Flags /\ ~Systemctl
    BY <1>1 DEF Look, Write, Stage, LookOnly, Digest, Reload, AskService, Ask, Flags, Systemctl, host
  <2>5. QED
    BY <1>2, <2>1, <2>2, <2>3, <2>4 DEF Next, Works, Operation
<1>4. i = At
  <2>1. SUFFICES ASSUME i # At
                 PROVE  FALSE
    OBVIOUS
  <2>2. file \in [1..N -> [body : Bodies, id : 0..made]]
    BY DEF SetupInv, SetupTypes
  <2>3. \A b : \/ file' = [file EXCEPT ![At] = b] => file'[i] = file[i]
               \/ file' = [file EXCEPT ![At].body = b] => file'[i] = file[i]
    BY <2>1, <2>2
  <2>4. CASE MakeDir
    BY <2>1, <2>2, <2>4 DEF MakeDir
  <2>5. CASE Commit
    BY <2>1, <2>2, <2>5 DEF Commit, Rename
  <2>6. CASE Unlink
    BY <2>1, <2>2, <2>6 DEF Unlink
  <2>7. CASE Change
    BY <2>1, <2>2, <2>7 DEF Change, Become
  <2>8. QED
    BY <1>3, <2>4, <2>5, <2>6, <2>7
<1>5. QED
  BY <1>3, <1>4

(* What somebody else put in place of a step's object is not written over  *)
(* and not removed, by apply or by undo, unless it was put there after the *)
(* last look; and undo touches only what setup made (_AtomicFile.write,    *)
(* _cas_violation, _undo_path, _remove_with_backup, DirEnsure.inverse).    *)
THEOREM EditsAreKept == Spec => EditsSurvive
<1>1. ASSUME SetupInv, Bounds, [Next]_vars, NEW i \in 1..N,
             file'[i] # file[i], left'.edits = left.edits, i \notin moved, plan[i].kind \notin Commands \cup {"venv"}
      PROVE  /\ Body(i) # "edit"
             /\ mode = "undo" /\ plan[i].kind # "tight" /\ Body(i) # "none" => file[i].id > 0
  <2>1. i = At /\ (MakeDir \/ Commit \/ Unlink \/ Change)
    BY <1>1, WhatChangesFiles
  <2>2. PICK o : Op(o) /\ o \in {"mkdir", "build", "commit", "undo_commit", "rm_unlink", "unlink",
                                 "chmod", "deps", "grant", "copy", "chmod_back"}
    BY <2>1 DEF MakeDir, Commit, Unlink, Change, Become
  <2>3. /\ todo # <<>> /\ o = Head(todo) /\ SetupTypes /\ RunFits /\ TodoFits /\ LookFits(i)
        /\ Kind = plan[i].kind /\ \A S : InHand(i, S) <=> o \in S
    BY <1>1, <2>1, <2>2, OpOf
  <2>4. CASE o \in {"mkdir", "build"}
    <3>1. mode # "undo"
      BY <2>3, <2>4, HeadKinds
    <3>2. MakeDir
      BY <2>1, <2>3, <2>4 DEF Op, MakeDir, Commit, Unlink, Change, Become
    <3>3. Body(i) = "none"
      BY <1>1, <2>1, <3>2 DEF MakeDir
    <3>4. QED
      BY <3>1, <3>3
  <2>5. CASE o \in {"commit", "rm_unlink", "chmod"}
    <3>1. mode # "undo"
      BY <2>3, <2>5, HeadKinds
    <3>2. QED
      BY <1>1, <2>3, <2>5, <3>1 DEF LookFits
  <2>6. CASE o \in {"undo_commit", "unlink"}
    BY <1>1, <2>3, <2>6 DEF LookFits, Rewrites
  <2>7. CASE o = "chmod_back"
    <3>1. plan[i].kind = "tight"
      BY <2>3, <2>7, HeadKinds
    <3>2. QED
      BY <1>1, <2>3, <2>7, <3>1 DEF LookFits
  <2>8. CASE o \in {"deps", "grant", "copy"}
    <3>1. plan[i].kind \in Commands \cup {"venv"}
      BY <2>3, <2>8, HeadKinds
    <3>2. QED
      BY <1>1, <3>1
  <2>9. QED
    BY <2>2, <2>4, <2>5, <2>6, <2>7, <2>8
<1>2. SetupInv /\ Bounds /\ [Next]_vars =>
        [\A i \in 1..N :
           (file'[i] # file[i] /\ left'.edits = left.edits /\ i \notin moved /\ plan[i].kind \notin Commands \cup {"venv"})
             => /\ Body(i) # "edit"
                /\ mode = "undo" /\ plan[i].kind # "tight" /\ Body(i) # "none" => file[i].id > 0]_vars
  BY <1>1
<1>3. QED
  BY <1>2, SetupInvariant, BoundsHold, PTL DEF Spec, EditsSurvive
=============================================================================
