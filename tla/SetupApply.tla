----------------------------- MODULE SetupApply -----------------------------
(***************************************************************************)
(* The setup wizard's engine: apply.py runs an approved plan step by step, *)
(* undo.py puts it back, handlers.py says what each kind of step does to   *)
(* the host, journal.py is the only thing that survives a crash.           *)
(*                                                                         *)
(* A step has one object of its own on the host: a file, a directory, an   *)
(* environment or a service.  Contents are "none", "old" (what planning    *)
(* saw), "new" (what the plan wants), "half" (an environment without its   *)
(* packages) and "edit" (anything else).  An identity is a device and      *)
(* inode: 0 for a file setup did not make, otherwise the number of the     *)
(* staged file, directory or environment setup made.                       *)
(*                                                                         *)
(* act and inverse are sequences of operations, each a step of its own, so *)
(* that a crash, a failure or somebody else's edit can fall between any    *)
(* two.  apply and undo exclude each other by an exclusive flock that dies *)
(* with the process, so there is one run at a time.                        *)
(***************************************************************************)
EXTENDS Naturals, Sequences

CONSTANTS
  Plans,       \* plans a person approves: sequences of Steps
  MaxRuns,     \* bound: calls of apply and undo
  MaxCrashes,  \* bound: crashes of setup
  MaxFaults,   \* bound: host operations and commands that fail
  MaxEdits     \* bound: things other people do to the host

(* Files are the kinds an _AtomicFile writes: FileWrite, DashboardInit,    *)
(* SudoersInstall, ServiceInstall, and the boot hooks, with and without    *)
(* the block, one hook file to a step.                                     *)
Files == {"file", "env", "sudoers", "unit", "hook", "unhook"}
Services == {"enable", "disable"}
Commands == {"access", "probe", "snapshot"}
Kinds == Files \cup Services \cup Commands \cup {"dir", "tight", "remove", "venv"}
Bodies == {"none", "old", "new", "half", "edit"}

(* orig: what planning saw.  probed: discover looked at the path, so the   *)
(* step carries expect_absent or expected_sha256.  keep: if_exists.  unit: *)
(* the step of the plan that installs the service's unit, 0 for none.      *)
Steps == [kind : Kinds, orig : {"none", "old", "new"}, probed : BOOLEAN, keep : BOOLEAN, unit : Nat]

ASSUME SetupAssumption ==
  /\ Plans \subseteq Seq(Steps) \ {<<>>}
  /\ {MaxRuns, MaxCrashes, MaxFaults, MaxEdits} \subseteq Nat

VARIABLES
  plan,
  file,     \* each step's object: content and identity
  svc,      \* each step's service: [on, up]
  stale,    \* steps whose unit systemd has not read since it changed
  temps,    \* staged files lying about, by step
  backup,   \* the evidence directory, by step
  rec,      \* StepRecord by step: status, satisfied, undone ("no", "undone", "kept")
  ev,       \* evidence by step: phase, number of the staged object, content before
  began,    \* apply_started is in the journal
  mode,     \* "idle", "apply" or "undo"
  queue,    \* steps still to look at in this run: At is next
  todo,     \* operations left in the step At
  seen,     \* its content when the operation sequence last looked
  made,     \* number of the last object setup made
  result,   \* how the last run ended
  moved,    \* history: objects somebody touched since the run last looked
  touched,  \* history: objects somebody touched at all
  cut,      \* history: <<mode, step>> where a crash or a failure interrupted
  left      \* what the bounds leave: runs, crashes, faults, edits

host == <<file, svc, stale, temps, backup>>
journal == <<rec, ev, began>>
run == <<mode, queue, todo, seen, made, result>>
history == <<plan, touched, cut>>
vars == <<host, journal, run, history, moved, left>>

N == Len(plan)

(* The next step of a run: apply goes through the plan in its order, undo  *)
(* newest first.                                                           *)
At == CHOOSE i \in queue : \A j \in queue : IF mode = "undo" THEN j <= i ELSE i <= j
Kind == plan[At].kind
Blank == [status |-> "none", satisfied |-> FALSE, undone |-> "no"]
Note(p, n, b) == [phase |-> p, n |-> n, was |-> b]
Found(p, i) == {e \in ev[i] : e.phase = p}
Has(p, i) == Found(p, i) # {}
Latest(p, i) == CHOOSE e \in Found(p, i) : \A f \in Found(p, i) : f.n <= e.n
Spend(what) == left[what] > 0 /\ left' = [left EXCEPT ![what] = @ - 1]

Init ==
  /\ plan \in Plans
  /\ file = [i \in 1..N |-> [body |-> plan[i].orig, id |-> 0]]
  /\ svc = [i \in 1..N |-> IF plan[i].kind = "disable" THEN [on |-> TRUE, up |-> TRUE]
                                                       ELSE [on |-> FALSE, up |-> FALSE]]
  /\ stale \in SUBSET {i \in 1..N : plan[i].kind = "unit" /\ plan[i].orig # "none"}
  /\ temps = [i \in 1..N |-> {}]
  /\ backup = [i \in 1..N |-> "none"]
  /\ rec = [i \in 1..N |-> Blank]
  /\ ev = [i \in 1..N |-> {}]
  /\ began = FALSE
  /\ mode = "idle"
  /\ queue = {}
  /\ todo = <<>>
  /\ seen = "none"
  /\ made = 0
  /\ result = "none"
  /\ moved = {}
  /\ touched = {}
  /\ cut = {}
  /\ left = [runs |-> MaxRuns, crashes |-> MaxCrashes, faults |-> MaxFaults, edits |-> MaxEdits]

----------------------------------------------------------------------------
(* What a handler reads.                                                   *)

Body(i) == file[i].body

(* _AtomicFile._cas_violation, for content b.                              *)
CasViolation(i, b) ==
  \/ b = "none" /\ plan[i].probed /\ plan[i].orig # "none"
  \/ b \notin {"none", "new"} /\ ~(plan[i].probed /\ b = plan[i].orig)

(* The checks: a step is refused, satisfied or may proceed.                *)
FileSatisfied(i) == Body(i) = "new" \/ (Body(i) # "none" /\ plan[i].keep)
EnvSatisfied(i) == Body(i) = "new"
UnitSatisfied(i) == FileSatisfied(i) /\ i \notin stale
UnhookSatisfied(i) == Body(i) \in {"none", "new"}
RemoveSatisfied(i) == Body(i) = "none"
DirSatisfied(i) == IF plan[i].kind = "dir" THEN Body(i) # "none" ELSE Body(i) # "old"
VenvSatisfied(i) == Body(i) = "new"
EnableSatisfied(i) == svc[i].on /\ svc[i].up
DisableSatisfied(i) == ~svc[i].on /\ ~svc[i].up

Satisfied(i) ==
  CASE plan[i].kind \in {"file", "sudoers", "hook"} -> FileSatisfied(i)
    [] plan[i].kind = "env" -> EnvSatisfied(i)
    [] plan[i].kind = "unit" -> UnitSatisfied(i)
    [] plan[i].kind = "unhook" -> UnhookSatisfied(i)
    [] plan[i].kind = "remove" -> RemoveSatisfied(i)
    [] plan[i].kind \in {"dir", "tight"} -> DirSatisfied(i)
    [] plan[i].kind = "venv" -> VenvSatisfied(i)
    [] plan[i].kind = "enable" -> EnableSatisfied(i)
    [] plan[i].kind = "disable" -> DisableSatisfied(i)
    [] plan[i].kind \in Commands -> FALSE

FileRefuses(i) == ~FileSatisfied(i) /\ CasViolation(i, Body(i))
UnhookRefuses(i) == ~UnhookSatisfied(i) /\ Body(i) # plan[i].orig
RemoveRefuses(i) == Body(i) \notin {"none", "old"}
UnitMissing(i) == plan[i].unit # 0 /\ Body(plan[i].unit) = "none"

Refuses(i) ==
  CASE plan[i].kind = "unhook" -> UnhookRefuses(i)
    [] plan[i].kind \in Files \ {"unhook"} -> FileRefuses(i)
    [] plan[i].kind = "remove" -> RemoveRefuses(i)
    [] plan[i].kind = "enable" -> UnitMissing(i)
    [] OTHER -> FALSE

(* verify: what the host shows of a step.  A file that is neither what was *)
(* written nor what was there before is nobody's to judge.                 *)
Before(i) ==
  IF Has("intent", i) THEN Latest("intent", i).was
  ELSE IF plan[i].probed THEN plan[i].orig ELSE "none"

Shows(applied, unclear) == IF applied THEN "applied" ELSE IF unclear THEN "unknown" ELSE "not_applied"

FileEffect(i) == Shows(Body(i) = "new", Body(i) \notin {"none", Before(i)})
EnvEffect(i) == Shows(Body(i) = "new", FALSE)
UnitEffect(i) == Shows(Body(i) = "new" /\ i \notin stale, Body(i) \notin {"none", "new", Before(i)})
UnhookEffect(i) == Shows(UnhookSatisfied(i), FALSE)
RemoveEffect(i) == Shows(Body(i) = "none", Body(i) # "old")
AccessEffect(i) == Shows(Body(i) = "new", FALSE)
SnapshotEffect(i) == Shows(Has("snapshot", i), FALSE)

Effect(i) ==
  CASE plan[i].kind \in {"file", "sudoers", "hook"} -> FileEffect(i)
    [] plan[i].kind = "env" -> EnvEffect(i)
    [] plan[i].kind = "unit" -> UnitEffect(i)
    [] plan[i].kind = "unhook" -> UnhookEffect(i)
    [] plan[i].kind = "remove" -> RemoveEffect(i)
    [] plan[i].kind = "access" -> AccessEffect(i)
    [] plan[i].kind = "snapshot" -> SnapshotEffect(i)
    [] plan[i].kind = "probe" -> "not_applied"
    [] OTHER -> Shows(Satisfied(i), FALSE)

(* act, as the operations it is made of.                                   *)
FileProgram == <<"look", "intent", "stage", "staged", "commit", "committed">>
SudoersProgram == <<"look", "intent", "stage", "staged", "visudo", "commit", "committed">>
UnitProgram(i) == (IF Body(i) = "new" THEN <<>> ELSE FileProgram) \o <<"reload">>
RemoveProgram == <<"rm_look", "removing", "rm_unlink", "removed", "reload">>
DirProgram(i) == IF plan[i].kind = "dir" THEN <<"creating", "mkdir", "created">> ELSE <<"tightening", "chmod">>
VenvProgram(i) == (IF Body(i) = "none" THEN <<"creating", "build", "created">> ELSE <<>>) \o <<"deps", "digest">>
EnableProgram == <<"if_enable", "if_start">>
DisableProgram == <<"flags", "if_stop", "if_disable">>
AccessProgram == <<"running", "grant">>
ProbeProgram == <<"scan">>
SnapshotProgram == <<"copy", "snapshot">>

Program(i) ==
  CASE plan[i].kind \in {"file", "env", "hook", "unhook"} -> FileProgram
    [] plan[i].kind = "sudoers" -> SudoersProgram
    [] plan[i].kind = "unit" -> UnitProgram(i)
    [] plan[i].kind = "remove" -> RemoveProgram
    [] plan[i].kind \in {"dir", "tight"} -> DirProgram(i)
    [] plan[i].kind = "venv" -> VenvProgram(i)
    [] plan[i].kind = "enable" -> EnableProgram
    [] plan[i].kind = "disable" -> DisableProgram
    [] plan[i].kind = "access" -> AccessProgram
    [] plan[i].kind = "probe" -> ProbeProgram
    [] plan[i].kind = "snapshot" -> SnapshotProgram

----------------------------------------------------------------------------
(* apply.                                                                  *)

Finish(how) ==
  /\ mode' = "idle"
  /\ queue' = {}
  /\ todo' = <<>>
  /\ result' = how
  /\ UNCHANGED <<seen, made>>

Settle(i, r) == rec' = [rec EXCEPT ![i] = r]
Ok(i, satisfied) == [rec[i] EXCEPT !.status = "ok", !.satisfied = satisfied]
Failed(i) == [rec[i] EXCEPT !.status = "failed"]

(* A step of a run: bounds and history stay.                               *)
Own == UNCHANGED <<history, left>>

(* The plan rebuilt from fresh discovery has the approved plan's id only   *)
(* if every path discover looks at still looks as it did.                  *)
Drifted == \E i \in 1..N : plan[i].probed /\ Body(i) # plan[i].orig

StartApply ==
  /\ mode = "idle" /\ Spend("runs")
  /\ IF Drifted THEN Finish("refused") /\ UNCHANGED began
     ELSE /\ mode' = "apply" /\ queue' = 1..N /\ began' = TRUE
          /\ result' = "none" /\ UNCHANGED <<todo, seen, made>>
  /\ UNCHANGED <<host, rec, ev, history, moved>>

Pass == queue' = queue \ {At} /\ todo' = <<>> /\ UNCHANGED <<mode, seen, made, result>>

(* Mutant: a step that was undone since is skipped as well.                *)
SkipUndone ==
  /\ mode = "apply" /\ queue # {} /\ todo = <<>> /\ rec[At].status = "ok"
  /\ Pass
  /\ UNCHANGED <<host, journal, moved>> /\ Own

Skip ==
  /\ mode = "apply" /\ queue # {} /\ todo = <<>>
  /\ rec[At].status = "ok" /\ rec[At].undone = "no"
  /\ Pass
  /\ UNCHANGED <<host, journal, moved>> /\ Own

(* Mutant: nothing is tidied.                                              *)
TidiedNothing(i) == temps[i]

(* reconcile: the step was in flight when the last run died.  Leftover     *)
(* staged files are removed, and a transition the host shows is recorded   *)
(* as this step's.                                                         *)
Tidied(i) == {n \in temps[i] : \A e \in Found("intent", i) : e.n # n}

Shown(i) ==
  CASE plan[i].kind = "enable" ->
         {Note("enabled", 0, "none") : e \in {f \in Found("enabling", i) : svc[i].on}}
           \cup {Note("started", 0, "none") : e \in {f \in Found("starting", i) : svc[i].up}}
    [] plan[i].kind = "disable" /\ Effect(i) = "applied" ->
         {Note("stopped", 0, "none") : e \in Found("was_up", i)}
           \cup {Note("disabled", 0, "none") : e \in Found("was_on", i)}
    [] OTHER -> {}

InFlight == mode = "apply" /\ queue # {} /\ todo = <<>> /\ rec[At].status = "started"

Reconcile ==
  /\ InFlight
  /\ temps' = [temps EXCEPT ![At] = Tidied(At)]
  /\ ev' = [ev EXCEPT ![At] = @ \cup Shown(At)]
  /\ CASE Effect(At) = "applied" -> Settle(At, Ok(At, rec[At].satisfied)) /\ Pass
       [] Effect(At) = "unknown" -> Settle(At, Failed(At)) /\ Finish("stopped")
       [] OTHER -> /\ Settle(At, [rec[At] EXCEPT !.undone = "no"])
                   /\ todo' = <<"check">>
                   /\ UNCHANGED <<mode, queue, seen, made, result>>
  /\ UNCHANGED <<file, svc, stale, backup, began, moved>> /\ Own

StartStep ==
  /\ mode = "apply" /\ queue # {} /\ todo = <<>>
  /\ rec[At].status # "started" /\ ~(rec[At].status = "ok" /\ rec[At].undone = "no")
  /\ Settle(At, [rec[At] EXCEPT !.status = "started", !.undone = "no"])
  /\ todo' = <<"check">>
  /\ UNCHANGED <<host, ev, began, mode, queue, seen, made, result, moved>> /\ Own

Op(o) == todo # <<>> /\ Head(todo) = o
Go == todo' = Tail(todo) /\ UNCHANGED <<mode, queue, made, result>>
Stop == IF mode = "apply" THEN Settle(At, Failed(At)) /\ Finish("stopped")
        ELSE Finish("undo_stopped") /\ UNCHANGED rec

Check ==
  /\ Op("check")
  /\ CASE Refuses(At) -> Stop
       [] ~Refuses(At) /\ Satisfied(At) ->
            Settle(At, Ok(At, TRUE)) /\ Pass
       [] OTHER -> /\ todo' = Program(At) \o <<"verify">>
                   /\ UNCHANGED <<rec, mode, queue, seen, made, result>>
  /\ moved' = moved \ {At}
  /\ UNCHANGED <<host, ev, began>> /\ Own

(* A read-only step is ok although nothing was applied.                    *)
Verify ==
  /\ Op("verify")
  /\ IF Effect(At) = "applied" \/ Kind = "probe"
     THEN Settle(At, Ok(At, FALSE)) /\ Pass
     ELSE Stop
  /\ UNCHANGED <<host, ev, began, moved>> /\ Own

Done ==
  /\ mode = "apply" /\ queue = {}
  /\ Finish("done")
  /\ UNCHANGED <<host, journal, moved>> /\ Own

----------------------------------------------------------------------------
(* The operations of act.                                                  *)

(* Mutant: the file is not looked at again before it is written.           *)
LookOnce ==
  /\ Op("look") \/ Op("rm_look")
  /\ backup' = [backup EXCEPT ![At] = IF Body(At) = "none" THEN @ ELSE Body(At)]
  /\ seen' = Body(At)
  /\ Go
  /\ moved' = moved \ {At}
  /\ UNCHANGED <<file, svc, stale, temps, rec, ev, began>> /\ Own

(* _AtomicFile.write and _remove_with_backup look again, and keep a copy.  *)
Look ==
  /\ Op("look") \/ Op("rm_look")
  /\ LET b == Body(At)
         refused == IF Kind = "remove" THEN b \notin {"none", "old"} ELSE CasViolation(At, b)
         clash == b # "none" /\ backup[At] \notin {"none", b}
     IN IF refused \/ clash THEN Stop /\ UNCHANGED backup
        ELSE /\ backup' = [backup EXCEPT ![At] = IF b = "none" THEN @ ELSE b]
             /\ seen' = b
             /\ todo' = IF Kind = "remove" /\ b = "none" THEN <<"reload", "verify">> ELSE Tail(todo)
             /\ UNCHANGED <<rec, mode, queue, made, result>>
  /\ moved' = moved \ {At}
  /\ UNCHANGED <<file, svc, stale, temps, ev, began>> /\ Own

(* Evidence, durable before the next operation.                            *)
Phases == {"intent", "staged", "committed", "removing", "removed", "creating", "created",
           "tightening", "running", "snapshot", "enabling", "enabled", "starting", "started", "stopped", "disabled",
           "undo_intent"}

Evidence(p) ==
  CASE p = "intent" -> Note(p, made + 1, seen)
    [] p = "undo_intent" -> Note(p, made + 1, "none")
    [] p \in {"staged", "created"} -> Note(p, made, "none")
    [] OTHER -> Note(p, 0, "none")

Write ==
  /\ todo # <<>> /\ Head(todo) \in Phases
  /\ ev' = [ev EXCEPT ![At] = @ \cup {Evidence(Head(todo))}]
  /\ made' = IF Head(todo) \in {"intent", "undo_intent"} THEN made + 1 ELSE made
  /\ todo' = Tail(todo)
  /\ UNCHANGED <<host, rec, began, mode, queue, seen, result, moved>> /\ Own

(* stage_file: the name was journaled first, and O_EXCL makes it setup's.  *)
Stage ==
  /\ Op("stage") \/ Op("undo_stage")
  /\ temps' = [temps EXCEPT ![At] = @ \cup {made}]
  /\ Go /\ UNCHANGED seen
  /\ UNCHANGED <<file, svc, stale, backup, journal, moved>> /\ Own

(* mkdir refuses a path that exists; what it makes is setup's.             *)
MakeDir ==
  /\ Op("mkdir") \/ Op("build")
  /\ IF Body(At) # "none" THEN Stop /\ UNCHANGED file
     ELSE /\ file' = [file EXCEPT ![At] = [body |-> IF Kind = "dir" THEN "new" ELSE "half", id |-> made + 1]]
          /\ made' = made + 1 /\ todo' = Tail(todo)
          /\ UNCHANGED <<rec, mode, queue, seen, result>>
  /\ UNCHANGED <<svc, stale, temps, backup, ev, began, moved>> /\ Own

(* commit_staged: an atomic rename over whatever is there.                 *)
Rename(b) ==
  /\ file' = [file EXCEPT ![At] = [body |-> b, id |-> made]]
  /\ temps' = [temps EXCEPT ![At] = @ \ {made}]
  /\ stale' = IF Kind \in {"unit", "remove"} THEN stale \cup {At} ELSE stale

Commit ==
  /\ \/ Op("commit") /\ Rename("new")
     \/ Op("undo_commit") /\ Rename(backup[At])
  /\ Go /\ UNCHANGED seen
  /\ UNCHANGED <<svc, backup, journal, moved>> /\ Own

Unlink ==
  /\ Op("rm_unlink") \/ Op("unlink")
  /\ file' = [file EXCEPT ![At] = [body |-> "none", id |-> 0]]
  /\ stale' = IF Kind \in {"unit", "remove"} THEN stale \cup {At} ELSE stale
  /\ Go /\ UNCHANGED seen
  /\ UNCHANGED <<svc, temps, backup, journal, moved>> /\ Own

(* chmod_dir, the packages of an environment, and a command that repeats.  *)
Become(o, b) ==
  /\ Op(o)
  /\ file' = [file EXCEPT ![At].body = b]
  /\ Go /\ UNCHANGED seen
  /\ UNCHANGED <<svc, stale, temps, backup, journal, moved>> /\ Own

Change == Become("chmod", "new") \/ Become("deps", "new") \/ Become("grant", "new")
          \/ Become("copy", "new") \/ Become("chmod_back", "old")

(* Commands that only look at the host.                                    *)
LookOnly ==
  /\ Op("scan") \/ Op("visudo")
  /\ Go /\ UNCHANGED seen
  /\ UNCHANGED <<host, journal, moved>> /\ Own

(* The proof undo needs, only for an environment setup created.            *)
Digest ==
  /\ Op("digest")
  /\ ev' = [ev EXCEPT ![At] = IF Has("created", At) THEN @ \cup {Note("digest", Latest("created", At).n, Body(At))} ELSE @]
  /\ Go /\ UNCHANGED seen
  /\ UNCHANGED <<host, rec, began, moved>> /\ Own

Reload ==
  /\ Op("reload")
  /\ stale' = stale \ {At}
  /\ Go /\ UNCHANGED seen
  /\ UNCHANGED <<file, svc, temps, backup, journal, moved>> /\ Own

(* ServiceEnable.act and ServiceDisable.act read before each command, and  *)
(* only what they change is recorded.                                      *)
Ask(o, needed, ops) ==
  /\ Op(o)
  /\ todo' = (IF needed THEN ops ELSE <<>>) \o Tail(todo)
  /\ UNCHANGED <<host, journal, mode, queue, seen, made, result, moved>> /\ Own

AskService ==
  \/ Ask("if_enable", ~svc[At].on, <<"enabling", "systemctl_enable", "enabled">>)
  \/ Ask("if_start", ~svc[At].up, <<"starting", "systemctl_start", "started">>)
  \/ Ask("if_stop", Has("was_up", At), <<"systemctl_stop", "stopped">>)
  \/ Ask("if_disable", Has("was_on", At), <<"systemctl_disable", "disabled">>)

(* was_enabled and was_running: of several attempts the last one counts.   *)
Flags ==
  /\ Op("flags")
  /\ ev' = [ev EXCEPT ![At] = {e \in @ : e.phase \notin {"was_on", "was_up"}}
                \cup {Note("was_on", 0, "none") : x \in {y \in {1} : svc[At].on}}
                \cup {Note("was_up", 0, "none") : x \in {y \in {1} : svc[At].up}}]
  /\ Go /\ UNCHANGED seen
  /\ UNCHANGED <<host, rec, began, moved>> /\ Own

Systemctl ==
  /\ \/ Op("systemctl_enable") /\ svc' = [svc EXCEPT ![At].on = TRUE]
     \/ Op("systemctl_disable") /\ svc' = [svc EXCEPT ![At].on = FALSE]
     \/ Op("systemctl_start") /\ svc' = [svc EXCEPT ![At].up = TRUE]
     \/ Op("systemctl_stop") /\ svc' = [svc EXCEPT ![At].up = FALSE]
  /\ Go /\ UNCHANGED seen
  /\ UNCHANGED <<file, stale, temps, backup, journal, moved>> /\ Own

Operation == Look \/ Write \/ Stage \/ MakeDir \/ Commit \/ Unlink \/ Change \/ LookOnly \/ Digest \/ Reload
             \/ AskService \/ Flags \/ Systemctl

(* Operations of the host that may fail; a staged file is then discarded.  *)
(* A command may also report failure after it has done its work.           *)
Fallible == {"stage", "commit", "mkdir", "build", "rm_unlink", "unlink", "chmod", "chmod_back", "deps", "grant", "copy", "scan", "visudo",
             "reload", "undo_stage", "undo_commit",
             "systemctl_enable", "systemctl_disable", "systemctl_start", "systemctl_stop"}

Fails ==
  /\ todo # <<>> /\ Head(todo) \in Fallible
  /\ Spend("faults")
  /\ temps' = [temps EXCEPT ![At] = @ \ {made}]
  /\ cut' = IF mode = "undo" THEN cut \cup {<<mode, At>>} ELSE cut
  /\ Stop
  /\ UNCHANGED <<file, svc, stale, backup, ev, began, plan, touched, moved>>

FailsLate ==
  /\ mode = "apply" /\ Op("systemctl_start")
  /\ Spend("faults")
  /\ svc' = [svc EXCEPT ![At].up = TRUE]
  /\ cut' = cut \cup {<<mode, At>>}
  /\ Stop
  /\ UNCHANGED <<file, stale, temps, backup, ev, began, plan, touched, moved>>

----------------------------------------------------------------------------
(* undo: newest step first, each by its own inverse.                       *)

(* A step setup found in place and never changed is not looked at; one it  *)
(* changed on an earlier attempt still has evidence.                       *)
Pending(i) ==
  /\ rec[i].status # "none" /\ rec[i].undone = "no"
  /\ ~(rec[i].status = "ok" /\ rec[i].satisfied /\ ev[i] = {})

StartUndo ==
  /\ mode = "idle" /\ Spend("runs")
  /\ IF ~began THEN Finish("nothing_to_undo")
     ELSE /\ mode' = "undo" /\ result' = "none"
          /\ queue' = {i \in 1..N : Pending(i)}
          /\ UNCHANGED <<todo, seen, made>>
  /\ UNCHANGED <<host, journal, history, moved>>

ReloadOf(i) == IF plan[i].kind \in {"unit", "remove"} THEN <<"reload">> ELSE <<>>
Restore == <<"undo_intent", "undo_stage", "undo_commit">>
Refused == <<"refuse">>
Irreversible == <<"keep">>
If(c, ops) == IF c THEN ops ELSE <<>>

(* Mutant: the file counts as setup's only once committed is on record.    *)
OursByRecord(i) == {e \in Found("intent", i) : e.n = file[i].id /\ Has("committed", i)}

(* _AtomicFile._undo_path: by the staged identity, then by the content.    *)
Ours(i) == {e \in Found("intent", i) : e.n = file[i].id /\ Note("staged", e.n, "none") \in ev[i]}
NotOurs(i) ==
  IF ~Has("committed", i) \/ \E e \in Found("intent", i) : e.was = Body(i) THEN ReloadOf(i) ELSE Refused

FileInverse(i) ==
  CASE ~Has("intent", i) -> <<>>
    [] Has("intent", i) /\ Body(i) = "none" ->
         IF \E e \in Found("intent", i) : e.was = "none" THEN ReloadOf(i) ELSE Refused
    [] Has("intent", i) /\ Body(i) # "none" /\ Ours(i) = {} -> NotOurs(i)
    [] Ours(i) # {} /\ Body(i) # "none" ->
         IF Body(i) # "new" THEN Refused
         ELSE IF \E e \in Ours(i) : e.was = "none" THEN <<"unlink">> \o ReloadOf(i)
         ELSE IF \E e \in Ours(i) : e.was = backup[i] THEN Restore \o ReloadOf(i) ELSE Refused

(* _undo_removals: only what really was removed is put back.               *)
RemoveInverse(i) ==
  CASE ~Has("removing", i) \/ Body(i) = "old" -> ReloadOf(i)
    [] Has("removing", i) /\ Body(i) = "none" -> Restore \o ReloadOf(i)
    [] OTHER -> IF Has("removed", i) THEN Refused ELSE ReloadOf(i)

(* A directory whose making was not recorded is not proven to be setup's.  *)
DirInverse(i) ==
  CASE ~Has("created", i) \/ Body(i) = "none" -> <<>>
    [] OTHER -> IF file[i].id = Latest("created", i).n /\ Body(i) = "new" THEN <<"unlink">> ELSE Refused

TightInverse(i) ==
  CASE ~Has("tightening", i) \/ Body(i) = "old" -> <<>>
    [] OTHER -> IF Body(i) = "new" THEN <<"chmod_back">> ELSE Refused

VenvInverse(i) ==
  CASE ~Has("created", i) -> Irreversible
    [] Has("created", i) /\ Body(i) = "none" -> <<>>
    [] OTHER -> IF /\ Has("digest", i) /\ Latest("digest", i).was = Body(i)
                   /\ file[i].id = Latest("created", i).n
                THEN <<"unlink">> ELSE Refused

ServiceInverse(i) ==
  LET ops == If(Has("started", i), <<"systemctl_stop">>) \o If(Has("enabled", i), <<"systemctl_disable">>)
             \o If(Has("disabled", i), <<"systemctl_enable">>) \o If(Has("stopped", i), <<"systemctl_start">>)
  IN IF ops = <<>> THEN Irreversible ELSE ops

InverseOf(i) ==
  CASE plan[i].kind \in Files -> FileInverse(i)
    [] plan[i].kind = "remove" -> RemoveInverse(i)
    [] plan[i].kind = "dir" -> DirInverse(i)
    [] plan[i].kind = "tight" -> TightInverse(i)
    [] plan[i].kind = "venv" -> VenvInverse(i)
    [] plan[i].kind \in Services -> ServiceInverse(i)
    [] plan[i].kind \in Commands -> Irreversible

(* A staged file of an undo that died is removed first.                    *)
UndoStep ==
  /\ mode = "undo" /\ queue # {} /\ todo = <<>>
  /\ temps' = [temps EXCEPT ![At] = {n \in @ : Note("undo_intent", n, "none") \notin ev[At]}]
  /\ CASE InverseOf(At) = Refused -> Finish("undo_stopped") /\ UNCHANGED rec
       [] InverseOf(At) = Irreversible -> Settle(At, [rec[At] EXCEPT !.undone = "kept"]) /\ Pass
       [] OTHER -> /\ todo' = InverseOf(At) \o <<"undone">>
                   /\ UNCHANGED <<rec, mode, queue, seen, made, result>>
  /\ moved' = moved \ {At}
  /\ UNCHANGED <<file, svc, stale, backup, ev, began>> /\ Own

Undone ==
  /\ Op("undone")
  /\ Settle(At, [rec[At] EXCEPT !.undone = "undone"])
  /\ Pass
  /\ UNCHANGED <<host, ev, began, moved>> /\ Own

UndoDone ==
  /\ mode = "undo" /\ queue = {}
  /\ Finish("undone")
  /\ UNCHANGED <<host, journal, moved>> /\ Own

----------------------------------------------------------------------------
(* The world.                                                              *)

(* The process dies anywhere; a torn last line of the journal is dropped   *)
(* when it is next opened, so an event is there or it is not.              *)
Crash ==
  /\ mode # "idle" /\ Spend("crashes")
  /\ Finish("none")
  /\ cut' = IF queue = {} THEN cut ELSE cut \cup {<<mode, At>>}
  /\ UNCHANGED <<host, journal, plan, touched, moved>>

(* What other people do: replace a file or edit it in place, delete it,    *)
(* put the old one back, put something into a directory, turn a service on *)
(* or off.                                                                 *)
EditFile(i, b, id) ==
  /\ plan[i].kind \notin Services \cup Commands
  /\ id = 0 \/ (b = "edit" /\ Body(i) # "none")
  /\ b = "none" => id = 0
  /\ file' = [file EXCEPT ![i] = [body |-> b, id |-> id]]
  /\ stale' = IF plan[i].kind \in {"unit", "remove"} THEN stale \cup {i} ELSE stale
  /\ UNCHANGED svc

EditService(i) ==
  /\ plan[i].kind \in Services
  /\ \E b \in BOOLEAN : svc' = [svc EXCEPT ![i] = [on |-> b, up |-> b]]
  /\ UNCHANGED <<file, stale>>

Edit ==
  /\ Spend("edits")
  /\ \E i \in 1..N :
       /\ EditService(i) \/ \E b \in {"none", "old", "edit"}, id \in {0, file[i].id} : EditFile(i, b, id)
       /\ touched' = touched \cup {i}
       /\ moved' = moved \cup {i}
  /\ UNCHANGED <<temps, backup, journal, run, plan, cut>>

Works == Skip \/ Reconcile \/ StartStep \/ Check \/ Verify \/ Done \/ Operation
         \/ UndoStep \/ Undone \/ UndoDone

Next == StartApply \/ StartUndo \/ Works \/ Fails \/ FailsLate \/ Crash \/ Edit

Spec == Init /\ [][Next]_vars

----------------------------------------------------------------------------
(* Type invariant of the journal and the host.                             *)
TypeOK ==
  /\ file \in [1..N -> [body : Bodies, id : 0..made]]
  /\ svc \in [1..N -> [on : BOOLEAN, up : BOOLEAN]]
  /\ rec \in [1..N -> [status : {"none", "started", "ok", "failed"}, satisfied : BOOLEAN, undone : {"no", "undone", "kept"}]]
  /\ \A i \in 1..N : temps[i] \subseteq 1..made /\ backup[i] \in Bodies
  /\ (stale \cup touched \cup moved) \subseteq 1..N
  /\ cut \subseteq {"apply", "undo"} \X (1..N)
  /\ mode \in {"idle", "apply", "undo"}
  /\ mode = "idle" => queue = {} /\ todo = <<>>

(* apply and undo never write over, and never remove, what somebody else   *)
(* put there: unless it was put there after their last look, the content   *)
(* they replace is not an edit, and undo only touches what setup made.     *)
EditsSurvive ==
  [][\A i \in 1..N :
       (file'[i] # file[i] /\ left'.edits = left.edits /\ i \notin moved /\ plan[i].kind \notin Commands \cup {"venv"})
         => /\ Body(i) # "edit"
            /\ mode = "undo" /\ plan[i].kind # "tight" /\ Body(i) # "none" => file[i].id > 0]_vars

(* "apply then inverse restores the original tree": whatever undo says it  *)
(* undid, and nobody else touched, is as it was before setup, however often *)
(* setup died, failed, was resumed or run again.  A directory, environment *)
(* or service whose change was cut off before it was recorded is excepted. *)
(* A unit setup wrote has been read again; one it never wrote may have been *)
(* unread before.                                                          *)
CutShort(i) == <<"apply", i>> \in cut /\ plan[i].kind \in Services \cup {"dir", "venv"}
UnitIsRead(i) == i \in stale => plan[i].kind = "unit" /\ ~Has("intent", i)

Restored(i) ==
  CASE plan[i].kind \in Services -> svc[i] = [on |-> plan[i].kind = "disable", up |-> plan[i].kind = "disable"]
    [] OTHER -> Body(i) = plan[i].orig /\ UnitIsRead(i)

UndoRestores ==
  result = "undone" => \A i \in 1..N \ touched : rec[i].undone = "undone" /\ ~CutShort(i) => Restored(i)

(* An apply that says done leaves every step's promise true on the host,   *)
(* for the steps it skipped, reconciled or found satisfied as well.  A step *)
(* whose undo was interrupted is excepted: the journal still calls it ok.  *)
DoneMeansApplied ==
  result = "done" =>
    \A i \in 1..N \ touched : (<<"undo", i>> \notin cut /\ plan[i].kind # "probe") => Satisfied(i) \/ Effect(i) = "applied"

(* A finished apply leaves no staged file behind, although a crash may     *)
(* have left one at any point before (one of an interrupted undo stays     *)
(* until undo is run again).                                               *)
NoLitter == result = "done" => \A i \in 1..N : <<"undo", i>> \notin cut => temps[i] = {}

(* "Run again with the same plan: finished steps are skipped" (apply.py):  *)
(* only somebody else's change is drift.                                   *)
OnlyOthersDrift == result = "refused" => touched # {}
=============================================================================
