---------------------------- MODULE ComposeWrite ----------------------------
(* compose.write and its inverse: one stack's compose file, written under one *)
(* approval and taken back under a later one. Somebody may work in the stack's *)
(* directory at any time, core may die between any two steps, and a system     *)
(* call or a write to the store may fail. Symbolic links, permissions and ACLs *)
(* are left out.                                                               *)
EXTENDS Naturals

CONSTANTS MaxEdits, MaxFaults   \* bounds: what others do in the directory; crashes and failures

Hosts == {"lan", "public"}
Stacks == {"plain", "ingress", "forbidden"}
Missing == "missing"            \* of a text: no file; of a record's field: not recorded
NoFile == [text |-> Missing, id |-> 0]
NoRecord == [prev |-> Missing, existed |-> FALSE, staged |-> 0, created |-> "unknown",
             createdDir |-> "unknown", inode |-> 0]
NoBinding == [created |-> FALSE, createdDir |-> FALSE, inode |-> 0, staged |-> 0, prev |-> Missing]

VARIABLES file, dir,   \* what is at the path, and its directory's inode (0: none)
          extra,       \* another file of somebody's in the directory
          backup,      \* the copy beside it (the text)
          base,        \* what the approval expects to find
          at, effect,  \* where the write, then its rollback, is; the write's recorded effect
          pre, binding,  \* the write step's pre_state; compose.restore's binding
          ours, made,  \* ghost: the file this step staged, the directory it made
          slipped,     \* ghost: somebody changed the file after the last look a rename,
                       \* or the unlink, rests on
          fresh,       \* the next inode
          edits, faults
composeVars == <<file, dir, extra, backup, base, at, effect, pre, binding, ours, made,
                 slipped, fresh, edits, faults>>

Init == /\ \E d \in {0, 1}, f \in {NoFile, [text |-> "old", id |-> 2]} :
             /\ f # NoFile => d = 1
             /\ file = f /\ dir = d
        /\ extra = FALSE /\ backup = Missing /\ base = Missing
        /\ at = "idle" /\ effect = "none" /\ pre = NoRecord /\ binding = NoBinding
        /\ ours = 0 /\ made = 0 /\ slipped = FALSE /\ fresh = 3 /\ edits = 0 /\ faults = 0

YesNo(b) == IF b THEN "yes" ELSE "no"
Disk == <<file, dir, extra, backup>>
Ghosts == <<ours, made, slipped>>
Fault == faults < MaxFaults /\ faults' = faults + 1
Ends(outcome, eff) == at' = outcome /\ effect' = eff

(* install_runbook and edit_runbook, and the approval: the file as it is now becomes the *)
(* step's expectation.                                                                    *)
MayPropose(stack, hosts) == /\ stack = "plain"
                            /\ file = NoFile => hosts = {"lan"}
Propose == /\ at = "idle" /\ file.text # "new"
           /\ \E stack \in Stacks, hosts \in SUBSET Hosts \ {{}} : MayPropose(stack, hosts)
           /\ base' = file.text /\ at' = "approved"
           /\ UNCHANGED <<Disk, effect, pre, binding, Ghosts, fresh, edits, faults>>

(* _compose_write: the look recorded with the dispatch *)
Dispatch == /\ at = "approved" /\ at' = "dispatched"
            /\ pre' = [NoRecord EXCEPT !.prev = file.text, !.existed = dir # 0]
            /\ UNCHANGED <<Disk, base, effect, binding, Ghosts, fresh, edits, faults>>
(* write_compose compares with the approval's expectation, *)
Compare == /\ at = "dispatched"
           /\ IF file.text = base THEN at' = "compared" /\ UNCHANGED effect
                                  ELSE Ends("failed", "not_applied")
           /\ slipped' = FALSE
           /\ UNCHANGED <<Disk, base, pre, binding, ours, made, fresh, edits, faults>>
(* makes the directory, copies what is there now, fills a temporary file beside it and *)
(* gives it the old one's owner; with nothing left to copy, the call fails.             *)
MakesDirectory == /\ dir' = IF dir = 0 THEN fresh ELSE dir
                  /\ made' = IF dir = 0 THEN fresh ELSE made
Vanished == base # Missing /\ file = NoFile
Stage == /\ at = "compared" /\ ~Vanished /\ at' = "filled" /\ MakesDirectory
         /\ backup' = IF base # Missing THEN file.text ELSE backup
         /\ ours' = fresh + 1 /\ fresh' = fresh + 2
         /\ UNCHANGED <<file, extra, base, effect, pre, binding, slipped, edits, faults>>
NothingToKeep == /\ at \in {"compared", "filled"} /\ Vanished /\ Ends("failed", "unknown")
                 /\ MakesDirectory /\ fresh' = fresh + 1
                 /\ UNCHANGED <<file, extra, backup, base, pre, binding, ours, slipped,
                                edits, faults>>
(* on_staged: its identity is in the store before the rename *)
NoteStaged == /\ at = "filled" /\ ~Vanished /\ at' = "staged" /\ pre' = [pre EXCEPT !.staged = ours]
              /\ UNCHANGED <<Disk, base, effect, binding, Ghosts, fresh, edits, faults>>
Rename == /\ at = "staged" /\ at' = "renamed" /\ file' = [text |-> "new", id |-> ours]
          /\ UNCHANGED <<dir, extra, backup, base, effect, pre, binding, Ghosts, fresh, edits,
                         faults>>
NoteWritten == /\ at = "renamed" /\ Ends("written", "applied")
               /\ pre' = [pre EXCEPT !.created = YesNo(base = Missing),
                                     !.createdDir = YesNo(made # 0), !.inode = dir]
               /\ UNCHANGED <<Disk, base, binding, Ghosts, fresh, edits, faults>>
(* A call fails, or core dies and startup_reconcile records it: the effect is unknown *)
Writing == {"dispatched", "compared", "filled", "staged", "renamed"}
CutShort == /\ at \in Writing /\ Fault /\ Ends("failed", "unknown")
            /\ UNCHANGED <<Disk, base, pre, binding, Ghosts, fresh, edits>>

-----------------------------------------------------------------------------
IsTheStagedFile == pre.staged # 0 /\ file.id = pre.staged
NowEffect == IF file.text = "new" THEN "applied"
             ELSE IF file.text = pre.prev THEN "not_applied" ELSE "unknown"
(* plan_rollback: what the step created is claimed only on evidence that its own write landed *)
CreatedFile == IF pre.created # "unknown" THEN pre.created = "yes"
               ELSE pre.prev = Missing /\ IsTheStagedFile
PlanRollback ==
  /\ at \in {"written", "failed"} /\ effect # "not_applied"
  /\ (IF effect = "unknown" THEN NowEffect ELSE effect) = "applied"
  /\ at' = "planned"
  /\ binding' = [created |-> CreatedFile,
                 createdDir |-> IF pre.createdDir # "unknown" THEN pre.createdDir = "yes"
                                ELSE CreatedFile /\ ~pre.existed,
                 inode |-> pre.inode, prev |-> pre.prev,
                 staged |-> IF CreatedFile THEN pre.staged ELSE 0]
  /\ UNCHANGED <<Disk, base, effect, pre, Ghosts, fresh, edits, faults>>
(* Mutant: the same bytes are taken for the same file. *)
SameBytes == file.text = "new"
IsOurs == file.id = binding.staged
(* restore, some time later: the file must still hold what the write left there *)
RestoreRefuses ==
  /\ at = "planned"
  /\ \/ file.text # "new"
     \/ binding.created /\ ~IsOurs
     \/ ~binding.created /\ (binding.prev = Missing \/ backup # binding.prev)
  /\ at' = "refused"
  /\ UNCHANGED <<Disk, base, effect, pre, binding, Ghosts, fresh, edits, faults>>
(* A file the write created is checked once more to be that file, and then unlinked; *)
RestoreLooks ==
  /\ at = "planned" /\ file.text = "new" /\ binding.created /\ IsOurs
  /\ at' = "removing" /\ slipped' = FALSE
  /\ UNCHANGED <<Disk, base, effect, pre, binding, ours, made, fresh, edits, faults>>
OurDirectory == binding.createdDir /\ dir = binding.inode /\ ~extra
RestoreRemoves ==
  /\ at = "removing" /\ file # NoFile
  /\ file' = NoFile /\ at' = "undone"
  /\ dir' = IF OurDirectory THEN 0 ELSE dir
  /\ UNCHANGED <<extra, backup, base, effect, pre, binding, Ghosts, fresh, edits, faults>>
(* one it replaced is written back from the copy, by write_compose, which compares again. *)
RestoreCompares ==
  /\ at = "planned" /\ file.text = "new" /\ ~binding.created
  /\ binding.prev # Missing /\ backup = binding.prev
  /\ at' = "restoring"
  /\ UNCHANGED <<Disk, base, effect, pre, binding, Ghosts, fresh, edits, faults>>
RestoreComparesAgain ==
  /\ at = "restoring" /\ slipped' = FALSE
  /\ at' = IF file.text = "new" THEN "swapping" ELSE "refused"
  /\ UNCHANGED <<Disk, base, effect, pre, binding, ours, made, fresh, edits, faults>>
RestoreRenames ==
  /\ at = "swapping" /\ at' = "undone"
  /\ file' = [text |-> binding.prev, id |-> fresh] /\ fresh' = fresh + 1
  /\ UNCHANGED <<dir, extra, backup, base, effect, pre, binding, Ghosts, edits, faults>>
(* A call fails, or core dies: the restore's effect is unknown. *)
Gone == at \in {"removing", "swapping"} /\ file = NoFile /\ UNCHANGED faults
RestoreFails == /\ \/ at \in {"planned", "restoring", "swapping", "removing"} /\ Fault
                   \/ Gone
                /\ at' = "undo_failed"
                /\ UNCHANGED <<Disk, base, effect, pre, binding, Ghosts, fresh, edits>>

(* Somebody else edits, replaces or removes the file, spoils the backup, or works on its *)
(* directory, which cannot be removed while anything is in it. Nobody moves it aside in   *)
(* the instant a write has its temporary file there.                                      *)
Quiet == at \notin {"filled", "staged", "renamed", "swapping"}
Touches == \/ /\ dir # 0 /\ fresh' = fresh + 1 /\ UNCHANGED <<dir, extra, backup>>
              /\ \E text \in {"old", "new", "else"}, id \in {file.id, fresh} :
                   id # 0 /\ file' = [text |-> text, id |-> id]
           \/ file # NoFile /\ file' = NoFile /\ UNCHANGED <<dir, extra, backup, fresh>>
           \/ dir # 0 /\ extra' = ~extra /\ UNCHANGED <<file, dir, backup, fresh>>
           \/ backup = "old" /\ backup' = "else" /\ UNCHANGED <<file, dir, extra, fresh>>
           \/ Quiet /\ dir' = fresh /\ fresh' = fresh + 1 /\ UNCHANGED <<file, extra, backup>>
           \/ /\ Quiet /\ file = NoFile /\ ~extra /\ backup = Missing /\ dir # 0
              /\ dir' = 0 /\ UNCHANGED <<file, extra, backup, fresh>>
Unwatched == {"compared", "filled", "staged", "swapping", "removing"}
Others == /\ edits < MaxEdits /\ edits' = edits + 1 /\ Touches
          /\ slipped' = (slipped \/ (at \in Unwatched /\ file' # file))
          /\ UNCHANGED <<base, at, effect, pre, binding, ours, made, faults>>

Next == \/ Propose \/ Dispatch \/ Compare \/ Stage \/ NothingToKeep \/ NoteStaged \/ Rename
        \/ NoteWritten \/ CutShort \/ PlanRollback \/ RestoreRefuses \/ RestoreLooks
        \/ RestoreRemoves \/ RestoreCompares \/ RestoreComparesAgain \/ RestoreRenames
        \/ RestoreFails \/ Others
Spec == Init /\ [][Next]_composeVars

-----------------------------------------------------------------------------
(* The write replaces what the approval expects, or what somebody put there after the last *)
(* comparison and before the rename: that the code cannot see, and nothing older passes.   *)
WriteReplacesWhatItSaw ==
  at' = "renamed" /\ at # "renamed" => slipped \/ file.text = base

(* A rollback takes away only what the write brought: a file it created is removed only    *)
(* while it is the very file the write renamed into place, however many identical ones     *)
(* others put there, and one it replaced only while it holds what was written. The gap     *)
(* between that last look and the unlink, or the rename, is the one restore's comment      *)
(* admits; "slipped" says somebody was in it. A directory goes only if the write made it.  *)
RollbackTakesItsOwn ==
  at' = "undone" /\ at # "undone" =>
    /\ slipped \/ (file.text = "new" /\ (file' = NoFile => file.id = ours))
    /\ dir' # dir => dir = made
    /\ file'.text \in {base, pre.prev}
=============================================================================
