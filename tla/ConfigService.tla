---------------------------- MODULE ConfigService ----------------------------
(* Editing the configuration from the dashboard: validation, the compare and *)
(* swap of the file, activation, and the dashboard worker that follows.      *)
(* Somebody may edit the file on the host at any time.                       *)
EXTENDS Naturals, FiniteSets

CONSTANTS Operators,
          Switch,                     \* PE_ALLOW_SENSITIVE_CONFIG_EDITS
          MaxEdits, MaxFaults, MaxTries  \* bounds: edits on the host, failures, drafts

(* A text by what the checks tell apart: its editable, sensitive and host-only fields. *)
(* The empty text stands for every one that does not validate.                          *)
Invalid == [plain |-> 0, sensitive |-> 0, wiring |-> 0]
Changes(text) == IF text = Invalid THEN {}
                 ELSE {[text EXCEPT !.plain = 2], [text EXCEPT !.sensitive = 2],
                       [text EXCEPT !.wiring = 2]}
NoOne == "nobody"

VARIABLES file,
          loaded,     \* what the running core was started with
          owner,      \* the mutation lock, as far as config.apply is concerned
          op,         \* operator -> [at, base, draft, live, elevated]
          foreign,    \* ghost: the texts somebody put there on the host
          announced,  \* ghost: config.activation_failed, or a reply that says so
          watch,      \* a dashboard worker: [loaded, seen, signalled], as texts
          edits, faults, tries
configVars == <<file, loaded, owner, op, foreign, announced, watch, edits, faults, tries>>

First == [plain |-> 1, sensitive |-> 1, wiring |-> 1]
Idle == [at |-> "idle", base |-> Invalid, draft |-> Invalid, live |-> Invalid, elevated |-> FALSE]
Init == /\ file = First /\ loaded = First /\ owner = NoOne
        /\ op = [o \in Operators |-> Idle]
        /\ foreign = {} /\ announced = FALSE
        /\ watch = [loaded |-> First, seen |-> First, signalled |-> First]
        /\ edits = 0 /\ faults = 0 /\ tries = 0

To(o, at) == op' = [op EXCEPT ![o].at = at]
Refuse(o) == op' = [op EXCEPT ![o] = Idle] /\ owner' = NoOne
Fault == faults < MaxFaults /\ faults' = faults + 1
Same == UNCHANGED <<loaded, foreign, announced, watch, edits, tries>>

(* get, and the draft the operator makes of it; a passphrase re-entered or not *)
Draft(o) == /\ op[o].at = "idle" /\ tries < MaxTries /\ tries' = tries + 1
            /\ \E draft \in {Invalid} \cup Changes(file), e \in BOOLEAN :
                 op' = [op EXCEPT ![o] = [Idle EXCEPT !.at = "drafted", !.base = file,
                                                      !.draft = draft, !.elevated = e]]
            /\ UNCHANGED <<file, loaded, owner, foreign, announced, watch, edits, faults>>
(* apply: an invalid draft is refused; otherwise it needs the lock *)
Begin(o) == /\ op[o].at = "drafted"
            /\ IF op[o].draft = Invalid \/ owner # NoOne
               THEN op' = [op EXCEPT ![o] = Idle] /\ UNCHANGED owner
               ELSE To(o, "locked") /\ owner' = o
            /\ UNCHANGED <<file, faults>> /\ Same

(* The comparison with the live file: what may not be changed here, and what only after *)
(* the passphrase was entered again.                                                     *)
Locked(draft, live) == draft.wiring # live.wiring \/ (~Switch /\ draft.sensitive # live.sensitive)
NeedsElevation(draft, live) == draft.sensitive # live.sensitive
Allowed(o, live) == /\ live # Invalid /\ op[o].base = live
                    /\ ~Locked(op[o].draft, live)
                    /\ NeedsElevation(op[o].draft, live) => op[o].elevated
                    /\ op[o].draft # live
Compare(o) == /\ op[o].at = "locked"
              /\ IF Allowed(o, file)
                 THEN op' = [op EXCEPT ![o].at = "compared", ![o].live = file] /\ UNCHANGED owner
                 ELSE Refuse(o)
              /\ UNCHANGED <<file, faults>> /\ Same
(* write_config_text compares the file again right before the rename; the code accepts   *)
(* the microseconds between the two, which are one step here.                            *)
StillThere(o) == file = op[o].live
Write(o) == /\ op[o].at = "compared"
            /\ \/ /\ StillThere(o)
                  /\ file' = op[o].draft /\ foreign' = foreign \ {op[o].draft} /\ To(o, "written") /\ UNCHANGED <<owner, faults>>
               \/ ~StillThere(o) /\ Refuse(o) /\ UNCHANGED <<file, foreign, faults>>
               \/ Fault /\ Refuse(o) /\ UNCHANGED <<file, foreign>>
            /\ UNCHANGED <<loaded, announced, watch, edits, tries>>
StartActivation(o) == /\ op[o].at = "written" /\ To(o, "activating")
                      /\ UNCHANGED <<file, owner, faults>> /\ Same
(* Mutant: the new file stays when nothing can activate it. *)
RestoreNothing(o) == UNCHANGED <<file, foreign>> /\ UNCHANGED <<announced, faults>>
(* _restore_after_failed_start writes the old text back without comparing, or fails and  *)
(* says so.                                                                               *)
Restore(o) == \/ file' = op[o].live /\ UNCHANGED <<foreign, announced, faults>>
              \/ Fault /\ announced' = TRUE /\ UNCHANGED <<file, foreign>>
StartFails(o) == /\ op[o].at = "written" /\ faults < MaxFaults
                 /\ Restore(o) /\ Refuse(o)
                 /\ UNCHANGED <<loaded, watch, edits, tries>>
(* _activate_after_reply: core replaces itself, which ends every request and the lock; *)
(* or it cannot, which is recorded, and the lock is released.                           *)
Reexec == /\ loaded' = file /\ owner' = NoOne /\ op' = [o \in Operators |-> Idle]
          /\ announced' = FALSE /\ UNCHANGED foreign
Activate(o) == /\ op[o].at = "activating"
               /\ \/ file # Invalid /\ Reexec /\ UNCHANGED faults
                  \/ Fault /\ announced' = TRUE /\ Refuse(o) /\ UNCHANGED <<loaded, foreign>>
               /\ UNCHANGED <<file, watch, edits, tries>>
(* A crash, a deployment or the operator restarts core at any point *)
Restart == /\ Fault /\ file # Invalid /\ Reexec /\ UNCHANGED <<file, watch, edits, tries>>
HostEdit == /\ edits < MaxEdits /\ edits' = edits + 1
            /\ file' \in ({Invalid} \cup Changes(file)) \ {file}
            /\ foreign' = foreign \cup {file'}
            /\ UNCHANGED <<loaded, owner, op, announced, watch, faults, tries>>

(* ConfigReloadWatch.check, and the fresh worker it leads to *)
Follow == /\ file # watch.seen
          /\ watch' = IF file \in {watch.loaded, watch.signalled, Invalid}
                      THEN [watch EXCEPT !.seen = file]
                      ELSE [watch EXCEPT !.seen = file, !.signalled = file]
          /\ UNCHANGED <<file, loaded, owner, op, foreign, announced, edits, faults, tries>>
Renew == /\ watch.signalled # watch.loaded /\ file # Invalid
         /\ watch' = [loaded |-> file, seen |-> file, signalled |-> file]
         /\ UNCHANGED <<file, loaded, owner, op, foreign, announced, edits, faults, tries>>

Next == \/ Restart \/ HostEdit \/ Follow \/ Renew
        \/ \E o \in Operators : \/ Draft(o) \/ Begin(o) \/ Compare(o) \/ Write(o)
                                \/ StartActivation(o) \/ StartFails(o) \/ Activate(o)
Spec == Init /\ [][Next]_configVars

-----------------------------------------------------------------------------
(* Whatever is edited on the host meanwhile, the draft a request writes replaces the     *)
(* text its operator saw and no other, never changes a host-only field, and changes a    *)
(* sensitive one only with the switch and the passphrase.                                 *)
NothingSlipsIn == \A o \in Operators :
  op[o].at = "compared" /\ op'[o].at = "written" =>
    /\ file = op[o].base /\ file'.wiring = file.wiring
    /\ file'.sensitive # file.sensitive => Switch /\ op[o].elevated

(* When the activation cannot start, what is put back is the text the operator saw, and  *)
(* it takes the place of the request's own draft, never of another request's change.  No *)
(* comparison protects what somebody has put there on the host in between: that is the   *)
(* one thing else it may replace.                                                         *)
RestoreTakesItsOwn == \A o \in Operators :
  op[o].at = "written" /\ op'[o].at = "idle" /\ file' # file =>
    file' = op[o].base /\ (file = op[o].draft \/ file \in foreign)

(* With the lock free, core enforces what is on disk, unless somebody edited the file  *)
(* on the host since or the operator was told the change is not active.                 *)
DiskIsEnforced == owner = NoOne /\ file # loaded => file \in foreign \/ announced
=============================================================================
