------------------------------ MODULE MCSetup ------------------------------
(* Plans for model checking SetupApply: a few steps of every kind.         *)
EXTENDS SetupApply

Step(k, o) == [kind |-> k, orig |-> o, probed |-> k \in Files \cup {"remove"}, keep |-> FALSE, unit |-> 0]

(* A path discover never looked at is only ever created.                   *)
Unseen(k) == [Step(k, "none") EXCEPT !.probed = FALSE, !.keep = TRUE]
EnableOf(u) == [Step("enable", "none") EXCEPT !.unit = u]

Install == {<<Step("dir", "none"), Unseen("file")>>,
            <<Step("tight", "old"), Step("venv", "none")>>,
            <<Step("unit", "none"), EnableOf(1)>>, <<Step("unit", "old")>>, <<Step("unit", "new")>>,
            <<Step("snapshot", "none"), Step("file", "old"), Step("probe", "none")>>,
            <<Step("sudoers", "none"), Step("env", "old")>>,
            <<Step("access", "none"), Step("hook", "old")>>}

Uninstall == {<<Step("disable", "old"), Step("remove", "old")>>, <<Step("unhook", "old")>>}

All == Install \cup Uninstall
NewFile == {<<Step("file", "none"), Step("probe", "none")>>}
=============================================================================
