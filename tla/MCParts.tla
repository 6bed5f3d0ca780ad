------------------------------ MODULE MCParts ------------------------------
(* Parts, and the components that are model checked beside them.  Parts     *)
(* takes its constants from the configuration; the instances here give the  *)
(* others theirs.                                                           *)
EXTENDS Parts

MCPlans == {<<"a">>, <<"a", "a">>, <<"b", "a">>}
MCStackSize == [network |-> 1, media |-> 2, old |-> 1]
MCEligible == <<"a", "b">>

(* The fleets the boot is checked on, by (rank, stack, name, container,    *)
(* the container whose network it shares).                                 *)
Service(rank, stack, name, container, of) ==
  [rank |-> rank, stack |-> stack, name |-> name, container |-> container,
   mode |-> IF of = "" THEN [ref |-> "none", of |-> ""] ELSE [ref |-> "container", of |-> of],
   depends |-> {}, mounts |-> {}, declares |-> {}, routes |-> {}, env |-> {},
   declared |-> TRUE, paused |-> FALSE, oneoff |-> FALSE]
Gluetun == Service(1, "vpn", "gluetun", "GLUETUN", "")
Qbit == Service(2, "media", "qbit", "QBIT", "GLUETUN")
Gsp == Service(3, "vpn", "gsp", "GSP", "GLUETUN")
Lidarr == [Service(4, "media", "lidarr", "LIDARR", "GLUETUN") EXCEPT !.declared = FALSE]
Job == [Service(5, "media", "job", "JOB", "") EXCEPT !.oneoff = TRUE]
Old == Service(6, "retired", "old", "OLD", "GLUETUN")
Sonarr == Service(7, "media", "sonarr", "SONARR", "")
Web == [Service(8, "app", "web", "WEB", "") EXCEPT !.mounts = {"/media"}, !.env = {"qbit"},
                                                   !.declares = {"q"}, !.depends = {"x"}]
Cyc == Service(9, "vpn", "peer", "PEER", "SONARR")
LinkedQbit == [Qbit EXCEPT !.mounts = {"/media"}, !.env = {"web"}, !.routes = {"q", "internal"}]
MCFleets == {{Gluetun, Qbit, Gsp}, {Gluetun, Qbit, Lidarr, Job},
             {Gluetun, LinkedQbit, Web, Old}, {Qbit, Gluetun, Sonarr, Cyc}}

Bo == INSTANCE Boot WITH
  Fleets <- MCFleets, Baseline <- <<"app", "media", "vpn">>, MaxFaults <- 1, fleet <- v6,
  order <- v2, readable <- v13, ct <- v4, at <- v3, next <- v10, failed <- v11, repairs <- v5,
  repairFailed <- v12, retryFailed <- v9, code <- v8, late <- v7, faults <- v1
Li == INSTANCE RouterLinks WITH
  Callers <- {1, 2}, MaxChanges <- 2, MaxFaults <- 1, MaxCalls <- 3, Quiet <- 2, docker <- v9,
  cache <- v3, backoff <- v7, races <- v8, lock <- v5, call <- v11, seen <- v10, now <- v2,
  faults <- v1, changes <- v6, calls <- v4
Wi == INSTANCE WidgetFetcher WITH
  Requests <- {1, 2}, MaxInstances <- 2, MaxTicks <- 1, MaxFaults <- 1, CacheAge <- 3,
  FailedAge <- 1, Budget <- 2, MaxInflight <- 2, now <- v2, ticks <- v7, faults <- v1,
  instance <- v6, cache <- v3, inflight <- v8, job <- v4, req <- v5
Fl == INSTANCE Fleet WITH
  Others <- {"nas"}, Configured <- {"nas"}, MaxRotations <- 3, MaxRounds <- 2, MaxRefreshes <- 2,
  world <- v5, good <- v2, token <- v1, misled <- v3, view <- v8, refreshing <- v6, refreshes <- v7,
  job <- v4
Vp == INSTANCE VpnPort WITH
  Cycle <- 2, Grace <- 3, SyncGrace <- 1, Lookback <- 5, MaxTime <- 9, MaxFaults <- 1, now <- v2,
  port <- v9, qbit <- v7, lost <- v6, renewed <- v5, obtained <- v4, cleared <- v8, check <- v10,
  report <- v3, faults <- v1
Lo == INSTANCE LogPages WITH
  Texts <- {"x", "y"}, TailCap <- 4, MaxLines <- 2, HashCap <- 3, MaxLog <- 4, MaxTime <- 3,
  MaxFaults <- 1, clock <- v4, lines <- v2, page <- v8, shown <- v3, twice <- v7, gaps <- v5,
  asked <- v6, faults <- v1

Init ==
  \/ PartInit
  \/ part = "boot" /\ Bo!Init /\ v14 = 0 /\ v15 = 0
  \/ part = "links" /\ Li!Init /\ v12 = 0 /\ v13 = 0 /\ v14 = 0 /\ v15 = 0
  \/ part = "widgets" /\ Wi!Init /\ v9 = 0 /\ v10 = 0 /\ v11 = 0 /\ v12 = 0 /\ v13 = 0
     /\ v14 = 0 /\ v15 = 0
  \/ part = "fleet" /\ Fl!Init /\ v9 = 0 /\ v10 = 0 /\ v11 = 0 /\ v12 = 0 /\ v13 = 0
     /\ v14 = 0 /\ v15 = 0
  \/ part = "vpn" /\ Vp!Init /\ v11 = 0 /\ v12 = 0 /\ v13 = 0 /\ v14 = 0 /\ v15 = 0
  \/ part = "logs" /\ Lo!Init /\ v9 = 0 /\ v10 = 0 /\ v11 = 0 /\ v12 = 0 /\ v13 = 0
     /\ v14 = 0 /\ v15 = 0

Next ==
  /\ UNCHANGED part
  /\ \/ PartNext
     \/ part = "boot" /\ Bo!Next /\ UNCHANGED <<v14, v15>>
     \/ part = "links" /\ Li!Next /\ UNCHANGED <<v12, v13, v14, v15>>
     \/ part = "widgets" /\ Wi!Next /\ UNCHANGED <<v9, v10, v11, v12, v13, v14, v15>>
     \/ part = "fleet" /\ Fl!Next /\ UNCHANGED <<v9, v10, v11, v12, v13, v14, v15>>
     \/ part = "vpn" /\ Vp!Next /\ UNCHANGED <<v11, v12, v13, v14, v15>>
     \/ part = "logs" /\ Lo!Next /\ UNCHANGED <<v9, v10, v11, v12, v13, v14, v15>>

Spec == Init /\ [][Next]_vars

-----------------------------------------------------------------------------
(* A boot that reports success left no service on a dead network           *)
(* namespace, and the stacks start in the least order their edges allow;   *)
(* the socket of the last core that is up leads to it, and a decision is   *)
(* not turned away while only reads hold workers.                          *)
ServicesAnswer == /\ part = "boot" => Bo!StartedMeansConnected /\ Bo!OrderIsTheLeastSound
                  /\ part = "rpc" => Rp!ServerIsReachable /\ Rp!DecisionsHaveAWorker

(* What an operation says of itself: the ingress stack goes down after the *)
(* others and comes up before them, and a stack reported down is down; a   *)
(* host action says "applied" or "not applied" only of what it did; and a  *)
(* check that passes watched every container, stable and free of crashes,  *)
(* for the whole of its window.  The weekly pass wakes once for each week, *)
(* and what it reports of a service is what became of it.                  *)
OutcomesAreHonest == /\ part = "stacks" => St!IngressBracketsTheRest /\ St!DownMeansDown
                     /\ part = "host" => Ho!OutcomeIsHonest
                     /\ part = "verify" => Ve!PassedIsEarned
                     /\ part = "weekly" => We!EveryWeekOnce /\ We!ReportIsHonest

(* What the dashboard shows is of what there is now: links lead to the     *)
(* present containers, and what a page that asks core for a widget shows,  *)
(* fresh or dimmed, is of the container it was asked about; no system gets *)
(* a card that is this machine's, unless what it was judged by misled; a   *)
(* log line appears once, and a stack's services as they were no longer    *)
(* ago than the cache keeps them.  One call for the fleet keeps to one     *)
(* login for each token it was refused, and the first; and an update pass  *)
(* that changed something has a re-scan asked for, or a person told.       *)
ViewsAreCurrent == /\ part = "links" => Li!LinksAreCurrent
                   /\ part = "widgets" => Wi!NoPredecessorShown
                   /\ part = "fleet" => Fl!TokensAreFew /\ Fl!NoCardForThisMachine
                   /\ part = "logs" => Lo!EveryLineOnce
                   /\ part = "cache" => Tc!AnswersAreFresh
                   /\ part = "weekly" => We!ChangesAreSeen

(* A cache or a card never goes back to older content, and a missing       *)
(* forwarded port is high only when a renewal is overdue.                  *)
ViewsMoveOn == [][/\ part = "widgets" => Wi!CacheMovesOn
                  /\ part = "fleet" => Fl!CardsMoveOn
                  /\ part = "vpn" => Vp!HighMeansOverdue]_vars
=============================================================================
