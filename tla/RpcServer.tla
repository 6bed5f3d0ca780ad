---------------------------- MODULE RpcServer ----------------------------
(* The core's end of the dashboard's socket: the life of the socket file over  *)
(* core's restarts, the bounded workers, and the worker kept for decisions.    *)
(* Frames are well formed or not; what a handler does is modelled elsewhere.   *)
EXTENDS Naturals, FiniteSets

CONSTANTS Processes,      \* core processes, one after another or a second one by mistake
          Connections, Workers,
          MaxStarts       \* bound

Methods == {"approval.decide", "query.container"}
Nobody == "nobody"

VARIABLES proc,     \* process -> "off", "probing", "bound", "up", "closing", "draining"
          path,     \* whose socket is at the path, alive or not
          conn,     \* connection -> [at, to, slot, method]
          refused,  \* ghost: connection -> who held the kept worker when it was turned away
          starts
rpcVars == <<proc, path, conn, refused, starts>>

NoConn == [at |-> "none", to |-> Nobody, slot |-> "none", method |-> "none"]
Init == /\ proc = [p \in Processes |-> "off"] /\ path = Nobody
        /\ conn = [c \in Connections |-> NoConn]
        /\ refused = [c \in Connections |-> {}] /\ starts = 0

At(p, state) == proc' = [proc EXCEPT ![p] = state]
Listening(p) == proc[p] = "up"
(* start: a socket that answers belongs to a running server; one that refuses is stale. *)
(* Processes are started one after another.                                              *)
StartServer(p) ==
  /\ proc[p] = "off" /\ starts < MaxStarts /\ starts' = starts + 1
  /\ \A q \in Processes : proc[q] \notin {"probing", "bound"}
  /\ IF path # Nobody /\ Listening(path) THEN UNCHANGED <<proc, path>>
     ELSE path' = Nobody /\ At(p, "probing")
  /\ UNCHANGED <<conn, refused>>
Bind(p) == /\ proc[p] = "probing" /\ path = Nobody /\ path' = p /\ At(p, "bound")
           /\ UNCHANGED <<conn, refused, starts>>
(* _unlink: only the socket this server bound *)
Unlinked(p) == IF path = p THEN Nobody ELSE path
Listen(p) == /\ proc[p] = "bound"
             /\ \/ At(p, "up") /\ UNCHANGED path
                \/ At(p, "off") /\ path' = Unlinked(p)   \* chown, chmod or listen failed
             /\ UNCHANGED <<conn, refused, starts>>

Mine(p) == {c \in Connections : conn[c].to = p}
Holders(p, slot) == {c \in Mine(p) : conn[c].slot = slot}
(* _accept: a general worker, else the kept one, else "busy" *)
Accept(p, c) ==
  /\ Listening(p) /\ path = p /\ conn[c].at = "none"
  /\ \E method \in Methods :
       LET slot == IF Cardinality(Holders(p, "general")) < Workers THEN "general"
                   ELSE IF Holders(p, "reserved") = {} THEN "reserved" ELSE "none"
       IN  /\ conn' = [conn EXCEPT ![c] = [at |-> IF slot = "none" THEN "busy" ELSE "reading",
                                           to |-> p, slot |-> slot, method |-> method]]
           /\ refused' = [refused EXCEPT ![c] = IF slot = "none" THEN Holders(p, "reserved") ELSE {}]
  /\ UNCHANGED <<proc, path, starts>>
MayServe(c) == conn[c].slot = "general" \/ conn[c].method = "approval.decide"
(* _serve: the frame arrives whole and in time, or the connection is given up *)
Read(c) ==
  /\ conn[c].at = "reading"
  /\ conn' = [conn EXCEPT ![c].at = IF MayServe(c) THEN "handling" ELSE "replying"]
  /\ UNCHANGED <<proc, path, refused, starts>>
ReadFails(c) == /\ conn[c].at = "reading" /\ conn' = [conn EXCEPT ![c].at = "ending"]
                /\ UNCHANGED <<proc, path, refused, starts>>
Handle(c) == /\ conn[c].at = "handling"
             /\ conn' = [conn EXCEPT ![c].at = "replying"]
             /\ UNCHANGED <<proc, path, refused, starts>>
(* The reply is sent or the peer is gone; what follows a reply runs before the slot is free *)
Reply(c) == /\ conn[c].at = "replying" /\ conn' = [conn EXCEPT ![c].at = "ending"]
            /\ UNCHANGED <<proc, path, refused, starts>>
EndServe(c) == /\ conn[c].at \in {"ending", "busy"}
               /\ conn' = [conn EXCEPT ![c] = NoConn] /\ refused' = [refused EXCEPT ![c] = {}]
               /\ UNCHANGED <<proc, path, starts>>

(* stop: no more connections, those there are shut, the socket removed, the workers awaited *)
Stop(p) == /\ proc[p] = "up" /\ At(p, "closing")
           /\ conn' = [c \in Connections |-> IF conn[c].to = p /\ conn[c].at = "reading"
                                             THEN [conn[c] EXCEPT !.at = "ending"] ELSE conn[c]]
           /\ UNCHANGED <<path, refused, starts>>
Unlink(p) == /\ proc[p] = "closing" /\ path' = Unlinked(p) /\ At(p, "draining")
             /\ UNCHANGED <<conn, refused, starts>>
Drained(p) == /\ proc[p] = "draining" /\ Mine(p) = {} /\ At(p, "off")
              /\ UNCHANGED <<path, conn, refused, starts>>
(* Killed, crashed, or replaced by execv after a configuration change: the file stays *)
Dies(p) == /\ proc[p] # "off" /\ At(p, "off")
           /\ conn' = [c \in Connections |-> IF conn[c].to = p THEN NoConn ELSE conn[c]]
           /\ refused' = [c \in Connections |-> IF conn[c].to = p THEN {} ELSE refused[c]]
           /\ UNCHANGED <<path, starts>>

Next == \/ \E p \in Processes : \/ StartServer(p) \/ Bind(p) \/ Listen(p) \/ Stop(p) \/ Unlink(p)
                                \/ Drained(p) \/ Dies(p)
                                \/ \E c \in Connections : Accept(p, c)
        \/ \E c \in Connections : \/ Read(c) \/ ReadFails(c) \/ Handle(c) \/ Reply(c)
                                  \/ EndServe(c)
Spec == Init /\ [][Next]_rpcVars

-----------------------------------------------------------------------------
(* A server that accepts is the one the path leads to, whichever process was stopped,  *)
(* killed or started by mistake before.                                                 *)
ServerIsReachable == \A p \in Processes : Listening(p) => path = p
(* Slow reads never take the last worker: a decision is only turned away while the kept *)
(* worker is reading a frame, refusing one, or deciding.                                *)
DecisionsHaveAWorker ==
  \A c \in Connections : \A holder \in refused[c] :
    conn[holder].slot = "reserved" /\ conn[holder].at = "handling"
      => conn[holder].method = "approval.decide"
=============================================================================
