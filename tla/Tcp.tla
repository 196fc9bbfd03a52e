-------------------------------- MODULE Tcp ---------------------------------
(***************************************************************************)
(* The TCP transport of nanomsg: an endpoint that connects (ctcp.c), or    *)
(* one that binds (btcp.c) with a machine for each connection it accepts   *)
(* (atcp.c), and the connection itself (stcp.c) on the stack of Stream.    *)
(*                                                                         *)
(* All machines of an endpoint run under the lock of one context: a call   *)
(* of the user or an event of the worker thread is handled, and then all   *)
(* that it raises (queue), before the lock is released (nn_ctx_leave).     *)
(***************************************************************************)
EXTENDS Stream, Naturals, FiniteSets, FiniteSetsExt

CONSTANTS
  Accept,    \* the connections a bound endpoint may have
  MaxCall    \* bound on the calls that send and receive

Conn == {"c"} \cup Accept
None == "none"

VARIABLES
  conn,     \* the connection "c" of ctcp, and those of btcp
  b,        \* struct nn_btcp: state, listener, atcp and atcps
  queue,    \* the events of the context
  calls

vars == <<conn, b, queue, calls>>

Init ==
  /\ conn = [c \in Conn |-> Fresh]
  /\ b = [state |-> "IDLE", lis |-> "IDLE", cur |-> None, list |-> {},
          bad |-> FALSE]
  /\ queue = << >>
  /\ calls = 0

-----------------------------------------------------------------------------
(* stcp                                                                    *)

(* nn_stcp_start.                                                          *)
nn_stcp_start(r) ==
  IF r.stream # "IDLE" THEN {Bad(r)}
  ELSE nn_streamhdr_start([r EXCEPT !.owner = "stream", !.stream = "PROTOHDR"])

(* nn_stcp_shutdown: the socket goes back when streamhdr is idle.          *)
nn_stcp_shutdown(r) ==
  IF r.hdr # "IDLE" THEN r
  ELSE Raise([r EXCEPT !.owner = "ep", !.stream = "STOPPED"],
             "ep", "STREAM_STOPPED")

nn_stcp_stop(r) ==
  IF r.stream \in {"IDLE", "STOPPED", "STOPPING"} THEN r
  ELSE nn_stcp_shutdown([nn_streamhdr_stop(r)
                           EXCEPT !.pipe = FALSE, !.stream = "STOPPING"])

nn_stcp_error(r) ==
  Raise([r EXCEPT !.stream = "DONE"], "ep", "STREAM_ERROR")

(* nn_stcp_send and nn_stcp_recv, called through the pipe.                 *)
nn_stcp_send(r) ==
  IF r.stream # "ACTIVE" THEN {Bad(r)}
  ELSE nn_usock_send([r EXCEPT !.out = "SENDING"])

nn_stcp_recv(r) ==
  IF r.stream # "ACTIVE" THEN {Bad(r)}
  ELSE nn_usock_recv([r EXCEPT !.in = "HDR"])

(* The states PROTOHDR and STOPPING_STREAMHDR; the socket may refuse the   *)
(* pipe.                                                                   *)
nn_stcp_starting(r, type) ==
  CASE r.stream = "PROTOHDR" /\ type = "STREAMHDR_OK" ->
         {[nn_streamhdr_stop(r) EXCEPT !.stream = "STOPPING_STREAMHDR"]}
    [] r.stream = "PROTOHDR" /\ type = "STREAMHDR_ERROR" -> {nn_stcp_error(r)}
    [] r.stream = "STOPPING_STREAMHDR" /\ type = "STREAMHDR_STOPPED" ->
         {nn_stcp_error(r)}
         \cup nn_usock_recv([r EXCEPT !.stream = "ACTIVE", !.pipe = TRUE,
                                      !.in = "HDR", !.out = "IDLE"])
    [] OTHER -> {Bad(r)}

(* The state ACTIVE: a message that is too large, empty, or has a body.    *)
nn_stcp_received(r) ==
  CASE r.in = "HDR" ->
         {nn_stcp_error(r), [r EXCEPT !.in = "HASMSG"]}
         \cup nn_usock_recv([r EXCEPT !.in = "BODY"])
    [] r.in = "BODY" -> {[r EXCEPT !.in = "HASMSG"]}
    [] OTHER -> {Bad(r)}

(* A variant with a slip: the pipe is not stopped when the socket shuts    *)
(* down.                                                                   *)
nn_stcp_activeOpen(r, type) ==
  CASE type = "USOCK_SENT" ->
         {IF r.out = "SENDING" THEN [r EXCEPT !.out = "IDLE"] ELSE Bad(r)}
    [] type = "USOCK_RECEIVED" -> nn_stcp_received(r)
    [] type = "USOCK_SHUTDOWN" -> {[r EXCEPT !.stream = "SHUTTING_DOWN"]}
    [] type = "USOCK_ERROR" -> {nn_stcp_error([r EXCEPT !.pipe = FALSE])}
    [] OTHER -> {Bad(r)}

nn_stcp_active(r, type) ==
  CASE type = "USOCK_SENT" ->
         {IF r.out = "SENDING" THEN [r EXCEPT !.out = "IDLE"] ELSE Bad(r)}
    [] type = "USOCK_RECEIVED" -> nn_stcp_received(r)
    [] type = "USOCK_SHUTDOWN" ->
         {[r EXCEPT !.pipe = FALSE, !.stream = "SHUTTING_DOWN"]}
    [] type = "USOCK_ERROR" -> {nn_stcp_error([r EXCEPT !.pipe = FALSE])}
    [] OTHER -> {Bad(r)}

nn_stcp_handler(r, type) ==
  CASE r.stream \in {"PROTOHDR", "STOPPING_STREAMHDR"} ->
         nn_stcp_starting(r, type)
    [] r.stream = "ACTIVE" -> nn_stcp_active(r, type)
    [] r.stream = "SHUTTING_DOWN" /\ type = "USOCK_ERROR" ->
         {nn_stcp_error(r)}
    [] r.stream = "STOPPING" -> {nn_stcp_shutdown(r)}
    [] OTHER -> {Bad(r)}

-----------------------------------------------------------------------------
(* ctcp                                                                    *)

(* nn_ctcp_start_resolving: a literal is resolved at once.                 *)
nn_ctcp_start_resolving(r) ==
  LET n == [r EXCEPT !.ep = "RESOLVING"] IN
  {[n EXCEPT !.dns = "RESOLVING"],
   Raise([n EXCEPT !.dns = "DONE"], "ep", "DNS_DONE")}

Waiting(r) == [nn_timer_start(r, "retry") EXCEPT !.ep = "WAITING"]

(* nn_ctcp_start_connecting: the interface or the socket is not there, the *)
(* address cannot be bound (the socket then stays open), the connection is *)
(* refused at once, made at once, or on its way.                           *)
nn_ctcp_start_connecting(r) ==
  LET n == [r EXCEPT !.ep = "CONNECTING", !.usock = "CONNECTING"] IN
  IF r.usock # "IDLE" THEN {Bad(r)}
  ELSE {Waiting(r), n, Failed(n),
        Raise([n EXCEPT !.usock = "ACTIVE"], "ep", "USOCK_CONNECTED")}
       \cup {[Waiting(r) EXCEPT !.usock = "STARTING"]
                : x \in Rare \cap {"bind"}}

nn_dns_stop(r) ==
  CASE r.dns = "RESOLVING" ->
         {[r EXCEPT !.dns = "STOPPING"],
          Raise([r EXCEPT !.dns = "STOPPED"], "ep", "DNS_STOPPED")}
    [] r.dns = "DONE" ->
         {Raise([r EXCEPT !.dns = "STOPPED"], "ep", "DNS_STOPPED")}
    [] OTHER -> {r}

DnsEvents(r) ==
  CASE r.dns = "RESOLVING" ->
         {Raise([r EXCEPT !.dns = "DONE"], "ep", "DNS_DONE")}
    [] r.dns = "STOPPING" ->
         {Raise([r EXCEPT !.dns = "STOPPED"], "ep", "DNS_STOPPED")}
    [] OTHER -> {}

(* nn_ctcp_shutdown in the state STOPPING, and before it.                  *)
nn_ctcp_stopping(r) ==
  IF r.retry = "IDLE" /\ r.usock = "IDLE" /\ r.dns = "IDLE"
    THEN [Fresh EXCEPT !.ev = r.ev] ELSE r

nn_ctcp_shutdown(r) ==
  CASE r.ep = "STOPPING_STCP_FINAL" /\ r.stream # "IDLE" -> {r}
    [] r.ep = "STOPPING_STCP_FINAL" /\ r.stream = "IDLE" ->
         {nn_ctcp_stopping(n) : n \in nn_dns_stop(nn_usock_stop(
            nn_timer_stop([r EXCEPT !.ep = "STOPPING"], "retry")))}
    [] r.ep = "STOPPING" -> {nn_ctcp_stopping(r)}

nn_ctcp_stop(r) ==
  nn_ctcp_shutdown([nn_stcp_stop(r) EXCEPT !.ep = "STOPPING_STCP_FINAL"])

(* The states STOPPING_STCP and STOPPING_USOCK.                            *)
nn_ctcp_closing(r, type) ==
  CASE r.ep = "STOPPING_STCP" /\ type = "STREAM_STOPPED" ->
         {[nn_usock_stop(r) EXCEPT !.ep = "STOPPING_USOCK"]}
    [] r.ep = "STOPPING_USOCK" /\ type = "USOCK_SHUTDOWN" -> {r}
    [] r.ep = "STOPPING_USOCK" /\ type = "USOCK_STOPPED" -> {Waiting(r)}
    [] OTHER -> {Bad(r)}

(* The states RESOLVING and STOPPING_DNS.                                  *)
nn_ctcp_resolving(r, type) ==
  CASE r.ep = "RESOLVING" /\ type = "DNS_DONE" ->
         nn_dns_stop([r EXCEPT !.ep = "STOPPING_DNS"])
    [] r.ep = "STOPPING_DNS" /\ type = "DNS_STOPPED" ->
         {Waiting(r)} \cup nn_ctcp_start_connecting(r)
    [] OTHER -> {Bad(r)}

(* The states CONNECTING and ACTIVE.                                       *)
nn_ctcp_connecting(r, type) ==
  CASE r.ep = "CONNECTING" /\ type = "USOCK_CONNECTED" ->
         nn_stcp_start([r EXCEPT !.ep = "ACTIVE"])
    [] r.ep = "CONNECTING" /\ type = "USOCK_ERROR" ->
         {[nn_usock_stop(r) EXCEPT !.ep = "STOPPING_USOCK"]}
    [] r.ep = "ACTIVE" /\ type = "STREAM_ERROR" ->
         {[nn_stcp_stop(r) EXCEPT !.ep = "STOPPING_STCP"]}
    [] OTHER -> {Bad(r)}

(* The states WAITING and STOPPING_BACKOFF.                                *)
nn_ctcp_waiting(r, type) ==
  CASE r.ep = "WAITING" /\ type = "BACKOFF_TIMEOUT" ->
         {[nn_timer_stop(r, "retry") EXCEPT !.ep = "STOPPING_BACKOFF"]}
    [] r.ep = "STOPPING_BACKOFF" /\ type = "BACKOFF_STOPPED" ->
         nn_ctcp_start_resolving(r)
    [] OTHER -> {Bad(r)}

nn_ctcp_handler(r, type) ==
  CASE r.ep \in {"RESOLVING", "STOPPING_DNS"} -> nn_ctcp_resolving(r, type)
    [] r.ep \in {"CONNECTING", "ACTIVE"} -> nn_ctcp_connecting(r, type)
    [] r.ep \in {"STOPPING_STCP", "STOPPING_USOCK"} -> nn_ctcp_closing(r, type)
    [] r.ep \in {"WAITING", "STOPPING_BACKOFF"} -> nn_ctcp_waiting(r, type)
    [] r.ep \in {"STOPPING_STCP_FINAL", "STOPPING"} -> nn_ctcp_shutdown(r)
    [] OTHER -> {Bad(r)}

-----------------------------------------------------------------------------
(* atcp                                                                    *)

(* nn_atcp_shutdown: the listener goes back to btcp at the end.            *)
nn_atcp_stopping(r) ==
  IF r.usock = "IDLE"
    THEN Raise([r EXCEPT !.ep = "STOPPED"], "btcp", "ATCP_STOPPED") ELSE r

nn_atcp_shutdown(r) ==
  CASE r.ep = "STOPPING_STCP_FINAL" /\ r.stream # "IDLE" -> r
    [] r.ep = "STOPPING_STCP_FINAL" /\ r.stream = "IDLE" ->
         nn_atcp_stopping(nn_usock_stop([r EXCEPT !.ep = "STOPPING"]))
    [] r.ep = "STOPPING" -> nn_atcp_stopping(r)

nn_atcp_stop(r) ==
  IF r.ep \in {"IDLE", "STOPPED", "STOPPING", "STOPPING_STCP_FINAL"} THEN r
  ELSE nn_atcp_shutdown([nn_stcp_stop(r) EXCEPT !.ep = "STOPPING_STCP_FINAL"])

(* The state ACCEPTING: btcp is told, and the connection starts.  After    *)
(* an error it accepts again.                                              *)
nn_atcp_accepting(r, type) ==
  CASE type = "USOCK_ACCEPTED" ->
         nn_stcp_start([Raise(r, "btcp", "ATCP_ACCEPTED")
                          EXCEPT !.ep = "ACTIVE", !.usock = "ACTIVE"])
    [] type = "ACCEPT_ERROR" -> {r}
    [] OTHER -> {Bad(r)}

(* The states ACTIVE, STOPPING_STCP and STOPPING_USOCK.                    *)
nn_atcp_active(r, type) ==
  CASE r.ep = "ACTIVE" /\ type = "STREAM_ERROR" ->
         {[nn_stcp_stop(r) EXCEPT !.ep = "STOPPING_STCP"]}
    [] r.ep = "STOPPING_STCP" /\ type = "STREAM_STOPPED" ->
         {[nn_usock_stop(r) EXCEPT !.ep = "STOPPING_USOCK"]}
    [] r.ep = "STOPPING_USOCK" /\ type = "USOCK_SHUTDOWN" -> {r}
    [] r.ep = "STOPPING_USOCK" /\ type = "USOCK_STOPPED" ->
         {Raise([r EXCEPT !.ep = "DONE"], "btcp", "ATCP_ERROR")}
    [] OTHER -> {Bad(r)}

nn_atcp_handler(r, type) ==
  CASE r.ep = "ACCEPTING" -> nn_atcp_accepting(r, type)
    [] r.ep \in {"ACTIVE", "STOPPING_STCP", "STOPPING_USOCK"} ->
         nn_atcp_active(r, type)
    [] r.ep \in {"STOPPING_STCP_FINAL", "STOPPING"} -> {nn_atcp_shutdown(r)}
    [] OTHER -> {Bad(r)}

-----------------------------------------------------------------------------
(* btcp: its steps give the next b, conn and events, in a record g         *)

Tagged(c, ev) == [i \in 1 .. Len(ev) |-> [c |-> c, to |-> ev[i].to,
                                          type |-> ev[i].type]]

(* The record r of the connection c is stored, and its events queued.      *)
Put(g, c, r) ==
  [g EXCEPT !.conn[c] = [r EXCEPT !.ev = << >>],
            !.q = @ \o Tagged(c, r.ev)]

(* The state, and the rest of the queue.                                   *)
Here == [b |-> b, conn |-> conn,
         q |-> IF queue = << >> THEN queue ELSE Tail(queue)]

Free(g) == {c \in Accept : g.conn[c] = Fresh /\ g.b.cur # c}

Queued(r) == Raise([r EXCEPT !.usock = "ACCEPTED"], "ep", "USOCK_ACCEPTED")

(* nn_btcp_start_accepting with nn_atcp_start and nn_usock_accept: a       *)
(* connection is there already, or one is waited for.                      *)
nn_btcp_start_accepting(g) ==
  {LET n == [Fresh EXCEPT !.ep = "ACCEPTING", !.usock = "BEING_ACCEPTED"]
       h == [g EXCEPT !.b.cur = c] IN
   IF now THEN Put([h EXCEPT !.b.lis = "LISTENING"], c, Queued(n))
          ELSE Put([h EXCEPT !.b.lis = "ACCEPTING"], c, n)
     : c \in Free(g), now \in {x \in BOOLEAN : x => Cardinality(Free(g)) > 1}}

(* nn_btcp_create with nn_btcp_listen; one that fails leaves no endpoint.  *)
nn_btcp_create ==
  nn_btcp_start_accepting([Here EXCEPT !.b.state = "ACTIVE"])

(* nn_btcp_shutdown from STOPPING_ATCPS on.                                *)
AtcpsStopped(g) ==
  IF g.b.list = {} THEN [g EXCEPT !.b.state = "IDLE"] ELSE g

ListenerStopped(g) ==
  IF g.b.lis # "IDLE" THEN g
  ELSE AtcpsStopped([FoldSet(LAMBDA c, h : Put(h, c, nn_atcp_stop(h.conn[c])),
                             g, g.b.list)
                       EXCEPT !.b.state = "STOPPING_ATCPS"])

(* nn_btcp_shutdown in STOPPING_ATCP; the listener must not be accepting.  *)
CurStopped(g) ==
  IF g.conn[g.b.cur].ep # "IDLE" THEN g
  ELSE IF g.b.lis # "LISTENING" THEN [g EXCEPT !.b.bad = TRUE]
  ELSE [g EXCEPT !.conn[g.b.cur] = Fresh, !.b.cur = None, !.b.lis = "STOPPED",
          !.b.state = "STOPPING_USOCK",
          !.q = Append(@, [c |-> None, to |-> "btcp",
                           type |-> "LISTENER_STOPPED"])]

Erased(g, c) ==
  IF c \notin g.b.list THEN [g EXCEPT !.b.bad = TRUE]
  ELSE [g EXCEPT !.b.list = @ \ {c}, !.conn[c] = Fresh]

nn_btcp_shutdown(g, c, type) ==
  CASE g.b.state = "STOPPING_ATCP" -> CurStopped(g)
    [] g.b.state = "STOPPING_USOCK" -> ListenerStopped(g)
    [] g.b.state = "STOPPING_ATCPS" ->
         IF type = "ATCP_STOPPED" THEN AtcpsStopped(Erased(g, c))
                                  ELSE [g EXCEPT !.b.bad = TRUE]

(* nn_btcp_handler in the state ACTIVE.                                    *)
nn_btcp_handler(g, c, type) ==
  CASE type = "ATCP_ACCEPTED" ->
         IF g.b.cur # c THEN {[g EXCEPT !.b.bad = TRUE]}
         ELSE nn_btcp_start_accepting(
                [g EXCEPT !.b.list = @ \cup {c}, !.b.cur = None])
    [] type = "ATCP_ERROR" -> {Put(g, c, nn_atcp_stop(g.conn[c]))}
    [] type = "ATCP_STOPPED" -> {Erased(g, c)}
    [] OTHER -> {[g EXCEPT !.b.bad = TRUE]}

-----------------------------------------------------------------------------
Aborted == b.bad \/ \E c \in Conn : conn[c].bad

Becomes(G) ==
  /\ ~Aborted
  /\ \E g \in G : b' = g.b /\ conn' = g.conn /\ queue' = g.q

(* A call or an event of the worker: the context is free.                  *)
Enter(G) == queue = << >> /\ Becomes(G) /\ UNCHANGED calls

Stored(c, results) == {Put(Here, c, n) : n \in results}
Step(c, results) == Enter(Stored(c, results))

Closed == b.state = "IDLE" /\ conn["c"].ep = "IDLE"

nn_ctcp_create == Closed /\ Step("c", nn_ctcp_start_resolving(Fresh))
Bind == Closed /\ Enter(nn_btcp_create)

Closing == {"STOPPING_STCP_FINAL", "STOPPING"}

CloseConnecting ==
  /\ conn["c"].ep \notin Closing \cup {"IDLE"}
  /\ Step("c", nn_ctcp_stop(conn["c"]))

(* NN_FSM_STOP of btcp: the accept is cancelled first.                     *)
CloseBound ==
  /\ b.state = "ACTIVE"
  /\ Enter({Put([Here EXCEPT !.b.state = "STOPPING_ATCP",
                             !.b.lis = "CANCELLING"],
                b.cur, nn_atcp_stop(conn[b.cur]))})

Call(c, results) ==
  /\ conn[c].pipe /\ queue = << >> /\ calls < MaxCall
  /\ Becomes(Stored(c, results))
  /\ calls' = calls + 1

Send(c) == conn[c].out = "IDLE" /\ Call(c, nn_stcp_send(conn[c]))
Recv(c) == conn[c].in = "HASMSG" /\ Call(c, nn_stcp_recv(conn[c]))

(* The worker: what a socket, a timer, the resolver or the listener does.  *)
UsockStep(c) == Step(c, Found(conn[c]))
TimerStep(c) == Step(c, TimerEvents(conn[c]))
RetryStep == Step("c", BackoffEvents(conn["c"]))
DnsStep == Step("c", DnsEvents(conn["c"]))

Arrive ==
  /\ b.lis = "ACCEPTING" /\ Free(Here) # {}
  /\ Enter({Put([Here EXCEPT !.b.lis = "LISTENING"],
                b.cur, Queued(conn[b.cur])),
            Put(Here, b.cur, Raise(conn[b.cur], "ep", "ACCEPT_ERROR"))})

Cancelled ==
  /\ b.lis = "CANCELLING"
  /\ Enter({Put([Here EXCEPT !.b.lis = "LISTENING"], b.cur,
                Raise([conn[b.cur] EXCEPT !.usock = "STOPPED"],
                      "ep", "USOCK_STOPPED"))})

(* nn_ctx_leave: the first event goes to its machine.                      *)
HandlerOf(e, r) ==
  CASE e.to = "hdr" -> nn_streamhdr_handler(r, e.type)
    [] e.to = "stream" -> nn_stcp_handler(r, e.type)
    [] e.to = "ep" /\ e.c = "c" -> nn_ctcp_handler(r, e.type)
    [] e.to = "ep" /\ e.c # "c" -> nn_atcp_handler(r, e.type)

BtcpTaken(e) ==
  CASE e.type = "LISTENER_STOPPED" -> [Here EXCEPT !.b.lis = "IDLE"]
    [] e.type = "ATCP_STOPPED" -> [Here EXCEPT !.conn[e.c].ep = "IDLE"]
    [] OTHER -> Here

nn_ctx_leave ==
  /\ queue # << >>
  /\ LET e == Head(queue) IN
     \/ /\ e.to # "btcp"
        /\ Becomes(Stored(e.c, HandlerOf(e, Taken(conn[e.c], e.type))))
     \/ /\ e.to = "btcp" /\ b.state = "ACTIVE"
        /\ Becomes(nn_btcp_handler(BtcpTaken(e), e.c, e.type))
     \/ /\ e.to = "btcp" /\ b.state # "ACTIVE"
        /\ Becomes({nn_btcp_shutdown(BtcpTaken(e), e.c, e.type)})
  /\ UNCHANGED calls

Next ==
  \/ nn_ctcp_create \/ Bind \/ CloseConnecting \/ CloseBound
  \/ \E c \in Conn : Send(c) \/ Recv(c) \/ UsockStep(c) \/ TimerStep(c)
  \/ RetryStep \/ DnsStep \/ Arrive \/ Cancelled \/ nn_ctx_leave

Spec == Init /\ [][Next]_vars

(* The worker carries out its tasks, the kernel does not leave a           *)
(* connection half open, and timers fire.  A connection need not end.      *)
Working(c) == conn[c].usock # "ACTIVE" /\ UsockStep(c)

Fairness ==
  /\ WF_vars(nn_ctx_leave) /\ WF_vars(RetryStep) /\ WF_vars(DnsStep)
  /\ WF_vars(Cancelled)
  /\ \A c \in Conn : WF_vars(Working(c)) /\ WF_vars(TimerStep(c))

FairSpec == Spec /\ Fairness

-----------------------------------------------------------------------------
(* No machine gets an event it has no case for, no assertion of ctcp.c,    *)
(* btcp.c, atcp.c, stcp.c and streamhdr.c fails, and no event is raised    *)
(* whose struct still waits in the queue.                                  *)
NoBadEvent == ~Aborted /\ QueuedOnce(queue)

(* The socket was lost while streamhdr stopped its timer, the error was    *)
(* ignored, and nothing has been read from it since.                       *)
LostUnheard(r) == r.usock = "DONE" /\ r.in = "HDR"

(* Between two steps a socket belongs to the machine that works with it,   *)
(* a pipe is started only over an active connection and stopped with it,   *)
(* unless the socket was lost before the pipe started, and a machine that  *)
(* is idle has left nothing running below it.                              *)
StackInStep ==
  queue = << >> /\ ~Aborted =>
    \A c \in Conn :
      LET r == conn[c] IN
      /\ r.owner = "hdr" => r.hdr # "IDLE"
      /\ r.owner = "stream" => r.stream \in {"ACTIVE", "SHUTTING_DOWN"}
      /\ r.pipe => /\ r.stream = "ACTIVE" /\ r.owner = "stream"
                   /\ r.usock = "ACTIVE" \/ LostUnheard(r)
      /\ r.stream = "IDLE" => r.hdr = "IDLE" /\ r.timer = "IDLE"
      /\ r.ep = "IDLE" => /\ r.stream = "IDLE" /\ r.usock = "IDLE"
                          /\ r.retry = "IDLE" /\ r.dns = "IDLE"

(* An endpoint that is closed comes to its end, from whatever it was doing *)
(* (NN_FSM_STOP of ctcp.c and btcp.c).                                     *)
EndpointStops ==
  /\ conn["c"].ep \in Closing ~> conn["c"].ep = "IDLE"
  /\ b.state \notin {"IDLE", "ACTIVE"} ~> b.state = "IDLE"

(* ctcp takes a socket back that was lost, since a connection that is      *)
(* broken is to be established again (doc/nn_getsockopt.txt:64-67).        *)
LossNoticed == conn["c"].usock = "DONE" ~> conn["c"].usock # "DONE"

(* A connection that was lost is attempted again, a peer that does not     *)
(* send its header is given up, and the loss of a socket is noticed unless *)
(* it was lost before the pipe started (ctcp.c, streamhdr.c).              *)
Reconnects ==
  /\ conn["c"].ep \in {"STOPPING_STCP", "STOPPING_USOCK", "WAITING"}
       ~> conn["c"].ep \in {"RESOLVING", "IDLE"} \cup Closing
  /\ \A c \in Conn :
       conn[c].stream = "PROTOHDR" ~> conn[c].stream # "PROTOHDR"
  /\ \A c \in Conn :
       conn[c].usock = "DONE"
         ~> \/ conn[c].usock # "DONE"
            \/ queue = << >> /\ conn[c].pipe /\ LostUnheard(conn[c])

=============================================================================
