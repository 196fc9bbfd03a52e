--------------------------------- MODULE Ws ---------------------------------
(***************************************************************************)
(* The WebSocket transport of nanomsg: an endpoint that connects (cws.c),  *)
(* or one that binds (bws.c) with a machine for each connection it accepts *)
(* (aws.c), the opening handshake (ws_handshake.c) and the connection      *)
(* itself (sws.c), over the sockets and timers of Stream.                  *)
(*                                                                         *)
(* All machines of an endpoint run under the lock of one context: a call   *)
(* of the user or an event of the worker thread is handled, and then all   *)
(* that it raises (queue), before the lock is released (nn_ctx_leave).     *)
(* A peer's opening handshake is HTTP; what it asks for may be refused.    *)
(***************************************************************************)
EXTENDS Stream, Naturals, FiniteSets, FiniteSetsExt, TLC

CONSTANTS
  Accept,    \* the connections a bound endpoint may have
  MaxCall,   \* bound on the calls that send and receive
  HsRoom     \* how often the buffer of the handshake takes RECV_MORE

Conn == {"c"} \cup Accept
None == "none"

(* What a connection has besides the record of Stream: the mode, how the   *)
(* handshake was judged, the room in its buffer, and peer_gone.            *)
Blank == Fresh @@ [server |-> TRUE, ok |-> FALSE, room |-> HsRoom,
                   gone |-> FALSE]

VARIABLES
  conn,     \* the connection "c" of cws, and those of bws
  b,        \* struct nn_bws: state, listener, aws and awss
  queue,    \* the events of the context
  calls

vars == <<conn, b, queue, calls>>

Init ==
  /\ conn = [c \in Conn |-> Blank]
  /\ b = [state |-> "IDLE", lis |-> "IDLE", cur |-> None, list |-> {},
          bad |-> FALSE]
  /\ queue = << >>
  /\ calls = 0

-----------------------------------------------------------------------------
(* ws_handshake, in the place of streamhdr                                 *)

(* nn_ws_handshake_start: the client asks first, the server listens.       *)
nn_ws_handshake_start(r) ==
  LET n == [nn_timer_start(r, "timer") EXCEPT !.owner = "hdr"] IN
  IF r.server THEN nn_usock_recv([n EXCEPT !.hdr = "SERVER_RECV"])
              ELSE nn_usock_send([n EXCEPT !.hdr = "CLIENT_SEND"])

nn_ws_handshake_shutdown(r) == nn_streamhdr_shutdown(r)
nn_ws_handshake_stop(r) == nn_streamhdr_stop(r)

Done(r) == [nn_timer_stop(r, "timer") EXCEPT !.hdr = "STOPPING_TIMER_DONE"]

(* The socket is closed under the handshake, or the peer takes too long.   *)
Interrupted(r, type) ==
  CASE type = "USOCK_SHUTDOWN" -> {r}
    [] type \in {"USOCK_ERROR", "TIMER_TIMEOUT"} -> {GiveUp(r)}
    [] OTHER -> {Bad(r)}

(* The state SERVER_RECV, with what nn_ws_handshake_parse_client_opening   *)
(* may find: VALID, INVALID, or RECV_MORE as long as there is room.  All   *)
(* but the last are answered (nn_ws_handshake_server_reply).               *)
nn_ws_handshake_server_recv(r, type) ==
  IF type # "USOCK_RECEIVED" THEN Interrupted(r, type)
  ELSE UNION {nn_usock_send([r EXCEPT !.hdr = "SERVER_REPLY", !.ok = valid])
                : valid \in BOOLEAN}
       \cup UNION {nn_usock_recv([r EXCEPT !.room = @ - 1])
                     : x \in {x \in {r} : r.room > 0}}

(* The state SERVER_REPLY: once it is sent, any reply is a success.        *)
nn_ws_handshake_server_reply(r, type) ==
  IF type = "USOCK_SENT" THEN {Done(r)} ELSE Interrupted(r, type)

(* The state CLIENT_SEND, after nn_ws_handshake_client_request.            *)
nn_ws_handshake_client_send(r, type) ==
  IF type = "USOCK_SENT" THEN nn_usock_recv([r EXCEPT !.hdr = "CLIENT_RECV"])
                         ELSE Interrupted(r, type)

(* The state CLIENT_RECV with nn_ws_handshake_parse_server_response.       *)
nn_ws_handshake_client_recv(r, type) ==
  IF type # "USOCK_RECEIVED" THEN Interrupted(r, type)
  ELSE {GiveUp(r), Done([r EXCEPT !.ok = TRUE])}
       \cup UNION {nn_usock_recv([r EXCEPT !.room = @ - 1])
                     : x \in {x \in {r} : r.room > 0}}

(* nn_ws_handshake_leave: the socket goes back to sws.                     *)
nn_ws_handshake_leave(r, type) ==
  Raise([r EXCEPT !.owner = "stream", !.hdr = "DONE", !.room = HsRoom],
        "stream", type)

(* The states STOPPING_TIMER_ERROR and STOPPING_TIMER_DONE: what the       *)
(* socket says is ignored.                                                 *)
nn_ws_handshake_stopping_timer(r, type) ==
  CASE type = "TIMER_TIMEOUT" -> {Bad(r)}
    [] type = "TIMER_STOPPED" ->
         {nn_ws_handshake_leave(r, IF r.hdr = "STOPPING_TIMER_DONE"
                                     THEN "STREAMHDR_OK"
                                     ELSE "STREAMHDR_ERROR")}
    [] OTHER -> {r}

nn_ws_handshake_handler(r, type) ==
  CASE r.hdr = "SERVER_RECV" -> nn_ws_handshake_server_recv(r, type)
    [] r.hdr = "SERVER_REPLY" -> nn_ws_handshake_server_reply(r, type)
    [] r.hdr = "CLIENT_SEND" -> nn_ws_handshake_client_send(r, type)
    [] r.hdr = "CLIENT_RECV" -> nn_ws_handshake_client_recv(r, type)
    [] r.hdr \in {"STOPPING_TIMER_ERROR", "STOPPING_TIMER_DONE"} ->
         nn_ws_handshake_stopping_timer(r, type)
    [] r.hdr = "STOPPING" -> {nn_ws_handshake_shutdown(r)}
    [] OTHER -> {Bad(r)}

-----------------------------------------------------------------------------
(* sws; what is in the frames is the subject of WsFrame                    *)

nn_sws_start(r) ==
  IF r.stream # "IDLE" THEN {Bad(r)}
  ELSE nn_ws_handshake_start([r EXCEPT !.owner = "stream",
                                       !.stream = "HANDSHAKE"])

(* nn_sws_shutdown: the socket goes back when the handshake is idle.       *)
nn_sws_shutdown(r) ==
  IF r.hdr # "IDLE" THEN r
  ELSE Raise([r EXCEPT !.owner = "ep", !.stream = "STOPPED"],
             "ep", "STREAM_STOPPED")

nn_sws_stop(r) ==
  IF r.stream \in {"IDLE", "STOPPED", "STOPPING"} THEN r
  ELSE nn_sws_shutdown([nn_ws_handshake_stop(r)
                          EXCEPT !.pipe = FALSE, !.stream = "STOPPING"])

(* The state DONE, with NN_SWS_RETURN_ERROR or _CLOSE_HANDSHAKE.           *)
Ended(r, type) == Raise([r EXCEPT !.stream = "DONE"], "ep", type)

(* nn_sws_recv_hdr.                                                        *)
nn_sws_recv_hdr(r) == nn_usock_recv([r EXCEPT !.in = "HDR"])

(* nn_sws_send and nn_sws_recv, called through the pipe.                   *)
nn_sws_send(r) ==
  IF r.stream # "ACTIVE" \/ r.out # "IDLE" THEN {Bad(r)}
  ELSE nn_usock_send([r EXCEPT !.out = "SENDING"])

nn_sws_recv(r) ==
  IF r.stream # "ACTIVE" \/ r.in # "HASMSG" THEN {Bad(r)}
  ELSE nn_sws_recv_hdr(r)

(* nn_sws_fail_conn: a close frame is sent unless a message is on its way. *)
nn_sws_fail_conn(r) ==
  LET n == [r EXCEPT !.pipe = FALSE, !.in = "CLOSED"] IN
  IF r.out = "IDLE"
    THEN nn_usock_send([n EXCEPT !.out = "SENDING",
                                 !.stream = "CLOSING_CONNECTION"])
    ELSE {Ended(n, "STREAM_CLOSED")}

(* The states HANDSHAKE and STOPPING_HANDSHAKE; the socket may refuse the  *)
(* pipe.                                                                   *)
nn_sws_starting(r, type) ==
  CASE r.stream = "HANDSHAKE" /\ type = "STREAMHDR_OK" ->
         {[nn_ws_handshake_stop(r) EXCEPT !.stream = "STOPPING_HANDSHAKE"]}
    [] r.stream = "HANDSHAKE" /\ type = "STREAMHDR_ERROR" ->
         {Ended(r, "STREAM_CLOSED")}
    [] r.stream = "STOPPING_HANDSHAKE" /\ type = "STREAMHDR_STOPPED" ->
         {Ended(r, "STREAM_ERROR")}
         \cup nn_sws_recv_hdr([r EXCEPT !.stream = "ACTIVE", !.pipe = TRUE,
                                        !.out = "IDLE"])
    [] OTHER -> {Bad(r)}

(* The state ACTIVE: a message is there, the rest of it is read, or the    *)
(* connection is failed or closed.  The frames of a message are taken for  *)
(* one.                                                                    *)
nn_sws_active(r, type) ==
  CASE type = "USOCK_SENT" ->
         {IF r.out = "SENDING" THEN [r EXCEPT !.out = "IDLE"] ELSE Bad(r)}
    [] type = "USOCK_RECEIVED" /\ r.in = "HDR" ->
         {[r EXCEPT !.in = "HASMSG"]} \cup nn_sws_fail_conn(r)
         \cup nn_usock_recv([r EXCEPT !.in = "BODY"])
    [] type = "USOCK_RECEIVED" /\ r.in = "BODY" ->
         {[r EXCEPT !.in = "HASMSG"]} \cup nn_sws_fail_conn(r)
    [] type = "USOCK_SHUTDOWN" ->
         {[r EXCEPT !.pipe = FALSE, !.stream = "BROKEN_CONNECTION"]}
    [] type = "USOCK_ERROR" ->
         {Ended([r EXCEPT !.pipe = FALSE], "STREAM_ERROR")}
    [] OTHER -> {Bad(r)}

(* The state CLOSING_CONNECTION: the close frame is on its way.            *)
nn_sws_closing(r, type) ==
  CASE type = "USOCK_SENT" ->
         {Ended([r EXCEPT !.out = "IDLE"], "STREAM_CLOSED")}
    [] type = "USOCK_SHUTDOWN" -> {r}
    [] type = "USOCK_ERROR" -> {Ended(r, "STREAM_ERROR")}
    [] OTHER -> {Bad(r)}

nn_sws_handler(r, type) ==
  CASE r.stream \in {"HANDSHAKE", "STOPPING_HANDSHAKE"} ->
         nn_sws_starting(r, type)
    [] r.stream = "ACTIVE" -> nn_sws_active(r, type)
    [] r.stream = "CLOSING_CONNECTION" -> nn_sws_closing(r, type)
    [] r.stream = "BROKEN_CONNECTION" /\ type = "USOCK_ERROR" ->
         {Ended(r, "STREAM_ERROR")}
    [] r.stream = "STOPPING" -> {nn_sws_shutdown(r)}
    [] OTHER -> {Bad(r)}

-----------------------------------------------------------------------------
(* cws                                                                    *)

(* nn_cws_start_resolving: a literal is resolved at once.                 *)
nn_cws_start_resolving(r) ==
  LET n == [r EXCEPT !.ep = "RESOLVING"] IN
  {[n EXCEPT !.dns = "RESOLVING"],
   Raise([n EXCEPT !.dns = "DONE"], "ep", "DNS_DONE")}

Waiting(r) == [nn_timer_start(r, "retry") EXCEPT !.ep = "WAITING"]

(* nn_cws_start_connecting: the interface or the socket is not there, the *)
(* address cannot be bound (the socket then stays open), the connection is *)
(* refused at once, made at once, or on its way.                           *)
nn_cws_start_connecting(r) ==
  LET n == [r EXCEPT !.ep = "CONNECTING", !.usock = "CONNECTING"] IN
  IF r.usock # "IDLE" THEN {Bad(r)}
  ELSE {Waiting(r), n, Failed(n),
        Raise([n EXCEPT !.usock = "ACTIVE"], "ep", "USOCK_CONNECTED")}
       \cup {[Waiting(r) EXCEPT !.usock = "STARTING"]
                : x \in Rare \cap {"bind"}}

nn_dns_stop(r) ==
  CASE r.dns = "RESOLVING" ->
         {[r EXCEPT !.dns = "STOPPING"],
          Raise([r EXCEPT !.dns = "STOPPED"], "ep", "DNS_STOPPED")}
    [] r.dns = "DONE" ->
         {Raise([r EXCEPT !.dns = "STOPPED"], "ep", "DNS_STOPPED")}
    [] OTHER -> {r}

DnsEvents(r) ==
  CASE r.dns = "RESOLVING" ->
         {Raise([r EXCEPT !.dns = "DONE"], "ep", "DNS_DONE")}
    [] r.dns = "STOPPING" ->
         {Raise([r EXCEPT !.dns = "STOPPED"], "ep", "DNS_STOPPED")}
    [] OTHER -> {}

(* nn_cws_shutdown in the state STOPPING, and before it.                  *)
nn_cws_stopping(r) ==
  IF r.retry = "IDLE" /\ r.usock = "IDLE" /\ r.dns = "IDLE"
    THEN [Blank EXCEPT !.ev = r.ev] ELSE r

nn_cws_shutdown(r) ==
  CASE r.ep = "STOPPING_SWS_FINAL" /\ r.stream # "IDLE" -> {r}
    [] r.ep = "STOPPING_SWS_FINAL" /\ r.stream = "IDLE" ->
         {nn_cws_stopping(n) : n \in nn_dns_stop(nn_usock_stop(
            nn_timer_stop([r EXCEPT !.ep = "STOPPING"], "retry")))}
    [] r.ep = "STOPPING" -> {nn_cws_stopping(r)}

nn_cws_stop(r) ==
  nn_cws_shutdown([nn_sws_stop(r) EXCEPT !.ep = "STOPPING_SWS_FINAL"])

(* The states STOPPING_SWS and STOPPING_USOCK: there is no new attempt     *)
(* when the peer has said that it goes.                                    *)
nn_cws_closing(r, type) ==
  CASE r.ep = "STOPPING_SWS" /\ type = "STREAM_STOPPED" ->
         {[nn_usock_stop(r) EXCEPT !.ep = "STOPPING_USOCK"]}
    [] r.ep = "STOPPING_USOCK" /\ type = "USOCK_SHUTDOWN" -> {r}
    [] r.ep = "STOPPING_USOCK" /\ type = "USOCK_STOPPED" ->
         {IF r.gone THEN r ELSE Waiting(r)}
    [] OTHER -> {Bad(r)}

(* The states RESOLVING and STOPPING_DNS.                                  *)
nn_cws_resolving(r, type) ==
  CASE r.ep = "RESOLVING" /\ type = "DNS_DONE" ->
         nn_dns_stop([r EXCEPT !.ep = "STOPPING_DNS"])
    [] r.ep = "STOPPING_DNS" /\ type = "DNS_STOPPED" ->
         {Waiting(r)} \cup nn_cws_start_connecting(r)
    [] OTHER -> {Bad(r)}

(* The states CONNECTING and ACTIVE.                                       *)
nn_cws_connecting(r, type) ==
  CASE r.ep = "CONNECTING" /\ type = "USOCK_CONNECTED" ->
         nn_sws_start([r EXCEPT !.ep = "ACTIVE", !.gone = FALSE, !.ok = FALSE,
                                !.room = HsRoom])
    [] r.ep = "CONNECTING" /\ type = "USOCK_ERROR" ->
         {[nn_usock_stop(r) EXCEPT !.ep = "STOPPING_USOCK"]}
    [] r.ep = "ACTIVE" /\ type = "STREAM_CLOSED" ->
         {[nn_sws_stop(r) EXCEPT !.ep = "STOPPING_SWS", !.gone = TRUE]}
    [] r.ep = "ACTIVE" /\ type = "STREAM_ERROR" ->
         {[nn_sws_stop(r) EXCEPT !.ep = "STOPPING_SWS"]}
    [] OTHER -> {Bad(r)}

(* The states WAITING and STOPPING_BACKOFF.                                *)
nn_cws_waiting(r, type) ==
  CASE r.ep = "WAITING" /\ type = "BACKOFF_TIMEOUT" ->
         {[nn_timer_stop(r, "retry") EXCEPT !.ep = "STOPPING_BACKOFF"]}
    [] r.ep = "STOPPING_BACKOFF" /\ type = "BACKOFF_STOPPED" ->
         nn_cws_start_resolving(r)
    [] OTHER -> {Bad(r)}

nn_cws_handler(r, type) ==
  CASE r.ep \in {"RESOLVING", "STOPPING_DNS"} -> nn_cws_resolving(r, type)
    [] r.ep \in {"CONNECTING", "ACTIVE"} -> nn_cws_connecting(r, type)
    [] r.ep \in {"STOPPING_SWS", "STOPPING_USOCK"} -> nn_cws_closing(r, type)
    [] r.ep \in {"WAITING", "STOPPING_BACKOFF"} -> nn_cws_waiting(r, type)
    [] r.ep \in {"STOPPING_SWS_FINAL", "STOPPING"} -> nn_cws_shutdown(r)
    [] OTHER -> {Bad(r)}

-----------------------------------------------------------------------------
(* aws                                                                    *)

(* nn_aws_shutdown: the listener goes back to bws at the end.            *)
nn_aws_stopping(r) ==
  IF r.usock = "IDLE"
    THEN Raise([r EXCEPT !.ep = "STOPPED"], "bws", "AWS_STOPPED") ELSE r

nn_aws_shutdown(r) ==
  CASE r.ep = "STOPPING_SWS_FINAL" /\ r.stream # "IDLE" -> r
    [] r.ep = "STOPPING_SWS_FINAL" /\ r.stream = "IDLE" ->
         nn_aws_stopping(nn_usock_stop([r EXCEPT !.ep = "STOPPING"]))
    [] r.ep = "STOPPING" -> nn_aws_stopping(r)

nn_aws_stop(r) ==
  IF r.ep \in {"IDLE", "STOPPED", "STOPPING", "STOPPING_SWS_FINAL"} THEN r
  ELSE nn_aws_shutdown([nn_sws_stop(r) EXCEPT !.ep = "STOPPING_SWS_FINAL"])

(* The state ACCEPTING: bws is told, and the connection starts.  After    *)
(* an error it accepts again.                                              *)
nn_aws_accepting(r, type) ==
  CASE type = "USOCK_ACCEPTED" ->
         nn_sws_start([Raise(r, "bws", "AWS_ACCEPTED")
                          EXCEPT !.ep = "ACTIVE", !.usock = "ACTIVE"])
    [] type = "ACCEPT_ERROR" -> {r}
    [] OTHER -> {Bad(r)}

(* The states ACTIVE, STOPPING_SWS and STOPPING_USOCK.                    *)
nn_aws_active(r, type) ==
  CASE r.ep = "ACTIVE" /\ type \in {"STREAM_ERROR", "STREAM_CLOSED"} ->
         {[nn_sws_stop(r) EXCEPT !.ep = "STOPPING_SWS"]}
    [] r.ep = "STOPPING_SWS" /\ type = "STREAM_STOPPED" ->
         {[nn_usock_stop(r) EXCEPT !.ep = "STOPPING_USOCK"]}
    [] r.ep = "STOPPING_USOCK" /\ type = "USOCK_SHUTDOWN" -> {r}
    [] r.ep = "STOPPING_USOCK" /\ type = "USOCK_STOPPED" ->
         {Raise([r EXCEPT !.ep = "DONE"], "bws", "AWS_ERROR")}
    [] OTHER -> {Bad(r)}

nn_aws_handler(r, type) ==
  CASE r.ep = "ACCEPTING" -> nn_aws_accepting(r, type)
    [] r.ep \in {"ACTIVE", "STOPPING_SWS", "STOPPING_USOCK"} ->
         nn_aws_active(r, type)
    [] r.ep \in {"STOPPING_SWS_FINAL", "STOPPING"} -> {nn_aws_shutdown(r)}
    [] OTHER -> {Bad(r)}

-----------------------------------------------------------------------------
(* bws: its steps give the next b, conn and events, in a record g         *)

Tagged(c, ev) == [i \in 1 .. Len(ev) |-> [c |-> c, to |-> ev[i].to,
                                          type |-> ev[i].type]]

(* The record r of the connection c is stored, and its events queued.      *)
Put(g, c, r) ==
  [g EXCEPT !.conn[c] = [r EXCEPT !.ev = << >>],
            !.q = @ \o Tagged(c, r.ev)]

(* The state, and the rest of the queue.                                   *)
Here == [b |-> b, conn |-> conn,
         q |-> IF queue = << >> THEN queue ELSE Tail(queue)]

Free(g) == {c \in Accept : g.conn[c] = Blank /\ g.b.cur # c}

Queued(r) == Raise([r EXCEPT !.usock = "ACCEPTED"], "ep", "USOCK_ACCEPTED")

(* nn_bws_start_accepting with nn_aws_start and nn_usock_accept: a       *)
(* connection is there already, or one is waited for.                      *)
nn_bws_start_accepting(g) ==
  {LET n == [Blank EXCEPT !.ep = "ACCEPTING", !.usock = "BEING_ACCEPTED"]
       h == [g EXCEPT !.b.cur = c] IN
   IF now THEN Put([h EXCEPT !.b.lis = "LISTENING"], c, Queued(n))
          ELSE Put([h EXCEPT !.b.lis = "ACCEPTING"], c, n)
     : c \in Free(g), now \in {x \in BOOLEAN : x => Cardinality(Free(g)) > 1}}

(* nn_bws_create with nn_bws_listen; one that fails leaves no endpoint.  *)
nn_bws_create ==
  nn_bws_start_accepting([Here EXCEPT !.b.state = "ACTIVE"])

(* nn_bws_shutdown from STOPPING_AWSS on.                                *)
AwssStopped(g) ==
  IF g.b.list = {} THEN [g EXCEPT !.b.state = "IDLE"] ELSE g

ListenerStopped(g) ==
  IF g.b.lis # "IDLE" THEN g
  ELSE AwssStopped([FoldSet(LAMBDA c, h : Put(h, c, nn_aws_stop(h.conn[c])),
                             g, g.b.list)
                       EXCEPT !.b.state = "STOPPING_AWSS"])

(* nn_bws_shutdown in STOPPING_AWS; the listener must not be accepting.  *)
CurStopped(g) ==
  IF g.conn[g.b.cur].ep # "IDLE" THEN g
  ELSE IF g.b.lis # "LISTENING" THEN [g EXCEPT !.b.bad = TRUE]
  ELSE [g EXCEPT !.conn[g.b.cur] = Blank, !.b.cur = None, !.b.lis = "STOPPED",
          !.b.state = "STOPPING_USOCK",
          !.q = Append(@, [c |-> None, to |-> "bws",
                           type |-> "LISTENER_STOPPED"])]

Erased(g, c) ==
  IF c \notin g.b.list THEN [g EXCEPT !.b.bad = TRUE]
  ELSE [g EXCEPT !.b.list = @ \ {c}, !.conn[c] = Blank]

nn_bws_shutdown(g, c, type) ==
  CASE g.b.state = "STOPPING_AWS" -> CurStopped(g)
    [] g.b.state = "STOPPING_USOCK" -> ListenerStopped(g)
    [] g.b.state = "STOPPING_AWSS" ->
         IF type = "AWS_STOPPED" THEN AwssStopped(Erased(g, c))
                                  ELSE [g EXCEPT !.b.bad = TRUE]

(* nn_bws_handler in the state ACTIVE.                                    *)
nn_bws_handler(g, c, type) ==
  CASE type = "AWS_ACCEPTED" ->
         nn_bws_start_accepting(
           [g EXCEPT !.b.list = @ \cup {g.b.cur}, !.b.cur = None])
    [] type = "AWS_ERROR" -> {Put(g, c, nn_aws_stop(g.conn[c]))}
    [] type = "AWS_STOPPED" -> {Erased(g, c)}
    [] OTHER -> {[g EXCEPT !.b.bad = TRUE]}

-----------------------------------------------------------------------------
Aborted == b.bad \/ \E c \in Conn : conn[c].bad

Becomes(G) ==
  /\ ~Aborted
  /\ \E g \in G : b' = g.b /\ conn' = g.conn /\ queue' = g.q

(* A call or an event of the worker: the context is free.                  *)
Enter(G) == queue = << >> /\ Becomes(G) /\ UNCHANGED calls

Stored(c, results) == {Put(Here, c, n) : n \in results}
Step(c, results) == Enter(Stored(c, results))

Closed == b.state = "IDLE" /\ conn["c"].ep = "IDLE"

(* nn_cws_create: peer_gone is left as the memory was.                     *)
nn_cws_create ==
  /\ Closed
  /\ Step("c", UNION {nn_cws_start_resolving(
                        [Blank EXCEPT !.server = FALSE, !.gone = left])
                       : left \in {x \in BOOLEAN : x => "memory" \in Rare}})
Bind == Closed /\ Enter(nn_bws_create)

Closing == {"STOPPING_SWS_FINAL", "STOPPING"}

CloseConnecting ==
  /\ conn["c"].ep \notin Closing \cup {"IDLE"}
  /\ Step("c", nn_cws_stop(conn["c"]))

(* NN_FSM_STOP of bws: the accept is cancelled first.                     *)
CloseBound ==
  /\ b.state = "ACTIVE"
  /\ Enter({Put([Here EXCEPT !.b.state = "STOPPING_AWS",
                             !.b.lis = "CANCELLING"],
                b.cur, nn_aws_stop(conn[b.cur]))})

Call(c, results) ==
  /\ conn[c].pipe /\ queue = << >> /\ calls < MaxCall
  /\ Becomes(Stored(c, results))
  /\ calls' = calls + 1

Send(c) == conn[c].out = "IDLE" /\ Call(c, nn_sws_send(conn[c]))
Recv(c) == conn[c].in = "HASMSG" /\ Call(c, nn_sws_recv(conn[c]))

(* The worker: what a socket, a timer, the resolver or the listener does.  *)
UsockStep(c) == Step(c, UsockEvents(conn[c]))
TimerStep(c) == Step(c, TimerEvents(conn[c]))
RetryStep == Step("c", BackoffEvents(conn["c"]))
DnsStep == Step("c", DnsEvents(conn["c"]))

Arrive ==
  /\ b.lis = "ACCEPTING" /\ Free(Here) # {}
  /\ Enter({Put([Here EXCEPT !.b.lis = "LISTENING"],
                b.cur, Queued(conn[b.cur])),
            Put(Here, b.cur, Raise(conn[b.cur], "ep", "ACCEPT_ERROR"))})

Cancelled ==
  /\ b.lis = "CANCELLING"
  /\ Enter({Put([Here EXCEPT !.b.lis = "LISTENING"], b.cur,
                Raise([conn[b.cur] EXCEPT !.usock = "STOPPED"],
                      "ep", "USOCK_STOPPED"))})

(* nn_ctx_leave: the first event goes to its machine.                      *)
HandlerOf(e, r) ==
  CASE e.to = "hdr" -> nn_ws_handshake_handler(r, e.type)
    [] e.to = "stream" -> nn_sws_handler(r, e.type)
    [] e.to = "ep" /\ e.c = "c" -> nn_cws_handler(r, e.type)
    [] e.to = "ep" /\ e.c # "c" -> nn_aws_handler(r, e.type)

BwsTaken(e) ==
  CASE e.type = "LISTENER_STOPPED" -> [Here EXCEPT !.b.lis = "IDLE"]
    [] e.type = "AWS_STOPPED" -> [Here EXCEPT !.conn[e.c].ep = "IDLE"]
    [] OTHER -> Here

nn_ctx_leave ==
  /\ queue # << >>
  /\ LET e == Head(queue) IN
     \/ /\ e.to # "bws"
        /\ Becomes(Stored(e.c, HandlerOf(e, Taken(conn[e.c], e.type))))
     \/ /\ e.to = "bws" /\ b.state = "ACTIVE"
        /\ Becomes(nn_bws_handler(BwsTaken(e), e.c, e.type))
     \/ /\ e.to = "bws" /\ b.state # "ACTIVE"
        /\ Becomes({nn_bws_shutdown(BwsTaken(e), e.c, e.type)})
  /\ UNCHANGED calls

Next ==
  \/ nn_cws_create \/ Bind \/ CloseConnecting \/ CloseBound
  \/ \E c \in Conn : Send(c) \/ Recv(c) \/ UsockStep(c) \/ TimerStep(c)
  \/ RetryStep \/ DnsStep \/ Arrive \/ Cancelled \/ nn_ctx_leave

Spec == Init /\ [][Next]_vars

(* The worker carries out its tasks, the kernel does not leave a           *)
(* connection half open, and timers fire.  A connection need not end.      *)
Working(c) == conn[c].usock # "ACTIVE" /\ UsockStep(c)

Fairness ==
  /\ WF_vars(nn_ctx_leave) /\ WF_vars(RetryStep) /\ WF_vars(DnsStep)
  /\ WF_vars(Cancelled)
  /\ \A c \in Conn : WF_vars(Working(c)) /\ WF_vars(TimerStep(c))

FairSpec == Spec /\ Fairness

-----------------------------------------------------------------------------
(* No machine gets an event it has no case for, no assertion of cws.c,     *)
(* bws.c, aws.c, sws.c and ws_handshake.c fails, and no event is raised    *)
(* whose struct still waits in the queue.                                  *)
NoBadEvent == ~Aborted /\ QueuedOnce(queue)

(* The socket was lost while the handshake stopped its timer, the error    *)
(* was ignored, and nothing has been read from it since.                   *)
LostUnheard(r) == r.usock = "DONE" /\ r.in = "HDR"

(* Between two steps a socket belongs to the machine that works with it,   *)
(* a pipe is started only over an active connection, on a client only when *)
(* the server has agreed, and stopped with it, unless the socket was lost  *)
(* before the pipe started, and a machine that is idle has left nothing    *)
(* running below it.                                                       *)
StackInStep ==
  queue = << >> /\ ~Aborted =>
    \A c \in Conn :
      LET r == conn[c] IN
      /\ r.owner = "hdr" => r.hdr # "IDLE"
      /\ r.owner = "stream" => r.stream \in
           {"ACTIVE", "CLOSING_CONNECTION", "BROKEN_CONNECTION"}
      /\ r.pipe => /\ r.stream = "ACTIVE" /\ r.owner = "stream"
                   /\ r.usock = "ACTIVE" \/ LostUnheard(r)
      /\ r.pipe => r.ok \/ r.server
      /\ r.stream = "IDLE" => r.hdr = "IDLE" /\ r.timer = "IDLE"
      /\ r.ep = "IDLE" => /\ r.stream = "IDLE" /\ r.usock = "IDLE"
                          /\ r.retry = "IDLE" /\ r.dns = "IDLE"

(* An endpoint that is closed comes to its end.                            *)
EndpointStops ==
  /\ conn["c"].ep \in Closing ~> conn["c"].ep = "IDLE"
  /\ b.state \notin {"IDLE", "ACTIVE"} ~> b.state = "IDLE"

(* A connection that was lost, or never made, is attempted again, unless   *)
(* the peer has closed it or was refused; then it never is.  A peer that   *)
(* says nothing is given up.  The loss of a socket is noticed unless it    *)
(* was lost before the pipe started (cws.c, ws_handshake.c).               *)
Reconnects ==
  /\ conn["c"].ep \in {"STOPPING_SWS", "STOPPING_USOCK", "WAITING"}
     /\ ~conn["c"].gone
       ~> conn["c"].ep \in {"RESOLVING", "IDLE"} \cup Closing
  /\ \A c \in Conn :
       conn[c].stream = "HANDSHAKE" ~> conn[c].stream # "HANDSHAKE"
  /\ \A c \in Conn :
       conn[c].usock = "DONE"
         ~> \/ conn[c].usock # "DONE"
            \/ queue = << >> /\ conn[c].pipe /\ LostUnheard(conn[c])

=============================================================================
