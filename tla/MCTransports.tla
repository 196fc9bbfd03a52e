---------------------------- MODULE MCTransports ----------------------------
(***************************************************************************)
(* The transports of nanomsg for TLC: tcp, ipc and ws with a connecting    *)
(* and a bound endpoint, inproc, and the frames and the handshake of a ws  *)
(* connection.  A behaviour is a behaviour of the one that was started;    *)
(* tcp and ipc share their variables.                                      *)
(***************************************************************************)
EXTENDS Naturals, Sequences, SequencesExt

CONSTANTS
  Systems,   \* the transports that may be started
  Rare, Accept, MaxCall, HsRoom,
  MaxMem, MaxMsg, MaxBind, Overlap,
  MaxSize, Cut, MaxFrame,
  MaxHs, MaxResponse, LeastHs, LeastResponse, MaxFrames

VARIABLES
  started,
  conn, b, queue, calls,
  wConn, wB, wQueue, wCalls,
  ep, ins, sin, iQueue, alone, bad, iSent, got, binds,
  mode, w, sent, legal, frames,
  hs, wire, type, said, late

T == INSTANCE Tcp
I == INSTANCE Ipc
W == INSTANCE Ws WITH MaxCall <- 1, conn <- wConn, b <- wB, queue <- wQueue,
                      calls <- wCalls
P == INSTANCE Inproc WITH queue <- iQueue, sent <- iSent

(* Frames: texts with characters of every length, complete and not, and    *)
(* what no text may hold; control frames; and frames that break the rules. *)
Texts ==
  {<< >>, <<65>>, <<195, 169>>, <<195>>, <<169>>, <<226, 130, 172>>,
   <<226, 130>>, <<224, 128, 128>>, <<237, 160, 128>>, <<240, 159, 128, 128>>,
   <<244, 144, 128, 128>>, <<130, 172>>}
Frames(Op, Fin, form, Data) ==
  [op : Op, fin : Fin, rsv : {FALSE}, masked : BOOLEAN, form : {form},
   data : Data]
AllFrames ==
  UNION {Frames({"TEXT", "FRAGMENT"}, BOOLEAN, "SHORT", Texts),
         Frames({"BINARY"}, BOOLEAN, "LONG", {<< >>, <<1, 2>>}),
         Frames({"PING"}, BOOLEAN, "SHORT", {<< >>}),
         Frames({"PONG"}, {TRUE}, "SHORT", {<<7>>}),
         Frames({"PONG"}, {TRUE}, "LONG", {<<7>>}),
         Frames({"CLOSE"}, {TRUE}, "SHORT",
                {<< >>, <<3>>, <<3, 232>>, <<3, 234>>, <<3, 237>>,
                 <<3, 239, 195>>}),
         Frames({"UNUSED3"}, {TRUE}, "SHORT", {<< >>}),
         {[op |-> "TEXT", fin |-> TRUE, rsv |-> TRUE, masked |-> TRUE,
           form |-> "SHORT", data |-> << >>]}}

F == INSTANCE WsFrame WITH Frame <- AllFrames

(* Handshakes of other implementations: fields that are missing, wrong,    *)
(* unknown or there twice, values with more octets behind them, among them *)
(* parts of a line end, and long texts.                                    *)
Line(name, value) == <<[name |-> name, value |-> <<value>>]>>
Octets(c) == {Line("", d)[1] : d \in c}
Behind ==
  UNION {[1 .. n -> Octets({"x", "CR", "LF"})] : n \in 1 .. 2}
    \ {Line("", "CR") \o Line("", "LF")}
Long == {[i \in 1 .. n |-> Line("", "x")[1]] : n \in 4 .. 9}

Changed(lines, Value) ==
  LET at == 2 .. Len(lines) IN
  UNION {{lines}, {RemoveAt(lines, i) : i \in at},
         {[lines EXCEPT ![i] = Line(lines[i][1].name, v)] :
            i \in at, v \in Value},
         {[lines EXCEPT ![i] = @ \o o] :
            i \in {3, Len(lines)}, o \in Behind \cup Long},
         {InsertAt(lines, i, Line(lines[j][1].name, "wrong")) :
            i \in {2, Len(lines) + 1}, j \in at},
         {InsertAt(lines, 2, Line("Unknown", "any"))}}

Openings ==
  Changed(<<Line("GET", "/"), Line("Host", "h"), Line("Upgrade", "websocket"),
            Line("Connection", "Upgrade"), Line("Key", "k2"),
            Line("Version", "13"), Line("Protocol", "pair")>>,
          {"wrong", "req", "pub"})
Responses ==
  Changed(<<Line("HTTP/1.1", "101"), Line("Upgrade", "websocket"),
            Line("Connection", "Upgrade"),
            <<[name |-> "Accept", value |-> <<"hash", "k1">>]>>>>, {"wrong"})
    \cup {<<Line("HTTP/1.1", "400")>>}

H == INSTANCE WsHandshake WITH Opening <- Openings, Response <- Responses

streams == <<conn, b, queue, calls>>
websocket == <<wConn, wB, wQueue, wCalls>>
inproc == <<ep, ins, sin, iQueue, alone, bad, iSent, got, binds>>
framing == <<mode, w, sent, legal, frames>>
opening == <<hs, wire, type, said, late>>
vars == <<started, streams, websocket, inproc, framing, opening>>

Init ==
  /\ started \in Systems
  /\ IF started = "ipc" THEN I!Init ELSE T!Init
  /\ W!Init /\ P!Init /\ F!Init
  /\ started # "frames" => mode = "SERVER"
  /\ IF started = "handshake" THEN H!Init
     ELSE /\ hs = << >> /\ wire = << >> /\ type = << >> /\ said = << >>
          /\ late = {}

Stream(name, step) ==
  /\ started = name /\ step
  /\ UNCHANGED <<started, websocket, inproc, framing, opening>>
Websocket(step) ==
  /\ started = "ws" /\ step
  /\ UNCHANGED <<started, streams, inproc, framing, opening>>
Inproc(step) ==
  /\ started = "inproc" /\ step
  /\ UNCHANGED <<started, streams, websocket, framing, opening>>
Framing(step) ==
  /\ started = "frames" /\ step
  /\ UNCHANGED <<started, streams, websocket, inproc, opening>>
Opening(step) ==
  /\ started = "handshake" /\ step
  /\ UNCHANGED <<started, streams, websocket, inproc, framing>>

Next ==
  \/ Stream("tcp", T!Next) \/ Stream("ipc", I!Next) \/ Websocket(W!Next)
  \/ Inproc(P!Next) \/ Framing(F!Next) \/ Opening(H!Next)

Spec == Init /\ [][Next]_vars

(* The fairness of the transport that was started.                         *)
FairSpec ==
  /\ Spec
  /\ WF_vars(\/ Stream("tcp", T!nn_ctx_leave) \/ Stream("ipc", I!nn_ctx_leave)
             \/ Websocket(W!nn_ctx_leave))
  /\ WF_vars(\/ Stream("tcp", T!RetryStep) \/ Stream("ipc", I!RetryStep)
             \/ Websocket(W!RetryStep))
  /\ WF_vars(Stream("tcp", T!DnsStep) \/ Websocket(W!DnsStep))
  /\ WF_vars(\/ Stream("tcp", T!Cancelled) \/ Stream("ipc", I!Cancelled)
             \/ Websocket(W!Cancelled))
  /\ \A c \in T!Conn :
       /\ WF_vars(\/ Stream("tcp", T!Working(c)) \/ Stream("ipc", I!Working(c))
                  \/ Websocket(W!Working(c)))
       /\ WF_vars(\/ Stream("tcp", T!TimerStep(c))
                  \/ Stream("ipc", I!TimerStep(c))
                  \/ Websocket(W!TimerStep(c)))
  /\ \A s \in P!Side :
       /\ WF_vars(Inproc(P!Deliver(s))) /\ WF_vars(Inproc(P!Return(s)))
       /\ WF_vars(Inproc(P!nn_sinproc_recv(s)))

-----------------------------------------------------------------------------
(* NoBadEvent of Tcp, Ipc, Ws and Inproc: no state machine of a transport  *)
(* gets an event it has no case for, no assertion fails.                   *)
NoBadEvent ==
  /\ started = "tcp" => T!NoBadEvent
  /\ started = "ipc" => I!NoBadEvent
  /\ started = "ws" => W!NoBadEvent
  /\ started = "inproc" => P!NoBadEvent
  /\ started = "handshake" => H!NoBadEvent

(* StackInStep of Tcp, Ipc and Ws: the machines of a connection that lie   *)
(* on each other agree on who works with the socket (stcp.c, streamhdr.c). *)
StackInStep ==
  /\ started = "tcp" => T!StackInStep
  /\ started = "ipc" => I!StackInStep
  /\ started = "ws" => W!StackInStep

(* Inproc.ExactTransfer, WsFrame.MessagesWhole and WsFrame.FailedRightly:  *)
(* the messages of a connection arrive whole, in order and as they were    *)
(* sent, and a peer is failed when it broke the rules (sws.c).             *)
(* WsHandshake.FramesLeft, Agreed and PeersAgree: the handshake leaves the *)
(* first frame unread and both sides decide alike (ws_handshake.c).        *)
Transferred ==
  /\ started = "inproc" => P!ExactTransfer
  /\ started = "frames" => F!MessagesWhole /\ F!FailedRightly
  /\ started = "handshake" => H!FramesLeft /\ H!Agreed /\ H!PeersAgree

(* EndpointStops and Reconnects of Tcp, Ipc and Ws, Inproc.TransferEnds:   *)
(* a close comes to its end, a loss is noticed unless it came before the   *)
(* pipe started, what was lost is connected again, a silent peer is given  *)
(* up, a transfer ends (ctcp.c, cipc.c, cws.c, sinproc.c).                 *)
Recovers ==
  /\ started = "tcp" => T!EndpointStops /\ T!Reconnects
  /\ started = "ipc" => I!EndpointStops /\ I!Reconnects
  /\ started = "ws" => W!EndpointStops /\ W!Reconnects
  /\ started = "inproc" => P!TransferEnds

(* Tcp.LossNoticed: the loss of a socket is always noticed (streamhdr.c).  *)
LossNoticed == started = "tcp" => T!LossNoticed

=============================================================================
