---------------------------- MODULE WsHandshake -----------------------------
(***************************************************************************)
(* What the two sides of a ws connection write to each other in the        *)
(* opening handshake (ws_handshake.c); their state machines are in Ws.     *)
(* The text is read without knowing how long it is, in pieces that must    *)
(* not reach into the first frame behind it, and then parsed line by line. *)
(* A side may be another implementation.  A text is a sequence of octets,  *)
(* in which the start of a line, up to its value, counts as one octet.     *)
(***************************************************************************)
EXTENDS Naturals, Sequences, SequencesExt, FiniteSetsExt

CONSTANTS
  Opening, Response,           \* lines another implementation may send
  MaxHs, MaxResponse,          \* the sizes of opening_hs and response
  LeastHs, LeastResponse,      \* the first recv_len of either mode
  MaxFrames,                   \* bound on what the server sends afterwards
  Rare                         \* "line", "fill" and "memory", see below

VARIABLES
  hs,        \* struct nn_ws_handshake of each side
  wire,      \* what was sent to a side and not read
  type,      \* the protocol of each side's socket
  said,      \* what each side sent, when it is another implementation
  late       \* the sides whose timer ran out or whose connection broke

vars == <<hs, wire, type, said, late>>

Side == {"client", "server"}
Nanomsg == << >>     \* said by a side that is nanomsg

(* An octet that starts a line carries the name of the field.              *)
Field(name, value) == [name |-> name, value |-> <<value>>]
Octet(c) == Field("", c)
CR == Octet("CR")
LF == Octet("LF")
TERMSEQ == <<CR, LF, CR, LF>>

NN_WS_HANDSHAKE_SP_MAP ==
  {[server |-> p[1], client |-> p[2], ws_sp |-> p[3]] :
     p \in {<<"PAIR", "PAIR", "pair">>, <<"REQ", "REP", "req">>,
            <<"REP", "REQ", "rep">>, <<"PUB", "SUB", "pub">>,
            <<"SUB", "PUB", "sub">>, <<"SURVEYOR", "RESPONDENT", "surveyor">>,
            <<"RESPONDENT", "SURVEYOR", "respondent">>,
            <<"PUSH", "PULL", "push">>, <<"PULL", "PUSH", "pull">>,
            <<"BUS", "BUS", "bus">>}}
Protocol == {m.server : m \in NN_WS_HANDSHAKE_SP_MAP}

-----------------------------------------------------------------------------
(* Matching                                                                *)

CRLF(t, i) == i \in 1 .. Len(t) - 1 /\ t[i] = CR /\ t[i + 1] = LF

(* The whole text was received.                                            *)
Complete(t) == \E i \in 1 .. Len(t) : CRLF(t, i) /\ CRLF(t, i + 2)

(* nn_ws_match_value: the line from i on, up to the next line end.         *)
nn_ws_match_value(t, i) ==
  SubSeq(t, i, Min({j \in i .. Len(t) : CRLF(t, j)}) - 1)

(* Where the lines start, and where the empty line ends the header.        *)
Starts(t) == {1} \cup {i + 2 : i \in {j \in 1 .. Len(t) : CRLF(t, j)}}
EmptyLine(t) == Min({i \in Starts(t) : CRLF(t, i)})

(* nn_ws_match_token: the lines of the header with a name.                 *)
nn_ws_match_token(t, name) ==
  {i \in Starts(t) : i > 1 /\ i < EmptyLine(t) /\ t[i].name = name}

(* Of two lines with one name the second overrides the first.              *)
Value(t, name) ==
  LET line == nn_ws_match_value(t, Max(nn_ws_match_token(t, name)))
  IN FlattenSeq([i \in 1 .. Len(line) |-> line[i].value])

nn_ws_validate_value(t, name, expected) == Value(t, name) = <<expected>>

(* The first line is one that the parser knows.                            *)
Starting(t, name) ==
  LET line == nn_ws_match_value(t, 1) IN Len(line) = 1 /\ line[1].name = name

(* nn_ws_handshake_hash_key: different keys have different hashes.         *)
nn_ws_handshake_hash_key(key) == <<"hash">> \o key

-----------------------------------------------------------------------------
(* Parsing: a result, or "ASSERT" where an assertion fails.                *)

nn_ws_handshake_parse_client_opening(t, protocol) ==
  IF Len(t) >= MaxHs THEN "ASSERT"
  ELSE IF ~Complete(t) \/ ~Starting(t, "GET") THEN "RECV_MORE"
  ELSE IF EmptyLine(t) + 1 # Len(t) THEN "ASSERT"
  ELSE IF \E name \in {"Host", "Upgrade", "Connection", "Key", "Version"} :
            nn_ws_match_token(t, name) = {} THEN "WSPROTO"
  ELSE IF ~nn_ws_validate_value(t, "Version", "13") THEN "WSVERSION"
  ELSE IF ~nn_ws_validate_value(t, "Upgrade", "websocket") THEN "WSPROTO"
  ELSE IF ~nn_ws_validate_value(t, "Connection", "Upgrade") THEN "WSPROTO"
  ELSE IF nn_ws_match_token(t, "Protocol") = {}
       THEN IF protocol = "PAIR" THEN "OK" ELSE "NOTPEER"
  ELSE LET rows == {m \in NN_WS_HANDSHAKE_SP_MAP :
                      nn_ws_validate_value(t, "Protocol", m.ws_sp)}
       IN IF rows = {} THEN "UNKNOWNTYPE"
          ELSE IF \E m \in rows : m.server = protocol THEN "OK" ELSE "NOTPEER"

nn_ws_handshake_parse_server_response(t, expected) ==
  IF Len(t) >= MaxResponse THEN "ASSERT"
  ELSE IF ~Complete(t) \/ ~Starting(t, "HTTP/1.1") THEN "RECV_MORE"
  ELSE IF EmptyLine(t) + 1 # Len(t) THEN "ASSERT"
  ELSE IF /\ \A name \in {"Upgrade", "Connection", "Accept"} :
               nn_ws_match_token(t, name) # {}
          /\ t[1].value = <<"101">>
          /\ nn_ws_validate_value(t, "Upgrade", "websocket")
          /\ nn_ws_validate_value(t, "Connection", "Upgrade")
          /\ Value(t, "Accept") = expected
       THEN "VALID"
  ELSE "INVALID"

-----------------------------------------------------------------------------
(* Writing                                                                 *)

(* Lines with their ends.                                                  *)
Written(lines) ==
  FlattenSeq([i \in 1 .. Len(lines) |-> lines[i] \o <<CR, LF>>])

(* nn_ws_handshake_client_request.                                         *)
nn_ws_handshake_client_request(protocol) ==
  LET sp == CHOOSE m \in NN_WS_HANDSHAKE_SP_MAP : m.client = protocol
  IN Written(<<<<Field("GET", "/")>>, <<Field("Host", "h")>>,
               <<Field("Upgrade", "websocket")>>,
               <<Field("Connection", "Upgrade")>>, <<Field("Key", "k1")>>,
               <<Field("Version", "13")>>,
               <<Field("Protocol", sp.ws_sp)>>, << >>>>)

(* nn_ws_handshake_server_reply; a refusal has no empty line at its end.   *)
nn_ws_handshake_server_reply(s) ==
  IF s.code = "OK"
  THEN Written(<<<<Field("HTTP/1.1", "101")>>,
                 <<Field("Upgrade", "websocket")>>,
                 <<Field("Connection", "Upgrade")>>,
                 <<[name |-> "Accept",
                    value |-> nn_ws_handshake_hash_key(Value(s.buf, "Key"))]>>,
                 <<Field("Protocol", "any")>>, << >>>>)
  ELSE Written(<<<<Field("HTTP/1.1", "400")>>, <<Field("Version", "13")>>>>)

-----------------------------------------------------------------------------
(* nn_ws_handshake_start, with the request of the client.                  *)
nn_ws_handshake_start(side) ==
  [state |-> IF side = "server" THEN "SERVER_RECV" ELSE "CLIENT_RECV",
   buf |-> << >>, code |-> "NULL",
   len |-> IF side = "server" THEN LeastHs ELSE LeastResponse]

Init ==
  /\ said \in {[client |-> o, server |-> Nanomsg] :
                 o \in Opening \cup {Nanomsg}}
                \cup {[client |-> Nanomsg, server |-> r] : r \in Response}
  /\ type \in [Side -> Protocol]
  /\ \A side \in Side : said[side] # Nanomsg => type[side] = "PAIR"
  /\ hs = [side \in Side |-> nn_ws_handshake_start(side)]
  /\ wire = [client |-> IF said.server = Nanomsg THEN << >>
                        ELSE Written(said.server \o <<<< >>>>) \o
                               [i \in 1 .. MaxFrames |-> Octet("frame")],
             server |-> IF said.client = Nanomsg
                        THEN nn_ws_handshake_client_request(type.client)
                        ELSE Written(said.client \o <<<< >>>>)]
  /\ late = {}

Size(side) == IF side = "server" THEN MaxHs ELSE MaxResponse

(* How much of the termination sequence ends the text.                     *)
Backtrack(t) ==
  Max({i \in 0 .. Len(TERMSEQ) :
         i <= Len(t) /\ SubSeq(t, Len(t) - i + 1, Len(t))
                          = SubSeq(TERMSEQ, 1, i)})

(* RECV_MORE, for both modes: what must at least be missing is read, and a *)
(* text that does not fit is refused.                                      *)
RecvMore(side, s) ==
  LET i == Backtrack(s.buf)
      len == Len(TERMSEQ) - i IN
  IF Len(s.buf) >= Size(side) \/ Len(s.buf) < Len(TERMSEQ) \/ len = 0
    THEN [s EXCEPT !.state = "ASSERT"]
  ELSE IF len + Len(s.buf) > Size(side)
    THEN [s EXCEPT !.state = IF side = "server" THEN "SERVER_REPLY"
                             ELSE "ERROR",
                   !.code = "TOO_BIG"]
  ELSE [s EXCEPT !.len = len]

(* The octets that were asked for are there.                               *)
Received(side) ==
  /\ Len(wire[side]) >= hs[side].len
  /\ wire' = [wire EXCEPT ![side] = SubSeq(@, hs[side].len + 1, Len(@))]
  /\ UNCHANGED <<type, said, late>>

Read(side) ==
  [hs[side] EXCEPT !.buf = @ \o SubSeq(wire[side], 1, hs[side].len)]

(* The state SERVER_RECV.  Left out unless in Rare: a first line that is   *)
(* not known, which the parser takes for an incomplete text, "line"; a     *)
(* text that fills the buffer to the last octet, "fill".                   *)
ServerReceived ==
  /\ hs.server.state = "SERVER_RECV"
  /\ said.server = Nanomsg
  /\ Received("server")
  /\ LET s == Read("server")
         rc == nn_ws_handshake_parse_client_opening(s.buf, type.server) IN
     /\ "fill" \in Rare \/ Len(s.buf) # MaxHs
     /\ "line" \in Rare \/ rc # "RECV_MORE" \/ ~Complete(s.buf)
     /\ hs' = [hs EXCEPT !.server =
                 CASE rc = "ASSERT" -> [s EXCEPT !.state = "ASSERT"]
                   [] rc = "RECV_MORE" -> RecvMore("server", s)
                   [] OTHER -> [s EXCEPT !.state = "SERVER_REPLY",
                                         !.code = rc]]

(* The reply is sent; with it the connection is used, whatever was said.   *)
(* A text that was too long has not been parsed: "memory" is the version   *)
(* that its reply repeats.                                                 *)
ServerReply ==
  /\ hs.server.state = "SERVER_REPLY"
  /\ wire' = [wire EXCEPT !.client =
                @ \o nn_ws_handshake_server_reply(hs.server)]
  /\ \E after \in {"DONE"} \cup
       IF "memory" \in Rare /\ hs.server.code = "TOO_BIG" THEN {"ASSERT"}
                                                        ELSE {} :
       hs' = [hs EXCEPT !.server.state = after]
  /\ UNCHANGED <<type, said, late>>

(* Frames of the server follow the reply at once.                          *)
ServerFrame ==
  /\ hs.server.state = "DONE"
  /\ Cardinality({i \in DOMAIN wire.client : wire.client[i] = Octet("frame")})
       < MaxFrames
  /\ wire' = [wire EXCEPT !.client = Append(@, Octet("frame"))]
  /\ UNCHANGED <<hs, type, said, late>>

(* The state CLIENT_RECV.                                                  *)
ClientReceived ==
  /\ hs.client.state = "CLIENT_RECV"
  /\ said.client = Nanomsg
  /\ Received("client")
  /\ LET s == Read("client")
         rc == nn_ws_handshake_parse_server_response(s.buf,
                 nn_ws_handshake_hash_key(<<"k1">>)) IN
     /\ "fill" \in Rare \/ Len(s.buf) # MaxResponse
     /\ "line" \in Rare \/ rc # "RECV_MORE" \/ ~Complete(s.buf)
     /\ hs' = [hs EXCEPT !.client =
                 CASE rc = "ASSERT" -> [s EXCEPT !.state = "ASSERT"]
                   [] rc = "RECV_MORE" -> RecvMore("client", s)
                   [] rc = "VALID" -> [s EXCEPT !.state = "DONE"]
                   [] rc = "INVALID" -> [s EXCEPT !.state = "ERROR"]]

(* The timer runs out, or the connection breaks.                           *)
Late(side) ==
  /\ said[side] = Nanomsg
  /\ hs[side].state \in {"SERVER_RECV", "SERVER_REPLY", "CLIENT_RECV"}
  /\ hs' = [hs EXCEPT ![side].state = "ERROR"]
  /\ late' = late \cup {side}
  /\ UNCHANGED <<wire, type, said>>

Next ==
  \/ ServerReceived \/ ServerReply \/ ServerFrame \/ ClientReceived
  \/ \E side \in Side : Late(side)

Spec == Init /\ [][Next]_vars

-----------------------------------------------------------------------------
(* What the lines of another implementation mean                           *)

Values(lines, name) ==
  LET at == {i \in 2 .. Len(lines) : lines[i] # << >>
                                       /\ lines[i][1].name = name}
  IN IF at = {} THEN {} ELSE {lines[Max(at)]}

Says(lines, name, value) == Values(lines, name) = {<<Field(name, value)>>}

Wellformed(lines) ==
  /\ Says(lines, "Upgrade", "websocket")
  /\ Says(lines, "Connection", "Upgrade")

Peers == [p \in Protocol |->
            (CHOOSE m \in NN_WS_HANDSHAKE_SP_MAP : m.server = p).client]

(* The opening asks a server of this type for what it can give.            *)
Acceptable(lines, protocol) ==
  /\ Wellformed(lines)
  /\ Says(lines, "Version", "13")
  /\ Values(lines, "Host") # {} /\ Values(lines, "Key") # {}
  /\ \/ Values(lines, "Protocol") = {} /\ protocol = "PAIR"
     \/ \E m \in NN_WS_HANDSHAKE_SP_MAP :
          Says(lines, "Protocol", m.ws_sp) /\ m.server = protocol

(* No assertion of the handshake fails.                                    *)
NoBadEvent == \A side \in Side : hs[side].state # "ASSERT"

(* The handshake takes exactly its own text from the connection: it never  *)
(* waits for more than that, and when it is done the frames behind it are  *)
(* all still to be read.                                                   *)
FramesLeft ==
  /\ hs.server.state = "SERVER_RECV" /\ said.server = Nanomsg =>
       Len(wire.server) >= hs.server.len
  /\ hs.client.state = "CLIENT_RECV" /\ said.client = Nanomsg =>
       \/ said.server = Nanomsg
            /\ (hs.server.state # "DONE" \/ hs.server.code # "OK")
       \/ Len(wire.client) >= hs.client.len
  /\ hs.client.state = "DONE" =>
       \A i \in DOMAIN wire.client : wire.client[i] = Octet("frame")
  /\ hs.server.state \in {"SERVER_REPLY", "DONE"}
       /\ hs.server.code # "TOO_BIG" => wire.server = << >>

(* A server agrees to what it can give and to nothing else, and a client   *)
(* starts to work with a server that has agreed and knows its key.         *)
Agreed ==
  /\ hs.server.code \notin {"NULL", "TOO_BIG"} =>
       (hs.server.code = "OK" <=>
          IF said.client = Nanomsg THEN type.server = Peers[type.client]
                                   ELSE Acceptable(said.client, type.server))
  /\ hs.client.state = "DONE" =>
       IF said.server = Nanomsg
         THEN hs.server.code = "OK" /\ type.server = Peers[type.client]
         ELSE /\ Wellformed(said.server)
              /\ said.server[1] = <<Field("HTTP/1.1", "101")>>
              /\ Values(said.server, "Accept") =
                   {<<[name |-> "Accept", value |-> <<"hash", "k1">>]>>}

(* A client and a server of nanomsg that are peers agree unless one of     *)
(* them is late: neither finds fault with what the other one writes.       *)
PeersAgree ==
  said.client = Nanomsg /\ said.server = Nanomsg
  /\ type.server = Peers[type.client] /\ late = {} =>
       /\ hs.client.state # "ERROR"
       /\ hs.server.code \in {"NULL", "OK"}

=============================================================================
