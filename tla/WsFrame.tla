------------------------------ MODULE WsFrame -------------------------------
(***************************************************************************)
(* The inbound side of a WebSocket connection of nanomsg (sws.c): frames   *)
(* are read in up to three parts (header, extended header, payload),       *)
(* control frames may come between the frames of a message, text is        *)
(* checked to be UTF-8 frame by frame, and a peer that breaks the rules is *)
(* failed with a close code.  An octet is a number; a mask is not          *)
(* modelled beyond being there.                                            *)
(***************************************************************************)
EXTENDS Integers, Sequences, SequencesExt

CONSTANTS
  Frame,      \* frames a peer may send: op, fin, rsv, masked, form, data
  MaxSize,    \* NN_RCVMAXSIZE
  Cut,        \* a text may be cut inside a code point
  MaxFrame    \* bound on the frames of a connection

VARIABLES
  mode,       \* NN_WS_CLIENT or NN_WS_SERVER
  w,          \* struct nn_sws
  sent,       \* the message that the peer is sending
  legal,      \* the peer has kept to the rules
  frames

vars == <<mode, w, sent, legal, frames>>

ERR_PROTO == 1002
ERR_INVALID_FRAME == 1007
ERR_TOOBIG == 1009
CLOSE_NORMAL == 1000

Control == {"CLOSE", "PING", "PONG"}
Opcode == {"FRAGMENT", "TEXT", "BINARY"} \cup Control
Nothing == [op |-> "NONE", data |-> << >>, open |-> FALSE]

-----------------------------------------------------------------------------
(* UTF-8                                                                   *)

FRAGMENT == -1
INVALID == -2

(* nn_utf8_code_point: the length of the code point that starts b.         *)
Follows(b, i) == b[i] \in 128 .. 191

nn_utf8_code_point(b) ==
  LET len == Len(b) IN
  CASE len = 0 -> FRAGMENT
    [] len > 0 /\ b[1] <= 127 -> 1
    [] len > 0 /\ b[1] \in 128 .. 193 -> INVALID
    [] len > 0 /\ b[1] \in 194 .. 223 ->
         IF len < 2 THEN FRAGMENT ELSE IF Follows(b, 2) THEN 2 ELSE INVALID
    [] len > 0 /\ b[1] \in 224 .. 239 ->
         CASE len < 2 -> FRAGMENT
           [] len >= 2 /\ b[1] = 224 /\ b[2] < 160 -> INVALID
           [] len >= 2 /\ b[1] = 237 /\ b[2] >= 160 -> INVALID
           [] OTHER -> IF len < 3 THEN FRAGMENT
                       ELSE IF Follows(b, 2) /\ Follows(b, 3) THEN 3
                       ELSE INVALID
    [] len > 0 /\ b[1] \in 240 .. 244 ->
         CASE len < 2 -> FRAGMENT
           [] len >= 2 /\ b[1] = 240 /\ b[2] < 144 -> INVALID
           [] len >= 2 /\ b[1] = 244 /\ b[2] >= 144 -> INVALID
           [] OTHER -> IF len < 4 THEN FRAGMENT
                       ELSE IF \A i \in 2 .. 4 : Follows(b, i) THEN 4
                       ELSE INVALID
    [] OTHER -> INVALID

(* The loop over a buffer: where it stops, and why; "OK" at the end.       *)
Scan(b) ==
  LET at[i \in 1 .. Len(b) + 1] ==
        IF i > Len(b) THEN [at |-> i, why |-> "OK"]
        ELSE LET n == nn_utf8_code_point(SubSeq(b, i, Len(b))) IN
             CASE n = INVALID -> [at |-> i, why |-> "INVALID"]
               [] n = FRAGMENT -> [at |-> i, why |-> "FRAGMENT"]
               [] OTHER -> at[i + n]
  IN at[1]

-----------------------------------------------------------------------------
(* sws                                                                     *)

Bad(s) == [s EXCEPT !.bad = TRUE]

nn_sws_init ==
  [state |-> "ACTIVE", in |-> "RECV_HDR", f |-> Nothing, cont |-> FALSE,
   first |-> "NONE", array |-> << >>, frag |-> << >>, code |-> 0,
   bad |-> FALSE]

Init ==
  /\ mode \in {"CLIENT", "SERVER"}
  /\ w = nn_sws_init
  /\ sent = Nothing
  /\ legal = TRUE
  /\ frames = 0

(* nn_sws_recv_hdr; outside a message there is nothing left to collect.    *)
nn_sws_recv_hdr(s) ==
  IF ~s.cont /\ s.array # << >> THEN Bad(s)
  ELSE [s EXCEPT !.in = "RECV_HDR"]

(* nn_sws_fail_conn.                                                       *)
nn_sws_fail_conn(s, code) ==
  IF s.state # "ACTIVE" THEN Bad(s)
  ELSE [s EXCEPT !.in = "CLOSED", !.state = "CLOSING", !.array = << >>,
                 !.code = code]

(* The message is complete, or its next frame is read.                     *)
Whole(s) ==
  IF s.f.fin THEN [s EXCEPT !.in = "RECVD_CHUNKED"] ELSE nn_sws_recv_hdr(s)

(* nn_sws_acknowledge_close_handshake: the code is repeated.               *)
nn_sws_acknowledge_close_handshake(s) ==
  LET d == s.f.data
      code == d[1] * 256 + d[2] IN
  CASE d = << >> -> nn_sws_fail_conn(s, CLOSE_NORMAL)
    [] d # << >> /\ Scan(SubSeq(d, 3, Len(d))).why # "OK" ->
         nn_sws_fail_conn(s, ERR_PROTO)
    [] OTHER -> nn_sws_fail_conn(s,
         IF code \in (1000 .. 1003) \cup (1007 .. 1011) \cup (3000 .. 4999)
           THEN code ELSE ERR_PROTO)

(* nn_sws_validate_utf8_chunk from where the old fragment is completed.    *)
ValidateFrom(s, b) ==
  LET end == Scan(b) IN
  CASE end.why = "INVALID" ->
         nn_sws_fail_conn([s EXCEPT !.frag = << >>], ERR_INVALID_FRAME)
    [] end.why = "FRAGMENT" ->
         LET n == [s EXCEPT !.frag = SubSeq(b, end.at, Len(b))] IN
         IF s.f.fin THEN nn_sws_fail_conn(n, ERR_INVALID_FRAME)
                    ELSE nn_sws_recv_hdr(n)
    [] OTHER -> Whole([s EXCEPT !.frag = << >>])

(* nn_sws_validate_utf8_chunk: one octet is added to a fragment that was   *)
(* left, and if that does not complete it the frame is over.               *)
nn_sws_validate_utf8_chunk(s) ==
  LET p == Append(s.frag, s.f.data[1])
      n == nn_utf8_code_point(p)
      t == [s EXCEPT !.frag = p] IN
  CASE s.frag = << >> -> ValidateFrom(s, s.f.data)
    [] s.frag # << >> /\ n > 0 ->
         IF Len(p) >= 4 THEN Bad(s) ELSE ValidateFrom(t, Tail(s.f.data))
    [] s.frag # << >> /\ n = INVALID ->
         nn_sws_fail_conn(t, ERR_INVALID_FRAME)
    [] s.frag # << >> /\ n = FRAGMENT ->
         IF s.f.fin THEN nn_sws_fail_conn(t, ERR_INVALID_FRAME)
                    ELSE nn_sws_recv_hdr(t)

(* A frame without payload.                                                *)
Empty(s) ==
  CASE s.f.op = "CLOSE" -> nn_sws_acknowledge_close_handshake(s)
    [] s.f.op \in {"PING", "PONG"} -> [s EXCEPT !.in = "RECVD_CONTROL"]
    [] OTHER -> Whole(s)

(* The payload is about to be read: a message may become too large.        *)
Payload(s) ==
  CASE s.f.op \in Control -> [s EXCEPT !.in = "RECV_PAYLOAD"]
    [] s.f.op \notin Control
         /\ Len(FlattenSeq(s.array)) + Len(s.f.data) > MaxSize ->
         nn_sws_fail_conn(s, ERR_TOOBIG)
    [] OTHER -> [s EXCEPT !.array = Append(@, s.f.data),
                          !.in = "RECV_PAYLOAD"]

(* The end of RECV_HDR: what is read next depends on ext_hdr_len, which is *)
(* zero only for a client and a short payload.                             *)
HeaderRead(s) ==
  CASE mode = "SERVER" \/ s.f.form # "SHORT" -> [s EXCEPT !.in = "RECV_HDREXT"]
    [] OTHER -> IF s.f.data = << >> THEN Empty(s) ELSE Payload(s)

(* A variant with a slip: a control frame ends the message it interrupts.  *)
nn_sws_opcodeForgets(s) ==
  LET f == s.f IN
  CASE f.op \in {"TEXT", "BINARY"} ->
         IF s.cont THEN nn_sws_fail_conn(s, ERR_PROTO)
                   ELSE HeaderRead([s EXCEPT !.cont = ~f.fin])
    [] f.op = "FRAGMENT" -> HeaderRead([s EXCEPT !.cont = ~f.fin])
    [] f.op \in Control ->
         IF f.form # "SHORT" \/ ~f.fin \/ (f.op = "CLOSE" /\ Len(f.data) = 1)
           THEN nn_sws_fail_conn(s, ERR_PROTO)
           ELSE HeaderRead([s EXCEPT !.cont = FALSE, !.array = << >>])
    [] OTHER -> nn_sws_fail_conn(s, ERR_PROTO)

(* The switch over the opcodes in RECV_HDR.                                *)
nn_sws_opcode(s) ==
  LET f == s.f IN
  CASE f.op \in {"TEXT", "BINARY"} ->
         IF s.cont THEN nn_sws_fail_conn(s, ERR_PROTO)
                   ELSE HeaderRead([s EXCEPT !.cont = ~f.fin])
    [] f.op = "FRAGMENT" -> HeaderRead([s EXCEPT !.cont = ~f.fin])
    [] f.op \in Control ->
         IF f.form # "SHORT" \/ ~f.fin \/ (f.op = "CLOSE" /\ Len(f.data) = 1)
           THEN nn_sws_fail_conn(s, ERR_PROTO)
           ELSE HeaderRead(s)
    [] OTHER -> nn_sws_fail_conn(s, ERR_PROTO)

(* The state RECV_HDR.                                                     *)
nn_sws_header(s, f) ==
  LET n == [s EXCEPT !.f = f] IN
  IF f.rsv \/ f.masked # (mode = "SERVER") \/ (~s.cont /\ f.op = "FRAGMENT")
    THEN nn_sws_fail_conn(n, ERR_PROTO)
    ELSE nn_sws_opcode([n EXCEPT !.first = IF s.cont THEN @ ELSE f.op])

(* The state RECV_HDREXT.                                                  *)
nn_sws_hdrext(s) == IF s.f.data = << >> THEN Empty(s) ELSE Payload(s)

(* The state RECV_PAYLOAD.                                                 *)
nn_sws_payload(s) ==
  CASE s.f.op = "TEXT" \/ (s.f.op = "FRAGMENT" /\ s.first = "TEXT") ->
         nn_sws_validate_utf8_chunk(s)
    [] s.f.op \in {"PING", "PONG"} -> [s EXCEPT !.in = "RECVD_CONTROL"]
    [] s.f.op = "CLOSE" -> nn_sws_acknowledge_close_handshake(s)
    [] OTHER -> Whole(s)

(* nn_sws_recv: the chunks of a message are put together.                  *)
nn_sws_recv(s) ==
  CASE s.in = "RECVD_CHUNKED" ->
         IF s.f.fin /\ s.first \in {"TEXT", "BINARY"}
           THEN nn_sws_recv_hdr([s EXCEPT !.array = << >>, !.cont = FALSE])
           ELSE Bad(s)
    [] s.in = "RECVD_CONTROL" ->
         IF s.f.fin /\ s.f.op \in {"PING", "PONG"} THEN nn_sws_recv_hdr(s)
                                                  ELSE Bad(s)
    [] OTHER -> Bad(s)

-----------------------------------------------------------------------------
(* What the frames of the peer mean, by RFC 6455 and RFC 3629              *)

Bits(b, i) == b[i] - 128

(* The value that b encodes, if it has the shape of a code point.          *)
Value(b) ==
  CASE Len(b) = 1 -> b[1]
    [] Len(b) = 2 -> (b[1] - 192) * 64 + Bits(b, 2)
    [] Len(b) = 3 -> (b[1] - 224) * 4096 + Bits(b, 2) * 64 + Bits(b, 3)
    [] Len(b) = 4 -> (b[1] - 240) * 262144 + Bits(b, 2) * 4096
                       + Bits(b, 3) * 64 + Bits(b, 4)

Lead == <<0 .. 127, 192 .. 223, 224 .. 239, 240 .. 247>>
Least == <<0, 128, 2048, 65536>>
Greatest == 1114111
Surrogate == 55296 .. 57343

CodePoint(b) ==
  /\ b[1] \in Lead[Len(b)]
  /\ \A i \in 2 .. Len(b) : Follows(b, i)
  /\ Value(b) \in Least[Len(b)] .. Greatest
  /\ Value(b) \notin Surrogate

(* b is a sequence of code points.                                         *)
Utf8(b) ==
  LET from[i \in 1 .. Len(b) + 1] ==
        \/ i > Len(b)
        \/ \E n \in 1 .. 4 : /\ i + n <= Len(b) + 1
                             /\ CodePoint(SubSeq(b, i, i + n - 1))
                             /\ from[i + n]
  IN from[1]

Legal(f) ==
  /\ ~f.rsv
  /\ f.masked = (mode = "SERVER")
  /\ f.op \in Opcode
  /\ f.op \notin Control => (f.op = "FRAGMENT" <=> sent.open)
  /\ f.op \in Control => f.fin /\ f.form = "SHORT"
  /\ f.op = "CLOSE" /\ f.data # << >> =>
       /\ Len(f.data) >= 2 /\ Utf8(SubSeq(f.data, 3, Len(f.data)))
       /\ f.data[1] * 256 + f.data[2] \in
            (1000 .. 1003) \cup (1007 .. 1011) \cup (3000 .. 4999)

After(f) ==
  CASE f.op \in {"TEXT", "BINARY"} ->
         [op |-> f.op, data |-> f.data, open |-> ~f.fin]
    [] f.op = "FRAGMENT" ->
         [sent EXCEPT !.data = @ \o f.data, !.open = ~f.fin]
    [] OTHER -> sent

(* A frame of text that is not the last and ends inside a code point.      *)
EndsInside(f) ==
  /\ ~f.fin
  /\ f.op = "TEXT" \/ (f.op = "FRAGMENT" /\ sent.op = "TEXT")
  /\ Scan(f.data).why = "FRAGMENT"

-----------------------------------------------------------------------------
Working == w.state = "ACTIVE" /\ ~w.bad

(* A frame arrives: the header is read.                                    *)
RecvHdr(f) ==
  /\ Working /\ w.in = "RECV_HDR" /\ frames < MaxFrame
  /\ Cut \/ ~EndsInside(f)
  /\ w' = nn_sws_header(w, f)
  /\ legal' = Legal(f)
  /\ sent' = IF Legal(f) THEN After(f) ELSE sent
  /\ frames' = frames + 1
  /\ UNCHANGED mode

RecvHdrExt ==
  /\ Working /\ w.in = "RECV_HDREXT"
  /\ w' = nn_sws_hdrext(w)
  /\ UNCHANGED <<mode, sent, legal, frames>>

RecvPayload ==
  /\ Working /\ w.in = "RECV_PAYLOAD"
  /\ w' = nn_sws_payload(w)
  /\ UNCHANGED <<mode, sent, legal, frames>>

Recv ==
  /\ Working /\ w.in \in {"RECVD_CHUNKED", "RECVD_CONTROL"}
  /\ w' = nn_sws_recv(w)
  /\ UNCHANGED <<mode, sent, legal, frames>>

Next == (\E f \in Frame : RecvHdr(f)) \/ RecvHdrExt \/ RecvPayload \/ Recv

Spec == Init /\ [][Next]_vars

-----------------------------------------------------------------------------
(* A message is given to the user when the peer has sent all of it, with   *)
(* what the peer has sent, whatever control frames came in between; and no *)
(* assertion of sws.c fails.                                               *)
MessagesWhole ==
  /\ ~w.bad
  /\ w.in = "RECVD_CHUNKED" =>
       /\ FlattenSeq(w.array) = sent.data
       /\ w.first = sent.op /\ ~sent.open

(* A peer is failed for breaking the protocol only if it has, for a text   *)
(* that is not UTF-8 only if it is not, and such a text is not delivered.  *)
FailedRightly ==
  /\ w.code = ERR_PROTO /\ legal =>
       w.f.op = "CLOSE" /\ w.f.data[1] * 256 + w.f.data[2] = ERR_PROTO
  /\ ~legal => w.state # "ACTIVE" \/ w.f.op = "CLOSE"
  /\ w.code = ERR_INVALID_FRAME /\ legal =>
       w.f.op = "CLOSE" \/ (sent.op = "TEXT" /\ ~Utf8(sent.data))
  /\ w.in = "RECVD_CHUNKED" /\ sent.op = "TEXT" => Utf8(sent.data)
  /\ w.code = ERR_TOOBIG /\ w.f.op # "CLOSE" => Len(sent.data) > MaxSize

=============================================================================
