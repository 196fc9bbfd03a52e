--------------------------- MODULE TransportsProofs ---------------------------
(***************************************************************************)
(* Proofs about the transports of nanomsg.                                 *)
(*                                                                         *)
(* Inproc: the two ends share no lock, each delivers to the other after    *)
(* its own is released, so an invariant has to say where they are and      *)
(* which events are on their way at once.  InprocInv has three cases:      *)
(* nothing is connected and no event is on its way (Apart); the ends are   *)
(* connected and a message is on its way or not in each direction          *)
(* (Linked); one thread is opening or closing and the other side is in no  *)
(* call (Changes).                                                         *)
(*                                                                         *)
(* Frames: a step sees the octets of one frame, and the property is about  *)
(* the message they make with those before them.  FrameInv says for each   *)
(* state of the receiver what the chunks it keeps are of the message the   *)
(* peer has sent so far (Between, BeforePayload, WithPayload, Complete,    *)
(* InControl) and why a connection is closed (Rightly).  It rests on what  *)
(* the loop of Scan finds in a text of any length, proved by the least     *)
(* place where a recursive function would not be as stated.                *)
(***************************************************************************)
EXTENDS MCTransports, SequenceTheorems, WellFoundedInduction, TLAPS

-----------------------------------------------------------------------------
(* Inproc                                                                  *)

(* A call raises at most one event at a time.                              *)
Raised(t, s, kind) == iQueue[t] = <<P!Event(s, kind)>>
Quiet(t) == iQueue[t] = << >>

Connecting == [P!nn_sinproc_init EXCEPT !.state = "CONNECTING",
                                        !.fsm = "ACTIVE"]
Readied == [P!nn_sinproc_init EXCEPT !.state = "READY", !.fsm = "ACTIVE",
                                     !.peer = TRUE]

(* The end of s is not connected, and connected.                           *)
Down(s) ==
  /\ sin[s].in = "OFF" /\ sin[s].out = "OFF"
  /\ \/ /\ sin[s].fsm = "IDLE" /\ sin[s].state = "IDLE"
        /\ ep[s] \in {"NONE", "IDLE"} \/ P!Accepts(s)
     \/ /\ s = "b" /\ ep[s] = "ACTIVE"
        /\ sin[s].fsm = "ACTIVE" /\ sin[s].state = "DISCONNECTED"
Up(s) ==
  /\ ep[s] = "ACTIVE" /\ sin[s].peer
  /\ sin[s].fsm = "ACTIVE" /\ sin[s].state = "ACTIVE"

(* Nothing is connected, and no call opens or closes.                      *)
Apart == \A s \in P!Side : Down(s) /\ Quiet(s)

(* From p to s a message is nowhere, told to s, waits for room, or has     *)
(* been taken, which p will be told by one of the threads.                 *)
Way(p, s) ==
  \/ /\ ~sin[p].sending /\ sin[p].msg = 0 /\ ~sin[s].receiving
     /\ ~Raised(p, s, "SENT") /\ \A t \in P!Side : ~Raised(t, p, "RECEIVED")
  \/ /\ sin[p].sending /\ sin[p].msg # 0 /\ ~sin[s].receiving
     /\ Raised(p, s, "SENT") /\ ~Raised(s, p, "RECEIVED")
  \/ /\ sin[p].sending /\ sin[p].msg # 0 /\ sin[s].receiving
     /\ ~Raised(p, s, "SENT") /\ \A t \in P!Side : ~Raised(t, p, "RECEIVED")
  \/ /\ sin[p].sending /\ sin[p].msg = 0 /\ ~sin[s].receiving
     /\ Raised(p, p, "RECEIVED") /\ ~Raised(s, p, "RECEIVED")
  \/ /\ sin[p].sending /\ sin[p].msg = 0 /\ ~sin[s].receiving
     /\ Raised(s, p, "RECEIVED")
     /\ ~Raised(p, p, "RECEIVED") /\ ~Raised(p, s, "SENT")

Shown(m) == IF m = 0 THEN << >> ELSE <<m>>

Carried(p, s) ==
  /\ iSent[p] = got[s] \o sin[s].msgqueue \o Shown(sin[p].msg)
  /\ (sin[s].in = "IDLE") = (sin[s].msgqueue # << >>)
  /\ sin[p].out \in {"IDLE", "ASYNC"}
  /\ sin[p].sending = (sin[p].out = "ASYNC")
  /\ Way(p, s)

DataEvents(t) ==
  \/ Quiet(t) \/ Raised(t, P!Other(t), "SENT")
  \/ \E s \in P!Side : Raised(t, s, "RECEIVED")

Linked ==
  /\ alone = {}
  /\ \A s \in P!Side :
       Up(s) /\ Carried(s, P!Other(s)) /\ DataEvents(s)

(* Thread t opens, step by step, or closes.                                *)
Opens(t, s) ==
  \/ /\ Raised(t, s, "CONNECT") /\ P!Accepts(s)
     /\ ep[t] = "ACTIVE" /\ sin[t] = Connecting
  \/ /\ Raised(t, t, "READY") /\ \A x \in P!Side : ep[x] = "ACTIVE"
     /\ sin[t] = Connecting /\ sin[s] = Readied
  \/ /\ Raised(t, s, "ACCEPTED") /\ \A x \in P!Side : ep[x] = "ACTIVE"
     /\ sin[t] = P!Started(Connecting) /\ sin[s] = Readied
     /\ iSent[t] = << >> /\ \A x \in P!Side : got[x] = << >>

Closes(t, s) ==
  /\ ep[t] = "STOPPING"
  /\ sin[t].fsm = "STOPPING" /\ sin[t].state = "STOPPING_PEER"
  /\ sin[t].in = "OFF" /\ sin[t].out = "OFF"
  /\ \/ Raised(t, s, "DISCONNECT") /\ Up(s)
     \/ Raised(t, t, "DISCONNECT") /\ Down(s)

Changes(t, s) ==
  alone = {t} /\ Quiet(s) /\ (Opens(t, s) \/ Closes(t, s))

SinType ==
  [state : {"IDLE", "CONNECTING", "READY", "ACTIVE", "DISCONNECTED",
            "STOPPING_PEER", "STOPPING"},
   fsm : {"IDLE", "ACTIVE", "STOPPING"}, peer : BOOLEAN, sending : BOOLEAN,
   receiving : BOOLEAN, msgqueue : Seq(Nat), msg : Nat,
   in : {"OFF", "IDLE", "ASYNC"}, out : {"OFF", "IDLE", "ASYNC"}]

InprocTypes ==
  /\ ep \in [P!Side -> {"NONE", "IDLE", "ACTIVE", "DISCONNECTED", "STOPPING"}]
  /\ ins \subseteq P!Side
  /\ sin \in [P!Side -> SinType]
  /\ DOMAIN iQueue = P!Side
  /\ alone \subseteq P!Side
  /\ iSent \in [P!Side -> Seq(Nat)]
  /\ got \in [P!Side -> Seq(Nat)]

InprocInv ==
  /\ InprocTypes
  /\ ~bad
  /\ \A s \in ins : ep[s] \in {"ACTIVE", "DISCONNECTED"}
  /\ \/ Apart \/ Linked \/ \E t \in P!Side : Changes(t, P!Other(t))

(* What sinproc.c, cinproc.c, binproc.c and ins.c have to keep.            *)
Kept ==
  /\ InprocTypes
  /\ ~bad
  /\ \A s \in ins : ep[s] \in {"ACTIVE", "DISCONNECTED"}

(* The two sides.                                                          *)
LEMMA Sides ==
  /\ P!Side = {"c", "b"}
  /\ \A s \in P!Side : /\ P!Other(s) \in P!Side /\ P!Other(s) # s
                       /\ P!Other(P!Other(s)) = s
                       /\ P!Side = {s, P!Other(s)}
BY DEF P!Side, P!Other

(* Events that differ in their receiver or in their name are different.    *)
LEMMA EventsDiffer ==
  ASSUME NEW t, NEW s1, NEW s2, NEW k1, NEW k2, Raised(t, s1, k1)
  PROVE  /\ ~Quiet(t) /\ Len(iQueue[t]) = 1
         /\ Head(iQueue[t]) = P!Event(s1, k1) /\ Tail(iQueue[t]) = << >>
         /\ Raised(t, s2, k2) <=> s1 = s2 /\ k1 = k2
         /\ P!Event(s1, k1) = P!Event(s2, k2) <=> s1 = s2 /\ k1 = k2
BY DEF Raised, Quiet, P!Event

(* The records of an end that has been made: nothing sent, nothing queued. *)
Untouched(r) ==
  r \in SinType /\ ~r.sending /\ ~r.receiving /\ r.msg = 0 /\ r.msgqueue = << >>

(* What nn_sinproc_init leaves, and what nn_pipebase_start makes of an     *)
(* end.                                                                    *)
LEMMA NewEnds ==
  /\ P!nn_sinproc_init \in SinType
  /\ Untouched(Connecting) /\ Untouched(Readied)
  /\ Connecting.fsm = "ACTIVE" /\ Connecting.state = "CONNECTING"
  /\ Readied.fsm = "ACTIVE" /\ Readied.state = "READY"
  /\ \A r \in {Connecting, Readied} :
       LET n == P!Started(r) IN
       /\ Untouched(n) /\ n.fsm = "ACTIVE" /\ n.state = "ACTIVE" /\ n.peer
       /\ n.in = "ASYNC" /\ n.out = "IDLE"
<1> DEFINE i == P!nn_sinproc_init
<1>1. /\ i \in SinType /\ ~i.sending
      /\ ~i.receiving /\ i.msg = 0 /\ i.msgqueue = << >>
  BY DEF P!nn_sinproc_init, SinType
<1> HIDE DEF i
<1>2. /\ Untouched(Connecting) /\ Untouched(Readied)
      /\ Connecting.fsm = "ACTIVE" /\ Connecting.state = "CONNECTING"
      /\ Readied.fsm = "ACTIVE" /\ Readied.state = "READY"
  BY <1>1 DEF i, Connecting, Readied, SinType, Untouched
<1>3. ASSUME NEW r, Untouched(r), r.fsm = "ACTIVE"
      PROVE  LET n == P!Started(r) IN
             /\ Untouched(n) /\ n.fsm = "ACTIVE" /\ n.state = "ACTIVE"
             /\ n.peer /\ n.in = "ASYNC" /\ n.out = "IDLE"
  BY <1>3 DEF P!Started, SinType, Untouched
<1> QED
  BY <1>1, <1>2, <1>3 DEF i

(* A call that opens or closes has the endpoints for itself.               *)
LEMMA CallsAlone ==
  ASSUME InprocInv, ~Overlap, NEW t \in P!Side, P!CallAlone(t)
  PROVE  /\ alone = {} /\ alone' = {t}
         /\ \A s \in P!Side : Quiet(s)
         /\ Apart \/ Linked
<1>1. alone = {} /\ alone' = {t} /\ Quiet(t) /\ Quiet(P!Other(t))
  BY DEF P!CallAlone, P!Call, Quiet
<1>2. \A s \in P!Side : Quiet(s)
  BY <1>1, Sides
<1>3. \A s \in P!Side : ~Changes(s, P!Other(s))
  BY <1>1 DEF Changes
<1> QED
  BY <1>1, <1>2, <1>3 DEF InprocInv

(* nn_cinproc_create and nn_binproc_create: a handshake begins, or the     *)
(* endpoint waits.                                                         *)
LEMMA CreateKeeps ==
  ASSUME InprocInv, ~Overlap, P!nn_cinproc_create \/ P!nn_binproc_create
  PROVE  InprocInv'
<1>1. PICK t \in P!Side : /\ t = "c" => P!nn_cinproc_create
                          /\ t = "b" => P!nn_binproc_create
  BY DEF P!Side
<1> DEFINE s == P!Other(t)
<1>2. /\ P!CallAlone(t) /\ ep[t] \in {"NONE", "IDLE"}
      /\ t = "c" => ep[t] = "NONE"
      /\ ins' = ins \cup {t} /\ UNCHANGED <<bad, iSent, got>>
  BY <1>1 DEF P!nn_cinproc_create, P!nn_binproc_create, P!Side
<1>3. /\ alone = {} /\ alone' = {t} /\ \A x \in P!Side : Quiet(x)
      /\ Apart \/ Linked
  BY <1>2, CallsAlone
<1>4. Apart
  BY <1>2, <1>3 DEF Linked, Up
<1>5. /\ s \in P!Side /\ s # t /\ P!Side = {t, s} /\ P!Other(s) = t
  BY Sides
<1>6. Kept
  BY DEF InprocInv, Kept
<1>7. CASE s \in ins
  <2>1. /\ ep' = [ep EXCEPT ![t] = "ACTIVE"]
        /\ sin' = [sin EXCEPT ![t] = Connecting]
        /\ iQueue' = [iQueue EXCEPT ![t] = <<P!Event(s, "CONNECT")>>]
    BY <1>1, <1>7 DEF P!nn_cinproc_create, P!nn_binproc_create, P!Other,
       P!nn_sinproc_connect, Connecting, P!Raise, P!Side
  <2>2. Down(s) /\ ep[s] \in {"ACTIVE", "DISCONNECTED"}
    BY <1>4, <1>5, <1>6, <1>7 DEF Apart, Kept
  <2>3. P!Accepts(s)
    BY <2>2, <1>5, Sides DEF Down, P!Accepts, P!Side
  <2>4. Kept'
    BY <2>1, <1>2, <1>3, <1>5, <1>6, NewEnds DEF Kept, InprocTypes, Untouched
  <2>5. /\ ep'[t] = "ACTIVE" /\ sin'[t] = Connecting
        /\ ep'[s] = ep[s] /\ iQueue'[s] = iQueue[s]
        /\ iQueue'[t] = <<P!Event(s, "CONNECT")>>
    BY <2>1, <1>5, <1>6 DEF Kept, InprocTypes
  <2>6. Opens(t, s)'
    BY <2>3, <2>5 DEF Opens, Raised, P!Accepts
  <2>7. Changes(t, s)'
    BY <2>5, <2>6, <1>3, <1>5 DEF Changes, Quiet
  <2> QED
    BY <2>4, <2>7 DEF InprocInv, Kept
<1>8. CASE s \notin ins
  <2>1. /\ ep' = [ep EXCEPT ![t] = IF t = "c" THEN "DISCONNECTED" ELSE "ACTIVE"]
        /\ sin' = [sin EXCEPT ![t] = IF t = "c" THEN @ ELSE P!nn_sinproc_init]
        /\ UNCHANGED iQueue
    BY <1>1, <1>6, <1>8 DEF P!nn_cinproc_create, P!nn_binproc_create, P!Other,
       P!Side, Kept, InprocTypes
  <2>2. Kept'
    BY <2>1, <1>2, <1>3, <1>5, <1>6, NewEnds DEF Kept, InprocTypes, Untouched
  <2>3. /\ P!Accepts(t)' /\ ep'[s] = ep[s] /\ sin'[s] = sin[s]
        /\ t = "c" => sin'[t] = sin[t]
        /\ t # "c" => sin'[t] = P!nn_sinproc_init
    BY <2>1, <1>5, <1>6 DEF Kept, InprocTypes, P!Accepts
  <2>4. Down(s)'
    BY <2>3, <1>4, <1>5 DEF Apart, Down, P!Accepts
  <2>5. Down(t)'
    BY <2>3, <1>2, <1>4, <1>5 DEF Apart, Down, P!nn_sinproc_init
  <2>6. Apart'
    BY <2>1, <2>4, <2>5, <1>3, <1>5 DEF Apart, Quiet
  <2> QED
    BY <2>2, <2>6 DEF InprocInv, Kept
<1> QED
  BY <1>7, <1>8

(* nn_cinproc_shutdown and nn_binproc_shutdown: an end that is connected   *)
(* tells its peer, any other is done.                                      *)
LEMMA StopKeeps ==
  ASSUME InprocInv, ~Overlap, NEW t \in P!Side, P!Stop(t)
  PROVE  InprocInv'
<1> DEFINE s == P!Other(t)
<1>1. /\ P!CallAlone(t) /\ ep[t] \in {"ACTIVE", "DISCONNECTED"}
      /\ ins' = ins \ {t} /\ UNCHANGED <<iSent, got>>
  BY DEF P!Stop
<1>2. /\ alone = {} /\ alone' = {t} /\ \A x \in P!Side : Quiet(x)
      /\ Apart \/ Linked
  BY <1>1, CallsAlone
<1>3. /\ s \in P!Side /\ s # t /\ P!Side = {t, s} /\ P!Other(s) = t
  BY Sides
<1>4. Kept
  BY DEF InprocInv, Kept
<1>5. CASE Apart
  <2>1. Down(t) /\ Down(s)
    BY <1>3, <1>5 DEF Apart
  <2>2. ep' = [ep EXCEPT ![t] = "IDLE"] /\ UNCHANGED iQueue /\ UNCHANGED bad
    BY <2>1 DEF P!Stop, Down
  <2>3. \/ sin' = sin /\ sin[t].fsm = "IDLE"
        \/ sin' = [sin EXCEPT ![t].state = "IDLE", ![t].fsm = "IDLE"]
    BY <2>1 DEF P!Stop, Down
  <2>4. sin \in [P!Side -> SinType] /\ sin[t] \in SinType
    BY <1>4 DEF Kept, InprocTypes
  <2>5. /\ sin' \in [P!Side -> SinType] /\ sin'[s] = sin[s]
        /\ sin'[t].fsm = "IDLE" /\ sin'[t].state = "IDLE"
        /\ sin'[t].in = "OFF" /\ sin'[t].out = "OFF"
    BY <2>1, <2>3, <2>4, <1>3 DEF Down, SinType
  <2>6. Kept'
    BY <2>2, <2>5, <1>1, <1>2, <1>3, <1>4 DEF Kept, InprocTypes
  <2>7. Down(t)' /\ Down(s)'
    BY <2>1, <2>2, <2>5, <1>3, <1>4 DEF Down, P!Accepts, Kept, InprocTypes
  <2>8. Apart'
    BY <2>2, <2>7, <1>2, <1>3 DEF Apart, Quiet
  <2> QED
    BY <2>6, <2>8 DEF InprocInv, Kept
<1>6. CASE Linked
  <2>1. Up(t) /\ Up(s)
    BY <1>3, <1>6 DEF Linked
  <2>2. /\ ep' = [ep EXCEPT ![t] = "STOPPING"] /\ ~bad'
        /\ iQueue' = [iQueue EXCEPT ![t] = <<P!Event(s, "DISCONNECT")>>]
        /\ sin' = [sin EXCEPT ![t].state = "STOPPING_PEER",
                     ![t].fsm = "STOPPING", ![t].in = "OFF", ![t].out = "OFF"]
    BY <2>1 DEF P!Stop, Up, P!Raise
  <2>3. sin \in [P!Side -> SinType] /\ sin[t] \in SinType
    BY <1>4 DEF Kept, InprocTypes
  <2>4. /\ sin' \in [P!Side -> SinType] /\ sin'[s] = sin[s]
        /\ sin'[t].fsm = "STOPPING" /\ sin'[t].state = "STOPPING_PEER"
        /\ sin'[t].in = "OFF" /\ sin'[t].out = "OFF"
    BY <2>2, <2>3, <1>3 DEF SinType
  <2>5. Kept'
    BY <2>2, <2>4, <1>1, <1>2, <1>3, <1>4 DEF Kept, InprocTypes
  <2>6. /\ ep'[t] = "STOPPING" /\ ep'[s] = ep[s] /\ iQueue'[s] = iQueue[s]
        /\ iQueue'[t] = <<P!Event(s, "DISCONNECT")>>
    BY <2>2, <1>3, <1>4 DEF Kept, InprocTypes
  <2>7. Closes(t, s)'
    BY <2>1, <2>4, <2>6 DEF Closes, Raised, Up
  <2>8. Changes(t, s)'
    BY <2>6, <2>7, <1>2, <1>3 DEF Changes, Quiet
  <2> QED
    BY <2>5, <2>8 DEF InprocInv, Kept
<1> QED
  BY <1>2, <1>5, <1>6

(* A call that had nothing to tell the other side is over.                 *)
LEMMA ReturnKeeps ==
  ASSUME InprocInv, NEW t \in P!Side, P!Return(t)
  PROVE  InprocInv'
<1>1. /\ t \in alone /\ Quiet(t) /\ alone' = alone \ {t}
      /\ UNCHANGED <<ep, ins, sin, iQueue, bad, iSent, got>>
  BY DEF P!Return, Quiet
<1>2. \A x \in P!Side : ~Changes(x, P!Other(x))
  BY <1>1, EventsDiffer DEF Changes, Opens, Closes
<1>3. Apart
  BY <1>1, <1>2 DEF InprocInv, Linked
<1>4. Apart'
  BY <1>1, <1>3 DEF Apart, Down, P!Accepts, Quiet
<1>5. Kept'
  BY <1>1 DEF InprocInv, Kept, InprocTypes
<1> QED
  BY <1>4, <1>5 DEF InprocInv, Kept

-----------------------------------------------------------------------------
(* Events of a handshake and of a close                                    *)

(* The thread that delivers one of them is the one that opens or closes,   *)
(* and the call is over when it raises nothing more.                       *)
LEMMA Delivered ==
  ASSUME InprocInv, NEW t \in P!Side, NEW x \in P!Side, NEW kind, NEW raised,
         raised = << >> \/ \E e : raised = <<e>>,
         P!Delivers(t, x, kind, raised), kind \notin {"SENT", "RECEIVED"}
  PROVE  /\ Changes(t, P!Other(t)) /\ Raised(t, x, kind)
         /\ iQueue' = [iQueue EXCEPT ![t] = raised]
         /\ raised = << >> => alone' = {}
         /\ raised # << >> => alone' = {t}
         /\ UNCHANGED ins
<1> DEFINE s == P!Other(t)
<1>1. /\ ~Quiet(t) /\ Head(iQueue[t]) = P!Event(x, kind)
      /\ iQueue' = [iQueue EXCEPT ![t] = raised \o Tail(@)]
      /\ alone' = IF iQueue'[t] = << >> THEN alone \ {t} ELSE alone
      /\ UNCHANGED ins
  BY DEF P!Delivers, Quiet
<1>2. ~Apart
  BY <1>1 DEF Apart
<1>3. /\ s \in P!Side /\ s # t /\ P!Side = {t, s} /\ P!Other(s) = t
  BY Sides
<1>4. \A k, y : Raised(t, y, k) => y = x /\ k = kind
  <2>1. ASSUME NEW k, NEW y, Raised(t, y, k)
        PROVE  P!Event(y, k) = P!Event(x, kind)
    BY <2>1, <1>1, EventsDiffer
  <2>2. \A k, y : P!Event(y, k) = P!Event(x, kind) => y = x /\ k = kind
    BY DEF P!Event
  <2> QED
    BY <2>1, <2>2
<1>5. ~Linked
  BY <1>1, <1>4 DEF Linked, DataEvents
<1>6. ~Changes(s, t)
  BY <1>1 DEF Changes
<1>7. Changes(t, s)
  BY <1>2, <1>3, <1>5, <1>6 DEF InprocInv
<1>8. \E y, k : Raised(t, y, k)
  BY <1>7 DEF Changes, Opens, Closes
<1>9. Raised(t, x, kind)
  BY <1>4, <1>8
<1>10. Tail(iQueue[t]) = << >>
  BY <1>9, EventsDiffer
<1>11. /\ iQueue' = [iQueue EXCEPT ![t] = raised]
       /\ alone' = IF iQueue'[t] = << >> THEN alone \ {t} ELSE alone
  <2>1. raised \o Tail(iQueue[t]) = raised
    <3>1. PICK S : raised \in Seq(S)
      <4>1. << >> \in Seq({}) /\ \A e : <<e>> \in Seq({e})
        OBVIOUS
      <4> QED
        BY <4>1
    <3> QED
      BY <3>1, <1>10, ConcatEmptySeq
  <2> QED
    BY <1>1, <2>1
<1>12. iQueue'[t] = raised /\ alone = {t}
  BY <1>7, <1>11 DEF Changes, InprocInv, InprocTypes
<1>13. raised # << >> => alone' = {t}
  BY <1>11, <1>12
<1>14. raised = << >> => alone' = {}
  BY <1>11, <1>12
<1> QED
  BY <1>1, <1>7, <1>9, <1>11, <1>13, <1>14

(* NN_SINPROC_CONNECT: the endpoint accepts.                               *)
LEMMA ConnectKeeps ==
  ASSUME InprocInv, NEW t \in P!Side, NEW x \in P!Side, P!Connect(t, x)
  PROVE  InprocInv'
<1> DEFINE s == P!Other(t)
<1> DEFINE raised == IF P!Accepts(x) THEN <<P!Event(P!Other(x), "READY")>>
                     ELSE << >>
<1>1. raised = << >> \/ \E e : raised = <<e>>
  OBVIOUS
<1>2. P!Delivers(t, x, "CONNECT", raised)
  BY DEF P!Connect
<1> HIDE DEF raised
<1>3. /\ Changes(t, s) /\ Raised(t, x, "CONNECT")
      /\ iQueue' = [iQueue EXCEPT ![t] = raised]
      /\ raised # << >> => alone' = {t}
      /\ UNCHANGED ins
  BY <1>1, <1>2, Delivered
<1>4. /\ s \in P!Side /\ s # t /\ P!Side = {t, s} /\ P!Other(s) = t
  BY Sides
<1>5. Kept
  BY DEF InprocInv, Kept
<1>6. /\ x = s /\ P!Accepts(s) /\ ep[t] = "ACTIVE" /\ sin[t] = Connecting
      /\ Quiet(s)
  BY <1>3, EventsDiffer DEF Changes, Opens, Closes
<1>7. raised = <<P!Event(t, "READY")>>
  BY <1>4, <1>6 DEF raised
<1>8. /\ ep' = [ep EXCEPT ![s] = "ACTIVE"] /\ sin' = [sin EXCEPT ![s] = Readied]
      /\ UNCHANGED <<bad, iSent, got>>
  BY <1>6 DEF P!Connect, Readied
<1>9. Kept'
  BY <1>3, <1>4, <1>5, <1>7, <1>8, NewEnds DEF Kept, InprocTypes, Untouched
<1>10. /\ ep'[t] = "ACTIVE" /\ ep'[s] = "ACTIVE" /\ sin'[t] = Connecting
       /\ sin'[s] = Readied /\ iQueue'[t] = <<P!Event(t, "READY")>>
       /\ iQueue'[s] = iQueue[s]
  BY <1>3, <1>4, <1>5, <1>6, <1>7, <1>8 DEF Kept, InprocTypes
<1>11. Opens(t, s)'
  BY <1>4, <1>10 DEF Opens, Raised
<1>12. Changes(t, s)'
  BY <1>3, <1>6, <1>7, <1>10, <1>11 DEF Changes, Quiet
<1> QED
  BY <1>9, <1>12 DEF InprocInv, Kept

(* NN_SINPROC_READY: the end that began is connected and answers.          *)
LEMMA ReadyKeeps ==
  ASSUME InprocInv, NEW t \in P!Side, NEW x \in P!Side, P!Ready(t, x)
  PROVE  InprocInv'
<1> DEFINE s == P!Other(t)
<1> DEFINE raised == IF sin[x].fsm = "ACTIVE" /\ sin[x].state = "CONNECTING"
                     THEN <<P!Event(P!Other(x), "ACCEPTED")>> ELSE << >>
<1>1. raised = << >> \/ \E e : raised = <<e>>
  OBVIOUS
<1>2. P!Delivers(t, x, "READY", raised)
  BY DEF P!Ready
<1> HIDE DEF raised
<1>3. /\ Changes(t, s) /\ Raised(t, x, "READY")
      /\ iQueue' = [iQueue EXCEPT ![t] = raised]
      /\ raised # << >> => alone' = {t}
      /\ UNCHANGED ins
  BY <1>1, <1>2, Delivered
<1>4. /\ s \in P!Side /\ s # t /\ P!Side = {t, s} /\ P!Other(s) = t
  BY Sides
<1>5. Kept
  BY DEF InprocInv, Kept
<1>6. /\ x = t /\ ep[t] = "ACTIVE" /\ ep[s] = "ACTIVE"
      /\ sin[t] = Connecting /\ sin[s] = Readied /\ Quiet(s)
  BY <1>3, <1>4, EventsDiffer DEF Changes, Opens, Closes
<1>7. raised = <<P!Event(s, "ACCEPTED")>>
  BY <1>6, NewEnds DEF raised
<1>8. /\ sin' = [sin EXCEPT ![t] = P!Started(Connecting)]
      /\ iSent' = [iSent EXCEPT ![t] = << >>]
      /\ got' = [y \in P!Side |-> << >>]
      /\ UNCHANGED <<ep, bad>>
  BY <1>6, NewEnds DEF P!Ready
<1>9. Kept'
  BY <1>3, <1>4, <1>5, <1>7, <1>8, NewEnds DEF Kept, InprocTypes, Untouched
<1>10. /\ sin'[t] = P!Started(Connecting)
       /\ sin'[s] = Readied /\ iQueue'[t] = <<P!Event(s, "ACCEPTED")>>
       /\ iQueue'[s] = iQueue[s] /\ iSent'[t] = << >>
       /\ \A y \in P!Side : got'[y] = << >>
  BY <1>3, <1>4, <1>5, <1>6, <1>7, <1>8 DEF Kept, InprocTypes
<1>11. Opens(t, s)'
  BY <1>4, <1>6, <1>8, <1>10 DEF Opens, Raised
<1>12. Changes(t, s)'
  BY <1>3, <1>6, <1>7, <1>10, <1>11 DEF Changes, Quiet
<1> QED
  BY <1>9, <1>12 DEF InprocInv, Kept

(* NN_SINPROC_ACCEPTED: the ends are connected, with nothing on its way.   *)
LEMMA AcceptedKeeps ==
  ASSUME InprocInv, NEW t \in P!Side, NEW x \in P!Side, P!Accepted(t, x)
  PROVE  InprocInv'
<1> DEFINE s == P!Other(t)
<1>1. P!Delivers(t, x, "ACCEPTED", << >>)
  BY DEF P!Accepted
<1>3. /\ Changes(t, s) /\ Raised(t, x, "ACCEPTED")
      /\ iQueue' = [iQueue EXCEPT ![t] = << >>]
      /\ alone' = {} /\ UNCHANGED ins
  BY <1>1, Delivered
<1>4. /\ s \in P!Side /\ s # t /\ P!Side = {t, s} /\ P!Other(s) = t
  BY Sides
<1>5. Kept
  BY DEF InprocInv, Kept
<1>6. /\ x = s /\ ep[t] = "ACTIVE" /\ ep[s] = "ACTIVE"
      /\ sin[t] = P!Started(Connecting) /\ sin[s] = Readied /\ Quiet(s)
      /\ iSent[t] = << >> /\ got[t] = << >> /\ got[s] = << >>
  BY <1>3, <1>4, EventsDiffer DEF Changes, Opens, Closes
<1>7. /\ sin' = [sin EXCEPT ![s] = P!Started(Readied)]
      /\ iSent' = [iSent EXCEPT ![s] = << >>]
      /\ UNCHANGED <<ep, bad, got>>
  BY <1>5, <1>6, NewEnds DEF P!Accepted, Kept, InprocTypes
<1>8. Kept'
  BY <1>3, <1>4, <1>5, <1>7, NewEnds DEF Kept, InprocTypes, Untouched
<1>9. /\ sin'[t] = P!Started(Connecting) /\ sin'[s] = P!Started(Readied)
      /\ iQueue'[t] = << >> /\ iQueue'[s] = << >>
      /\ iSent'[t] = << >> /\ iSent'[s] = << >>
      /\ got'[t] = << >> /\ got'[s] = << >>
  BY <1>3, <1>4, <1>5, <1>6, <1>7 DEF Kept, InprocTypes, Quiet
<1>10. ASSUME NEW y \in P!Side
       PROVE  Up(y)' /\ Carried(y, P!Other(y))' /\ DataEvents(y)'
  <2> DEFINE z == P!Other(y)
  <2>1. y \in {t, s} /\ z \in {t, s}
    BY <1>4, Sides
  <2>2. \A n \in {sin'[t], sin'[s]} :
          /\ Untouched(n) /\ n.fsm = "ACTIVE" /\ n.state = "ACTIVE" /\ n.peer
          /\ n.in = "ASYNC" /\ n.out = "IDLE"
    BY <1>9, NewEnds
  <2>3. Up(y)'
    BY <2>1, <2>2, <1>6, <1>7 DEF Up
  <2>4. /\ Quiet(y)' /\ \A u \in P!Side : \A v, k : ~Raised(u, v, k)'
    BY <2>1, <1>4, <1>9 DEF Quiet, Raised
  <2>5. /\ ~sin'[y].sending /\ sin'[y].msg = 0 /\ sin'[y].out = "IDLE"
        /\ ~sin'[z].receiving /\ sin'[z].msgqueue = << >>
        /\ sin'[z].in = "ASYNC" /\ iSent'[y] = << >> /\ got'[z] = << >>
    BY <2>1, <2>2, <1>9 DEF Untouched
  <2>6. Way(y, z)'
    BY <2>1, <2>4, <2>5, <1>4 DEF Way
  <2>7. Carried(y, z)'
    <3>1. iSent'[y] = got'[z] \o sin'[z].msgqueue \o Shown(sin'[y].msg)
      BY <2>5 DEF Shown
    <3>2. (sin'[z].in = "IDLE") = (sin'[z].msgqueue # << >>)
      BY <2>5
    <3>3. sin'[y].sending = (sin'[y].out = "ASYNC")
      BY <2>5, <2>2, <2>1 DEF Untouched, SinType
    <3> QED
      BY <3>1, <3>2, <3>3, <2>5, <2>6 DEF Carried
  <2> QED
    BY <2>3, <2>4, <2>7 DEF DataEvents
<1>11. Linked'
  BY <1>3, <1>10 DEF Linked
<1> QED
  BY <1>8, <1>11 DEF InprocInv, Kept

(* NN_SINPROC_DISCONNECT: the peer answers, and the end that closes is     *)
(* done, since nothing is on its way to it.                                *)
LEMMA DisconnectKeeps ==
  ASSUME InprocInv, NEW t \in P!Side, NEW x \in P!Side, P!Disconnect(t, x)
  PROVE  InprocInv'
<1> DEFINE s == P!Other(t)
<1> DEFINE raised == IF sin[x].fsm = "ACTIVE" /\ sin[x].state = "ACTIVE"
                     THEN <<P!Event(P!Other(x), "DISCONNECT")>> ELSE << >>
<1>1. raised = << >> \/ \E e : raised = <<e>>
  OBVIOUS
<1>2. P!Delivers(t, x, "DISCONNECT", raised)
  BY DEF P!Disconnect
<1> HIDE DEF raised
<1>3. /\ Changes(t, s) /\ Raised(t, x, "DISCONNECT")
      /\ iQueue' = [iQueue EXCEPT ![t] = raised]
      /\ raised # << >> => alone' = {t}
      /\ raised = << >> => alone' = {}
      /\ UNCHANGED ins
  BY <1>1, <1>2, Delivered
<1>4. /\ s \in P!Side /\ s # t /\ P!Side = {t, s} /\ P!Other(s) = t
  BY Sides
<1>5. Kept /\ sin \in [P!Side -> SinType]
  BY DEF InprocInv, Kept, InprocTypes
<1>6. /\ ep[t] = "STOPPING"
      /\ sin[t].fsm = "STOPPING" /\ sin[t].state = "STOPPING_PEER"
      /\ sin[t].in = "OFF" /\ sin[t].out = "OFF" /\ Quiet(s)
      /\ \/ x = s /\ Up(s)
         \/ x = t /\ Down(s)
  BY <1>3, EventsDiffer DEF Changes, Opens, Closes
<1>7. CASE x = s /\ Up(s)
  <2>1. raised = <<P!Event(t, "DISCONNECT")>>
    BY <1>4, <1>7 DEF raised, Up
  <2>2. /\ s = "c" => /\ sin' = [sin EXCEPT ![s] = P!nn_sinproc_init]
                      /\ ep' = [ep EXCEPT ![s] = "DISCONNECTED"]
        /\ s = "b" => /\ sin' = [sin EXCEPT ![s] = [@ EXCEPT
                                   !.state = "DISCONNECTED", !.peer = FALSE,
                                   !.in = "OFF", !.out = "OFF"]]
                      /\ UNCHANGED ep
        /\ UNCHANGED <<bad, iSent, got>>
    BY <1>7 DEF P!Disconnect, Up
  <2>3. ASSUME NEW r \in SinType
        PROVE  LET n == [r EXCEPT !.state = "DISCONNECTED", !.peer = FALSE,
                                  !.in = "OFF", !.out = "OFF"] IN
               /\ n \in SinType /\ n.state = "DISCONNECTED" /\ n.in = "OFF"
               /\ n.out = "OFF" /\ n.fsm = r.fsm
    BY DEF SinType
  <2>4. /\ sin' \in [P!Side -> SinType] /\ sin'[t] = sin[t]
        /\ sin'[s].in = "OFF" /\ sin'[s].out = "OFF"
        /\ s = "c" => sin'[s].fsm = "IDLE" /\ sin'[s].state = "IDLE"
        /\ s = "b" => sin'[s].fsm = "ACTIVE" /\ sin'[s].state = "DISCONNECTED"
    <3>1. CASE s = "c"
      <4> DEFINE i == P!nn_sinproc_init
      <4>1. /\ i \in SinType /\ i.in = "OFF" /\ i.out = "OFF" /\ i.fsm = "IDLE"
            /\ i.state = "IDLE"
        BY DEF P!nn_sinproc_init, SinType
      <4>2. sin' = [sin EXCEPT ![s] = i]
        BY <3>1, <2>2
      <4> HIDE DEF i
      <4> QED
        BY <3>1, <4>1, <4>2, <1>4, <1>5
    <3>2. CASE s = "b"
      <4> DEFINE n == [sin[s] EXCEPT !.state = "DISCONNECTED", !.peer = FALSE,
                                     !.in = "OFF", !.out = "OFF"]
      <4>1. /\ n \in SinType /\ n.state = "DISCONNECTED" /\ n.in = "OFF"
            /\ n.out = "OFF" /\ n.fsm = "ACTIVE"
        BY <2>3, <1>4, <1>5, <1>7 DEF Up
      <4>2. sin' = [sin EXCEPT ![s] = n]
        BY <3>2, <2>2
      <4> HIDE DEF n
      <4> QED
        BY <3>2, <4>1, <4>2, <1>4, <1>5
    <3> QED
      BY <3>1, <3>2, Sides
  <2>5. /\ ep' \in [P!Side -> {"NONE", "IDLE", "ACTIVE", "DISCONNECTED",
                               "STOPPING"}]
        /\ ep'[t] = ep[t] /\ P!Accepts(s)'
        /\ ep'[s] \in {"ACTIVE", "DISCONNECTED"}
    <3>1. /\ s = "c" => ep' = [ep EXCEPT ![s] = "DISCONNECTED"]
          /\ s = "b" => ep' = ep /\ ep[s] = "ACTIVE"
          /\ s = "c" \/ s = "b"
      BY <2>2, <1>4, <1>7, Sides DEF Up
    <3> QED
      BY <3>1, <1>4, <1>5 DEF Kept, InprocTypes, P!Accepts
  <2>6. Kept'
    BY <2>1, <2>2, <2>4, <2>5, <1>3, <1>4, <1>5 DEF Kept, InprocTypes
  <2>7. /\ iQueue'[s] = iQueue[s] /\ iQueue'[t] = <<P!Event(t, "DISCONNECT")>>
    BY <2>1, <1>3, <1>4, <1>5 DEF Kept, InprocTypes
  <2>8. Down(s)'
    BY <2>4, <2>5, Sides DEF Down, P!Accepts
  <2>9. Closes(t, s)'
    BY <2>4, <2>5, <2>7, <2>8, <1>6 DEF Closes, Raised
  <2> QED
    BY <2>1, <2>6, <2>7, <2>9, <1>3, <1>4, <1>6 DEF InprocInv, Kept, Changes, Quiet
<1>8. CASE x = t /\ Down(s)
  <2> DEFINE r == [sin[t] EXCEPT !.state = "STOPPING"]
  <2> DEFINE n == [r EXCEPT !.fsm = "IDLE", !.state = "IDLE"]
  <2>1. raised = << >>
    BY <1>6, <1>8 DEF raised
  <2>2. /\ DOMAIN iQueue' = P!Side /\ \A y \in P!Side : iQueue'[y] = << >>
    BY <2>1, <1>3, <1>4, <1>5, <1>6 DEF Kept, InprocTypes, Quiet
  <2>3. \A kinds : ~P!Pending(t, kinds)
    BY <2>2 DEF P!Pending
  <2>4. /\ P!Finish(t, r) /\ UNCHANGED <<iSent, got>>
    BY <1>6, <1>8 DEF P!Disconnect
  <2>5. r \in SinType /\ r.state = "STOPPING" /\ r.in = "OFF" /\ r.out = "OFF"
    BY <1>5, <1>6 DEF SinType
  <2>6. /\ sin' = [sin EXCEPT ![t] = n] /\ ep' = [ep EXCEPT ![t] = "IDLE"]
        /\ ~bad'
    BY <2>3, <2>4, <2>5 DEF P!Finish
  <2> HIDE DEF r
  <2>7. n \in SinType /\ n.fsm = "IDLE" /\ n.state = "IDLE" /\ n.in = "OFF"
        /\ n.out = "OFF"
    BY <2>5 DEF SinType
  <2> HIDE DEF n
  <2>8. t \notin ins
    BY <1>5, <1>6 DEF Kept
  <2>9. Kept'
    BY <2>2, <2>4, <2>6, <2>7, <2>8, <1>3, <1>4, <1>5, <2>1
       DEF Kept, InprocTypes
  <2>10. /\ sin'[t] = n /\ sin'[s] = sin[s] /\ ep'[t] = "IDLE"
         /\ ep'[s] = ep[s]
    BY <2>6, <1>4, <1>5 DEF Kept, InprocTypes
  <2>11. Down(t)' /\ Down(s)'
    BY <2>7, <2>10, <1>8 DEF Down, P!Accepts
  <2>12. Apart'
    BY <2>2, <2>11, <1>4 DEF Apart, Quiet
  <2> QED
    BY <2>9, <2>12 DEF InprocInv, Kept
<1> QED
  BY <1>6, <1>7, <1>8

-----------------------------------------------------------------------------
(* Messages                                                                *)

(* Concatenation, as a fact that the provers can use without its domain.   *)
LEMMA Associative ==
  \A u, v, y \in Seq(Nat) : (u \o v) \o y = u \o (v \o y)
BY ConcatAssociative

(* A message that joins the end, or that is taken from the front.          *)
LEMMA Sequences3 ==
  ASSUME NEW a \in Seq(Nat), NEW d \in Seq(Nat), NEW m \in Nat, NEW z \in Seq(Nat)
  PROVE  /\ Append(a \o d \o << >>, m) = a \o d \o <<m>>
         /\ a \o d \o <<m>> = a \o Append(d, m) \o << >>
         /\ d # << >> => a \o d \o z = Append(a, Head(d)) \o Tail(d) \o z
         /\ << >> \in Seq(Nat) /\ <<m>> \in Seq(Nat)
<1>1. << >> \in Seq(Nat) /\ <<m>> \in Seq(Nat) /\ a \o d \in Seq(Nat)
  OBVIOUS
<1>2. Append(a \o d \o << >>, m) = a \o d \o <<m>>
  BY <1>1, ConcatEmptySeq, AppendIsConcat
<1>3. a \o d \o <<m>> = a \o Append(d, m) \o << >>
  <2>1. Append(d, m) = d \o <<m>> /\ Append(d, m) \in Seq(Nat)
    BY AppendIsConcat
  <2> DEFINE one == <<m>>
  <2> HIDE DEF one
  <2>2. (a \o d) \o one = a \o (d \o one)
    BY <1>1, Associative DEF one
  <2>3. a \o Append(d, m) \in Seq(Nat)
    BY <2>1, ConcatProperties
  <2> QED
    BY <2>1, <2>2, <2>3, ConcatEmptySeq DEF one
<1>4. ASSUME d # << >>
      PROVE  a \o d \o z = Append(a, Head(d)) \o Tail(d) \o z
  <2> DEFINE h == Head(d)
  <2>1. h \in Nat /\ Tail(d) \in Seq(Nat) /\ <<h>> \in Seq(Nat)
    BY <1>4, HeadTailProperties
  <2>2. d = <<h>> \o Tail(d)
    BY <1>4
  <2> HIDE DEF h
  <2> DEFINE one == <<h>>
  <2> DEFINE rest == Tail(d)
  <2> HIDE DEF one, rest
  <2>3. a \o (one \o rest) = (a \o one) \o rest
    BY <2>1, Associative DEF one, rest
  <2>4. Append(a, h) = a \o <<h>>
    BY <2>1, AppendIsConcat
  <2>5. a \o d = Append(a, h) \o Tail(d)
    BY <2>2, <2>3, <2>4 DEF one, rest
  <2> QED
    BY <2>5 DEF h
<1> QED
  BY <1>1, <1>2, <1>3, <1>4

(* nn_msgqueue_send: the message joins the end of what was sent.           *)
LEMMA Joins ==
  \A u, v \in Seq(Nat), y \in Nat :
    /\ Append(u \o v \o << >>, y) = u \o v \o <<y>>
    /\ u \o v \o <<y>> = u \o Append(v, y) \o << >>
BY Sequences3

(* nn_msgqueue_recv: the first message goes over to what was received.     *)
LEMMA Taken ==
  \A u, v, y \in Seq(Nat) :
    v # << >> => u \o v \o y = Append(u, Head(v)) \o Tail(v) \o y
BY Sequences3

(* The ends are connected while a pipe can send or receive, and while an   *)
(* event about a message is to be delivered.                               *)
LEMMA CallsLinked ==
  ASSUME InprocInv, ~Overlap, NEW t \in P!Side, P!Call(t),
         sin[t].out = "IDLE" \/ sin[t].in = "IDLE"
  PROVE  Linked /\ Quiet(t)
<1>1. alone = {} /\ Quiet(t)
  BY DEF P!Call, Quiet
<1>2. \A x \in P!Side : ~Changes(x, P!Other(x))
  BY <1>1 DEF Changes
<1>3. ~Apart
  BY DEF Apart, Down
<1> QED
  BY <1>1, <1>2, <1>3 DEF InprocInv

(* Events about messages are delivered while the ends are linked.          *)
LEMMA MessageDelivered ==
  ASSUME InprocInv, NEW t \in P!Side, NEW x \in P!Side, NEW kind, NEW raised,
         raised = << >> \/ \E e : raised = <<e>>,
         P!Delivers(t, x, kind, raised), kind \in {"SENT", "RECEIVED"}
  PROVE  /\ Linked /\ Raised(t, x, kind)
         /\ iQueue' = [iQueue EXCEPT ![t] = raised]
         /\ alone' = {}
         /\ UNCHANGED ins
<1> DEFINE s == P!Other(t)
<1>1. /\ ~Quiet(t) /\ Head(iQueue[t]) = P!Event(x, kind)
      /\ iQueue' = [iQueue EXCEPT ![t] = raised \o Tail(@)]
      /\ alone' = IF iQueue'[t] = << >> THEN alone \ {t} ELSE alone
      /\ UNCHANGED ins
  BY DEF P!Delivers, Quiet
<1>2. ~Apart
  BY <1>1 DEF Apart
<1>3. /\ s \in P!Side /\ s # t /\ P!Side = {t, s} /\ P!Other(s) = t
  BY Sides
<1>4. \A k, y : Raised(t, y, k) => y = x /\ k = kind
  <2>1. ASSUME NEW k, NEW y, Raised(t, y, k)
        PROVE  P!Event(y, k) = P!Event(x, kind)
    BY <2>1, <1>1, EventsDiffer
  <2>2. \A k, y : P!Event(y, k) = P!Event(x, kind) => y = x /\ k = kind
    BY DEF P!Event
  <2> QED
    BY <2>1, <2>2
<1>5. ~Changes(t, s)
  BY <1>4 DEF Changes, Opens, Closes
<1>6. ~Changes(s, t)
  BY <1>1 DEF Changes
<1>7. Linked
  BY <1>2, <1>3, <1>5, <1>6 DEF InprocInv
<1>8. Raised(t, x, kind)
  BY <1>1, <1>4, <1>7 DEF Linked, DataEvents
<1>9. Tail(iQueue[t]) = << >>
  BY <1>8, EventsDiffer
<1>10. raised \o Tail(iQueue[t]) = raised
  <2>1. PICK S : raised \in Seq(S)
    <3>1. << >> \in Seq({}) /\ \A e : <<e>> \in Seq({e})
      OBVIOUS
    <3> QED
      BY <3>1
  <2> QED
    BY <2>1, <1>9, ConcatEmptySeq
<1> QED
  BY <1>1, <1>7, <1>8, <1>10 DEF Linked

(* When only the queue of t changes, what the other thread has to deliver  *)
(* stays.                                                                  *)
LEMMA OneQueue ==
  ASSUME InprocTypes, NEW t \in P!Side, NEW raised,
         iQueue' = [iQueue EXCEPT ![t] = raised]
  PROVE  /\ DOMAIN iQueue' = P!Side /\ iQueue'[t] = raised
         /\ \A x, k : /\ Raised(P!Other(t), x, k)' <=> Raised(P!Other(t), x, k)
                      /\ Raised(t, x, k)' <=> raised = <<P!Event(x, k)>>
         /\ DataEvents(P!Other(t)) => DataEvents(P!Other(t))'
<1>1. iQueue'[P!Other(t)] = iQueue[P!Other(t)] /\ iQueue'[t] = raised
      /\ DOMAIN iQueue' = P!Side
  BY Sides DEF InprocTypes
<1> QED
  BY <1>1 DEF Raised, DataEvents, Quiet

(* What an event of a thread is not.                                       *)
LEMMA Distinct ==
  ASSUME NEW x, NEW k, NEW y, NEW j
  PROVE  /\ <<P!Event(x, k)>> = <<P!Event(y, j)>> <=> x = y /\ k = j
         /\ <<P!Event(x, k)>> # << >>
BY DEF P!Event

(* nn_sinproc_send: the message is shown to the peer.                      *)
LEMMA SendKeeps ==
  ASSUME InprocInv, ~Overlap, NEW p \in P!Side, P!nn_sinproc_send(p)
  PROVE  InprocInv'
<1> DEFINE s == P!Other(p)
<1> DEFINE m == Len(iSent[p]) + 1
<1>1. /\ P!Call(p) /\ sin[p].out = "IDLE"
      /\ bad' = (sin[p].state # "ACTIVE" \/ sin[p].sending)
      /\ sin' = [sin EXCEPT ![p].msg = m, ![p].sending = TRUE,
                            ![p].out = "ASYNC"]
      /\ iSent' = [iSent EXCEPT ![p] = Append(@, m)]
      /\ iQueue' = [iQueue EXCEPT ![p] = <<P!Event(s, "SENT")>>]
      /\ UNCHANGED <<ep, ins, alone, got>>
  BY DEF P!nn_sinproc_send, P!Raise
<1>2. Linked /\ Quiet(p)
  BY <1>1, CallsLinked
<1>3. /\ s \in P!Side /\ s # p /\ P!Side = {p, s} /\ P!Other(s) = p
  BY Sides
<1>4. Kept /\ InprocTypes /\ sin[p] \in SinType /\ sin[s] \in SinType
  BY <1>3 DEF InprocInv, Kept, InprocTypes
<1>5. /\ Up(p) /\ Up(s) /\ Carried(p, s) /\ Carried(s, p) /\ DataEvents(s)
  BY <1>2, <1>3 DEF Linked
<1>6. ~sin[p].sending
  BY <1>1, <1>5 DEF Carried
<1>7. iSent[p] \in Seq(Nat) /\ got[s] \in Seq(Nat) /\ m \in Nat /\ m # 0
      /\ Append(iSent[p], m) \in Seq(Nat)
  BY <1>3, <1>4 DEF InprocTypes
<1>8. /\ sin' \in [P!Side -> SinType]
      /\ sin'[s] = sin[s] /\ sin'[p].msg = m /\ sin'[p].sending = TRUE
      /\ sin'[p].out = "ASYNC" /\ sin'[p].in = sin[p].in
      /\ sin'[p].msgqueue = sin[p].msgqueue /\ sin'[p].fsm = sin[p].fsm
      /\ sin'[p].state = sin[p].state /\ sin'[p].peer = sin[p].peer
      /\ sin'[p].receiving = sin[p].receiving
  <2> HIDE DEF m
  <2> QED
    BY <1>1, <1>3, <1>4, <1>7 DEF SinType, InprocTypes
<1> HIDE DEF m
<1>9. /\ DOMAIN iQueue' = P!Side /\ iQueue'[p] = <<P!Event(s, "SENT")>>
      /\ \A x, k : /\ Raised(s, x, k)' <=> Raised(s, x, k)
                   /\ Raised(p, x, k)' <=> x = s /\ k = "SENT"
      /\ DataEvents(s)' /\ DataEvents(p)'
  <2>1. /\ DOMAIN iQueue' = P!Side /\ iQueue'[p] = <<P!Event(s, "SENT")>>
        /\ \A x, k : /\ Raised(s, x, k)' <=> Raised(s, x, k)
                     /\ Raised(p, x, k)' <=>
                          <<P!Event(s, "SENT")>> = <<P!Event(x, k)>>
        /\ DataEvents(s)'
    BY <1>1, <1>4, <1>5, OneQueue
  <2>2. \A x, k : Raised(p, x, k)' <=> x = s /\ k = "SENT"
    BY <2>1, Distinct
  <2> QED
    BY <2>1, <2>2 DEF DataEvents
<1>10. \A x, k : ~Raised(p, x, k)
  BY <1>2 DEF Raised, Quiet
<1>11. Kept'
  BY <1>1, <1>4, <1>5, <1>6, <1>7, <1>8, <1>9 DEF Kept, InprocTypes, Up
<1>12. Up(p)' /\ Up(s)'
  BY <1>1, <1>5, <1>8 DEF Up
<1>13. Way(p, s)'
  BY <1>3, <1>5, <1>6, <1>7, <1>8, <1>9 DEF Carried, Way
<1>14. Way(s, p)'
  BY <1>3, <1>5, <1>8, <1>9, <1>10 DEF Carried, Way
<1>15. Carried(p, s)'
  <2>1. sin[p].msg = 0 /\ sin[s].msgqueue \in Seq(Nat)
    BY <1>4, <1>5, <1>6 DEF Carried, Way, SinType
  <2>2. iSent'[p] = Append(iSent[p], m) /\ got'[s] = got[s]
    BY <1>1, <1>4 DEF InprocTypes
  <2>3. iSent'[p] = got'[s] \o sin'[s].msgqueue \o Shown(sin'[p].msg)
    <3>1. iSent[p] = got[s] \o sin[s].msgqueue \o << >>
      BY <2>1, <1>5 DEF Carried, Shown
    <3>2. Append(iSent[p], m) = got[s] \o sin[s].msgqueue \o <<m>>
      <4> DEFINE u == got[s]
      <4> DEFINE v == sin[s].msgqueue
      <4>1. u \in Seq(Nat) /\ v \in Seq(Nat) /\ iSent[p] = u \o v \o << >>
        BY <3>1, <2>1, <1>7
      <4> HIDE DEF u, v
      <4>2. Append(u \o v \o << >>, m) = u \o v \o <<m>>
        BY <4>1, <1>7, Joins
      <4> QED
        BY <4>1, <4>2 DEF u, v
    <3> QED
      BY <3>2, <2>2, <1>7, <1>8 DEF Shown
  <2>4. sin'[p].sending = (sin'[p].out = "ASYNC")
    BY <1>8
  <2> QED
    BY <2>3, <2>4, <1>5, <1>8, <1>13 DEF Carried
<1>16. Carried(s, p)'
  <2>1. iSent'[s] = iSent[s] /\ got'[p] = got[p]
    BY <1>1, <1>3, <1>4 DEF InprocTypes
  <2> QED
    BY <2>1, <1>5, <1>8, <1>14 DEF Carried, Shown
<1>17. Linked'
  BY <1>1, <1>2, <1>3, <1>9, <1>12, <1>15, <1>16 DEF Linked
<1> QED
  BY <1>11, <1>17 DEF InprocInv, Kept

(* nn_sinproc_recv: the user takes a message, and one that lingers at the  *)
(* peer may follow into the queue.                                         *)
LEMMA RecvKeeps ==
  ASSUME InprocInv, ~Overlap, NEW s \in P!Side, P!nn_sinproc_recv(s)
  PROVE  InprocInv'
<1> DEFINE p == P!Other(s)
<1> DEFINE rest == Tail(sin[s].msgqueue)
<1> DEFINE moves == sin[s].receiving /\ ~P!nn_msgqueue_full(rest)
<1> DEFINE q == IF moves THEN Append(rest, sin[p].msg) ELSE rest
<1>1. /\ P!Call(s) /\ sin[s].in = "IDLE"
      /\ sin' = [sin EXCEPT
           ![s].msgqueue = q,
           ![s].receiving = @ /\ ~moves,
           ![s].in = IF q = << >> THEN "ASYNC" ELSE "IDLE",
           ![p].msg = IF moves THEN 0 ELSE @]
      /\ got' = [got EXCEPT ![s] = Append(@, Head(sin[s].msgqueue))]
      /\ IF moves THEN iQueue' = [iQueue EXCEPT ![s] = <<P!Event(p, "RECEIVED")>>]
                  ELSE UNCHANGED iQueue
      /\ UNCHANGED <<ep, ins, alone, bad, iSent>>
  BY DEF P!nn_sinproc_recv, P!Raise
<1>2. Linked /\ Quiet(s)
  BY <1>1, CallsLinked
<1>3. /\ p \in P!Side /\ s # p /\ P!Side = {p, s} /\ P!Other(p) = s
  BY Sides
<1>4. Kept /\ InprocTypes /\ sin[p] \in SinType /\ sin[s] \in SinType
  BY <1>3 DEF InprocInv, Kept, InprocTypes
<1>5. /\ Up(p) /\ Up(s) /\ Carried(p, s) /\ Carried(s, p)
      /\ DataEvents(p) /\ DataEvents(s)
  BY <1>2, <1>3 DEF Linked
<1>6. /\ sin[s].msgqueue \in Seq(Nat) /\ sin[s].msgqueue # << >>
      /\ sin[p].msg \in Nat /\ rest \in Seq(Nat)
      /\ Head(sin[s].msgqueue) \in Nat /\ moves \in BOOLEAN
      /\ sin[s].receiving \in BOOLEAN
  BY <1>1, <1>4, <1>5, HeadTailProperties DEF Carried, SinType
<1>7. q \in Seq(Nat)
  BY <1>6
<1> HIDE DEF moves, q, rest
<1>8. /\ sin' \in [P!Side -> SinType]
      /\ sin'[s].msgqueue = q /\ sin'[s].receiving = (sin[s].receiving /\ ~moves)
      /\ sin'[s].in = (IF q = << >> THEN "ASYNC" ELSE "IDLE")
      /\ sin'[s].msg = sin[s].msg /\ sin'[s].sending = sin[s].sending
      /\ sin'[s].out = sin[s].out /\ sin'[s].fsm = sin[s].fsm
      /\ sin'[s].state = sin[s].state /\ sin'[s].peer = sin[s].peer
      /\ sin'[p].msg = (IF moves THEN 0 ELSE sin[p].msg)
      /\ sin'[p].sending = sin[p].sending /\ sin'[p].out = sin[p].out
      /\ sin'[p].receiving = sin[p].receiving /\ sin'[p].in = sin[p].in
      /\ sin'[p].msgqueue = sin[p].msgqueue /\ sin'[p].fsm = sin[p].fsm
      /\ sin'[p].state = sin[p].state /\ sin'[p].peer = sin[p].peer
  <2> DEFINE ns == [sin[s] EXCEPT !.msgqueue = q,
                     !.receiving = @ /\ ~moves,
                     !.in = IF q = << >> THEN "ASYNC" ELSE "IDLE"]
  <2> DEFINE np == [sin[p] EXCEPT !.msg = IF moves THEN 0 ELSE @]
  <2>1. sin \in [P!Side -> SinType]
    BY <1>4 DEF InprocTypes
  <2>2. sin' = [sin EXCEPT ![s] = ns, ![p] = np]
    BY <2>1, <1>1, <1>3
  <2>3. /\ ns \in SinType
        /\ ns.msgqueue = q /\ ns.receiving = (sin[s].receiving /\ ~moves)
        /\ ns.in = (IF q = << >> THEN "ASYNC" ELSE "IDLE")
        /\ ns.msg = sin[s].msg /\ ns.sending = sin[s].sending
        /\ ns.out = sin[s].out /\ ns.fsm = sin[s].fsm
        /\ ns.state = sin[s].state /\ ns.peer = sin[s].peer
    BY <1>4, <1>6, <1>7 DEF SinType
  <2>4. /\ np \in SinType /\ np.msg = (IF moves THEN 0 ELSE sin[p].msg)
        /\ np.sending = sin[p].sending /\ np.out = sin[p].out
        /\ np.receiving = sin[p].receiving /\ np.in = sin[p].in
        /\ np.msgqueue = sin[p].msgqueue /\ np.fsm = sin[p].fsm
        /\ np.state = sin[p].state /\ np.peer = sin[p].peer
    BY <1>4, <1>6 DEF SinType
  <2> HIDE DEF ns, np
  <2>5. sin'[s] = ns /\ sin'[p] = np /\ sin' \in [P!Side -> SinType]
    BY <2>1, <2>2, <2>3, <2>4, <1>3
  <2> QED
    BY <2>3, <2>4, <2>5
<1>9. moves => sin[s].receiving /\ sin[p].msg # 0 /\ sin[p].sending
  BY <1>5 DEF moves, Carried, Way
<1>10. \A x, k : ~Raised(s, x, k)
  BY <1>2 DEF Raised, Quiet
<1>11. /\ DOMAIN iQueue' = P!Side
       /\ \A x, k : /\ Raised(p, x, k)' <=> Raised(p, x, k)
                    /\ Raised(s, x, k)' <=> moves /\ x = p /\ k = "RECEIVED"
       /\ DataEvents(s)' /\ DataEvents(p)'
  <2>1. CASE moves
    <3>1. iQueue' = [iQueue EXCEPT ![s] = <<P!Event(p, "RECEIVED")>>]
      BY <2>1, <1>1
    <3>2. /\ DOMAIN iQueue' = P!Side
          /\ \A x, k : /\ Raised(p, x, k)' <=> Raised(p, x, k)
                       /\ Raised(s, x, k)' <=>
                            <<P!Event(p, "RECEIVED")>> = <<P!Event(x, k)>>
          /\ DataEvents(p)'
      BY <3>1, <1>4, <1>5, OneQueue
    <3>3. \A x, k : Raised(s, x, k)' <=> x = p /\ k = "RECEIVED"
      BY <3>2, Distinct
    <3> QED
      BY <2>1, <3>2, <3>3, <1>3 DEF DataEvents
  <2>2. CASE ~moves
    <3>1. iQueue' = iQueue
      BY <2>2, <1>1
    <3> QED
      BY <2>2, <3>1, <1>4, <1>5, <1>10 DEF Raised, DataEvents, Quiet, InprocTypes
  <2> QED
    BY <2>1, <2>2
<1>12. /\ got' \in [P!Side -> Seq(Nat)] /\ got'[p] = got[p]
       /\ got'[s] = Append(got[s], Head(sin[s].msgqueue))
       /\ got[s] \in Seq(Nat)
  BY <1>1, <1>3, <1>4, <1>6 DEF InprocTypes
<1>13. Kept'
  BY <1>1, <1>4, <1>8, <1>11, <1>12 DEF Kept, InprocTypes
<1>14. Up(p)' /\ Up(s)'
  BY <1>1, <1>5, <1>8 DEF Up
<1>15. Way(p, s)'
  BY <1>3, <1>5, <1>8, <1>9, <1>10, <1>11 DEF Carried, Way
<1>16. Way(s, p)'
  BY <1>3, <1>5, <1>8, <1>10, <1>11 DEF Carried, Way
<1>17. Carried(p, s)'
  <2> DEFINE a == got[s]
  <2> DEFINE d == sin[s].msgqueue
  <2> DEFINE h == Head(d)
  <2> DEFINE m == sin[p].msg
  <2>1. /\ a \in Seq(Nat) /\ d \in Seq(Nat) /\ d # << >> /\ m \in Nat
        /\ h \in Nat /\ Append(a, h) \in Seq(Nat)
    BY <1>6, <1>12
  <2>2. iSent[p] = a \o d \o Shown(m)
    BY <1>5 DEF Carried
  <2>3. rest = Tail(d) /\ rest \in Seq(Nat)
    BY <1>6 DEF rest
  <2>4. Shown(m) \in Seq(Nat)
    BY <2>1, Sequences3 DEF Shown
  <2> HIDE DEF a, d, m
  <2>5. iSent[p] = Append(a, h) \o rest \o Shown(m)
    BY <2>1, <2>2, <2>3, <2>4, Taken
  <2> HIDE DEF h
  <2>6. moves => Append(a, h) \o rest \o <<m>>
                   = Append(a, h) \o Append(rest, m) \o << >>
    <3> DEFINE e == Append(a, h)
    <3>1. e \in Seq(Nat)
      BY <2>1
    <3> HIDE DEF e
    <3>2. e \o rest \o <<m>> = e \o Append(rest, m) \o << >>
      BY <3>1, <2>1, <2>3, Joins
    <3> QED
      BY <3>2 DEF e
  <2>7. iSent[p] = Append(a, h) \o q \o Shown(IF moves THEN 0 ELSE m)
    <3>1. CASE moves
      BY <3>1, <2>5, <2>6, <1>9 DEF q, Shown, m
    <3>2. CASE ~moves
      BY <3>2, <2>5 DEF q
    <3> QED
      BY <3>1, <3>2
  <2>8. iSent'[p] = got'[s] \o sin'[s].msgqueue \o Shown(sin'[p].msg)
    <3>1. got'[s] = Append(a, h)
      BY <1>12 DEF a, d, h
    <3>2. sin'[p].msg = IF moves THEN 0 ELSE m
      BY <1>8 DEF m
    <3>3. iSent'[p] = iSent[p] /\ sin'[s].msgqueue = q
      BY <1>1, <1>8
    <3> QED
      BY <2>7, <3>1, <3>2, <3>3
  <2>9. (sin'[s].in = "IDLE") = (sin'[s].msgqueue # << >>)
    BY <1>8
  <2> QED
    BY <2>8, <2>9, <1>5, <1>8, <1>15 DEF Carried
<1>18. Carried(s, p)'
  <2>1. iSent'[s] = iSent[s]
    BY <1>1
  <2>2. iSent'[s] = got'[p] \o sin'[p].msgqueue \o Shown(sin'[s].msg)
    BY <2>1, <1>5, <1>8, <1>12 DEF Carried
  <2> QED
    BY <2>2, <1>5, <1>8, <1>16 DEF Carried
<1>19. Linked'
  BY <1>1, <1>2, <1>3, <1>11, <1>14, <1>17, <1>18 DEF Linked
<1> QED
  BY <1>13, <1>19 DEF InprocInv, Kept

(* NN_SINPROC_SENT: the message is queued, or lingers at the peer.         *)
LEMMA SentKeeps ==
  ASSUME InprocInv, NEW t \in P!Side, NEW s \in P!Side, P!Sent(t, s)
  PROVE  InprocInv'
<1> DEFINE p == P!Other(s)
<1> DEFINE full == P!nn_msgqueue_full(sin[s].msgqueue)
<1> DEFINE takes == sin[s].fsm = "ACTIVE" /\ sin[s].state = "ACTIVE"
<1> DEFINE raised == IF takes /\ ~full THEN <<P!Event(p, "RECEIVED")>> ELSE << >>
<1>1. raised = << >> \/ \E e : raised = <<e>>
  OBVIOUS
<1>2. P!Delivers(t, s, "SENT", raised)
  BY DEF P!Sent
<1> HIDE DEF raised
<1>3. /\ Linked /\ Raised(t, s, "SENT")
      /\ iQueue' = [iQueue EXCEPT ![t] = raised] /\ alone' = {}
      /\ UNCHANGED ins
  BY <1>1, <1>2, MessageDelivered
<1>4. /\ p \in P!Side /\ s # p /\ P!Side = {p, s} /\ P!Other(p) = s
  BY Sides
<1>5. Kept /\ InprocTypes /\ sin[p] \in SinType /\ sin[s] \in SinType
  BY <1>4 DEF InprocInv, Kept, InprocTypes
<1>6. /\ Up(p) /\ Up(s) /\ Carried(p, s) /\ Carried(s, p)
      /\ DataEvents(p) /\ DataEvents(s)
  BY <1>3, <1>4 DEF Linked
<1>7. t = p
  <2>1. /\ DataEvents(t) /\ ~Quiet(t)
        /\ \A y, k : Raised(t, y, k) => y = s /\ k = "SENT"
    BY <1>3, <1>4, <1>6, EventsDiffer
  <2>2. P!Other(t) = s
    BY <2>1 DEF DataEvents
  <2> QED
    BY <2>2, <1>4
<1>8. takes
  BY <1>6 DEF Up
<1>9. /\ sin[p].sending /\ sin[p].msg # 0 /\ ~sin[s].receiving
      /\ ~Raised(s, p, "RECEIVED")
  <2>1. Raised(p, s, "SENT")
    BY <1>3, <1>7
  <2>2. ~Raised(p, p, "RECEIVED")
    BY <2>1, EventsDiffer
  <2> QED
    BY <2>1, <2>2, <1>6 DEF Carried, Way
<1>10. /\ DOMAIN iQueue' = P!Side /\ iQueue'[p] = raised
       /\ \A x, k : /\ Raised(s, x, k)' <=> Raised(s, x, k)
                    /\ Raised(p, x, k)' <=> raised = <<P!Event(x, k)>>
       /\ DataEvents(s)'
  <2>1. iQueue' = [iQueue EXCEPT ![p] = raised]
    BY <1>3, <1>7
  <2> QED
    <3> DEFINE o == P!Other(p)
    <3>1. o = s
      BY <1>4
    <3>2. DataEvents(o)
      BY <3>1, <1>6
    <3>3. /\ DOMAIN iQueue' = P!Side /\ iQueue'[p] = raised
          /\ \A x, k : /\ Raised(o, x, k)' <=> Raised(o, x, k)
                       /\ Raised(p, x, k)' <=> raised = <<P!Event(x, k)>>
          /\ DataEvents(o)'
      BY <2>1, <3>2, <1>4, <1>5, OneQueue
    <3> QED
      BY <3>1, <3>3
<1>11. raised = IF full THEN << >> ELSE <<P!Event(p, "RECEIVED")>>
  BY <1>8 DEF raised
<1> HIDE DEF full
<1>12. /\ \A x, k : Raised(p, x, k)' <=> ~full /\ x = p /\ k = "RECEIVED"
       /\ DataEvents(p)'
  <2>1. \A x, k : Raised(p, x, k)' <=> ~full /\ x = p /\ k = "RECEIVED"
    BY <1>10, <1>11, Distinct
  <2> QED
    BY <2>1, <1>4, <1>10, <1>11 DEF DataEvents, Quiet
<1>13. \A x, k : Raised(p, x, k) => x = s /\ k = "SENT"
  BY <1>3, <1>7, EventsDiffer
<1>14. UNCHANGED <<ep, bad, iSent, got>>
  BY <1>8 DEF P!Sent
<1>15. /\ sin[s].msgqueue \in Seq(Nat) /\ sin[p].msg \in Nat
       /\ Append(sin[s].msgqueue, sin[p].msg) \in Seq(Nat)
       /\ Append(sin[s].msgqueue, sin[p].msg) # << >>
       /\ sin \in [P!Side -> SinType]
       /\ got[s] \in Seq(Nat)
  <2>1. /\ sin[s].msgqueue \in Seq(Nat) /\ sin[p].msg \in Nat
        /\ sin \in [P!Side -> SinType] /\ got[s] \in Seq(Nat)
    BY <1>4, <1>5 DEF SinType, InprocTypes
  <2> QED
    BY <2>1, AppendProperties
<1>16. CASE full
  <2>1. sin' = [sin EXCEPT ![s].receiving = TRUE]
    BY <1>8, <1>16 DEF P!Sent, full
  <2>2. /\ sin' \in [P!Side -> SinType] /\ sin'[p] = sin[p]
        /\ sin'[s].msgqueue = sin[s].msgqueue /\ sin'[s].receiving = TRUE
        /\ sin'[s].in = sin[s].in
        /\ sin'[s].msg = sin[s].msg /\ sin'[s].sending = sin[s].sending
        /\ sin'[s].out = sin[s].out /\ sin'[s].fsm = sin[s].fsm
        /\ sin'[s].state = sin[s].state /\ sin'[s].peer = sin[s].peer
    BY <2>1, <1>4, <1>5, <1>15 DEF SinType
  <2>3. Kept' /\ Up(p)' /\ Up(s)'
    BY <2>2, <1>3, <1>5, <1>6, <1>10, <1>14 DEF Kept, InprocTypes, Up
  <2>4. Way(p, s)' /\ Way(s, p)'
    <3>1. Way(p, s)'
      BY <2>2, <1>4, <1>9, <1>10, <1>12, <1>16 DEF Way
    <3>2. Way(s, p)'
      BY <2>2, <1>4, <1>6, <1>10, <1>12, <1>13, <1>16 DEF Carried, Way
    <3> QED
      BY <3>1, <3>2
  <2>5. Carried(p, s)' /\ Carried(s, p)'
    BY <2>2, <2>4, <1>6, <1>14 DEF Carried
  <2>6. Linked'
    BY <2>3, <2>5, <1>3, <1>4, <1>10, <1>12 DEF Linked
  <2> QED
    BY <2>3, <2>6 DEF InprocInv, Kept
<1>17. CASE ~full
  <2> DEFINE d == Append(sin[s].msgqueue, sin[p].msg)
  <2> DEFINE i == IF sin[s].msgqueue = << >> THEN "IDLE" ELSE sin[s].in
  <2>1. sin' = [sin EXCEPT ![s].msgqueue = Append(@, sin[p].msg),
                  ![s].in = IF sin[s].msgqueue = << >> THEN "IDLE" ELSE @,
                  ![p].msg = 0]
    BY <1>8, <1>17 DEF P!Sent, full
  <2>2. i = "IDLE"
    BY <1>6 DEF Carried
  <2>3. /\ sin' \in [P!Side -> SinType]
        /\ sin'[s].msgqueue = d /\ sin'[s].receiving = sin[s].receiving
        /\ sin'[s].in = "IDLE"
        /\ sin'[s].msg = sin[s].msg /\ sin'[s].sending = sin[s].sending
        /\ sin'[s].out = sin[s].out /\ sin'[s].fsm = sin[s].fsm
        /\ sin'[s].state = sin[s].state /\ sin'[s].peer = sin[s].peer
        /\ sin'[p].msg = 0
        /\ sin'[p].sending = sin[p].sending /\ sin'[p].out = sin[p].out
        /\ sin'[p].receiving = sin[p].receiving /\ sin'[p].in = sin[p].in
        /\ sin'[p].msgqueue = sin[p].msgqueue /\ sin'[p].fsm = sin[p].fsm
        /\ sin'[p].state = sin[p].state /\ sin'[p].peer = sin[p].peer
    <3> HIDE DEF d
    <3> DEFINE ns == [sin[s] EXCEPT !.msgqueue = d, !.in = i]
    <3> DEFINE np == [sin[p] EXCEPT !.msg = 0]
    <3>1. sin' = [sin EXCEPT ![s] = ns, ![p] = np]
      BY <2>1, <1>4, <1>15 DEF d
    <3> HIDE DEF i
    <3>2. /\ ns \in SinType
          /\ ns.msgqueue = d /\ ns.receiving = sin[s].receiving
          /\ ns.in = "IDLE"
          /\ ns.msg = sin[s].msg /\ ns.sending = sin[s].sending
          /\ ns.out = sin[s].out /\ ns.fsm = sin[s].fsm
          /\ ns.state = sin[s].state /\ ns.peer = sin[s].peer
      <4>1. d \in Seq(Nat)
        BY <1>15 DEF d
      <4> QED
        BY <4>1, <2>2, <1>5 DEF SinType
    <3>3. /\ np \in SinType /\ np.msg = 0
          /\ np.sending = sin[p].sending /\ np.out = sin[p].out
          /\ np.receiving = sin[p].receiving /\ np.in = sin[p].in
          /\ np.msgqueue = sin[p].msgqueue /\ np.fsm = sin[p].fsm
          /\ np.state = sin[p].state /\ np.peer = sin[p].peer
      BY <1>5 DEF SinType
    <3> HIDE DEF ns, np
    <3>4. sin'[s] = ns /\ sin'[p] = np /\ sin' \in [P!Side -> SinType]
      BY <3>1, <3>2, <3>3, <1>4, <1>15
    <3> QED
      BY <3>2, <3>3, <3>4
  <2> HIDE DEF i
  <2>4. Kept' /\ Up(p)' /\ Up(s)'
    BY <2>3, <1>3, <1>5, <1>6, <1>10, <1>14 DEF Kept, InprocTypes, Up
  <2>5. Way(p, s)' /\ Way(s, p)'
    <3>1. Way(p, s)'
      BY <2>3, <1>4, <1>9, <1>10, <1>12, <1>17 DEF Way
    <3>2. Way(s, p)'
      BY <2>3, <1>4, <1>6, <1>10, <1>12, <1>13, <1>17 DEF Carried, Way
    <3> QED
      BY <3>1, <3>2
  <2>6. Carried(p, s)'
    <3> DEFINE a == got[s]
    <3> DEFINE c == sin[s].msgqueue
    <3> DEFINE m == sin[p].msg
    <3>1. iSent[p] = a \o c \o <<m>>
      BY <1>6, <1>9 DEF Carried, Shown
    <3>2. a \in Seq(Nat) /\ c \in Seq(Nat) /\ m \in Nat /\ d = Append(c, m)
      BY <1>15
    <3> HIDE DEF a, c, m, d
    <3>3. iSent[p] = a \o d \o << >>
      BY <3>1, <3>2, Joins
    <3>4. iSent'[p] = got'[s] \o sin'[s].msgqueue \o Shown(sin'[p].msg)
      BY <3>3, <2>3, <1>14 DEF Shown, a
    <3>5. (sin'[s].in = "IDLE") = (sin'[s].msgqueue # << >>)
      BY <2>3, <1>15 DEF d
    <3> QED
      BY <3>4, <3>5, <2>3, <2>5, <1>6 DEF Carried
  <2>7. Carried(s, p)'
    BY <2>3, <2>5, <1>6, <1>14 DEF Carried
  <2>8. Linked'
    BY <2>4, <2>6, <2>7, <1>3, <1>4, <1>10, <1>12 DEF Linked
  <2> QED
    BY <2>4, <2>8 DEF InprocInv, Kept
<1> QED
  BY <1>16, <1>17

(* NN_SINPROC_RECEIVED: the pipe can send again.                           *)
LEMMA ReceivedKeeps ==
  ASSUME InprocInv, NEW t \in P!Side, NEW p \in P!Side, P!Received(t, p)
  PROVE  InprocInv'
<1> DEFINE s == P!Other(p)
<1> DEFINE u == P!Other(t)
<1>1. P!Delivers(t, p, "RECEIVED", << >>)
  BY DEF P!Received
<1>2. /\ Linked /\ Raised(t, p, "RECEIVED")
      /\ iQueue' = [iQueue EXCEPT ![t] = << >>] /\ alone' = {}
      /\ UNCHANGED ins
  BY <1>1, MessageDelivered
<1>3. /\ s \in P!Side /\ s # p /\ P!Side = {p, s} /\ P!Other(s) = p
      /\ u \in P!Side /\ u # t /\ P!Side = {t, u}
  BY Sides
<1>4. Kept /\ InprocTypes /\ sin[p] \in SinType /\ sin[s] \in SinType
      /\ sin \in [P!Side -> SinType]
  BY <1>3 DEF InprocInv, Kept, InprocTypes
<1>5. /\ Up(p) /\ Up(s) /\ Carried(p, s) /\ Carried(s, p)
      /\ DataEvents(t) /\ DataEvents(u)
  BY <1>2, <1>3 DEF Linked
<1>6. /\ sin[p].sending /\ sin[p].msg = 0 /\ ~sin[s].receiving
      /\ sin[p].out = "ASYNC" /\ ~Raised(u, p, "RECEIVED")
      /\ ~Raised(p, s, "SENT")
  <2>1. t = p \/ t = s
    BY <1>3
  <2>2. ~Raised(t, s, "SENT")
    BY <1>2, EventsDiffer
  <2>3. CASE t = p
    BY <2>2, <2>3, <1>2, <1>3, <1>5 DEF Carried, Way
  <2>4. CASE t = s
    BY <2>4, <1>2, <1>3, <1>5 DEF Carried, Way
  <2> QED
    BY <2>1, <2>3, <2>4
<1>7. /\ ~bad' /\ sin' = [sin EXCEPT ![p].sending = FALSE, ![p].out = "IDLE"]
      /\ UNCHANGED <<ep, iSent, got>>
  BY <1>5, <1>6 DEF P!Received, Up
<1>8. /\ sin' \in [P!Side -> SinType] /\ sin'[s] = sin[s]
      /\ sin'[p].msgqueue = sin[p].msgqueue
      /\ sin'[p].receiving = sin[p].receiving
      /\ sin'[p].in = sin[p].in /\ sin'[p].msg = sin[p].msg
      /\ sin'[p].sending = FALSE /\ sin'[p].out = "IDLE"
      /\ sin'[p].fsm = sin[p].fsm
      /\ sin'[p].state = sin[p].state /\ sin'[p].peer = sin[p].peer
  BY <1>3, <1>4, <1>7 DEF SinType
<1>9. /\ DOMAIN iQueue' = P!Side /\ iQueue'[t] = << >>
      /\ \A x, k : /\ Raised(u, x, k)' <=> Raised(u, x, k)
                   /\ ~Raised(t, x, k)'
      /\ DataEvents(u)' /\ DataEvents(t)'
  <2>1. /\ DOMAIN iQueue' = P!Side /\ iQueue'[t] = << >>
        /\ \A x, k : Raised(u, x, k)' <=> Raised(u, x, k)
        /\ DataEvents(u)'
    BY <1>2, <1>3, <1>4, <1>5, OneQueue
  <2> QED
    BY <2>1, Distinct DEF Raised, DataEvents, Quiet
<1>10. Kept' /\ Up(p)' /\ Up(s)'
  BY <1>2, <1>4, <1>5, <1>7, <1>8, <1>9 DEF Kept, InprocTypes, Up
<1>11. \A x \in P!Side : \A k : /\ ~Raised(x, p, "RECEIVED")'
                                /\ ~Raised(p, s, "SENT")'
                                /\ Raised(x, s, k)' <=> Raised(x, s, k) /\ x # t
  BY <1>3, <1>6, <1>9
<1>12. ~Raised(t, s, "RECEIVED")
  BY <1>2, <1>3, EventsDiffer
<1>13. Raised(s, p, "SENT")' <=> Raised(s, p, "SENT")
  <2>1. ~Raised(t, p, "SENT")
    BY <1>2, EventsDiffer
  <2> QED
    BY <2>1, <1>3, <1>9
<1>14. \A x \in P!Side : Raised(x, s, "RECEIVED")' <=> Raised(x, s, "RECEIVED")
  BY <1>11, <1>12
<1>15. Way(p, s)'
  BY <1>6, <1>8, <1>11, <1>3 DEF Way
<1>16. Way(s, p)'
  BY <1>3, <1>5, <1>8, <1>13, <1>14 DEF Carried, Way
<1>17. Carried(p, s)' /\ Carried(s, p)'
  BY <1>5, <1>7, <1>8, <1>15, <1>16 DEF Carried
<1>18. Linked'
  BY <1>2, <1>3, <1>9, <1>10, <1>17 DEF Linked
<1> QED
  BY <1>10, <1>18 DEF InprocInv, Kept

-----------------------------------------------------------------------------
(* Every step of the two threads keeps the invariant.                      *)
LEMMA InprocStep ==
  ASSUME InprocInv, ~Overlap, P!Next
  PROVE  InprocInv'
<1>1. CASE P!nn_cinproc_create \/ P!nn_binproc_create
  BY <1>1, CreateKeeps
<1>2. ASSUME NEW s \in P!Side,
             \/ P!nn_sinproc_send(s) \/ P!nn_sinproc_recv(s) \/ P!Stop(s)
             \/ P!Return(s)
      PROVE  InprocInv'
  BY <1>2, SendKeeps, RecvKeeps, StopKeeps, ReturnKeeps
<1>3. ASSUME NEW t \in P!Side, P!Deliver(t)
      PROVE  InprocInv'
  <2>1. PICK s \in P!Side : \/ P!Connect(t, s) \/ P!Ready(t, s)
                            \/ P!Accepted(t, s) \/ P!Sent(t, s)
                            \/ P!Received(t, s) \/ P!Disconnect(t, s)
    BY <1>3 DEF P!Deliver
  <2> QED
    BY <2>1, ConnectKeeps, ReadyKeeps, AcceptedKeeps, SentKeeps, ReceivedKeeps,
       DisconnectKeeps
<1> QED
  BY <1>1, <1>2, <1>3 DEF P!Next

(* Before the first call nothing is connected.                             *)
LEMMA InprocStart ==
  ASSUME P!Init
  PROVE  InprocInv
<1>1. /\ ep = [s \in P!Side |-> "NONE"] /\ ins = {} /\ alone = {} /\ ~bad
      /\ sin = [s \in P!Side |-> P!nn_sinproc_init]
      /\ iQueue = [s \in P!Side |-> << >>]
      /\ iSent = [s \in P!Side |-> << >>] /\ got = [s \in P!Side |-> << >>]
  BY DEF P!Init
<1>2. /\ P!nn_sinproc_init \in SinType
      /\ P!nn_sinproc_init.in = "OFF" /\ P!nn_sinproc_init.out = "OFF"
      /\ P!nn_sinproc_init.fsm = "IDLE" /\ P!nn_sinproc_init.state = "IDLE"
  BY DEF P!nn_sinproc_init, SinType
<1>3. InprocTypes
  BY <1>1, <1>2 DEF InprocTypes
<1>4. Apart
  BY <1>1, <1>2 DEF Apart, Down, Quiet
<1> QED
  BY <1>1, <1>3, <1>4 DEF InprocInv

(* InprocInv is an invariant of the composition: the other transports      *)
(* leave inproc alone.                                                     *)
LEMMA InprocKept ==
  ASSUME ~Overlap
  PROVE  Spec => []InprocInv
<1>1. ASSUME Init
      PROVE  InprocInv
  BY <1>1, InprocStart DEF Init
<1>2. ASSUME InprocInv, [Next]_vars
      PROVE  InprocInv'
  <2>1. P!Next \/ UNCHANGED inproc
    BY <1>2 DEF Next, Stream, Websocket, Inproc, Framing, Opening, vars
  <2>2. CASE UNCHANGED inproc
    <3>1. UNCHANGED <<ep, ins, sin, iQueue, alone, bad, iSent, got>>
      BY <2>2 DEF inproc
    <3>2. \A t, s, k : Raised(t, s, k)' <=> Raised(t, s, k)
      BY <3>1 DEF Raised
    <3>3. ASSUME NEW t
          PROVE  /\ Quiet(t)' <=> Quiet(t)
                 /\ Down(t)' <=> Down(t)
                 /\ Up(t)' <=> Up(t)
                 /\ DataEvents(t)' <=> DataEvents(t)
      <4>1. Quiet(t)' <=> Quiet(t)
        BY <3>1 DEF Quiet
      <4>2. Down(t)' <=> Down(t)
        BY <3>1 DEF Down, P!Accepts
      <4>3. Up(t)' <=> Up(t)
        BY <3>1 DEF Up
      <4>4. DataEvents(t)' <=> DataEvents(t)
        BY <3>2, <4>1 DEF DataEvents
      <4> QED
        BY <4>1, <4>2, <4>3, <4>4
    <3>4. ASSUME NEW t, NEW s
          PROVE  /\ Carried(t, s)' <=> Carried(t, s)
                 /\ Changes(t, s)' <=> Changes(t, s)
      <4>1. Way(t, s)' <=> Way(t, s)
        BY <3>1, <3>2 DEF Way
      <4>2. Carried(t, s)' <=> Carried(t, s)
        BY <3>1, <4>1 DEF Carried
      <4>3. Opens(t, s)' <=> Opens(t, s)
        BY <3>1, <3>2 DEF Opens, P!Accepts
      <4>4. Closes(t, s)' <=> Closes(t, s)
        BY <3>1, <3>2, <3>3 DEF Closes
      <4>5. Changes(t, s)' <=> Changes(t, s)
        BY <3>1, <3>3, <4>3, <4>4 DEF Changes
      <4> QED
        BY <4>2, <4>5
    <3>5. Apart' <=> Apart
      BY <3>3 DEF Apart
    <3>6. Linked' <=> Linked
      BY <3>1, <3>3, <3>4 DEF Linked
    <3>7. InprocTypes'
      BY <1>2, <3>1 DEF InprocInv, InprocTypes
    <3> QED
      BY <1>2, <3>1, <3>4, <3>5, <3>6, <3>7 DEF InprocInv
  <2> QED
    BY <1>2, <2>1, <2>2, InprocStep
<1> QED
  BY <1>1, <1>2, PTL DEF Spec

(* Two ends that are both active are linked.                               *)
LEMMA InprocTransfers ==
  ASSUME InprocInv
  PROVE  P!NoBadEvent /\ P!ExactTransfer
<1>1. P!NoBadEvent
  BY DEF InprocInv, P!NoBadEvent
<1>2. ASSUME NEW s \in P!Side,
             sin[s].state = "ACTIVE" /\ sin[P!Other(s)].state = "ACTIVE"
      PROVE  LET p == sin[P!Other(s)] IN
             /\ iSent[P!Other(s)] = got[s] \o sin[s].msgqueue
                   \o (IF p.msg = 0 THEN << >> ELSE <<p.msg>>)
             /\ (sin[s].in = "IDLE") = (sin[s].msgqueue # << >>)
             /\ p.sending = (p.out = "ASYNC")
             /\ sin[s].receiving => p.msg # 0
  <2> DEFINE p == P!Other(s)
  <2>1. p \in P!Side /\ p # s /\ P!Side = {p, s} /\ P!Other(p) = s
    BY Sides
  <2>2. ~Apart
    BY <1>2 DEF Apart, Down
  <2>3. ASSUME NEW t \in P!Side
        PROVE  ~Changes(t, P!Other(t))
    <3>1. sin[t].state = "ACTIVE" /\ sin[P!Other(t)].state = "ACTIVE"
      BY <1>2, <2>1
    <3> QED
      BY <3>1, NewEnds DEF Changes, Opens, Closes
  <2>4. Linked
    BY <2>2, <2>3 DEF InprocInv
  <2>5. Carried(p, s)
    BY <2>1, <2>4 DEF Linked
  <2> QED
    BY <2>5 DEF Carried, Way, Shown
<1> QED
  BY <1>1, <1>2 DEF P!ExactTransfer

(* Inproc: no event comes in a state of an endpoint or of an end that has  *)
(* no case for it (the assertions of sinproc.c, cinproc.c and binproc.c),  *)
(* whoever connects, binds, closes or sends first, if calls that open or   *)
(* close an endpoint do not overlap with others.                           *)
THEOREM InprocHandlesEvents ==
  ASSUME ~Overlap
  PROVE  Spec => [](started = "inproc" => NoBadEvent)
<1>1. InprocInv => (started = "inproc" => NoBadEvent)
  BY InprocTransfers DEF NoBadEvent
<1> QED
  BY <1>1, InprocKept, PTL

(* Inproc: what an end received is what the other sent, in its order,      *)
(* followed by what waits in the queue of messages and by the one message  *)
(* that waits for room there; and a pipe is told that it can send or       *)
(* receive again exactly when it can (nn_sinproc_handler).                 *)
THEOREM InprocIsExact ==
  ASSUME ~Overlap
  PROVE  Spec => [](started = "inproc" => Transferred)
<1>1. InprocInv => (started = "inproc" => Transferred)
  BY InprocTransfers DEF Transferred
<1> QED
  BY <1>1, InprocKept, PTL

-----------------------------------------------------------------------------
(* Frames. A text, and octets, are sequences of numbers.                   *)
Text == Seq(Nat)

(* A non-empty set of natural numbers has a smallest element.              *)
LEMMA Smallest ==
  ASSUME NEW S \in SUBSET Nat, S # {}
  PROVE  \E x \in S : \A y \in S : x <= y
<1>1. PICK x \in S : \A y \in S : ~(<<y, x>> \in OpToRel(<, Nat))
  BY NatLessThanWellFounded, WFMin, Zenon
<1>2. \A y \in S : ~(y < x)
  BY <1>1 DEF OpToRel
<1> QED BY <1>2

Trail(x) == 128 <= x /\ x <= 191

(* The octets of a code point of k octets.                                 *)
Shape(v, k) ==
  \/ k = 1 /\ v[1] <= 127
  \/ k = 2 /\ 194 <= v[1] /\ v[1] <= 223 /\ Trail(v[2])
  \/ /\ k = 3 /\ 224 <= v[1] /\ v[1] <= 239 /\ Trail(v[2]) /\ Trail(v[3])
     /\ v[1] = 224 => v[2] >= 160
     /\ v[1] = 237 => v[2] < 160
  \/ /\ k = 4 /\ 240 <= v[1] /\ v[1] <= 244
     /\ Trail(v[2]) /\ Trail(v[3]) /\ Trail(v[4])
     /\ v[1] = 240 => v[2] >= 144
     /\ v[1] = 244 => v[2] < 144

(* An octet that follows the first is one of those of RFC 3629.            *)
LEMMA FollowsIsTrail ==
  ASSUME NEW v \in Text, NEW i \in 1 .. Len(v)
  PROVE  F!Follows(v, i) <=> Trail(v[i])
<1>1. v[i] \in Int
  BY DEF Text
<1>2. \A x \in Int : x \in 128 .. 191 <=> 128 <= x /\ x <= 191
  BY SMT
<1> QED BY <1>1, <1>2 DEF F!Follows, Trail

(* The first octets of the code points of every length, and their least    *)
(* values.                                                                 *)
LEMMA Encoding ==
  /\ F!Lead[1] = 0 .. 127 /\ F!Lead[2] = 192 .. 223
  /\ F!Lead[3] = 224 .. 239 /\ F!Lead[4] = 240 .. 247
  /\ F!Least[1] = 0 /\ F!Least[2] = 128
  /\ F!Least[3] = 2048 /\ F!Least[4] = 65536
BY SMT DEF F!Lead, F!Least

(* A value is encoded in as few octets as possible, is not too large and   *)
(* no surrogate.                                                           *)
Encoded(x, lead, value, least) ==
  /\ x \in lead
  /\ value \in least .. F!Greatest
  /\ value \notin F!Surrogate

(* The values of code points of two, three and four octets.                *)
Value2(x, y) == (x - 192) * 64 + (y - 128)
Value3(x, y, z) == (x - 224) * 4096 + (y - 128) * 64 + (z - 128)
Value4(x, y, z, u) ==
  (x - 240) * 262144 + (y - 128) * 4096 + (z - 128) * 64 + (u - 128)

(* The values are integers.                                                *)
LEMMA Values ==
  \A x, y, z, u \in Nat :
    Value2(x, y) \in Int /\ Value3(x, y, z) \in Int /\ Value4(x, y, z, u) \in Int
BY SMT DEF Value2, Value3, Value4

(* The range of the values and the surrogates in inequalities.             *)
LEMMA Limits ==
  ASSUME NEW val \in Int, NEW least \in Int
  PROVE  /\ val \in least .. F!Greatest <=> least <= val /\ val <= 1114111
         /\ val \in F!Surrogate <=> 55296 <= val /\ val <= 57343
BY SMT DEF F!Greatest, F!Surrogate

(* Which code points of one octet are in UTF-8.                            *)
LEMMA Encoded1 ==
  ASSUME NEW x \in Nat
  PROVE  Encoded(x, F!Lead[1], x, F!Least[1]) <=>
           x <= 127
<1>1. x \in F!Lead[1] <=> 0 <= x /\ x <= 127
  BY SMT, Encoding
<1>2. F!Least[1] = 0 /\ F!Least[1] \in Int
  BY SMT, Encoding
<1> DEFINE val == x
<1>3. val \in Int
  BY Values
<1>4. Encoded(x, F!Lead[1], val, F!Least[1]) <=>
        /\ 0 <= x /\ x <= 127
        /\ 0 <= val /\ val <= 1114111
        /\ ~(55296 <= val /\ val <= 57343)
  <2> HIDE DEF val
  <2> QED BY SMT, <1>1, <1>2, <1>3, Limits DEF Encoded
<1> QED BY SMT, <1>4 DEF Trail

(* Which code points of two octets are in UTF-8: none that one octet would *)
(* do for.                                                                 *)
LEMMA Encoded2 ==
  ASSUME NEW x \in Nat, NEW y \in Nat, Trail(y)
  PROVE  Encoded(x, F!Lead[2], Value2(x, y), F!Least[2]) <=>
           194 <= x /\ x <= 223
<1>1. x \in F!Lead[2] <=> 192 <= x /\ x <= 223
  BY SMT, Encoding
<1>2. F!Least[2] = 128 /\ F!Least[2] \in Int
  BY SMT, Encoding
<1> DEFINE val == Value2(x, y)
<1>3. val \in Int
  BY Values
<1>4. Encoded(x, F!Lead[2], val, F!Least[2]) <=>
        /\ 192 <= x /\ x <= 223
        /\ 128 <= val /\ val <= 1114111
        /\ ~(55296 <= val /\ val <= 57343)
  <2> HIDE DEF val
  <2> QED BY SMT, <1>1, <1>2, <1>3, Limits DEF Encoded
<1> QED BY SMT, <1>4 DEF Trail, Value2

(* Which code points of three octets are in UTF-8: none that two octets    *)
(* would do for, and no surrogate.                                         *)
LEMMA Encoded3 ==
  ASSUME NEW x \in Nat, NEW y \in Nat, NEW z \in Nat, Trail(y), Trail(z)
  PROVE  Encoded(x, F!Lead[3], Value3(x, y, z), F!Least[3]) <=>
           /\ 224 <= x /\ x <= 239
           /\ x = 224 => y >= 160
           /\ x = 237 => y < 160
<1>1. x \in F!Lead[3] <=> 224 <= x /\ x <= 239
  BY SMT, Encoding
<1>2. F!Least[3] = 2048 /\ F!Least[3] \in Int
  BY SMT, Encoding
<1> DEFINE val == Value3(x, y, z)
<1>3. val \in Int
  BY Values
<1>4. Encoded(x, F!Lead[3], val, F!Least[3]) <=>
        /\ 224 <= x /\ x <= 239
        /\ 2048 <= val /\ val <= 1114111
        /\ ~(55296 <= val /\ val <= 57343)
  <2> HIDE DEF val
  <2> QED BY SMT, <1>1, <1>2, <1>3, Limits DEF Encoded
<1> QED BY SMT, <1>4 DEF Trail, Value3

(* Which code points of four octets are in UTF-8: none that three octets   *)
(* would do for, and none that is too large.                               *)
LEMMA Encoded4 ==
  ASSUME NEW x \in Nat, NEW y \in Nat, NEW z \in Nat, NEW u \in Nat,
         Trail(y), Trail(z), Trail(u)
  PROVE  Encoded(x, F!Lead[4], Value4(x, y, z, u), F!Least[4]) <=>
           /\ 240 <= x /\ x <= 244
           /\ x = 240 => y >= 144
           /\ x = 244 => y < 144
<1>1. x \in F!Lead[4] <=> 240 <= x /\ x <= 247
  BY SMT, Encoding
<1>2. F!Least[4] = 65536 /\ F!Least[4] \in Int
  BY SMT, Encoding
<1> DEFINE val == Value4(x, y, z, u)
<1>3. val \in Int
  BY Values
<1>4. Encoded(x, F!Lead[4], val, F!Least[4]) <=>
        /\ 240 <= x /\ x <= 247
        /\ 65536 <= val /\ val <= 1114111
        /\ ~(55296 <= val /\ val <= 57343)
  <2> HIDE DEF val
  <2> QED BY SMT, <1>1, <1>2, <1>3, Limits DEF Encoded
<1> QED BY SMT, <1>4 DEF Trail, Value4

(* CodePoint compares the octets and the value they encode.                *)
LEMMA CodePointEncoded ==
  ASSUME NEW v \in Text, NEW k \in 1 .. 4, k = Len(v)
  PROVE  F!CodePoint(v) <=> /\ Encoded(v[1], F!Lead[k], F!Value(v), F!Least[k])
                            /\ \A i \in 2 .. k : Trail(v[i])
<1>1. \A i \in 2 .. k : F!Follows(v, i) <=> Trail(v[i])
  BY FollowsIsTrail
<1> QED BY <1>1 DEF F!CodePoint, Encoded

(* CodePoint says by the value that is encoded what Shape says.            *)
LEMMA ShapeOfCodePoint ==
  ASSUME NEW v \in Text, NEW k \in 1 .. 4, k = Len(v)
  PROVE  F!CodePoint(v) <=> Shape(v, k)
<1>1. \A i \in 1 .. k : v[i] \in Nat
  BY DEF Text
<1>6. F!CodePoint(v) <=> /\ Encoded(v[1], F!Lead[k], F!Value(v), F!Least[k])
                         /\ \A i \in 2 .. k : Trail(v[i])
  BY CodePointEncoded
<1>2. CASE k = 1
  <2>1. v[1] \in Nat /\ F!Value(v) = v[1]
    BY SMT, <1>1, <1>2 DEF F!Value
  <2>2. Encoded(v[1], F!Lead[k], v[1], F!Least[k]) <=> v[1] <= 127
    BY Zenon, <1>2, <2>1, Encoded1
  <2> QED BY SMT, <1>2, <2>1, <2>2, <1>6 DEF Shape
<1>3. CASE k = 2
  <2>1. v[1] \in Nat /\ v[2] \in Nat /\ F!Value(v) = Value2(v[1], v[2])
    BY SMT, <1>1, <1>3 DEF F!Value, F!Bits, Value2
  <2>2. Trail(v[2]) =>
          (Encoded(v[1], F!Lead[k], F!Value(v), F!Least[k]) <=>
             194 <= v[1] /\ v[1] <= 223)
    BY <1>3, <2>1, Encoded2
  <2>3. (\A i \in 2 .. k : Trail(v[i])) <=> Trail(v[2])
    BY <1>3
  <2> QED BY SMT, <1>3, <2>2, <2>3, <1>6 DEF Shape
<1>4. CASE k = 3
  <2>1. /\ v[1] \in Nat /\ v[2] \in Nat /\ v[3] \in Nat
        /\ F!Value(v) = Value3(v[1], v[2], v[3])
    BY SMT, <1>1, <1>4 DEF F!Value, F!Bits, Value3
  <2>2. Trail(v[2]) /\ Trail(v[3]) =>
          (Encoded(v[1], F!Lead[k], F!Value(v), F!Least[k]) <=>
             /\ 224 <= v[1] /\ v[1] <= 239
             /\ v[1] = 224 => v[2] >= 160
             /\ v[1] = 237 => v[2] < 160)
    BY <1>4, <2>1, Encoded3
  <2>3. (\A i \in 2 .. k : Trail(v[i])) <=> Trail(v[2]) /\ Trail(v[3])
    BY <1>4
  <2> QED BY SMT, <1>4, <2>2, <2>3, <1>6 DEF Shape
<1>5. CASE k = 4
  <2>1. /\ v[1] \in Nat /\ v[2] \in Nat /\ v[3] \in Nat /\ v[4] \in Nat
        /\ F!Value(v) = Value4(v[1], v[2], v[3], v[4])
    BY SMT, <1>1, <1>5 DEF F!Value, F!Bits, Value4
  <2>2. Trail(v[2]) /\ Trail(v[3]) /\ Trail(v[4]) =>
          (Encoded(v[1], F!Lead[k], F!Value(v), F!Least[k]) <=>
             /\ 240 <= v[1] /\ v[1] <= 244
             /\ v[1] = 240 => v[2] >= 144
             /\ v[1] = 244 => v[2] < 144)
    BY <1>5, <2>1, Encoded4
  <2>3. (\A i \in 2 .. k : Trail(v[i])) <=>
           Trail(v[2]) /\ Trail(v[3]) /\ Trail(v[4])
    BY <1>5
  <2> QED BY SMT, <1>5, <2>2, <2>3, <1>6 DEF Shape
<1> QED BY <1>2, <1>3, <1>4, <1>5

(* The first octet decides the case of nn_utf8_code_point.                 *)
LEMMA FirstOctet ==
  ASSUME NEW x \in Nat
  PROVE  /\ x \in 128 .. 193 <=> 128 <= x /\ x <= 193
         /\ x \in 194 .. 223 <=> 194 <= x /\ x <= 223
         /\ x \in 224 .. 239 <=> 224 <= x /\ x <= 239
         /\ x \in 240 .. 244 <=> 240 <= x /\ x <= 244
BY SMT

In(x, a, z) == a <= x /\ x <= z

(* The cases of nn_utf8_code_point, apart from each other.                 *)
LEMMA Cases ==
  ASSUME NEW u \in Text, Len(u) >= 1
  PROVE  /\ u[1] <= 127 => F!nn_utf8_code_point(u) = 1
         /\ In(u[1], 128, 193) => F!nn_utf8_code_point(u) = F!INVALID
         /\ In(u[1], 194, 223) => F!nn_utf8_code_point(u) =
              (IF Len(u) < 2 THEN F!FRAGMENT
               ELSE IF F!Follows(u, 2) THEN 2 ELSE F!INVALID)
         /\ In(u[1], 224, 239) => F!nn_utf8_code_point(u) =
              (CASE Len(u) < 2 -> F!FRAGMENT
                 [] Len(u) >= 2 /\ u[1] = 224 /\ u[2] < 160 -> F!INVALID
                 [] Len(u) >= 2 /\ u[1] = 237 /\ u[2] >= 160 -> F!INVALID
                 [] OTHER -> IF Len(u) < 3 THEN F!FRAGMENT
                             ELSE IF F!Follows(u, 2) /\ F!Follows(u, 3) THEN 3
                             ELSE F!INVALID)
         /\ In(u[1], 240, 244) => F!nn_utf8_code_point(u) =
              (CASE Len(u) < 2 -> F!FRAGMENT
                 [] Len(u) >= 2 /\ u[1] = 240 /\ u[2] < 144 -> F!INVALID
                 [] Len(u) >= 2 /\ u[1] = 244 /\ u[2] >= 144 -> F!INVALID
                 [] OTHER -> IF Len(u) < 4 THEN F!FRAGMENT
                             ELSE IF \A i \in 2 .. 4 : F!Follows(u, i) THEN 4
                             ELSE F!INVALID)
         /\ u[1] > 244 => F!nn_utf8_code_point(u) = F!INVALID
         /\ \/ u[1] <= 127 \/ In(u[1], 128, 193) \/ In(u[1], 194, 223)
            \/ In(u[1], 224, 239) \/ In(u[1], 240, 244) \/ u[1] > 244
<1>1. u[1] \in Nat /\ ~(Len(u) = 0) /\ Len(u) > 0
  BY DEF Text
<1> DEFINE none == Len(u) = 0
           low == Len(u) > 0 /\ u[1] <= 127
           a == Len(u) > 0 /\ u[1] \in 128 .. 193
           c == Len(u) > 0 /\ u[1] \in 194 .. 223
           d == Len(u) > 0 /\ u[1] \in 224 .. 239
           e == Len(u) > 0 /\ u[1] \in 240 .. 244
           two == IF Len(u) < 2 THEN F!FRAGMENT
                  ELSE IF F!Follows(u, 2) THEN 2 ELSE F!INVALID
           three == (CASE Len(u) < 2 -> F!FRAGMENT
             [] Len(u) >= 2 /\ u[1] = 224 /\ u[2] < 160 -> F!INVALID
             [] Len(u) >= 2 /\ u[1] = 237 /\ u[2] >= 160 -> F!INVALID
             [] OTHER -> IF Len(u) < 3 THEN F!FRAGMENT
                         ELSE IF F!Follows(u, 2) /\ F!Follows(u, 3) THEN 3
                         ELSE F!INVALID)
           four == (CASE Len(u) < 2 -> F!FRAGMENT
             [] Len(u) >= 2 /\ u[1] = 240 /\ u[2] < 144 -> F!INVALID
             [] Len(u) >= 2 /\ u[1] = 244 /\ u[2] >= 144 -> F!INVALID
             [] OTHER -> IF Len(u) < 4 THEN F!FRAGMENT
                         ELSE IF \A i \in 2 .. 4 : F!Follows(u, i) THEN 4
                         ELSE F!INVALID)
           point == F!nn_utf8_code_point(u)
<1>2. point = CASE none -> F!FRAGMENT [] low -> 1 [] a -> F!INVALID
                [] c -> two [] d -> three [] e -> four [] OTHER -> F!INVALID
  BY Zenon DEF F!nn_utf8_code_point
<1>3. /\ ~none /\ (low <=> u[1] <= 127)
      /\ a <=> In(u[1], 128, 193)
      /\ c <=> In(u[1], 194, 223)
      /\ d <=> In(u[1], 224, 239)
      /\ e <=> In(u[1], 240, 244)
  <2>1. /\ u[1] \in 128 .. 193 <=> In(u[1], 128, 193)
        /\ u[1] \in 194 .. 223 <=> In(u[1], 194, 223)
        /\ u[1] \in 224 .. 239 <=> In(u[1], 224, 239)
        /\ u[1] \in 240 .. 244 <=> In(u[1], 240, 244)
    BY <1>1, FirstOctet DEF In
  <2>2. ~none /\ (low <=> u[1] <= 127)
    BY <1>1
  <2>3. a <=> In(u[1], 128, 193)
    BY Zenon, <1>1, <2>1
  <2>4. c <=> In(u[1], 194, 223)
    BY Zenon, <1>1, <2>1
  <2>5. d <=> In(u[1], 224, 239)
    BY Zenon, <1>1, <2>1
  <2>6. e <=> In(u[1], 240, 244)
    BY Zenon, <1>1, <2>1
  <2> HIDE DEF none, low, a, c, d, e
  <2> QED BY <2>2, <2>3, <2>4, <2>5, <2>6
<1> HIDE DEF none, low, a, c, d, e, two, three, four, point
<1>4. /\ low => ~a /\ ~c /\ ~d /\ ~e
      /\ a => ~low /\ ~c /\ ~d /\ ~e
      /\ c => ~low /\ ~a /\ ~d /\ ~e
      /\ d => ~low /\ ~a /\ ~c /\ ~e
      /\ e => ~low /\ ~a /\ ~c /\ ~d
      /\ low \/ a \/ c \/ d \/ e \/ u[1] > 244
      /\ u[1] > 244 => ~low /\ ~a /\ ~c /\ ~d /\ ~e
  BY SMT, <1>1, <1>3 DEF In
<1>5. low => point = 1
  BY <1>2, <1>3, <1>4
<1>6. a => point = F!INVALID
  BY <1>2, <1>3, <1>4
<1>7. c => point = two
  BY <1>2, <1>3, <1>4
<1>8. d => point = three
  BY <1>2, <1>3, <1>4
<1>9. e => point = four
  BY <1>2, <1>3, <1>4
<1>10. u[1] > 244 => point = F!INVALID
  BY <1>2, <1>3, <1>4
<1>11. /\ u[1] <= 127 => point = 1
       /\ In(u[1], 128, 193) => point = F!INVALID
       /\ In(u[1], 194, 223) => point = two
       /\ In(u[1], 224, 239) => point = three
       /\ In(u[1], 240, 244) => point = four
       /\ u[1] > 244 => point = F!INVALID
       /\ \/ u[1] <= 127 \/ In(u[1], 128, 193) \/ In(u[1], 194, 223)
          \/ In(u[1], 224, 239) \/ In(u[1], 240, 244) \/ u[1] > 244
  BY <1>3, <1>4, <1>5, <1>6, <1>7, <1>8, <1>9, <1>10
<1> USE DEF two, three, four, point
<1> QED BY Zenon, <1>11

(* The shapes one by one.                                                  *)
LEMMA Shapes ==
  ASSUME NEW v
  PROVE  /\ Shape(v, 1) <=> v[1] <= 127
         /\ Shape(v, 2) <=> 194 <= v[1] /\ v[1] <= 223 /\ Trail(v[2])
         /\ Shape(v, 3) <=> /\ 224 <= v[1] /\ v[1] <= 239
                            /\ Trail(v[2]) /\ Trail(v[3])
                            /\ v[1] = 224 => v[2] >= 160
                            /\ v[1] = 237 => v[2] < 160
         /\ Shape(v, 4) <=> /\ 240 <= v[1] /\ v[1] <= 244
                            /\ Trail(v[2]) /\ Trail(v[3]) /\ Trail(v[4])
                            /\ v[1] = 240 => v[2] >= 144
                            /\ v[1] = 244 => v[2] < 144
BY SMT DEF Shape

(* What nn_utf8_code_point finds, length by length.                        *)
Found(n, u) ==
  /\ n = -2 \/ n = -1 \/ n = 1 \/ n = 2 \/ n = 3 \/ n = 4
  /\ n = 1 <=> 1 <= Len(u) /\ Shape(u, 1)
  /\ n = 2 <=> 2 <= Len(u) /\ Shape(u, 2)
  /\ n = 3 <=> 3 <= Len(u) /\ Shape(u, 3)
  /\ n = 4 <=> 4 <= Len(u) /\ Shape(u, 4)

(* A code point is found where one of the shape begins, with its length.   *)
LEMMA PointFound ==
  ASSUME NEW u \in Text, Len(u) >= 1
  PROVE  LET n == F!nn_utf8_code_point(u) IN
         /\ n \in {F!INVALID, F!FRAGMENT} \cup 1 .. 4
         /\ \A k \in 1 .. 4 : n = k <=> k <= Len(u) /\ Shape(u, k)
<1> DEFINE n == F!nn_utf8_code_point(u)
<1>1. Len(u) \in Nat /\ u[1] \in Nat
  BY DEF Text
<1>2. F!INVALID = -2 /\ F!FRAGMENT = -1
  BY DEF F!INVALID, F!FRAGMENT
<1>3. \A i \in 1 .. Len(u) : u[i] \in Nat /\ (F!Follows(u, i) <=> Trail(u[i]))
  BY FollowsIsTrail DEF Text
<1>10. SUFFICES Found(n, u)
  BY SMT, <1>2 DEF Found
<1>4. CASE u[1] <= 127
  <2>1. n = 1
    BY <1>4, Cases
  <2> QED BY SMT, <2>1, <1>1, <1>4, Shapes DEF Found
<1>5. CASE In(u[1], 128, 193)
  <2>1. n = -2
    BY Zenon, <1>5, Cases, <1>2
  <2> QED BY SMT, <2>1, <1>1, <1>2, <1>5, Shapes DEF Found, In
<1>6. CASE u[1] > 244
  <2>1. n = -2
    BY Zenon, <1>6, Cases, <1>2
  <2> QED BY SMT, <2>1, <1>1, <1>2, <1>6, Shapes DEF Found
<1>7. CASE In(u[1], 194, 223)
  <2>1. n = IF Len(u) < 2 THEN -1 ELSE IF F!Follows(u, 2) THEN 2 ELSE -2
    BY Zenon, <1>7, Cases, <1>2
  <2>2. Len(u) >= 2 => (F!Follows(u, 2) <=> Trail(u[2]))
    BY <1>1, <1>3
  <2>3. n = IF Len(u) < 2 THEN -1 ELSE IF Trail(u[2]) THEN 2 ELSE -2
    BY <2>1, <2>2, <1>1
  <2> HIDE DEF n
  <2> QED BY SMT, <2>3, <1>1, <1>2, <1>7, Shapes DEF Found, In
<1>8. CASE In(u[1], 224, 239)
  <2>1. n = CASE Len(u) < 2 -> -1
              [] Len(u) >= 2 /\ u[1] = 224 /\ u[2] < 160 -> -2
              [] Len(u) >= 2 /\ u[1] = 237 /\ u[2] >= 160 -> -2
              [] OTHER -> IF Len(u) < 3 THEN -1
                          ELSE IF F!Follows(u, 2) /\ F!Follows(u, 3) THEN 3
                          ELSE -2
    BY <1>8, Cases, <1>2
  <2>2. Len(u) >= 3 => (F!Follows(u, 2) <=> Trail(u[2]))
                       /\ (F!Follows(u, 3) <=> Trail(u[3]))
    BY <1>1, <1>3
  <2>4. Len(u) >= 2 => u[2] \in Nat
    BY <1>1, <1>3
  <2> HIDE DEF n
  <2>3. n = IF Len(u) < 2 THEN -1
            ELSE IF u[1] = 224 /\ u[2] < 160 THEN -2
            ELSE IF u[1] = 237 /\ u[2] >= 160 THEN -2
            ELSE IF Len(u) < 3 THEN -1
            ELSE IF Trail(u[2]) /\ Trail(u[3]) THEN 3 ELSE -2
    BY <2>1, <2>2, <1>1
  <2> QED BY SMT, <2>3, <2>4, <1>1, <1>2, <1>8, Shapes DEF Found, In
<1>9. CASE In(u[1], 240, 244)
  <2>1. n = CASE Len(u) < 2 -> -1
              [] Len(u) >= 2 /\ u[1] = 240 /\ u[2] < 144 -> -2
              [] Len(u) >= 2 /\ u[1] = 244 /\ u[2] >= 144 -> -2
              [] OTHER -> IF Len(u) < 4 THEN -1
                          ELSE IF \A i \in 2 .. 4 : F!Follows(u, i) THEN 4
                          ELSE -2
    BY <1>9, Cases, <1>2
  <2>2. Len(u) >= 4 => ((\A i \in 2 .. 4 : F!Follows(u, i)) <=>
                          Trail(u[2]) /\ Trail(u[3]) /\ Trail(u[4]))
    <3>1. Len(u) >= 4 => /\ F!Follows(u, 2) <=> Trail(u[2])
                         /\ F!Follows(u, 3) <=> Trail(u[3])
                         /\ F!Follows(u, 4) <=> Trail(u[4])
      BY <1>1, <1>3
    <3>2. 2 .. 4 = {2, 3, 4}
      BY SMT
    <3> QED BY <3>1, <3>2
  <2>4. Len(u) >= 2 => u[2] \in Nat
    BY <1>1, <1>3
  <2> DEFINE all == \A i \in 2 .. 4 : F!Follows(u, i)
  <2> HIDE DEF n, all
  <2>3. n = IF Len(u) < 2 THEN -1
            ELSE IF u[1] = 240 /\ u[2] < 144 THEN -2
            ELSE IF u[1] = 244 /\ u[2] >= 144 THEN -2
            ELSE IF Len(u) < 4 THEN -1
            ELSE IF all THEN 4 ELSE -2
    BY <2>1, <1>1 DEF all
  <2>5. Len(u) >= 4 => (all <=> Trail(u[2]) /\ Trail(u[3]) /\ Trail(u[4]))
    BY <2>2 DEF all
  <2> QED BY SMT, <2>3, <2>4, <2>5, <1>1, <1>2, <1>9, Shapes DEF Found, In
<1> QED BY <1>4, <1>5, <1>6, <1>7, <1>8, <1>9, Cases

(* The first octet of a code point says how long it is.                    *)
LEMMA ShapeUnique ==
  ASSUME NEW v \in Text, Len(v) >= 1, NEW j, NEW k, Shape(v, j), Shape(v, k)
  PROVE  j = k
<1>1. v[1] \in Nat
  BY DEF Text
<1> QED BY SMT, <1>1 DEF Shape

(* The octets that follow a code point do not matter.                      *)
LEMMA ShapeLocal ==
  ASSUME NEW v \in Text, NEW u \in Text, NEW k \in 1 .. 4,
         k <= Len(v), k <= Len(u), \A i \in 1 .. k : v[i] = u[i]
  PROVE  Shape(v, k) <=> Shape(u, k)
<1>1. v[1] = u[1]
  BY SMT
<1>2. k >= 2 => v[2] = u[2]
  BY SMT
<1>3. k >= 3 => v[3] = u[3]
  BY SMT
<1>4. k >= 4 => v[4] = u[4]
  BY SMT
<1>5. CASE k = 1
  BY SMT, <1>1, <1>5 DEF Shape
<1>6. CASE k = 2
  BY SMT, <1>1, <1>2, <1>6 DEF Shape
<1>7. CASE k = 3
  BY SMT, <1>1, <1>2, <1>3, <1>7 DEF Shape
<1>8. CASE k = 4
  BY SMT, <1>1, <1>2, <1>3, <1>4, <1>8 DEF Shape
<1> QED BY <1>5, <1>6, <1>7, <1>8

(* nn_utf8_code_point at an octet of a text, and what is a code point      *)
(* there.                                                                  *)
Point(v, i) == F!nn_utf8_code_point(SubSeq(v, i, Len(v)))

(* A part of a text.                                                       *)
LEMMA Rest ==
  ASSUME NEW v \in Text, NEW i \in 1 .. Len(v), NEW z \in i .. Len(v)
  PROVE  /\ SubSeq(v, i, z) \in Text
         /\ Len(SubSeq(v, i, z)) = z - i + 1
         /\ \A j \in 1 .. z - i + 1 : SubSeq(v, i, z)[j] = v[i + j - 1]
<1>1. Len(v) \in Nat /\ i \in Int /\ z \in Int /\ i <= z /\ 1 <= i /\ z <= Len(v)
  BY DEF Text
<1>2. \A j \in i .. z : v[j] \in Nat
  BY <1>1 DEF Text
<1> QED BY <1>1, <1>2, SubSeqProperties DEF Text

(* At a place of a text a code point is found exactly where one is.        *)
LEMMA PointAt ==
  ASSUME NEW v \in Text, NEW i \in 1 .. Len(v)
  PROVE  /\ Point(v, i) \in {F!INVALID, F!FRAGMENT} \cup 1 .. 4
         /\ \A k \in 1 .. 4 : Point(v, i) = k <=>
              i + k <= Len(v) + 1 /\ F!CodePoint(SubSeq(v, i, i + k - 1))
<1> DEFINE u == SubSeq(v, i, Len(v))
<1>1. Len(v) \in Nat /\ i \in Nat /\ 1 <= i /\ i <= Len(v) /\ Len(v) \in i .. Len(v)
  BY DEF Text
<1>2. /\ u \in Text /\ Len(u) = Len(v) - i + 1
      /\ \A j \in 1 .. Len(v) - i + 1 : u[j] = v[i + j - 1]
  BY <1>1, Rest
<1> HIDE DEF u
<1>3. Len(u) >= 1
  BY <1>1, <1>2
<1>4. /\ F!nn_utf8_code_point(u) \in {F!INVALID, F!FRAGMENT} \cup 1 .. 4
      /\ \A k \in 1 .. 4 :
           F!nn_utf8_code_point(u) = k <=> k <= Len(u) /\ Shape(u, k)
  BY <1>2, <1>3, PointFound
<1>5. ASSUME NEW k \in 1 .. 4, k <= Len(u)
      PROVE  Shape(u, k) <=> F!CodePoint(SubSeq(v, i, i + k - 1))
  <2> DEFINE t == SubSeq(v, i, i + k - 1)
  <2>1. i + k - 1 \in i .. Len(v) /\ (i + k - 1) - i + 1 = k
    BY <1>1, <1>2, <1>5
  <2>2. /\ t \in Text /\ Len(t) = k
        /\ \A j \in 1 .. k : t[j] = v[i + j - 1]
    BY <2>1, Rest
  <2> HIDE DEF t
  <2>3. \A j \in 1 .. k : t[j] = u[j]
    BY <1>1, <1>2, <1>5, <2>2
  <2>4. Shape(u, k) <=> Shape(t, k)
    <3>1. /\ u \in Text /\ t \in Text /\ k <= Len(u) /\ k <= Len(t)
          /\ \A j \in 1 .. k : u[j] = t[j]
      BY <1>2, <1>5, <2>2, <2>3
    <3> QED BY Zenon, <3>1, ShapeLocal
  <2>5. F!CodePoint(t) <=> Shape(t, k)
    BY <2>2, ShapeOfCodePoint
  <2> QED BY <2>4, <2>5 DEF t
<1>6. Point(v, i) = F!nn_utf8_code_point(u)
  BY DEF Point, u
<1>7. \A k \in 1 .. 4 : k <= Len(u) <=> i + k <= Len(v) + 1
  BY <1>1, <1>2
<1> QED BY <1>4, <1>5, <1>6, <1>7

(* What is found does not depend on what comes before, and a code point    *)
(* not on what comes after.                                                *)
LEMMA PointBehind ==
  ASSUME NEW v \in Text, NEW u \in Text, NEW i \in 1 .. Len(u)
  PROVE  Point(v \o u, Len(v) + i) = Point(u, i)
<1>1. Len(v) \in Nat /\ Len(u) \in Nat /\ i \in Nat /\ 1 <= i /\ i <= Len(u)
  BY DEF Text
<1>2. v \o u \in Text /\ Len(v \o u) = Len(v) + Len(u)
  BY ConcatProperties DEF Text
<1>3. /\ Len(v) + i \in Len(v) + 1 .. Len(v) + Len(u)
      /\ Len(v) + Len(u) \in Len(v) + 1 .. Len(v) + Len(u)
      /\ (Len(v) + i) - Len(v) = i /\ (Len(v) + Len(u)) - Len(v) = Len(u)
  BY <1>1
<1>4. SubSeq(v \o u, Len(v) + i, Len(v) + Len(u)) = SubSeq(u, i, Len(u))
  BY <1>3, SubSeqOfConcat2 DEF Text
<1> QED BY <1>2, <1>4 DEF Point

(* A code point is found whatever comes after it.                          *)
LEMMA PointBefore ==
  ASSUME NEW v \in Text, NEW u \in Text, NEW i \in 1 .. Len(v),
         Point(v, i) \in 1 .. 4
  PROVE  Point(v \o u, i) = Point(v, i) /\ i + Point(v, i) <= Len(v) + 1
<1>1. Len(v) \in Nat /\ Len(u) \in Nat /\ i \in Nat /\ 1 <= i /\ i <= Len(v)
  BY DEF Text
<1>2. v \o u \in Text /\ Len(v \o u) = Len(v) + Len(u)
  BY ConcatProperties DEF Text
<1>3. PICK k \in 1 .. 4 : Point(v, i) = k
  OBVIOUS
<1>4. i + k <= Len(v) + 1 /\ F!CodePoint(SubSeq(v, i, i + k - 1))
  BY <1>3, PointAt
<1>5. i \in 1 .. Len(v) /\ i + k - 1 \in 1 .. Len(v) /\ i \in 1 .. Len(v \o u)
  BY <1>1, <1>2, <1>4
<1>6. SubSeq(v \o u, i, i + k - 1) = SubSeq(v, i, i + k - 1)
  BY <1>5, SubSeqOfConcat1 DEF Text
<1>7. i + k <= Len(v \o u) + 1
  BY <1>1, <1>2, <1>4
<1>8. Point(v \o u, i) = k
  BY <1>2, <1>4, <1>5, <1>6, <1>7, PointAt
<1> QED BY <1>3, <1>4, <1>8

(* A function that follows references from low to high indices.            *)
IsChain(g, m, N, V) ==
  g = [i \in 1 .. m + 1 |-> IF i > m \/ N[i] = 0 THEN V[i] ELSE g[N[i]]]

(* There is such a function: it is built from its last place on.           *)
LEMMA ChainExists ==
  ASSUME NEW m \in Nat, NEW N, NEW V,
         \A i \in 1 .. m : N[i] = 0 \/ N[i] \in i + 1 .. m + 1
  PROVE  \E g : IsChain(g, m, N, V)
<1> DEFINE From(j, g) ==
             \A i \in m + 1 - j .. m + 1 :
               g[i] = IF i > m \/ N[i] = 0 THEN V[i] ELSE g[N[i]]
           Low == {j \in 0 .. m : ~ \E g : From(j, g)}
<1>1. ASSUME Low # {} PROVE FALSE
  <2>1. Low \in SUBSET Nat
    OBVIOUS
  <2>2. PICK j \in Low : \A y \in Low : j <= y
    <3> HIDE DEF Low
    <3> QED BY <1>1, <2>1, Smallest
  <2>3. j \in 0 .. m /\ ~ \E g : From(j, g)
    OBVIOUS
  <2>4. CASE j = 0
    <3> DEFINE g == [i \in {m + 1} |-> V[i]]
    <3>1. \A i \in m + 1 - j .. m + 1 : i = m + 1
      BY <2>4
    <3>2. From(j, g)
      BY <3>1
    <3> QED BY <2>3, <3>2
  <2>5. CASE j # 0
    <3>1. j - 1 \in 0 .. m /\ ~(j <= j - 1) /\ j \in Nat
      BY <2>3, <2>5
    <3>2. j - 1 \notin Low
      <4> HIDE DEF Low
      <4> QED BY <2>2, <3>1
    <3>3. PICK g : From(j - 1, g)
      BY <3>1, <3>2
    <3> DEFINE lo == m + 1 - j
               h == [i \in lo .. m + 1 |->
                       IF i # lo THEN g[i]
                       ELSE IF N[i] = 0 THEN V[i] ELSE g[N[i]]]
    <3>4. lo \in 1 .. m /\ m + 1 - (j - 1) = lo + 1
      BY <2>3, <2>5
    <3>5. \A i \in lo + 1 .. m + 1 : g[i] =
            IF i > m \/ N[i] = 0 THEN V[i] ELSE g[N[i]]
      BY <3>3, <3>4
    <3> HIDE DEF From
    <3>6. \A i \in lo + 1 .. m + 1 : h[i] = g[i]
      BY <3>4
    <3>7. h[lo] = IF N[lo] = 0 THEN V[lo] ELSE g[N[lo]]
      BY <3>4
    <3> HIDE DEF h, lo
    <3>8. ASSUME NEW i \in lo .. m + 1
          PROVE  h[i] = IF i > m \/ N[i] = 0 THEN V[i] ELSE h[N[i]]
      <4>1. CASE i = lo
        <5>1. N[i] # 0 => N[i] \in lo + 1 .. m + 1
          BY <3>4, <4>1
        <5>2. ~(i > m)
          BY <3>4, <4>1
        <5> QED BY <3>6, <3>7, <4>1, <5>1, <5>2
      <4>2. CASE i # lo
        <5>1. i \in lo + 1 .. m + 1
          BY <3>4, <4>2
        <5>2. ~(i > m) /\ N[i] # 0 => N[i] \in lo + 1 .. m + 1
          BY <3>4, <5>1
        <5> QED BY <3>5, <3>6, <5>1, <5>2
      <4> QED BY <4>1, <4>2
    <3>9. From(j, h)
      BY <3>8 DEF From, lo
    <3> QED BY <2>3, <3>9
  <2> QED BY <2>4, <2>5
<1>2. PICK g : From(m, g)
  BY <1>1
<1>3. m + 1 - m = 1
  OBVIOUS
<1>4. \A i \in 1 .. m + 1 :
        g[i] = IF i > m \/ N[i] = 0 THEN V[i] ELSE g[N[i]]
  BY <1>2, <1>3
<1> DEFINE h == [i \in 1 .. m + 1 |-> g[i]]
<1>5. \A i \in 1 .. m : N[i] # 0 => N[i] \in 1 .. m + 1
  OBVIOUS
<1>6. \A i \in 1 .. m + 1 :
        h[i] = IF i > m \/ N[i] = 0 THEN V[i] ELSE h[N[i]]
  BY <1>4, <1>5
<1>7. h = [i \in 1 .. m + 1 |-> IF i > m \/ N[i] = 0 THEN V[i] ELSE h[N[i]]]
  BY <1>6
<1> QED BY <1>7 DEF IsChain

(* The loop of Scan over a text, and what Utf8 says of the rest of it.     *)
IsScan(v, g) ==
  g = [i \in 1 .. Len(v) + 1 |->
        IF i > Len(v) THEN [at |-> i, why |-> "OK"]
        ELSE LET n == F!nn_utf8_code_point(SubSeq(v, i, Len(v))) IN
             CASE n = F!INVALID -> [at |-> i, why |-> "INVALID"]
               [] n = F!FRAGMENT -> [at |-> i, why |-> "FRAGMENT"]
               [] OTHER -> g[i + n]]

IsFrom(v, h) ==
  h = [i \in 1 .. Len(v) + 1 |->
        \/ i > Len(v)
        \/ \E n \in 1 .. 4 : /\ i + n <= Len(v) + 1
                             /\ F!CodePoint(SubSeq(v, i, i + n - 1))
                             /\ h[i + n]]

(* A code point that is found ends within the text.                        *)
LEMMA PointRange ==
  ASSUME NEW v \in Text, NEW i \in 1 .. Len(v)
  PROVE  /\ F!INVALID = -2 /\ F!FRAGMENT = -1
         /\ \/ Point(v, i) = F!INVALID
            \/ Point(v, i) = F!FRAGMENT
            \/ Point(v, i) \in 1 .. 4 /\ i + Point(v, i) \in i + 1 .. Len(v) + 1
<1>1. Point(v, i) \in {F!INVALID, F!FRAGMENT} \cup 1 .. 4
  BY PointAt
<1>2. \A k \in 1 .. 4 : Point(v, i) = k => i + k <= Len(v) + 1
  BY PointAt
<1>3. Len(v) \in Nat
  BY DEF Text
<1>4. ASSUME Point(v, i) \in 1 .. 4
      PROVE  i + Point(v, i) \in i + 1 .. Len(v) + 1
  BY <1>2, <1>3, <1>4
<1> QED BY <1>1, <1>4 DEF F!INVALID, F!FRAGMENT

(* There is a function that the loop of Scan computes.                     *)
LEMMA ScanExists ==
  ASSUME NEW v \in Text
  PROVE  \E g : IsScan(v, g)
<1> DEFINE m == Len(v)
           N == [i \in 1 .. m |->
                  IF Point(v, i) \in 1 .. 4 THEN i + Point(v, i) ELSE 0]
           V == [i \in 1 .. m + 1 |->
                  IF i > m THEN [at |-> i, why |-> "OK"]
                  ELSE IF Point(v, i) = F!INVALID
                    THEN [at |-> i, why |-> "INVALID"]
                    ELSE [at |-> i, why |-> "FRAGMENT"]]
<1>1. m \in Nat
  BY DEF Text
<1>2. \A i \in 1 .. m : N[i] = 0 \/ N[i] \in i + 1 .. m + 1
  BY PointRange
<1>3. PICK g : IsChain(g, m, N, V)
  <2> HIDE DEF m, N, V
  <2> QED BY <1>1, <1>2, ChainExists
<1>4. ASSUME NEW i \in 1 .. m + 1
      PROVE  (IF i > m \/ N[i] = 0 THEN V[i] ELSE g[N[i]]) =
               (IF i > Len(v) THEN [at |-> i, why |-> "OK"]
                ELSE LET n == F!nn_utf8_code_point(SubSeq(v, i, Len(v))) IN
                     CASE n = F!INVALID -> [at |-> i, why |-> "INVALID"]
                       [] n = F!FRAGMENT -> [at |-> i, why |-> "FRAGMENT"]
                       [] OTHER -> g[i + n])
  <2> DEFINE n == Point(v, i)
  <2>1. F!nn_utf8_code_point(SubSeq(v, i, Len(v))) = n
    BY DEF Point
  <2>2. CASE i > m
    BY <2>2
  <2>3. CASE ~(i > m)
    <3>1. i \in 1 .. Len(v) /\ i \in Nat
      BY <1>1, <2>3
    <3>2. /\ F!INVALID = -2 /\ F!FRAGMENT = -1
          /\ n = -2 \/ n = -1 \/ n \in 1 .. 4
      BY <3>1, PointRange
    <3>3. /\ N[i] = IF n \in 1 .. 4 THEN i + n ELSE 0
          /\ V[i] = IF n = -2 THEN [at |-> i, why |-> "INVALID"]
                              ELSE [at |-> i, why |-> "FRAGMENT"]
      BY <2>3, <3>1, <3>2
    <3> HIDE DEF n, N, V
    <3>4. (IF i > m \/ N[i] = 0 THEN V[i] ELSE g[N[i]]) =
            (CASE n = -2 -> [at |-> i, why |-> "INVALID"]
               [] n = -1 -> [at |-> i, why |-> "FRAGMENT"]
               [] OTHER -> g[i + n])
      <4>1. CASE n = -2
        BY <2>3, <3>3, <4>1
      <4>2. CASE n = -1
        BY <2>3, <3>3, <4>2
      <4>3. CASE n \in 1 .. 4
        <5>1. N[i] = i + n /\ i + n # 0 /\ ~(n = -2) /\ ~(n = -1)
          BY <3>1, <3>3, <4>3
        <5> QED BY <2>3, <5>1
      <4> QED BY <3>2, <4>1, <4>2, <4>3
    <3> QED BY <2>1, <2>3, <3>2, <3>4
  <2> QED BY <2>2, <2>3
<1>5. IsScan(v, g)
  BY <1>3, <1>4 DEF IsChain, IsScan
<1> QED BY <1>5

(* The loop step by step.                                                  *)
LEMMA ScanSteps ==
  ASSUME NEW v \in Text, NEW g, IsScan(v, g)
  PROVE  /\ g[Len(v) + 1].why = "OK" /\ g[Len(v) + 1].at = Len(v) + 1
         /\ \A i \in 1 .. Len(v) :
              /\ Point(v, i) = F!INVALID => g[i].why = "INVALID" /\ g[i].at = i
              /\ Point(v, i) = F!FRAGMENT => g[i].why = "FRAGMENT" /\ g[i].at = i
              /\ Point(v, i) \in 1 .. 4 => g[i] = g[i + Point(v, i)]
<1>1. Len(v) \in Nat
  BY DEF Text
<1>2. \A i \in 1 .. Len(v) + 1 : g[i] =
        IF i > Len(v) THEN [at |-> i, why |-> "OK"]
        ELSE LET n == F!nn_utf8_code_point(SubSeq(v, i, Len(v))) IN
             CASE n = F!INVALID -> [at |-> i, why |-> "INVALID"]
               [] n = F!FRAGMENT -> [at |-> i, why |-> "FRAGMENT"]
               [] OTHER -> g[i + n]
  BY DEF IsScan
<1>3. g[Len(v) + 1] = [at |-> Len(v) + 1, why |-> "OK"]
  <2>1. Len(v) + 1 \in 1 .. Len(v) + 1 /\ Len(v) + 1 > Len(v)
    BY <1>1
  <2> QED BY Zenon, <1>2, <2>1
<1>4. ASSUME NEW i \in 1 .. Len(v)
      PROVE  /\ Point(v, i) = F!INVALID => g[i].why = "INVALID" /\ g[i].at = i
             /\ Point(v, i) = F!FRAGMENT => g[i].why = "FRAGMENT" /\ g[i].at = i
             /\ Point(v, i) \in 1 .. 4 => g[i] = g[i + Point(v, i)]
  <2> DEFINE n == Point(v, i)
  <2>1. F!INVALID = -2 /\ F!FRAGMENT = -1
    BY DEF F!INVALID, F!FRAGMENT
  <2>2. i \in 1 .. Len(v) + 1 /\ ~(i > Len(v))
    BY <1>1
  <2>3. F!nn_utf8_code_point(SubSeq(v, i, Len(v))) = n
    BY DEF Point
  <2> HIDE DEF n
  <2>4. g[i] = CASE n = -2 -> [at |-> i, why |-> "INVALID"]
                 [] n = -1 -> [at |-> i, why |-> "FRAGMENT"]
                 [] OTHER -> g[i + n]
    BY <1>2, <2>1, <2>2, <2>3
  <2>5. CASE n = -2
    <3>1. g[i] = [at |-> i, why |-> "INVALID"] /\ ~(n = -1) /\ ~(n \in 1 .. 4)
      BY <2>4, <2>5
    <3> QED BY <2>1, <2>5, <3>1 DEF n
  <2>6. CASE n = -1
    <3>1. g[i] = [at |-> i, why |-> "FRAGMENT"] /\ ~(n = -2) /\ ~(n \in 1 .. 4)
      BY <2>4, <2>6
    <3> QED BY <2>1, <2>6, <3>1 DEF n
  <2>7. CASE n # -2 /\ n # -1
    <3>1. g[i] = g[i + n]
      BY <2>4, <2>7
    <3> QED BY <2>1, <2>7, <3>1 DEF n
  <2> QED BY <2>5, <2>6, <2>7
<1> QED BY <1>3, <1>4

(* A property of the last place that goes back over code points.           *)
LEMMA Backwards ==
  ASSUME NEW m \in Nat, NEW Good,
         \A i \in 1 .. m + 1 : i \in Good \/ \E j \in i + 1 .. m + 1 : j \notin Good
  PROVE  \A i \in 1 .. m + 1 : i \in Good
<1> DEFINE Low == {j \in 0 .. m : m + 1 - j \notin Good}
<1>1. ASSUME Low # {} PROVE FALSE
  <2>1. Low \in SUBSET Nat
    OBVIOUS
  <2>2. PICK j \in Low : \A y \in Low : j <= y
    <3> HIDE DEF Low
    <3> QED BY <1>1, <2>1, Smallest
  <2>3. j \in 0 .. m /\ m + 1 - j \notin Good /\ m + 1 - j \in 1 .. m + 1
    OBVIOUS
  <2>4. PICK i \in (m + 1 - j) + 1 .. m + 1 : i \notin Good
    BY <2>3
  <2>5. m + 1 - i \in 0 .. m /\ m + 1 - (m + 1 - i) = i /\ ~(j <= m + 1 - i)
    BY <2>3
  <2>6. m + 1 - i \in Low
    BY <2>4, <2>5
  <2> HIDE DEF Low
  <2> QED BY <2>2, <2>5, <2>6
<1>2. ASSUME NEW i \in 1 .. m + 1 PROVE i \in Good
  <2>1. m + 1 - i \in 0 .. m /\ m + 1 - (m + 1 - i) = i
    OBVIOUS
  <2> QED BY <1>1, <2>1
<1> QED BY <1>2

(* The loop ends for one of three reasons, within the text or at its end.  *)
LEMMA ScanWhy ==
  ASSUME NEW v \in Text, NEW g, IsScan(v, g)
  PROVE  \A i \in 1 .. Len(v) + 1 : /\ g[i].why \in {"OK", "INVALID", "FRAGMENT"}
                                   /\ g[i].at \in 1 .. Len(v) + 1
<1> DEFINE Good == {i \in 1 .. Len(v) + 1 :
                      /\ g[i].why \in {"OK", "INVALID", "FRAGMENT"}
                      /\ g[i].at \in 1 .. Len(v) + 1}
<1>1. Len(v) \in Nat
  BY DEF Text
<1>2. ASSUME NEW i \in 1 .. Len(v) + 1
      PROVE  i \in Good \/ \E j \in i + 1 .. Len(v) + 1 : j \notin Good
  <2>1. CASE i = Len(v) + 1
    <3>1. g[i].why = "OK" /\ g[i].at = i
      BY <2>1, <1>1, ScanSteps
    <3> QED BY <3>1
  <2>2. CASE i # Len(v) + 1
    <3>1. i \in 1 .. Len(v)
      BY <1>1, <2>2
    <3>2. CASE Point(v, i) \in 1 .. 4 /\ i + Point(v, i) \in i + 1 .. Len(v) + 1
      <4>1. g[i] = g[i + Point(v, i)]
        BY <3>1, <3>2, ScanSteps
      <4>2. i \in 1 .. Len(v) + 1 /\ i + Point(v, i) \in 1 .. Len(v) + 1
        BY <1>1, <3>1, <3>2
      <4>3. i + Point(v, i) \in Good => i \in Good
        BY <4>1, <4>2
      <4> HIDE DEF Good
      <4> QED BY <3>2, <4>3
    <3>3. CASE Point(v, i) \in {F!INVALID, F!FRAGMENT}
      <4>1. g[i].why \in {"OK", "INVALID", "FRAGMENT"} /\ g[i].at = i
        BY <3>1, <3>3, ScanSteps
      <4> QED BY <4>1
    <3> QED BY <3>1, <3>2, <3>3, PointRange
  <2> QED BY <2>1, <2>2
<1>3. \A i \in 1 .. Len(v) + 1 : i \in Good
  <2> HIDE DEF Good
  <2> QED BY <1>1, <1>2, Backwards
<1> QED BY <1>3

(* At an octet of a text there is a code point of the length that is       *)
(* found there, and of no other.                                           *)
LEMMA CodePointAt ==
  ASSUME NEW v \in Text, NEW i \in 1 .. Len(v), NEW n \in 1 .. 4
  PROVE  i + n <= Len(v) + 1 /\ F!CodePoint(SubSeq(v, i, i + n - 1)) <=>
           n = Point(v, i)
BY PointAt

(* A text is well formed from a place on if a code point is found there and *)
(* it is well formed from where that ends.                                 *)
LEMMA FromStep ==
  ASSUME NEW v \in Text, NEW h, NEW i \in 1 .. Len(v)
  PROVE  (\E n \in 1 .. 4 : /\ i + n <= Len(v) + 1
                            /\ F!CodePoint(SubSeq(v, i, i + n - 1))
                            /\ h[i + n]) <=>
           Point(v, i) \in 1 .. 4 /\ h[i + Point(v, i)]
BY Zenon, CodePointAt

(* Scan finds a text well formed from the places from which Utf8 does.     *)
LEMMA FromExists ==
  ASSUME NEW v \in Text, NEW g, IsScan(v, g)
  PROVE  IsFrom(v, [i \in 1 .. Len(v) + 1 |-> g[i].why = "OK"])
<1> DEFINE h == [i \in 1 .. Len(v) + 1 |-> g[i].why = "OK"]
<1>1. Len(v) \in Nat
  BY DEF Text
<1>2. ASSUME NEW i \in 1 .. Len(v) + 1
      PROVE  (g[i].why = "OK") =
               (\/ i > Len(v)
                \/ \E n \in 1 .. 4 : /\ i + n <= Len(v) + 1
                                     /\ F!CodePoint(SubSeq(v, i, i + n - 1))
                                     /\ h[i + n])
  <2>1. CASE i = Len(v) + 1
    <3>1. i > Len(v) /\ g[i].why = "OK"
      BY <1>1, <2>1, ScanSteps
    <3> QED BY Zenon, <3>1
  <2>2. CASE i # Len(v) + 1
    <3>1. i \in 1 .. Len(v) /\ ~(i > Len(v))
      BY <1>1, <2>2
    <3> DEFINE p == \E n \in 1 .. 4 : /\ i + n <= Len(v) + 1
                             /\ F!CodePoint(SubSeq(v, i, i + n - 1))
                             /\ h[i + n]
    <3>2. p <=> Point(v, i) \in 1 .. 4 /\ h[i + Point(v, i)]
      <4> HIDE DEF h
      <4> QED BY Zenon, <3>1, FromStep
    <3>3. g[i].why = "OK" <=> p
      <4>1. CASE Point(v, i) \in 1 .. 4 /\ i + Point(v, i) \in i + 1 .. Len(v) + 1
        <5>1. g[i] = g[i + Point(v, i)]
          BY <3>1, <4>1, ScanSteps
        <5>2. i + Point(v, i) \in 1 .. Len(v) + 1
          BY <1>1, <3>1, <4>1
        <5>3. h[i + Point(v, i)] <=> g[i + Point(v, i)].why = "OK"
          BY <5>2
        <5> HIDE DEF h, p
        <5> QED BY Zenon, <3>2, <4>1, <5>1, <5>3
      <4>2. CASE Point(v, i) = F!INVALID
        <5>1. g[i].why = "INVALID" /\ ~(Point(v, i) \in 1 .. 4)
          BY <3>1, <4>2, ScanSteps, PointRange
        <5> HIDE DEF h, p
        <5> QED BY <3>2, <5>1
      <4>3. CASE Point(v, i) = F!FRAGMENT
        <5>1. g[i].why = "FRAGMENT" /\ ~(Point(v, i) \in 1 .. 4)
          BY <3>1, <4>3, ScanSteps, PointRange
        <5> HIDE DEF h, p
        <5> QED BY <3>2, <5>1
      <4> HIDE DEF h, p
      <4> QED BY <3>1, <4>1, <4>2, <4>3, PointRange
    <3> QED BY Zenon, <3>1, <3>3
  <2> QED BY <2>1, <2>2
<1>3. h = [i \in 1 .. Len(v) + 1 |->
            \/ i > Len(v)
            \/ \E n \in 1 .. 4 : /\ i + n <= Len(v) + 1
                                 /\ F!CodePoint(SubSeq(v, i, i + n - 1))
                                 /\ h[i + n]]
  BY Zenon, <1>2
<1> QED BY Zenon, <1>3 DEF IsFrom

(* There is no other way to read Utf8.                                     *)
LEMMA FromIsScan ==
  ASSUME NEW v \in Text, NEW g, IsScan(v, g), NEW h, IsFrom(v, h)
  PROVE  \A i \in 1 .. Len(v) + 1 : h[i] = (g[i].why = "OK")
<1> DEFINE Good == {i \in 1 .. Len(v) + 1 : h[i] = (g[i].why = "OK")}
<1>1. Len(v) \in Nat
  BY DEF Text
<1>2. \A i \in 1 .. Len(v) + 1 :
        h[i] = (\/ i > Len(v)
                \/ \E n \in 1 .. 4 : /\ i + n <= Len(v) + 1
                                     /\ F!CodePoint(SubSeq(v, i, i + n - 1))
                                     /\ h[i + n])
  BY Zenon DEF IsFrom
<1>3. ASSUME NEW i \in 1 .. Len(v) + 1
      PROVE  i \in Good \/ \E j \in i + 1 .. Len(v) + 1 : j \notin Good
  <2>1. CASE i = Len(v) + 1
    <3>1. i > Len(v) /\ g[i].why = "OK"
      BY <1>1, <2>1, ScanSteps
    <3> QED BY Zenon, <1>2, <3>1
  <2>2. CASE i # Len(v) + 1
    <3>1. i \in 1 .. Len(v) /\ ~(i > Len(v))
      BY <1>1, <2>2
    <3>2. h[i] = (Point(v, i) \in 1 .. 4 /\ h[i + Point(v, i)])
      <4>1. h[i] = (\E n \in 1 .. 4 : /\ i + n <= Len(v) + 1
                                      /\ F!CodePoint(SubSeq(v, i, i + n - 1))
                                      /\ h[i + n])
        BY Zenon, <1>2, <3>1
      <4> QED BY Zenon, <3>1, <4>1, FromStep
    <3>3. CASE Point(v, i) \in 1 .. 4 /\ i + Point(v, i) \in i + 1 .. Len(v) + 1
      <4>1. g[i] = g[i + Point(v, i)]
        BY <3>1, <3>3, ScanSteps
      <4>2. i + Point(v, i) \in 1 .. Len(v) + 1
        BY <1>1, <3>1, <3>3
      <4>3. h[i + Point(v, i)] = (g[i + Point(v, i)].why = "OK") =>
              h[i] = (g[i].why = "OK")
        BY Zenon, <3>2, <3>3, <4>1
      <4>4. i + Point(v, i) \in Good => i \in Good
        BY Zenon, <4>2, <4>3
      <4> HIDE DEF Good
      <4> QED BY <3>3, <4>4
    <3>4. CASE Point(v, i) = F!INVALID
      <4>1. g[i].why = "INVALID" /\ ~(Point(v, i) \in 1 .. 4)
        BY <3>1, <3>4, ScanSteps, PointRange
      <4>2. ~(g[i].why = "OK")
        BY <4>1
      <4> QED BY Zenon, <3>2, <4>1, <4>2
    <3>5. CASE Point(v, i) = F!FRAGMENT
      <4>1. g[i].why = "FRAGMENT" /\ ~(Point(v, i) \in 1 .. 4)
        BY <3>1, <3>5, ScanSteps, PointRange
      <4>2. ~(g[i].why = "OK")
        BY <4>1
      <4> QED BY Zenon, <3>2, <4>1, <4>2
    <3> HIDE DEF Good
    <3> QED BY <3>1, <3>3, <3>4, <3>5, PointRange
  <2> QED BY <2>1, <2>2
<1>4. \A i \in 1 .. Len(v) + 1 : i \in Good
  <2> HIDE DEF Good
  <2> QED BY <1>1, <1>3, Backwards
<1> QED BY Zenon, <1>4

(* What is checked of a text, and what is meant by it.                     *)
LEMMA ScanUtf8 ==
  ASSUME NEW v \in Text
  PROVE  \E g : /\ IsScan(v, g) /\ F!Scan(v) = g[1]
                /\ F!Utf8(v) <=> g[1].why = "OK"
<1> DEFINE at[i \in 1 .. Len(v) + 1] ==
             IF i > Len(v) THEN [at |-> i, why |-> "OK"]
             ELSE LET n == F!nn_utf8_code_point(SubSeq(v, i, Len(v))) IN
                  CASE n = F!INVALID -> [at |-> i, why |-> "INVALID"]
                    [] n = F!FRAGMENT -> [at |-> i, why |-> "FRAGMENT"]
                    [] OTHER -> at[i + n]
<1>1. \E g : IsScan(v, g)
  BY ScanExists
<1>2. IsScan(v, at)
  BY <1>1 DEF IsScan
<1>3. F!Scan(v) = at[1]
  BY DEF F!Scan
<1> HIDE DEF at
<1> DEFINE from[i \in 1 .. Len(v) + 1] ==
             \/ i > Len(v)
             \/ \E n \in 1 .. 4 : /\ i + n <= Len(v) + 1
                                  /\ F!CodePoint(SubSeq(v, i, i + n - 1))
                                  /\ from[i + n]
<1>4. \E h : IsFrom(v, h)
  BY <1>2, FromExists
<1>5. IsFrom(v, from)
  BY <1>4 DEF IsFrom
<1>6. F!Utf8(v) <=> from[1]
  BY DEF F!Utf8
<1> HIDE DEF from
<1>7. 1 \in 1 .. Len(v) + 1
  BY DEF Text
<1>8. from[1] = (at[1].why = "OK")
  BY <1>2, <1>5, <1>7, FromIsScan
<1> QED BY <1>2, <1>3, <1>6, <1>8

(* Scan checks exactly that a text is UTF-8.                               *)
LEMMA ScanDecides ==
  ASSUME NEW v \in Text
  PROVE  /\ F!Scan(v).why \in {"OK", "INVALID", "FRAGMENT"}
         /\ F!Scan(v).at \in 1 .. Len(v) + 1
         /\ F!Utf8(v) <=> F!Scan(v).why = "OK"
<1>1. PICK g : /\ IsScan(v, g) /\ F!Scan(v) = g[1]
               /\ F!Utf8(v) <=> g[1].why = "OK"
  BY ScanUtf8
<1>2. 1 \in 1 .. Len(v) + 1
  BY DEF Text
<1>3. /\ g[1].why \in {"OK", "INVALID", "FRAGMENT"}
      /\ g[1].at \in 1 .. Len(v) + 1
  BY <1>1, <1>2, ScanWhy
<1> QED BY <1>1, <1>3

(* The empty text is UTF-8.                                                *)
LEMMA NothingIsUtf8 == F!Utf8(<< >>)
<1>1. << >> \in Text /\ Len(<< >>) + 1 = 1
  BY DEF Text
<1>2. PICK g : IsScan(<< >>, g) /\ (F!Utf8(<< >>) <=> g[1].why = "OK")
  BY <1>1, ScanUtf8
<1>3. g[Len(<< >>) + 1].why = "OK"
  BY <1>1, <1>2, ScanSteps
<1> QED BY <1>1, <1>2, <1>3

(* A step of the loop.                                                     *)
LEMMA ScanStep ==
  ASSUME NEW v \in Text, NEW g, IsScan(v, g), NEW i \in 1 .. Len(v),
         NEW n, Point(v, i) = n
  PROVE  /\ n = F!INVALID => g[i].why = "INVALID"
         /\ n = F!FRAGMENT => g[i].why = "FRAGMENT"
         /\ n \in 1 .. 4 => g[i] = g[i + n]
BY ScanSteps

(* A text that follows a text: the rest is scanned as it is alone.         *)
LEMMA ScanBehind ==
  ASSUME NEW v \in Text, NEW u \in Text, NEW g, NEW h,
         IsScan(u, g), IsScan(v \o u, h)
  PROVE  \A i \in 1 .. Len(u) + 1 : h[Len(v) + i].why = g[i].why
<1> DEFINE Good == {i \in 1 .. Len(u) + 1 : h[Len(v) + i].why = g[i].why}
<1>1. Len(v) \in Nat /\ Len(u) \in Nat
  BY DEF Text
<1>2. v \o u \in Text /\ Len(v \o u) = Len(v) + Len(u)
  BY ConcatProperties DEF Text
<1>3. ASSUME NEW i \in 1 .. Len(u) + 1
      PROVE  i \in Good \/ \E j \in i + 1 .. Len(u) + 1 : j \notin Good
  <2>1. CASE i = Len(u) + 1
    <3>1. Len(v \o u) + 1 = Len(v) + i
      BY <1>1, <1>2, <2>1
    <3>2. h[Len(v \o u) + 1].why = "OK" /\ g[Len(u) + 1].why = "OK"
      BY <1>2, ScanSteps
    <3> QED BY <2>1, <3>1, <3>2
  <2>2. CASE i # Len(u) + 1
    <3>1. i \in 1 .. Len(u) /\ i \in Nat
      BY <1>1, <2>2
    <3>2. Len(v) + i \in 1 .. Len(v \o u)
      BY <1>1, <1>2, <3>1
    <3> DEFINE n == Point(u, i)
    <3>3. Point(v \o u, Len(v) + i) = n
      BY <3>1, PointBehind
    <3>4. CASE n \in 1 .. 4 /\ i + n \in i + 1 .. Len(u) + 1
      <4>1. g[i] = g[i + n]
        BY <3>1, <3>4, ScanSteps
      <4>2. h[Len(v) + i] = h[(Len(v) + i) + n]
        <5>1. n \in 1 .. 4
          BY <3>4
        <5> DEFINE t == v \o u
                   p == Len(v) + i
        <5>2. /\ t \in Text /\ IsScan(t, h) /\ p \in 1 .. Len(t)
              /\ Point(t, p) = n
          BY <1>2, <3>2, <3>3
        <5>3. h[p] = h[p + n]
          <6> HIDE DEF n, t, p
          <6> QED BY <5>1, <5>2, ScanStep
        <5> QED BY <5>3
      <4> HIDE DEF n
      <4>3. (Len(v) + i) + n = Len(v) + (i + n) /\ i + n \in 1 .. Len(u) + 1
        BY <1>1, <3>1, <3>4
      <4>4. i + n \in Good => i \in Good
        BY <4>1, <4>2, <4>3
      <4> HIDE DEF Good
      <4> QED BY <3>4, <4>4
    <3>5. CASE n = F!INVALID
      <4>1. g[i].why = "INVALID"
        BY <3>1, <3>5, ScanSteps
      <4>2. h[Len(v) + i].why = "INVALID"
        BY <1>2, <3>2, <3>3, <3>5, ScanStep
      <4> QED BY <4>1, <4>2
    <3>6. CASE n = F!FRAGMENT
      <4>1. g[i].why = "FRAGMENT"
        BY <3>1, <3>6, ScanSteps
      <4>2. h[Len(v) + i].why = "FRAGMENT"
        BY <1>2, <3>2, <3>3, <3>6, ScanStep
      <4> QED BY <4>1, <4>2
    <3> HIDE DEF Good
    <3> QED BY <3>1, <3>4, <3>5, <3>6, PointRange
  <2> QED BY <2>1, <2>2
<1>4. \A i \in 1 .. Len(u) + 1 : i \in Good
  <2> HIDE DEF Good
  <2> QED BY <1>1, <1>3, Backwards
<1> QED BY <1>4

(* If the first text is well formed, the scan of both comes to its end.    *)
LEMMA ScanBefore ==
  ASSUME NEW v \in Text, NEW u \in Text, NEW g, NEW h,
         IsScan(v, g), IsScan(v \o u, h)
  PROVE  \A i \in 1 .. Len(v) + 1 :
           g[i].why = "OK" => h[i].why = h[Len(v) + 1].why
<1> DEFINE Good == {i \in 1 .. Len(v) + 1 :
                      g[i].why = "OK" => h[i].why = h[Len(v) + 1].why}
<1>1. Len(v) \in Nat /\ Len(u) \in Nat
  BY DEF Text
<1>2. v \o u \in Text /\ Len(v \o u) = Len(v) + Len(u)
  BY ConcatProperties DEF Text
<1>3. ASSUME NEW i \in 1 .. Len(v) + 1
      PROVE  i \in Good \/ \E j \in i + 1 .. Len(v) + 1 : j \notin Good
  <2>1. CASE i = Len(v) + 1
    BY <2>1
  <2>2. CASE i # Len(v) + 1
    <3>1. i \in 1 .. Len(v) /\ i \in Nat /\ i \in 1 .. Len(v \o u)
      BY <1>1, <1>2, <2>2
    <3> DEFINE n == Point(v, i)
    <3>4. CASE n \in 1 .. 4 /\ i + n \in i + 1 .. Len(v) + 1
      <4>1. g[i] = g[i + n]
        BY <3>1, <3>4, ScanSteps
      <4>2. Point(v \o u, i) = n
        BY <3>1, <3>4, PointBefore
      <4>3. h[i] = h[i + n]
        <5>1. n \in 1 .. 4
          BY <3>4
        <5> DEFINE t == v \o u
        <5>2. /\ t \in Text /\ IsScan(t, h) /\ i \in 1 .. Len(t)
              /\ Point(t, i) = n
          BY <1>2, <3>1, <4>2
        <5>3. h[i] = h[i + n]
          <6> HIDE DEF n, t
          <6> QED BY <5>1, <5>2, ScanStep
        <5> QED BY <5>3
      <4> HIDE DEF n
      <4>4. i + n \in 1 .. Len(v) + 1
        BY <1>1, <3>1, <3>4
      <4>5. i + n \in Good => i \in Good
        BY <4>1, <4>3, <4>4
      <4> HIDE DEF Good
      <4> QED BY <3>4, <4>5
    <3>5. CASE n = F!INVALID
      <4>1. g[i].why = "INVALID"
        BY <3>1, <3>5, ScanSteps
      <4> QED BY <4>1
    <3>6. CASE n = F!FRAGMENT
      <4>1. g[i].why = "FRAGMENT"
        BY <3>1, <3>6, ScanSteps
      <4> QED BY <4>1
    <3> HIDE DEF Good
    <3> QED BY <3>1, <3>4, <3>5, <3>6, PointRange
  <2> QED BY <2>1, <2>2
<1>4. \A i \in 1 .. Len(v) + 1 : i \in Good
  <2> HIDE DEF Good
  <2> QED BY <1>1, <1>3, Backwards
<1> QED BY <1>4

(* What follows a text in UTF-8 decides whether both together are UTF-8.   *)
LEMMA Utf8Concat ==
  ASSUME NEW v \in Text, NEW u \in Text, F!Utf8(v)
  PROVE  F!Utf8(v \o u) <=> F!Utf8(u)
<1>1. /\ Len(v) \in Nat /\ Len(u) \in Nat
      /\ 1 \in 1 .. Len(v) + 1 /\ 1 \in 1 .. Len(u) + 1
  BY DEF Text
<1>2. v \o u \in Text
  BY ConcatProperties DEF Text
<1>3. PICK g : IsScan(v, g) /\ (F!Utf8(v) <=> g[1].why = "OK")
  BY ScanUtf8
<1>4. PICK k : IsScan(u, k) /\ (F!Utf8(u) <=> k[1].why = "OK")
  BY ScanUtf8
<1>5. PICK h : IsScan(v \o u, h) /\ (F!Utf8(v \o u) <=> h[1].why = "OK")
  BY <1>2, ScanUtf8
<1>6. h[1].why = h[Len(v) + 1].why
  BY <1>1, <1>3, <1>5, ScanBefore
<1>7. h[Len(v) + 1].why = k[1].why
  BY <1>1, <1>4, <1>5, ScanBehind
<1> QED BY <1>4, <1>5, <1>6, <1>7

-----------------------------------------------------------------------------
(* The chunks of a message put together.                                   *)
IsFlat(s, n, g) ==
  g = [i \in 1 .. n |-> IF i = 1 THEN s[i] ELSE g[i - 1] \o s[i]]

(* There is a function that puts chunks together one by one.               *)
LEMMA FlatExists ==
  ASSUME NEW s \in Seq(Text)
  PROVE  \A n \in 0 .. Len(s) : \E g : IsFlat(s, n, g)
<1> DEFINE Low == {n \in 0 .. Len(s) : ~ \E g : IsFlat(s, n, g)}
<1>1. ASSUME Low # {} PROVE FALSE
  <2>1. Low \in SUBSET Nat
    OBVIOUS
  <2>2. PICK n \in Low : \A y \in Low : n <= y
    <3> HIDE DEF Low
    <3> QED BY <1>1, <2>1, Smallest
  <2>3. n \in 0 .. Len(s) /\ n \in Nat /\ ~ \E g : IsFlat(s, n, g)
    OBVIOUS
  <2>4. CASE n = 0
    <3> DEFINE g == [i \in 1 .. 0 |-> << >>]
    <3>1. IsFlat(s, n, g)
      BY <2>4 DEF IsFlat
    <3> QED BY <2>3, <3>1
  <2>5. CASE n # 0
    <3>1. n - 1 \in 0 .. Len(s) /\ ~(n <= n - 1)
      BY <2>3, <2>5
    <3>2. n - 1 \notin Low
      <4> HIDE DEF Low
      <4> QED BY <2>2, <3>1
    <3>3. PICK g : IsFlat(s, n - 1, g)
      BY <3>1, <3>2
    <3> DEFINE h == [i \in 1 .. n |-> IF i = 1 THEN s[i] ELSE g[i - 1] \o s[i]]
    <3>4. \A i \in 1 .. n - 1 : g[i] = h[i]
      <4>1. \A i \in 1 .. n - 1 :
              g[i] = IF i = 1 THEN s[i] ELSE g[i - 1] \o s[i]
        BY Zenon, <3>3 DEF IsFlat
      <4>2. \A i \in 1 .. n - 1 : i \in 1 .. n
        BY <2>3
      <4> HIDE DEF Low
      <4> QED BY Zenon, <4>1, <4>2
    <3>5. \A i \in 1 .. n : h[i] = IF i = 1 THEN s[i] ELSE h[i - 1] \o s[i]
      <4> TAKE i \in 1 .. n
      <4>1. CASE i = 1
        BY <4>1
      <4>2. CASE i # 1
        <5>1. i - 1 \in 1 .. n - 1
          BY <2>3, <4>2
        <5>2. h[i] = g[i - 1] \o s[i]
          BY <4>2
        <5> QED BY <5>1, <5>2, <3>4, <4>2
      <4> QED BY <4>1, <4>2
    <3>6. DOMAIN h = 1 .. n /\ h = [i \in DOMAIN h |-> h[i]]
      OBVIOUS
    <3> HIDE DEF h
    <3>7. IsFlat(s, n, h)
      BY <3>5, <3>6 DEF IsFlat
    <3> QED BY <2>3, <3>7
  <2> QED BY <2>4, <2>5
<1> HIDE DEF Low
<1>2. Low = {}
  BY <1>1
<1> USE DEF Low
<1> QED BY <1>2

(* Putting chunks together begins the same for chunks that begin the same. *)
LEMMA FlatSame ==
  ASSUME NEW s \in Seq(Text), NEW t \in Seq(Text), NEW n \in Nat, NEW k \in Nat,
         n <= k, n <= Len(s), k <= Len(t), \A i \in 1 .. n : s[i] = t[i],
         NEW g, NEW h, IsFlat(s, n, g), IsFlat(t, k, h)
  PROVE  \A i \in 1 .. n : g[i] = h[i] /\ g[i] \in Text
<1> DEFINE Low == {i \in 1 .. n : ~(g[i] = h[i] /\ g[i] \in Text)}
<1>1. \A i \in 1 .. n : g[i] = IF i = 1 THEN s[i] ELSE g[i - 1] \o s[i]
  BY Zenon DEF IsFlat
<1>2. \A i \in 1 .. k : h[i] = IF i = 1 THEN t[i] ELSE h[i - 1] \o t[i]
  BY Zenon DEF IsFlat
<1>3. ASSUME Low # {} PROVE FALSE
  <2>1. Low \in SUBSET Nat
    OBVIOUS
  <2>2. PICK i \in Low : \A y \in Low : i <= y
    <3> HIDE DEF Low
    <3> QED BY <1>3, <2>1, Smallest
  <2>3. i \in 1 .. n /\ ~(g[i] = h[i] /\ g[i] \in Text)
    OBVIOUS
  <2>4. i \in 1 .. k /\ s[i] = t[i] /\ s[i] \in Text
    BY <2>3
  <2>5. CASE i = 1
    BY <1>1, <1>2, <2>3, <2>4, <2>5
  <2>6. CASE i # 1
    <3>1. i - 1 \in 1 .. n /\ ~(i <= i - 1)
      BY <2>3, <2>6
    <3>2. i - 1 \notin Low
      <4> HIDE DEF Low
      <4> QED BY <2>2, <3>1
    <3>3. g[i - 1] = h[i - 1] /\ g[i - 1] \in Text
      BY <3>1, <3>2
    <3>4. g[i] = g[i - 1] \o s[i] /\ h[i] = h[i - 1] \o t[i]
      BY <1>1, <1>2, <2>3, <2>4, <2>6
    <3>5. g[i - 1] \o s[i] \in Text
      BY <2>4, <3>3, ConcatProperties DEF Text
    <3> QED BY <2>3, <2>4, <3>3, <3>4, <3>5
  <2> QED BY <2>5, <2>6
<1> HIDE DEF Low
<1>4. Low = {}
  BY <1>3
<1> USE DEF Low
<1> QED BY <1>4

(* FlattenSeq is that function at the last chunk.                          *)
LEMMA FlatIs ==
  ASSUME NEW s \in Seq(Text), Len(s) # 0
  PROVE  \E g : IsFlat(s, Len(s), g) /\ F!FlattenSeq(s) = g[Len(s)]
<1> DEFINE flatten[i \in 1 .. Len(s)] ==
             IF i = 1 THEN s[i] ELSE flatten[i - 1] \o s[i]
<1>1. Len(s) \in 0 .. Len(s)
  OBVIOUS
<1>2. \E g : IsFlat(s, Len(s), g)
  BY <1>1, FlatExists
<1>3. IsFlat(s, Len(s), flatten)
  BY <1>2 DEF IsFlat
<1>4. F!FlattenSeq(s) = flatten[Len(s)]
  BY DEF F!FlattenSeq
<1> HIDE DEF flatten
<1> QED BY <1>3, <1>4

(* No chunks make the empty text.                                          *)
LEMMA FlatNothing == F!FlattenSeq(<< >>) = << >>
<1>1. Len(<< >>) = 0
  OBVIOUS
<1> QED BY Zenon, <1>1 DEF F!FlattenSeq

(* Chunks of octets make octets.                                           *)
LEMMA FlatText ==
  ASSUME NEW s \in Seq(Text)
  PROVE  F!FlattenSeq(s) \in Text
<1>1. CASE Len(s) = 0
  <2>1. s = << >>
    BY <1>1
  <2>2. << >> \in Text
    BY EmptySeq DEF Text
  <2> QED BY <2>1, <2>2, FlatNothing
<1>2. CASE Len(s) # 0
  <2>1. PICK g : IsFlat(s, Len(s), g) /\ F!FlattenSeq(s) = g[Len(s)]
    BY <1>2, FlatIs
  <2>2. Len(s) \in Nat /\ Len(s) \in 1 .. Len(s)
    BY <1>2
  <2>3. g[Len(s)] \in Text
    BY <2>1, <2>2, FlatSame
  <2> QED BY <2>1, <2>3
<1> QED BY <1>1, <1>2

(* A chunk more.                                                           *)
LEMMA FlatAppend ==
  ASSUME NEW s \in Seq(Text), NEW d \in Text
  PROVE  F!FlattenSeq(Append(s, d)) = F!FlattenSeq(s) \o d
<1> DEFINE t == Append(s, d)
           n == Len(s)
<1>1. /\ t \in Seq(Text) /\ Len(t) = n + 1 /\ n \in Nat
      /\ t[n + 1] = d /\ \A i \in 1 .. n : s[i] = t[i]
  BY AppendProperties
<1> HIDE DEF t
<1>2. PICK h : IsFlat(t, n + 1, h) /\ F!FlattenSeq(t) = h[n + 1]
  <2>1. Len(t) # 0
    BY <1>1
  <2> QED BY <1>1, <2>1, FlatIs
<1>3. \A i \in 1 .. n + 1 : h[i] = IF i = 1 THEN t[i] ELSE h[i - 1] \o t[i]
  BY Zenon, <1>2 DEF IsFlat
<1>4. CASE n = 0
  <2>1. h[n + 1] = d
    BY <1>1, <1>3, <1>4
  <2>2. s = << >>
    BY <1>4
  <2>3. << >> \o d = d
    BY ConcatEmptySeq DEF Text
  <2> QED BY <1>2, <2>1, <2>2, <2>3, FlatNothing DEF t
<1>5. CASE n # 0
  <2>1. PICK g : IsFlat(s, n, g) /\ F!FlattenSeq(s) = g[n]
    BY <1>5, FlatIs
  <2>2. n \in 1 .. n /\ n + 1 \in 1 .. n + 1 /\ n + 1 # 1 /\ (n + 1) - 1 = n
        /\ n <= n + 1 /\ n <= Len(s) /\ n + 1 <= Len(t) /\ n + 1 \in Nat
    BY <1>1, <1>5
  <2> HIDE DEF n
  <2>3. g[n] = h[n]
    BY <1>1, <1>2, <2>1, <2>2, FlatSame
  <2>4. h[n + 1] = h[n] \o d
    BY <1>1, <1>3, <2>2
  <2> QED BY <1>2, <2>1, <2>3, <2>4 DEF t
<1> QED BY <1>4, <1>5

(* The types of a frame, of a connection and of what the peer has sent.    *)
FrameType ==
  [op : {"TEXT", "FRAGMENT", "BINARY", "PING", "PONG", "CLOSE", "UNUSED3"},
   fin : BOOLEAN, rsv : BOOLEAN, masked : BOOLEAN, form : {"SHORT", "LONG"},
   data : Text]
WsType ==
  [state : {"ACTIVE", "CLOSING"},
   in : {"RECV_HDR", "RECV_HDREXT", "RECV_PAYLOAD", "RECVD_CHUNKED",
         "RECVD_CONTROL", "CLOSED"},
   f : FrameType \cup {F!Nothing}, cont : BOOLEAN,
   first : {"NONE", "TEXT", "FRAGMENT", "BINARY", "PING", "PONG", "CLOSE",
            "UNUSED3"},
   array : Seq(Text), frag : Text, code : Nat, bad : BOOLEAN]
SentType == [op : {"NONE", "TEXT", "BINARY"}, data : Text, open : BOOLEAN]

(* The chunks that are kept make a text; what there is of it is UTF-8.     *)
Chunks(s) == F!FlattenSeq(s.array)
Checked(op, d) == op = "TEXT" => F!Utf8(d)

(* Between two frames: a message that is not complete is kept.             *)
Between(s, m) ==
  /\ s.cont = m.open
  /\ ~s.cont => s.array = << >>
  /\ s.cont => /\ s.first = m.op /\ m.op \in {"TEXT", "BINARY"}
               /\ Chunks(s) = m.data /\ Checked(m.op, m.data)

(* In a frame of a message.                                                *)
InMessage(s, m) ==
  /\ s.f \in FrameType /\ s.f.op \in {m.op, "FRAGMENT"}
  /\ s.cont = m.open /\ m.open = ~s.f.fin
  /\ s.first = m.op /\ m.op \in {"TEXT", "BINARY"}
Cuttable(s, m) ==
  m.op = "TEXT" /\ ~s.f.fin => F!Scan(s.f.data).why # "FRAGMENT"
BeforePayload(s, m) ==
  /\ InMessage(s, m) /\ Cuttable(s, m)
  /\ m.data = Chunks(s) \o s.f.data /\ Checked(m.op, Chunks(s))
WithPayload(s, m) ==
  /\ InMessage(s, m) /\ Cuttable(s, m) /\ m.data = Chunks(s)
  /\ \E old \in Text : m.data = old \o s.f.data /\ Checked(m.op, old)
Complete(s, m) ==
  /\ InMessage(s, m) /\ m.data = Chunks(s) /\ Checked(m.op, m.data)

(* In a control frame: of a close only the payload may be wrong.           *)
CloseCodes == (1000 .. 1003) \cup (1007 .. 1011) \cup (3000 .. 4999)
CloseOK(f) ==
  f.data # << >> =>
    /\ Len(f.data) >= 2 /\ F!Utf8(SubSeq(f.data, 3, Len(f.data)))
    /\ f.data[1] * 256 + f.data[2] \in CloseCodes
InControl(s, m, l) ==
  /\ Between(s, m) /\ s.f \in FrameType /\ s.f.fin
  /\ s.f.op \in {"PING", "PONG", "CLOSE"}
  /\ s.f.op = "CLOSE" => (l <=> CloseOK(s.f)) /\ Len(s.f.data) # 1
  /\ ~l => s.f.op = "CLOSE"

(* A connection is failed for a reason.                                    *)
Rightly(code, f, m, l) ==
  /\ code = F!ERR_PROTO /\ l =>
       f.op = "CLOSE" /\ f.data[1] * 256 + f.data[2] = F!ERR_PROTO
  /\ code = F!ERR_INVALID_FRAME /\ l =>
       f.op = "CLOSE" \/ (m.op = "TEXT" /\ ~F!Utf8(m.data))
  /\ code = F!ERR_TOOBIG /\ f.op # "CLOSE" => Len(m.data) > MaxSize

Working(s) ==
  s \in WsType /\ s.state = "ACTIVE" /\ ~s.bad /\ s.code = 0 /\ s.frag = << >>

FrameOK(s, m, l) ==
  /\ m \in SentType
  /\ \/ /\ s \in WsType /\ s.state = "CLOSING" /\ s.in = "CLOSED" /\ ~s.bad
        /\ Rightly(s.code, s.f, m, l)
     \/ /\ Working(s) /\ l
        /\ \/ s.in = "RECV_HDR" /\ Between(s, m)
           \/ /\ s.in = "RECVD_CONTROL" /\ Between(s, m)
              /\ s.f \in FrameType /\ s.f.fin /\ s.f.op \in {"PING", "PONG"}
           \/ s.in = "RECV_HDREXT" /\ BeforePayload(s, m)
           \/ s.in = "RECV_PAYLOAD" /\ WithPayload(s, m)
           \/ s.in = "RECVD_CHUNKED" /\ Complete(s, m) /\ s.f.fin
     \/ /\ Working(s) /\ s.in \in {"RECV_HDREXT", "RECV_PAYLOAD"}
        /\ InControl(s, m, l)

FrameInv == FrameOK(w, sent, legal) /\ legal \in BOOLEAN
-----------------------------------------------------------------------------
(* nn_sws_fail_conn: an active connection is closed for a reason.          *)
LEMMA FailOK ==
  ASSUME NEW s \in WsType, s.state = "ACTIVE", ~s.bad, NEW m \in SentType,
         NEW l, NEW code \in Nat, Rightly(code, s.f, m, l)
  PROVE  FrameOK(F!nn_sws_fail_conn(s, code), m, l)
<1> DEFINE n == F!nn_sws_fail_conn(s, code)
<1>1. n = [s EXCEPT !.in = "CLOSED", !.state = "CLOSING", !.array = << >>,
                    !.code = code]
  BY DEF F!nn_sws_fail_conn
<1>3. << >> \in Seq(Text)
  BY EmptySeq
<1>4. /\ n \in WsType /\ n.state = "CLOSING" /\ n.in = "CLOSED" /\ ~n.bad
      /\ n.code = code /\ n.f = s.f
  BY <1>1, <1>3 DEF WsType
<1> HIDE DEF n
<1>5. Rightly(n.code, n.f, m, l)
  BY <1>4
<1>6. FrameOK(n, m, l)
  BY Zenon, <1>4, <1>5 DEF FrameOK
<1> QED BY <1>6 DEF n

(* The same with a fragment that is left over.                             *)
LEMMA KeepFragment ==
  ASSUME NEW s \in WsType, NEW d \in Text
  PROVE  LET n == [s EXCEPT !.frag = d] IN
         /\ n \in WsType /\ n.state = s.state /\ n.in = s.in /\ n.f = s.f
         /\ n.cont = s.cont /\ n.first = s.first /\ n.array = s.array
         /\ n.frag = d /\ n.code = s.code /\ n.bad = s.bad
BY DEF WsType

(* A machine in the state in which the next frame is read, and others.     *)
LEMMA Goes ==
  ASSUME NEW s \in WsType,
         NEW in \in {"RECV_HDR", "RECV_HDREXT", "RECV_PAYLOAD", "RECVD_CHUNKED",
                     "RECVD_CONTROL", "CLOSED"}
  PROVE  LET n == [s EXCEPT !.in = in] IN
         /\ n \in WsType /\ n.state = s.state /\ n.in = in /\ n.f = s.f
         /\ n.cont = s.cont /\ n.first = s.first /\ n.array = s.array
         /\ n.frag = s.frag /\ n.code = s.code /\ n.bad = s.bad
BY DEF WsType

(* nn_sws_recv_hdr between two frames.                                     *)
LEMMA RecvHdrOK ==
  ASSUME NEW s, Working(s), NEW m \in SentType, Between(s, m)
  PROVE  FrameOK(F!nn_sws_recv_hdr(s), m, TRUE)
<1> DEFINE n == [s EXCEPT !.in = "RECV_HDR"]
<1>1. F!nn_sws_recv_hdr(s) = n
  BY Zenon DEF Between, F!nn_sws_recv_hdr
<1>2. s \in WsType
  BY DEF Working
<1>3. /\ n \in WsType /\ n.state = s.state /\ n.in = "RECV_HDR" /\ n.f = s.f
      /\ n.cont = s.cont /\ n.first = s.first /\ n.array = s.array
      /\ n.frag = s.frag /\ n.code = s.code /\ n.bad = s.bad
  BY <1>2, Goes
<1> HIDE DEF n
<1>4. Working(n) /\ Between(n, m)
  BY <1>3 DEF Working, Between, Chunks
<1> QED BY <1>1, <1>3, <1>4 DEF FrameOK

(* The message is complete or its next frame is read.                      *)
LEMMA WholeOK ==
  ASSUME NEW s, Working(s), NEW m \in SentType, Complete(s, m)
  PROVE  FrameOK(F!Whole(s), m, TRUE)
<1>1. CASE s.f.fin
  <2> DEFINE n == [s EXCEPT !.in = "RECVD_CHUNKED"]
  <2>1. F!Whole(s) = n
    BY <1>1 DEF F!Whole
  <2>2. s \in WsType
    BY DEF Working
  <2>3. /\ n \in WsType /\ n.state = s.state /\ n.in = "RECVD_CHUNKED"
        /\ n.f = s.f
        /\ n.cont = s.cont /\ n.first = s.first /\ n.array = s.array
        /\ n.frag = s.frag /\ n.code = s.code /\ n.bad = s.bad
    BY <2>2, Goes
  <2> HIDE DEF n
  <2>4. Working(n) /\ Complete(n, m)
    BY <2>3 DEF Working, Complete, InMessage, Chunks
  <2> QED BY <1>1, <2>1, <2>3, <2>4 DEF FrameOK
<1>2. CASE ~s.f.fin
  <2>1. F!Whole(s) = F!nn_sws_recv_hdr(s)
    BY <1>2 DEF F!Whole
  <2>2. Between(s, m)
    BY <1>2 DEF Complete, InMessage, Between
  <2> QED BY <2>1, <2>2, RecvHdrOK
<1> QED BY <1>1, <1>2

(* nn_sws_acknowledge_close_handshake: a close that keeps to the rules is  *)
(* answered with its own code.                                             *)
LEMMA CloseAcknowledged ==
  ASSUME NEW s, Working(s), NEW m \in SentType, NEW l,
         InControl(s, m, l), s.f.op = "CLOSE"
  PROVE  FrameOK(F!nn_sws_acknowledge_close_handshake(s), m, l)
<1> DEFINE d == s.f.data
           code == d[1] * 256 + d[2]
           rest == SubSeq(d, 3, Len(d))
           ok == F!Scan(rest).why = "OK"
           answer == IF d = << >> THEN F!CLOSE_NORMAL
                     ELSE IF ~ok THEN F!ERR_PROTO
                     ELSE IF code \in CloseCodes THEN code ELSE F!ERR_PROTO
<1>1. F!nn_sws_acknowledge_close_handshake(s) = F!nn_sws_fail_conn(s, answer)
  <2> DEFINE a == F!nn_sws_fail_conn(s, F!CLOSE_NORMAL)
             c == F!nn_sws_fail_conn(s, F!ERR_PROTO)
             e == F!nn_sws_fail_conn(s, IF code \in CloseCodes THEN code
                                        ELSE F!ERR_PROTO)
             none == d = << >>
  <2>1. F!nn_sws_acknowledge_close_handshake(s) =
          CASE none -> a [] ~none /\ ~ok -> c [] OTHER -> e
    BY Zenon DEF F!nn_sws_acknowledge_close_handshake, CloseCodes
  <2> HIDE DEF code, ok
  <2>2. CASE none
    <3>1. a = F!nn_sws_fail_conn(s, answer)
      BY Zenon, <2>2
    <3> HIDE DEF a, c, e, none, ok, answer
    <3> QED BY <2>1, <2>2, <3>1
  <2>3. CASE ~none /\ ~ok
    <3>1. c = F!nn_sws_fail_conn(s, answer)
      BY Zenon, <2>3
    <3> HIDE DEF a, c, e, none, ok, answer
    <3> QED BY <2>1, <2>3, <3>1
  <2>4. CASE ~none /\ ok
    <3>1. e = F!nn_sws_fail_conn(s, answer)
      BY Zenon, <2>4
    <3> HIDE DEF a, c, e, none, ok, answer
    <3> QED BY <2>1, <2>4, <3>1
  <2> HIDE DEF ok, none, answer
  <2> QED BY <2>2, <2>3, <2>4
<1>2. d \in Text /\ s.f.op = "CLOSE" /\ (l <=> CloseOK(s.f)) /\ Len(d) # 1
  BY DEF InControl, FrameType
<1>3. d # << >> => /\ Len(d) \in Nat /\ Len(d) >= 2 /\ d[1] \in Nat /\ d[2] \in Nat
  <2> HIDE DEF d
  <2> SUFFICES ASSUME d # << >> PROVE /\ Len(d) \in Nat /\ Len(d) >= 2
                                      /\ d[1] \in Nat /\ d[2] \in Nat
    OBVIOUS
  <2>1. Len(d) \in Nat /\ Len(d) # 0
    BY <1>2, EmptySeq DEF Text
  <2>2. Len(d) >= 2
    BY <1>2, <2>1
  <2> QED BY <1>2, <2>1, <2>2 DEF Text
<1>4. d # << >> => code \in Nat /\ rest \in Text
  <2> HIDE DEF d
  <2> SUFFICES ASSUME d # << >> PROVE code \in Nat /\ rest \in Text
    OBVIOUS
  <2>1. code \in Nat
    BY <1>3
  <2>2. \A i \in 3 .. Len(d) : d[i] \in Nat
    BY <1>2 DEF Text
  <2>3. rest \in Seq(Nat)
    BY <1>3, <2>2, SubSeqProperties
  <2> QED BY <2>1, <2>3 DEF Text
<1>5. d # << >> => (F!Utf8(rest) <=> ok)
  BY <1>4, ScanDecides
<1>6. l => (d # << >> => ok /\ code \in CloseCodes)
  <2>1. CloseOK(s.f) => (d # << >> => F!Utf8(rest) /\ code \in CloseCodes)
    BY Zenon DEF CloseOK
  <2> HIDE DEF ok, code, rest
  <2> QED BY Zenon, <1>2, <1>5, <2>1
<1> HIDE DEF ok, code, rest
<1>7. answer \in Nat
  <2>1. F!CLOSE_NORMAL \in Nat /\ F!ERR_PROTO \in Nat
    BY SMT DEF F!CLOSE_NORMAL, F!ERR_PROTO
  <2> QED BY <2>1, <1>4
<1>8. Rightly(answer, s.f, m, l)
  <2>1. F!CLOSE_NORMAL # F!ERR_PROTO
    BY SMT DEF F!CLOSE_NORMAL, F!ERR_PROTO
  <2>2. l /\ answer = F!ERR_PROTO => code = F!ERR_PROTO
    BY <1>6, <2>1
  <2>3. s.f.data[1] * 256 + s.f.data[2] = code
    BY Zenon DEF code
  <2> HIDE DEF answer
  <2> QED BY Zenon, <1>2, <2>2, <2>3 DEF Rightly
<1> HIDE DEF answer
<1> QED BY <1>1, <1>7, <1>8, FailOK DEF Working

(* nn_sws_validate_utf8_chunk: a frame of text that is complete is checked *)
(* from its first octet.                                                   *)
LEMMA FromTheStart ==
  ASSUME NEW s, Working(s)
  PROVE  F!nn_sws_validate_utf8_chunk(s) = F!ValidateFrom(s, s.f.data)
<1>1. s.frag = << >>
  BY DEF Working
<1> QED BY Zenon, <1>1 DEF F!nn_sws_validate_utf8_chunk

(* A text is delivered if it is UTF-8 and failed if it is not.             *)
LEMMA TextOK ==
  ASSUME NEW s, Working(s), NEW m \in SentType, WithPayload(s, m),
         m.op = "TEXT"
  PROVE  FrameOK(F!nn_sws_validate_utf8_chunk(s), m, TRUE)
<1> DEFINE d == s.f.data
           end == F!Scan(d)
           invalid == F!nn_sws_fail_conn([s EXCEPT !.frag = << >>],
                                         F!ERR_INVALID_FRAME)
           n == [s EXCEPT !.frag = SubSeq(d, end.at, Len(d))]
           inside == IF s.f.fin THEN F!nn_sws_fail_conn(n, F!ERR_INVALID_FRAME)
                                ELSE F!nn_sws_recv_hdr(n)
           whole == F!Whole([s EXCEPT !.frag = << >>])
           result == F!nn_sws_validate_utf8_chunk(s)
<1>1. result = CASE end.why = "INVALID" -> invalid
                 [] end.why = "FRAGMENT" -> inside
                 [] OTHER -> whole
  BY FromTheStart DEF F!ValidateFrom
<1>2. /\ s \in WsType /\ s.state = "ACTIVE" /\ ~s.bad /\ s.code = 0
      /\ s.frag = << >>
  BY DEF Working
<1>3. PICK old \in Text : m.data = old \o d /\ Checked(m.op, old)
  BY DEF WithPayload
<1>4. d \in Text
  BY DEF WithPayload, InMessage, FrameType
<1>5. /\ end.why \in {"OK", "INVALID", "FRAGMENT"} /\ end.at \in 1 .. Len(d) + 1
      /\ F!Utf8(d) <=> end.why = "OK"
  BY <1>4, ScanDecides
<1>6. F!Utf8(m.data) <=> end.why = "OK"
  <2>1. F!Utf8(old)
    BY <1>3 DEF Checked
  <2>2. F!Utf8(old \o d) <=> F!Utf8(d)
    BY <1>4, <2>1, Utf8Concat
  <2> QED BY <1>3, <1>5, <2>2
<1>7. F!ERR_INVALID_FRAME \in Nat /\ F!ERR_INVALID_FRAME = 1007
      /\ F!ERR_PROTO = 1002 /\ F!ERR_TOOBIG = 1009
  BY SMT DEF F!ERR_INVALID_FRAME, F!ERR_PROTO, F!ERR_TOOBIG
<1>8. ASSUME end.why # "OK" PROVE Rightly(F!ERR_INVALID_FRAME, s.f, m, TRUE)
  BY SMT, <1>6, <1>7, <1>8 DEF Rightly
<1>9. [s EXCEPT !.frag = << >>] = s
  BY <1>2 DEF WsType
<1>10. CASE end.why = "INVALID"
  <2>1. result = F!nn_sws_fail_conn(s, F!ERR_INVALID_FRAME)
    <3>1. result = invalid
      <4> HIDE DEF invalid, inside, whole, end, result
      <4> QED BY <1>1, <1>10
    <3> HIDE DEF result
    <3> QED BY <1>9, <3>1
  <2>2. FrameOK(F!nn_sws_fail_conn(s, F!ERR_INVALID_FRAME), m, TRUE)
    <3> DEFINE yes == TRUE
    <3>1. end.why # "OK"
      BY <1>10
    <3>2. Rightly(F!ERR_INVALID_FRAME, s.f, m, yes)
      BY <1>8, <3>1
    <3> HIDE DEF yes
    <3>3. FrameOK(F!nn_sws_fail_conn(s, F!ERR_INVALID_FRAME), m, yes)
      BY <1>2, <1>7, <3>2, FailOK
    <3> QED BY <3>3 DEF yes
  <2> QED BY <2>1, <2>2
<1>11. CASE end.why = "FRAGMENT"
  <2>1. s.f.fin
    BY <1>11 DEF WithPayload, Cuttable
  <2>2. result = F!nn_sws_fail_conn(n, F!ERR_INVALID_FRAME)
    <3>1. result = inside
      <4> HIDE DEF invalid, inside, whole, end, result
      <4> QED BY <1>1, <1>11
    <3>2. inside = F!nn_sws_fail_conn(n, F!ERR_INVALID_FRAME)
      BY Zenon, <2>1
    <3> HIDE DEF result, inside
    <3> QED BY <3>1, <3>2
  <2> DEFINE rest == SubSeq(d, end.at, Len(d))
  <2>3. rest \in Text
    <3> HIDE DEF d, end
    <3>1. /\ end.at \in Int /\ Len(d) \in Int
          /\ \A i \in end.at .. Len(d) : d[i] \in Nat
      BY <1>4, <1>5 DEF Text
    <3>2. SubSeq(d, end.at, Len(d)) \in Seq(Nat)
      BY <3>1, SubSeqProperties
    <3> QED BY <3>2 DEF Text
  <2>4. n \in WsType /\ n.state = s.state /\ n.f = s.f /\ n.bad = s.bad
    <3> HIDE DEF rest
    <3>1. n = [s EXCEPT !.frag = rest]
      BY DEF rest
    <3> QED BY <1>2, <2>3, <3>1, KeepFragment
  <2>5. Rightly(F!ERR_INVALID_FRAME, n.f, m, TRUE)
    BY <1>8, <1>11, <2>4
  <2> HIDE DEF n
  <2>6. FrameOK(F!nn_sws_fail_conn(n, F!ERR_INVALID_FRAME), m, TRUE)
    <3> DEFINE yes == TRUE
    <3>1. Rightly(F!ERR_INVALID_FRAME, n.f, m, yes)
      BY <2>5
    <3> HIDE DEF yes
    <3>2. FrameOK(F!nn_sws_fail_conn(n, F!ERR_INVALID_FRAME), m, yes)
      BY <1>2, <1>7, <2>4, <3>1, FailOK
    <3> QED BY <3>2 DEF yes
  <2> QED BY <2>2, <2>6
<1>12. CASE end.why = "OK"
  <2>1. result = F!Whole(s)
    <3>1. result = whole
      <4> HIDE DEF invalid, inside, whole, end, result
      <4> QED BY <1>1, <1>12
    <3> HIDE DEF result
    <3> QED BY <1>9, <3>1
  <2>2. Complete(s, m)
    BY <1>6, <1>12 DEF WithPayload, Complete, Checked
  <2> QED BY <2>1, <2>2, WholeOK
<1> HIDE DEF end, result
<1> QED BY <1>5, <1>10, <1>11, <1>12

(* The payload of a frame of a message was read.                           *)
LEMMA PayloadRead ==
  ASSUME NEW s, Working(s), NEW m \in SentType, WithPayload(s, m)
  PROVE  FrameOK(F!nn_sws_payload(s), m, TRUE)
<1>1. /\ s.f.op \in {m.op, "FRAGMENT"} /\ s.first = m.op
      /\ m.op \in {"TEXT", "BINARY"}
  BY DEF WithPayload, InMessage
<1>2. CASE m.op = "TEXT"
  <2>1. F!nn_sws_payload(s) = F!nn_sws_validate_utf8_chunk(s)
    <3>1. s.f.op = "TEXT" \/ (s.f.op = "FRAGMENT" /\ s.first = "TEXT")
      BY <1>1, <1>2
    <3>2. ~(s.f.op \in {"PING", "PONG"}) /\ s.f.op # "CLOSE"
      BY <3>1
    <3> QED BY Zenon, <3>1, <3>2 DEF F!nn_sws_payload
  <2> QED BY <1>2, <2>1, TextOK
<1>3. CASE m.op = "BINARY"
  <2>1. F!nn_sws_payload(s) = F!Whole(s)
    <3>1. ~(s.f.op = "TEXT" \/ (s.f.op = "FRAGMENT" /\ s.first = "TEXT"))
      BY <1>1, <1>3
    <3>2. ~(s.f.op \in {"PING", "PONG"}) /\ s.f.op # "CLOSE"
      BY <1>1, <1>3
    <3> QED BY Zenon, <3>1, <3>2 DEF F!nn_sws_payload
  <2>2. Complete(s, m)
    BY <1>3 DEF WithPayload, Complete, Checked
  <2> QED BY <2>1, <2>2, WholeOK
<1> QED BY <1>1, <1>2, <1>3

(* A ping or a pong was read.                                              *)
LEMMA PingRead ==
  ASSUME NEW s, Working(s), NEW m \in SentType, InControl(s, m, TRUE),
         s.f.op \in {"PING", "PONG"}
  PROVE  FrameOK([s EXCEPT !.in = "RECVD_CONTROL"], m, TRUE)
<1> DEFINE n == [s EXCEPT !.in = "RECVD_CONTROL"]
<1>1. s \in WsType
  BY DEF Working
<1>2. /\ n \in WsType /\ n.state = s.state /\ n.in = "RECVD_CONTROL" /\ n.f = s.f
      /\ n.cont = s.cont /\ n.first = s.first /\ n.array = s.array
      /\ n.frag = s.frag /\ n.code = s.code /\ n.bad = s.bad
  BY <1>1, Goes
<1> HIDE DEF n
<1>3. Working(n) /\ Between(n, m)
  BY <1>2 DEF Working, InControl, Between, Chunks
<1>4. FrameOK(n, m, TRUE)
  BY <1>2, <1>3 DEF FrameOK, InControl
<1> QED BY <1>4 DEF n

(* The payload of a control frame was read.                                *)
LEMMA ControlRead ==
  ASSUME NEW s, Working(s), NEW m \in SentType, NEW l \in BOOLEAN,
         InControl(s, m, l)
  PROVE  FrameOK(F!nn_sws_payload(s), m, l)
<1>1. s.f.op \in {"PING", "PONG", "CLOSE"}
  BY DEF InControl
<1>2. ~(s.f.op = "TEXT" \/ (s.f.op = "FRAGMENT" /\ s.first = "TEXT"))
  BY <1>1
<1>3. CASE s.f.op = "CLOSE"
  <2>1. ~(s.f.op \in {"PING", "PONG"})
    BY <1>3
  <2>2. F!nn_sws_payload(s) = F!nn_sws_acknowledge_close_handshake(s)
    BY Zenon, <1>2, <1>3, <2>1 DEF F!nn_sws_payload
  <2> QED BY <1>3, <2>2, CloseAcknowledged
<1>4. CASE s.f.op \in {"PING", "PONG"}
  <2>1. l = TRUE
    BY <1>4 DEF InControl
  <2>2. s.f.op # "CLOSE"
    BY <1>4
  <2>3. F!nn_sws_payload(s) = [s EXCEPT !.in = "RECVD_CONTROL"]
    BY Zenon, <1>2, <1>4, <2>2 DEF F!nn_sws_payload
  <2> QED BY <1>4, <2>1, <2>3, PingRead
<1> QED BY <1>1, <1>3, <1>4

(* The control frames.                                                     *)
LEMMA ControlOps == F!Control = {"CLOSE", "PING", "PONG"}
BY DEF F!Control

(* The chunks of a working connection make a text.                         *)
LEMMA ChunksText ==
  ASSUME NEW s, Working(s)
  PROVE  s.array \in Seq(Text) /\ Chunks(s) \in Text
<1>1. s.array \in Seq(Text)
  BY DEF Working, WsType
<1> QED BY <1>1, FlatText DEF Chunks

(* The chunk of a frame is kept.                                           *)
LEMMA ChunkKept ==
  ASSUME NEW s, Working(s), NEW m \in SentType, BeforePayload(s, m)
  PROVE  FrameOK([s EXCEPT !.array = Append(@, s.f.data), !.in = "RECV_PAYLOAD"],
                 m, TRUE)
<1> DEFINE d == s.f.data
           all == Append(s.array, d)
           n == [s EXCEPT !.array = Append(@, d), !.in = "RECV_PAYLOAD"]
<1>1. s.array \in Seq(Text) /\ Chunks(s) \in Text /\ d \in Text /\ s \in WsType
  BY ChunksText DEF BeforePayload, InMessage, FrameType, Working
<1>2. all \in Seq(Text)
  BY <1>1, AppendProperties
<1>3. F!FlattenSeq(all) = Chunks(s) \o d
  BY <1>1, FlatAppend DEF Chunks
<1>4. n = [s EXCEPT !.array = all, !.in = "RECV_PAYLOAD"]
  BY <1>1 DEF WsType
<1> HIDE DEF all
<1>5. /\ n \in WsType /\ n.state = s.state /\ n.in = "RECV_PAYLOAD"
      /\ n.f = s.f /\ n.cont = s.cont /\ n.first = s.first /\ n.array = all
      /\ n.frag = s.frag /\ n.code = s.code /\ n.bad = s.bad
  <2> HIDE DEF n
  <2> QED BY <1>1, <1>2, <1>4 DEF WsType
<1> HIDE DEF n
<1>6. Working(n)
  BY <1>5 DEF Working
<1>7. m.data = Chunks(s) \o d /\ Checked(m.op, Chunks(s))
  BY DEF BeforePayload
<1>8. m.data = Chunks(n)
  BY <1>3, <1>5, <1>7 DEF Chunks
<1>9. InMessage(n, m) /\ Cuttable(n, m)
  BY <1>5 DEF BeforePayload, InMessage, Cuttable
<1>10. n.f.data = d
  BY <1>5
<1> HIDE DEF d
<1>11. WithPayload(n, m)
  BY <1>1, <1>7, <1>8, <1>9, <1>10 DEF WithPayload
<1>12. FrameOK(n, m, TRUE)
  BY <1>5, <1>6, <1>11 DEF FrameOK
<1> QED BY <1>12 DEF n, d

(* The header of a frame of a message was read.                            *)
LEMMA MessageHeader ==
  ASSUME NEW s, Working(s), NEW m \in SentType, BeforePayload(s, m)
  PROVE  FrameOK(F!nn_sws_hdrext(s), m, TRUE)
<1> DEFINE d == s.f.data
<1>1. Chunks(s) \in Text /\ d \in Text /\ s \in WsType
  BY ChunksText DEF BeforePayload, InMessage, FrameType, Working
<1>2. s.f.op \in {"TEXT", "BINARY", "FRAGMENT"}
  BY DEF BeforePayload, InMessage
<1>3. /\ s.f.op \notin F!Control /\ s.f.op # "CLOSE"
      /\ ~(s.f.op \in {"PING", "PONG"})
  BY <1>2, ControlOps
<1>4. m.data = Chunks(s) \o d /\ Checked(m.op, Chunks(s))
  BY DEF BeforePayload
<1>5. CASE d = << >>
  <2>1. F!Empty(s) = F!Whole(s)
    BY Zenon, <1>3 DEF F!Empty
  <2>2. F!nn_sws_hdrext(s) = F!Whole(s)
    BY Zenon, <1>5, <2>1 DEF F!nn_sws_hdrext
  <2>3. Chunks(s) \o << >> = Chunks(s)
    BY <1>1, ConcatEmptySeq DEF Text
  <2>4. m.data = Chunks(s) /\ Checked(m.op, m.data)
    BY <1>4, <1>5, <2>3
  <2>5. Complete(s, m)
    BY <2>4 DEF BeforePayload, Complete
  <2> QED BY <2>2, <2>5, WholeOK
<1>6. CASE d # << >>
  <2> DEFINE big == Len(F!FlattenSeq(s.array)) + Len(s.f.data) > MaxSize
  <2>1. F!nn_sws_hdrext(s) = F!Payload(s)
    BY Zenon, <1>6 DEF F!nn_sws_hdrext
  <2>2. CASE ~big
    <3>1. F!Payload(s) = [s EXCEPT !.array = Append(@, s.f.data),
                                   !.in = "RECV_PAYLOAD"]
      BY Zenon, <1>3, <2>2 DEF F!Payload
    <3> DEFINE n == [s EXCEPT !.array = Append(@, s.f.data),
                              !.in = "RECV_PAYLOAD"]
    <3>2. F!nn_sws_hdrext(s) = n
      BY Zenon, <2>1, <3>1
    <3>3. FrameOK(n, m, TRUE)
      BY Zenon, ChunkKept
    <3> HIDE DEF n
    <3> QED BY <3>2, <3>3
  <2>3. CASE big
    <3>1. F!Payload(s) = F!nn_sws_fail_conn(s, F!ERR_TOOBIG)
      BY Zenon, <1>3, <2>3 DEF F!Payload
    <3>2. Len(m.data) = Len(Chunks(s)) + Len(d)
      BY <1>1, <1>4, ConcatProperties DEF Text
    <3>3. Len(m.data) > MaxSize
      BY <2>3, <3>2 DEF Chunks
    <3>4. /\ F!ERR_TOOBIG \in Nat /\ F!ERR_TOOBIG # F!ERR_PROTO
          /\ F!ERR_TOOBIG # F!ERR_INVALID_FRAME
      BY SMT DEF F!ERR_INVALID_FRAME, F!ERR_PROTO, F!ERR_TOOBIG
    <3> DEFINE yes == TRUE
    <3> HIDE DEF yes, big, d
    <3>5. Rightly(F!ERR_TOOBIG, s.f, m, yes)
      BY Zenon, <3>3, <3>4 DEF Rightly
    <3>6. FrameOK(F!nn_sws_fail_conn(s, F!ERR_TOOBIG), m, yes)
      BY <3>4, <3>5, FailOK DEF Working
    <3> QED BY <2>1, <3>1, <3>6 DEF yes
  <2> QED BY <2>2, <2>3
<1> QED BY <1>5, <1>6

(* The header of a control frame was read.                                 *)
LEMMA ControlHeader ==
  ASSUME NEW s, Working(s), NEW m \in SentType, NEW l \in BOOLEAN,
         InControl(s, m, l)
  PROVE  FrameOK(F!nn_sws_hdrext(s), m, l)
<1>1. s.f.op \in {"PING", "PONG", "CLOSE"} /\ s \in WsType
  BY DEF InControl, Working
<1>2. s.f.op \in F!Control
  BY <1>1, ControlOps
<1>3. CASE s.f.data = << >>
  <2>1. F!nn_sws_hdrext(s) = F!Empty(s)
    BY Zenon, <1>3 DEF F!nn_sws_hdrext
  <2>2. CASE s.f.op = "CLOSE"
    <3>1. ~(s.f.op \in {"PING", "PONG"})
      BY <2>2
    <3>2. F!Empty(s) = F!nn_sws_acknowledge_close_handshake(s)
      BY Zenon, <2>2, <3>1 DEF F!Empty
    <3> QED BY <2>1, <2>2, <3>2, CloseAcknowledged
  <2>3. CASE s.f.op \in {"PING", "PONG"}
    <3>1. l = TRUE
      BY <2>3 DEF InControl
    <3>2. s.f.op # "CLOSE"
      BY <2>3
    <3>3. F!Empty(s) = [s EXCEPT !.in = "RECVD_CONTROL"]
      BY Zenon, <2>3, <3>2 DEF F!Empty
    <3> DEFINE n == [s EXCEPT !.in = "RECVD_CONTROL"]
    <3>4. F!nn_sws_hdrext(s) = n
      BY Zenon, <2>1, <3>3
    <3>5. InControl(s, m, TRUE)
      BY <3>1
    <3>6. FrameOK(n, m, TRUE)
      BY Zenon, <2>3, <3>5, PingRead
    <3> HIDE DEF n
    <3> QED BY <3>1, <3>4, <3>6
  <2> QED BY <1>1, <2>2, <2>3
<1>4. CASE s.f.data # << >>
  <2> DEFINE n == [s EXCEPT !.in = "RECV_PAYLOAD"]
  <2>1. F!nn_sws_hdrext(s) = F!Payload(s)
    BY Zenon, <1>4 DEF F!nn_sws_hdrext
  <2>2. F!Payload(s) = n
    BY Zenon, <1>2 DEF F!Payload
  <2>3. /\ n \in WsType /\ n.state = s.state /\ n.in = "RECV_PAYLOAD"
        /\ n.f = s.f /\ n.cont = s.cont /\ n.first = s.first
        /\ n.array = s.array /\ n.frag = s.frag /\ n.code = s.code
        /\ n.bad = s.bad
    BY <1>1, Goes
  <2> HIDE DEF n
  <2>4. Working(n) /\ InControl(n, m, l)
    BY <2>3 DEF Working, InControl, Between, Chunks
  <2> QED BY <2>1, <2>2, <2>3, <2>4 DEF FrameOK
<1> QED BY <1>3, <1>4

(* The extended header is read, or there is none.                          *)
LEMMA HeaderReadIs ==
  ASSUME NEW s
  PROVE  \/ F!HeaderRead(s) = [s EXCEPT !.in = "RECV_HDREXT"]
         \/ F!HeaderRead(s) = F!nn_sws_hdrext(s)
BY Zenon DEF F!HeaderRead, F!nn_sws_hdrext

(* The header of a frame of a message was read, with or without more.      *)
LEMMA MessageHeaderRead ==
  ASSUME NEW s, Working(s), NEW m \in SentType, BeforePayload(s, m)
  PROVE  FrameOK(F!HeaderRead(s), m, TRUE)
<1> DEFINE n == [s EXCEPT !.in = "RECV_HDREXT"]
<1>1. s \in WsType
  BY DEF Working
<1>2. /\ n \in WsType /\ n.state = s.state /\ n.in = "RECV_HDREXT"
      /\ n.f = s.f /\ n.cont = s.cont /\ n.first = s.first
      /\ n.array = s.array /\ n.frag = s.frag /\ n.code = s.code
      /\ n.bad = s.bad
  BY <1>1, Goes
<1>3. F!HeaderRead(s) = n \/ F!HeaderRead(s) = F!nn_sws_hdrext(s)
  BY HeaderReadIs
<1> HIDE DEF n
<1>4. Working(n)
  BY <1>2 DEF Working
<1>5. BeforePayload(n, m)
  BY <1>2 DEF BeforePayload, InMessage, Cuttable, Chunks
<1>6. FrameOK(n, m, TRUE)
  BY <1>2, <1>4, <1>5 DEF FrameOK
<1> QED BY <1>3, <1>6, MessageHeader

(* The header of a control frame was read, with or without more.           *)
LEMMA ControlHeaderRead ==
  ASSUME NEW s, Working(s), NEW m \in SentType, NEW l \in BOOLEAN,
         InControl(s, m, l)
  PROVE  FrameOK(F!HeaderRead(s), m, l)
<1> DEFINE n == [s EXCEPT !.in = "RECV_HDREXT"]
<1>1. s \in WsType
  BY DEF Working
<1>2. /\ n \in WsType /\ n.state = s.state /\ n.in = "RECV_HDREXT"
      /\ n.f = s.f /\ n.cont = s.cont /\ n.first = s.first
      /\ n.array = s.array /\ n.frag = s.frag /\ n.code = s.code
      /\ n.bad = s.bad
  BY <1>1, Goes
<1>3. F!HeaderRead(s) = n \/ F!HeaderRead(s) = F!nn_sws_hdrext(s)
  BY HeaderReadIs
<1> HIDE DEF n
<1>4. Working(n)
  BY <1>2 DEF Working
<1>5. InControl(n, m, l)
  BY <1>2 DEF InControl, Between, Chunks
<1>6. FrameOK(n, m, l)
  BY <1>2, <1>4, <1>5 DEF FrameOK
<1> QED BY <1>3, <1>6, ControlHeader

(* The frames of the peer.                                                 *)
LEMMA FramesTyped == AllFrames \subseteq FrameType
<1> DEFINE Short == {<< >>, <<3>>, <<3, 232>>, <<3, 234>>, <<3, 237>>,
                       <<3, 239, 195>>}
           A == Frames({"TEXT", "FRAGMENT"}, BOOLEAN, "SHORT", Texts)
           B == Frames({"BINARY"}, BOOLEAN, "LONG", {<< >>, <<1, 2>>})
           C == Frames({"PING"}, BOOLEAN, "SHORT", {<< >>})
           D == Frames({"PONG"}, {TRUE}, "SHORT", {<<7>>})
           E == Frames({"PONG"}, {TRUE}, "LONG", {<<7>>})
           G == Frames({"CLOSE"}, {TRUE}, "SHORT", Short)
           J == Frames({"UNUSED3"}, {TRUE}, "SHORT", {<< >>})
           k == [op |-> "TEXT", fin |-> TRUE, rsv |-> TRUE, masked |-> TRUE,
                 form |-> "SHORT", data |-> << >>]
<1>1. Texts \subseteq Text
  BY SMT DEF Texts, Text
<1>2. /\ <<1, 2>> \in Text /\ <<7>> \in Text /\ << >> \in Text
      /\ Short \subseteq Text
  BY SMT DEF Text
<1>3. AllFrames = UNION {A, B, C, D, E, G, J, {k}}
  BY Zenon DEF AllFrames
<1>4. \A Op, Fin, Data : \A form \in {"SHORT", "LONG"} :
        /\ Op \subseteq {"TEXT", "FRAGMENT", "BINARY", "PING", "PONG", "CLOSE",
                         "UNUSED3"}
        /\ Fin \subseteq BOOLEAN /\ Data \subseteq Text
        => Frames(Op, Fin, form, Data) \subseteq FrameType
  BY DEF Frames, FrameType
<1> HIDE DEF Short
<1>5. A \subseteq FrameType
  BY <1>1, <1>4
<1>6. B \subseteq FrameType
  BY <1>2, <1>4
<1>7. C \subseteq FrameType
  BY <1>2, <1>4
<1>8. D \subseteq FrameType /\ E \subseteq FrameType
  BY <1>2, <1>4
<1>9. G \subseteq FrameType
  BY <1>2, <1>4
<1>10. J \subseteq FrameType
  BY <1>2, <1>4
<1>11. k \in FrameType
  BY <1>2 DEF FrameType
<1> HIDE DEF A, B, C, D, E, G, J, k
<1> QED
  BY <1>3, <1>5, <1>6, <1>7, <1>8, <1>9, <1>10, <1>11

(* What it means that a frame is legal.                                    *)
LEMMA LegalIs ==
  ASSUME NEW f \in FrameType
  PROVE  /\ F!Legal(f) \in BOOLEAN
         /\ F!Legal(f) <=>
              /\ ~f.rsv /\ f.masked = (mode = "SERVER") /\ f.op # "UNUSED3"
              /\ f.op \in {"TEXT", "BINARY", "FRAGMENT"} =>
                   (f.op = "FRAGMENT" <=> sent.open)
              /\ f.op \in {"PING", "PONG", "CLOSE"} => f.fin /\ f.form = "SHORT"
              /\ f.op = "CLOSE" => CloseOK(f)
<1> DEFINE close == f.op = "CLOSE" /\ f.data # << >> =>
             /\ Len(f.data) >= 2 /\ F!Utf8(SubSeq(f.data, 3, Len(f.data)))
             /\ f.data[1] * 256 + f.data[2] \in CloseCodes
<1>1. F!Legal(f) = (/\ ~f.rsv
                    /\ f.masked = (mode = "SERVER")
                    /\ f.op \in F!Opcode
                    /\ f.op \notin F!Control => (f.op = "FRAGMENT" <=> sent.open)
                    /\ f.op \in F!Control => f.fin /\ f.form = "SHORT"
                    /\ close)
  BY Zenon DEF F!Legal, CloseCodes
<1>2. close <=> (f.op = "CLOSE" => CloseOK(f))
  BY DEF CloseOK
<1> HIDE DEF close
<1>3. /\ f.op \in F!Opcode <=> f.op # "UNUSED3"
      /\ f.op \in F!Control <=> f.op \in {"PING", "PONG", "CLOSE"}
      /\ f.op \notin F!Control /\ f.op # "UNUSED3" <=>
           f.op \in {"TEXT", "BINARY", "FRAGMENT"}
  BY DEF FrameType, F!Opcode, F!Control
<1> QED BY <1>1, <1>2, <1>3

(* The header of a frame: the frame, and what kind of message it is in.    *)
LEMMA FrameTaken ==
  ASSUME NEW s, Working(s), NEW f \in FrameType
  PROVE  LET n == [s EXCEPT !.f = f]
             t == [n EXCEPT !.first = IF s.cont THEN @ ELSE f.op]
         IN
         /\ n \in WsType /\ n.state = "ACTIVE" /\ ~n.bad /\ n.f = f
         /\ Working(t) /\ t.f = f /\ t.cont = s.cont /\ t.array = s.array
         /\ t.first = IF s.cont THEN s.first ELSE f.op
<1> DEFINE n == [s EXCEPT !.f = f]
           t == [n EXCEPT !.first = IF s.cont THEN @ ELSE f.op]
           k == IF s.cont THEN s.first ELSE f.op
<1>1. /\ s \in WsType /\ s.state = "ACTIVE" /\ ~s.bad /\ s.code = 0
      /\ s.frag = << >>
  BY DEF Working
<1>2. /\ n \in WsType /\ n.state = "ACTIVE" /\ ~n.bad /\ n.f = f
      /\ n.code = 0 /\ n.frag = << >> /\ n.cont = s.cont /\ n.array = s.array
      /\ n.first = s.first
  BY <1>1 DEF WsType
<1> HIDE DEF n
<1>3. k \in {"NONE", "TEXT", "FRAGMENT", "BINARY", "PING", "PONG", "CLOSE",
             "UNUSED3"}
  BY <1>1 DEF WsType, FrameType
<1>4. t = [n EXCEPT !.first = k]
  BY <1>2 DEF WsType
<1> HIDE DEF k
<1>5. /\ t \in WsType /\ t.state = "ACTIVE" /\ ~t.bad /\ t.f = f
      /\ t.code = 0 /\ t.frag = << >> /\ t.cont = s.cont /\ t.array = s.array
      /\ t.first = k
  BY <1>2, <1>3, <1>4 DEF WsType
<1>6. Working(t)
  <2> HIDE DEF t
  <2> QED BY <1>5 DEF Working
<1> QED BY <1>2, <1>5, <1>6 DEF n, k

(* A peer that broke the rules is failed for that.                         *)
LEMMA IllegalFailed ==
  ASSUME NEW s \in WsType, s.state = "ACTIVE", ~s.bad, NEW m \in SentType,
         NEW l, ~l
  PROVE  FrameOK(F!nn_sws_fail_conn(s, F!ERR_PROTO), m, l)
<1>1. /\ F!ERR_PROTO \in Nat /\ F!ERR_PROTO # F!ERR_INVALID_FRAME
      /\ F!ERR_PROTO # F!ERR_TOOBIG
  BY SMT DEF F!ERR_INVALID_FRAME, F!ERR_PROTO, F!ERR_TOOBIG
<1>2. Rightly(F!ERR_PROTO, s.f, m, l)
  BY Zenon, <1>1 DEF Rightly
<1> QED BY <1>1, <1>2, FailOK

(* is_message_continued is set.                                            *)
LEMMA ContSet ==
  ASSUME NEW t, Working(t), NEW v \in BOOLEAN
  PROVE  LET n == [t EXCEPT !.cont = v] IN
         /\ Working(n) /\ n.f = t.f /\ n.cont = v /\ n.first = t.first
         /\ n.array = t.array
<1> DEFINE n == [t EXCEPT !.cont = v]
<1>1. /\ n \in WsType /\ n.state = t.state /\ n.bad = t.bad /\ n.f = t.f
      /\ n.code = t.code /\ n.frag = t.frag /\ n.cont = v
      /\ n.array = t.array /\ n.first = t.first
  BY DEF Working, WsType
<1> HIDE DEF n
<1>2. Working(n)
  BY <1>1 DEF Working
<1> QED BY <1>1, <1>2 DEF n

(* The first frame of a message.                                           *)
LEMMA FirstFrame ==
  ASSUME NEW t, Working(t), NEW f \in FrameType, t.f = f, sent \in SentType,
         t.cont = sent.open, ~t.cont => t.array = << >>,
         ~t.cont => t.first = f.op, f.op \in {"TEXT", "BINARY"},
         ~f.rsv, f.masked = (mode = "SERVER"), ~F!EndsInside(f)
  PROVE  FrameOK(F!nn_sws_opcode(t), IF F!Legal(f) THEN F!After(f) ELSE sent,
                 F!Legal(f))
<1>1. F!Legal(f) <=> ~sent.open
  BY LegalIs
<1>2. F!nn_sws_opcode(t) = IF t.cont THEN F!nn_sws_fail_conn(t, F!ERR_PROTO)
                           ELSE F!HeaderRead([t EXCEPT !.cont = ~f.fin])
  <2>1. f.op # "FRAGMENT" /\ ~(f.op \in F!Control)
    BY ControlOps
  <2> QED BY Zenon, <2>1 DEF F!nn_sws_opcode
<1>3. CASE t.cont
  <2>1. ~F!Legal(f)
    BY <1>1, <1>3
  <2>2. F!nn_sws_opcode(t) = F!nn_sws_fail_conn(t, F!ERR_PROTO)
    BY Zenon, <1>2, <1>3
  <2> QED BY <2>1, <2>2, IllegalFailed DEF Working
<1>4. CASE ~t.cont
  <2> DEFINE n == [t EXCEPT !.cont = ~f.fin]
             m == [op |-> f.op, data |-> f.data, open |-> ~f.fin]
  <2>1. F!Legal(f) = TRUE
    BY <1>1, <1>4, LegalIs
  <2>2. F!nn_sws_opcode(t) = F!HeaderRead(n)
    BY Zenon, <1>2, <1>4
  <2>3. F!After(f) = m
    BY Zenon DEF F!After
  <2>4. m \in SentType /\ m.op = f.op /\ m.data = f.data /\ m.open = ~f.fin
    BY DEF SentType, FrameType
  <2>5. /\ Working(n) /\ n.f = f /\ n.cont = ~f.fin /\ n.first = f.op
        /\ n.array = << >>
    <3> DEFINE v == ~f.fin
    <3>1. v \in BOOLEAN
      BY DEF FrameType
    <3>2. n = [t EXCEPT !.cont = v]
      BY Zenon
    <3> HIDE DEF v, n
    <3>3. /\ Working(n) /\ n.f = t.f /\ n.cont = v /\ n.first = t.first
          /\ n.array = t.array
      BY <3>1, <3>2, ContSet
    <3> QED BY <1>4, <3>3 DEF v
  <2> HIDE DEF n, m
  <2>6. InMessage(n, m)
    BY <2>4, <2>5 DEF InMessage
  <2>7. Cuttable(n, m)
    BY <2>4, <2>5 DEF Cuttable, F!EndsInside
  <2>8. Chunks(n) = << >> /\ << >> \o f.data = f.data
    BY <2>5, FlatNothing, ConcatEmptySeq DEF Chunks, FrameType, Text
  <2>9. BeforePayload(n, m)
    BY <2>4, <2>5, <2>6, <2>7, <2>8, NothingIsUtf8 DEF BeforePayload, Checked
  <2>10. FrameOK(F!HeaderRead(n), m, TRUE)
    BY <2>4, <2>5, <2>9, MessageHeaderRead
  <2> QED BY <2>1, <2>2, <2>3, <2>10
<1> QED BY <1>3, <1>4

(* Another frame of a message.                                             *)
LEMMA NextFrame ==
  ASSUME NEW t, Working(t), NEW f \in FrameType, t.f = f, sent \in SentType,
         Between(t, sent), t.cont, f.op = "FRAGMENT",
         ~f.rsv, f.masked = (mode = "SERVER"), ~F!EndsInside(f)
  PROVE  FrameOK(F!nn_sws_opcode(t), IF F!Legal(f) THEN F!After(f) ELSE sent,
                 F!Legal(f))
<1> DEFINE n == [t EXCEPT !.cont = ~f.fin]
           m == [sent EXCEPT !.data = @ \o f.data, !.open = ~f.fin]
           d == sent.data \o f.data
<1>1. sent.open /\ t.first = sent.op /\ sent.op \in {"TEXT", "BINARY"}
      /\ Chunks(t) = sent.data /\ Checked(sent.op, sent.data)
  BY DEF Between
<1>2. F!Legal(f) = TRUE
  BY <1>1, LegalIs
<1>3. F!nn_sws_opcode(t) = F!HeaderRead(n)
  <2>1. ~(f.op \in {"TEXT", "BINARY"}) /\ ~(f.op \in F!Control)
    BY ControlOps
  <2> QED BY Zenon, <2>1 DEF F!nn_sws_opcode
<1>4. F!After(f) = m
  BY Zenon DEF F!After
<1>5. d \in Text
  BY ConcatProperties DEF SentType, FrameType, Text
<1>6. m = [sent EXCEPT !.data = d, !.open = ~f.fin]
  BY DEF SentType
<1> HIDE DEF d
<1>7. m \in SentType /\ m.op = sent.op /\ m.data = d /\ m.open = ~f.fin
  <2> HIDE DEF m
  <2> QED BY <1>5, <1>6 DEF SentType, FrameType
<1>8. /\ Working(n) /\ n.f = f /\ n.cont = ~f.fin /\ n.first = t.first
      /\ n.array = t.array
  <2> DEFINE v == ~f.fin
  <2>1. v \in BOOLEAN
    BY DEF FrameType
  <2>2. n = [t EXCEPT !.cont = v]
    BY Zenon
  <2> HIDE DEF v, n
  <2>3. /\ Working(n) /\ n.f = t.f /\ n.cont = v /\ n.first = t.first
        /\ n.array = t.array
    BY <2>1, <2>2, ContSet
  <2> QED BY <2>3 DEF v
<1> HIDE DEF n, m
<1>9. InMessage(n, m)
  BY <1>1, <1>7, <1>8 DEF InMessage
<1>10. Cuttable(n, m)
  BY <1>1, <1>7, <1>8 DEF Cuttable, F!EndsInside
<1>11. Chunks(n) = sent.data
  BY <1>1, <1>8 DEF Chunks
<1>12. BeforePayload(n, m)
  BY <1>1, <1>7, <1>8, <1>9, <1>10, <1>11 DEF BeforePayload, d
<1>13. FrameOK(F!HeaderRead(n), m, TRUE)
  BY <1>7, <1>8, <1>12, MessageHeaderRead
<1> QED BY <1>2, <1>3, <1>4, <1>13

(* A control frame between the frames of a message.                        *)
LEMMA ControlFrame ==
  ASSUME NEW t, Working(t), NEW f \in FrameType, t.f = f, sent \in SentType,
         Between(t, sent), f.op \in {"PING", "PONG", "CLOSE"},
         ~f.rsv, f.masked = (mode = "SERVER")
  PROVE  FrameOK(F!nn_sws_opcode(t), IF F!Legal(f) THEN F!After(f) ELSE sent,
                 F!Legal(f))
<1> DEFINE wrong == f.form # "SHORT" \/ ~f.fin
                       \/ (f.op = "CLOSE" /\ Len(f.data) = 1)
           l == F!Legal(f)
<1>1. l \in BOOLEAN /\ (l <=> /\ f.fin /\ f.form = "SHORT"
                              /\ f.op = "CLOSE" => CloseOK(f))
  BY LegalIs
<1>2. /\ ~(f.op \in {"TEXT", "BINARY"}) /\ f.op # "FRAGMENT"
      /\ f.op \in F!Control
  BY ControlOps
<1>3. F!nn_sws_opcode(t) = IF wrong THEN F!nn_sws_fail_conn(t, F!ERR_PROTO)
                                    ELSE F!HeaderRead(t)
  BY Zenon, <1>2 DEF F!nn_sws_opcode
<1>4. (IF l THEN F!After(f) ELSE sent) = sent
  BY Zenon, <1>2 DEF F!After
<1>5. f.op = "CLOSE" /\ Len(f.data) = 1 => ~CloseOK(f)
  <2> SUFFICES ASSUME Len(f.data) = 1 PROVE ~CloseOK(f)
    OBVIOUS
  <2>1. f.data # << >> /\ ~(Len(f.data) >= 2)
    <3>1. Len(<< >>) = 0
      OBVIOUS
    <3>2. ASSUME f.data = << >> PROVE FALSE
      <4>1. Len(f.data) = Len(<< >>)
        BY Zenon, <3>2
      <4>2. \A n : ~(n = 0 /\ n = 1)
        BY SMT
      <4> QED BY Zenon, <3>1, <4>1, <4>2
    <3> QED BY <3>2
  <2> QED BY Zenon, <2>1 DEF CloseOK
<1> HIDE DEF l
<1>6. CASE wrong
  <2>1. ~l
    BY <1>1, <1>5, <1>6
  <2>2. F!nn_sws_opcode(t) = F!nn_sws_fail_conn(t, F!ERR_PROTO)
    BY Zenon, <1>3, <1>6
  <2>3. FrameOK(F!nn_sws_opcode(t), sent, l)
    BY <2>1, <2>2, IllegalFailed DEF Working
  <2> QED BY <1>4, <2>3 DEF l
<1>7. CASE ~wrong
  <2>1. F!nn_sws_opcode(t) = F!HeaderRead(t)
    BY Zenon, <1>3, <1>7
  <2>2. InControl(t, sent, l)
    BY <1>1, <1>7 DEF InControl
  <2>3. FrameOK(F!HeaderRead(t), sent, l)
    BY <1>1, <2>2, ControlHeaderRead
  <2> QED BY <1>4, <2>1, <2>3 DEF l
<1> QED BY <1>6, <1>7

(* RECV_HDR: a frame arrives, whatever it is.                              *)
LEMMA HeaderKeeps ==
  ASSUME FrameInv, ~Cut, NEW f \in FrameType, F!RecvHdr(f)
  PROVE  FrameInv'
<1> DEFINE n == [w EXCEPT !.f = f]
           t == [n EXCEPT !.first = IF w.cont THEN @ ELSE f.op]
           l == F!Legal(f)
           m == IF F!Legal(f) THEN F!After(f) ELSE sent
           early == f.rsv \/ f.masked # (mode = "SERVER")
                      \/ (~w.cont /\ f.op = "FRAGMENT")
<1>1. /\ w.state = "ACTIVE" /\ ~w.bad /\ w.in = "RECV_HDR"
      /\ ~F!EndsInside(f)
      /\ w' = F!nn_sws_header(w, f) /\ legal' = l /\ sent' = m
  BY DEF F!RecvHdr, F!Working
<1>2. f \in FrameType
  OBVIOUS
<1>3. Working(w) /\ Between(w, sent) /\ sent \in SentType
  BY <1>1 DEF FrameInv, FrameOK
<1>4. /\ n \in WsType /\ n.state = "ACTIVE" /\ ~n.bad /\ n.f = f
      /\ Working(t) /\ t.f = f /\ t.cont = w.cont /\ t.array = w.array
      /\ t.first = IF w.cont THEN w.first ELSE f.op
  BY <1>2, <1>3, FrameTaken
<1>5. F!nn_sws_header(w, f) = IF early THEN F!nn_sws_fail_conn(n, F!ERR_PROTO)
                                       ELSE F!nn_sws_opcode(t)
  BY Zenon DEF F!nn_sws_header
<1>6. l \in BOOLEAN
  BY <1>2, LegalIs
<1>7. w.cont = sent.open
  BY <1>3 DEF Between
<1> HIDE DEF n, t
<1>8. CASE early
  <2>1. ~l
    BY <1>2, <1>7, <1>8, LegalIs
  <2>2. F!nn_sws_header(w, f) = F!nn_sws_fail_conn(n, F!ERR_PROTO)
    BY Zenon, <1>5, <1>8
  <2>3. m = sent
    BY Zenon, <2>1
  <2> HIDE DEF l, m
  <2>4. FrameOK(F!nn_sws_fail_conn(n, F!ERR_PROTO), sent, l)
    BY <1>3, <1>4, <2>1, IllegalFailed
  <2>5. FrameOK(w', sent', legal')
    BY <1>1, <2>2, <2>3, <2>4
  <2> QED BY <1>1, <1>6, <2>5 DEF FrameInv
<1>9. CASE ~early
  <2>1. F!nn_sws_header(w, f) = F!nn_sws_opcode(t)
    BY Zenon, <1>5, <1>9
  <2>2. ~f.rsv /\ f.masked = (mode = "SERVER")
    BY <1>9
  <2>3. Between(t, sent)
    BY <1>3, <1>4 DEF Between, Chunks
  <2>4. FrameOK(F!nn_sws_opcode(t), m, l)
    <3>1. CASE f.op \in {"TEXT", "BINARY"}
      <4>1. /\ t.cont = sent.open /\ (~t.cont => t.array = << >>)
            /\ (~t.cont => t.first = f.op)
        BY <1>4, <2>3 DEF Between
      <4> QED BY <1>1, <1>2, <1>3, <1>4, <2>2, <3>1, <4>1, FirstFrame
    <3>2. CASE f.op = "FRAGMENT"
      <4>1. t.cont
        BY <1>4, <1>9, <3>2
      <4> QED BY <1>1, <1>2, <1>3, <1>4, <2>2, <2>3, <3>2, <4>1, NextFrame
    <3>3. CASE f.op \in {"PING", "PONG", "CLOSE"}
      BY <1>2, <1>3, <1>4, <2>2, <2>3, <3>3, ControlFrame
    <3>4. CASE f.op = "UNUSED3"
      <4>1. ~l
        BY <1>2, <3>4, LegalIs
      <4>2. /\ ~(f.op \in {"TEXT", "BINARY"}) /\ f.op # "FRAGMENT"
            /\ ~(f.op \in F!Control)
        BY <3>4, ControlOps
      <4>3. F!nn_sws_opcode(t) = F!nn_sws_fail_conn(t, F!ERR_PROTO)
        BY Zenon, <1>4, <4>2 DEF F!nn_sws_opcode
      <4>4. m = sent
        BY Zenon, <4>1
      <4> HIDE DEF l, m
      <4>5. FrameOK(F!nn_sws_fail_conn(t, F!ERR_PROTO), sent, l)
        BY <1>3, <1>4, <4>1, IllegalFailed DEF Working
      <4> QED BY <4>3, <4>4, <4>5
    <3>5. f.op \in {"TEXT", "FRAGMENT", "BINARY", "PING", "PONG", "CLOSE",
                    "UNUSED3"}
      BY <1>2 DEF FrameType
    <3> HIDE DEF l, m
    <3> QED BY <3>1, <3>2, <3>3, <3>4, <3>5
  <2> HIDE DEF l, m
  <2>5. FrameOK(w', sent', legal')
    BY <1>1, <2>1, <2>4
  <2> QED BY <1>1, <1>6, <2>5 DEF FrameInv
<1> QED BY <1>8, <1>9

(* RECV_HDREXT.                                                            *)
LEMMA HdrExtKeeps ==
  ASSUME FrameInv, F!RecvHdrExt
  PROVE  FrameInv'
<1>1. /\ w.state = "ACTIVE" /\ w.in = "RECV_HDREXT"
      /\ w' = F!nn_sws_hdrext(w) /\ sent' = sent /\ legal' = legal
  BY DEF F!RecvHdrExt, F!Working
<1>2. sent \in SentType /\ legal \in BOOLEAN
  BY DEF FrameInv, FrameOK
<1>3. /\ Working(w)
      /\ (legal /\ BeforePayload(w, sent)) \/ InControl(w, sent, legal)
  BY <1>1 DEF FrameInv, FrameOK
<1>4. FrameOK(F!nn_sws_hdrext(w), sent, legal)
  <2>1. CASE legal /\ BeforePayload(w, sent)
    <3>1. legal = TRUE
      BY <1>2, <2>1
    <3> QED BY <1>2, <1>3, <2>1, <3>1, MessageHeader
  <2>2. CASE InControl(w, sent, legal)
    BY <1>2, <1>3, <2>2, ControlHeader
  <2> QED BY <1>3, <2>1, <2>2
<1>5. FrameOK(w', sent', legal')
  BY <1>1, <1>4
<1> QED BY <1>1, <1>2, <1>5 DEF FrameInv

(* RECV_PAYLOAD.                                                           *)
LEMMA PayloadKeeps ==
  ASSUME FrameInv, F!RecvPayload
  PROVE  FrameInv'
<1>1. /\ w.state = "ACTIVE" /\ w.in = "RECV_PAYLOAD"
      /\ w' = F!nn_sws_payload(w) /\ sent' = sent /\ legal' = legal
  BY DEF F!RecvPayload, F!Working
<1>2. sent \in SentType /\ legal \in BOOLEAN
  BY DEF FrameInv, FrameOK
<1>3. /\ Working(w)
      /\ (legal /\ WithPayload(w, sent)) \/ InControl(w, sent, legal)
  BY <1>1 DEF FrameInv, FrameOK
<1>4. FrameOK(F!nn_sws_payload(w), sent, legal)
  <2>1. CASE legal /\ WithPayload(w, sent)
    <3>1. legal = TRUE
      BY <1>2, <2>1
    <3> QED BY <1>2, <1>3, <2>1, <3>1, PayloadRead
  <2>2. CASE InControl(w, sent, legal)
    BY <1>2, <1>3, <2>2, ControlRead
  <2> QED BY <1>3, <2>1, <2>2
<1>5. FrameOK(w', sent', legal')
  BY <1>1, <1>4
<1> QED BY <1>1, <1>2, <1>5 DEF FrameInv

(* The user takes the message, or the frame is a control frame.            *)
LEMMA ReadKeeps ==
  ASSUME FrameInv, F!Recv
  PROVE  FrameInv'
<1>1. /\ w.state = "ACTIVE" /\ w.in \in {"RECVD_CHUNKED", "RECVD_CONTROL"}
      /\ w' = F!nn_sws_recv(w) /\ sent' = sent /\ legal' = legal
  BY DEF F!Recv, F!Working
<1>2. sent \in SentType /\ legal \in BOOLEAN
  BY DEF FrameInv, FrameOK
<1>3. /\ Working(w) /\ legal = TRUE
      /\ \/ w.in = "RECVD_CONTROL" /\ Between(w, sent) /\ w.f.fin
            /\ w.f.op \in {"PING", "PONG"}
         \/ w.in = "RECVD_CHUNKED" /\ Complete(w, sent) /\ w.f.fin
  BY <1>1, <1>2 DEF FrameInv, FrameOK
<1>4. CASE w.in = "RECVD_CONTROL"
  <2>1. /\ w.f.fin /\ w.f.op \in {"PING", "PONG"} /\ w.in # "RECVD_CHUNKED"
        /\ Between(w, sent)
    BY <1>3, <1>4
  <2>2. F!nn_sws_recv(w) = F!nn_sws_recv_hdr(w)
    BY Zenon, <1>4, <2>1 DEF F!nn_sws_recv
  <2>3. FrameOK(F!nn_sws_recv_hdr(w), sent, TRUE)
    BY <1>2, <1>3, <2>1, RecvHdrOK
  <2>4. FrameOK(w', sent', legal')
    BY <1>1, <1>3, <2>2, <2>3
  <2> QED BY <1>1, <1>2, <2>4 DEF FrameInv
<1>5. CASE w.in = "RECVD_CHUNKED"
  <2> DEFINE n == [w EXCEPT !.array = << >>, !.cont = FALSE]
  <2>1. Complete(w, sent) /\ w.f.fin /\ w.in # "RECVD_CONTROL"
    BY <1>3, <1>5
  <2>2. w.first \in {"TEXT", "BINARY"} /\ ~sent.open
    BY <2>1 DEF Complete, InMessage
  <2>3. F!nn_sws_recv(w) = F!nn_sws_recv_hdr(n)
    BY Zenon, <1>5, <2>1, <2>2 DEF F!nn_sws_recv
  <2>4. << >> \in Seq(Text)
    BY EmptySeq
  <2>5. /\ n \in WsType /\ n.state = w.state /\ n.bad = w.bad
        /\ n.code = w.code /\ n.frag = w.frag /\ n.cont = FALSE
        /\ n.array = << >>
    BY <1>3, <2>4 DEF Working, WsType
  <2> HIDE DEF n
  <2>6. Working(n)
    BY <1>3, <2>5 DEF Working
  <2>7. Between(n, sent)
    BY <1>2, <2>2, <2>5 DEF Between, SentType
  <2>8. FrameOK(F!nn_sws_recv_hdr(n), sent, TRUE)
    BY <1>2, <2>6, <2>7, RecvHdrOK
  <2>9. FrameOK(w', sent', legal')
    BY <1>1, <1>3, <2>3, <2>8
  <2> QED BY <1>1, <1>2, <2>9 DEF FrameInv
<1> QED BY <1>1, <1>4, <1>5

(* Before the first frame nothing is kept.                                 *)
LEMMA FrameStart ==
  ASSUME F!Init
  PROVE  FrameInv
<1>1. w = F!nn_sws_init /\ sent = F!Nothing /\ legal = TRUE
  BY DEF F!Init
<1>2. << >> \in Seq(Text) /\ << >> \in Text
  BY EmptySeq DEF Text
<1>3. Working(w) /\ w.in = "RECV_HDR" /\ ~w.cont /\ w.array = << >>
  BY <1>1, <1>2 DEF F!nn_sws_init, Working, WsType
<1>4. sent \in SentType /\ ~sent.open
  BY <1>1, <1>2 DEF F!Nothing, SentType
<1>5. Between(w, sent)
  BY <1>1, <1>3, <1>4 DEF Between, F!nn_sws_init, F!Nothing
<1> QED BY <1>1, <1>3, <1>4, <1>5 DEF FrameInv, FrameOK

(* FrameInv is an invariant of the composition.                            *)
LEMMA FramesKept ==
  ASSUME ~Cut
  PROVE  Spec => []FrameInv
<1>1. ASSUME Init
      PROVE  FrameInv
  BY <1>1, FrameStart DEF Init
<1>2. ASSUME FrameInv, [Next]_vars
      PROVE  FrameInv'
  <2>1. F!Next \/ UNCHANGED framing
    BY <1>2 DEF Next, Stream, Websocket, Inproc, Framing, Opening, vars
  <2>2. CASE UNCHANGED framing
    <3>1. w' = w /\ sent' = sent /\ legal' = legal
      BY <2>2 DEF framing
    <3>2. FrameOK(w, sent, legal) /\ legal \in BOOLEAN
      BY <1>2 DEF FrameInv
    <3>3. FrameOK(w', sent', legal') /\ legal' \in BOOLEAN
      BY <3>1, <3>2
    <3> QED BY <3>3 DEF FrameInv
  <2>3. CASE F!Next
    <3>1. CASE \E f \in AllFrames : F!RecvHdr(f)
      BY <1>2, <3>1, FramesTyped, HeaderKeeps
    <3>2. CASE F!RecvHdrExt \/ F!RecvPayload \/ F!Recv
      BY <1>2, <3>2, HdrExtKeeps, PayloadKeeps, ReadKeeps
    <3> QED BY <2>3, <3>1, <3>2 DEF F!Next
  <2> QED BY <2>1, <2>2, <2>3
<1> QED BY <1>1, <1>2, PTL DEF Spec

(* The invariant says what is to be shown of the messages and of the peer. *)
LEMMA FramesTransfer ==
  ASSUME FrameInv
  PROVE  F!MessagesWhole /\ F!FailedRightly
<1>1. FrameOK(w, sent, legal)
  BY DEF FrameInv
<1>2. w.state = "CLOSING" \/ Working(w)
  BY <1>1 DEF FrameOK
<1>3. CASE w.state = "CLOSING"
  <2>1. /\ w.in = "CLOSED" /\ ~w.bad /\ Rightly(w.code, w.f, sent, legal)
    BY <1>1, <1>3 DEF FrameOK, Working
  <2>2. F!MessagesWhole
    BY <2>1 DEF F!MessagesWhole
  <2>3. F!FailedRightly
    BY <1>3, <2>1 DEF F!FailedRightly, Rightly
  <2> QED BY <2>2, <2>3
<1>4. CASE Working(w)
  <2>1. /\ ~w.bad /\ w.code = 0
    BY <1>4 DEF Working
  <2>2. F!ERR_PROTO # 0 /\ F!ERR_INVALID_FRAME # 0 /\ F!ERR_TOOBIG # 0
    BY SMT DEF F!ERR_INVALID_FRAME, F!ERR_PROTO, F!ERR_TOOBIG
  <2>3. ~legal => w.f.op = "CLOSE"
    BY <1>1, <1>4 DEF FrameOK, Working, InControl
  <2>4. w.in = "RECVD_CHUNKED" => Complete(w, sent) /\ w.f.fin
    BY <1>1, <1>4 DEF FrameOK, Working
  <2>5. F!MessagesWhole
    BY <2>1, <2>4 DEF F!MessagesWhole, Complete, InMessage, Chunks
  <2>6. w.in = "RECVD_CHUNKED" /\ sent.op = "TEXT" => F!Utf8(sent.data)
    BY <2>4 DEF Complete, Checked
  <2>7. F!FailedRightly
    BY Zenon, <2>1, <2>2, <2>3, <2>6 DEF F!FailedRightly
  <2> QED BY <2>5, <2>7
<1> QED BY <1>2, <1>3, <1>4

(* Frames of a ws connection: whatever frames come, a message is given to  *)
(* the user whole and as it was sent, with control frames between its      *)
(* frames or not; a text is delivered if and only if it is UTF-8; and a    *)
(* peer is failed only for what it did (nn_sws_handler,                    *)
(* nn_sws_validate_utf8_chunk), if no frame of text ends inside a code     *)
(* point.                                                                  *)
THEOREM FramesAreExact ==
  ASSUME ~Cut
  PROVE  Spec => [](started = "frames" => Transferred)
<1>1. FrameInv => (started = "frames" => Transferred)
  BY FramesTransfer DEF Transferred
<1> QED
  BY <1>1, FramesKept, PTL
=============================================================================
