---------------------------- MODULE ReqRepProofs ----------------------------
(***************************************************************************)
(* Proofs about the request/reply protocol, for any number of REQ and REP  *)
(* sockets, pipes between them, priorities and requests: the state machine *)
(* of req.c meets no action it has no case for, and its user never gets    *)
(* the reply to another request than its last one.                         *)
(***************************************************************************)
EXTENDS ReqRep, PrioListProofs

(* The pipes join a REQ and a REP socket.                                  *)
Wired ==
  /\ SLOTS \in Nat /\ SLOTS >= 1 /\ Cap \in Nat /\ Cap >= 1
  /\ Pipe \subseteq Req \X Rep /\ NoPipe \notin Pipe
  /\ \A x \in Pipe : SndPrio[x] \in Prio

-----------------------------------------------------------------------------
(* The invariant                                                           *)

(* The requests of socket q, and the replies to them.                      *)
MsgOf(q) == {[id |-> n, body |-> <<q, n>>] : n \in Nat}

Outgoing(q) == {x \in Pipe : x[1] = q}
Incoming(p) == {x \in Pipe : x[2] = p}

(* A pipe carries requests of its REQ socket, and when it is up only.      *)
NetOK(u, c) ==
  /\ u \in [Pipe -> BOOLEAN] /\ DOMAIN c = Pipe
  /\ \A x \in Pipe : /\ c[x] \in Seq(MsgOf(x[1]))
                     /\ ~u[x] => c[x] = << >>

BackOK(d) == DOMAIN d = Pipe /\ \A x \in Pipe : d[x] \in Seq(MsgOf(x[1]))

(* The load balancer of q has pipes of q that are up and have room.        *)
ListFor(l, q, u, c) ==
  /\ ListOK(l, Outgoing(q))
  /\ \A i \in Prio : \A x \in Elements(l.pipes[i]) :
       i = SndPrio[x] /\ u[x] /\ Len(c[x]) < Cap

(* The fair queue of p has pipes of p that are up and hold a request.      *)
QueueFor(f, p, u, c) ==
  /\ ListOK(f, Incoming(p))
  /\ \A i \in Prio : \A x \in Elements(f.pipes[i]) :
       i = 1 /\ u[x] /\ c[x] # << >>

ListsOK(l, u, c) ==
  DOMAIN l = Req /\ \A q \in Req : ListFor(l[q], q, u, c)

QueuesOK(f, u, c) ==
  DOMAIN f = Rep /\ \A p \in Rep : QueueFor(f[p], p, u, c)

(* A key names one pipe for ever: what a REP socket has stored with it is  *)
(* of the REQ socket at the other end of the pipe that has this key now.   *)
KeysOK(u, k, r) ==
  /\ DOMAIN k = Pipe /\ DOMAIN r = Rep
  /\ \A p \in Rep :
       /\ DOMAIN r[p] = {"next_key", "inprogress", "key", "msg"}
       /\ r[p].next_key \in Nat
       /\ r[p].inprogress =>
            /\ r[p].key \in Nat /\ r[p].key < r[p].next_key
            /\ \A x \in Incoming(p) :
                 u[x] /\ k[x] = r[p].key => r[p].msg \in MsgOf(x[1])
  /\ \A x \in Pipe : u[x] => k[x] \in Nat /\ k[x] < r[x[2]].next_key
  /\ \A x, y \in Pipe :
       u[x] /\ u[y] /\ x[2] = y[2] /\ k[x] = k[y] => x = y

TimerStates == {"TIMED_OUT", "CANCELLING", "STOPPING_TIMER", "STOPPING"}

(* A REQ socket: its timer and the pipe it remembers agree with its state, *)
(* and the reply of a request that is done is its own.                     *)
ReqOK(q, r) ==
  /\ DOMAIN r = {"state", "id", "sent_to", "reply", "timer", "closing"}
  /\ r.state \in TimerStates \cup {"PASSIVE", "DELAYED", "ACTIVE", "DONE",
                                   "IDLE"}
  /\ r.id \in Nat
  /\ r.timer \in {"idle", "active", "stopping"}
  /\ r.timer = "active" <=> r.state = "ACTIVE"
  /\ r.sent_to # NoPipe <=> r.state = "ACTIVE"
  /\ r.state \in TimerStates => r.timer = "stopping"
  /\ r.state \in {"STOPPING_TIMER", "DONE"} /\ r.reply.id > 0
       => r.reply.body = <<q, r.id>>

ReqsOK(r, u) ==
  /\ DOMAIN r = Req
  /\ \A q \in Req :
       /\ ReqOK(q, r[q])
       /\ r[q].state = "ACTIVE" => r[q].sent_to \in Outgoing(q)
                                   /\ u[r[q].sent_to]

ReqInv ==
  /\ NetOK(up, toRep) /\ BackOK(toReq)
  /\ ListsOK(lb, up, toRep) /\ QueuesOK(inpipes, up, toRep)
  /\ KeysOK(up, outkey, rep) /\ ReqsOK(req, up)
-----------------------------------------------------------------------------
(* Messages and lists                                                      *)

(* A request goes out over the pipe whose turn it is.                      *)
LEMMA SendOver ==
  ASSUME Wired, NEW q \in Req, NEW l, NEW u, NEW c, ListFor(l, q, u, c),
         NetOK(u, c), nn_priolist_is_active(l), NEW m \in MsgOf(q),
         NEW y, y = nn_priolist_getpipe(l),
         NEW c2, DOMAIN c2 = Pipe, y \in Pipe => c2[y] = Append(c[y], m),
         \A x \in Pipe : x # y => c2[x] = c[x],
         NEW full \in BOOLEAN, full <=> Len(c[y]) + 1 = Cap,
         NEW l2, l2 = nn_priolist_advance(l, full)
  PROVE  /\ y \in Outgoing(q) /\ u[y] /\ y # NoPipe
         /\ NetOK(u, c2) /\ ListFor(l2, q, u, c2)
         /\ c2[y] # << >> /\ \A x \in Pipe : x # y => c2[x] = c[x]
<1> DEFINE b == Append(c[y], m)
<1>1. SLOTS \in Nat /\ ListOK(l, Outgoing(q)) /\ NoPipe \notin Outgoing(q)
  BY DEF Wired, ListFor, Outgoing
<1>2. /\ l.current \in Prio /\ y = l.turn[l.current]
      /\ y \in Elements(l.pipes[l.current]) /\ y \in Outgoing(q)
  BY <1>1, TurnOK
<1>3. y \in Pipe /\ y[1] = q /\ u[y] /\ Len(c[y]) < Cap
      /\ l.current = SndPrio[y]
  BY <1>2 DEF ListFor, Outgoing
<1>4. c[y] \in Seq(MsgOf(q)) /\ Len(c[y]) \in Nat /\ DOMAIN c = Pipe
  BY <1>3, LenProperties DEF NetOK
<1>5. b \in Seq(MsgOf(q)) /\ Len(b) = Len(c[y]) + 1 /\ b # << >>
  BY <1>4, AppendProperties
<1>6. /\ c2[y] = b /\ \A x \in Pipe : x # y => c2[x] = c[x]
      /\ DOMAIN c2 = Pipe
  BY <1>3, <1>4
<1>7. NetOK(u, c2)
  BY <1>3, <1>5, <1>6 DEF NetOK
<1>8. /\ ListOK(l2, Outgoing(q))
      /\ \A j \in Prio : Elements(l2.pipes[j])
           = IF full /\ j = l.current THEN Elements(l.pipes[j]) \ {y}
                                      ELSE Elements(l.pipes[j])
  BY <1>1, <1>2, AdvanceOK
<1> HIDE DEF b
<1>9. ASSUME NEW i \in Prio, NEW x \in Elements(l2.pipes[i])
      PROVE  i = SndPrio[x] /\ u[x] /\ Len(c2[x]) < Cap
  <2>1. x \in Elements(l.pipes[i])
    BY <1>8, <1>9
  <2>2. i = SndPrio[x] /\ u[x] /\ Len(c[x]) < Cap
    BY <2>1 DEF ListFor
  <2>3. x \in Pipe
    BY <2>1, <1>1, MemberOf DEF Outgoing
  <2>4. CASE x # y
    BY <2>2, <2>3, <2>4, <1>6
  <2>5. CASE x = y
    <3>1. i = l.current
      BY <2>2, <2>5, <1>3
    <3>2. ~full
      BY <3>1, <2>5, <1>8, <1>9
    <3>3. Cap \in Nat
      BY DEF Wired
    <3>4. QED
      BY <3>2, <3>3, <2>2, <2>5, <1>3, <1>4, <1>5, <1>6
  <2>6. QED
    BY <2>4, <2>5
<1>10. ListFor(l2, q, u, c2)
  BY <1>8, <1>9 DEF ListFor
<1>11. y # NoPipe
  BY <1>1, <1>2
<1>12. QED
  BY <1>2, <1>3, <1>5, <1>6, <1>7, <1>10, <1>11 DEF b

(* One load balancer changes, and the pipes of its socket.                 *)
LEMMA OneList ==
  ASSUME NEW ls, NEW u, NEW c, ListsOK(ls, u, c), NEW q \in Req, NEW l,
         NEW u2, NEW c2, ListFor(l, q, u2, c2),
         \A x \in Pipe : x[1] # q => u2[x] = u[x] /\ c2[x] = c[x]
  PROVE  ListsOK([ls EXCEPT ![q] = l], u2, c2)
<1> DEFINE n == [ls EXCEPT ![q] = l]
<1>1. DOMAIN n = Req /\ n[q] = l /\ \A k \in Req : k # q => n[k] = ls[k]
  BY DEF ListsOK
<1> HIDE DEF n
<1>2. ASSUME NEW k \in Req, k # q
      PROVE  ListFor(n[k], k, u2, c2)
  <2>1. ListFor(ls[k], k, u, c) /\ n[k] = ls[k]
    BY <1>1, <1>2 DEF ListsOK
  <2>2. ASSUME NEW i \in Prio, NEW x \in Elements(ls[k].pipes[i])
        PROVE  i = SndPrio[x] /\ u2[x] /\ Len(c2[x]) < Cap
    <3>1. i = SndPrio[x] /\ u[x] /\ Len(c[x]) < Cap
      BY <2>1, <2>2 DEF ListFor
    <3>2. x \in Pipe /\ x[1] = k
      BY <2>1, <2>2, MemberOf DEF ListFor, Outgoing
    <3>3. QED
      BY <3>1, <3>2, <1>2
  <2>3. QED
    BY <2>1, <2>2 DEF ListFor
<1>3. QED
  BY <1>1, <1>2 DEF ListsOK, n

(* No list changes, and channels grow no longer.                           *)
LEMMA SameLists ==
  ASSUME NEW ls, NEW u, NEW c, ListsOK(ls, u, c), NEW c2,
         \A x \in Pipe : Len(c[x]) < Cap => Len(c2[x]) < Cap
  PROVE  ListsOK(ls, u, c2)
<1>1. ASSUME NEW q \in Req, NEW i \in Prio,
             NEW x \in Elements(ls[q].pipes[i])
      PROVE  i = SndPrio[x] /\ u[x] /\ Len(c2[x]) < Cap
  <2>1. i = SndPrio[x] /\ u[x] /\ Len(c[x]) < Cap
    BY <1>1 DEF ListFor, ListsOK
  <2>2. x \in Pipe
    <3>1. ListOK(ls[q], Outgoing(q))
      BY DEF ListsOK, ListFor
    <3>2. QED
      BY <1>1, <3>1, MemberOf DEF Outgoing
  <2>3. QED
    BY <2>1, <2>2
<1>2. QED
  BY <1>1 DEF ListFor, ListsOK

(* One fair queue changes; the pipes of the others keep their requests.    *)
LEMMA OneQueue ==
  ASSUME NEW fs, NEW u, NEW c, QueuesOK(fs, u, c), NEW p \in Rep, NEW f,
         NEW u2, NEW c2, QueueFor(f, p, u2, c2),
         \A x \in Pipe : x[2] # p => /\ u[x] => u2[x]
                                     /\ c[x] # << >> => c2[x] # << >>
  PROVE  QueuesOK([fs EXCEPT ![p] = f], u2, c2)
<1> DEFINE n == [fs EXCEPT ![p] = f]
<1>1. DOMAIN n = Rep /\ n[p] = f /\ \A k \in Rep : k # p => n[k] = fs[k]
  BY DEF QueuesOK
<1> HIDE DEF n
<1>2. ASSUME NEW k \in Rep, k # p
      PROVE  QueueFor(n[k], k, u2, c2)
  <2>1. QueueFor(fs[k], k, u, c) /\ n[k] = fs[k]
    BY <1>1, <1>2 DEF QueuesOK
  <2>2. ASSUME NEW i \in Prio, NEW x \in Elements(fs[k].pipes[i])
        PROVE  i = 1 /\ u2[x] /\ c2[x] # << >>
    <3>1. i = 1 /\ u[x] /\ c[x] # << >>
      BY <2>1, <2>2 DEF QueueFor
    <3>2. x \in Pipe /\ x[2] = k
      BY <2>1, <2>2, MemberOf DEF QueueFor, Incoming
    <3>3. QED
      BY <3>1, <3>2, <1>2
  <2>3. QED
    BY <2>1, <2>2 DEF QueueFor
<1>3. QED
  BY <1>1, <1>2 DEF QueuesOK, n

(* No queue changes, and every pipe keeps a request.                       *)
LEMMA SameQueues ==
  ASSUME NEW fs, NEW u, NEW c, QueuesOK(fs, u, c), NEW u2, NEW c2,
         \A x \in Pipe : /\ u[x] => u2[x]
                         /\ c[x] # << >> => c2[x] # << >>
  PROVE  QueuesOK(fs, u2, c2)
<1>1. ASSUME NEW p \in Rep, NEW i \in Prio,
             NEW x \in Elements(fs[p].pipes[i])
      PROVE  i = 1 /\ u2[x] /\ c2[x] # << >>
  <2>1. i = 1 /\ u[x] /\ c[x] # << >>
    BY <1>1 DEF QueueFor, QueuesOK
  <2>2. x \in Pipe
    <3>1. ListOK(fs[p], Incoming(p))
      BY DEF QueuesOK, QueueFor
    <3>2. QED
      BY <1>1, <3>1, MemberOf DEF Incoming
  <2>3. QED
    BY <2>1, <2>2
<1>2. QED
  BY <1>1 DEF QueueFor, QueuesOK

(* One REQ socket changes.                                                 *)
LEMMA OneReq ==
  ASSUME NEW rs, NEW u, ReqsOK(rs, u), NEW q \in Req, NEW r, ReqOK(q, r),
         r.state = "ACTIVE" => r.sent_to \in Outgoing(q) /\ u[r.sent_to]
  PROVE  ReqsOK([rs EXCEPT ![q] = r], u)
<1> DEFINE n == [rs EXCEPT ![q] = r]
<1>1. DOMAIN n = Req /\ n[q] = r /\ \A k \in Req : k # q => n[k] = rs[k]
  BY DEF ReqsOK
<1> HIDE DEF n
<1>2. QED
  BY <1>1 DEF ReqsOK, n
-----------------------------------------------------------------------------
(* The state machine of a REQ socket                                       *)

(* The request a socket sends is one of its own.                           *)
LEMMA OwnMessage ==
  ASSUME NEW q, NEW n \in Nat
  PROVE  [id |-> n, body |-> <<q, n>>] \in MsgOf(q)
BY DEF MsgOf

(* nn_req_action_send sends or delays.                                     *)
LEMMA SentOK ==
  ASSUME Wired, ReqInv, NEW q \in Req, NEW r,
         DOMAIN r = {"state", "id", "sent_to", "reply", "timer", "closing"},
         r.id \in Nat, r.timer \in {"idle", "stopping"},
         r.sent_to = NoPipe, req' = [req EXCEPT ![q] = Sent(q, r)],
         nn_lb_send(q, r)
  PROVE  /\ NetOK(up, toRep') /\ ListsOK(lb', up, toRep')
         /\ QueuesOK(inpipes, up, toRep') /\ ReqsOK(req', up)
<1> DEFINE l == lb[q]
           y == nn_priolist_getpipe(l)
           m == [id |-> r.id, body |-> <<q, r.id>>]
           c2 == [toRep EXCEPT ![y] = Append(@, m)]
           full == Len(toRep[y]) + 1 = Cap
           l2 == nn_priolist_advance(l, full)
           s == Sent(q, r)
<1>1. /\ NetOK(up, toRep) /\ ListsOK(lb, up, toRep)
      /\ QueuesOK(inpipes, up, toRep) /\ ReqsOK(req, up)
      /\ ListFor(l, q, up, toRep)
  BY DEF ReqInv, ListsOK
<1>2. CASE CanSend(q)
  <2>1. nn_priolist_is_active(l) /\ m \in MsgOf(q)
    BY <1>2, OwnMessage DEF CanSend
  <2> HIDE DEF m, l
  <2>12. /\ y = nn_priolist_getpipe(l)
         /\ DOMAIN c2 = Pipe
         /\ y \in Pipe => c2[y] = Append(toRep[y], m)
         /\ \A x \in Pipe : x # y => c2[x] = toRep[x]
         /\ full \in BOOLEAN /\ (full <=> Len(toRep[y]) + 1 = Cap)
         /\ l2 = nn_priolist_advance(l, full)
    BY <1>1 DEF NetOK
  <2> HIDE DEF y, c2, l2, full
  <2>2. /\ y \in Outgoing(q) /\ up[y] /\ y # NoPipe
        /\ NetOK(up, c2) /\ ListFor(l2, q, up, c2)
        /\ c2[y] # << >> /\ \A x \in Pipe : x # y => c2[x] = toRep[x]
    BY <1>1, <2>1, <2>12, SendOver
  <2>3. toRep' = c2 /\ lb' = [lb EXCEPT ![q] = l2]
    BY <1>2 DEF nn_lb_send, m, l, y, c2, full, l2
  <2>4. s = [r EXCEPT !.state = "ACTIVE", !.timer = "active", !.sent_to = y]
    BY <1>2 DEF Sent, l, y
  <2>5. /\ DOMAIN s = DOMAIN r /\ s.state = "ACTIVE" /\ s.timer = "active"
        /\ s.sent_to = y /\ s.id = r.id
    BY <2>4
  <2> HIDE DEF s
  <2>6. ReqOK(q, s)
    BY <2>2, <2>5 DEF ReqOK, TimerStates
  <2>7. ReqsOK([req EXCEPT ![q] = s], up)
    BY <1>1, <2>2, <2>5, <2>6, OneReq
  <2>8. \A x \in Pipe : x[1] # q => c2[x] = toRep[x]
    BY <2>2 DEF Outgoing
  <2>9. ListsOK([lb EXCEPT ![q] = l2], up, c2)
    BY <1>1, <2>2, <2>8, OneList
  <2>10. QueuesOK(inpipes, up, c2)
    BY <1>1, <2>2, SameQueues
  <2>11. QED
    BY <2>2, <2>3, <2>7, <2>9, <2>10 DEF s
<1>3. CASE ~CanSend(q)
  <2>1. toRep' = toRep /\ lb' = lb
    BY <1>3 DEF nn_lb_send
  <2>2. s = [r EXCEPT !.state = "DELAYED"]
    BY <1>3 DEF Sent
  <2>3. /\ DOMAIN s = DOMAIN r /\ s.state = "DELAYED" /\ s.timer = r.timer
        /\ s.sent_to = NoPipe /\ s.id = r.id
    BY <2>2
  <2> HIDE DEF s
  <2>4. ReqOK(q, s) /\ s.state # "ACTIVE"
    BY <2>3 DEF ReqOK, TimerStates
  <2>5. ReqsOK([req EXCEPT ![q] = s], up)
    BY <1>1, <2>4, OneReq
  <2>6. QED
    BY <1>1, <2>1, <2>5 DEF s
<1>4. QED
  BY <1>2, <1>3

(* Leaving the state ACTIVE, by a timeout, a reply, a new request or the   *)
(* loss of the pipe.                                                       *)
LEMMA LeaveOK ==
  ASSUME NEW q, NEW r, NEW w,
         DOMAIN r = {"state", "id", "sent_to", "reply", "timer", "closing"},
         r.id \in Nat, r.timer = "active",
         w \in {"TIMED_OUT", "CANCELLING", "STOPPING_TIMER"},
         w = "STOPPING_TIMER" => r.reply.body = <<q, r.id>>
  PROVE  ReqOK(q, LeaveActive(r, w)) /\ LeaveActive(r, w).state # "ACTIVE"
<1> DEFINE t == StopTimer(r)
           s == LeaveActive(r, w)
<1>1. /\ DOMAIN t = DOMAIN r /\ t.timer = "stopping" /\ t.id = r.id
      /\ t.reply = r.reply
  BY DEF StopTimer
<1>2. s = [t EXCEPT !.state = w, !.sent_to = NoPipe]
  BY DEF LeaveActive
<1> HIDE DEF t
<1>3. /\ DOMAIN s = DOMAIN r /\ s.state = w /\ s.sent_to = NoPipe
      /\ s.timer = "stopping" /\ s.id = r.id /\ s.reply = r.reply
  BY <1>1, <1>2
<1> HIDE DEF s
<1>4. QED
  BY <1>3 DEF ReqOK, TimerStates, s

(* Only REQ sockets change, one of them, and none becomes active.          *)
LEMMA OnlyReq ==
  ASSUME ReqInv, NEW q \in Req, NEW r, ReqOK(q, r),
         r.state = "ACTIVE" => r.sent_to = req[q].sent_to
                               /\ req[q].state = "ACTIVE"
  PROVE  ReqsOK([req EXCEPT ![q] = r], up)
<1>1. ReqsOK(req, up)
  BY DEF ReqInv
<1>2. r.state = "ACTIVE" => r.sent_to \in Outgoing(q) /\ up[r.sent_to]
  BY <1>1 DEF ReqsOK
<1>3. QED
  BY <1>1, <1>2, OneReq

(* A new request keeps the invariant.                                      *)
LEMMA SendStep ==
  ASSUME Wired, ReqInv, NEW q \in Req, nn_req_csend(q)
  PROVE  ReqInv'
<1> DEFINE r == [req[q] EXCEPT !.id = @ + 1]
<1>1. ReqOK(q, req[q])
  BY DEF ReqInv, ReqsOK
<1>2. /\ DOMAIN r = {"state", "id", "sent_to", "reply", "timer", "closing"}
      /\ r.id = req[q].id + 1 /\ r.id \in Nat /\ r.state = req[q].state
      /\ r.timer = req[q].timer /\ r.sent_to = req[q].sent_to
      /\ r.reply = req[q].reply
  BY <1>1 DEF ReqOK
<1>3. /\ up' = up /\ toReq' = toReq /\ outkey' = outkey
      /\ inpipes' = inpipes /\ rep' = rep /\ ActionSent(q, r)
  BY DEF nn_req_csend, repVars
<1> HIDE DEF r
<1>4. CASE /\ r.state \in {"PASSIVE", "DONE"}
           /\ req' = [req EXCEPT ![q] = Sent(q, r)] /\ nn_lb_send(q, r)
  <2>1. r.timer \in {"idle", "stopping"} /\ r.sent_to = NoPipe
    BY <1>1, <1>2, <1>4 DEF ReqOK
  <2>2. /\ NetOK(up, toRep') /\ ListsOK(lb', up, toRep')
        /\ QueuesOK(inpipes, up, toRep') /\ ReqsOK(req', up)
    BY <2>1, <1>2, <1>4, SentOK
  <2>3. QED
    BY <2>2, <1>3 DEF ReqInv
<1>5. CASE /\ r.state \in {"DELAYED", "CANCELLING"}
           /\ req' = [req EXCEPT ![q] = r] /\ UNCHANGED <<toRep, lb>>
  <2>1. ReqOK(q, r) /\ r.state # "ACTIVE"
    BY <1>1, <1>2, <1>5 DEF ReqOK, TimerStates
  <2>2. ReqsOK(req', up)
    BY <2>1, <1>5, OnlyReq
  <2>3. QED
    BY <2>2, <1>3, <1>5 DEF ReqInv
<1>6. CASE /\ r.state \in {"TIMED_OUT", "STOPPING_TIMER"}
           /\ req' = [req EXCEPT ![q] = [r EXCEPT !.state = "CANCELLING"]]
           /\ UNCHANGED <<toRep, lb>>
  <2> DEFINE s == [r EXCEPT !.state = "CANCELLING"]
  <2>1. /\ DOMAIN s = DOMAIN r /\ s.id = r.id /\ s.timer = r.timer
        /\ s.sent_to = r.sent_to /\ s.reply = r.reply
        /\ s.state = "CANCELLING"
    BY <1>2
  <2> HIDE DEF s
  <2>2. ReqOK(q, s) /\ s.state # "ACTIVE"
    BY <2>1, <1>1, <1>2, <1>6 DEF ReqOK, TimerStates
  <2>3. ReqsOK([req EXCEPT ![q] = s], up)
    BY <2>2, OnlyReq
  <2>4. QED
    BY <2>3, <1>3, <1>6 DEF ReqInv, s
<1>7. CASE /\ r.state = "ACTIVE"
           /\ req' = [req EXCEPT ![q] = LeaveActive(r, "CANCELLING")]
           /\ UNCHANGED <<toRep, lb>>
  <2> DEFINE s == LeaveActive(r, "CANCELLING")
  <2>1. r.timer = "active"
    BY <1>1, <1>2, <1>7 DEF ReqOK
  <2>2. ReqOK(q, s) /\ s.state # "ACTIVE"
    BY <2>1, <1>2, LeaveOK
  <2>3. ReqsOK([req EXCEPT ![q] = s], up)
    BY <2>2, OnlyReq
  <2>4. QED
    BY <2>3, <1>3, <1>7 DEF ReqInv
<1>8. QED
  BY <1>3, <1>4, <1>5, <1>6, <1>7 DEF ActionSent

(* Receiving a reply keeps the invariant.                                  *)
LEMMA RecvStep ==
  ASSUME Wired, ReqInv, NEW q \in Req, nn_req_crecv(q)
  PROVE  ReqInv'
<1> DEFINE s == [req[q] EXCEPT !.reply = None, !.state = "PASSIVE"]
<1>1. ReqOK(q, req[q]) /\ req[q].state = "DONE"
  BY DEF ReqInv, ReqsOK, nn_req_crecv
<1>2. /\ DOMAIN s = DOMAIN req[q] /\ s.id = req[q].id
      /\ s.timer = req[q].timer /\ s.sent_to = req[q].sent_to
      /\ s.state = "PASSIVE"
  BY <1>1 DEF ReqOK
<1>3. req' = [req EXCEPT ![q] = s]
  BY <1>1 DEF nn_req_crecv, ReqInv, ReqsOK
<1> HIDE DEF s
<1>4. ReqOK(q, s) /\ s.state # "ACTIVE"
  BY <1>1, <1>2 DEF ReqOK, TimerStates
<1>5. ReqsOK(req', up)
  BY <1>3, <1>4, OnlyReq
<1>6. QED
  BY <1>5 DEF ReqInv, nn_req_crecv, repVars

(* A timeout keeps the invariant: it comes in the state ACTIVE only.       *)
LEMMA TimeoutStep ==
  ASSUME Wired, ReqInv, NEW q \in Req, Timeout(q)
  PROVE  ReqInv'
<1> DEFINE s == LeaveActive(req[q], "TIMED_OUT")
<1>1. ReqOK(q, req[q]) /\ req[q].timer = "active"
  BY DEF ReqInv, ReqsOK, Timeout
<1>2. req' = [req EXCEPT ![q] = s]
  BY <1>1 DEF Timeout, ReqOK, ReqInv, ReqsOK
<1>3. ReqOK(q, s) /\ s.state # "ACTIVE"
  BY <1>1, LeaveOK DEF ReqOK
<1> HIDE DEF s
<1>4. ReqsOK(req', up)
  BY <1>2, <1>3, OnlyReq
<1>5. QED
  BY <1>4 DEF ReqInv, Timeout, repVars

(* What a socket becomes whose timer has stopped, or is stopped.           *)
LEMMA ShutdownOK ==
  ASSUME NEW q, NEW r,
         DOMAIN r = {"state", "id", "sent_to", "reply", "timer", "closing"},
         r.id \in Nat, r.timer \in {"idle", "stopping"}, r.sent_to = NoPipe
  PROVE  /\ ReqOK(q, nn_req_shutdown(r))
         /\ nn_req_shutdown(r).state # "ACTIVE"
<1> DEFINE s == nn_req_shutdown(r)
<1>1. /\ DOMAIN s = DOMAIN r /\ s.id = r.id /\ s.timer = r.timer
      /\ s.sent_to = r.sent_to
      /\ s.state = IF r.timer = "idle" THEN "IDLE" ELSE "STOPPING"
  BY DEF nn_req_shutdown
<1> HIDE DEF s
<1>2. QED
  BY <1>1 DEF ReqOK, TimerStates, s

(* The end of a timer keeps the invariant.                                 *)
LEMMA StoppedStep ==
  ASSUME Wired, ReqInv, NEW q \in Req, TimerStopped(q)
  PROVE  ReqInv'
<1> DEFINE r == [req[q] EXCEPT !.timer = "idle"]
<1>1. ReqOK(q, req[q]) /\ req[q].timer = "stopping"
  BY DEF ReqInv, ReqsOK, TimerStopped
<1>2. /\ DOMAIN r = {"state", "id", "sent_to", "reply", "timer", "closing"}
      /\ r.id = req[q].id /\ r.id \in Nat /\ r.state = req[q].state
      /\ r.timer = "idle" /\ r.sent_to = req[q].sent_to
      /\ r.reply = req[q].reply
  BY <1>1 DEF ReqOK
<1>3. r.sent_to = NoPipe
  BY <1>1, <1>2 DEF ReqOK
<1>4. /\ up' = up /\ toReq' = toReq /\ outkey' = outkey
      /\ inpipes' = inpipes /\ rep' = rep
  BY DEF TimerStopped, repVars
<1>5. \/ /\ r.state \in {"TIMED_OUT", "CANCELLING"}
         /\ req' = [req EXCEPT ![q] = Sent(q, r)]
         /\ nn_lb_send(q, r)
      \/ /\ r.state = "STOPPING_TIMER"
         /\ req' = [req EXCEPT ![q] = [r EXCEPT !.state = "DONE"]]
         /\ UNCHANGED <<toRep, lb>>
      \/ /\ r.state = "STOPPING"
         /\ req' = [req EXCEPT ![q] = nn_req_shutdown(r)]
         /\ UNCHANGED <<toRep, lb>>
  BY DEF TimerStopped
<1> HIDE DEF r
<1>6. CASE /\ req' = [req EXCEPT ![q] = Sent(q, r)] /\ nn_lb_send(q, r)
  <2>1. /\ NetOK(up, toRep') /\ ListsOK(lb', up, toRep')
        /\ QueuesOK(inpipes, up, toRep') /\ ReqsOK(req', up)
    BY <1>2, <1>3, <1>6, SentOK
  <2>2. QED
    BY <2>1, <1>4 DEF ReqInv
<1>7. CASE /\ r.state = "STOPPING_TIMER"
           /\ req' = [req EXCEPT ![q] = [r EXCEPT !.state = "DONE"]]
           /\ UNCHANGED <<toRep, lb>>
  <2> DEFINE s == [r EXCEPT !.state = "DONE"]
  <2>1. /\ DOMAIN s = DOMAIN r /\ s.id = r.id /\ s.timer = r.timer
        /\ s.sent_to = r.sent_to /\ s.reply = r.reply
        /\ s.state = "DONE"
    BY <1>2
  <2> HIDE DEF s
  <2>2. ReqOK(q, s) /\ s.state # "ACTIVE"
    BY <2>1, <1>1, <1>2, <1>3, <1>7 DEF ReqOK, TimerStates
  <2>3. ReqsOK([req EXCEPT ![q] = s], up)
    BY <2>2, OnlyReq
  <2>4. QED
    BY <2>3, <1>4, <1>7 DEF ReqInv, s
<1>8. CASE /\ req' = [req EXCEPT ![q] = nn_req_shutdown(r)]
           /\ UNCHANGED <<toRep, lb>>
  <2> DEFINE s == nn_req_shutdown(r)
  <2>1. ReqOK(q, s) /\ s.state # "ACTIVE"
    BY <1>2, <1>3, ShutdownOK
  <2>2. ReqsOK([req EXCEPT ![q] = s], up)
    BY <2>1, OnlyReq
  <2>3. QED
    BY <2>2, <1>4, <1>8 DEF ReqInv
<1>9. QED
  BY <1>5, <1>6, <1>7, <1>8

(* Closing, which the core sees first, keeps the invariant.                *)
LEMMA CloseStep ==
  ASSUME Wired, ReqInv, NEW q \in Req, Close(q)
  PROVE  ReqInv'
<1> DEFINE s == [req[q] EXCEPT !.closing = TRUE]
<1>1. ReqOK(q, req[q])
  BY DEF ReqInv, ReqsOK
<1>2. /\ DOMAIN s = DOMAIN req[q] /\ s.id = req[q].id
      /\ s.timer = req[q].timer /\ s.sent_to = req[q].sent_to
      /\ s.state = req[q].state /\ s.reply = req[q].reply
  BY <1>1 DEF ReqOK
<1>3. req' = [req EXCEPT ![q] = s]
  BY DEF Close, ReqInv, ReqsOK
<1> HIDE DEF s
<1>4. ReqOK(q, s)
  BY <1>1, <1>2 DEF ReqOK
<1>5. ReqsOK(req', up)
  BY <1>2, <1>3, <1>4, OnlyReq
<1>6. QED
  BY <1>5 DEF ReqInv, Close, repVars

(* Stopping keeps the invariant: without pipes no request is out.          *)
LEMMA StopStep ==
  ASSUME Wired, ReqInv, NEW q \in Req, nn_req_stop(q)
  PROVE  ReqInv'
<1> DEFINE t == StopTimer(req[q])
           s == nn_req_shutdown(t)
<1>1. ReqOK(q, req[q]) /\ req[q].state # "ACTIVE"
  BY DEF ReqInv, ReqsOK, nn_req_stop, Outgoing
<1>2. /\ DOMAIN t = {"state", "id", "sent_to", "reply", "timer", "closing"}
      /\ t.id \in Nat /\ t.timer = req[q].timer /\ t.sent_to = NoPipe
      /\ t.timer \in {"idle", "stopping"}
  BY <1>1 DEF ReqOK, StopTimer
<1>3. req' = [req EXCEPT ![q] = s]
  BY DEF nn_req_stop, ReqInv, ReqsOK
<1> HIDE DEF t
<1>4. ReqOK(q, s) /\ s.state # "ACTIVE"
  BY <1>2, ShutdownOK
<1> HIDE DEF s
<1>5. ReqsOK(req', up)
  BY <1>3, <1>4, OnlyReq
<1>6. QED
  BY <1>5 DEF ReqInv, nn_req_stop, repVars
-----------------------------------------------------------------------------
(* Pipes                                                                   *)

(* A pipe that can take a message is activated.                            *)
LEMMA ActivateFor ==
  ASSUME Wired, NEW x \in Pipe, NEW u, NEW c, u[x], Len(c[x]) < Cap,
         NEW pl, ListFor(pl, x[1], u, c), ~IsActive(pl, x, SndPrio[x]),
         NEW l, l = nn_priolist_activate(pl, x, SndPrio[x])
  PROVE  ListFor(l, x[1], u, c) /\ nn_priolist_is_active(l)
<1>1. /\ SLOTS \in Nat /\ SndPrio[x] \in Prio /\ x \in Outgoing(x[1])
      /\ x # NoPipe /\ ListOK(pl, Outgoing(x[1]))
  BY DEF Wired, Outgoing, ListFor
<1>2. /\ ListOK(l, Outgoing(x[1])) /\ nn_priolist_is_active(l)
      /\ \A j \in Prio : Elements(l.pipes[j])
           = IF j = SndPrio[x] THEN Elements(pl.pipes[j]) \cup {x}
                               ELSE Elements(pl.pipes[j])
  <2> DEFINE S == Outgoing(x[1])
             i == SndPrio[x]
             a == nn_priolist_activate(pl, x, i)
  <2>1. /\ SLOTS \in Nat /\ i \in Prio /\ x \in S /\ x # NoPipe
        /\ ListOK(pl, S) /\ ~IsActive(pl, x, i)
    BY <1>1
  <2> HIDE DEF S, i
  <2>2. /\ ListOK(a, S) /\ nn_priolist_is_active(a)
        /\ \A j \in Prio : Elements(a.pipes[j])
             = IF j = i THEN Elements(pl.pipes[j]) \cup {x}
                        ELSE Elements(pl.pipes[j])
    BY <2>1, ActivateOK
  <2>3. QED
    BY <2>2 DEF S, i
<1>3. ASSUME NEW i \in Prio, NEW z \in Elements(l.pipes[i])
      PROVE  i = SndPrio[z] /\ u[z] /\ Len(c[z]) < Cap
  <2>1. CASE z \in Elements(pl.pipes[i])
    BY <2>1 DEF ListFor
  <2>2. CASE z = x /\ i = SndPrio[x]
    BY <2>2
  <2>3. QED
    BY <2>1, <2>2, <1>2, <1>3
<1>4. QED
  BY <1>2, <1>3 DEF ListFor

(* What nn_req_out makes of the sockets rs, the load balancers ls and the  *)
(* channels c.                                                             *)
OutRel(x, rs, ls, c, rs2, ls2, c2) ==
  LET q == x[1]
      l == nn_priolist_activate(ls[q], x, SndPrio[x])
      y == nn_priolist_getpipe(l)
      m == [id |-> rs[q].id, body |-> <<q, rs[q].id>>] IN
  IF rs[q].state = "DELAYED"
    THEN /\ rs2 = [rs EXCEPT ![q].state = "ACTIVE", ![q].timer = "active",
                             ![q].sent_to = y]
         /\ c2 = [c EXCEPT ![y] = Append(@, m)]
         /\ ls2 = [ls EXCEPT ![q] =
                     nn_priolist_advance(l, Len(c[y]) + 1 = Cap)]
    ELSE ls2 = [ls EXCEPT ![q] = l] /\ c2 = c /\ rs2 = rs

(* nn_req_out keeps the invariant: a delayed request goes out.             *)
LEMMA OutOK ==
  ASSUME Wired, NEW x \in Pipe, NEW u, NEW c, NetOK(u, c), u[x],
         NEW ls, NEW rs, Len(c[x]) < Cap, ListsOK(ls, u, c), ReqsOK(rs, u),
         ~IsActive(ls[x[1]], x, SndPrio[x]),
         NEW rs2, NEW ls2, NEW cc, OutRel(x, rs, ls, c, rs2, ls2, cc)
  PROVE  /\ NetOK(u, cc) /\ ListsOK(ls2, u, cc) /\ ReqsOK(rs2, u)
         /\ \A z \in Pipe : c[z] # << >> => cc[z] # << >>
<1> DEFINE q == x[1]
           l == nn_priolist_activate(ls[q], x, SndPrio[x])
           y == nn_priolist_getpipe(l)
           m == [id |-> rs[q].id, body |-> <<q, rs[q].id>>]
           c2 == [c EXCEPT ![y] = Append(@, m)]
           full == Len(c[y]) + 1 = Cap
           l2 == nn_priolist_advance(l, full)
           s == [rs[q] EXCEPT !.state = "ACTIVE", !.timer = "active",
                               !.sent_to = y]
<1>1. q \in Req
  BY DEF Wired
<1>2. ReqOK(q, rs[q]) /\ DOMAIN rs = Req
  BY <1>1 DEF ReqsOK
<1>3. ListFor(ls[q], q, u, c)
  BY <1>1 DEF ListsOK
<1>4. ListFor(l, q, u, c) /\ nn_priolist_is_active(l)
  BY <1>3, ActivateFor
<1>5. m \in MsgOf(q)
  BY <1>2, OwnMessage DEF ReqOK
<1>6. CASE rs[q].state = "DELAYED"
  <2>1. /\ rs2 = [rs EXCEPT ![q] = s] /\ cc = c2
        /\ ls2 = [ls EXCEPT ![q] = l2]
    BY <1>1, <1>2, <1>6 DEF OutRel
  <2>2. /\ y = nn_priolist_getpipe(l)
        /\ DOMAIN c2 = Pipe
        /\ y \in Pipe => c2[y] = Append(c[y], m)
        /\ \A z \in Pipe : z # y => c2[z] = c[z]
        /\ full \in BOOLEAN /\ (full <=> Len(c[y]) + 1 = Cap)
        /\ l2 = nn_priolist_advance(l, full)
    BY DEF NetOK
  <2>3. /\ DOMAIN s = DOMAIN rs[q] /\ s.state = "ACTIVE"
        /\ s.timer = "active" /\ s.sent_to = y /\ s.id = rs[q].id
    BY <1>2 DEF ReqOK
  <2> HIDE DEF m, l, y, c2, full, l2, s
  <2>4. /\ y \in Outgoing(q) /\ u[y] /\ y # NoPipe
        /\ NetOK(u, c2) /\ ListFor(l2, q, u, c2)
        /\ c2[y] # << >> /\ \A z \in Pipe : z # y => c2[z] = c[z]
    BY <1>1, <1>4, <1>5, <2>2, SendOver
  <2>5. ReqOK(q, s)
    BY <2>3, <2>4, <1>2 DEF ReqOK, TimerStates
  <2>6. ReqsOK([rs EXCEPT ![q] = s], u)
    BY <1>1, <2>3, <2>4, <2>5, OneReq
  <2>7. \A z \in Pipe : z[1] # q => c2[z] = c[z]
    BY <2>4 DEF Outgoing
  <2>8. ListsOK([ls EXCEPT ![q] = l2], u, c2)
    BY <1>1, <2>4, <2>7, OneList
  <2>9. \A z \in Pipe : c[z] # << >> => c2[z] # << >>
    BY <2>4
  <2>10. QED
    BY <2>1, <2>4, <2>6, <2>8, <2>9
<1>7. CASE rs[q].state # "DELAYED"
  <2>1. rs2 = rs /\ cc = c /\ ls2 = [ls EXCEPT ![q] = l]
    BY <1>7 DEF OutRel
  <2> HIDE DEF l
  <2>2. ListsOK([ls EXCEPT ![q] = l], u, c)
    BY <1>1, <1>4, OneList
  <2>3. QED
    BY <2>1, <2>2
<1>8. QED
  BY <1>6, <1>7

(* A pipe that is down, or full, is in no load balancer.                   *)
LEMMA NotListed ==
  ASSUME Wired, NEW u, NEW c, ListsOK(lb, u, c), NEW x \in Pipe,
         ~u[x] \/ ~(Len(c[x]) < Cap)
  PROVE  ~IsActive(lb[x[1]], x, SndPrio[x])
<1>1. x[1] \in Req /\ SndPrio[x] \in Prio
  BY DEF Wired
<1>2. QED
  BY <1>1 DEF ListsOK, ListFor, IsActive

(* A pipe coming up keeps the invariant.                                   *)
LEMMA UpStep ==
  ASSUME Wired, ReqInv, NEW x \in Pipe, PipeUp(x)
  PROVE  ReqInv'
<1> DEFINE p == x[2]
<1>1. p \in Rep /\ x[1] \in Req /\ Cap \in Nat /\ Cap >= 1
  BY DEF Wired
<1>2. /\ ~up[x] /\ up' = [up EXCEPT ![x] = TRUE] /\ nn_xrep_add(x)
      /\ nn_req_out(x, lb[x[1]], toRep)
      /\ toReq' = toReq /\ inpipes' = inpipes
  BY DEF PipeUp
<1>3. /\ NetOK(up, toRep) /\ ListsOK(lb, up, toRep) /\ BackOK(toReq)
      /\ QueuesOK(inpipes, up, toRep) /\ ReqsOK(req, up)
      /\ KeysOK(up, outkey, rep)
  BY DEF ReqInv
<1>4. /\ up' \in [Pipe -> BOOLEAN] /\ up'[x]
      /\ \A z \in Pipe : z # x => up'[z] = up[z]
      /\ \A z \in Pipe : up[z] => up'[z]
  BY <1>2, <1>3 DEF NetOK
<1>5. NetOK(up', toRep) /\ toRep[x] = << >>
  BY <1>2, <1>3, <1>4 DEF NetOK
<1>6. Len(toRep[x]) < Cap
  BY <1>1, <1>5
<1>7. ListsOK(lb, up', toRep)
  <2>1. ASSUME NEW q \in Req, NEW i \in Prio,
               NEW z \in Elements(lb[q].pipes[i])
        PROVE  i = SndPrio[z] /\ up'[z] /\ Len(toRep[z]) < Cap
    <3>1. i = SndPrio[z] /\ up[z] /\ Len(toRep[z]) < Cap
          /\ ListOK(lb[q], Outgoing(q))
      BY <1>3 DEF ListsOK, ListFor
    <3>2. z \in Outgoing(q)
      BY <3>1, MemberOf
    <3>3. QED
      BY <3>1, <3>2, <1>4 DEF Outgoing
  <2>2. QED
    BY <2>1, <1>3 DEF ListsOK, ListFor
<1>8. ReqsOK(req, up')
  BY <1>3, <1>4 DEF ReqsOK, Outgoing
<1>9. ~IsActive(lb[x[1]], x, SndPrio[x])
  BY <1>2, <1>3, NotListed
<1>15. OutRel(x, req, lb, toRep, req', lb', toRep')
  BY <1>2 DEF nn_req_out, OutRel
<1>10. /\ NetOK(up', toRep') /\ ListsOK(lb', up', toRep')
       /\ ReqsOK(req', up')
       /\ \A z \in Pipe : toRep[z] # << >> => toRep'[z] # << >>
  BY <1>4, <1>5, <1>6, <1>7, <1>8, <1>9, <1>15, OutOK
<1>11. QueuesOK(inpipes', up', toRep')
  BY <1>2, <1>3, <1>4, <1>10, SameQueues
<1>12. KeysOK(up', outkey', rep')
  <2> DEFINE n == rep[p].next_key
             t == [rep[p] EXCEPT !.next_key = n + 1]
  <2>1. DOMAIN outkey = Pipe /\ DOMAIN rep = Rep /\ n \in Nat
        /\ DOMAIN rep[p] = {"next_key", "inprogress", "key", "msg"}
    BY <1>1, <1>3 DEF KeysOK
  <2>2. outkey' = [outkey EXCEPT ![x] = n] /\ rep' = [rep EXCEPT ![p] = t]
    BY <1>2, <2>1 DEF nn_xrep_add
  <2>3. /\ DOMAIN t = {"next_key", "inprogress", "key", "msg"}
        /\ t.next_key = n + 1 /\ t.inprogress = rep[p].inprogress
        /\ t.key = rep[p].key /\ t.msg = rep[p].msg
    BY <2>1
  <2>4. /\ DOMAIN outkey' = Pipe /\ DOMAIN rep' = Rep
        /\ outkey'[x] = n /\ rep'[p] = t
        /\ \A z \in Pipe : z # x => outkey'[z] = outkey[z]
        /\ \A k \in Rep : k # p => rep'[k] = rep[k]
    BY <1>1, <2>1, <2>2
  <2> HIDE DEF n, t
  <2>5. ASSUME NEW k \in Rep
        PROVE  /\ DOMAIN rep'[k] = {"next_key", "inprogress", "key", "msg"}
               /\ rep'[k].next_key \in Nat
               /\ rep'[k].inprogress = rep[k].inprogress
               /\ rep'[k].key = rep[k].key /\ rep'[k].msg = rep[k].msg
               /\ rep[k].next_key \in Nat
               /\ rep[k].next_key <= rep'[k].next_key
    <3>1. CASE k = p
      BY <3>1, <2>1, <2>3, <2>4 DEF n
    <3>2. CASE k # p
      BY <3>2, <2>4, <1>3 DEF KeysOK
    <3>3. QED
      BY <3>1, <3>2
  <2>6. ASSUME NEW k \in Rep, rep'[k].inprogress
        PROVE  /\ rep'[k].key \in Nat /\ rep'[k].key < rep'[k].next_key
               /\ \A z \in Incoming(k) :
                    up'[z] /\ outkey'[z] = rep'[k].key
                      => rep'[k].msg \in MsgOf(z[1])
    <3>1. /\ rep[k].key \in Nat /\ rep[k].key < rep[k].next_key
          /\ \A z \in Incoming(k) : up[z] /\ outkey[z] = rep[k].key
                                      => rep[k].msg \in MsgOf(z[1])
      BY <2>5, <2>6, <1>3 DEF KeysOK
    <3>2. rep'[k].key \in Nat /\ rep'[k].key < rep'[k].next_key
      BY <3>1, <2>5
    <3>3. ASSUME NEW z \in Incoming(k), up'[z],
                 outkey'[z] = rep'[k].key
          PROVE  rep'[k].msg \in MsgOf(z[1])
      <4>1. CASE z = x
        <5>1. k = p /\ outkey'[z] = n
          BY <4>1, <2>4, <3>3 DEF Incoming
        <5>2. rep[k].key = rep[k].next_key
          BY <5>1, <3>3, <2>5 DEF n
        <5>3. QED
          BY <5>2, <3>1, <2>5
      <4>2. CASE z # x
        BY <4>2, <3>1, <3>3, <2>4, <2>5, <1>4 DEF Incoming
      <4>3. QED
        BY <4>1, <4>2
    <3>4. QED
      BY <3>2, <3>3
  <2>7. ASSUME NEW z \in Pipe, up'[z]
        PROVE  outkey'[z] \in Nat /\ outkey'[z] < rep'[z[2]].next_key
    <3>1. z[2] \in Rep
      BY DEF Wired
    <3>2. CASE z = x
      BY <3>2, <2>1, <2>3, <2>4
    <3>3. CASE z # x
      <4>1. up[z] /\ outkey'[z] = outkey[z]
        BY <3>3, <2>4, <2>7, <1>4
      <4>2. outkey[z] \in Nat /\ outkey[z] < rep[z[2]].next_key
        BY <4>1, <1>3 DEF KeysOK
      <4>3. QED
        BY <4>1, <4>2, <3>1, <2>5
    <3>4. QED
      BY <3>2, <3>3
  <2>8. ASSUME NEW z \in Pipe, up[z], z[2] = p
        PROVE  outkey[z] # n
    BY <2>8, <1>3, <2>1 DEF KeysOK, n
  <2>9. ASSUME NEW z \in Pipe, NEW w \in Pipe, up'[z], up'[w],
               z[2] = w[2], outkey'[z] = outkey'[w]
        PROVE  z = w
    <3>1. CASE z # x /\ w # x
      BY <3>1, <2>4, <2>9, <1>3, <1>4 DEF KeysOK
    <3>2. CASE z = x /\ w # x
      BY <3>2, <2>4, <2>8, <2>9, <1>4
    <3>3. CASE z # x /\ w = x
      BY <3>3, <2>4, <2>8, <2>9, <1>4
    <3>4. QED
      BY <3>1, <3>2, <3>3
  <2>10. QED
    BY <2>4, <2>5, <2>6, <2>7, <2>9 DEF KeysOK
<1>13. BackOK(toReq')
  BY <1>2, <1>3
<1>14. QED
  BY <1>10, <1>11, <1>12, <1>13 DEF ReqInv
(* A pipe that goes down leaves the load balancer.                         *)
LEMMA RmFor ==
  ASSUME Wired, NEW x \in Pipe, NEW q, NEW u, NEW c, NEW u2,
         NEW c2,
         \A z \in Pipe : z # x /\ u[z] => u2[z],
         \A z \in Pipe : z # x => c2[z] = c[z],
         NEW pl, ListFor(pl, q, u, c),
         NEW k \in Prio,
         \A i \in Prio : x \in Elements(pl.pipes[i]) => i = k,
         NEW l, l = nn_priolist_rm(pl, x, k)
  PROVE  ListFor(l, q, u2, c2)
<1> DEFINE S == Outgoing(q)
           a == nn_priolist_rm(pl, x, k)
<1>1. SLOTS \in Nat /\ k \in Prio /\ NoPipe \notin S /\ ListOK(pl, S)
  BY DEF Wired, Outgoing, ListFor
<1> HIDE DEF S
<1>2. /\ ListOK(a, S)
      /\ \A j \in Prio : Elements(a.pipes[j])
           = IF j = k THEN Elements(pl.pipes[j]) \ {x}
                      ELSE Elements(pl.pipes[j])
  BY <1>1, RmOK
<1> HIDE DEF a
<1>3. ASSUME NEW i \in Prio, NEW z \in Elements(a.pipes[i])
      PROVE  i = SndPrio[z] /\ u2[z] /\ Len(c2[z]) < Cap
  <2>1. z \in Elements(pl.pipes[i]) /\ (i = k => z # x)
    BY <1>2, <1>3
  <2>2. i = SndPrio[z] /\ u[z] /\ Len(c[z]) < Cap
    BY <2>1 DEF ListFor
  <2>3. z # x
    BY <2>1
  <2>4. z \in S
    BY <2>1, <1>1, MemberOf
  <2>5. QED
    BY <2>2, <2>3, <2>4 DEF S, Outgoing
<1>4. QED
  BY <1>2, <1>3 DEF ListFor, a, S

(* And the fair queue.                                                     *)
LEMMA RmQueue ==
  ASSUME Wired, NEW x \in Pipe, NEW p, NEW u, NEW c, NEW u2,
         NEW c2,
         \A z \in Pipe : z # x /\ u[z] => u2[z],
         \A z \in Pipe : z # x => c2[z] = c[z],
         NEW f, QueueFor(f, p, u, c),
         NEW o \in Prio,
         \A i \in Prio : x \in Elements(f.pipes[i]) => i = o,
         NEW g, g = nn_priolist_rm(f, x, o)
  PROVE  QueueFor(g, p, u2, c2)
<1> DEFINE S == Incoming(p)
           a == nn_priolist_rm(f, x, o)
<1>1. SLOTS \in Nat /\ o \in Prio /\ NoPipe \notin S /\ ListOK(f, S)
  BY DEF Wired, Incoming, QueueFor, Prio
<1> HIDE DEF S
<1>2. /\ ListOK(a, S)
      /\ \A j \in Prio : Elements(a.pipes[j])
           = IF j = o THEN Elements(f.pipes[j]) \ {x}
                      ELSE Elements(f.pipes[j])
  BY <1>1, RmOK
<1> HIDE DEF a
<1>3. ASSUME NEW i \in Prio, NEW z \in Elements(a.pipes[i])
      PROVE  i = 1 /\ u2[z] /\ c2[z] # << >>
  <2>1. z \in Elements(f.pipes[i]) /\ (i = o => z # x)
    BY <1>2, <1>3
  <2>2. i = 1 /\ u[z] /\ c[z] # << >>
    BY <2>1 DEF QueueFor
  <2>3. z # x
    BY <2>1
  <2>4. z \in S
    BY <2>1, <1>1, MemberOf
  <2>5. QED
    BY <2>2, <2>3, <2>4 DEF S, Incoming
<1>4. QED
  BY <1>2, <1>3 DEF QueueFor, a, S

(* The loss of a pipe keeps the invariant: a request that went out over it *)
(* is active, and times out.                                               *)
LEMMA DownStep ==
  ASSUME Wired, ReqInv, NEW x \in Pipe, PipeDown(x)
  PROVE  ReqInv'
<1> DEFINE p == x[2]
           q == x[1]
           k == SndPrio[x]
           o == 1
           l == nn_priolist_rm(lb[q], x, k)
           f == nn_priolist_rm(inpipes[p], x, o)
           s == nn_req_rm(x, req[q])
<1>1. p \in Rep /\ q \in Req /\ x # NoPipe
  BY DEF Wired
<1>2. /\ NetOK(up, toRep) /\ ListsOK(lb, up, toRep) /\ BackOK(toReq)
      /\ QueuesOK(inpipes, up, toRep) /\ ReqsOK(req, up)
      /\ KeysOK(up, outkey, rep)
  BY DEF ReqInv
<1>3. /\ up' = [up EXCEPT ![x] = FALSE]
      /\ toRep' = [toRep EXCEPT ![x] = << >>]
      /\ toReq' = [toReq EXCEPT ![x] = << >>]
      /\ outkey' = [outkey EXCEPT ![x] = 0] /\ rep' = rep
      /\ inpipes' = [inpipes EXCEPT ![p] = f]
      /\ lb' = [lb EXCEPT ![q] = l]
      /\ req' = [req EXCEPT ![q] = s]
  BY DEF PipeDown, nn_xrep_rm, nn_xreq_rm
<1>4. /\ up' \in [Pipe -> BOOLEAN] /\ ~up'[x]
      /\ \A z \in Pipe : z # x => up'[z] = up[z] /\ toRep'[z] = toRep[z]
      /\ toRep'[x] = << >> /\ DOMAIN toRep' = Pipe
  BY <1>2, <1>3 DEF NetOK
<1>16. \A t : << >> \in Seq(MsgOf(t))
  BY EmptySeq
<1>5. NetOK(up', toRep')
  <2>1. ASSUME NEW z \in Pipe
        PROVE  toRep'[z] \in Seq(MsgOf(z[1])) /\ (~up'[z] => toRep'[z] = << >>)
    <3>1. CASE z = x
      BY <3>1, <1>4, <1>16
    <3>2. CASE z # x
      BY <3>2, <1>2, <1>4 DEF NetOK
    <3>3. QED
      BY <3>1, <3>2
  <2>2. QED
    BY <2>1, <1>4 DEF NetOK
<1>6. BackOK(toReq')
  BY <1>2, <1>3, <1>16 DEF BackOK
<1>17. q = x[1] /\ p = x[2]
  OBVIOUS
<1>19. l = nn_priolist_rm(lb[q], x, k)
  OBVIOUS
<1>20. f = nn_priolist_rm(inpipes[p], x, o)
  OBVIOUS
<1> HIDE DEF l, f, q, p, k, o
<1>18. /\ \A z \in Pipe : z # x /\ up[z] => up'[z]
       /\ \A z \in Pipe : z # x => toRep'[z] = toRep[z]
  BY <1>4
<1>7. ListFor(l, q, up', toRep')
  <2>1. ListFor(lb[q], q, up, toRep)
    BY <1>1, <1>2 DEF ListsOK
  <2>2. k \in Prio /\ \A i \in Prio : x \in Elements(lb[q].pipes[i]) => i = k
    BY <2>1 DEF ListFor, Wired, k
  <2>3. QED
    BY <2>1, <2>2, <1>18, <1>19, RmFor
<1>8. QueueFor(f, p, up', toRep')
  <2>1. QueueFor(inpipes[p], p, up, toRep)
    BY <1>1, <1>2 DEF QueuesOK
  <2>2. o \in Prio
    BY DEF Wired, o, Prio
  <2>3. \A i \in Prio : x \in Elements(inpipes[p].pipes[i]) => i = o
    BY <2>1 DEF QueueFor, o
  <2>4. QED
    BY <2>1, <2>2, <2>3, <1>18, <1>20, RmQueue
<1>9. ListsOK(lb', up', toRep')
  <2>1. \A z \in Pipe : z[1] # q => up'[z] = up[z] /\ toRep'[z] = toRep[z]
    BY <1>4 DEF q, p
  <2>2. QED
    <3> DEFINE n == [lb EXCEPT ![q] = l]
    <3>1. lb' = n
      BY <1>3
    <3>2. ListsOK(n, up', toRep')
      BY <1>1, <1>2, <1>7, <2>1, OneList
    <3>3. QED
      BY <3>1, <3>2
<1>10. QueuesOK(inpipes', up', toRep')
  <2>1. \A z \in Pipe : z[2] # p => /\ up[z] => up'[z]
                                    /\ toRep[z] # << >> => toRep'[z] # << >>
    BY <1>4 DEF q, p
  <2>2. QED
    <3> DEFINE n == [inpipes EXCEPT ![p] = f]
    <3>1. inpipes' = n
      BY <1>3
    <3>2. QueuesOK(n, up', toRep')
      BY <1>1, <1>2, <1>8, <2>1, OneQueue
    <3>3. QED
      BY <3>1, <3>2
<1>11. KeysOK(up', outkey', rep')
  <2>1. /\ DOMAIN outkey' = Pipe
        /\ \A z \in Pipe : up'[z] => up[z] /\ outkey'[z] = outkey[z]
    BY <1>2, <1>3, <1>4 DEF KeysOK
  <2>2. ASSUME NEW j \in Rep, NEW z \in Incoming(j), rep[j].inprogress,
               up'[z], outkey'[z] = rep[j].key
        PROVE  rep[j].msg \in MsgOf(z[1])
    BY <2>1, <2>2, <1>2 DEF KeysOK, Incoming
  <2>3. QED
    BY <2>1, <2>2, <1>2, <1>3 DEF KeysOK
<1>12. ReqOK(q, req[q]) /\ DOMAIN req = Req
  BY <1>1, <1>2 DEF ReqsOK
<1>13. /\ ReqOK(q, s)
       /\ s.state = "ACTIVE" => s.sent_to \in Outgoing(q) /\ up'[s.sent_to]
  <2>1. CASE req[q].sent_to # x
    <3>1. s = req[q]
      BY <2>1 DEF nn_req_rm
    <3>2. req[q].state = "ACTIVE" => req[q].sent_to \in Outgoing(q)
                                     /\ up[req[q].sent_to]
      BY <1>1, <1>2 DEF ReqsOK
    <3>3. QED
      BY <2>1, <3>1, <3>2, <1>4, <1>12 DEF Outgoing
  <2>2. CASE req[q].sent_to = x
    <3>1. req[q].state = "ACTIVE" /\ req[q].timer = "active"
      BY <2>2, <1>1, <1>12 DEF ReqOK
    <3>2. s = LeaveActive(req[q], "TIMED_OUT")
      BY <2>2, <3>1 DEF nn_req_rm
    <3>3. /\ DOMAIN req[q] = {"state", "id", "sent_to", "reply", "timer",
                              "closing"}
          /\ req[q].id \in Nat
      BY <1>12 DEF ReqOK
    <3>4. ReqOK(q, LeaveActive(req[q], "TIMED_OUT"))
          /\ LeaveActive(req[q], "TIMED_OUT").state # "ACTIVE"
      BY <3>1, <3>3, LeaveOK
    <3>5. QED
      BY <3>2, <3>4
  <2>3. QED
    BY <2>1, <2>2
<1> HIDE DEF s
<1>14. ReqsOK(req', up')
  <2>1. req'[q] = s /\ DOMAIN req' = Req
        /\ \A j \in Req : j # q => req'[j] = req[j]
    BY <1>1, <1>3, <1>12
  <2>2. ASSUME NEW j \in Req, j # q
        PROVE  /\ ReqOK(j, req'[j])
               /\ req'[j].state = "ACTIVE"
                    => req'[j].sent_to \in Outgoing(j) /\ up'[req'[j].sent_to]
    BY <2>1, <2>2, <1>2, <1>4, <1>17 DEF ReqsOK, Outgoing
  <2>3. QED
    BY <2>1, <2>2, <1>13 DEF ReqsOK
<1>15. QED
  BY <1>5, <1>6, <1>9, <1>10, <1>11, <1>14 DEF ReqInv

(* The head of a channel.                                                  *)
LEMMA HeadOf ==
  ASSUME NEW q, NEW s \in Seq(MsgOf(q)), s # << >>
  PROVE  /\ Head(s) \in MsgOf(q) /\ Tail(s) \in Seq(MsgOf(q))
         /\ Len(s) \in Nat /\ Len(s) >= 1 /\ Len(Tail(s)) = Len(s) - 1
BY HeadTailProperties, LenProperties, EmptySeq

(* A reply in keeps the invariant: only one with the number of the socket  *)
(* is stored, and it is the socket's own.                                  *)
LEMMA InStep ==
  ASSUME Wired, ReqInv, NEW x \in Pipe, nn_req_in(x)
  PROVE  ReqInv'
<1> DEFINE q == x[1]
           r == req[q]
           m == Head(toReq[x])
           s == Replied(r, m)
<1>1. q \in Req
  BY DEF Wired
<1>2. ReqOK(q, r) /\ DOMAIN req = Req /\ BackOK(toReq)
  BY <1>1 DEF ReqInv, ReqsOK
<1>3. toReq[x] \in Seq(MsgOf(q)) /\ toReq[x] # << >>
  BY <1>2 DEF BackOK, nn_req_in
<1>4. m \in MsgOf(q) /\ Tail(toReq[x]) \in Seq(MsgOf(q))
  BY <1>3, HeadOf
<1>5. m.id \in Nat /\ m.body = <<q, m.id>>
  BY <1>4 DEF MsgOf
<1>6. BackOK(toReq')
  BY <1>2, <1>4 DEF BackOK, nn_req_in
<1>7. req' = [req EXCEPT ![q] = s]
  BY DEF nn_req_in
<1>8. /\ up' = up /\ toRep' = toRep /\ lb' = lb /\ outkey' = outkey
      /\ inpipes' = inpipes /\ rep' = rep
  BY DEF nn_req_in
<1> HIDE DEF m, r
<1>9. /\ ReqOK(q, s)
      /\ s.state = "ACTIVE" => s.sent_to = r.sent_to /\ r.state = "ACTIVE"
  <2>1. CASE ~nn_req_inprogress(r) \/ m.id # r.id
    <3>1. s = [r EXCEPT !.reply = Terminated]
      BY <2>1 DEF Replied
    <3>2. /\ DOMAIN s = DOMAIN r /\ s.state = r.state /\ s.id = r.id
          /\ s.timer = r.timer /\ s.sent_to = r.sent_to
          /\ s.reply = Terminated
      BY <3>1, <1>2 DEF ReqOK
    <3>3. ~(Terminated.id > 0)
      BY DEF Terminated
    <3> HIDE DEF s
    <3>4. QED
      BY <3>2, <3>3, <1>2 DEF ReqOK
  <2>2. CASE nn_req_inprogress(r) /\ m.id = r.id
    <3> DEFINE t == [r EXCEPT !.reply = m]
    <3>1. /\ DOMAIN t = DOMAIN r /\ t.state = r.state /\ t.id = r.id
          /\ t.timer = r.timer /\ t.sent_to = r.sent_to /\ t.reply = m
      BY <1>2 DEF ReqOK
    <3>2. s = IF r.state = "ACTIVE" THEN LeaveActive(t, "STOPPING_TIMER")
                                    ELSE t
      BY <2>2 DEF Replied
    <3> HIDE DEF s, t
    <3>3. CASE r.state = "ACTIVE"
      <4>1. /\ t.timer = "active" /\ t.id \in Nat
            /\ DOMAIN t = {"state", "id", "sent_to", "reply", "timer",
                           "closing"}
            /\ t.reply.body = <<q, t.id>>
        BY <3>1, <3>3, <2>2, <1>2, <1>5 DEF ReqOK
      <4>2. QED
        BY <4>1, <3>2, <3>3, LeaveOK
    <3>4. CASE r.state # "ACTIVE"
      BY <3>1, <3>2, <3>4, <2>2, <1>2, <1>5 DEF ReqOK
    <3>5. QED
      BY <3>3, <3>4
  <2>3. QED
    BY <2>1, <2>2
<1> HIDE DEF s
<1>10. ReqsOK(req', up)
  BY <1>1, <1>7, <1>9, OnlyReq DEF r
<1>11. QED
  BY <1>6, <1>8, <1>10 DEF ReqInv
-----------------------------------------------------------------------------
(* The REP socket                                                          *)

(* A request at a REP socket keeps the invariant.                          *)
LEMMA XrepInStep ==
  ASSUME Wired, ReqInv, NEW x \in Pipe, nn_xrep_in(x)
  PROVE  ReqInv'
<1> DEFINE p == x[2]
           S == Incoming(p)
           o == 1
           f == inpipes[p]
           g == nn_priolist_activate(f, x, o)
<1>1. /\ p \in Rep /\ SLOTS \in Nat /\ x # NoPipe /\ x \in S
  BY DEF Wired, Incoming
<1>2. o \in Prio
  BY DEF Wired, Prio
<1>3. QueuesOK(inpipes, up, toRep) /\ QueueFor(f, p, up, toRep)
  BY <1>1 DEF ReqInv, QueuesOK
<1>4. /\ up[x] /\ toRep[x] # << >> /\ ~IsActive(f, x, o)
      /\ inpipes' = [inpipes EXCEPT ![p] = g]
      /\ req' = req /\ lb' = lb /\ up' = up /\ toRep' = toRep
      /\ toReq' = toReq /\ outkey' = outkey /\ rep' = rep
  BY DEF nn_xrep_in
<1>5. ListOK(f, S)
  BY <1>3 DEF QueueFor
<1>6. o = 1
  OBVIOUS
<1> HIDE DEF S, o, f, p
<1>7. /\ ListOK(g, S)
      /\ \A j \in Prio : Elements(g.pipes[j])
           = IF j = o THEN Elements(f.pipes[j]) \cup {x}
                      ELSE Elements(f.pipes[j])
  <2>1. ~IsActive(f, x, o)
    BY <1>4
  <2>2. QED
    BY <1>1, <1>2, <1>5, <2>1, ActivateOK
<1> HIDE DEF g
<1>8. ASSUME NEW i \in Prio, NEW z \in Elements(g.pipes[i])
      PROVE  i = 1 /\ up[z] /\ toRep[z] # << >>
  <2>1. CASE z \in Elements(f.pipes[i])
    BY <2>1, <1>3 DEF QueueFor
  <2>2. CASE z = x /\ i = o
    BY <2>2, <1>4, <1>6
  <2>3. QED
    BY <2>1, <2>2, <1>7, <1>8
<1>9. QueueFor(g, p, up, toRep)
  BY <1>7, <1>8 DEF QueueFor, S
<1>10. QueuesOK([inpipes EXCEPT ![p] = g], up, toRep)
  BY <1>1, <1>3, <1>9, OneQueue
<1>11. QED
  BY <1>4, <1>10 DEF ReqInv

(* Receiving a request keeps the invariant: its key is the pipe's.         *)
LEMMA RepRecvStep ==
  ASSUME Wired, ReqInv, NEW p \in Rep, nn_rep_recv(p)
  PROVE  ReqInv'
<1> DEFINE f == inpipes[p]
           S == Incoming(p)
           x == nn_priolist_getpipe(f)
           b == Tail(toRep[x])
           chan == [toRep EXCEPT ![x] = b]
           release == Len(toRep[x]) = 1
           g == nn_priolist_advance(f, release)
           m == Head(toRep[x])
           t == [rep[p] EXCEPT !.inprogress = TRUE, !.key = outkey[x],
                               !.msg = m]
<1>1. /\ NetOK(up, toRep) /\ ListsOK(lb, up, toRep) /\ BackOK(toReq)
      /\ QueuesOK(inpipes, up, toRep) /\ ReqsOK(req, up)
      /\ KeysOK(up, outkey, rep)
  BY DEF ReqInv
<1>2. QueueFor(f, p, up, toRep) /\ nn_priolist_is_active(f)
  BY <1>1 DEF QueuesOK, nn_rep_recv
<1>3. SLOTS \in Nat /\ ListOK(f, S) /\ NoPipe \notin S
  BY <1>2 DEF Wired, QueueFor, Incoming
<1>4. /\ f.current \in Prio /\ x = f.turn[f.current]
      /\ x \in Elements(f.pipes[f.current]) /\ x \in S
  BY <1>2, <1>3, TurnOK
<1>5. /\ x \in Pipe /\ x[2] = p /\ up[x] /\ toRep[x] # << >>
      /\ f.current = 1 /\ x[1] \in Req
  BY <1>2, <1>4 DEF QueueFor, Incoming, Wired
<1>6. toRep[x] \in Seq(MsgOf(x[1])) /\ DOMAIN toRep = Pipe
  BY <1>1, <1>5 DEF NetOK
<1>7. /\ m \in MsgOf(x[1]) /\ b \in Seq(MsgOf(x[1]))
      /\ Len(toRep[x]) \in Nat /\ Len(toRep[x]) >= 1
      /\ Len(b) = Len(toRep[x]) - 1
  BY <1>5, <1>6, HeadOf
<1>8. /\ up' = up /\ toReq' = toReq /\ outkey' = outkey
      /\ inpipes' = [inpipes EXCEPT ![p] = g]
  BY DEF nn_rep_recv, nn_xrep_recv
<1>9. \/ /\ Len(toRep[x]) = Cap
         /\ nn_req_out(x, lb[x[1]], chan)
      \/ /\ toRep' = chan /\ req' = req /\ lb' = lb
  BY DEF nn_rep_recv, nn_xrep_recv
<1>10. rep' = [rep EXCEPT ![p] = t]
  BY <1>1 DEF nn_rep_recv, KeysOK
<1>11. /\ ListOK(g, S)
       /\ \A j \in Prio : Elements(g.pipes[j])
            = IF release /\ j = f.current THEN Elements(f.pipes[j]) \ {x}
                                          ELSE Elements(f.pipes[j])
  BY <1>2, <1>3, <1>4, AdvanceOK
<1>12. /\ DOMAIN chan = Pipe /\ chan[x] = b
       /\ \A z \in Pipe : z # x => chan[z] = toRep[z]
  BY <1>5, <1>6
<1>13. release <=> Len(toRep[x]) = 1
  OBVIOUS
<1> HIDE DEF x, f, g, S, b, chan, release, m
<1>14. ASSUME NEW i \in Prio, NEW z \in Elements(g.pipes[i])
       PROVE  i = 1 /\ up[z] /\ chan[z] # << >>
  <2>1. z \in Elements(f.pipes[i]) /\ (release /\ i = f.current => z # x)
    BY <1>11, <1>14
  <2>2. i = 1 /\ up[z] /\ toRep[z] # << >>
    BY <2>1, <1>2 DEF QueueFor
  <2>3. z \in Pipe
    BY <2>1, <1>3, MemberOf DEF S, Incoming
  <2>4. CASE z # x
    BY <2>2, <2>3, <2>4, <1>12
  <2>5. CASE z = x
    <3>1. Len(toRep[x]) # 1
      BY <2>1, <2>2, <2>5, <1>5, <1>13
    <3>2. Len(b) # 0
      BY <3>1, <1>7
    <3>3. QED
      BY <3>2, <2>2, <2>5, <1>12, EmptySeq
  <2>6. QED
    BY <2>4, <2>5
<1>15. QueueFor(g, p, up, chan)
  BY <1>11, <1>14 DEF QueueFor, S
<1>16. QueuesOK(inpipes', up, chan)
  <2>1. \A z \in Pipe : z[2] # p => /\ up[z] => up[z]
                                    /\ toRep[z] # << >> => chan[z] # << >>
    BY <1>5, <1>12
  <2>2. QueuesOK([inpipes EXCEPT ![p] = g], up, chan)
    BY <1>1, <1>15, <2>1, OneQueue
  <2>3. QED
    BY <2>2, <1>8
<1>17. NetOK(up, chan)
  <2>1. ASSUME NEW z \in Pipe
        PROVE  chan[z] \in Seq(MsgOf(z[1])) /\ (~up[z] => chan[z] = << >>)
    <3>1. CASE z = x
      BY <3>1, <1>5, <1>7, <1>12
    <3>2. CASE z # x
      BY <3>2, <1>1, <1>12 DEF NetOK
    <3>3. QED
      BY <3>1, <3>2
  <2>2. QED
    BY <2>1, <1>1, <1>12 DEF NetOK
<1>18. ListsOK(lb, up, chan)
  <2>1. \A z \in Pipe : Len(toRep[z]) < Cap => Len(chan[z]) < Cap
    <3>1. Cap \in Nat
      BY DEF Wired
    <3>2. QED
      BY <3>1, <1>7, <1>12
  <2>2. QED
    BY <1>1, <2>1, SameLists
<1>19. /\ NetOK(up, toRep') /\ ListsOK(lb', up, toRep') /\ ReqsOK(req', up)
       /\ \A z \in Pipe : chan[z] # << >> => toRep'[z] # << >>
  <2>1. CASE toRep' = chan /\ req' = req /\ lb' = lb
    BY <2>1, <1>1, <1>17, <1>18
  <2>2. CASE Len(toRep[x]) = Cap /\ nn_req_out(x, lb[x[1]], chan)
    <3>1. Len(chan[x]) < Cap /\ ~(Len(toRep[x]) < Cap)
      BY <2>2, <1>7, <1>12
    <3>2. ~IsActive(lb[x[1]], x, SndPrio[x])
      BY <3>1, <1>1, <1>5, NotListed
    <3>3. OutRel(x, req, lb, chan, req', lb', toRep')
      BY <2>2 DEF nn_req_out, OutRel
    <3>4. QED
      BY <3>1, <3>2, <3>3, <1>1, <1>5, <1>17, <1>18, OutOK
  <2>3. QED
    BY <2>1, <2>2, <1>9
<1>20. QueuesOK(inpipes', up, toRep')
  BY <1>16, <1>19, SameQueues
<1>21. KeysOK(up, outkey, rep')
  <2>1. /\ DOMAIN rep[p] = {"next_key", "inprogress", "key", "msg"}
        /\ DOMAIN rep = Rep
    BY <1>1 DEF KeysOK
  <2>2. /\ DOMAIN t = {"next_key", "inprogress", "key", "msg"}
        /\ t.next_key = rep[p].next_key /\ t.inprogress
        /\ t.key = outkey[x] /\ t.msg = m
    BY <2>1
  <2>3. /\ DOMAIN rep' = Rep /\ rep'[p] = t
        /\ \A k \in Rep : k # p => rep'[k] = rep[k]
    BY <2>1, <1>10
  <2> HIDE DEF t
  <2>4. outkey[x] \in Nat /\ outkey[x] < rep[p].next_key
    BY <1>1, <1>5 DEF KeysOK
  <2>5. ASSUME NEW z \in Incoming(p), up[z], outkey[z] = outkey[x]
        PROVE  m \in MsgOf(z[1])
    <3>1. z = x
      BY <2>5, <1>1, <1>5 DEF KeysOK, Incoming
    <3>2. QED
      BY <3>1, <1>7
  <2>6. ASSUME NEW k \in Rep
        PROVE  /\ DOMAIN rep'[k] = {"next_key", "inprogress", "key", "msg"}
               /\ rep'[k].next_key \in Nat
               /\ rep'[k].next_key = rep[k].next_key
               /\ rep'[k].inprogress =>
                    /\ rep'[k].key \in Nat
                    /\ rep'[k].key < rep'[k].next_key
                    /\ \A z \in Incoming(k) :
                         up[z] /\ outkey[z] = rep'[k].key
                           => rep'[k].msg \in MsgOf(z[1])
    <3>1. CASE k = p
      BY <3>1, <2>2, <2>3, <2>4, <2>5, <1>1 DEF KeysOK
    <3>2. CASE k # p
      BY <3>2, <2>3, <1>1 DEF KeysOK
    <3>3. QED
      BY <3>1, <3>2
  <2>7. \A z \in Pipe : z[2] \in Rep
    BY DEF Wired
  <2>8. QED
    BY <2>3, <2>6, <2>7, <1>1 DEF KeysOK
<1>22. QED
  BY <1>1, <1>8, <1>19, <1>20, <1>21 DEF ReqInv

(* Answering keeps the invariant: the reply goes to the REQ socket whose   *)
(* request it answers, or nowhere.  So does giving the request up.         *)
LEMMA RepSendStep ==
  ASSUME Wired, ReqInv, NEW p \in Rep, nn_rep_send(p) \/ nn_rep_recv_again(p)
  PROVE  ReqInv'
<1> DEFINE t == [rep[p] EXCEPT !.inprogress = FALSE]
<1>1. /\ NetOK(up, toRep) /\ ListsOK(lb, up, toRep) /\ BackOK(toReq)
      /\ QueuesOK(inpipes, up, toRep) /\ ReqsOK(req, up)
      /\ KeysOK(up, outkey, rep)
  BY DEF ReqInv
<1>2. /\ rep[p].inprogress /\ rep' = [rep EXCEPT ![p] = t]
      /\ nn_xrep_send(p) \/ toReq' = toReq
      /\ req' = req /\ lb' = lb /\ up' = up /\ toRep' = toRep
      /\ outkey' = outkey /\ inpipes' = inpipes
  BY <1>1 DEF nn_rep_send, nn_rep_recv_again, KeysOK
<1>3. BackOK(toReq')
  <2>1. CASE toReq' = toReq
    BY <2>1, <1>1
  <2>2. ASSUME NEW x \in Outpipe(p, rep[p].key),
               toReq' = [toReq EXCEPT ![x] = Append(@, rep[p].msg)]
        PROVE  BackOK(toReq')
    <3>1. x \in Pipe /\ up[x] /\ x \in Incoming(p) /\ outkey[x] = rep[p].key
      BY DEF Outpipe, Incoming
    <3>2. rep[p].msg \in MsgOf(x[1])
      BY <3>1, <1>1, <1>2 DEF KeysOK
    <3>3. toReq[x] \in Seq(MsgOf(x[1]))
      BY <3>1, <1>1 DEF BackOK
    <3>4. Append(toReq[x], rep[p].msg) \in Seq(MsgOf(x[1]))
      BY <3>2, <3>3, AppendProperties
    <3>5. QED
      BY <3>1, <3>4, <2>2, <1>1 DEF BackOK
  <2>3. QED
    BY <2>1, <2>2, <1>2 DEF nn_xrep_send
<1>4. KeysOK(up, outkey, rep')
  <2>1. /\ DOMAIN rep[p] = {"next_key", "inprogress", "key", "msg"}
        /\ DOMAIN rep = Rep
    BY <1>1 DEF KeysOK
  <2>2. /\ DOMAIN t = {"next_key", "inprogress", "key", "msg"}
        /\ t.next_key = rep[p].next_key /\ ~t.inprogress
    BY <2>1
  <2>3. /\ DOMAIN rep' = Rep /\ rep'[p] = t
        /\ \A k \in Rep : k # p => rep'[k] = rep[k]
    BY <2>1, <1>2
  <2> HIDE DEF t
  <2>4. \A z \in Pipe : z[2] \in Rep
    BY DEF Wired
  <2>5. \A k \in Rep : rep'[k].next_key = rep[k].next_key
    BY <2>2, <2>3
  <2>6. QED
    BY <2>2, <2>3, <2>4, <2>5, <1>1 DEF KeysOK
<1>5. QED
  BY <1>1, <1>2, <1>3, <1>4 DEF ReqInv
-----------------------------------------------------------------------------
(* The invariant holds                                                     *)

(* At first nothing is connected.                                          *)
LEMMA ReqInit ==
  ASSUME Wired, Init
  PROVE  ReqInv
<1>1. /\ SLOTS \in Nat /\ \A T : << >> \in Seq(T)
      /\ \A S : ListOK(EmptyList, S)
      /\ \A i \in Prio : Elements(EmptyList.pipes[i]) = {}
  BY EmptyOK, EmptySeq DEF Wired
<1>2. NetOK(up, toRep) /\ BackOK(toReq)
  BY <1>1 DEF Init, NetOK, BackOK
<1>3. ListsOK(lb, up, toRep)
  BY <1>1 DEF Init, ListsOK, ListFor
<1>4. QueuesOK(inpipes, up, toRep)
  BY <1>1 DEF Init, QueuesOK, QueueFor
<1>5. KeysOK(up, outkey, rep)
  BY DEF Init, KeysOK
<1>6. ReqsOK(req, up)
  BY DEF Init, ReqsOK, ReqOK, TimerStates, None
<1>7. QED
  BY <1>2, <1>3, <1>4, <1>5, <1>6 DEF ReqInv

(* Every step keeps the invariant.                                         *)
LEMMA ReqStep ==
  ASSUME Wired, ReqInv, [Next]_vars
  PROVE  ReqInv'
<1>1. ASSUME NEW q \in Req,
             nn_req_csend(q) \/ nn_req_crecv(q) \/ Timeout(q)
             \/ TimerStopped(q) \/ Close(q) \/ nn_req_stop(q)
      PROVE  ReqInv'
  BY <1>1, SendStep, RecvStep, TimeoutStep, StoppedStep, CloseStep, StopStep
<1>2. ASSUME NEW x \in Pipe,
             nn_req_in(x) \/ PipeUp(x) \/ PipeDown(x) \/ nn_xrep_in(x)
      PROVE  ReqInv'
  BY <1>2, InStep, UpStep, DownStep, XrepInStep
<1>3. ASSUME NEW p \in Rep,
             nn_rep_recv(p) \/ nn_rep_recv_again(p) \/ nn_rep_send(p)
      PROVE  ReqInv'
  BY <1>3, RepRecvStep, RepSendStep
<1>4. CASE UNCHANGED vars
  BY <1>4 DEF vars, ReqInv
<1>5. QED
  BY <1>1, <1>2, <1>3, <1>4 DEF Next

(* What the invariant says of the state machines and of the replies.       *)
LEMMA ReqMeans ==
  ASSUME ReqInv
  PROVE  NoBadAction /\ OwnReply
<1>1. ASSUME NEW q \in Req
      PROVE  ReqOK(q, req[q])
  BY DEF ReqInv, ReqsOK
<1>2. NoBadAction
  BY <1>1 DEF NoBadAction, ReqOK, TimerStates
<1>3. OwnReply
  BY <1>1 DEF OwnReply, ReqOK
<1>4. QED
  BY <1>2, <1>3

(* The state machine of req.c meets no action it has no case for, whatever *)
(* requests, timeouts, replies and lost pipes come in whatever order, and  *)
(* however many sockets and pipes there are.                               *)
THEOREM NoActionIsBad == Wired => (Spec => []NoBadAction)
<1> SUFFICES ASSUME Wired PROVE Spec => []NoBadAction
  OBVIOUS
<1>1. Init => ReqInv
  BY ReqInit
<1>2. ReqInv /\ [Next]_vars => ReqInv'
  BY ReqStep
<1>3. ReqInv => NoBadAction
  BY ReqMeans
<1>4. QED
  BY <1>1, <1>2, <1>3, PTL DEF Spec

(* The reply a user gets is the reply to its own last request.             *)
THEOREM RepliesAreOwn == Wired => (Spec => []OwnReply)
<1> SUFFICES ASSUME Wired PROVE Spec => []OwnReply
  OBVIOUS
<1>1. Init => ReqInv
  BY ReqInit
<1>2. ReqInv /\ [Next]_vars => ReqInv'
  BY ReqStep
<1>3. ReqInv => OwnReply
  BY ReqMeans
<1>4. QED
  BY <1>1, <1>2, <1>3, PTL DEF Spec

=============================================================================
