-------------------------- MODULE ProtocolsProofs --------------------------
(***************************************************************************)
(* Proofs about the sockets of nanomsg.  The core, for any number of       *)
(* threads, slots and sockets: the table of sockets, the event fds of a    *)
(* blocked call, and the holds that keep a socket.  Request/reply, surveys *)
(* and the other patterns: the theorems of ReqRepProofs, SurveyProofs and  *)
(* PatternsProofs for the topologies of MCProtocols.  Devices and the      *)
(* memory of messages.  The subscriptions of a SUB socket: its trie.       *)
(***************************************************************************)
EXTENDS MCProtocols, SequenceTheorems, FiniteSetTheorems, WellFoundedInduction,
        TLAPS

(* Module Core counts with the same operator.                              *)
LEMMA CountIsCardinality ==
  ASSUME NEW S
  PROVE  C!Cardinality(S) = Cardinality(S)
BY Zenon DEF C!Cardinality, Cardinality

-----------------------------------------------------------------------------
(* The invariant of the table and of the event fds                         *)

Ending == {"STOPPING_EPS", "STOPPING", "FINI"}
ClosePc == {"termsem", "relesem", "finish"}
InPc == {"held", "woken", "wait", "rele"}

SockTypes(r) ==
  /\ DOMAIN r = {"state", "lazy", "holds", "eps", "sdeps", "eid", "term",
                 "rele", "fd", "flags", "ready", "bad"}
  /\ r.state \in {"NONE", "ACTIVE", "FREED"} \cup Ending
  /\ r.ready \subseteq C!Dir /\ r.flags \subseteq C!Dir
  /\ DOMAIN r.fd = C!Dir

(* During a stay in the context an event fd is signalled as the flags say, *)
(* which are what was ready before.                                        *)
Staying(r) ==
  /\ SockTypes(r)
  /\ r.state = "ACTIVE" =>
       \A d \in C!Dir : r.fd[d] = IF d \in r.flags THEN "on" ELSE "off"
  /\ r.state # "ACTIVE" => \A d \in C!Dir : r.fd[d] # "off"

(* Outside it the flags are right.                                         *)
SockOK(r) == Staying(r) /\ (r.state = "ACTIVE" => r.flags = r.ready)

ThrOK(x) ==
  /\ DOMAIN x = {"pc", "op", "obj", "slot", "scan"}
  /\ x.pc \in {"idle", "scan"} \cup InPc \cup ClosePc
  /\ x.pc \in InPc \cup ClosePc => x.obj \in C!Obj
  /\ x.pc \in {"wait", "woken"} => x.op \in C!Dir
  /\ x.scan \in Nat

Free(g) == {s \in C!Slot : g.socks[s] = 0}

(* The first n entries of the stack are the free slots, each once.         *)
Stack(g, n) ==
  /\ \A i \in 0 .. n - 1 : g.unused[i] \in Free(g)
  /\ \A s \in Free(g) : \E i \in 0 .. n - 1 : g.unused[i] = s
  /\ \A i, j \in 0 .. n - 1 : g.unused[i] = g.unused[j] => i = j
  /\ Cardinality(Free(g)) = n

GlobOK(g) ==
  /\ DOMAIN g = {"live", "socks", "unused", "nsocks", "flags"}
  /\ g.live \in BOOLEAN /\ g.nsocks \in 0 .. MAX_SOCKETS
  /\ g.socks \in [C!Slot -> {0} \cup C!Obj] /\ DOMAIN g.unused = C!Slot
  /\ g.live => Stack(g, MAX_SOCKETS - g.nsocks)
  /\ ~g.live => g.nsocks = 0 /\ \A s \in C!Slot : g.socks[s] = 0
  /\ \A s1, s2 \in C!Slot :
       g.socks[s1] = g.socks[s2] /\ g.socks[s1] # 0 => s1 = s2

(* A slot holds a socket that lives.                                       *)
Owned ==
  \A s \in C!Slot :
    glob.socks[s] # 0 => sock[glob.socks[s]].state \notin {"NONE", "FREED"}

(* Each nn_close is the only one of its socket, whose slot is still taken. *)
Closers ==
  /\ \A t \in Thread :
       thr[t].pc \in ClosePc =>
         /\ thr[t].slot \in C!Slot
         /\ glob.socks[thr[t].slot] = thr[t].obj
         /\ sock[thr[t].obj].state \in Ending
  /\ \A t, u \in Thread :
       /\ thr[t].pc \in ClosePc /\ thr[u].pc \in ClosePc
       /\ thr[t].obj = thr[u].obj
       => t = u

(* Sockets are numbered as they are allocated.                             *)
Allocated ==
  \E k \in 0 .. MaxSock : \A o \in C!Obj : sock[o].state = "NONE" <=> o > k

CoreInv ==
  /\ DOMAIN sock = C!Obj /\ \A o \in C!Obj : SockOK(sock[o])
  /\ DOMAIN thr = Thread /\ \A t \in Thread : ThrOK(thr[t])
  /\ GlobOK(glob) /\ Owned /\ Closers /\ Allocated

-----------------------------------------------------------------------------
(* One socket                                                              *)

(* What a stay in the context must not touch.                              *)
SameBut(q, r) ==
  /\ q.state = r.state /\ q.bad = r.bad /\ q.holds = r.holds
  /\ q.eps = r.eps /\ q.sdeps = r.sdeps /\ q.term = r.term
  /\ q.rele = r.rele

(* nn_sock_onleave sets the event fds right and its unsignal succeeds.     *)
LEMMA OnLeave ==
  ASSUME NEW r, Staying(r)
  PROVE  /\ SockOK(C!nn_sock_onleave(r))
         /\ SameBut(C!nn_sock_onleave(r), r)
<1> DEFINE gone == r.flags \ r.ready
           fds == [d \in C!Dir |-> IF d \in r.ready \ r.flags THEN "on"
                                   ELSE IF d \in gone THEN "off" ELSE r.fd[d]]
           on == [r EXCEPT !.flags = r.ready, !.fd = fds]
<1>1. CASE r.state # "ACTIVE"
  <2>1. C!nn_sock_onleave(r) = r
    BY <1>1 DEF C!nn_sock_onleave
  <2> QED BY <1>1, <2>1 DEF SockOK, SameBut
<1>2. CASE r.state = "ACTIVE"
  <2>1. \A d \in gone : r.fd[d] = "on"
    BY <1>2 DEF Staying, SockTypes
  <2>2. C!nn_sock_onleave(r) = on
    BY <1>2, <2>1 DEF C!nn_sock_onleave
  <2>3. /\ DOMAIN fds = C!Dir
        /\ \A d \in C!Dir : fds[d] = IF d \in r.ready THEN "on" ELSE "off"
    BY <1>2 DEF Staying
  <2> HIDE DEF fds
  <2>4. /\ DOMAIN on = DOMAIN r /\ on.flags = r.ready /\ on.fd = fds
        /\ on.ready = r.ready /\ SameBut(on, r)
    BY DEF Staying, SockTypes, SameBut
  <2> HIDE DEF on
  <2>5. SockTypes(on)
    BY <2>3, <2>4 DEF Staying, SockTypes, SameBut
  <2>6. SockOK(on)
    BY <1>2, <2>3, <2>4, <2>5 DEF SockOK, Staying, SameBut
  <2> QED BY <2>2, <2>4, <2>6
<1> QED BY <1>1, <1>2

(* A socket outside a stay is as it is at its start.                       *)
LEMMA FailOK ==
  ASSUME NEW r, NEW what, SockTypes(r)
  PROVE  /\ SockTypes(C!Fail(r, what))
         /\ C!Fail(r, what).state = r.state
         /\ Staying(r) => Staying(C!Fail(r, what))
         /\ SockOK(r) => SockOK(C!Fail(r, what))
<1>1. /\ DOMAIN C!Fail(r, what) = DOMAIN r
      /\ C!Fail(r, what).state = r.state /\ C!Fail(r, what).fd = r.fd
      /\ C!Fail(r, what).flags = r.flags /\ C!Fail(r, what).ready = r.ready
  BY DEF C!Fail, SockTypes
<1> QED BY <1>1 DEF SockTypes, Staying, SockOK

(* A change of what a direction's readiness does not depend on.            *)
LEMMA StayingKept ==
  ASSUME NEW r, NEW q, SockTypes(r), DOMAIN q = DOMAIN r,
         q.state = r.state, q.fd = r.fd, q.flags = r.flags,
         q.ready \subseteq C!Dir
  PROVE  /\ SockTypes(q) /\ (Staying(r) => Staying(q))
         /\ (SockOK(r) /\ q.ready = r.ready => SockOK(q))
BY DEF SockTypes, Staying, SockOK

(* finish1 and finish2: the socket ends, its event fds stay signalled or   *)
(* are closed.                                                             *)
LEMMA Finish1OK ==
  ASSUME NEW r, SockTypes(r)
  PROVE  /\ Staying(C!Finish1(r)) /\ C!Finish1(r).state = "FINI"
         /\ SockOK(C!Finish1(r))
<1> DEFINE fds == [d \in C!Dir |-> "closed"]
           q == C!Finish1(r)
<1>1. DOMAIN fds = C!Dir /\ \A d \in C!Dir : fds[d] = "closed"
  OBVIOUS
<1>2. /\ DOMAIN q = DOMAIN r /\ q.state = "FINI" /\ q.fd = fds
      /\ q.flags = r.flags /\ q.ready = {}
  BY DEF C!Finish1, SockTypes
<1> HIDE DEF q, fds
<1>3. SockTypes(q)
  BY <1>1, <1>2 DEF SockTypes, Ending
<1> QED BY <1>1, <1>2, <1>3 DEF Staying, SockOK, q

(* The second half of a stop leaves the socket a closing one.              *)
LEMMA Finish2OK ==
  ASSUME NEW r, Staying(r), r.state \in Ending
  PROVE  /\ Staying(C!Finish2(r)) /\ C!Finish2(r).state \in Ending
<1>1. SockTypes(r) /\ r.state # "ACTIVE"
  BY DEF Staying, Ending
<1>2. CASE r.sdeps # {}
  BY <1>2 DEF C!Finish2
<1>3. CASE r.sdeps = {} /\ r.eps # {}
  BY <1>1, <1>3, FailOK DEF C!Finish2
<1>4. CASE r.sdeps = {} /\ r.eps = {} /\ r.lazy
  <2> DEFINE q == [r EXCEPT !.state = "STOPPING"]
  <2>1. C!Finish2(r) = q
    BY <1>4 DEF C!Finish2
  <2>2. /\ DOMAIN q = DOMAIN r /\ q.state = "STOPPING" /\ q.fd = r.fd
        /\ q.flags = r.flags /\ q.ready = r.ready
    BY <1>1 DEF SockTypes
  <2> HIDE DEF q
  <2>3. SockTypes(q)
    BY <1>1, <2>2 DEF SockTypes, Ending
  <2> QED BY <1>1, <2>1, <2>2, <2>3 DEF Staying, Ending
<1>5. CASE r.sdeps = {} /\ r.eps = {} /\ ~r.lazy
  <2>1. C!Finish2(r) = C!Finish1(r)
    BY <1>5 DEF C!Finish2
  <2> QED BY <1>1, <2>1, Finish1OK DEF Ending
<1> QED BY <1>2, <1>3, <1>4, <1>5

(* nn_sock_stop of an active socket.                                       *)
LEMMA StopOK ==
  ASSUME NEW r, Staying(r), r.state = "ACTIVE"
  PROVE  /\ Staying(C!nn_sock_stop(r)) /\ C!nn_sock_stop(r).state \in Ending
<1> DEFINE fds == [d \in C!Dir |-> "on"]
           q == [r EXCEPT !.fd = fds, !.eps = {},
                          !.sdeps = r.sdeps \cup r.eps,
                          !.state = "STOPPING_EPS"]
<1>1. C!nn_sock_stop(r) = C!Finish2(q)
  BY DEF C!nn_sock_stop, C!StopEndpoints
<1>2. DOMAIN fds = C!Dir /\ \A d \in C!Dir : fds[d] = "on"
  OBVIOUS
<1>3. /\ DOMAIN q = DOMAIN r /\ q.state = "STOPPING_EPS" /\ q.fd = fds
      /\ q.flags = r.flags /\ q.ready = r.ready
  BY DEF Staying, SockTypes
<1> HIDE DEF q, fds
<1>4. Staying(q) /\ q.state \in Ending
  BY <1>2, <1>3 DEF Staying, SockTypes, Ending
<1> QED BY <1>1, <1>4, Finish2OK

(* NN_EP_STOPPED.                                                          *)
LEMMA EpStoppedOK ==
  ASSUME NEW r, Staying(r), NEW e
  PROVE  /\ Staying(C!nn_ep_stopped(r, e))
         /\ \/ C!nn_ep_stopped(r, e).state = r.state
            \/ r.state \in Ending /\ C!nn_ep_stopped(r, e).state \in Ending
<1> DEFINE q == [r EXCEPT !.sdeps = r.sdeps \ {e}]
<1>1. /\ DOMAIN q = DOMAIN r /\ q.state = r.state /\ q.fd = r.fd
      /\ q.flags = r.flags /\ q.ready = r.ready
  BY DEF Staying, SockTypes
<1>2. SockTypes(r) /\ r.ready \subseteq C!Dir
  BY DEF Staying, SockTypes
<1>3. Staying(q)
  <2> HIDE DEF q
  <2> QED BY <1>1, <1>2, StayingKept
<1>4. CASE r.state = "ACTIVE"
  <2>1. C!nn_ep_stopped(r, e) = q
    BY <1>4 DEF C!nn_ep_stopped
  <2> HIDE DEF q
  <2> QED BY <1>1, <1>3, <2>1
<1>5. CASE r.state = "STOPPING_EPS"
  <2>1. C!nn_ep_stopped(r, e) = C!Finish2(q)
    BY <1>5 DEF C!nn_ep_stopped
  <2> HIDE DEF q
  <2> QED BY <1>1, <1>3, <1>5, <2>1, Finish2OK DEF Ending
<1>6. CASE r.state \notin {"ACTIVE", "STOPPING_EPS"}
  <2>1. C!nn_ep_stopped(r, e) = C!Fail(r, "ep stopped")
    BY <1>6 DEF C!nn_ep_stopped
  <2> QED BY <1>2, <2>1, FailOK
<1> QED BY <1>4, <1>5, <1>6

-----------------------------------------------------------------------------
(* The steps of calls and workers that leave the table alone.              *)

(* A socket's state does not go back.                                      *)
Moves(a, b) == a = b \/ (a \in Ending /\ b \in Ending)

(* A step after which the same slots hold the same sockets, every socket   *)
(* is right and has at most come closer to its end, and every nn_close is  *)
(* where it was or further, keeps the invariant.                           *)
LEMMA Quiet ==
  ASSUME CoreInv, GlobOK(glob'), glob'.socks = glob.socks,
         DOMAIN sock' = C!Obj, DOMAIN thr' = Thread,
         \A o \in C!Obj : SockOK(sock'[o])
                          /\ Moves(sock[o].state, sock'[o].state),
         \A t \in Thread :
           /\ ThrOK(thr'[t])
           /\ thr'[t].pc \in ClosePc =>
                /\ thr[t].pc \in ClosePc
                /\ thr'[t].obj = thr[t].obj /\ thr'[t].slot = thr[t].slot
  PROVE  CoreInv'
<1>1. Owned'
  <2> SUFFICES ASSUME NEW s \in C!Slot, glob.socks[s] # 0
               PROVE  sock'[glob.socks[s]].state \notin {"NONE", "FREED"}
    BY DEF Owned
  <2>1. glob.socks[s] \in C!Obj
    BY DEF CoreInv, GlobOK
  <2>2. sock[glob.socks[s]].state \notin {"NONE", "FREED"}
    BY DEF CoreInv, Owned
  <2> QED BY <2>1, <2>2 DEF Moves, Ending
<1>2. Closers'
  <2>1. ASSUME NEW t \in Thread, thr'[t].pc \in ClosePc
        PROVE  /\ thr'[t].slot \in C!Slot
               /\ glob'.socks[thr'[t].slot] = thr'[t].obj
               /\ sock'[thr'[t].obj].state \in Ending
    <3>1. thr[t].obj \in C!Obj /\ thr[t].pc \in ClosePc
      BY <2>1 DEF CoreInv, ThrOK
    <3> QED BY <2>1, <3>1 DEF CoreInv, Closers, Moves
  <2>2. ASSUME NEW t \in Thread, NEW u \in Thread, thr'[t].pc \in ClosePc,
               thr'[u].pc \in ClosePc, thr'[t].obj = thr'[u].obj
        PROVE  t = u
    BY <2>2 DEF CoreInv, Closers
  <2> QED BY <2>1, <2>2 DEF Closers
<1>3. Allocated'
  <2>1. \A o \in C!Obj : sock'[o].state = "NONE" <=> sock[o].state = "NONE"
    BY DEF Moves, Ending
  <2> QED BY <2>1 DEF CoreInv, Allocated
<1> QED BY <1>1, <1>2, <1>3 DEF CoreInv

(* One socket changes in one stay.                                         *)
LEMMA OneSocket ==
  ASSUME CoreInv, NEW o \in C!Obj, NEW q, SockOK(q),
         Moves(sock[o].state, q.state), sock' = [sock EXCEPT ![o] = q]
  PROVE  /\ DOMAIN sock' = C!Obj
         /\ \A p \in C!Obj : SockOK(sock'[p])
                             /\ Moves(sock[p].state, sock'[p].state)
BY DEF CoreInv, Moves

(* The place of one thread changes.                                        *)
LEMMA OneThread ==
  ASSUME CoreInv, NEW t \in Thread, NEW x, ThrOK(x),
         x.pc \notin ClosePc, thr' = [thr EXCEPT ![t] = x]
  PROVE  /\ DOMAIN thr' = Thread
         /\ \A u \in Thread :
              /\ ThrOK(thr'[u])
              /\ thr'[u].pc \in ClosePc =>
                   /\ thr[u].pc \in ClosePc
                   /\ thr'[u].obj = thr[u].obj /\ thr'[u].slot = thr[u].slot
BY DEF CoreInv

(* The thread that is not in a call.                                       *)
LEMMA IdleOK == ThrOK(C!Idle) /\ C!Idle.pc = "idle"
<1>1. /\ DOMAIN C!Idle = {"pc", "op", "obj", "slot", "scan"}
      /\ C!Idle.pc = "idle" /\ C!Idle.scan = 0
  BY DEF C!Idle
<1> QED BY <1>1 DEF ThrOK, InPc, ClosePc

(* A stay of thread t in the context of its socket.                        *)
LEMMA InCtxKeeps ==
  ASSUME CoreInv, NEW t \in Thread, thr[t].pc \in InPc, NEW r, Staying(r),
         r.state = sock[thr[t].obj].state, NEW pc \in {"wait", "rele"},
         pc = "wait" => thr[t].op \in C!Dir, C!InCtx(t, r, pc)
  PROVE  CoreInv'
<1> DEFINE o == thr[t].obj
           q == IF sock[o].state = "FREED" THEN C!Fail(sock[o], "freed")
                ELSE C!nn_sock_onleave(r)
           x == [thr[t] EXCEPT !.pc = pc]
<1>1. o \in C!Obj /\ ThrOK(thr[t]) /\ SockOK(sock[o]) /\ DOMAIN sock = C!Obj
      /\ DOMAIN thr = Thread
  BY DEF CoreInv, ThrOK
<1>2. /\ sock' = [sock EXCEPT ![o] = q] /\ glob' = glob
      /\ thr' = [thr EXCEPT ![t] = x]
  BY <1>1 DEF C!InCtx
<1>3. SockOK(q) /\ q.state = sock[o].state
  <2>1. CASE sock[o].state = "FREED"
    BY <1>1, <2>1, FailOK DEF SockOK, Staying
  <2>2. CASE sock[o].state # "FREED"
    BY <2>2, OnLeave DEF SameBut
  <2> QED BY <2>1, <2>2
<1>4. ThrOK(x) /\ x.pc \notin ClosePc
  <2>1. /\ DOMAIN x = DOMAIN thr[t] /\ x.pc = pc /\ x.op = thr[t].op
        /\ x.obj = thr[t].obj /\ x.scan = thr[t].scan
    BY <1>1 DEF ThrOK
  <2> HIDE DEF x
  <2> QED BY <1>1, <2>1 DEF ThrOK, InPc, ClosePc
<1> HIDE DEF q, x, o
<1>5. /\ DOMAIN sock' = C!Obj
      /\ \A p \in C!Obj : SockOK(sock'[p])
                          /\ Moves(sock[p].state, sock'[p].state)
  BY <1>1, <1>2, <1>3, OneSocket DEF Moves
<1>6. /\ DOMAIN thr' = Thread
      /\ \A u \in Thread :
           /\ ThrOK(thr'[u])
           /\ thr'[u].pc \in ClosePc =>
                /\ thr[u].pc \in ClosePc
                /\ thr'[u].obj = thr[u].obj /\ thr'[u].slot = thr[u].slot
  BY <1>2, <1>4, OneThread
<1> QED BY <1>2, <1>5, <1>6, Quiet DEF CoreInv

(* The calls inside a socket: each stay is one of those.                   *)
LEMMA KAddEp ==
  ASSUME CoreInv, NEW t \in Thread, C!nn_sock_add_ep(t)
  PROVE  CoreInv'
<1> DEFINE r == sock[thr[t].obj]
           q == C!nn_ep_init(r)
<1>1. thr[t].pc \in InPc /\ thr[t].obj \in C!Obj /\ C!InCtx(t, q, "rele")
  BY DEF C!nn_sock_add_ep, InPc, CoreInv, ThrOK
<1>2. SockOK(r) /\ Staying(r) /\ SockTypes(r) /\ r.ready \subseteq C!Dir
  BY <1>1 DEF CoreInv, SockOK, Staying, SockTypes
<1>3. /\ DOMAIN q = DOMAIN r /\ q.state = r.state /\ q.fd = r.fd
      /\ q.flags = r.flags /\ q.ready = r.ready
  BY <1>2 DEF C!nn_ep_init, SockTypes
<1> HIDE DEF q
<1>4. Staying(q)
  BY <1>2, <1>3, StayingKept
<1> QED BY <1>1, <1>3, <1>4, InCtxKeeps

(* A failed nn_bind or nn_connect changes nothing but its thread.          *)
LEMMA KCreateEp ==
  ASSUME CoreInv, NEW t \in Thread, C!nn_global_create_ep(t)
  PROVE  CoreInv'
<1>1. /\ thr[t].pc \in InPc /\ thr[t].obj \in C!Obj
      /\ C!InCtx(t, sock[thr[t].obj], "rele")
  BY DEF C!nn_global_create_ep, InPc, CoreInv, ThrOK
<1>2. Staying(sock[thr[t].obj])
  BY <1>1 DEF CoreInv, SockOK
<1> QED BY <1>1, <1>2, InCtxKeeps

(* nn_shutdown stops one endpoint, or finds none.                          *)
LEMMA KRmEp ==
  ASSUME CoreInv, NEW t \in Thread, C!nn_sock_rm_ep(t)
  PROVE  CoreInv'
<1> DEFINE r == sock[thr[t].obj]
<1>1. PICK e \in 1 .. MaxEp :
        C!InCtx(t, IF e \in r.eps THEN C!nn_ep_stop(r, e) ELSE r, "rele")
  BY DEF C!nn_sock_rm_ep
<1>2. thr[t].pc \in InPc /\ thr[t].obj \in C!Obj
  BY DEF C!nn_sock_rm_ep, InPc, CoreInv, ThrOK
<1>3. SockOK(r) /\ Staying(r) /\ SockTypes(r) /\ r.ready \subseteq C!Dir
  BY <1>2 DEF CoreInv, SockOK, Staying, SockTypes
<1> DEFINE q == IF e \in r.eps THEN C!nn_ep_stop(r, e) ELSE r
<1>4. /\ DOMAIN q = DOMAIN r /\ q.state = r.state /\ q.fd = r.fd
      /\ q.flags = r.flags /\ q.ready = r.ready
  BY <1>3 DEF C!nn_ep_stop, SockTypes
<1>5. C!InCtx(t, q, "rele")
  BY <1>1
<1> HIDE DEF q
<1>6. Staying(q)
  BY <1>3, <1>4, StayingKept
<1> QED BY <1>2, <1>4, <1>5, <1>6, InCtxKeeps

(* nn_setsockopt and nn_getsockopt leave the socket as it is, or fail.     *)
LEMMA KOption ==
  ASSUME CoreInv, NEW t \in Thread, C!Option(t)
  PROVE  CoreInv'
<1> DEFINE r == sock[thr[t].obj]
           q == IF r.state = "FINI" THEN C!Fail(r, "protocol gone") ELSE r
<1>1. thr[t].pc \in InPc /\ thr[t].obj \in C!Obj /\ C!InCtx(t, q, "rele")
  BY DEF C!Option, InPc, CoreInv, ThrOK
<1>2. SockOK(r) /\ Staying(r) /\ SockTypes(r)
  BY <1>1 DEF CoreInv, SockOK, Staying
<1>3. Staying(q) /\ q.state = r.state
  BY <1>2, FailOK
<1> HIDE DEF q
<1> QED BY <1>1, <1>3, InCtxKeeps

(* The loop of nn_sock_send and nn_sock_recv.                              *)
LEMMA KTry ==
  ASSUME CoreInv, NEW t \in Thread, NEW d \in C!Dir, C!Try(t, d)
  PROVE  CoreInv'
<1> DEFINE r == sock[thr[t].obj]
           q == IF thr[t].pc = "woken" /\ r.fd[d] = "on"
                THEN [r EXCEPT !.flags = @ \cup {d}] ELSE r
           q2 == [q EXCEPT !.ready = @ \ {d}]
<1>1. thr[t].pc \in InPc /\ thr[t].obj \in C!Obj /\ thr[t].op = d
  BY DEF C!Try, InPc, CoreInv, ThrOK
<1>2. \/ C!InCtx(t, q, "rele") \/ C!InCtx(t, q, "wait")
      \/ C!InCtx(t, q2, "rele")
  BY DEF C!Try
<1>3. SockOK(r) /\ Staying(r) /\ SockTypes(r)
  BY <1>1 DEF CoreInv, SockOK, Staying
<1>4. /\ DOMAIN q = DOMAIN r /\ q.state = r.state /\ q.fd = r.fd
      /\ q.ready = r.ready /\ q.flags \subseteq C!Dir
      /\ r.state = "ACTIVE" => q.flags = r.flags
  <2>1. CASE thr[t].pc = "woken" /\ r.fd[d] = "on"
    <3>1. q = [r EXCEPT !.flags = r.flags \cup {d}]
      BY <2>1, <1>3 DEF SockTypes
    <3>2. r.state = "ACTIVE" => d \in r.flags
      BY <1>3, <2>1 DEF Staying
    <3> HIDE DEF q
    <3> QED BY <1>3, <3>1, <3>2 DEF SockTypes
  <2>2. CASE ~(thr[t].pc = "woken" /\ r.fd[d] = "on")
    BY <1>3, <2>2 DEF SockTypes
  <2> QED BY <2>1, <2>2
<1> HIDE DEF q
<1>5. Staying(q)
  BY <1>3, <1>4 DEF Staying, SockTypes
<1>6. /\ DOMAIN q2 = DOMAIN q /\ q2.state = q.state /\ q2.fd = q.fd
      /\ q2.flags = q.flags /\ q2.ready \subseteq C!Dir
  BY <1>3, <1>4 DEF SockTypes
<1> HIDE DEF q2
<1>7. Staying(q2)
  BY <1>5, <1>6, StayingKept DEF Staying
<1> QED BY <1>1, <1>2, <1>4, <1>5, <1>6, <1>7, InCtxKeeps

(* nn_efd_wait returns, or its time is over.                               *)
LEMMA KWait ==
  ASSUME CoreInv, NEW t \in Thread, C!nn_efd_wait(t) \/ C!TimedOut(t)
  PROVE  CoreInv'
<1>1. PICK pc \in {"woken", "rele"} :
        /\ thr' = [thr EXCEPT ![t].pc = pc] /\ UNCHANGED <<glob, sock>>
        /\ thr[t].pc = "wait"
  BY DEF C!nn_efd_wait, C!TimedOut
<1> DEFINE x == [thr[t] EXCEPT !.pc = pc]
<1>2. thr' = [thr EXCEPT ![t] = x] /\ ThrOK(thr[t])
  BY <1>1 DEF CoreInv
<1>3. /\ DOMAIN x = DOMAIN thr[t] /\ x.pc = pc /\ x.op = thr[t].op
      /\ x.obj = thr[t].obj /\ x.scan = thr[t].scan
  BY <1>2 DEF ThrOK
<1> HIDE DEF x
<1>4. ThrOK(x) /\ x.pc \notin ClosePc
  BY <1>1, <1>2, <1>3 DEF ThrOK, InPc, ClosePc
<1>5. /\ DOMAIN thr' = Thread
      /\ \A u \in Thread :
           /\ ThrOK(thr'[u])
           /\ thr'[u].pc \in ClosePc =>
                /\ thr[u].pc \in ClosePc
                /\ thr'[u].obj = thr[u].obj /\ thr'[u].slot = thr[u].slot
  BY <1>2, <1>4, OneThread
<1> QED BY <1>1, <1>5, Quiet DEF CoreInv, Moves

(* A call returns.                                                         *)
LEMMA KRele ==
  ASSUME CoreInv, NEW t \in Thread, C!nn_global_rele_socket(t)
  PROVE  CoreInv'
<1> DEFINE o == thr[t].obj
           r == sock[o]
           q == IF r.state = "FREED" THEN C!Fail(r, "freed")
                ELSE C!nn_sock_rele(r)
<1>1. /\ o \in C!Obj /\ DOMAIN sock = C!Obj
      /\ sock' = [sock EXCEPT ![o] = q] /\ glob' = glob
      /\ thr' = [thr EXCEPT ![t] = C!Idle]
  BY DEF C!nn_global_rele_socket, CoreInv, ThrOK, InPc
<1>2. SockOK(r) /\ SockTypes(r) /\ r.ready \subseteq C!Dir
  BY <1>1 DEF CoreInv, SockOK, Staying, SockTypes
<1>3. SockOK(q) /\ q.state = r.state
  <2>1. CASE r.state = "FREED"
    BY <1>2, <2>1, FailOK
  <2>2. CASE r.state # "FREED"
    <3>1. /\ DOMAIN q = DOMAIN r /\ q.state = r.state /\ q.fd = r.fd
          /\ q.flags = r.flags /\ q.ready = r.ready
      BY <1>2, <2>2 DEF C!nn_sock_rele, SockTypes
    <3> HIDE DEF q
    <3> QED BY <1>2, <3>1, StayingKept
  <2> QED BY <2>1, <2>2
<1> HIDE DEF q, o
<1>4. /\ DOMAIN sock' = C!Obj
      /\ \A p \in C!Obj : SockOK(sock'[p])
                          /\ Moves(sock[p].state, sock'[p].state)
  BY <1>1, <1>3, OneSocket DEF Moves
<1>5. /\ DOMAIN thr' = Thread
      /\ \A u \in Thread :
           /\ ThrOK(thr'[u])
           /\ thr'[u].pc \in ClosePc =>
                /\ thr[u].pc \in ClosePc
                /\ thr'[u].obj = thr[u].obj /\ thr'[u].slot = thr[u].slot
  BY <1>1, IdleOK, OneThread DEF ClosePc
<1> QED BY <1>1, <1>4, <1>5, Quiet DEF CoreInv

(* nn_sock_term takes a semaphore.                                         *)
LEMMA KSockTerm ==
  ASSUME CoreInv, NEW t \in Thread, C!nn_sock_term(t)
  PROVE  CoreInv'
<1> DEFINE o == thr[t].obj
           r == sock[o]
<1>1. thr[t].pc \in ClosePc /\ o \in C!Obj /\ glob' = glob
  BY DEF C!nn_sock_term, CoreInv, ThrOK, ClosePc
<1>2. SockOK(r) /\ SockTypes(r) /\ ThrOK(thr[t])
      /\ DOMAIN sock = C!Obj /\ DOMAIN thr = Thread
  BY <1>1 DEF CoreInv, SockOK, Staying
<1>3. PICK q : /\ sock' = [sock EXCEPT ![o] = q] /\ SockOK(q)
               /\ q.state = r.state
  <2>1. CASE thr[t].pc = "termsem"
    <3> DEFINE q == [r EXCEPT !.term = @ - 1]
    <3>1. sock' = [sock EXCEPT ![o] = q]
      BY <1>1, <1>2, <2>1 DEF C!nn_sock_term
    <3>2. /\ DOMAIN q = DOMAIN r /\ q.state = r.state /\ q.fd = r.fd
          /\ q.flags = r.flags /\ q.ready = r.ready
      BY <1>2 DEF SockTypes
    <3> HIDE DEF q
    <3>3. SockOK(q)
      BY <1>2, <3>2, StayingKept DEF SockTypes
    <3> QED BY <3>1, <3>2, <3>3
  <2>2. CASE thr[t].pc = "relesem"
    <3> DEFINE q1 == [r EXCEPT !.rele = @ - 1]
               q == IF r.eps \cup r.sdeps # {}
                    THEN C!Fail(r, "list not empty") ELSE q1
    <3>1. sock' = [sock EXCEPT ![o] = q]
      BY <1>1, <1>2, <2>2 DEF C!nn_sock_term
    <3>2. /\ DOMAIN q1 = DOMAIN r /\ q1.state = r.state /\ q1.fd = r.fd
          /\ q1.flags = r.flags /\ q1.ready = r.ready
      BY <1>2 DEF SockTypes
    <3> HIDE DEF q1
    <3>3. SockOK(q1)
      BY <1>2, <3>2, StayingKept DEF SockTypes
    <3>4. SockOK(q) /\ q.state = r.state
      BY <1>2, <3>2, <3>3, FailOK
    <3> HIDE DEF q
    <3> QED BY <3>1, <3>4
  <2> QED BY <2>1, <2>2 DEF C!nn_sock_term
<1>4. /\ DOMAIN sock' = C!Obj
      /\ \A p \in C!Obj : SockOK(sock'[p])
                          /\ Moves(sock[p].state, sock'[p].state)
  BY <1>1, <1>3, OneSocket DEF Moves
<1>5. PICK pc \in {"relesem", "finish"} : thr' = [thr EXCEPT ![t].pc = pc]
  BY DEF C!nn_sock_term
<1> DEFINE x == [thr[t] EXCEPT !.pc = pc]
<1>6. /\ DOMAIN x = DOMAIN thr[t] /\ x.pc = pc /\ x.op = thr[t].op
      /\ x.obj = thr[t].obj /\ x.scan = thr[t].scan /\ x.slot = thr[t].slot
  BY <1>2 DEF ThrOK
<1>7. thr' = [thr EXCEPT ![t] = x]
  BY <1>2, <1>5
<1> HIDE DEF x
<1>8. ThrOK(x)
  BY <1>1, <1>2, <1>6 DEF ThrOK, ClosePc
<1>9. /\ DOMAIN thr' = Thread
      /\ \A u \in Thread :
           /\ ThrOK(thr'[u])
           /\ thr'[u].pc \in ClosePc =>
                /\ thr[u].pc \in ClosePc
                /\ thr'[u].obj = thr[u].obj /\ thr'[u].slot = thr[u].slot
  BY <1>1, <1>2, <1>6, <1>7, <1>8 DEF CoreInv
<1> QED BY <1>1, <1>4, <1>9, Quiet DEF CoreInv

(* A call takes a hold.                                                    *)
LEMMA KHold ==
  ASSUME CoreInv, NEW t \in Thread, NEW s \in C!Slot, NEW op,
         C!nn_global_hold_socket(t, op, s)
  PROVE  CoreInv'
<1> DEFINE o == glob.socks[s]
           r == sock[o]
           q == C!nn_sock_hold(r)
           x == [thr[t] EXCEPT !.pc = "held", !.op = op, !.obj = o]
<1>1. o \in C!Obj /\ glob' = glob /\ thr[t].pc = "idle"
  BY DEF C!nn_global_hold_socket, C!Holdable, C!Begin, CoreInv, GlobOK
<1>2. SockOK(r) /\ SockTypes(r) /\ ThrOK(thr[t])
      /\ DOMAIN sock = C!Obj /\ DOMAIN thr = Thread
  BY <1>1 DEF CoreInv, SockOK, Staying
<1>3. /\ sock' = [sock EXCEPT ![o] = q] /\ thr' = [thr EXCEPT ![t] = x]
  BY <1>1, <1>2 DEF C!nn_global_hold_socket
<1>4. /\ DOMAIN q = DOMAIN r /\ q.state = r.state /\ q.fd = r.fd
      /\ q.flags = r.flags /\ q.ready = r.ready
  BY <1>2 DEF C!nn_sock_hold, SockTypes
<1>5. /\ DOMAIN x = DOMAIN thr[t] /\ x.pc = "held"
      /\ x.obj = o /\ x.scan = thr[t].scan
  BY <1>2 DEF ThrOK
<1> HIDE DEF q, x
<1>6. SockOK(q)
  BY <1>2, <1>4, StayingKept DEF SockTypes
<1>7. ThrOK(x) /\ x.pc \notin ClosePc
  BY <1>1, <1>2, <1>5 DEF ThrOK, InPc, ClosePc
<1> HIDE DEF o
<1>8. /\ DOMAIN sock' = C!Obj
      /\ \A p \in C!Obj : SockOK(sock'[p])
                          /\ Moves(sock[p].state, sock'[p].state)
  BY <1>1, <1>3, <1>4, <1>6, OneSocket DEF Moves
<1>9. /\ DOMAIN thr' = Thread
      /\ \A u \in Thread :
           /\ ThrOK(thr'[u])
           /\ thr'[u].pc \in ClosePc =>
                /\ thr[u].pc \in ClosePc
                /\ thr'[u].obj = thr[u].obj /\ thr'[u].slot = thr[u].slot
  BY <1>3, <1>7, OneThread
<1> QED BY <1>1, <1>8, <1>9, Quiet DEF CoreInv

(* A report of a worker to socket o.                                       *)
LEMMA WorkerKeeps ==
  ASSUME CoreInv, NEW o \in C!Obj, NEW r, Staying(r),
         Moves(sock[o].state, r.state), C!Worker(o, r)
  PROVE  CoreInv'
<1> DEFINE q == C!nn_sock_onleave(r)
<1>1. sock' = [sock EXCEPT ![o] = q] /\ UNCHANGED <<glob, thr>>
  BY DEF C!Worker
<1>2. SockOK(q) /\ q.state = r.state
  BY OnLeave DEF SameBut
<1> HIDE DEF q
<1>3. /\ DOMAIN sock' = C!Obj
      /\ \A p \in C!Obj : SockOK(sock'[p])
                          /\ Moves(sock[p].state, sock'[p].state)
  BY <1>1, <1>2, OneSocket
<1> QED BY <1>1, <1>3, Quiet DEF CoreInv

(* The steps of the worker thread: endpoints, protocol, pipes.             *)
LEMMA KWorkers ==
  ASSUME CoreInv, NEW o \in C!Obj,
         \/ C!EpStopped(o) \/ C!ProtocolStopped(o) \/ C!nn_sock_rm(o)
         \/ \E d \in C!Dir : C!PipeReady(o, d)
  PROVE  CoreInv'
<1> DEFINE r == sock[o]
<1>1. SockOK(r) /\ Staying(r) /\ SockTypes(r)
  BY DEF CoreInv, SockOK, Staying
<1>2. CASE C!EpStopped(o)
  <2>1. PICK e : C!Worker(o, C!nn_ep_stopped(r, e))
    BY <1>2 DEF C!EpStopped
  <2> QED BY <1>1, <2>1, EpStoppedOK, WorkerKeeps DEF Moves
<1>3. CASE C!ProtocolStopped(o)
  <2>1. C!Worker(o, C!Finish1(r)) /\ r.state = "STOPPING"
    BY <1>3 DEF C!ProtocolStopped
  <2> QED BY <1>1, <2>1, Finish1OK, WorkerKeeps DEF Moves, Ending
<1>4. CASE C!nn_sock_rm(o) \/ \E d \in C!Dir : C!PipeReady(o, d)
  <2>1. PICK z \in SUBSET C!Dir : C!Worker(o, [r EXCEPT !.ready = z])
    <3>1. CASE C!nn_sock_rm(o)
      BY <1>1, <3>1 DEF C!nn_sock_rm, SockTypes
    <3>2. CASE \E d \in C!Dir : C!PipeReady(o, d)
      <4>1. PICK d \in C!Dir : C!PipeReady(o, d)
        BY <3>2
      <4>2. r.ready \cup {d} \in SUBSET C!Dir
        BY <1>1 DEF SockTypes
      <4> QED BY <4>1, <4>2 DEF C!PipeReady
    <3> QED BY <1>4, <3>1, <3>2
  <2> DEFINE q == [r EXCEPT !.ready = z]
  <2>2. /\ DOMAIN q = DOMAIN r /\ q.state = r.state /\ q.fd = r.fd
        /\ q.flags = r.flags /\ q.ready = z
    BY <1>1 DEF SockTypes
  <2>3. C!Worker(o, q)
    BY <2>1
  <2> HIDE DEF q
  <2>4. Staying(q)
    BY <1>1, <2>2, StayingKept
  <2> QED BY <2>2, <2>3, <2>4, WorkerKeeps DEF Moves
<1> QED BY <1>2, <1>3, <1>4

-----------------------------------------------------------------------------
(* The table                                                               *)

(* A change of the flags.                                                  *)
LEMMA FlagsOK ==
  ASSUME NEW g, GlobOK(g), NEW f, NEW h, h = [g EXCEPT !.flags = f]
  PROVE  GlobOK(h) /\ h.socks = g.socks
<1>1. /\ DOMAIN h = DOMAIN g /\ h.live = g.live /\ h.nsocks = g.nsocks
      /\ h.socks = g.socks /\ h.unused = g.unused
  BY DEF GlobOK
<1>2. Free(h) = Free(g)
  BY <1>1 DEF Free
<1>3. \A n : Stack(g, n) <=> Stack(h, n)
  BY <1>1, <1>2 DEF Stack
<1> QED BY <1>1, <1>3 DEF GlobOK

(* nn_term begins, and nn_init.                                            *)
LEMMA KTerm ==
  ASSUME CoreInv, NEW t \in Thread, C!nn_term(t) \/ C!nn_init(t)
  PROVE  CoreInv'
<1>1. PICK f : glob' = [glob EXCEPT !.flags = f]
  BY DEF C!nn_term, C!nn_init
<1>2. GlobOK(glob') /\ glob'.socks = glob.socks
  BY <1>1, FlagsOK DEF CoreInv
<1>3. sock' = sock /\ thr[t].pc = "idle" /\ ThrOK(thr[t])
      /\ DOMAIN thr = Thread
  BY DEF C!nn_term, C!nn_init, C!Begin, CoreInv
<1> DEFINE x == [thr[t] EXCEPT !.pc = "scan", !.scan = 1]
<1>4. thr' = thr \/ thr' = [thr EXCEPT ![t] = x]
  BY <1>3 DEF C!nn_term, C!nn_init
<1>5. DOMAIN x = DOMAIN thr[t] /\ x.pc = "scan" /\ x.scan = 1
  BY <1>3 DEF ThrOK
<1> HIDE DEF x
<1>6. ThrOK(x) /\ x.pc \notin ClosePc
  BY <1>3, <1>5 DEF ThrOK, InPc, ClosePc
<1>7. /\ DOMAIN thr' = Thread
      /\ \A u \in Thread :
           /\ ThrOK(thr'[u])
           /\ thr'[u].pc \in ClosePc =>
                /\ thr[u].pc \in ClosePc
                /\ thr'[u].obj = thr[u].obj /\ thr'[u].slot = thr[u].slot
  BY <1>4, <1>6, OneThread DEF CoreInv
<1> QED BY <1>2, <1>3, <1>7, Quiet DEF CoreInv, Moves

(* The slots.                                                              *)
LEMMA SlotFacts ==
  /\ MAX_SOCKETS \in Nat /\ C!Slot = 0 .. MAX_SOCKETS - 1
  /\ IsFiniteSet(C!Slot) /\ Cardinality(C!Slot) = MAX_SOCKETS
  /\ C!Obj = 1 .. MaxSock /\ MaxSock \in Nat /\ 0 \notin C!Obj
<1>1. /\ MAX_SOCKETS \in Nat /\ C!Slot = 0 .. MAX_SOCKETS - 1
      /\ C!Obj = 1 .. MaxSock /\ MaxSock \in Nat
  BY CoreAssumption DEF C!Slot, C!Obj
<1>2. /\ IsFiniteSet(0 .. MAX_SOCKETS - 1)
      /\ Cardinality(0 .. MAX_SOCKETS - 1)
           = IF 0 > MAX_SOCKETS - 1 THEN 0 ELSE MAX_SOCKETS - 1 - 0 + 1
  BY <1>1, FS_Interval
<1>3. Cardinality(C!Slot) = MAX_SOCKETS
  BY <1>1, <1>2
<1> QED BY <1>1, <1>2, <1>3

(* The free slots of a table in use.                                       *)
LEMMA FreeFacts ==
  ASSUME NEW g, GlobOK(g)
  PROVE  /\ Free(g) \subseteq C!Slot /\ IsFiniteSet(Free(g))
         /\ g.nsocks \in Nat /\ g.nsocks <= MAX_SOCKETS
         /\ Cardinality(Free(g)) = MAX_SOCKETS - g.nsocks
         /\ g.nsocks = 0 => \A s \in C!Slot : g.socks[s] = 0
<1>1. Free(g) \subseteq C!Slot /\ IsFiniteSet(Free(g))
  BY SlotFacts, FS_Subset DEF Free
<1>2. g.nsocks \in Nat /\ g.nsocks <= MAX_SOCKETS
  BY SlotFacts DEF GlobOK
<1>3. CASE g.live
  <2>1. Cardinality(Free(g)) = MAX_SOCKETS - g.nsocks
    BY <1>3 DEF GlobOK, Stack
  <2>2. ASSUME g.nsocks = 0 PROVE \A s \in C!Slot : g.socks[s] = 0
    <3>1. Cardinality(Free(g)) = Cardinality(C!Slot)
      BY <2>1, <2>2, SlotFacts
    <3>2. Free(g) = C!Slot
      BY <1>1, <3>1, SlotFacts, FS_Subset
    <3> QED BY <3>2 DEF Free
  <2> QED BY <1>1, <1>2, <2>1, <2>2
<1>4. CASE ~g.live
  <2>1. g.nsocks = 0 /\ Free(g) = C!Slot
    BY <1>4 DEF GlobOK, Free
  <2> QED BY <1>1, <1>2, <1>4, <2>1, SlotFacts DEF GlobOK
<1> QED BY <1>3, <1>4

(* nn_global_init: all slots are on the stack.                             *)
LEMMA InitTable ==
  ASSUME NEW g, GlobOK(g)
  PROVE  /\ GlobOK(C!nn_global_init(g)) /\ C!nn_global_init(g).live
         /\ C!nn_global_init(g).socks = g.socks
<1>1. CASE g.live
  BY <1>1 DEF C!nn_global_init
<1>2. CASE ~g.live
  <2> DEFINE h == C!nn_global_init(g)
             z == [s \in C!Slot |-> 0]
             u == [i \in C!Slot |-> MAX_SOCKETS - i - 1]
  <2>1. /\ DOMAIN h = {"live", "socks", "unused", "nsocks", "flags"}
        /\ h.live = TRUE /\ h.socks = z /\ h.unused = u /\ h.nsocks = 0
    BY <1>2 DEF C!nn_global_init
  <2>2. z = g.socks /\ z \in [C!Slot -> {0} \cup C!Obj]
    BY <1>2 DEF GlobOK
  <2>3. DOMAIN u = C!Slot /\ \A i \in C!Slot : u[i] = MAX_SOCKETS - i - 1
    OBVIOUS
  <2> HIDE DEF h, u
  <2>4. Free(h) = C!Slot
    BY <2>1 DEF Free
  <2> HIDE DEF z
  <2>5. Stack(h, MAX_SOCKETS)
    <3>1. \A i \in 0 .. MAX_SOCKETS - 1 : u[i] \in C!Slot
      BY <2>3, SlotFacts
    <3>2. ASSUME NEW s \in C!Slot
          PROVE  \E i \in 0 .. MAX_SOCKETS - 1 : u[i] = s
      <4>1. MAX_SOCKETS - s - 1 \in C!Slot
            /\ MAX_SOCKETS - (MAX_SOCKETS - s - 1) - 1 = s
        BY SlotFacts
      <4> QED BY <2>3, <4>1, SlotFacts
    <3>3. ASSUME NEW i \in C!Slot, NEW j \in C!Slot, u[i] = u[j] PROVE i = j
      BY <2>3, <3>3, SlotFacts
    <3>4. C!Slot = 0 .. MAX_SOCKETS - 1 /\ Cardinality(C!Slot) = MAX_SOCKETS
      BY SlotFacts
    <3>5. \A i, j \in 0 .. MAX_SOCKETS - 1 : u[i] = u[j] => i = j
      BY <3>3, <3>4
    <3>6. \A s \in C!Slot : \E i \in 0 .. MAX_SOCKETS - 1 : u[i] = s
      BY <3>2
    <3> QED BY <2>1, <2>4, <3>1, <3>4, <3>5, <3>6 DEF Stack
  <2>6. MAX_SOCKETS - 0 = MAX_SOCKETS /\ 0 \in 0 .. MAX_SOCKETS
    BY SlotFacts
  <2>7. \A s \in C!Slot : z[s] = 0
    BY <1>2, <2>2 DEF GlobOK
  <2> QED BY <2>1, <2>2, <2>3, <2>5, <2>6, <2>7 DEF GlobOK, h
<1> QED BY <1>1, <1>2

(* nn_global_term: the table goes when no socket is left.                  *)
LEMMA TermTable ==
  ASSUME NEW g, GlobOK(g)
  PROVE  /\ GlobOK(C!nn_global_term(g))
         /\ C!nn_global_term(g).socks = g.socks
<1>1. CASE g.nsocks > 0
  BY <1>1 DEF C!nn_global_term
<1>2. CASE ~(g.nsocks > 0)
  <2> DEFINE h == C!nn_global_term(g)
             z == [s \in C!Slot |-> 0]
             u == [s \in C!Slot |-> 0]
  <2>1. g.nsocks = 0
    BY <1>2, FreeFacts
  <2>2. h = [C!Unused EXCEPT !.flags = g.flags]
    BY <1>2 DEF C!nn_global_term
  <2>3. /\ DOMAIN h = {"live", "socks", "unused", "nsocks", "flags"}
        /\ h.live = FALSE /\ h.socks = z /\ h.unused = u /\ h.nsocks = 0
    BY <2>2 DEF C!Unused
  <2>4. \A s \in C!Slot : g.socks[s] = 0
    BY <2>1, FreeFacts
  <2>5. z = g.socks /\ z \in [C!Slot -> {0} \cup C!Obj]
    BY <2>4 DEF GlobOK
  <2>6. DOMAIN u = C!Slot
    OBVIOUS
  <2>7. 0 \in 0 .. MAX_SOCKETS
    BY SlotFacts
  <2> HIDE DEF h, u, z
  <2> QED BY <2>3, <2>4, <2>5, <2>6, <2>7 DEF GlobOK, h
<1> QED BY <1>1, <1>2

(* Socket o gets a free slot.                                              *)
Placed(socks, new, o) ==
  \E k \in C!Slot : socks[k] = 0 /\ new = [socks EXCEPT ![k] = o]

(* nn_global_create_socket: the slot on top of the stack was free.         *)
LEMMA CreateTable ==
  ASSUME NEW g, GlobOK(g), g.live, g.nsocks < MAX_SOCKETS,
         NEW o \in C!Obj, \A s \in C!Slot : g.socks[s] # o
  PROVE  /\ GlobOK(C!nn_global_create_socket(g, o))
         /\ Placed(g.socks, C!nn_global_create_socket(g, o).socks, o)
<1> DEFINE n == MAX_SOCKETS - g.nsocks
           k == g.unused[n - 1]
           h == C!nn_global_create_socket(g, o)
<1>1. n \in Nat /\ n >= 1 /\ n - 1 \in 0 .. n - 1 /\ g.nsocks \in Nat
      /\ MAX_SOCKETS - (g.nsocks + 1) = n - 1
      /\ g.nsocks + 1 \in 0 .. MAX_SOCKETS
  BY FreeFacts, SlotFacts
<1>2. Stack(g, n)
  BY DEF GlobOK
<1>3. k \in C!Slot /\ g.socks[k] = 0
  BY <1>1, <1>2 DEF Stack, Free
<1>4. /\ DOMAIN h = {"live", "socks", "unused", "nsocks", "flags"}
      /\ h.live = g.live /\ h.socks = [g.socks EXCEPT ![k] = o]
      /\ h.unused = g.unused /\ h.nsocks = g.nsocks + 1
  BY DEF C!nn_global_create_socket, GlobOK
<1> HIDE DEF h
<1>5. /\ h.socks \in [C!Slot -> {0} \cup C!Obj] /\ h.socks[k] = o
      /\ \A s \in C!Slot : s # k => h.socks[s] = g.socks[s]
  BY <1>3, <1>4 DEF GlobOK
<1>6. o # 0
  BY SlotFacts
<1> HIDE DEF k
<1>7. Free(h) = Free(g) \ {k} /\ k \in Free(g)
  BY <1>3, <1>5, <1>6 DEF Free
<1>8. Cardinality(Free(h)) = n - 1
  <2>1. IsFiniteSet(Free(g)) /\ Cardinality(Free(g)) = n
    BY FreeFacts
  <2> QED BY <1>7, <2>1, FS_RemoveElement
<1> DEFINE m == n - 1
<1>9. Stack(h, m)
  <2>1. k = g.unused[m] /\ m \in 0 .. n - 1 /\ m \in Nat
    BY <1>1 DEF k
  <2>2. \A i \in 0 .. m - 1 : i \in 0 .. n - 1 /\ i # m
    BY <1>1
  <2>3. \A i \in 0 .. n - 1 : i # m => i \in 0 .. m - 1
    BY <1>1
  <2> HIDE DEF m, n
  <2>4. ASSUME NEW i \in 0 .. m - 1 PROVE h.unused[i] \in Free(h)
    <3>1. g.unused[i] \in Free(g) /\ g.unused[i] # k
      BY <1>2, <2>1, <2>2 DEF Stack
    <3> QED BY <1>4, <1>7, <3>1
  <2>5. ASSUME NEW s \in Free(h)
        PROVE  \E i \in 0 .. m - 1 : h.unused[i] = s
    <3>1. s \in Free(g) /\ s # k
      BY <1>7
    <3>2. PICK i \in 0 .. n - 1 : g.unused[i] = s
      BY <1>2, <3>1 DEF Stack
    <3> QED BY <1>4, <2>1, <2>3, <3>1, <3>2
  <2>6. \A i, j \in 0 .. m - 1 : h.unused[i] = h.unused[j] => i = j
    BY <1>2, <1>4, <2>2 DEF Stack
  <2> QED BY <1>8, <2>4, <2>5, <2>6 DEF Stack, m
<1>10. \A s1, s2 \in C!Slot :
         h.socks[s1] = h.socks[s2] /\ h.socks[s1] # 0 => s1 = s2
  BY <1>5 DEF GlobOK
<1>11. GlobOK(h)
  BY <1>1, <1>4, <1>5, <1>9, <1>10 DEF GlobOK
<1> QED BY <1>3, <1>4, <1>11 DEF h, Placed

(* nn_close: the slot goes back on top of the stack.                       *)
LEMMA CloseTable ==
  ASSUME NEW g, GlobOK(g), NEW s \in C!Slot, g.socks[s] # 0
  PROVE  /\ GlobOK(C!nn_close_slot(g, s))
         /\ C!nn_close_slot(g, s).socks = [g.socks EXCEPT ![s] = 0]
<1> DEFINE n == MAX_SOCKETS - g.nsocks
           h == [g EXCEPT !.socks[s] = 0, !.unused[MAX_SOCKETS - g.nsocks] = s,
                          !.nsocks = @ - 1]
<1>1. g.live /\ Stack(g, n)
  BY DEF GlobOK
<1>2. n \in Nat /\ g.nsocks \in Nat /\ g.nsocks >= 1 /\ n \in C!Slot
      /\ MAX_SOCKETS - (g.nsocks - 1) = n + 1
      /\ g.nsocks - 1 \in 0 .. MAX_SOCKETS
  <2>1. g.nsocks # 0 /\ g.nsocks \in Nat /\ g.nsocks <= MAX_SOCKETS
    BY FreeFacts
  <2> QED BY <2>1, SlotFacts
<1>3. /\ DOMAIN h = {"live", "socks", "unused", "nsocks", "flags"}
      /\ h.live = g.live /\ h.socks = [g.socks EXCEPT ![s] = 0]
      /\ h.unused = [g.unused EXCEPT ![n] = s] /\ h.nsocks = g.nsocks - 1
  BY DEF GlobOK
<1>4. C!nn_close_slot(g, s) = C!nn_global_term(h)
  BY DEF C!nn_close_slot
<1> HIDE DEF h
<1>5. /\ h.socks \in [C!Slot -> {0} \cup C!Obj] /\ h.socks[s] = 0
      /\ \A s2 \in C!Slot : s2 # s => h.socks[s2] = g.socks[s2]
      /\ DOMAIN h.unused = C!Slot /\ h.unused[n] = s
      /\ \A i \in C!Slot : i # n => h.unused[i] = g.unused[i]
  BY <1>2, <1>3 DEF GlobOK
<1>6. Free(h) = Free(g) \cup {s} /\ s \notin Free(g)
  BY <1>5 DEF Free
<1>7. Cardinality(Free(h)) = n + 1
  <2>1. IsFiniteSet(Free(g)) /\ Cardinality(Free(g)) = n
    BY FreeFacts
  <2> QED BY <1>6, <2>1, FS_AddElement
<1>8. \A i \in 0 .. n - 1 : i \in C!Slot /\ i # n
  <2>1. n \in Nat /\ n \in 0 .. MAX_SOCKETS - 1 /\ MAX_SOCKETS \in Nat
    BY <1>2, SlotFacts
  <2> HIDE DEF n
  <2>2. \A i \in 0 .. n - 1 : i \in 0 .. MAX_SOCKETS - 1 /\ i # n
    BY <2>1
  <2> QED BY <2>2, SlotFacts
<1>9. Stack(h, n + 1)
  <2>1. 0 .. (n + 1) - 1 = (0 .. n - 1) \cup {n}
    BY <1>2
  <2> HIDE DEF n
  <2>2. \A i \in 0 .. n - 1 : h.unused[i] = g.unused[i]
                              /\ g.unused[i] \in Free(g)
    BY <1>1, <1>5, <1>8 DEF Stack
  <2>3. \A i \in 0 .. (n + 1) - 1 : h.unused[i] \in Free(h)
    BY <1>5, <1>6, <2>1, <2>2
  <2>4. ASSUME NEW f \in Free(h)
        PROVE  \E i \in 0 .. (n + 1) - 1 : h.unused[i] = f
    <3>1. CASE f = s
      BY <1>5, <2>1, <3>1
    <3>2. CASE f \in Free(g)
      <4>1. PICK i \in 0 .. n - 1 : g.unused[i] = f
        BY <1>1, <3>2 DEF Stack
      <4> QED BY <2>1, <2>2, <4>1
    <3> QED BY <1>6, <3>1, <3>2
  <2>5. ASSUME NEW i \in 0 .. (n + 1) - 1, NEW j \in 0 .. (n + 1) - 1,
               h.unused[i] = h.unused[j]
        PROVE  i = j
    <3>1. CASE i \in 0 .. n - 1 /\ j \in 0 .. n - 1
      BY <1>1, <2>2, <2>5, <3>1 DEF Stack
    <3>2. CASE i = n \/ j = n
      BY <1>5, <1>6, <2>1, <2>2, <2>5, <3>2
    <3> QED BY <2>1, <3>1, <3>2
  <2> QED BY <1>7, <2>3, <2>4, <2>5 DEF Stack
<1>10. \A s1, s2 \in C!Slot :
         h.socks[s1] = h.socks[s2] /\ h.socks[s1] # 0 => s1 = s2
  BY <1>5 DEF GlobOK
<1>11. GlobOK(h)
  BY <1>1, <1>2, <1>3, <1>5, <1>9, <1>10 DEF GlobOK
<1> QED BY <1>3, <1>4, <1>11, TermTable

(* nn_socket: a new socket in a free slot, or a failure.                   *)
LEMMA KSocket ==
  ASSUME CoreInv, NEW t \in Thread, C!nn_socket(t)
  PROVE  CoreInv'
<1> DEFINE g == C!nn_global_init(glob)
<1>1. GlobOK(g) /\ g.live /\ g.socks = glob.socks
  BY InitTable DEF CoreInv
<1>2. thr' = thr
  BY DEF C!nn_socket
<1> HIDE DEF g
<1>3. CASE /\ glob' = C!nn_global_term(g) /\ UNCHANGED sock
  <2>1. GlobOK(glob') /\ glob'.socks = glob.socks
    BY <1>1, <1>3, TermTable
  <2> QED BY <1>2, <1>3, <2>1, Quiet DEF CoreInv, Moves
<1>4. ASSUME NEW o, o = Cardinality({p \in C!Obj : sock[p].state # "NONE"}) + 1,
             o <= MaxSock, g.nsocks < MAX_SOCKETS,
             glob' = C!nn_global_create_socket(g, o),
             sock' = [sock EXCEPT ![o] = [C!nn_sock_init EXCEPT
                                            !.lazy = o \in Lazy]]
      PROVE  CoreInv'
  <2>1. PICK k \in 0 .. MaxSock :
          \A p \in C!Obj : sock[p].state = "NONE" <=> p > k
    BY DEF CoreInv, Allocated
  <2>2. o = k + 1
    <3>1. {p \in C!Obj : sock[p].state # "NONE"} = 1 .. k
      BY <2>1, SlotFacts
    <3>2. Cardinality(1 .. k) = IF 1 > k THEN 0 ELSE k - 1 + 1
      BY <2>1, FS_Interval
    <3>3. Cardinality(1 .. k) = k
      BY <2>1, <3>2
    <3> QED BY <1>4, <3>1, <3>3
  <2>3. o \in C!Obj /\ k + 1 \in 0 .. MaxSock /\ k \in Int
    BY <1>4, <2>1, <2>2, SlotFacts
  <2>4. sock[o].state = "NONE"
    BY <2>1, <2>2, <2>3
  <2>5. \A s \in C!Slot : g.socks[s] # o
    <3> SUFFICES ASSUME NEW s \in C!Slot, g.socks[s] = o PROVE FALSE
      OBVIOUS
    <3>1. glob.socks[s] # 0
      BY <1>1, <2>3, SlotFacts
    <3> QED BY <1>1, <2>4, <3>1 DEF CoreInv, Owned
  <2>6. GlobOK(glob')
    BY <1>1, <1>4, <2>3, <2>5, CreateTable
  <2>7. PICK j \in C!Slot : /\ glob.socks[j] = 0
                            /\ glob'.socks = [glob.socks EXCEPT ![j] = o]
    <3>1. Placed(g.socks, glob'.socks, o)
      BY <1>1, <1>4, <2>3, <2>5, CreateTable
    <3> QED BY <1>1, <3>1 DEF Placed
  <2>8. /\ glob'.socks[j] = o
        /\ \A s \in C!Slot : s # j => glob'.socks[s] = glob.socks[s]
    BY <2>7 DEF CoreInv, GlobOK
  <2> DEFINE fds == [d \in C!Dir |-> "off"]
             q == [C!nn_sock_init EXCEPT !.lazy = o \in Lazy]
  <2>9. /\ DOMAIN q = {"state", "lazy", "holds", "eps", "sdeps", "eid",
                       "term", "rele", "fd", "flags", "ready", "bad"}
        /\ q.state = "ACTIVE" /\ q.fd = fds /\ q.flags = {} /\ q.ready = {}
    BY DEF C!nn_sock_init, C!Unborn
  <2>10. DOMAIN fds = C!Dir /\ \A d \in C!Dir : fds[d] = "off"
    OBVIOUS
  <2>11. sock' = [sock EXCEPT ![o] = q]
    BY <1>4
  <2> HIDE DEF q, fds
  <2>12. SockOK(q)
    BY <2>9, <2>10 DEF SockOK, Staying, SockTypes
  <2>13. /\ DOMAIN sock' = C!Obj /\ sock'[o] = q
         /\ \A p \in C!Obj : p # o => sock'[p] = sock[p]
    BY <2>3, <2>11 DEF CoreInv
  <2>14. \A p \in C!Obj : SockOK(sock'[p])
    BY <2>12, <2>13 DEF CoreInv
  <2>15. Owned'
    <3> SUFFICES ASSUME NEW s \in C!Slot, glob'.socks[s] # 0
                 PROVE  sock'[glob'.socks[s]].state \notin {"NONE", "FREED"}
      BY DEF Owned
    <3>1. CASE s = j
      BY <2>8, <2>9, <2>13, <3>1
    <3>2. CASE s # j
      <4>1. glob'.socks[s] = glob.socks[s] /\ glob.socks[s] \in C!Obj
        BY <2>8, <3>2 DEF CoreInv, GlobOK
      <4>2. sock[glob.socks[s]].state \notin {"NONE", "FREED"}
        BY <4>1 DEF CoreInv, Owned
      <4> QED BY <2>4, <2>13, <4>1, <4>2
    <3> QED BY <3>1, <3>2
  <2>16. Closers'
    <3>1. ASSUME NEW u \in Thread, thr[u].pc \in ClosePc
          PROVE  /\ thr[u].slot \in C!Slot
                 /\ glob'.socks[thr[u].slot] = thr[u].obj
                 /\ sock'[thr[u].obj].state \in Ending
      <4>1. /\ thr[u].slot \in C!Slot /\ thr[u].obj \in C!Obj
            /\ glob.socks[thr[u].slot] = thr[u].obj
            /\ sock[thr[u].obj].state \in Ending
        BY <3>1 DEF CoreInv, Closers, ThrOK
      <4>2. thr[u].slot # j /\ thr[u].obj # o
        BY <2>4, <2>7, <4>1, SlotFacts DEF Ending
      <4> QED BY <2>8, <2>13, <4>1, <4>2
    <3> QED BY <1>2, <3>1 DEF CoreInv, Closers
  <2>17. Allocated'
    <3>1. ASSUME NEW p \in C!Obj
          PROVE  sock'[p].state = "NONE" <=> p > k + 1
      <4>1. p \in Int
        BY SlotFacts
      <4>2. CASE p = o
        BY <2>2, <2>3, <2>9, <2>13, <4>2
      <4>3. CASE p # o
        BY <2>1, <2>2, <2>3, <2>13, <4>1, <4>3
      <4> QED BY <4>2, <4>3
    <3> QED BY <2>3, <3>1 DEF Allocated
  <2> QED BY <1>2, <2>6, <2>13, <2>14, <2>15, <2>16, <2>17 DEF CoreInv
<1>5. \/ glob' = C!nn_global_term(g) /\ UNCHANGED sock
      \/ \E o : /\ o = Cardinality({p \in C!Obj : sock[p].state # "NONE"}) + 1
                /\ o <= MaxSock /\ g.nsocks < MAX_SOCKETS
                /\ glob' = C!nn_global_create_socket(g, o)
                /\ sock' = [sock EXCEPT ![o] = [C!nn_sock_init EXCEPT
                                                  !.lazy = o \in Lazy]]
  BY CountIsCardinality DEF C!nn_socket, g
<1> QED BY <1>3, <1>4, <1>5

(* The first part of nn_close: the socket ends, and this is its only close.*)
LEMMA KClose ==
  ASSUME CoreInv, NEW t \in Thread, thr[t].pc \in {"idle", "scan"},
         NEW s \in C!Slot, C!Holdable(s), C!Close(t, s)
  PROVE  CoreInv'
<1> DEFINE o == glob.socks[s]
           h == C!nn_sock_hold(sock[o])
           e == C!nn_sock_stop(h)
           e1 == C!nn_sock_rele(e)
           q == C!nn_sock_rele(e1)
           x == [thr[t] EXCEPT !.pc = "termsem", !.op = "close",
                               !.obj = o, !.slot = s]
<1>1. /\ o \in C!Obj /\ sock[o].state = "ACTIVE" /\ glob.socks[s] # 0
      /\ DOMAIN sock = C!Obj /\ DOMAIN thr = Thread /\ ThrOK(thr[t])
  BY DEF C!Holdable, CoreInv, GlobOK
<1>2. /\ glob' = glob /\ sock' = [sock EXCEPT ![o] = q]
      /\ thr' = [thr EXCEPT ![t] = x]
  BY <1>1 DEF C!Close
<1>3. Staying(sock[o]) /\ SockTypes(sock[o])
  BY <1>1 DEF CoreInv, SockOK, Staying
<1>4. /\ DOMAIN h = DOMAIN sock[o] /\ h.state = sock[o].state
      /\ h.fd = sock[o].fd /\ h.flags = sock[o].flags
      /\ h.ready = sock[o].ready
  BY <1>3 DEF C!nn_sock_hold, SockTypes
<1> HIDE DEF h
<1>5. Staying(h) /\ h.state = "ACTIVE"
  BY <1>1, <1>3, <1>4, StayingKept DEF SockTypes
<1>6. Staying(e) /\ e.state \in Ending
  BY <1>5, StopOK
<1> HIDE DEF e
<1>7. /\ DOMAIN e1 = DOMAIN e /\ e1.state = e.state /\ e1.fd = e.fd
      /\ e1.flags = e.flags /\ e1.ready = e.ready
  BY <1>6 DEF C!nn_sock_rele, Staying, SockTypes
<1> HIDE DEF e1
<1>8. Staying(e1) /\ e1.state \in Ending
  BY <1>6, <1>7, StayingKept DEF Staying, SockTypes
<1>9. /\ DOMAIN q = DOMAIN e1 /\ q.state = e1.state /\ q.fd = e1.fd
      /\ q.flags = e1.flags /\ q.ready = e1.ready
  BY <1>8 DEF C!nn_sock_rele, Staying, SockTypes
<1> HIDE DEF q
<1>10. SockOK(q) /\ q.state \in Ending
  <2>1. Staying(q) /\ q.state \in Ending
    BY <1>8, <1>9, StayingKept DEF Staying, SockTypes
  <2> QED BY <2>1 DEF SockOK, Ending
<1>11. /\ DOMAIN x = DOMAIN thr[t] /\ x.pc = "termsem" /\ x.op = "close"
       /\ x.obj = o /\ x.slot = s /\ x.scan = thr[t].scan
  BY <1>1 DEF ThrOK
<1> HIDE DEF x, o
<1>12. ThrOK(x)
  BY <1>1, <1>11 DEF ThrOK, ClosePc, InPc
<1>13. /\ DOMAIN sock' = C!Obj /\ sock'[o] = q
       /\ \A p \in C!Obj : p # o => sock'[p] = sock[p]
       /\ \A p \in C!Obj : SockOK(sock'[p])
  BY <1>1, <1>2, <1>10 DEF CoreInv
<1>14. /\ DOMAIN thr' = Thread /\ thr'[t] = x
       /\ \A u \in Thread : u # t => thr'[u] = thr[u]
       /\ \A u \in Thread : ThrOK(thr'[u])
  BY <1>1, <1>2, <1>12 DEF CoreInv
<1>15. Owned'
  <2> SUFFICES ASSUME NEW s2 \in C!Slot, glob.socks[s2] # 0
               PROVE  sock'[glob.socks[s2]].state \notin {"NONE", "FREED"}
    BY <1>2 DEF Owned
  <2>1. glob.socks[s2] \in C!Obj
    BY DEF CoreInv, GlobOK
  <2> QED BY <1>10, <1>13, <2>1 DEF CoreInv, Owned, Ending
<1>16. ASSUME NEW u \in Thread, thr[u].pc \in ClosePc
       PROVE  /\ thr[u].obj # o /\ u # t
              /\ thr[u].slot \in C!Slot /\ thr[u].obj \in C!Obj
              /\ glob.socks[thr[u].slot] = thr[u].obj
              /\ sock[thr[u].obj].state \in Ending
  BY <1>1, <1>16 DEF CoreInv, Closers, ThrOK, Ending, ClosePc
<1>17. Closers'
  <2>1. ASSUME NEW u \in Thread, thr'[u].pc \in ClosePc
        PROVE  /\ thr'[u].slot \in C!Slot
               /\ glob'.socks[thr'[u].slot] = thr'[u].obj
               /\ sock'[thr'[u].obj].state \in Ending
    <3>1. CASE u = t
      BY <1>1, <1>2, <1>10, <1>11, <1>13, <1>14, <3>1 DEF o
    <3>2. CASE u # t
      BY <1>2, <1>13, <1>14, <1>16, <2>1, <3>2
    <3> QED BY <3>1, <3>2
  <2>2. ASSUME NEW u \in Thread, NEW v \in Thread, thr'[u].pc \in ClosePc,
               thr'[v].pc \in ClosePc, thr'[u].obj = thr'[v].obj
        PROVE  u = v
    <3>1. CASE u = t /\ v # t
      BY <1>11, <1>14, <1>16, <2>2, <3>1
    <3>2. CASE u # t /\ v = t
      BY <1>11, <1>14, <1>16, <2>2, <3>2
    <3>3. CASE u # t /\ v # t
      BY <1>14, <2>2, <3>3 DEF CoreInv, Closers
    <3> QED BY <3>1, <3>2, <3>3
  <2> QED BY <2>1, <2>2 DEF Closers
<1>18. Allocated'
  <2>1. \A p \in C!Obj : sock'[p].state = "NONE" <=> sock[p].state = "NONE"
    BY <1>1, <1>10, <1>13 DEF Ending
  <2> QED BY <2>1 DEF CoreInv, Allocated
<1> QED BY <1>2, <1>13, <1>14, <1>15, <1>17, <1>18 DEF CoreInv

(* The last part of nn_close: the slot is given back, the socket is freed. *)
LEMMA KFinish ==
  ASSUME CoreInv, NEW t \in Thread, C!nn_close_finish(t)
  PROVE  CoreInv'
<1> DEFINE o == thr[t].obj
           s == thr[t].slot
           q == [C!Unborn EXCEPT !.state = "FREED"]
           x1 == [C!Idle EXCEPT !.pc = "scan", !.scan = thr[t].scan]
           x == IF thr[t].scan = 0 THEN C!Idle ELSE x1
<1>1. /\ thr[t].pc \in ClosePc /\ o \in C!Obj /\ s \in C!Slot
      /\ DOMAIN sock = C!Obj /\ DOMAIN thr = Thread /\ ThrOK(thr[t])
      /\ glob.socks[s] = o /\ sock[o].state \in Ending /\ o # 0
  BY SlotFacts DEF C!nn_close_finish, CoreInv, ThrOK, Closers, ClosePc
<1>2. /\ glob' = C!nn_close_slot(glob, s) /\ sock' = [sock EXCEPT ![o] = q]
      /\ thr' = [thr EXCEPT ![t] = x]
  BY <1>1 DEF C!nn_close_finish
<1>3. GlobOK(glob') /\ glob'.socks = [glob.socks EXCEPT ![s] = 0]
  BY <1>1, <1>2, CloseTable DEF CoreInv
<1>4. /\ glob'.socks[s] = 0
      /\ \A s2 \in C!Slot : s2 # s => glob'.socks[s2] = glob.socks[s2]
  BY <1>1, <1>3 DEF CoreInv, GlobOK
<1>5. SockOK(q) /\ q.state = "FREED"
  <2> DEFINE fds == [d \in C!Dir |-> "closed"]
  <2>1. /\ DOMAIN q = {"state", "lazy", "holds", "eps", "sdeps", "eid",
                       "term", "rele", "fd", "flags", "ready", "bad"}
        /\ q.state = "FREED" /\ q.fd = fds /\ q.flags = {} /\ q.ready = {}
    BY DEF C!Unborn
  <2>2. DOMAIN fds = C!Dir /\ \A d \in C!Dir : fds[d] = "closed"
    OBVIOUS
  <2> HIDE DEF q, fds
  <2> QED BY <2>1, <2>2 DEF SockOK, Staying, SockTypes
<1> HIDE DEF q
<1>6. ThrOK(x) /\ x.pc \notin ClosePc
  <2>1. DOMAIN x1 = DOMAIN C!Idle /\ x1.pc = "scan" /\ x1.scan = thr[t].scan
    BY DEF C!Idle
  <2> HIDE DEF x1
  <2>2. ThrOK(x1) /\ x1.pc \notin ClosePc
    BY <1>1, <2>1, IdleOK DEF ThrOK, InPc, ClosePc
  <2> QED BY <2>2, IdleOK DEF ClosePc
<1> HIDE DEF x, o, s
<1>7. /\ DOMAIN sock' = C!Obj /\ sock'[o] = q
      /\ \A p \in C!Obj : p # o => sock'[p] = sock[p]
      /\ \A p \in C!Obj : SockOK(sock'[p])
  BY <1>1, <1>2, <1>5 DEF CoreInv
<1>8. /\ DOMAIN thr' = Thread /\ thr'[t] = x
      /\ \A u \in Thread : u # t => thr'[u] = thr[u]
      /\ \A u \in Thread : ThrOK(thr'[u])
  BY <1>1, <1>2, <1>6 DEF CoreInv
<1>9. Owned'
  <2> SUFFICES ASSUME NEW s2 \in C!Slot, glob'.socks[s2] # 0
               PROVE  sock'[glob'.socks[s2]].state \notin {"NONE", "FREED"}
    BY DEF Owned
  <2>1. s2 # s /\ glob'.socks[s2] = glob.socks[s2]
    BY <1>4
  <2>2. glob.socks[s2] \in C!Obj /\ glob.socks[s2] # o
    BY <1>1, <2>1 DEF CoreInv, GlobOK
  <2> QED BY <1>7, <2>1, <2>2 DEF CoreInv, Owned
<1>10. ASSUME NEW u \in Thread, thr'[u].pc \in ClosePc
       PROVE  /\ u # t /\ thr'[u] = thr[u] /\ thr[u].pc \in ClosePc
              /\ thr[u].slot \in C!Slot /\ thr[u].obj \in C!Obj
              /\ thr[u].obj # o /\ thr[u].slot # s
              /\ glob.socks[thr[u].slot] = thr[u].obj
              /\ sock[thr[u].obj].state \in Ending
  <2>1. u # t /\ thr'[u] = thr[u] /\ thr[u].pc \in ClosePc
    BY <1>6, <1>8, <1>10
  <2>2. thr[u].obj # o
    BY <1>1, <2>1 DEF CoreInv, Closers, o
  <2> QED BY <1>1, <2>1, <2>2 DEF CoreInv, Closers, ThrOK
<1>11. Closers'
  <2>1. ASSUME NEW u \in Thread, thr'[u].pc \in ClosePc
        PROVE  /\ thr'[u].slot \in C!Slot
               /\ glob'.socks[thr'[u].slot] = thr'[u].obj
               /\ sock'[thr'[u].obj].state \in Ending
    BY <1>4, <1>7, <1>10, <2>1
  <2>2. ASSUME NEW u \in Thread, NEW v \in Thread, thr'[u].pc \in ClosePc,
               thr'[v].pc \in ClosePc, thr'[u].obj = thr'[v].obj
        PROVE  u = v
    <3>1. /\ thr'[u] = thr[u] /\ thr[u].pc \in ClosePc
          /\ thr'[v] = thr[v] /\ thr[v].pc \in ClosePc
      BY <1>10, <2>2
    <3> QED BY <2>2, <3>1 DEF CoreInv, Closers
  <2> QED BY <2>1, <2>2 DEF Closers
<1>12. Allocated'
  <2>1. \A p \in C!Obj : sock'[p].state = "NONE" <=> sock[p].state = "NONE"
    BY <1>1, <1>5, <1>7 DEF Ending
  <2> QED BY <2>1 DEF CoreInv, Allocated
<1> QED BY <1>3, <1>7, <1>8, <1>9, <1>11, <1>12 DEF CoreInv

(* nn_term goes through the slots.                                         *)
LEMMA KScan ==
  ASSUME CoreInv, NEW t \in Thread, C!Scan(t)
  PROVE  CoreInv'
<1>1. thr[t].pc = "scan" /\ ThrOK(thr[t]) /\ DOMAIN thr = Thread
  BY DEF C!Scan, CoreInv
<1> DEFINE s == thr[t].scan - 1
           x == [thr[t] EXCEPT !.scan = @ + 1]
<1>2. CASE s \in C!Slot /\ C!Holdable(s) /\ C!Close(t, s)
  BY <1>1, <1>2, KClose
<1>3. CASE thr' = [thr EXCEPT ![t].scan = @ + 1] /\ UNCHANGED <<glob, sock>>
  <2>1. thr' = [thr EXCEPT ![t] = x]
    BY <1>1, <1>3
  <2>2. /\ DOMAIN x = DOMAIN thr[t] /\ x.pc = "scan"
        /\ x.scan = thr[t].scan + 1
    BY <1>1 DEF ThrOK
  <2> HIDE DEF x
  <2>3. ThrOK(x) /\ x.pc \notin ClosePc
    BY <1>1, <2>2 DEF ThrOK, InPc, ClosePc
  <2>4. /\ DOMAIN thr' = Thread
        /\ \A u \in Thread :
             /\ ThrOK(thr'[u])
             /\ thr'[u].pc \in ClosePc =>
                  /\ thr[u].pc \in ClosePc
                  /\ thr'[u].obj = thr[u].obj /\ thr'[u].slot = thr[u].slot
    BY <2>1, <2>3, OneThread
  <2> QED BY <1>3, <2>4, Quiet DEF CoreInv, Moves
<1>4. CASE /\ glob' = [glob EXCEPT !.flags = {"TERMED"}]
           /\ thr' = [thr EXCEPT ![t] = C!Idle] /\ UNCHANGED sock
  <2>1. GlobOK(glob') /\ glob'.socks = glob.socks
    BY <1>4, FlagsOK DEF CoreInv
  <2>2. /\ DOMAIN thr' = Thread
        /\ \A u \in Thread :
             /\ ThrOK(thr'[u])
             /\ thr'[u].pc \in ClosePc =>
                  /\ thr[u].pc \in ClosePc
                  /\ thr'[u].obj = thr[u].obj /\ thr'[u].slot = thr[u].slot
    BY <1>4, IdleOK, OneThread DEF ClosePc
  <2> QED BY <1>4, <2>1, <2>2, Quiet DEF CoreInv, Moves
<1> QED BY <1>2, <1>3, <1>4 DEF C!Scan

-----------------------------------------------------------------------------
(* At first no socket exists.                                              *)
LEMMA CoreInit == C!Init => CoreInv
<1> SUFFICES ASSUME C!Init PROVE CoreInv
  OBVIOUS
<1>1. /\ DOMAIN sock = C!Obj /\ DOMAIN thr = Thread /\ glob = C!Unused
      /\ \A o \in C!Obj : sock[o] = C!Unborn
      /\ \A t \in Thread : thr[t] = C!Idle
  BY DEF C!Init
<1>2. SockOK(C!Unborn) /\ C!Unborn.state = "NONE"
  <2> DEFINE fds == [d \in C!Dir |-> "closed"]
  <2>1. /\ DOMAIN C!Unborn = {"state", "lazy", "holds", "eps", "sdeps",
                 "eid", "term", "rele", "fd", "flags", "ready", "bad"}
        /\ C!Unborn.state = "NONE" /\ C!Unborn.fd = fds
        /\ C!Unborn.flags = {} /\ C!Unborn.ready = {}
    BY DEF C!Unborn
  <2>2. DOMAIN fds = C!Dir /\ \A d \in C!Dir : fds[d] = "closed"
    OBVIOUS
  <2> HIDE DEF fds
  <2> QED BY <2>1, <2>2 DEF SockOK, Staying, SockTypes
<1>3. GlobOK(glob) /\ \A s \in C!Slot : glob.socks[s] = 0
  <2> DEFINE z == [s \in C!Slot |-> 0]
             u == [s \in C!Slot |-> 0]
  <2>1. /\ DOMAIN glob = {"live", "socks", "unused", "nsocks", "flags"}
        /\ glob.live = FALSE /\ glob.socks = z /\ glob.unused = u
        /\ glob.nsocks = 0
    BY <1>1 DEF C!Unused
  <2>2. /\ \A s \in C!Slot : z[s] = 0
        /\ z \in [C!Slot -> {0} \cup C!Obj] /\ DOMAIN u = C!Slot
    OBVIOUS
  <2>3. 0 \in 0 .. MAX_SOCKETS
    BY SlotFacts
  <2> HIDE DEF u, z
  <2> QED BY <2>1, <2>2, <2>3 DEF GlobOK
<1>4. Owned /\ Closers
  BY <1>1, <1>3, IdleOK DEF Owned, Closers, ClosePc
<1>5. Allocated
  <2>1. 0 \in 0 .. MaxSock /\ \A o \in C!Obj : o > 0
    BY SlotFacts
  <2> QED BY <1>1, <1>2, <2>1 DEF Allocated
<1> QED BY <1>1, <1>2, <1>3, <1>4, <1>5, IdleOK DEF CoreInv

(* The table of sockets and the event fds are right at any moment.         *)
THEOREM CoreInvariance == C!Spec => []CoreInv
<1>1. CoreInv /\ [C!Next]_(C!vars) => CoreInv'
  <2> SUFFICES ASSUME CoreInv, [C!Next]_(C!vars) PROVE CoreInv'
    OBVIOUS
  <2>1. ASSUME NEW t \in Thread, C!Call(t) PROVE CoreInv'
    <3>1. CASE C!nn_socket(t) \/ C!nn_term(t) \/ C!nn_init(t)
      BY <3>1, KSocket, KTerm
    <3>2. ASSUME NEW s \in C!Slot, C!nn_close(t, s) PROVE CoreInv'
      BY <3>2, KClose DEF C!nn_close, C!Begin
    <3>3. ASSUME NEW s \in C!Slot,
                 \/ C!nn_bind(t, s) \/ C!nn_connect(t, s)
                 \/ C!nn_shutdown(t, s) \/ C!nn_setsockopt(t, s)
                 \/ C!nn_getsockopt(t, s) \/ C!nn_sendmsg(t, s)
                 \/ C!nn_recvmsg(t, s)
          PROVE  CoreInv'
      BY <3>3, KHold DEF C!nn_bind, C!nn_connect, C!nn_shutdown,
         C!nn_setsockopt, C!nn_getsockopt, C!nn_sendmsg, C!nn_recvmsg
    <3> QED BY <2>1, <3>1, <3>2, <3>3 DEF C!Call
  <2>2. ASSUME NEW t \in Thread, C!InCall(t) PROVE CoreInv'
    <3>1. CASE C!nn_sock_send(t) \/ C!nn_sock_recv(t)
      BY <3>1, KTry DEF C!nn_sock_send, C!nn_sock_recv, C!Dir
    <3>2. CASE C!nn_sock_setopt(t) \/ C!nn_sock_getopt(t)
      BY <3>2, KOption DEF C!nn_sock_setopt, C!nn_sock_getopt
    <3> QED BY <2>2, <3>1, <3>2, KAddEp, KCreateEp, KRmEp, KWait, KRele
            DEF C!InCall
  <2>3. ASSUME NEW t \in Thread, C!Closing(t) PROVE CoreInv'
    BY <2>3, KSockTerm, KFinish, KScan DEF C!Closing
  <2>4. ASSUME NEW t \in Thread, C!TimedOut(t) PROVE CoreInv'
    BY <2>4, KWait
  <2>5. ASSUME NEW o \in C!Obj,
               \/ C!EpStopped(o) \/ C!ProtocolStopped(o) \/ C!nn_sock_rm(o)
               \/ \E d \in C!Dir : C!PipeReady(o, d)
        PROVE  CoreInv'
    BY <2>5, KWorkers
  <2>6. CASE UNCHANGED C!vars
    BY <2>6 DEF C!vars, CoreInv, Owned, Closers, Allocated
  <2> QED BY <2>1, <2>2, <2>3, <2>4, <2>5, <2>6 DEF C!Next
<1> QED BY <1>1, CoreInit, PTL DEF C!Spec

(* In the composition the core takes its own steps or none.                *)
LEMMA CoreBehaves == Spec => C!Spec
<1>1. Init => C!Init
  BY DEF Init
<1>2. [Next]_vars => [C!Next]_(C!vars)
  BY DEF Next, vars, core, Core, One, Two, Survey, Patterns, Subscriptions,
     Device, Memory, C!vars
<1> QED BY <1>1, <1>2, PTL DEF Spec, C!Spec

(* The stack of unused slots holds the free slots, each once: however      *)
(* nn_socket, nn_close and nn_term of any number of threads interleave, no *)
(* descriptor is given to two sockets and none is lost.                    *)
THEOREM SlotsAreRight == Spec => []SlotsRight
<1>1. CoreInv => SlotsRight
  <2> SUFFICES ASSUME CoreInv, glob.live
               PROVE  LET n == MAX_SOCKETS - glob.nsocks
                          free == {s \in C!Slot : glob.socks[s] = 0}
                      IN  /\ Cardinality(free) = n
                          /\ {glob.unused[i] : i \in 0 .. n - 1} = free
    BY CountIsCardinality DEF SlotsRight, C!SlotsRight
  <2>1. Stack(glob, MAX_SOCKETS - glob.nsocks)
    BY DEF CoreInv, GlobOK
  <2>2. Free(glob) = {s \in C!Slot : glob.socks[s] = 0}
    BY DEF Free
  <2> DEFINE n == MAX_SOCKETS - glob.nsocks
  <2>3. Cardinality(Free(glob)) = n
    BY <2>1 DEF Stack
  <2>4. {glob.unused[i] : i \in 0 .. n - 1} = Free(glob)
    <3> HIDE DEF n
    <3>1. /\ \A i \in 0 .. n - 1 : glob.unused[i] \in Free(glob)
          /\ \A s \in Free(glob) : \E i \in 0 .. n - 1 : glob.unused[i] = s
      BY <2>1 DEF Stack, n
    <3> QED BY <3>1
  <2> QED BY <2>2, <2>3, <2>4
<1> QED BY <1>1, CoreBehaves, CoreInvariance, PTL

(* A call blocked in nn_efd_wait finds its event fd signalled, or closed,  *)
(* when there is something for it and when the socket stops: no wake-up is *)
(* lost between nn_sock_onleave, a second receiver and nn_close.           *)
THEOREM WakeupsAreKept == Spec => []WakeupKept
<1>1. CoreInv => WakeupKept
  <2> SUFFICES ASSUME CoreInv, NEW t \in Thread, thr[t].pc = "wait",
                      \/ thr[t].op \in sock[thr[t].obj].ready
                      \/ sock[thr[t].obj].state # "ACTIVE"
               PROVE  sock[thr[t].obj].fd[thr[t].op] # "off"
    BY DEF WakeupKept, C!WakeupKept
  <2>1. thr[t].obj \in C!Obj /\ thr[t].op \in C!Dir
    BY DEF CoreInv, ThrOK, InPc
  <2> QED BY <2>1 DEF CoreInv, SockOK, Staying
<1> QED BY <1>1, CoreBehaves, CoreInvariance, PTL

-----------------------------------------------------------------------------
(* The holds of a socket                                                   *)

(* The calls inside socket o, and whether its nn_close has both semaphores.*)
Inside(th, o) == {t \in Thread : th[t].pc \in InPc /\ th[t].obj = o}
Ends(th, o) == \E t \in Thread : th[t].pc = "finish" /\ th[t].obj = o

(* Nothing is wrong with a socket, and its lists are empty at its end.     *)
Lists(r) ==
  /\ r.bad = {} /\ r.term \in Nat /\ r.rele \in Nat /\ r.holds \in Nat
  /\ r.state # "ACTIVE" => r.eps = {}
  /\ r.state \notin {"ACTIVE", "STOPPING_EPS"} => r.sdeps = {}
  /\ r.term > 0 => r.state = "FINI"

(* A socket has a hold of each of the n calls inside and one of its        *)
(* creator; the last release of a socket that ends is posted once.         *)
Count(r, n, e) ==
  /\ r.holds = n + IF r.state = "ACTIVE" THEN 1 ELSE 0
  /\ r.state \in {"NONE", "ACTIVE", "FREED"} => r.rele = 0
  /\ r.state \in {"NONE", "FREED"} => r.holds = 0
  /\ r.state \in Ending =>
       r.rele + (IF e THEN 1 ELSE 0) = IF r.holds = 0 THEN 1 ELSE 0

(* What a call may do beside nn_close, and when nn_close goes on.          *)
Discipline ==
  \A t \in Thread :
    /\ thr[t].pc = "held" /\ sock[thr[t].obj].state # "ACTIVE"
         => thr[t].op \in Beside
    /\ thr[t].pc \in {"relesem", "finish"} => sock[thr[t].obj].state = "FINI"

HoldInv ==
  /\ \A o \in C!Obj :
       /\ Lists(sock[o])
       /\ Count(sock[o], Cardinality(Inside(thr, o)), Ends(thr, o))
  /\ Discipline

(* Calls that add endpoints or ask for options are not made beside the     *)
(* nn_close of the same socket.                                            *)
Careful == Beside \cap {"bind", "option"} = {}

(* The calls inside a socket can be counted.                               *)
LEMMA InsideFinite ==
  ASSUME NEW th, NEW o
  PROVE  IsFiniteSet(Inside(th, o)) /\ Cardinality(Inside(th, o)) \in Nat
<1>1. Inside(th, o) \subseteq Thread /\ IsFiniteSet(Thread)
  BY CoreAssumption DEF Inside
<1>2. IsFiniteSet(Inside(th, o))
  BY <1>1, FS_Subset
<1> QED BY <1>2, FS_CardinalityType

(* A call inside keeps its socket: it is neither unborn nor freed.         *)
LEMMA InsideLives ==
  ASSUME CoreInv, HoldInv, NEW t \in Thread, thr[t].pc \in InPc
  PROVE  /\ thr[t].obj \in C!Obj /\ sock[thr[t].obj].state \notin {"NONE", "FREED"}
         /\ Cardinality(Inside(thr, thr[t].obj)) >= 1
<1> DEFINE o == thr[t].obj
           I == Inside(thr, o)
<1>1. o \in C!Obj
  BY DEF CoreInv, ThrOK
<1>2. IsFiniteSet(I) /\ Cardinality(I) \in Nat /\ t \in I
  BY InsideFinite DEF Inside
<1>3. Count(sock[o], Cardinality(I), Ends(thr, o))
  BY <1>1 DEF HoldInv
<1> HIDE DEF I, o
<1>4. Cardinality(I) # 0
  BY <1>2, FS_EmptySet
<1>5. Cardinality(I) >= 1
  BY <1>2, <1>4
<1>6. sock[o].state \notin {"NONE", "FREED"}
  BY <1>2, <1>3, <1>4 DEF Count
<1> QED BY <1>1, <1>5, <1>6 DEF I, o

(* What onleave leaves alone is all that matters here.                     *)
LEMMA SameHolds ==
  ASSUME NEW q, NEW r, SameBut(q, r)
  PROVE  /\ Lists(r) => Lists(q)
         /\ \A n, e : Count(r, n, e) => Count(q, n, e)
BY DEF SameBut, Lists, Count

(* A step after which thread u is inside the socket it was inside of, and  *)
(* nn_close is where it was.                                               *)
LEMMA SameInside ==
  ASSUME NEW th, NEW o,
         \A u \in Thread :
           /\ (th[u].pc \in InPc /\ th[u].obj = o)
                <=> (thr[u].pc \in InPc /\ thr[u].obj = o)
           /\ (th[u].pc = "finish" /\ th[u].obj = o)
                <=> (thr[u].pc = "finish" /\ thr[u].obj = o)
  PROVE  Inside(th, o) = Inside(thr, o) /\ Ends(th, o) = Ends(thr, o)
<1>1. Inside(th, o) = Inside(thr, o)
  BY DEF Inside
<1>2. Ends(th, o) <=> Ends(thr, o)
  BY DEF Ends
<1>3. Ends(th, o) \in BOOLEAN /\ Ends(thr, o) \in BOOLEAN
  BY DEF Ends
<1> QED BY <1>1, <1>2, <1>3

(* A stay of a call in its socket.                                         *)
LEMMA InCtxHolds ==
  ASSUME CoreInv, HoldInv, NEW t \in Thread, thr[t].pc \in InPc,
         NEW r, Staying(r), Lists(r),
         r.state = sock[thr[t].obj].state, r.holds = sock[thr[t].obj].holds,
         r.rele = sock[thr[t].obj].rele,
         NEW pc \in {"wait", "rele"}, C!InCtx(t, r, pc)
  PROVE  HoldInv'
<1> DEFINE o == thr[t].obj
           q == C!nn_sock_onleave(r)
           x == [thr[t] EXCEPT !.pc = pc]
<1>1. o \in C!Obj /\ DOMAIN sock = C!Obj /\ DOMAIN thr = Thread
      /\ sock[o].state # "FREED" /\ ThrOK(thr[t])
  BY InsideLives DEF CoreInv
<1>2. sock' = [sock EXCEPT ![o] = q] /\ thr' = [thr EXCEPT ![t] = x]
  BY <1>1 DEF C!InCtx
<1>3. SameBut(q, r)
  BY OnLeave
<1>4. Lists(q)
  BY <1>3, SameHolds
<1>5. \A n, e : Count(sock[o], n, e) => Count(q, n, e)
  BY <1>3 DEF Count, SameBut
<1>6. x.pc = pc /\ x.obj = o /\ x.op = thr[t].op
  BY <1>1 DEF ThrOK
<1>7. q.state = sock[o].state
  BY <1>3 DEF SameBut
<1> HIDE DEF q, x, o
<1>8. /\ \A p \in C!Obj : p # o => sock'[p] = sock[p]
      /\ sock'[o] = q /\ thr'[t] = x
      /\ \A u \in Thread : u # t => thr'[u] = thr[u]
  BY <1>1, <1>2
<1>9. thr[t].obj = o /\ thr[t].pc \in InPc /\ thr[t].pc # "finish"
      /\ x.pc \in InPc /\ x.pc # "finish" /\ x.pc # "held"
      /\ x.pc \notin {"relesem", "finish"}
  BY <1>6 DEF o, InPc
<1>10. ASSUME NEW p \in C!Obj
       PROVE  Inside(thr', p) = Inside(thr, p) /\ Ends(thr', p) = Ends(thr, p)
  <2>1. \A u \in Thread :
          /\ (thr'[u].pc \in InPc /\ thr'[u].obj = p)
               <=> (thr[u].pc \in InPc /\ thr[u].obj = p)
          /\ (thr'[u].pc = "finish" /\ thr'[u].obj = p)
               <=> (thr[u].pc = "finish" /\ thr[u].obj = p)
    BY <1>6, <1>8, <1>9
  <2> QED BY <2>1, SameInside
<1>11. ASSUME NEW p \in C!Obj
       PROVE  /\ Lists(sock'[p])
              /\ Count(sock'[p], Cardinality(Inside(thr', p)), Ends(thr', p))
  BY <1>4, <1>5, <1>8, <1>10 DEF HoldInv
<1>12. \A p \in C!Obj : sock'[p].state = sock[p].state
  BY <1>7, <1>8
<1>13. Discipline'
  <2> SUFFICES ASSUME NEW u \in Thread
               PROVE  /\ thr'[u].pc = "held"
                           /\ sock'[thr'[u].obj].state # "ACTIVE"
                           => thr'[u].op \in Beside
                      /\ thr'[u].pc \in {"relesem", "finish"}
                           => sock'[thr'[u].obj].state = "FINI"
    BY DEF Discipline
  <2>1. CASE u = t
    BY <1>8, <1>9, <2>1
  <2>2. CASE u # t
    <3>1. thr[u].pc \in {"held", "relesem", "finish"} => thr[u].obj \in C!Obj
      BY DEF CoreInv, ThrOK, InPc, ClosePc
    <3> QED BY <1>8, <1>12, <2>2, <3>1 DEF HoldInv, Discipline
  <2> QED BY <2>1, <2>2
<1> QED BY <1>11, <1>13 DEF HoldInv

(* nn_sock_add_ep, which Careful keeps off closing sockets.                *)
LEMMA HAddEp ==
  ASSUME Careful, CoreInv, HoldInv, NEW t \in Thread, C!nn_sock_add_ep(t)
  PROVE  HoldInv'
<1> DEFINE r == sock[thr[t].obj]
           q == C!nn_ep_init(r)
<1>1. /\ thr[t].pc \in InPc /\ thr[t].obj \in C!Obj
      /\ C!InCtx(t, q, "rele") /\ thr[t].pc = "held" /\ thr[t].op = "bind"
  BY DEF C!nn_sock_add_ep, InPc, CoreInv, ThrOK
<1>2. Staying(r) /\ SockTypes(r) /\ r.ready \subseteq C!Dir
  BY <1>1 DEF CoreInv, SockOK, Staying, SockTypes
<1>3. r.state = "ACTIVE" /\ Lists(r)
  BY <1>1 DEF HoldInv, Discipline, Careful
<1>4. /\ DOMAIN q = DOMAIN r /\ q.state = r.state /\ q.fd = r.fd
      /\ q.flags = r.flags /\ q.ready = r.ready /\ q.holds = r.holds
      /\ q.rele = r.rele /\ q.bad = r.bad /\ q.term = r.term
  BY <1>2 DEF C!nn_ep_init, SockTypes
<1> HIDE DEF q
<1>5. Staying(q)
  BY <1>2, <1>4, StayingKept
<1>6. Lists(q)
  BY <1>3, <1>4 DEF Lists
<1> QED BY <1>1, <1>4, <1>5, <1>6, InCtxHolds

(* A failed nn_bind or nn_connect keeps the holds.                         *)
LEMMA HCreateEp ==
  ASSUME CoreInv, HoldInv, NEW t \in Thread, C!nn_global_create_ep(t)
  PROVE  HoldInv'
<1>1. /\ thr[t].pc \in InPc /\ thr[t].obj \in C!Obj
      /\ C!InCtx(t, sock[thr[t].obj], "rele")
  BY DEF C!nn_global_create_ep, InPc, CoreInv, ThrOK
<1>2. Staying(sock[thr[t].obj]) /\ Lists(sock[thr[t].obj])
  BY <1>1 DEF CoreInv, SockOK, HoldInv
<1> QED BY <1>1, <1>2, InCtxHolds

(* nn_shutdown moves an endpoint from one list to the other.               *)
LEMMA HRmEp ==
  ASSUME CoreInv, HoldInv, NEW t \in Thread, C!nn_sock_rm_ep(t)
  PROVE  HoldInv'
<1> DEFINE r == sock[thr[t].obj]
<1>1. PICK e \in 1 .. MaxEp :
        C!InCtx(t, IF e \in r.eps THEN C!nn_ep_stop(r, e) ELSE r, "rele")
  BY DEF C!nn_sock_rm_ep
<1>2. thr[t].pc \in InPc /\ thr[t].obj \in C!Obj
  BY DEF C!nn_sock_rm_ep, InPc, CoreInv, ThrOK
<1>3. Staying(r) /\ SockTypes(r) /\ r.ready \subseteq C!Dir /\ Lists(r)
  BY <1>2 DEF CoreInv, SockOK, Staying, SockTypes, HoldInv
<1> DEFINE q == IF e \in r.eps THEN C!nn_ep_stop(r, e) ELSE r
<1>4. /\ DOMAIN q = DOMAIN r /\ q.state = r.state /\ q.fd = r.fd
      /\ q.flags = r.flags /\ q.ready = r.ready /\ q.holds = r.holds
      /\ q.rele = r.rele /\ q.bad = r.bad /\ q.term = r.term
      /\ r.state # "ACTIVE" => q.eps = r.eps /\ q.sdeps = r.sdeps
  BY <1>3 DEF C!nn_ep_stop, SockTypes, Lists
<1>5. C!InCtx(t, q, "rele")
  BY <1>1
<1> HIDE DEF q
<1>6. Staying(q)
  BY <1>3, <1>4, StayingKept
<1>7. Lists(q)
  BY <1>3, <1>4 DEF Lists
<1> QED BY <1>2, <1>4, <1>5, <1>6, <1>7, InCtxHolds

(* An option, which Careful keeps off closing sockets.                     *)
LEMMA HOption ==
  ASSUME Careful, CoreInv, HoldInv, NEW t \in Thread, C!Option(t)
  PROVE  HoldInv'
<1> DEFINE r == sock[thr[t].obj]
<1>1. /\ thr[t].pc \in InPc /\ thr[t].obj \in C!Obj
      /\ thr[t].pc = "held" /\ thr[t].op = "option"
  BY DEF C!Option, InPc, CoreInv, ThrOK
<1>2. r.state = "ACTIVE" /\ Lists(r) /\ Staying(r)
  BY <1>1 DEF HoldInv, Discipline, Careful, CoreInv, SockOK
<1>3. C!InCtx(t, r, "rele")
  BY <1>2 DEF C!Option
<1> QED BY <1>1, <1>2, <1>3, InCtxHolds

(* An attempt to send or to receive keeps the holds.                       *)
LEMMA HTry ==
  ASSUME CoreInv, HoldInv, NEW t \in Thread, NEW d \in C!Dir, C!Try(t, d)
  PROVE  HoldInv'
<1> DEFINE r == sock[thr[t].obj]
           q == IF thr[t].pc = "woken" /\ r.fd[d] = "on"
                THEN [r EXCEPT !.flags = @ \cup {d}] ELSE r
           q2 == [q EXCEPT !.ready = @ \ {d}]
<1>1. thr[t].pc \in InPc /\ thr[t].obj \in C!Obj /\ thr[t].op = d
  BY DEF C!Try, InPc, CoreInv, ThrOK
<1>2. \/ C!InCtx(t, q, "rele") \/ C!InCtx(t, q, "wait")
      \/ C!InCtx(t, q2, "rele")
  BY DEF C!Try
<1>3. Staying(r) /\ SockTypes(r) /\ Lists(r)
  BY <1>1 DEF CoreInv, SockOK, Staying, HoldInv
<1>4. /\ DOMAIN q = DOMAIN r /\ q.fd = r.fd
      /\ q.ready = r.ready /\ q.flags \subseteq C!Dir
      /\ r.state = "ACTIVE" => q.flags = r.flags
      /\ SameBut(q, r)
  <2>1. CASE thr[t].pc = "woken" /\ r.fd[d] = "on"
    <3>1. q = [r EXCEPT !.flags = r.flags \cup {d}]
      BY <2>1, <1>3 DEF SockTypes
    <3>2. r.state = "ACTIVE" => d \in r.flags
      BY <1>3, <2>1 DEF Staying
    <3> HIDE DEF q
    <3> QED BY <1>3, <3>1, <3>2 DEF SockTypes, SameBut
  <2>2. CASE ~(thr[t].pc = "woken" /\ r.fd[d] = "on")
    BY <1>3, <2>2 DEF SockTypes, SameBut
  <2> QED BY <2>1, <2>2
<1> HIDE DEF q
<1>5. Staying(q) /\ Lists(q) /\ q.state = r.state
  <2>1. q.state = r.state
    BY <1>4 DEF SameBut
  <2>2. Staying(q)
    BY <1>3, <1>4, <2>1 DEF Staying, SockTypes
  <2> QED BY <1>3, <1>4, <2>1, <2>2, SameHolds
<1>6. /\ DOMAIN q2 = DOMAIN q /\ q2.fd = q.fd
      /\ q2.flags = q.flags /\ q2.ready \subseteq C!Dir /\ SameBut(q2, q)
  BY <1>3, <1>4 DEF SockTypes, SameBut
<1> HIDE DEF q2
<1>7. Staying(q2) /\ Lists(q2) /\ q2.state = r.state
  <2>1. q2.state = q.state
    BY <1>6 DEF SameBut
  <2> QED BY <1>5, <1>6, <2>1, StayingKept, SameHolds DEF Staying
<1>8. /\ q.holds = r.holds /\ q.rele = r.rele
      /\ q2.holds = r.holds /\ q2.rele = r.rele
  BY <1>4, <1>6 DEF SameBut
<1> QED BY <1>1, <1>2, <1>5, <1>7, <1>8, InCtxHolds

(* A step of thread t that changes the place of t and socket o: the other  *)
(* sockets keep their calls.                                               *)
LEMMA HoldStep ==
  ASSUME CoreInv, HoldInv, NEW t \in Thread, NEW o \in C!Obj,
         \A u \in Thread : u # t => thr'[u] = thr[u],
         \A p \in C!Obj : p # o => sock'[p] = sock[p],
         \A p \in C!Obj : p # o =>
           /\ (thr'[t].pc \in InPc /\ thr'[t].obj = p)
                <=> (thr[t].pc \in InPc /\ thr[t].obj = p)
           /\ (thr'[t].pc = "finish" /\ thr'[t].obj = p)
                <=> (thr[t].pc = "finish" /\ thr[t].obj = p),
         Lists(sock'[o]),
         Count(sock'[o], Cardinality(Inside(thr', o)), Ends(thr', o)),
         \A u \in Thread : u # t /\ thr[u].obj = o =>
           /\ thr[u].pc = "held" /\ sock'[o].state # "ACTIVE"
                => thr[u].op \in Beside
           /\ thr[u].pc \in {"relesem", "finish"} => sock'[o].state = "FINI",
         /\ thr'[t].pc = "held" /\ sock'[thr'[t].obj].state # "ACTIVE"
              => thr'[t].op \in Beside
         /\ thr'[t].pc \in {"relesem", "finish"}
              => sock'[thr'[t].obj].state = "FINI"
  PROVE  HoldInv'
<1>1. ASSUME NEW p \in C!Obj
      PROVE  /\ Lists(sock'[p])
             /\ Count(sock'[p], Cardinality(Inside(thr', p)), Ends(thr', p))
  <2>1. CASE p = o
    BY <2>1
  <2>2. CASE p # o
    <3>1. \A u \in Thread :
            /\ (thr'[u].pc \in InPc /\ thr'[u].obj = p)
                 <=> (thr[u].pc \in InPc /\ thr[u].obj = p)
            /\ (thr'[u].pc = "finish" /\ thr'[u].obj = p)
                 <=> (thr[u].pc = "finish" /\ thr[u].obj = p)
      BY <2>2
    <3>2. Inside(thr', p) = Inside(thr, p) /\ Ends(thr', p) = Ends(thr, p)
      BY <3>1, SameInside
    <3> QED BY <2>2, <3>2 DEF HoldInv
  <2> QED BY <2>1, <2>2
<1>2. Discipline'
  <2> SUFFICES ASSUME NEW u \in Thread
               PROVE  /\ thr'[u].pc = "held"
                           /\ sock'[thr'[u].obj].state # "ACTIVE"
                           => thr'[u].op \in Beside
                      /\ thr'[u].pc \in {"relesem", "finish"}
                           => sock'[thr'[u].obj].state = "FINI"
    BY DEF Discipline
  <2>1. CASE u = t
    BY <2>1
  <2>2. CASE u # t
    <3>1. thr[u].pc \in {"held", "relesem", "finish"} => thr[u].obj \in C!Obj
      BY DEF CoreInv, ThrOK, InPc, ClosePc
    <3>2. CASE thr[u].obj = o
      BY <2>2, <3>2
    <3>3. CASE thr[u].obj # o
      BY <2>2, <3>1, <3>3 DEF HoldInv, Discipline
    <3> QED BY <3>2, <3>3
  <2> QED BY <2>1, <2>2
<1> QED BY <1>1, <1>2 DEF HoldInv

(* A step of thread t outside of every context.                            *)
LEMMA ThreadStep ==
  ASSUME CoreInv, HoldInv, NEW t \in Thread, sock' = sock,
         \A u \in Thread : u # t => thr'[u] = thr[u],
         thr'[t].pc \notin {"held", "relesem", "finish"},
         thr[t].pc # "finish",
         \A p \in C!Obj : (thr'[t].pc \in InPc /\ thr'[t].obj = p)
                            <=> (thr[t].pc \in InPc /\ thr[t].obj = p)
  PROVE  HoldInv'
<1>1. ASSUME NEW p \in C!Obj
      PROVE  /\ Lists(sock'[p])
             /\ Count(sock'[p], Cardinality(Inside(thr', p)), Ends(thr', p))
  <2>1. \A u \in Thread :
          /\ (thr'[u].pc \in InPc /\ thr'[u].obj = p)
               <=> (thr[u].pc \in InPc /\ thr[u].obj = p)
          /\ (thr'[u].pc = "finish" /\ thr'[u].obj = p)
               <=> (thr[u].pc = "finish" /\ thr[u].obj = p)
    OBVIOUS
  <2>2. Inside(thr', p) = Inside(thr, p) /\ Ends(thr', p) = Ends(thr, p)
    BY <2>1, SameInside
  <2> QED BY <2>2 DEF HoldInv
<1>2. Discipline'
  <2> SUFFICES ASSUME NEW u \in Thread
               PROVE  /\ thr'[u].pc = "held"
                           /\ sock'[thr'[u].obj].state # "ACTIVE"
                           => thr'[u].op \in Beside
                      /\ thr'[u].pc \in {"relesem", "finish"}
                           => sock'[thr'[u].obj].state = "FINI"
    BY DEF Discipline
  <2>1. CASE u = t
    BY <2>1
  <2>2. CASE u # t
    BY <2>2 DEF HoldInv, Discipline
  <2> QED BY <2>1, <2>2
<1> QED BY <1>1, <1>2 DEF HoldInv

(* A thread that is woken, or times out, still has its hold.               *)
LEMMA HWait ==
  ASSUME CoreInv, HoldInv, NEW t \in Thread,
         C!nn_efd_wait(t) \/ C!TimedOut(t)
  PROVE  HoldInv'
<1>1. PICK pc \in {"woken", "rele"} :
        /\ thr' = [thr EXCEPT ![t].pc = pc] /\ UNCHANGED <<glob, sock>>
        /\ thr[t].pc = "wait"
  BY DEF C!nn_efd_wait, C!TimedOut
<1>2. DOMAIN thr = Thread /\ ThrOK(thr[t])
  BY DEF CoreInv
<1>3. /\ \A u \in Thread : u # t => thr'[u] = thr[u]
      /\ thr'[t].pc = pc /\ thr'[t].obj = thr[t].obj
  BY <1>1, <1>2 DEF ThrOK
<1>4. thr'[t].pc \in InPc /\ thr[t].pc \in InPc
      /\ thr'[t].pc \notin {"held", "relesem", "finish"}
      /\ thr[t].pc # "finish"
  BY <1>1, <1>3 DEF InPc
<1> QED BY <1>1, <1>3, <1>4, ThreadStep

(* nn_term and nn_init.                                                    *)
LEMMA HTerm ==
  ASSUME CoreInv, HoldInv, NEW t \in Thread, C!nn_term(t) \/ C!nn_init(t)
  PROVE  HoldInv'
<1>1. sock' = sock /\ thr[t].pc = "idle" /\ DOMAIN thr = Thread
      /\ ThrOK(thr[t])
  BY DEF C!nn_term, C!nn_init, C!Begin, CoreInv
<1>2. /\ \A u \in Thread : u # t => thr'[u] = thr[u]
      /\ thr'[t].pc \in {"idle", "scan"}
  BY <1>1 DEF C!nn_term, C!nn_init, ThrOK
<1> QED BY <1>1, <1>2, ThreadStep DEF InPc

(* A call returns and releases its hold; the last one posts.               *)
LEMMA HRele ==
  ASSUME CoreInv, HoldInv, NEW t \in Thread, C!nn_global_rele_socket(t)
  PROVE  HoldInv'
<1> DEFINE o == thr[t].obj
           r == sock[o]
           q == C!nn_sock_rele(r)
           n == Cardinality(Inside(thr, o))
<1>1. /\ o \in C!Obj /\ DOMAIN sock = C!Obj /\ DOMAIN thr = Thread
      /\ thr[t].pc = "rele" /\ r.state \notin {"NONE", "FREED"}
      /\ n >= 1 /\ n \in Nat /\ SockTypes(r)
  BY InsideLives, InsideFinite DEF C!nn_global_rele_socket, CoreInv, InPc,
     SockOK, Staying
<1>2. sock' = [sock EXCEPT ![o] = q] /\ thr' = [thr EXCEPT ![t] = C!Idle]
  BY <1>1 DEF C!nn_global_rele_socket
<1>3. /\ q.state = r.state /\ q.bad = r.bad /\ q.eps = r.eps
      /\ q.sdeps = r.sdeps /\ q.term = r.term /\ q.holds = r.holds - 1
      /\ q.rele = r.rele + (IF r.holds = 1 THEN 1 ELSE 0)
  BY <1>1 DEF C!nn_sock_rele, SockTypes
<1>4. Lists(r) /\ Count(r, n, Ends(thr, o))
  BY <1>1 DEF HoldInv
<1>5. r.holds \in Nat /\ r.rele \in Nat /\ r.holds >= 1
      /\ r.holds = n + IF r.state = "ACTIVE" THEN 1 ELSE 0
  BY <1>1, <1>4 DEF Lists, Count
<1> HIDE DEF q
<1>6. Lists(q)
  <2>1. q.holds \in Nat /\ q.rele \in Nat
    BY <1>3, <1>5
  <2> QED BY <1>3, <1>4, <2>1 DEF Lists
<1>7. /\ \A p \in C!Obj : p # o => sock'[p] = sock[p]
      /\ sock'[o] = q /\ thr'[t] = C!Idle /\ thr'[t].pc = "idle"
      /\ \A u \in Thread : u # t => thr'[u] = thr[u]
  BY <1>1, <1>2, IdleOK
<1>8. Inside(thr', o) = Inside(thr, o) \ {t} /\ t \in Inside(thr, o)
  BY <1>1, <1>7 DEF Inside, InPc
<1>9. Cardinality(Inside(thr', o)) = n - 1
  <2>1. IsFiniteSet(Inside(thr, o))
    BY InsideFinite
  <2> DEFINE I == Inside(thr, o)
  <2>2. Cardinality(I \ {t}) = Cardinality(I) - 1
    <3> HIDE DEF I
    <3>1. IsFiniteSet(I) /\ t \in I
      BY <1>8, <2>1 DEF I
    <3> QED BY <3>1, FS_RemoveElement
  <2> QED BY <1>8, <2>2
<1>10. Ends(thr', o) <=> Ends(thr, o)
  BY <1>1, <1>7 DEF Ends
<1> DEFINE e == IF Ends(thr, o) THEN 1 ELSE 0
<1>11. e \in {0, 1} /\ (IF Ends(thr', o) THEN 1 ELSE 0) = e
  BY <1>10
<1>12. Count(q, n - 1, Ends(thr', o))
  <2>1. CASE r.state = "ACTIVE"
    <3>1. r.holds = n + 1 /\ r.rele = 0
      BY <1>4, <2>1 DEF Count
    <3> HIDE DEF n
    <3>2. q.holds = (n - 1) + 1 /\ q.rele = 0
      BY <1>1, <1>3, <3>1
    <3> QED BY <1>3, <2>1, <3>2 DEF Count, Ending
  <2>2. CASE r.state \in Ending
    <3>1. r.holds = n /\ r.rele + e = 0
      BY <1>1, <1>4, <2>2 DEF Count, Ending
    <3> HIDE DEF n, e
    <3>2. r.rele = 0 /\ e = 0
      BY <1>5, <1>11, <3>1
    <3>3. q.holds = n - 1 /\ q.rele + e = IF q.holds = 0 THEN 1 ELSE 0
      BY <1>1, <1>3, <3>1, <3>2
    <3>4. (n - 1) + 0 = n - 1
      BY <1>1
    <3> QED BY <1>3, <1>11, <2>2, <3>3, <3>4 DEF Count, Ending
  <2> QED BY <1>1, <2>1, <2>2 DEF SockTypes
<1>13. \A u \in Thread : u # t /\ thr[u].obj = o =>
         /\ thr[u].pc = "held" /\ sock'[o].state # "ACTIVE"
              => thr[u].op \in Beside
         /\ thr[u].pc \in {"relesem", "finish"} => sock'[o].state = "FINI"
  BY <1>3, <1>7 DEF HoldInv, Discipline
<1>14. \A p \in C!Obj : p # o =>
         /\ (thr'[t].pc \in InPc /\ thr'[t].obj = p)
              <=> (thr[t].pc \in InPc /\ thr[t].obj = p)
         /\ (thr'[t].pc = "finish" /\ thr'[t].obj = p)
              <=> (thr[t].pc = "finish" /\ thr[t].obj = p)
  BY <1>1, <1>7 DEF InPc
<1>15. thr'[t].pc \notin {"held", "relesem", "finish"}
  BY <1>7
<1> HIDE DEF o, n, e
<1> QED BY <1>1, <1>6, <1>7, <1>9, <1>12, <1>13, <1>14, <1>15, HoldStep

(* A call takes a hold of an active socket.                                *)
LEMMA HHold ==
  ASSUME CoreInv, HoldInv, NEW t \in Thread, NEW s \in C!Slot, NEW op,
         C!nn_global_hold_socket(t, op, s)
  PROVE  HoldInv'
<1> DEFINE o == glob.socks[s]
           r == sock[o]
           q == C!nn_sock_hold(r)
           n == Cardinality(Inside(thr, o))
<1>1. o \in C!Obj /\ thr[t].pc = "idle" /\ r.state = "ACTIVE"
  BY DEF C!nn_global_hold_socket, C!Holdable, C!Begin, CoreInv, GlobOK
<1>2. SockTypes(r) /\ ThrOK(thr[t])
      /\ DOMAIN sock = C!Obj /\ DOMAIN thr = Thread /\ n \in Nat
  BY <1>1, InsideFinite DEF CoreInv, SockOK, Staying
<1>3. /\ sock' = [sock EXCEPT ![o] = q]
      /\ thr' = [thr EXCEPT ![t].pc = "held", ![t].op = op, ![t].obj = o]
  BY DEF C!nn_global_hold_socket
<1>4. /\ q.state = r.state /\ q.bad = r.bad /\ q.eps = r.eps
      /\ q.sdeps = r.sdeps /\ q.term = r.term /\ q.holds = r.holds + 1
      /\ q.rele = r.rele
  BY <1>2 DEF C!nn_sock_hold, SockTypes
<1>5. Lists(r) /\ Count(r, n, Ends(thr, o))
  BY <1>1 DEF HoldInv
<1> HIDE DEF q
<1>6. Lists(q)
  BY <1>4, <1>5 DEF Lists
<1>7. /\ \A p \in C!Obj : p # o => sock'[p] = sock[p]
      /\ sock'[o] = q /\ thr'[t].pc = "held" /\ thr'[t].obj = o
      /\ \A u \in Thread : u # t => thr'[u] = thr[u]
  BY <1>1, <1>2, <1>3 DEF ThrOK
<1>8. Inside(thr', o) = Inside(thr, o) \cup {t} /\ t \notin Inside(thr, o)
  BY <1>1, <1>7 DEF Inside, InPc
<1>9. Cardinality(Inside(thr', o)) = n + 1
  BY <1>8, InsideFinite, FS_AddElement
<1>10. Count(q, n + 1, Ends(thr', o))
  <2>1. r.holds = n + 1 /\ r.rele = 0
    BY <1>1, <1>5 DEF Count
  <2> HIDE DEF n
  <2>2. q.holds = (n + 1) + 1
    BY <1>2, <1>4, <2>1
  <2> QED BY <1>1, <1>4, <2>1, <2>2 DEF Count, Ending
<1>11. \A u \in Thread : u # t /\ thr[u].obj = o =>
         /\ thr[u].pc = "held" /\ sock'[o].state # "ACTIVE"
              => thr[u].op \in Beside
         /\ thr[u].pc \in {"relesem", "finish"} => sock'[o].state = "FINI"
  BY <1>1, <1>4, <1>7 DEF HoldInv, Discipline
<1>12. \A p \in C!Obj : p # o =>
         /\ (thr'[t].pc \in InPc /\ thr'[t].obj = p)
              <=> (thr[t].pc \in InPc /\ thr[t].obj = p)
         /\ (thr'[t].pc = "finish" /\ thr'[t].obj = p)
              <=> (thr[t].pc = "finish" /\ thr[t].obj = p)
  BY <1>1, <1>7 DEF InPc
<1>13. sock'[thr'[t].obj].state = "ACTIVE" /\ thr'[t].pc = "held"
  BY <1>1, <1>4, <1>7
<1> HIDE DEF o, n
<1> QED BY <1>1, <1>6, <1>7, <1>9, <1>10, <1>11, <1>12, <1>13, HoldStep

(* finish1: nn_close may go on.                                            *)
LEMMA Finish1Lists ==
  ASSUME NEW r, SockTypes(r), Lists(r), r.eps = {}, r.sdeps = {}
  PROVE  /\ Lists(C!Finish1(r)) /\ C!Finish1(r).holds = r.holds
         /\ C!Finish1(r).rele = r.rele
<1> DEFINE q == C!Finish1(r)
<1>1. /\ q.state = "FINI" /\ q.bad = r.bad /\ q.eps = r.eps
      /\ q.sdeps = r.sdeps /\ q.holds = r.holds /\ q.rele = r.rele
      /\ q.term = r.term + 1
  BY DEF C!Finish1, SockTypes
<1> HIDE DEF q
<1>2. Lists(q)
  BY <1>1 DEF Lists
<1> QED BY <1>1, <1>2 DEF q

(* finish2 finds the list of the endpoints empty.                          *)
LEMMA Finish2Lists ==
  ASSUME NEW r, SockTypes(r), Lists(r), r.state = "STOPPING_EPS"
  PROVE  /\ Lists(C!Finish2(r)) /\ C!Finish2(r).holds = r.holds
         /\ C!Finish2(r).rele = r.rele
<1>1. r.eps = {} /\ r.term = 0
  BY DEF Lists
<1>2. CASE r.sdeps # {}
  BY <1>2 DEF C!Finish2
<1>3. CASE r.sdeps = {} /\ r.lazy
  <2> DEFINE q == [r EXCEPT !.state = "STOPPING"]
  <2>1. C!Finish2(r) = q
    BY <1>1, <1>3 DEF C!Finish2
  <2>2. /\ q.state = "STOPPING" /\ q.bad = r.bad /\ q.eps = r.eps
        /\ q.sdeps = r.sdeps /\ q.holds = r.holds /\ q.rele = r.rele
        /\ q.term = r.term
    BY DEF SockTypes
  <2> HIDE DEF q
  <2>3. Lists(q)
    BY <1>1, <1>3, <2>2 DEF Lists
  <2> QED BY <2>1, <2>2, <2>3
<1>4. CASE r.sdeps = {} /\ ~r.lazy
  <2>1. C!Finish2(r) = C!Finish1(r)
    BY <1>1, <1>4 DEF C!Finish2
  <2> QED BY <1>1, <1>4, <2>1, Finish1Lists
<1> QED BY <1>2, <1>3, <1>4

(* nn_sock_stop: every endpoint is asked to stop.                          *)
LEMMA StopLists ==
  ASSUME NEW r, SockTypes(r), Lists(r), r.state = "ACTIVE"
  PROVE  /\ Lists(C!nn_sock_stop(r)) /\ C!nn_sock_stop(r).holds = r.holds
         /\ C!nn_sock_stop(r).rele = r.rele
<1> DEFINE fds == [d \in C!Dir |-> "on"]
           q == [r EXCEPT !.fd = fds, !.eps = {},
                          !.sdeps = r.sdeps \cup r.eps,
                          !.state = "STOPPING_EPS"]
<1>1. C!nn_sock_stop(r) = C!Finish2(q)
  BY DEF C!nn_sock_stop, C!StopEndpoints
<1>2. DOMAIN fds = C!Dir
  OBVIOUS
<1>3. /\ DOMAIN q = DOMAIN r /\ q.state = "STOPPING_EPS" /\ q.fd = fds
      /\ q.flags = r.flags /\ q.ready = r.ready /\ q.eps = {}
      /\ q.bad = r.bad /\ q.holds = r.holds /\ q.rele = r.rele
      /\ q.term = r.term
  BY DEF SockTypes
<1> HIDE DEF q, fds
<1>4. SockTypes(q)
  BY <1>2, <1>3 DEF SockTypes, Ending
<1>5. Lists(q)
  BY <1>3 DEF Lists
<1> QED BY <1>1, <1>3, <1>4, <1>5, Finish2Lists

(* A report of a worker: the calls stay where they are.                    *)
LEMMA WorkerHolds ==
  ASSUME CoreInv, HoldInv, NEW o \in C!Obj, NEW r, Staying(r), Lists(r),
         r.holds = sock[o].holds, r.rele = sock[o].rele,
         \/ r.state = sock[o].state
         \/ sock[o].state \in Ending \ {"FINI"} /\ r.state \in Ending,
         C!Worker(o, r)
  PROVE  HoldInv'
<1> DEFINE q == C!nn_sock_onleave(r)
<1>1. sock' = [sock EXCEPT ![o] = q] /\ thr' = thr /\ DOMAIN sock = C!Obj
  BY DEF C!Worker, CoreInv
<1>2. SameBut(q, r)
  BY OnLeave
<1>3. Lists(q)
  BY <1>2, SameHolds
<1> HIDE DEF q
<1>4. /\ \A p \in C!Obj : p # o => sock'[p] = sock[p]
      /\ sock'[o] = q
  BY <1>1
<1>5. q.state = r.state /\ q.holds = sock[o].holds /\ q.rele = sock[o].rele
  BY <1>2 DEF SameBut
<1>6. \A n, e : Count(sock[o], n, e) => Count(q, n, e)
  BY <1>5 DEF Count, Ending
<1>7. ASSUME NEW p \in C!Obj
      PROVE  /\ Lists(sock'[p])
             /\ Count(sock'[p], Cardinality(Inside(thr', p)), Ends(thr', p))
  BY <1>1, <1>3, <1>4, <1>6 DEF HoldInv
<1>8. Discipline'
  <2> SUFFICES ASSUME NEW u \in Thread
               PROVE  /\ thr[u].pc = "held"
                           /\ sock'[thr[u].obj].state # "ACTIVE"
                           => thr[u].op \in Beside
                      /\ thr[u].pc \in {"relesem", "finish"}
                           => sock'[thr[u].obj].state = "FINI"
    BY <1>1 DEF Discipline
  <2>1. thr[u].pc \in {"held", "relesem", "finish"} => thr[u].obj \in C!Obj
    BY DEF CoreInv, ThrOK, InPc, ClosePc
  <2>2. CASE thr[u].obj = o
    BY <1>4, <1>5, <2>2 DEF HoldInv, Discipline, Ending
  <2>3. CASE thr[u].obj # o
    BY <1>4, <2>1, <2>3 DEF HoldInv, Discipline
  <2> QED BY <2>2, <2>3
<1> QED BY <1>7, <1>8 DEF HoldInv

(* What the workers report never meets an assertion.                       *)
LEMMA HWorkers ==
  ASSUME CoreInv, HoldInv, NEW o \in C!Obj,
         \/ C!EpStopped(o) \/ C!ProtocolStopped(o) \/ C!nn_sock_rm(o)
         \/ \E d \in C!Dir : C!PipeReady(o, d)
  PROVE  HoldInv'
<1> DEFINE r == sock[o]
<1>1. SockOK(r) /\ Staying(r) /\ SockTypes(r) /\ Lists(r)
  BY DEF CoreInv, SockOK, Staying, HoldInv
<1>2. CASE C!EpStopped(o)
  <2>1. PICK e \in r.sdeps : C!Worker(o, C!nn_ep_stopped(r, e))
    BY <1>2 DEF C!EpStopped
  <2>2. r.state \in {"ACTIVE", "STOPPING_EPS"}
    BY <1>1, <2>1 DEF Lists
  <2> DEFINE q == [r EXCEPT !.sdeps = r.sdeps \ {e}]
             z == C!nn_ep_stopped(r, e)
  <2>3. /\ DOMAIN q = DOMAIN r /\ q.state = r.state /\ q.fd = r.fd
        /\ q.flags = r.flags /\ q.ready = r.ready /\ q.eps = r.eps
        /\ q.bad = r.bad /\ q.holds = r.holds /\ q.rele = r.rele
        /\ q.term = r.term
    BY <1>1 DEF SockTypes
  <2>4. /\ r.state = "ACTIVE" => z = q
        /\ r.state = "STOPPING_EPS" => z = C!Finish2(q)
    <3>1. ASSUME r.state = "ACTIVE" PROVE z = q
      BY <3>1 DEF C!nn_ep_stopped
    <3>2. ASSUME r.state = "STOPPING_EPS" PROVE z = C!Finish2(q)
      BY <3>2 DEF C!nn_ep_stopped
    <3> QED BY <3>1, <3>2
  <2>5. C!Worker(o, z)
    BY <2>1
  <2>6. Staying(z)
    BY <1>1, EpStoppedOK
  <2> HIDE DEF q, z
  <2>7. SockTypes(q) /\ Lists(q) /\ Staying(q)
    <3>1. r.ready \subseteq C!Dir
      BY <1>1 DEF SockTypes
    <3>2. SockTypes(q) /\ Staying(q)
      BY <1>1, <2>3, <3>1, StayingKept
    <3> QED BY <1>1, <2>2, <2>3, <3>2 DEF Lists
  <2>8. CASE r.state = "ACTIVE"
    BY <2>3, <2>4, <2>5, <2>6, <2>7, <2>8, WorkerHolds
  <2>9. CASE r.state = "STOPPING_EPS"
    <3>1. Lists(z) /\ z.holds = r.holds /\ z.rele = r.rele
      BY <2>3, <2>4, <2>7, <2>9, Finish2Lists
    <3>2. z.state \in Ending
      BY <2>3, <2>4, <2>7, <2>9, Finish2OK DEF Ending
    <3> QED BY <2>5, <2>6, <2>9, <3>1, <3>2, WorkerHolds DEF Ending
  <2> QED BY <2>2, <2>8, <2>9
<1>3. CASE C!ProtocolStopped(o)
  <2>1. C!Worker(o, C!Finish1(r)) /\ r.state = "STOPPING"
    BY <1>3 DEF C!ProtocolStopped
  <2>2. r.eps = {} /\ r.sdeps = {}
    BY <1>1, <2>1 DEF Lists
  <2>3. /\ Lists(C!Finish1(r)) /\ C!Finish1(r).holds = r.holds
        /\ C!Finish1(r).rele = r.rele
    BY <1>1, <2>2, Finish1Lists
  <2>4. Staying(C!Finish1(r)) /\ C!Finish1(r).state = "FINI"
    BY <1>1, Finish1OK
  <2> QED BY <2>1, <2>3, <2>4, WorkerHolds DEF Ending
<1>4. CASE C!nn_sock_rm(o) \/ \E d \in C!Dir : C!PipeReady(o, d)
  <2>1. PICK z \in SUBSET C!Dir : C!Worker(o, [r EXCEPT !.ready = z])
    <3>1. CASE C!nn_sock_rm(o)
      BY <1>1, <3>1 DEF C!nn_sock_rm, SockTypes
    <3>2. CASE \E d \in C!Dir : C!PipeReady(o, d)
      <4>1. PICK d \in C!Dir : C!PipeReady(o, d)
        BY <3>2
      <4>2. r.ready \cup {d} \in SUBSET C!Dir
        BY <1>1 DEF SockTypes
      <4> QED BY <4>1, <4>2 DEF C!PipeReady
    <3> QED BY <1>4, <3>1, <3>2
  <2> DEFINE q == [r EXCEPT !.ready = z]
  <2>2. /\ DOMAIN q = DOMAIN r /\ q.state = r.state /\ q.fd = r.fd
        /\ q.flags = r.flags /\ q.ready = z /\ SameBut(q, r)
    BY <1>1 DEF SockTypes, SameBut
  <2>3. C!Worker(o, q)
    BY <2>1
  <2> HIDE DEF q
  <2>4. Staying(q)
    BY <1>1, <2>2, StayingKept
  <2>5. Lists(q) /\ q.holds = r.holds /\ q.rele = r.rele
    BY <1>1, <2>2, SameHolds DEF SameBut
  <2> QED BY <2>2, <2>3, <2>4, <2>5, WorkerHolds
<1> QED BY <1>2, <1>3, <1>4

(* The two waits of nn_sock_term: after the second one no call is inside.  *)
LEMMA HSockTerm ==
  ASSUME CoreInv, HoldInv, NEW t \in Thread, C!nn_sock_term(t)
  PROVE  HoldInv'
<1> DEFINE o == thr[t].obj
           r == sock[o]
           n == Cardinality(Inside(thr, o))
<1>1. /\ thr[t].pc \in {"termsem", "relesem"} /\ o \in C!Obj
      /\ DOMAIN sock = C!Obj /\ DOMAIN thr = Thread /\ ThrOK(thr[t])
      /\ SockTypes(r) /\ r.state \in Ending /\ n \in Nat
  BY InsideFinite DEF C!nn_sock_term, CoreInv, ThrOK, ClosePc, SockOK,
     Staying, Closers
<1>2. Lists(r) /\ Count(r, n, Ends(thr, o))
  BY <1>1 DEF HoldInv
<1>3. ~Ends(thr, o)
  BY <1>1 DEF CoreInv, Closers, ClosePc, Ends
<1>4. r.holds = n /\ r.holds \in Nat /\ r.rele = IF r.holds = 0 THEN 1 ELSE 0
  <2>1. /\ r.holds = n + 0
        /\ r.rele + 0 = IF r.holds = 0 THEN 1 ELSE 0
    BY <1>1, <1>2, <1>3 DEF Count, Ending
  <2>2. r.rele \in Nat /\ r.holds \in Nat
    BY <1>2 DEF Lists
  <2> HIDE DEF n
  <2> QED BY <1>1, <2>1, <2>2
<1>5. r.state = "FINI"
  <2>1. CASE thr[t].pc = "termsem"
    BY <1>2, <2>1 DEF C!nn_sock_term, Lists
  <2>2. CASE thr[t].pc = "relesem"
    BY <2>2 DEF HoldInv, Discipline
  <2> QED BY <1>1, <2>1, <2>2
<1>6. r.eps = {} /\ r.sdeps = {}
  BY <1>2, <1>5 DEF Lists
<1>7. \A u \in Thread : u # t /\ thr[u].obj = o =>
        /\ thr[u].pc = "held" => thr[u].op \in Beside
        /\ thr[u].pc # "finish"
  BY <1>3, <1>5 DEF HoldInv, Discipline, Ends
<1>8. CASE thr[t].pc = "termsem"
  <2> DEFINE q == [r EXCEPT !.term = r.term - 1]
  <2>1. /\ sock' = [sock EXCEPT ![o] = q] /\ r.term > 0
        /\ thr' = [thr EXCEPT ![t].pc = "relesem"]
    BY <1>1, <1>8 DEF C!nn_sock_term
  <2>2. /\ q.state = r.state /\ q.bad = r.bad /\ q.eps = r.eps
        /\ q.sdeps = r.sdeps /\ q.holds = r.holds /\ q.rele = r.rele
        /\ q.term = r.term - 1
    BY <1>1 DEF SockTypes
  <2> HIDE DEF q
  <2>3. Lists(q)
    BY <1>2, <1>5, <2>1, <2>2 DEF Lists
  <2>4. /\ \A p \in C!Obj : p # o => sock'[p] = sock[p]
        /\ sock'[o] = q /\ thr'[t].pc = "relesem" /\ thr'[t].obj = o
        /\ \A u \in Thread : u # t => thr'[u] = thr[u]
    BY <1>1, <2>1 DEF ThrOK
  <2>5. \A u \in Thread :
          /\ (thr'[u].pc \in InPc /\ thr'[u].obj = o)
               <=> (thr[u].pc \in InPc /\ thr[u].obj = o)
          /\ (thr'[u].pc = "finish" /\ thr'[u].obj = o)
               <=> (thr[u].pc = "finish" /\ thr[u].obj = o)
    BY <1>8, <2>4 DEF InPc
  <2>6. Inside(thr', o) = Inside(thr, o) /\ Ends(thr', o) = Ends(thr, o)
    BY <2>5, SameInside
  <2>7. Count(q, Cardinality(Inside(thr', o)), Ends(thr', o))
    BY <1>2, <2>2, <2>6 DEF Count
  <2>8. \A p \in C!Obj : p # o =>
          /\ (thr'[t].pc \in InPc /\ thr'[t].obj = p)
               <=> (thr[t].pc \in InPc /\ thr[t].obj = p)
          /\ (thr'[t].pc = "finish" /\ thr'[t].obj = p)
               <=> (thr[t].pc = "finish" /\ thr[t].obj = p)
    BY <2>4
  <2>9. sock'[o].state = "FINI" /\ thr'[t].pc # "held"
    BY <1>5, <2>2, <2>4
  <2> HIDE DEF o, n
  <2> QED BY <1>1, <1>7, <2>3, <2>4, <2>7, <2>8, <2>9, HoldStep
<1>9. CASE thr[t].pc = "relesem"
  <2> DEFINE q == [r EXCEPT !.rele = r.rele - 1]
  <2>1. /\ sock' = [sock EXCEPT ![o] = q] /\ r.rele > 0
        /\ thr' = [thr EXCEPT ![t].pc = "finish"]
    BY <1>1, <1>6, <1>9 DEF C!nn_sock_term
  <2>2. /\ q.state = r.state /\ q.bad = r.bad /\ q.eps = r.eps
        /\ q.sdeps = r.sdeps /\ q.holds = r.holds /\ q.rele = r.rele - 1
        /\ q.term = r.term
    BY <1>1 DEF SockTypes
  <2>3. r.rele = 1 /\ r.holds = 0
    BY <1>4, <2>1
  <2> HIDE DEF q
  <2>4. q.rele = 0 /\ q.holds = 0 /\ n = 0
    BY <1>4, <2>2, <2>3
  <2>5. Lists(q)
    BY <1>2, <2>2, <2>4 DEF Lists
  <2>6. /\ \A p \in C!Obj : p # o => sock'[p] = sock[p]
        /\ sock'[o] = q /\ thr'[t].pc = "finish" /\ thr'[t].obj = o
        /\ \A u \in Thread : u # t => thr'[u] = thr[u]
    BY <1>1, <2>1 DEF ThrOK
  <2>7. Inside(thr', o) = Inside(thr, o)
    BY <1>9, <2>6 DEF Inside, InPc
  <2>8. Ends(thr', o)
    BY <2>6 DEF Ends
  <2>9. Count(q, Cardinality(Inside(thr', o)), Ends(thr', o))
    BY <1>5, <2>2, <2>4, <2>7, <2>8 DEF Count, Ending
  <2>10. \A p \in C!Obj : p # o =>
           /\ (thr'[t].pc \in InPc /\ thr'[t].obj = p)
                <=> (thr[t].pc \in InPc /\ thr[t].obj = p)
           /\ (thr'[t].pc = "finish" /\ thr'[t].obj = p)
                <=> (thr[t].pc = "finish" /\ thr[t].obj = p)
    BY <2>6
  <2>11. sock'[o].state = "FINI" /\ thr'[t].pc # "held"
    BY <1>5, <2>2, <2>6
  <2> HIDE DEF o, n
  <2> QED BY <1>1, <1>7, <2>5, <2>6, <2>9, <2>10, <2>11, HoldStep
<1> QED BY <1>1, <1>8, <1>9

(* The first part of nn_close drops the hold of the creator; the release   *)
(* is posted at once when no call is inside.                               *)
LEMMA HClose ==
  ASSUME CoreInv, HoldInv, NEW t \in Thread, thr[t].pc \in {"idle", "scan"},
         NEW s \in C!Slot, C!Holdable(s), C!Close(t, s)
  PROVE  HoldInv'
<1> DEFINE o == glob.socks[s]
           h == C!nn_sock_hold(sock[o])
           e == C!nn_sock_stop(h)
           e1 == C!nn_sock_rele(e)
           q == C!nn_sock_rele(e1)
           n == Cardinality(Inside(thr, o))
<1>1. /\ o \in C!Obj /\ sock[o].state = "ACTIVE" /\ n \in Nat
      /\ DOMAIN sock = C!Obj /\ DOMAIN thr = Thread /\ ThrOK(thr[t])
      /\ Staying(sock[o]) /\ SockTypes(sock[o])
  BY InsideFinite DEF C!Holdable, CoreInv, GlobOK, SockOK, Staying
<1>2. /\ sock' = [sock EXCEPT ![o] = q]
      /\ thr' = [thr EXCEPT ![t].pc = "termsem", ![t].op = "close",
                            ![t].obj = o, ![t].slot = s]
      /\ \A u \in Thread :
           thr[u].pc = "held" /\ thr[u].obj = o => thr[u].op \in Beside
  BY DEF C!Close
<1>3. Lists(sock[o]) /\ sock[o].holds = n + 1 /\ sock[o].rele = 0
  BY <1>1 DEF HoldInv, Count
<1>4. /\ DOMAIN h = DOMAIN sock[o] /\ h.state = sock[o].state
      /\ h.fd = sock[o].fd /\ h.flags = sock[o].flags
      /\ h.ready = sock[o].ready /\ h.eps = sock[o].eps
      /\ h.sdeps = sock[o].sdeps /\ h.bad = sock[o].bad
      /\ h.term = sock[o].term /\ h.rele = sock[o].rele
      /\ h.holds = sock[o].holds + 1
  BY <1>1 DEF C!nn_sock_hold, SockTypes
<1> HIDE DEF h, n
<1>5. h.holds = n + 2 /\ h.rele = 0
  BY <1>1, <1>3, <1>4
<1>6. Staying(h) /\ SockTypes(h) /\ h.state = "ACTIVE"
  <2>1. h.ready \subseteq C!Dir
    BY <1>1, <1>4 DEF SockTypes
  <2> HIDE DEF o
  <2> QED BY <1>1, <1>4, <2>1, StayingKept
<1>7. Lists(h)
  BY <1>1, <1>3, <1>4, <1>5 DEF Lists
<1>8. Staying(e) /\ SockTypes(e) /\ e.state \in Ending
  BY <1>6, StopOK DEF Staying
<1>9. Lists(e) /\ e.holds = n + 2 /\ e.rele = 0
  BY <1>5, <1>6, <1>7, StopLists
<1> HIDE DEF e
<1>10. /\ DOMAIN e1 = DOMAIN e /\ e1.state = e.state /\ e1.bad = e.bad
       /\ e1.eps = e.eps /\ e1.sdeps = e.sdeps /\ e1.term = e.term
       /\ e1.holds = e.holds - 1
       /\ e1.rele = e.rele + (IF e.holds = 1 THEN 1 ELSE 0)
  BY <1>8 DEF C!nn_sock_rele, SockTypes
<1> HIDE DEF e1
<1>11. e1.holds = n + 1 /\ e1.rele = 0
  BY <1>1, <1>9, <1>10
<1>12. /\ q.state = e1.state /\ q.bad = e1.bad
       /\ q.eps = e1.eps /\ q.sdeps = e1.sdeps /\ q.term = e1.term
       /\ q.holds = e1.holds - 1
       /\ q.rele = e1.rele + (IF e1.holds = 1 THEN 1 ELSE 0)
  BY <1>8, <1>10 DEF C!nn_sock_rele, SockTypes
<1> HIDE DEF q
<1>13. q.holds = n /\ q.rele = IF n = 0 THEN 1 ELSE 0
  BY <1>1, <1>11, <1>12
<1>14. Lists(q) /\ q.state \in Ending
  <2>1. /\ q.state = e.state /\ q.bad = e.bad /\ q.eps = e.eps
        /\ q.sdeps = e.sdeps /\ q.term = e.term
    BY <1>10, <1>12
  <2>2. q.holds \in Nat /\ q.rele \in Nat
    BY <1>1, <1>13
  <2> QED BY <1>8, <1>9, <2>1, <2>2 DEF Lists
<1>15. /\ \A p \in C!Obj : p # o => sock'[p] = sock[p]
       /\ sock'[o] = q /\ thr'[t].pc = "termsem" /\ thr'[t].obj = o
       /\ \A u \in Thread : u # t => thr'[u] = thr[u]
  BY <1>1, <1>2 DEF ThrOK
<1>16. \A u \in Thread : thr[u].pc \in ClosePc => thr[u].obj # o
  BY <1>1 DEF CoreInv, Closers, Ending
<1>17. Inside(thr', o) = Inside(thr, o)
  BY <1>15 DEF Inside, InPc
<1>18. ~Ends(thr', o)
  BY <1>15, <1>16 DEF Ends, ClosePc
<1>19. Count(q, Cardinality(Inside(thr', o)), Ends(thr', o))
  <2>1. Count(q, n, FALSE)
    <3>1. n + 0 = n
      BY <1>1
    <3>2. q.rele + 0 = IF q.holds = 0 THEN 1 ELSE 0
      BY <1>1, <1>13
    <3> QED BY <1>13, <1>14, <3>1, <3>2 DEF Count, Ending
  <2> QED BY <1>17, <1>18, <2>1 DEF n, Count
<1>20. \A u \in Thread : u # t /\ thr[u].obj = o =>
         /\ thr[u].pc = "held" /\ sock'[o].state # "ACTIVE"
              => thr[u].op \in Beside
         /\ thr[u].pc \in {"relesem", "finish"} => sock'[o].state = "FINI"
  BY <1>2, <1>16 DEF ClosePc
<1>21. \A p \in C!Obj : p # o =>
         /\ (thr'[t].pc \in InPc /\ thr'[t].obj = p)
              <=> (thr[t].pc \in InPc /\ thr[t].obj = p)
         /\ (thr'[t].pc = "finish" /\ thr'[t].obj = p)
              <=> (thr[t].pc = "finish" /\ thr[t].obj = p)
  BY <1>15 DEF InPc
<1>22. thr'[t].pc \notin {"held", "relesem", "finish"}
  BY <1>15
<1> HIDE DEF o
<1> QED BY <1>1, <1>14, <1>15, <1>19, <1>20, <1>21, <1>22, HoldStep

(* A step of the table and of socket o alone.                              *)
LEMMA SocketStep ==
  ASSUME CoreInv, HoldInv, NEW o \in C!Obj, thr' = thr,
         \A p \in C!Obj : p # o => sock'[p] = sock[p],
         Lists(sock'[o]),
         Count(sock'[o], Cardinality(Inside(thr, o)), Ends(thr, o)),
         \A u \in Thread :
           thr[u].pc \in {"held", "relesem", "finish"} => thr[u].obj # o
  PROVE  HoldInv'
<1>1. ASSUME NEW p \in C!Obj
      PROVE  /\ Lists(sock'[p])
             /\ Count(sock'[p], Cardinality(Inside(thr', p)), Ends(thr', p))
  <2>1. CASE p = o
    BY <2>1
  <2>2. CASE p # o
    BY <2>2 DEF HoldInv
  <2> QED BY <2>1, <2>2
<1>2. \A u \in Thread :
        thr[u].pc \in {"held", "relesem", "finish"} => thr[u].obj \in C!Obj
  BY DEF CoreInv, ThrOK, InPc, ClosePc
<1>3. Discipline'
  BY <1>2 DEF HoldInv, Discipline
<1> QED BY <1>1, <1>3 DEF HoldInv

(* nn_socket: a new socket has the hold of its creator.                    *)
LEMMA HSocket ==
  ASSUME CoreInv, HoldInv, NEW t \in Thread, C!nn_socket(t)
  PROVE  HoldInv'
<1>1. thr' = thr /\ DOMAIN sock = C!Obj
  BY DEF C!nn_socket, CoreInv
<1>2. CASE UNCHANGED sock
  BY <1>1, <1>2 DEF HoldInv, Discipline
<1>3. ASSUME NEW o, o = Cardinality({p \in C!Obj : sock[p].state # "NONE"}) + 1,
             o <= MaxSock,
             sock' = [sock EXCEPT ![o] = [C!nn_sock_init EXCEPT
                                            !.lazy = o \in Lazy]]
      PROVE  HoldInv'
  <2>1. PICK k \in 0 .. MaxSock :
          \A p \in C!Obj : sock[p].state = "NONE" <=> p > k
    BY DEF CoreInv, Allocated
  <2>2. o = k + 1
    <3>1. {p \in C!Obj : sock[p].state # "NONE"} = 1 .. k
      BY <2>1, SlotFacts
    <3>2. Cardinality(1 .. k) = IF 1 > k THEN 0 ELSE k - 1 + 1
      BY <2>1, FS_Interval
    <3>3. Cardinality(1 .. k) = k
      BY <2>1, <3>2
    <3> QED BY <1>3, <3>1, <3>3
  <2>3. o \in C!Obj
    BY <1>3, <2>1, <2>2, SlotFacts
  <2>4. sock[o].state = "NONE"
    BY <2>1, <2>2, <2>3
  <2> DEFINE q == [C!nn_sock_init EXCEPT !.lazy = o \in Lazy]
             n == Cardinality(Inside(thr, o))
  <2>5. /\ q.state = "ACTIVE" /\ q.holds = 1 /\ q.eps = {} /\ q.sdeps = {}
        /\ q.term = 0 /\ q.rele = 0 /\ q.bad = {}
    BY DEF C!nn_sock_init, C!Unborn
  <2>6. /\ sock'[o] = q
        /\ \A p \in C!Obj : p # o => sock'[p] = sock[p]
    BY <1>1, <1>3, <2>3
  <2> HIDE DEF q
  <2>7. Lists(q)
    BY <2>5 DEF Lists
  <2>8. n \in Nat
    BY InsideFinite
  <2>9. n = 0
    <3>1. sock[o].holds = n + 0 /\ sock[o].holds = 0
      BY <2>3, <2>4 DEF HoldInv, Count
    <3> HIDE DEF n
    <3> QED BY <2>8, <3>1
  <2>10. Count(q, n, Ends(thr, o))
    BY <2>5, <2>9 DEF Count, Ending
  <2>11. \A u \in Thread :
           thr[u].pc \in {"held", "relesem", "finish"} => thr[u].obj # o
    BY <2>4, InsideLives DEF CoreInv, Closers, Ending, InPc, ClosePc
  <2> QED BY <1>1, <2>3, <2>6, <2>7, <2>10, <2>11, SocketStep
<1>4. \/ UNCHANGED sock
      \/ \E o : /\ o = Cardinality({p \in C!Obj : sock[p].state # "NONE"}) + 1
                /\ o <= MaxSock
                /\ sock' = [sock EXCEPT ![o] = [C!nn_sock_init EXCEPT
                                                  !.lazy = o \in Lazy]]
  BY CountIsCardinality DEF C!nn_socket
<1> QED BY <1>2, <1>3, <1>4

(* nn_close frees the socket: no call is inside it any more.               *)
LEMMA HFinish ==
  ASSUME CoreInv, HoldInv, NEW t \in Thread, C!nn_close_finish(t)
  PROVE  HoldInv'
<1> DEFINE o == thr[t].obj
           q == [C!Unborn EXCEPT !.state = "FREED"]
           n == Cardinality(Inside(thr, o))
<1>1. /\ thr[t].pc = "finish" /\ o \in C!Obj /\ n \in Nat
      /\ DOMAIN sock = C!Obj /\ DOMAIN thr = Thread /\ ThrOK(thr[t])
      /\ sock[o].state \in Ending
  BY InsideFinite DEF C!nn_close_finish, CoreInv, ThrOK, Closers, ClosePc
<1>2. sock' = [sock EXCEPT ![o] = q]
  BY DEF C!nn_close_finish
<1>3. /\ \A u \in Thread : u # t => thr'[u] = thr[u]
      /\ thr'[t].pc \in {"idle", "scan"}
  BY <1>1 DEF C!nn_close_finish, C!Idle
<1>4. Lists(sock[o]) /\ Count(sock[o], n, TRUE)
  <2>1. Ends(thr, o)
    BY <1>1 DEF Ends
  <2> QED BY <1>1, <2>1 DEF HoldInv, Count
<1>5. n = 0
  <2>1. /\ sock[o].holds = n + 0 /\ sock[o].rele \in Nat
        /\ sock[o].rele + 1 = IF sock[o].holds = 0 THEN 1 ELSE 0
    BY <1>1, <1>4 DEF Count, Lists, Ending
  <2> HIDE DEF n
  <2> QED BY <1>1, <2>1
<1>6. /\ q.state = "FREED" /\ q.holds = 0 /\ q.eps = {} /\ q.sdeps = {}
      /\ q.term = 0 /\ q.rele = 0 /\ q.bad = {}
  BY DEF C!Unborn
<1> HIDE DEF q
<1>7. Lists(q)
  BY <1>6 DEF Lists
<1>8. /\ sock'[o] = q
      /\ \A p \in C!Obj : p # o => sock'[p] = sock[p]
  BY <1>1, <1>2
<1>9. Inside(thr', o) = Inside(thr, o)
  BY <1>1, <1>3 DEF Inside, InPc
<1>10. Count(q, Cardinality(Inside(thr', o)), Ends(thr', o))
  BY <1>5, <1>6, <1>9 DEF Count, Ending
<1>11. \A u \in Thread : u # t /\ thr[u].obj = o => thr[u].pc \notin ClosePc
  BY <1>1 DEF CoreInv, Closers, ClosePc
<1>12. Inside(thr, o) = {}
  <2>1. IsFiniteSet(Inside(thr, o))
    BY InsideFinite
  <2> DEFINE I == Inside(thr, o)
  <2>2. IsFiniteSet(I) /\ Cardinality(I) = 0
    BY <1>5, <2>1
  <2> HIDE DEF I
  <2>3. I = {}
    BY <2>2, FS_EmptySet
  <2> QED BY <2>3 DEF I
<1>13. \A u \in Thread : u # t /\ thr[u].obj = o =>
         /\ thr[u].pc = "held" /\ sock'[o].state # "ACTIVE"
              => thr[u].op \in Beside
         /\ thr[u].pc \in {"relesem", "finish"} => sock'[o].state = "FINI"
  BY <1>11, <1>12 DEF Inside, InPc, ClosePc
<1>14. \A p \in C!Obj : p # o =>
         /\ (thr'[t].pc \in InPc /\ thr'[t].obj = p)
              <=> (thr[t].pc \in InPc /\ thr[t].obj = p)
         /\ (thr'[t].pc = "finish" /\ thr'[t].obj = p)
              <=> (thr[t].pc = "finish" /\ thr[t].obj = p)
  BY <1>1, <1>3 DEF InPc
<1>15. thr'[t].pc \notin {"held", "relesem", "finish"}
  BY <1>3
<1> HIDE DEF o
<1> QED BY <1>1, <1>3, <1>7, <1>8, <1>10, <1>13, <1>14, <1>15, HoldStep

(* nn_term goes through the slots.                                         *)
LEMMA HScan ==
  ASSUME CoreInv, HoldInv, NEW t \in Thread, C!Scan(t)
  PROVE  HoldInv'
<1>1. thr[t].pc = "scan" /\ ThrOK(thr[t]) /\ DOMAIN thr = Thread
  BY DEF C!Scan, CoreInv
<1> DEFINE s == thr[t].scan - 1
<1>2. CASE s \in C!Slot /\ C!Holdable(s) /\ C!Close(t, s)
  BY <1>1, <1>2, HClose
<1>3. CASE /\ UNCHANGED sock
           /\ \/ thr' = [thr EXCEPT ![t].scan = @ + 1]
              \/ thr' = [thr EXCEPT ![t] = C!Idle]
  <2>1. /\ \A u \in Thread : u # t => thr'[u] = thr[u]
        /\ thr'[t].pc \in {"idle", "scan"}
    BY <1>1, <1>3, IdleOK DEF ThrOK
  <2> QED BY <1>1, <1>3, <2>1, ThreadStep DEF InPc
<1> QED BY <1>2, <1>3 DEF C!Scan

(* At first no call is inside.                                             *)
LEMMA HoldInit == C!Init => HoldInv
<1> SUFFICES ASSUME C!Init PROVE HoldInv
  OBVIOUS
<1>1. /\ \A o \in C!Obj : sock[o] = C!Unborn
      /\ \A t \in Thread : thr[t] = C!Idle
  BY DEF C!Init
<1>2. /\ C!Unborn.state = "NONE" /\ C!Unborn.holds = 0
      /\ C!Unborn.eps = {} /\ C!Unborn.sdeps = {}
      /\ C!Unborn.term = 0 /\ C!Unborn.rele = 0 /\ C!Unborn.bad = {}
  BY DEF C!Unborn
<1>3. \A o : Inside(thr, o) = {}
  BY <1>1, IdleOK DEF Inside, InPc
<1>4. \A o : Cardinality(Inside(thr, o)) = 0
  BY <1>3, FS_EmptySet
<1>5. Lists(C!Unborn) /\ \A e : Count(C!Unborn, 0, e)
  BY <1>2 DEF Lists, Count, Ending
<1>6. Discipline
  BY <1>1, IdleOK DEF Discipline
<1> QED BY <1>1, <1>4, <1>5, <1>6 DEF HoldInv

(* The holds of sock.c keep a socket until every call inside it has        *)
(* returned, for any number of threads: no call uses a freed socket, no    *)
(* assertion of sock.c, list.c or efd.c fails.  The hypothesis is what     *)
(* run CloseBind shows to be necessary: nn_bind, nn_connect and the        *)
(* options are not called beside the nn_close of the same socket.          *)
THEOREM NoEventIsBad == Careful => (C!Spec => [](C!NoBadEvent))
<1> SUFFICES ASSUME Careful PROVE C!Spec => [](C!NoBadEvent)
  OBVIOUS
<1>1. CoreInv /\ HoldInv /\ [C!Next]_(C!vars) => HoldInv'
  <2> SUFFICES ASSUME CoreInv, HoldInv, [C!Next]_(C!vars) PROVE HoldInv'
    OBVIOUS
  <2>1. ASSUME NEW t \in Thread, C!Call(t) PROVE HoldInv'
    <3>1. CASE C!nn_socket(t) \/ C!nn_term(t) \/ C!nn_init(t)
      BY <3>1, HSocket, HTerm
    <3>2. ASSUME NEW s \in C!Slot, C!nn_close(t, s) PROVE HoldInv'
      BY <3>2, HClose DEF C!nn_close, C!Begin
    <3>3. ASSUME NEW s \in C!Slot,
                 \/ C!nn_bind(t, s) \/ C!nn_connect(t, s)
                 \/ C!nn_shutdown(t, s) \/ C!nn_setsockopt(t, s)
                 \/ C!nn_getsockopt(t, s) \/ C!nn_sendmsg(t, s)
                 \/ C!nn_recvmsg(t, s)
          PROVE  HoldInv'
      BY <3>3, HHold DEF C!nn_bind, C!nn_connect, C!nn_shutdown,
         C!nn_setsockopt, C!nn_getsockopt, C!nn_sendmsg, C!nn_recvmsg
    <3> QED BY <2>1, <3>1, <3>2, <3>3 DEF C!Call
  <2>2. ASSUME NEW t \in Thread, C!InCall(t) PROVE HoldInv'
    <3>1. CASE C!nn_sock_send(t) \/ C!nn_sock_recv(t)
      BY <3>1, HTry DEF C!nn_sock_send, C!nn_sock_recv, C!Dir
    <3>2. CASE C!nn_sock_setopt(t) \/ C!nn_sock_getopt(t)
      BY <3>2, HOption DEF C!nn_sock_setopt, C!nn_sock_getopt
    <3> QED BY <2>2, <3>1, <3>2, HAddEp, HCreateEp, HRmEp, HWait, HRele
            DEF C!InCall
  <2>3. ASSUME NEW t \in Thread, C!Closing(t) PROVE HoldInv'
    BY <2>3, HSockTerm, HFinish, HScan DEF C!Closing
  <2>4. ASSUME NEW t \in Thread, C!TimedOut(t) PROVE HoldInv'
    BY <2>4, HWait
  <2>5. ASSUME NEW o \in C!Obj,
               \/ C!EpStopped(o) \/ C!ProtocolStopped(o) \/ C!nn_sock_rm(o)
               \/ \E d \in C!Dir : C!PipeReady(o, d)
        PROVE  HoldInv'
    BY <2>5, HWorkers
  <2>6. CASE UNCHANGED C!vars
    BY <2>6 DEF C!vars, HoldInv, Discipline
  <2> QED BY <2>1, <2>2, <2>3, <2>4, <2>5, <2>6 DEF C!Next
<1>2. HoldInv => C!NoBadEvent
  BY DEF HoldInv, Lists, C!NoBadEvent
<1> QED BY <1>1, <1>2, CoreInvariance, HoldInit, PTL DEF C!Spec
-----------------------------------------------------------------------------
(* Devices                                                                 *)

(* What nn_device was given and the threads it started stay.               *)
DevInv ==
  started = "device" =>
    /\ kind \in [1 .. 2 -> {Typed(TRUE, "REQREP", TRUE, TRUE),
                            Typed(FALSE, "REQREP", TRUE, TRUE),
                            Typed(TRUE, "BUS", TRUE, TRUE),
                            Typed(TRUE, "PUBSUB", TRUE, FALSE),
                            Typed(TRUE, "PUBSUB", FALSE, TRUE),
                            D!NoSocket}]
    /\ DOMAIN fwd = D!nn_device_entry

(* A step of the device.                                                   *)
LEMMA DeviceStep ==
  ASSUME [Next]_vars, started' = "device"
  PROVE  started = "device" /\ [D!Next]_device
BY DEF Next, vars, rest, Core, One, Two, Survey, Patterns, Subscriptions,
   Device, Memory

(* The device is kept.                                                     *)
LEMMA DevicesKept ==
  /\ Init => DevInv
  /\ DevInv /\ [Next]_vars => DevInv'
<1>1. Init => DevInv
  BY DEF Init, DevInv, D!Init
<1>2. ASSUME DevInv, [Next]_vars
      PROVE  DevInv'
  <2> SUFFICES ASSUME started' = "device"
               PROVE  kind' = kind /\ DOMAIN fwd' = DOMAIN fwd
    <3>1. kind' = kind => (D!nn_device_entry)' = D!nn_device_entry
      BY DEF D!nn_device_entry, D!nn_device_loopback
    <3>2. started' = "device" => started = "device"
      BY <1>2, DeviceStep
    <3>3. QED
      BY <1>2, <3>1, <3>2 DEF DevInv
  <2>1. started = "device" /\ [D!Next]_device
    BY <1>2, DeviceStep
  <2>2. CASE UNCHANGED device
    BY <2>2 DEF device
  <2>3. ASSUME NEW s \in 1 .. 2, D!Arrive(s) \/ D!Close(s)
        PROVE  kind' = kind /\ DOMAIN fwd' = DOMAIN fwd
    BY <2>3 DEF D!Arrive, D!Close
  <2>4. ASSUME NEW d \in DOMAIN fwd, D!nn_device_mvmsg(d)
        PROVE  kind' = kind /\ DOMAIN fwd' = DOMAIN fwd
    BY <2>4 DEF D!nn_device_mvmsg
  <2>5. QED
    BY <2>1, <2>2, <2>3, <2>4 DEF D!Next
<1>3. QED
  BY <1>1, <1>2

(* nn_device_entry tells all pairs of sockets apart, and serves the        *)
(* directions in which one receives and the other one sends.               *)
LEMMA DevicesMean ==
  ASSUME DevInv, started = "device"
  PROVE  D!EveryDirection
<1> DEFINE a == kind[1]
           b == kind[2]
           e == D!nn_device_entry
           way == {d \in (1 .. 2) \X (1 .. 2) :
                     d[1] # d[2] /\ kind[d[1]].rcv /\ kind[d[2]].snd}
<1>1. /\ \A s \in {1, 2} :
           kind[s] = D!NoSocket \/ kind[s].rcv \/ kind[s].snd
      /\ DOMAIN fwd = e
  <2>1. \A s \in 1 .. 2 :
          kind[s] \in {Typed(TRUE, "REQREP", TRUE, TRUE),
                      Typed(FALSE, "REQREP", TRUE, TRUE),
                      Typed(TRUE, "BUS", TRUE, TRUE),
                      Typed(TRUE, "PUBSUB", TRUE, FALSE),
                      Typed(TRUE, "PUBSUB", FALSE, TRUE), D!NoSocket}
    BY DEF DevInv
  <2>2. \A x, f, n : Typed(x, f, TRUE, n).rcv
    BY DEF Typed
  <2>3. \A x, f, r : Typed(x, f, r, TRUE).snd
    BY DEF Typed
  <2>4. ASSUME NEW s \in {1, 2}
        PROVE  kind[s] = D!NoSocket \/ kind[s].rcv \/ kind[s].snd
    <3>1. \/ kind[s] = Typed(TRUE, "REQREP", TRUE, TRUE)
          \/ kind[s] = Typed(FALSE, "REQREP", TRUE, TRUE)
          \/ kind[s] = Typed(TRUE, "BUS", TRUE, TRUE)
          \/ kind[s] = Typed(TRUE, "PUBSUB", TRUE, FALSE)
          \/ kind[s] = Typed(TRUE, "PUBSUB", FALSE, TRUE)
          \/ kind[s] = D!NoSocket
      BY <2>1, s \in 1 .. 2
    <3>2. QED
      BY <3>1, <2>2, <2>3, Zenon
  <2>5. QED
    BY <2>4 DEF DevInv
<1>2. /\ <<1, 2>> \in way <=> a.rcv /\ b.snd
      /\ <<2, 1>> \in way <=> b.rcv /\ a.snd
      /\ \A d \in way : d = <<1, 2>> \/ d = <<2, 1>>
  OBVIOUS
<1>3. CASE a # D!NoSocket /\ b # D!NoSocket
  <2>1. e = {} \/ e = way
    <3>1. \/ e = {}
          \/ /\ a.rcv /\ a.snd /\ b.rcv /\ b.snd
             /\ e = {<<1, 2>>, <<2, 1>>}
          \/ /\ a.rcv /\ ~a.snd /\ ~b.rcv /\ b.snd /\ e = {<<1, 2>>}
          \/ /\ ~a.rcv /\ a.snd /\ b.rcv /\ ~b.snd /\ e = {<<2, 1>>}
      BY <1>1, <1>3 DEF D!nn_device_entry, D!nn_device_twoway,
         D!nn_device_oneway
    <3> HIDE DEF way, e, a, b
    <3>2. QED
      BY <3>1, <1>2
  <2>2. <<0, 0>> \notin way
    OBVIOUS
  <2>3. QED
    BY <1>1, <2>1, <2>2 DEF D!EveryDirection, D!Assert
<1>4. CASE ~(a # D!NoSocket /\ b # D!NoSocket)
  <2>1. \A d \in e : d = <<1, 1>> \/ d = <<2, 2>>
    BY <1>4 DEF D!nn_device_entry, D!nn_device_loopback
  <2>2. <<0, 0>> \notin e
    BY <2>1
  <2>3. QED
    BY <1>1, <1>4, <2>2 DEF D!EveryDirection, D!Assert
<1>5. QED
  BY <1>3, <1>4


(* The directions a device serves: each socket is the first of one at most *)
(* and the second of one at most.                                          *)
LEMMA DeviceWays ==
  ASSUME DevInv, started = "device"
  PROVE  /\ \A d \in DOMAIN fwd : d[1] \in 1 .. 2 /\ d[2] \in 1 .. 2
         /\ \A d, f \in DOMAIN fwd : d # f => d[1] # f[1] /\ d[2] # f[2]
<1>1. DOMAIN fwd = D!nn_device_entry /\ DOMAIN fwd # {<<0, 0>>}
  BY DevicesMean DEF DevInv, D!EveryDirection, D!Assert
<1>2. \/ DOMAIN fwd = {} \/ DOMAIN fwd = {<<1, 1>>}
      \/ DOMAIN fwd = {<<2, 2>>} \/ DOMAIN fwd = {<<1, 2>>}
      \/ DOMAIN fwd = {<<2, 1>>} \/ DOMAIN fwd = {<<1, 2>>, <<2, 1>>}
  BY <1>1 DEF D!nn_device_entry, D!nn_device_loopback, D!nn_device_oneway,
     D!nn_device_twoway, D!Assert
<1> QED BY <1>2

(* A thread f of a device with n messages received and those of s sent:    *)
(* the messages are sent in their order, and the thread holds the last one *)
(* received or none.                                                       *)
Passed(f, s, n) ==
  /\ f \in [pc : {"recv", "send", "ended"}, msg : Nat]
  /\ \A i \in 1 .. Len(s) : s[i] = i
  /\ Len(s) = n - IF f.msg = 0 THEN 0 ELSE 1
  /\ f.pc = "recv" => f.msg = 0
  /\ f.pc = "send" => f.msg = n /\ n > 0

FwdInv ==
  started = "device" =>
    /\ DOMAIN taken = 1 .. 2 /\ DOMAIN out = 1 .. 2
    /\ \A s \in 1 .. 2 : taken[s] \in Nat /\ out[s] \in Seq(Nat)
    /\ \A d \in DOMAIN fwd : Passed(fwd[d], out[d[2]], taken[d[1]])

(* A thread receives: it holds the message.                                *)
LEMMA PassRecv ==
  ASSUME NEW f, NEW s \in Seq(Nat), NEW n \in Nat, Passed(f, s, n),
         f.pc = "recv"
  PROVE  Passed([pc |-> "send", msg |-> n + 1], s, n + 1)
<1>1. Len(s) = n /\ \A i \in 1 .. Len(s) : s[i] = i
  BY DEF Passed
<1> DEFINE g == [pc |-> "send", msg |-> n + 1]
<1>2. /\ g \in [pc : {"recv", "send", "ended"}, msg : Nat]
      /\ g.pc = "send" /\ g.msg = n + 1
  OBVIOUS
<1> HIDE DEF g
<1>3. Passed(g, s, n + 1)
  BY <1>1, <1>2 DEF Passed
<1> QED BY <1>3 DEF g

(* A thread sends what it holds.                                           *)
LEMMA PassSend ==
  ASSUME NEW f, NEW s \in Seq(Nat), NEW n \in Nat, Passed(f, s, n),
         f.pc = "send"
  PROVE  /\ Append(s, f.msg) \in Seq(Nat)
         /\ Passed([pc |-> "recv", msg |-> 0], Append(s, f.msg), n)
<1> DEFINE g == [pc |-> "recv", msg |-> 0]
           m == f.msg
           t == Append(s, m)
<1>1. /\ Len(s) = n - 1 /\ m = n /\ n > 0 /\ m \in Nat
      /\ \A i \in 1 .. Len(s) : s[i] = i
  BY DEF Passed
<1>2. /\ g \in [pc : {"recv", "send", "ended"}, msg : Nat]
      /\ g.pc = "recv" /\ g.msg = 0
  OBVIOUS
<1> HIDE DEF g, m
<1>3. /\ t \in Seq(Nat) /\ Len(t) = Len(s) + 1
      /\ \A i \in 1 .. Len(s) : t[i] = s[i]
      /\ t[Len(s) + 1] = m /\ Len(s) \in Nat
  BY <1>1, AppendProperties, LenProperties
<1> HIDE DEF t
<1>4. \A i \in 1 .. Len(t) : t[i] = i
  <2> SUFFICES ASSUME NEW i \in 1 .. Len(t) PROVE t[i] = i
    OBVIOUS
  <2>1. i \in 1 .. Len(s) \/ i = Len(s) + 1
    BY <1>3
  <2> QED BY <1>1, <1>3, <2>1
<1>5. Passed(g, t, n)
  BY <1>1, <1>2, <1>3, <1>4 DEF Passed
<1> QED BY <1>3, <1>5 DEF g, m, t

(* A thread ends.                                                          *)
LEMMA PassEnd ==
  ASSUME NEW f, NEW s, NEW n, Passed(f, s, n)
  PROVE  Passed([f EXCEPT !.pc = "ended"], s, n)
<1> DEFINE g == [f EXCEPT !.pc = "ended"]
<1>1. f \in [pc : {"recv", "send", "ended"}, msg : Nat]
  BY DEF Passed
<1>2. /\ g \in [pc : {"recv", "send", "ended"}, msg : Nat]
      /\ g.pc = "ended" /\ g.msg = f.msg
  BY <1>1
<1> HIDE DEF g
<1>3. Passed(g, s, n)
  BY <1>2 DEF Passed
<1> QED BY <1>3 DEF g

(* nn_device_mvmsg.                                                        *)
LEMMA MvmsgOK ==
  ASSUME DevInv, FwdInv, started = "device", started' = "device",
         NEW d \in DOMAIN fwd, D!nn_device_mvmsg(d)
  PROVE  FwdInv'
<1> DEFINE a == d[1]
           b == d[2]
           f == fwd[d]
<1>1. /\ DOMAIN taken = 1 .. 2 /\ DOMAIN out = 1 .. 2
      /\ \A s \in 1 .. 2 : taken[s] \in Nat /\ out[s] \in Seq(Nat)
      /\ \A e \in DOMAIN fwd : Passed(fwd[e], out[e[2]], taken[e[1]])
  BY DEF FwdInv
<1>2. /\ a \in 1 .. 2 /\ b \in 1 .. 2
      /\ \A e \in DOMAIN fwd : e[1] \in 1 .. 2 /\ e[2] \in 1 .. 2
      /\ \A e \in DOMAIN fwd : e # d => e[1] # a /\ e[2] # b
  BY DeviceWays
<1>3. Passed(f, out[b], taken[a]) /\ taken[a] \in Nat /\ out[b] \in Seq(Nat)
  BY <1>1, <1>2
<1>4. CASE /\ f.pc = "recv"
           /\ fwd' = [fwd EXCEPT ![d] = [pc |-> "send", msg |-> taken[a] + 1]]
           /\ taken' = [taken EXCEPT ![a] = taken[a] + 1]
           /\ out' = out
  <2> DEFINE g == [pc |-> "send", msg |-> taken[a] + 1]
  <2>1. Passed(g, out[b], taken[a] + 1)
    BY <1>3, <1>4, PassRecv
  <2> HIDE DEF g
  <2>2. /\ DOMAIN fwd' = DOMAIN fwd /\ fwd'[d] = g
        /\ \A e \in DOMAIN fwd : e # d => fwd'[e] = fwd[e]
    BY <1>4 DEF g
  <2> HIDE DEF a, b
  <2>3. /\ DOMAIN taken' = 1 .. 2 /\ taken'[a] = taken[a] + 1
        /\ \A s \in 1 .. 2 : s # a => taken'[s] = taken[s]
    BY <1>1, <1>2, <1>4
  <2>4. \A s \in 1 .. 2 : taken'[s] \in Nat
    BY <1>1, <1>3, <2>3
  <2>5. ASSUME NEW e \in DOMAIN fwd
        PROVE  Passed(fwd'[e], out[e[2]], taken'[e[1]])
    <3>1. CASE e = d
      BY <2>1, <2>2, <2>3, <3>1 DEF a, b
    <3>2. CASE e # d
      <4>1. fwd'[e] = fwd[e] /\ taken'[e[1]] = taken[e[1]]
        BY <1>2, <2>2, <2>3, <3>2
      <4> QED BY <1>1, <4>1
    <3> QED BY <3>1, <3>2
  <2> QED BY <1>1, <1>4, <2>2, <2>3, <2>4, <2>5 DEF FwdInv
<1>5. CASE /\ f.pc = "send"
           /\ fwd' = [fwd EXCEPT ![d] = [pc |-> "recv", msg |-> 0]]
           /\ out' = [out EXCEPT ![b] = Append(out[b], f.msg)]
           /\ taken' = taken
  <2> DEFINE g == [pc |-> "recv", msg |-> 0]
             t == Append(out[b], f.msg)
  <2>1. Passed(g, t, taken[a]) /\ t \in Seq(Nat)
    BY <1>3, <1>5, PassSend
  <2> HIDE DEF g, t
  <2>2. /\ DOMAIN fwd' = DOMAIN fwd /\ fwd'[d] = g
        /\ \A e \in DOMAIN fwd : e # d => fwd'[e] = fwd[e]
    BY <1>5 DEF g
  <2>3. out' = [out EXCEPT ![b] = t]
    BY <1>5 DEF t
  <2> HIDE DEF a, b
  <2>4. /\ DOMAIN out' = 1 .. 2 /\ out'[b] = t
        /\ \A s \in 1 .. 2 : s # b => out'[s] = out[s]
    BY <1>1, <1>2, <2>3
  <2>5. \A s \in 1 .. 2 : out'[s] \in Seq(Nat)
    BY <1>1, <2>1, <2>4
  <2>6. ASSUME NEW e \in DOMAIN fwd
        PROVE  Passed(fwd'[e], out'[e[2]], taken[e[1]])
    <3>1. CASE e = d
      BY <2>1, <2>2, <2>4, <3>1 DEF a, b
    <3>2. CASE e # d
      <4>1. fwd'[e] = fwd[e] /\ out'[e[2]] = out[e[2]]
        BY <1>2, <2>2, <2>4, <3>2
      <4> QED BY <1>1, <4>1
    <3> QED BY <3>1, <3>2
  <2> QED BY <1>1, <1>5, <2>2, <2>4, <2>5, <2>6 DEF FwdInv
<1>6. CASE /\ fwd' = [fwd EXCEPT ![d].pc = "ended"]
           /\ taken' = taken /\ out' = out
  <2> DEFINE g == [f EXCEPT !.pc = "ended"]
  <2>1. Passed(g, out[b], taken[a])
    BY <1>3, PassEnd
  <2>2. /\ DOMAIN fwd' = DOMAIN fwd /\ fwd'[d] = g
        /\ \A e \in DOMAIN fwd : e # d => fwd'[e] = fwd[e]
    BY <1>6
  <2> HIDE DEF g
  <2>3. ASSUME NEW e \in DOMAIN fwd
        PROVE  Passed(fwd'[e], out[e[2]], taken[e[1]])
    <3>1. CASE e = d
      BY <2>1, <2>2, <3>1
    <3>2. CASE e # d
      BY <1>1, <2>2, <3>2
    <3> QED BY <3>1, <3>2
  <2> QED BY <1>1, <1>6, <2>2, <2>3 DEF FwdInv
<1> QED BY <1>4, <1>5, <1>6 DEF D!nn_device_mvmsg

(* The threads of a device in the composition.                             *)
LEMMA ForwardersKept ==
  /\ Init => FwdInv
  /\ DevInv /\ FwdInv /\ [Next]_vars => FwdInv'
<1>1. ASSUME Init, started = "device"
      PROVE  /\ DOMAIN taken = 1 .. 2 /\ DOMAIN out = 1 .. 2
             /\ \A s \in 1 .. 2 : taken[s] \in Nat /\ out[s] \in Seq(Nat)
             /\ \A d \in DOMAIN fwd : Passed(fwd[d], out[d[2]], taken[d[1]])
  <2>1. /\ taken = [s \in 1 .. 2 |-> 0] /\ out = [s \in 1 .. 2 |-> << >>]
        /\ \A d \in DOMAIN fwd : fwd[d] = [pc |-> "recv", msg |-> 0]
    BY <1>1 DEF Init, D!Init
  <2>2. \A d \in DOMAIN fwd : d[1] \in 1 .. 2 /\ d[2] \in 1 .. 2
    BY <1>1, DevicesKept, DeviceWays
  <2> DEFINE g == [pc |-> "recv", msg |-> 0]
  <2>3. /\ g \in [pc : {"recv", "send", "ended"}, msg : Nat]
        /\ g.pc = "recv" /\ g.msg = 0
    OBVIOUS
  <2> HIDE DEF g
  <2>4. << >> \in Seq(Nat) /\ Len(<< >>) = 0
    OBVIOUS
  <2>5. Passed(g, << >>, 0)
    BY <2>3, <2>4 DEF Passed
  <2>6. \A d \in DOMAIN fwd : fwd[d] = g
    BY <2>1 DEF g
  <2> QED BY <2>1, <2>2, <2>4, <2>5, <2>6
<1>2. ASSUME DevInv, FwdInv, [Next]_vars, started' = "device"
      PROVE  FwdInv'
  <2>1. started = "device" /\ [D!Next]_device
    BY <1>2, DeviceStep
  <2>2. CASE UNCHANGED device
    BY <1>2, <2>1, <2>2 DEF device, FwdInv
  <2>3. ASSUME NEW s \in 1 .. 2, D!Arrive(s) \/ D!Close(s)
        PROVE  FwdInv'
    <3>1. taken' = taken /\ out' = out /\ fwd' = fwd
      BY <2>3 DEF D!Arrive, D!Close
    <3> QED BY <1>2, <2>1, <3>1 DEF FwdInv
  <2>4. ASSUME NEW d \in DOMAIN fwd, D!nn_device_mvmsg(d)
        PROVE  FwdInv'
    BY <1>2, <2>1, <2>4, MvmsgOK
  <2> QED BY <2>1, <2>2, <2>3, <2>4 DEF D!Next
<1>3. started' # "device" => FwdInv'
  BY DEF FwdInv
<1> QED BY <1>1, <1>2, <1>3 DEF FwdInv

(* What comes to a device leaves it, once and in order.                    *)
LEMMA ForwardersMean ==
  ASSUME DevInv, FwdInv, started = "device"
  PROVE  D!Forwarded
<1> SUFFICES ASSUME NEW d \in DOMAIN fwd
             PROVE  /\ out[d[2]] = [i \in 1 .. Len(out[d[2]]) |-> i]
                    /\ Len(out[d[2]])
                         = taken[d[1]] - IF fwd[d].msg = 0 THEN 0 ELSE 1
  BY DEF D!Forwarded
<1> DEFINE s == out[d[2]]
<1>1. Passed(fwd[d], s, taken[d[1]]) /\ s \in Seq(Nat)
  BY DeviceWays DEF FwdInv
<1>2. \A i \in 1 .. Len(s) : s[i] = i
  BY <1>1 DEF Passed
<1> HIDE DEF s
<1>3. s = [i \in 1 .. Len(s) |-> i]
  BY <1>1, <1>2
<1> QED BY <1>1, <1>3 DEF s, Passed

-----------------------------------------------------------------------------
(* The memory of messages                                                  *)

Chunks == {"c", "d"}
Places == {"app", "request", "p", "q"}
Refs == Chunks \cup {"small", "none"}

(* The number of places that refer to each chunk.                          *)
At(a, c) == {p \in Places : a[p] = c}
RefCount(a) == [c \in Chunks |-> Cardinality(At(a, c))]

(* The chunks that are allocated are those with a reference, and their     *)
(* counts are k.                                                           *)
Counted(m, k) ==
  /\ DOMAIN m = {"refs", "bad"} /\ ~m.bad
  /\ DOMAIN m.refs = {c \in Chunks : k[c] > 0}
  /\ \A c \in DOMAIN m.refs : m.refs[c] = k[c]

MemInv ==
  started = "memory" =>
    /\ at \in [Places -> Refs] /\ Counted(mem, RefCount(at))

(* Sets of places are finite.                                              *)
LEMMA PlacesFinite ==
  /\ IsFiniteSet(Places)
  /\ \A a, c : IsFiniteSet(At(a, c)) /\ Cardinality(At(a, c)) \in Nat
<1>1. IsFiniteSet(Places)
  <2>1. IsFiniteSet({}) /\ Places = {} \cup {"app"} \cup {"request"}
                                       \cup {"p"} \cup {"q"}
    BY FS_EmptySet DEF Places
  <2>2. QED
    BY <2>1, FS_AddElement
<1>2. \A a, c : At(a, c) \subseteq Places
  BY DEF At
<1>3. QED
  BY <1>1, <1>2, FS_Subset, FS_CardinalityType

(* Another reference in place p.                                           *)
LEMMA OnePlace ==
  ASSUME NEW a \in [Places -> Refs], NEW b \in [Places -> Refs],
         NEW p \in Places, NEW c \in Chunks,
         \A q \in Places : q # p => b[q] = a[q]
  PROVE  /\ c = b[p] /\ c # a[p] => RefCount(b)[c] = RefCount(a)[c] + 1
         /\ c # b[p] /\ c = a[p] => /\ RefCount(b)[c] = RefCount(a)[c] - 1
                                 /\ RefCount(a)[c] >= 1
         /\ (c = b[p] <=> c = a[p]) => RefCount(b)[c] = RefCount(a)[c]
<1>1. \A q \in Places : q # p => b[q] = a[q]
  OBVIOUS
<1>2. /\ IsFiniteSet(At(a, c)) /\ IsFiniteSet(At(b, c))
      /\ Cardinality(At(a, c)) \in Nat /\ Cardinality(At(b, c)) \in Nat
      /\ RefCount(a)[c] = Cardinality(At(a, c))
      /\ RefCount(b)[c] = Cardinality(At(b, c))
  BY PlacesFinite DEF RefCount
<1>3. c = b[p] /\ c # a[p] => RefCount(b)[c] = RefCount(a)[c] + 1
  <2> SUFFICES ASSUME c = b[p], c # a[p]
               PROVE  RefCount(b)[c] = RefCount(a)[c] + 1
    OBVIOUS
  <2>1. At(b, c) = At(a, c) \cup {p} /\ p \notin At(a, c)
    BY <1>1 DEF At
  <2>2. Cardinality(At(b, c)) = Cardinality(At(a, c)) + 1
    BY <2>1, <1>2, FS_AddElement
  <2>3. QED
    BY <2>2, <1>2
<1>4. c # b[p] /\ c = a[p] => /\ RefCount(b)[c] = RefCount(a)[c] - 1
                           /\ RefCount(a)[c] >= 1
  <2> SUFFICES ASSUME c # b[p], c = a[p]
               PROVE  RefCount(b)[c] = RefCount(a)[c] - 1 /\ RefCount(a)[c] >= 1
    OBVIOUS
  <2>1. At(a, c) = At(b, c) \cup {p} /\ p \notin At(b, c)
    BY <1>1 DEF At
  <2>2. Cardinality(At(a, c)) = Cardinality(At(b, c)) + 1
    BY <2>1, <1>2, FS_AddElement
  <2>3. QED
    BY <2>2, <1>2
<1>5. (c = b[p] <=> c = a[p]) => RefCount(b)[c] = RefCount(a)[c]
  <2>1. (c = b[p] <=> c = a[p]) => At(b, c) = At(a, c)
    BY <1>1 DEF At
  <2>2. QED
    BY <2>1, <1>2
<1>6. QED
  BY <1>1, <1>3, <1>4, <1>5

(* nn_chunk_alloc.                                                         *)
LEMMA AllocOK ==
  ASSUME NEW m, NEW k, NEW n, NEW c \in Chunks, Counted(m, k),
         ~(k[c] > 0), n[c] = 1,
         \A d \in Chunks : d # c => n[d] = k[d]
  PROVE  Counted(M!nn_chunk_alloc(m, c), n)
<1> DEFINE f == [d \in DOMAIN m.refs \cup {c} |->
                   IF d = c THEN 1 ELSE m.refs[d]]
           v == M!nn_chunk_alloc(m, c)
<1>1. v = [m EXCEPT !.refs = f]
  BY DEF M!nn_chunk_alloc
<1>2. DOMAIN v = {"refs", "bad"} /\ v.refs = f /\ v.bad = m.bad
  BY <1>1 DEF Counted
<1> HIDE DEF v
<1>3. DOMAIN f = {d \in Chunks : n[d] > 0}
  BY DEF Counted
<1>4. \A d \in DOMAIN f : f[d] = n[d]
  BY DEF Counted
<1>5. QED
  BY <1>2, <1>3, <1>4 DEF Counted, v

(* nn_chunk_free: one reference less, and the last one frees.              *)
LEMMA FreeOK ==
  ASSUME NEW m, NEW k, NEW n, NEW c \in Chunks, Counted(m, k),
         k[c] \in Nat, k[c] > 0, n[c] = k[c] - 1,
         \A d \in Chunks : d # c => n[d] = k[d]
  PROVE  Counted(M!nn_chunk_free(m, c), n)
<1> DEFINE v == M!nn_chunk_free(m, c)
<1>1. c \in DOMAIN m.refs /\ m.refs[c] = k[c]
  BY DEF Counted
<1>2. CASE m.refs[c] <= 1
  <2> DEFINE f == [d \in DOMAIN m.refs \ {c} |-> m.refs[d]]
  <2>1. v = [m EXCEPT !.refs = f]
    BY <1>1, <1>2 DEF M!nn_chunk_free, M!nn_chunk_getptr, M!Drop
  <2>2. DOMAIN v = {"refs", "bad"} /\ v.refs = f /\ v.bad = m.bad
    BY <2>1 DEF Counted
  <2> HIDE DEF v
  <2>3. DOMAIN f = {d \in Chunks : n[d] > 0}
    BY <1>1, <1>2 DEF Counted
  <2>4. \A d \in DOMAIN f : f[d] = n[d]
    BY DEF Counted
  <2>5. QED
    BY <2>2, <2>3, <2>4 DEF Counted, v
<1>3. CASE ~(m.refs[c] <= 1)
  <2> DEFINE f == [m.refs EXCEPT ![c] = @ - 1]
  <2>1. v = [m EXCEPT !.refs = f]
    BY <1>1, <1>3 DEF M!nn_chunk_free, M!nn_chunk_getptr
  <2>2. DOMAIN v = {"refs", "bad"} /\ v.refs = f /\ v.bad = m.bad
    BY <2>1 DEF Counted
  <2> HIDE DEF v
  <2>3. DOMAIN f = {d \in Chunks : n[d] > 0}
    BY <1>1, <1>3 DEF Counted
  <2>4. \A d \in DOMAIN f : f[d] = n[d]
    BY <1>1 DEF Counted
  <2>5. QED
    BY <2>2, <2>3, <2>4 DEF Counted, v
<1>4. QED
  BY <1>2, <1>3

(* nn_chunk_addref.                                                        *)
LEMMA AddrefOK ==
  ASSUME NEW m, NEW k, NEW n, NEW c \in Chunks, NEW j \in Nat,
         Counted(m, k), k[c] \in Nat, k[c] > 0, n[c] = k[c] + j,
         \A d \in Chunks : d # c => n[d] = k[d]
  PROVE  Counted(M!nn_chunk_addref(m, c, j), n)
<1> DEFINE v == M!nn_chunk_addref(m, c, j)
           f == [m.refs EXCEPT ![c] = @ + j]
<1>1. c \in DOMAIN m.refs /\ m.refs[c] = k[c]
  BY DEF Counted
<1>2. v = [m EXCEPT !.refs = f]
  BY <1>1 DEF M!nn_chunk_addref, M!nn_chunk_getptr
<1>3. DOMAIN v = {"refs", "bad"} /\ v.refs = f /\ v.bad = m.bad
  BY <1>2 DEF Counted
<1> HIDE DEF v
<1>4. DOMAIN f = {d \in Chunks : n[d] > 0}
  BY <1>1 DEF Counted
<1>5. \A d \in DOMAIN f : f[d] = n[d]
  BY <1>1 DEF Counted
<1>6. QED
  BY <1>3, <1>4, <1>5 DEF Counted, v

(* nn_chunkref_term.                                                       *)
LEMMA TermOK ==
  ASSUME NEW m, NEW k, NEW n, NEW r \in Refs, Counted(m, k),
         r \in Chunks => k[r] \in Nat /\ k[r] > 0 /\ n[r] = k[r] - 1,
         \A d \in Chunks : d # r => n[d] = k[d]
  PROVE  Counted(M!nn_chunkref_term(m, r), n)
<1>1. CASE r \in Chunks
  <2>1. M!nn_chunkref_term(m, r) = M!nn_chunk_free(m, r)
    BY <1>1 DEF M!nn_chunkref_term, M!IsChunk, M!Small, M!None, Chunks
  <2>2. QED
    BY <1>1, <2>1, FreeOK
<1>2. CASE r \notin Chunks
  <2>1. M!nn_chunkref_term(m, r) = m
    BY <1>2 DEF M!nn_chunkref_term, M!IsChunk, M!Small, M!None, Chunks, Refs
  <2>2. \A d \in Chunks : n[d] = k[d]
    BY <1>2
  <2>3. QED
    BY <2>1, <2>2 DEF Counted
<1>3. QED
  BY <1>1, <1>2

(* nn_chunkref_cp and nn_chunkref_bulkcopy_start.                          *)
LEMMA CopyOK ==
  ASSUME NEW m, NEW k, NEW n, NEW r \in Refs, NEW j \in Nat, Counted(m, k),
         r \in Chunks => k[r] \in Nat /\ k[r] > 0 /\ n[r] = k[r] + j,
         \A d \in Chunks : d # r => n[d] = k[d]
  PROVE  /\ Counted(M!nn_chunkref_bulkcopy_start(m, r, j), n)
         /\ j = 1 => Counted(M!nn_chunkref_cp(m, r), n)
<1>1. CASE r \in Chunks
  <2>1. /\ M!nn_chunkref_bulkcopy_start(m, r, j) = M!nn_chunk_addref(m, r, j)
        /\ M!nn_chunkref_cp(m, r) = M!nn_chunk_addref(m, r, 1)
    BY <1>1 DEF M!nn_chunkref_bulkcopy_start, M!nn_chunkref_cp, M!IsChunk,
       M!Small, M!None, Chunks
  <2>2. Counted(M!nn_chunk_addref(m, r, j), n)
    BY <1>1, AddrefOK
  <2>3. QED
    BY <2>1, <2>2
<1>2. CASE r \notin Chunks
  <2>1. /\ M!nn_chunkref_bulkcopy_start(m, r, j) = m
        /\ M!nn_chunkref_cp(m, r) = m
    BY <1>2 DEF M!nn_chunkref_bulkcopy_start, M!nn_chunkref_cp, M!IsChunk,
       M!Small, M!None, Chunks, Refs
  <2>2. \A d \in Chunks : n[d] = k[d]
    BY <1>2
  <2>3. QED
    BY <2>1, <2>2 DEF Counted
<1>3. QED
  BY <1>1, <1>2

(* The counts of references.                                               *)
LEMMA CountsAre ==
  ASSUME NEW a \in [Places -> Refs], NEW p \in Places
  PROVE  /\ \A c \in Chunks : RefCount(a)[c] \in Nat
         /\ a[p] \in Chunks => RefCount(a)[a[p]] > 0
<1>1. \A c \in Chunks : RefCount(a)[c] = Cardinality(At(a, c))
  BY DEF RefCount
<1>2. a[p] \in Chunks => At(a, a[p]) # {}
  BY DEF At
<1>3. QED
  BY <1>1, <1>2, PlacesFinite, FS_EmptySet

(* A message is freed in its place: nn_freemsg, and Sent.                  *)
LEMMA FreePlace ==
  ASSUME NEW a \in [Places -> Refs], NEW p \in Places, NEW m,
         Counted(m, RefCount(a)), NEW b \in [Places -> Refs],
         b[p] = "none", \A q \in Places : q # p => b[q] = a[q]
  PROVE  Counted(M!nn_chunkref_term(m, a[p]), RefCount(b))
<1> DEFINE r == a[p]
           k == RefCount(a)
           n == RefCount(b)
<1>1. r \in Refs /\ "none" \in Refs /\ "none" \notin Chunks
  BY DEF Refs, Chunks
<1>3. r \in Chunks => k[r] \in Nat /\ k[r] > 0
  BY CountsAre
<1>8. ASSUME NEW d \in Chunks
      PROVE  /\ d # b[p] /\ d = a[p] => n[d] = k[d] - 1
             /\ (d = b[p] <=> d = a[p]) => n[d] = k[d]
  BY OnePlace
<1>4. r \in Chunks => n[r] = k[r] - 1
  BY <1>1, <1>8
<1>5. \A d \in Chunks : d # r => n[d] = k[d]
  BY <1>1, <1>8
<1> HIDE DEF r, k, n
<1>6. Counted(M!nn_chunkref_term(m, r), n)
  <2>1. Counted(m, k)
    BY DEF k
  <2>2. QED
    BY <1>1, <1>3, <1>4, <1>5, <2>1, TermOK
<1>7. QED
  BY <1>6 DEF r, n

(* The instance refers to the same chunks and places.                      *)
LEMMA SamePlaces ==
  /\ M!Place = Places /\ M!Small = "small" /\ M!None = "none"
  /\ "none" \in Refs \ Chunks /\ "small" \in Refs \ Chunks
  /\ Chunks \subseteq Refs /\ {"p", "q"} \subseteq Places
  /\ "app" \in Places \ {"p", "q"} /\ "request" \in Places \ {"p", "q"}
BY DEF M!Place, M!Small, M!None, Places, Refs, Chunks

(* A message is allocated.                                                 *)
LEMMA AllocStep ==
  ASSUME at \in [Places -> Refs], Counted(mem, RefCount(at)),
         NEW c \in Chunks \cup {"small"}, M!nn_allocmsg(c)
  PROVE  at' \in [Places -> Refs] /\ Counted(mem', RefCount(at'))
<1> DEFINE k == RefCount(at)
           n == RefCount(at')
<1>1. /\ at["app"] = "none" /\ c \notin DOMAIN mem.refs
      /\ mem' = IF M!IsChunk(c) THEN M!nn_chunk_alloc(mem, c) ELSE mem
      /\ at' = [at EXCEPT !["app"] = c]
  BY SamePlaces DEF M!nn_allocmsg
<1>2. /\ at' \in [Places -> Refs] /\ at'["app"] = c
      /\ \A q \in Places : q # "app" => at'[q] = at[q]
  BY <1>1, SamePlaces
<1>3. ASSUME NEW d \in Chunks
      PROVE  /\ d = at'["app"] /\ d # at["app"] => n[d] = k[d] + 1
             /\ (d = at'["app"] <=> d = at["app"]) => n[d] = k[d]
             /\ k[d] \in Nat
  BY <1>2, OnePlace, CountsAre, SamePlaces
<1>4. \A d \in Chunks : d # c => n[d] = k[d]
  BY <1>1, <1>2, <1>3, SamePlaces
<1>5. CASE c \in Chunks
  <2>1. ~(k[c] > 0)
    BY <1>1, <1>5 DEF Counted
  <2>2. n[c] = 1
    <3>1. c = at'["app"] /\ c # at["app"]
      BY <1>1, <1>2, <1>5, SamePlaces
    <3>2. n[c] = k[c] + 1 /\ k[c] \in Nat
      BY <3>1, <1>3, <1>5
    <3> HIDE DEF n, k
    <3>3. QED
      BY <3>2, <2>1
  <2>3. mem' = M!nn_chunk_alloc(mem, c)
    BY <1>1, <1>5, SamePlaces DEF M!IsChunk
  <2> HIDE DEF k, n
  <2>4. Counted(mem, k)
    BY DEF k
  <2>5. Counted(mem', n)
    BY <1>4, <1>5, <2>1, <2>2, <2>3, <2>4, AllocOK
  <2>6. QED
    BY <1>2, <2>5 DEF n
<1>6. CASE c = "small"
  <2>1. mem' = mem
    BY <1>1, <1>6, SamePlaces DEF M!IsChunk
  <2>2. \A d \in Chunks : n[d] = k[d]
    BY <1>4, <1>6, SamePlaces
  <2>3. QED
    BY <1>2, <2>1, <2>2 DEF Counted
<1>7. QED
  BY <1>5, <1>6

(* A message is freed in its place.                                        *)
LEMMA FreeStep ==
  ASSUME at \in [Places -> Refs], Counted(mem, RefCount(at)),
         NEW p \in Places, mem' = M!nn_chunkref_term(mem, at[p]),
         at' = [at EXCEPT ![p] = "none"]
  PROVE  at' \in [Places -> Refs] /\ Counted(mem', RefCount(at'))
<1>1. /\ at' \in [Places -> Refs] /\ at'[p] = "none"
      /\ \A q \in Places : q # p => at'[q] = at[q]
  BY SamePlaces
<1>2. Counted(M!nn_chunkref_term(mem, at[p]), RefCount(at'))
  BY <1>1, FreePlace
<1>3. QED
  BY <1>1, <1>2

(* A request is kept for resending instead of the last one.                *)
LEMMA KeepStep ==
  ASSUME at \in [Places -> Refs], Counted(mem, RefCount(at)),
         M!nn_req_csend
  PROVE  at' \in [Places -> Refs] /\ Counted(mem', RefCount(at'))
<1> DEFINE b == [at EXCEPT !["request"] = "none"]
           k == RefCount(b)
           n == RefCount(at')
<1>1. /\ mem' = M!nn_chunkref_term(mem, at["request"])
      /\ at' = [at EXCEPT !["request"] = at["app"], !["app"] = "none"]
  BY SamePlaces DEF M!nn_req_csend
<1>2. /\ b \in [Places -> Refs] /\ b["request"] = "none"
      /\ \A q \in Places : q # "request" => b[q] = at[q]
  BY SamePlaces
<1>3. /\ at' \in [Places -> Refs] /\ at'["app"] = "none"
      /\ at'["request"] = at["app"]
      /\ \A q \in Places : q \notin {"request", "app"} => at'[q] = at[q]
  BY <1>1, SamePlaces
<1> DEFINE e == [b EXCEPT !["request"] = at["app"]]
<1>4. /\ e \in [Places -> Refs] /\ e["request"] = at["app"]
      /\ \A q \in Places : q # "request" => e[q] = b[q]
      /\ \A q \in Places : q # "app" => at'[q] = e[q]
  BY <1>2, <1>3, SamePlaces
<1> HIDE DEF b, e
<1>5. Counted(M!nn_chunkref_term(mem, at["request"]), k)
  BY <1>2, SamePlaces, FreePlace
<1>6. ASSUME NEW d \in Chunks
      PROVE  n[d] = k[d]
  <2> DEFINE i == RefCount(e)
  <2>1. k[d] \in Nat /\ i[d] \in Nat /\ n[d] \in Nat
    BY <1>2, <1>3, <1>4, SamePlaces, CountsAre
  <2>2. /\ d = e["request"] /\ d # b["request"] => i[d] = k[d] + 1
        /\ (d = e["request"] <=> d = b["request"]) => i[d] = k[d]
    BY <1>2, <1>4, SamePlaces, OnePlace
  <2>3. /\ d # at'["app"] /\ d = e["app"] => n[d] = i[d] - 1
        /\ (d = at'["app"] <=> d = e["app"]) => n[d] = i[d]
    BY <1>3, <1>4, SamePlaces, OnePlace
  <2>4. e["app"] = at["app"]
    BY <1>2, <1>4, SamePlaces
  <2> HIDE DEF i, k, n
  <2>5. QED
    BY <2>1, <2>2, <2>3, <2>4, <1>2, <1>3, <1>4, SamePlaces
<1>7. QED
  BY <1>1, <1>3, <1>5, <1>6 DEF Counted

(* A copy of the request is sent, or freed.                                *)
LEMMA ResendStep ==
  ASSUME at \in [Places -> Refs], Counted(mem, RefCount(at)),
         NEW p \in {"p", "q"}, M!nn_req_action_send(p)
  PROVE  at' \in [Places -> Refs] /\ Counted(mem', RefCount(at'))
<1> DEFINE r == at["request"]
           m == M!nn_chunkref_cp(mem, r)
           k == RefCount(at)
           j == [k EXCEPT ![r] = @ + 1]
<1>1. /\ r # "none" /\ r \in Refs
      /\ \/ /\ at[p] = "none" /\ mem' = m /\ at' = [at EXCEPT ![p] = r]
         \/ /\ mem' = M!nn_chunkref_term(m, r) /\ at' = at
  BY SamePlaces DEF M!nn_req_action_send
<1>2. /\ \A d \in Chunks : k[d] \in Nat
      /\ r \in Chunks => k[r] > 0
  BY SamePlaces, CountsAre
<1>3. DOMAIN k = Chunks
  BY DEF RefCount
<1>4. /\ r \in Chunks => j[r] = k[r] + 1
      /\ \A d \in Chunks : d # r => j[d] = k[d]
  BY <1>3
<1>10. Counted(mem, k)
  OBVIOUS
<1> HIDE DEF j, k
<1>5. Counted(m, j)
  <2> HIDE DEF r
  <2>1. 1 \in Nat
    OBVIOUS
  <2>2. QED
    BY <1>1, <1>2, <1>4, <1>10, <2>1, CopyOK
<1> HIDE DEF m
<1>6. CASE at[p] = "none" /\ mem' = m /\ at' = [at EXCEPT ![p] = r]
  <2>1. /\ at' \in [Places -> Refs] /\ at'[p] = r
        /\ \A q \in Places : q # p => at'[q] = at[q]
    BY <1>1, <1>6, SamePlaces
  <2>2. ASSUME NEW d \in Chunks
        PROVE  RefCount(at')[d] = j[d]
    <3>1. /\ d = at'[p] /\ d # at[p] => RefCount(at')[d] = k[d] + 1
          /\ (d = at'[p] <=> d = at[p]) => RefCount(at')[d] = k[d]
      BY <2>1, SamePlaces, OnePlace DEF k
    <3>2. QED
      BY <3>1, <2>1, <1>1, <1>4, <1>6, SamePlaces
  <2>3. QED
    BY <2>1, <2>2, <1>5, <1>6 DEF Counted
<1>7. CASE mem' = M!nn_chunkref_term(m, r) /\ at' = at
  <2>1. r \in Chunks => j[r] \in Nat /\ j[r] > 0 /\ k[r] = j[r] - 1
    BY <1>2, <1>4
  <2>2. \A d \in Chunks : d # r => k[d] = j[d]
    BY <1>4
  <2>4. r \in Refs
    BY <1>1
  <2> HIDE DEF r
  <2>3. Counted(M!nn_chunkref_term(m, r), k)
    BY <2>1, <2>2, <2>4, <1>5, TermOK
  <2>5. QED
    BY <2>3, <1>7 DEF k
<1>8. QED
  BY <1>1, <1>6, <1>7

(* A message goes to the pipes that are ready.                             *)
LEMMA DistStep ==
  ASSUME at \in [Places -> Refs], Counted(mem, RefCount(at)),
         NEW ready \in SUBSET {"p", "q"}, NEW x \in {"p", "q"},
         M!nn_dist_send(ready, x)
  PROVE  at' \in [Places -> Refs] /\ Counted(mem', RefCount(at'))
<1> DEFINE r == at["app"]
           k == RefCount(at)
           n == RefCount(at')
           w == Cardinality(ready)
           k1 == [k EXCEPT ![r] = @ + w]
           k2 == [k EXCEPT ![r] = @ + w - (IF x \in ready THEN 1 ELSE 0)]
           m1 == M!nn_chunkref_bulkcopy_start(mem, r, w)
           m2 == IF x \in ready THEN M!nn_chunkref_term(m1, r) ELSE m1
<1>1. /\ r # "none" /\ r \in Refs /\ \A p \in ready : at[p] = "none"
      /\ mem' = IF ready = {} THEN M!nn_chunkref_term(mem, r)
                ELSE M!nn_chunkref_term(m2, r)
      /\ at' = [p \in Places |-> CASE p = "app" -> "none"
                                   [] p \in ready \ {x} -> r
                                   [] OTHER -> at[p]]
  <2>1. M!Cardinality(ready) = w
    BY Zenon DEF M!Cardinality, Cardinality
  <2>2. QED
    BY <2>1, SamePlaces DEF M!nn_dist_send
<1>2. /\ at' \in [Places -> Refs] /\ at'["app"] = "none"
      /\ \A p \in ready \ {x} : at'[p] = r
      /\ \A p \in Places : p # "app" /\ p \notin ready \ {x} => at'[p] = at[p]
  <2>1. \A p \in Places :
          at'[p] = IF p = "app" THEN "none"
                   ELSE IF p \in ready \ {x} THEN r ELSE at[p]
    BY <1>1, SamePlaces
  <2>2. at' \in [Places -> Refs]
    <3>1. DOMAIN at' = Places /\ at' = [p \in Places |-> at'[p]]
      BY <1>1
    <3>2. \A p \in Places : at'[p] \in Refs
      BY <2>1, <1>1, SamePlaces
    <3>3. QED
      BY <3>1, <3>2
  <2>3. QED
    BY <2>1, <2>2, SamePlaces
<1>3. /\ IsFiniteSet(ready) /\ w \in Nat /\ (ready = {} => w = 0)
      /\ IsFiniteSet(ready \ {x})
      /\ Cardinality(ready \ {x}) = w - (IF x \in ready THEN 1 ELSE 0)
      /\ (x \in ready => w >= 1)
  <2>1. IsFiniteSet(ready) /\ w \in Nat
    BY PlacesFinite, SamePlaces, FS_Subset, FS_CardinalityType
  <2>2. ready = {} => w = 0
    BY FS_EmptySet
  <2>3. IsFiniteSet(ready \ {x})
        /\ Cardinality(ready \ {x}) = IF x \in ready THEN w - 1 ELSE w
    BY <2>1, FS_RemoveElement
  <2>4. x \in ready => w >= 1
    BY <2>1, FS_EmptySet
  <2>5. QED
    BY <2>1, <2>2, <2>3, <2>4
<1>4. /\ \A d \in Chunks : k[d] \in Nat
      /\ r \in Chunks => k[r] > 0
  BY SamePlaces, CountsAre
<1>5. DOMAIN k = Chunks /\ Counted(mem, k)
  BY DEF RefCount
<1>6. \A d \in Chunks : d # r => n[d] = k[d]
  <2> SUFFICES ASSUME NEW d \in Chunks, d # r
               PROVE  At(at', d) = At(at, d)
    BY DEF RefCount
  <2>1. QED
    BY <1>1, <1>2, SamePlaces DEF At
<1>7. r \in Chunks => n[r] = k[r] + Cardinality(ready \ {x}) - 1
  <2> SUFFICES ASSUME r \in Chunks
               PROVE  n[r] = k[r] + Cardinality(ready \ {x}) - 1
    OBVIOUS
  <2> DEFINE S == At(at, r) \ {"app"}
             y == ready \ {x}
  <2>1. At(at', r) = S \cup y /\ S \cap y = {} /\ "app" \in At(at, r)
    BY <1>1, <1>2, SamePlaces DEF At
  <2>2. IsFiniteSet(At(at, r)) /\ Cardinality(At(at, r)) \in Nat
    BY PlacesFinite
  <2>3. IsFiniteSet(S) /\ Cardinality(S) = Cardinality(At(at, r)) - 1
    BY <2>1, <2>2, FS_RemoveElement
  <2>4. Cardinality(S \cup y) = Cardinality(S) + Cardinality(y)
    <3>1. Cardinality(S \cap y) = 0
      BY <2>1, FS_EmptySet
    <3>2. Cardinality(S) \in Nat /\ Cardinality(y) \in Nat
      BY <2>3, <1>3, FS_CardinalityType
    <3>3. Cardinality(S \cup y)
            = Cardinality(S) + Cardinality(y) - Cardinality(S \cap y)
      BY <2>3, <1>3, FS_Union
    <3>4. QED
      BY <3>1, <3>2, <3>3
  <2>5. n[r] = Cardinality(At(at', r)) /\ k[r] = Cardinality(At(at, r))
    BY DEF RefCount
  <2>6. Cardinality(y) \in Nat
    BY <1>3, FS_CardinalityType
  <2>7. QED
    BY <2>1, <2>2, <2>3, <2>4, <2>5, <2>6
<1>8. /\ r \in Chunks => k1[r] = k[r] + w
      /\ r \in Chunks => k2[r] = k[r] + w - (IF x \in ready THEN 1 ELSE 0)
      /\ \A d \in Chunks : d # r => k1[d] = k[d] /\ k2[d] = k[d]
  BY <1>5
<1>9. /\ mem' = IF ready = {} THEN M!nn_chunkref_term(mem, r)
                ELSE M!nn_chunkref_term(m2, r)
      /\ m2 = IF x \in ready THEN M!nn_chunkref_term(m1, r) ELSE m1
  BY <1>1
<1>10. m1 = M!nn_chunkref_bulkcopy_start(mem, r, w) /\ r \in Refs
  BY <1>1
<1> HIDE DEF r, k, n, w, k1, k2, m1, m2
<1>11. Counted(m1, k1)
  BY <1>3, <1>4, <1>5, <1>8, <1>10, CopyOK
<1>12. Counted(m2, k2)
  <2>1. CASE x \in ready
    <3>1. /\ r \in Chunks => k1[r] \in Nat /\ k1[r] > 0 /\ k2[r] = k1[r] - 1
          /\ \A d \in Chunks : d # r => k2[d] = k1[d]
      BY <2>1, <1>3, <1>4, <1>8
    <3>2. Counted(M!nn_chunkref_term(m1, r), k2)
      BY <3>1, <1>10, <1>11, TermOK
    <3>3. QED
      BY <3>2, <2>1, <1>9
  <2>2. CASE x \notin ready
    <3>1. \A d \in Chunks : k2[d] = k1[d]
      BY <2>2, <1>3, <1>4, <1>8
    <3>2. QED
      BY <3>1, <2>2, <1>9, <1>11 DEF Counted
  <2>3. QED
    BY <2>1, <2>2
<1>13. Counted(mem', n)
  <2>1. CASE ready = {}
    <3>1. r \in Chunks => n[r] = k[r] - 1
      BY <2>1, <1>3, <1>4, <1>7
    <3>2. Counted(M!nn_chunkref_term(mem, r), n)
      BY <3>1, <1>4, <1>5, <1>6, <1>10, TermOK
    <3>3. QED
      BY <3>2, <2>1, <1>9
  <2>2. CASE ready # {}
    <3>1. /\ r \in Chunks => k2[r] \in Nat /\ k2[r] > 0 /\ n[r] = k2[r] - 1
          /\ \A d \in Chunks : d # r => n[d] = k2[d]
      BY <1>3, <1>4, <1>6, <1>7, <1>8
    <3>2. Counted(M!nn_chunkref_term(m2, r), n)
      BY <3>1, <1>10, <1>12, TermOK
    <3>3. QED
      BY <3>2, <2>2, <1>9
  <2>3. QED
    BY <2>1, <2>2
<1>14. QED
  BY <1>2, <1>13 DEF n

(* The memory is kept.                                                     *)
LEMMA MemoryKept ==
  /\ Init => MemInv
  /\ MemInv /\ [Next]_vars => MemInv'
<1>1. Init => MemInv
  <2> SUFFICES ASSUME M!Init
               PROVE  at \in [Places -> Refs] /\ Counted(mem, RefCount(at))
    BY DEF Init, MemInv
  <2>1. at = [p \in Places |-> "none"]
    BY SamePlaces DEF M!Init
  <2>2. /\ DOMAIN mem = {"refs", "bad"} /\ mem.bad = FALSE
        /\ DOMAIN mem.refs = {}
    BY DEF M!Init
  <2>3. \A c \in Chunks : At(at, c) = {}
    BY <2>1, SamePlaces DEF At
  <2>4. \A c \in Chunks : RefCount(at)[c] = 0
    BY <2>3, FS_EmptySet DEF RefCount
  <2>5. QED
    BY <2>1, <2>2, <2>4, SamePlaces DEF Counted
<1>2. ASSUME MemInv, [Next]_vars
      PROVE  MemInv'
  <2> SUFFICES ASSUME started' = "memory"
               PROVE  at' \in [Places -> Refs] /\ Counted(mem', RefCount(at'))
    BY DEF MemInv
  <2>1. started = "memory" /\ [M!Next]_memory
    BY <1>2 DEF Next, vars, rest, Core, One, Two, Survey, Patterns,
       Subscriptions, Device, Memory
  <2>2. at \in [Places -> Refs] /\ Counted(mem, RefCount(at))
    BY <1>2, <2>1 DEF MemInv
  <2>3. CASE UNCHANGED memory
    BY <2>2, <2>3 DEF memory
  <2>4. ASSUME NEW c \in Chunks \cup {"small"}, M!nn_allocmsg(c)
        PROVE  at' \in [Places -> Refs] /\ Counted(mem', RefCount(at'))
    BY <2>2, <2>4, AllocStep
  <2>5. CASE M!nn_freemsg
    BY <2>2, <2>5, SamePlaces, FreeStep DEF M!nn_freemsg
  <2>6. CASE M!nn_req_csend
    BY <2>2, <2>6, KeepStep
  <2>7. ASSUME NEW ready \in SUBSET {"p", "q"}, NEW p \in {"p", "q"},
               M!nn_dist_send(ready, p)
        PROVE  at' \in [Places -> Refs] /\ Counted(mem', RefCount(at'))
    BY <2>2, <2>7, DistStep
  <2>8. ASSUME NEW p \in {"p", "q"}, M!nn_req_action_send(p)
        PROVE  at' \in [Places -> Refs] /\ Counted(mem', RefCount(at'))
    BY <2>2, <2>8, ResendStep
  <2>9. ASSUME NEW p \in {"p", "q"}, M!Sent(p)
        PROVE  at' \in [Places -> Refs] /\ Counted(mem', RefCount(at'))
    BY <2>2, <2>9, SamePlaces, FreeStep DEF M!Sent
  <2>10. QED
    BY <2>1, <2>3, <2>4, <2>5, <2>6, <2>7, <2>8, <2>9, SamePlaces
       DEF M!Next, Chunks
<1>3. QED
  BY <1>1, <1>2

(* The counts of the chunks are right.                                     *)
LEMMA MemoryMeans ==
  ASSUME MemInv, started = "memory"
  PROVE  M!RefsRight
<1>1. Counted(mem, RefCount(at)) /\ M!Place = Places
  BY SamePlaces DEF MemInv
<1>2. ASSUME NEW c \in Chunks
      PROVE  /\ M!Cardinality(At(at, c)) = RefCount(at)[c]
             /\ RefCount(at)[c] \in Nat
  <2>1. M!Cardinality(At(at, c)) = Cardinality(At(at, c))
    BY Zenon DEF M!Cardinality, Cardinality
  <2>2. QED
    BY <2>1, PlacesFinite DEF RefCount
<1>3. ASSUME NEW c \in Chunks
      PROVE  LET refs == M!Cardinality({p \in M!Place : at[p] = c}) IN
             IF c \in DOMAIN mem.refs THEN mem.refs[c] = refs /\ refs > 0
                                      ELSE refs = 0
  <2>1. {p \in M!Place : at[p] = c} = At(at, c)
    BY <1>1 DEF At
  <2>2. QED
    BY <1>1, <1>2, <2>1 DEF Counted
<1>4. QED
  BY <1>1, <1>3 DEF M!RefsRight, Counted, Chunks
-----------------------------------------------------------------------------
(* Subscriptions: the strings of the trie, the shape of its nodes, and the *)
(* functions of trie.c on it                                               *)

(* Module Trie counts with the same operator.                              *)
LEMMA TrieCounts ==
  ASSUME NEW S
  PROVE  T!Cardinality(S) = Cardinality(S)
BY Zenon DEF T!Cardinality, Cardinality

-----------------------------------------------------------------------------
(* Strings                                                                 *)

String == Seq(Nat)

(* The strings a and b have their first k characters in common.            *)
Same(a, b, k) ==
  /\ k <= Len(a) /\ k <= Len(b)
  /\ \A i \in 1 .. k : a[i] = b[i]

(* How strings share their beginnings.                                     *)
LEMMA SameFacts ==
  /\ \A a \in String : Len(a) \in Nat
  /\ \A a \in String : Same(a, a, Len(a))
  /\ \A a \in String, b \in String, k \in Nat : Same(a, b, k) => Same(b, a, k)
  /\ \A a \in String, b \in String, k \in Nat :
       Same(a, b, k) => k <= Len(a) /\ k <= Len(b)
  /\ \A a \in String, b \in String, k \in Nat, j \in Nat :
       Same(a, b, k) /\ j <= k => Same(a, b, j)
  /\ \A a \in String, b \in String, c \in String, k \in Nat :
       Same(a, b, k) /\ Same(b, c, k) => Same(a, c, k)
<1>1. \A a \in String : Len(a) \in Nat
  BY DEF String
<1>2. \A a \in String : Same(a, a, Len(a))
  BY <1>1 DEF Same
<1>3. \A a \in String, b \in String, k \in Nat : Same(a, b, k) => Same(b, a, k)
  BY DEF Same
<1>4. \A a \in String, b \in String, k \in Nat :
        Same(a, b, k) => k <= Len(a) /\ k <= Len(b)
  BY DEF Same
<1>5. \A a \in String, b \in String, k \in Nat, j \in Nat :
        Same(a, b, k) /\ j <= k => Same(a, b, j)
  BY <1>1 DEF Same
<1>6. \A a \in String, b \in String, c \in String, k \in Nat :
        Same(a, b, k) /\ Same(b, c, k) => Same(a, c, k)
  BY DEF Same
<1> QED BY <1>1, <1>2, <1>3, <1>4, <1>5, <1>6

(* Two strings of one length that share it are the same.                   *)
LEMMA SameEqual ==
  ASSUME NEW a \in String, NEW b \in String, Len(a) = Len(b),
         Same(a, b, Len(a))
  PROVE  a = b
BY SeqEqual DEF String, Same

(* The first k characters of a string.                                     *)
LEMMA Begins ==
  ASSUME NEW a \in String, NEW k \in Nat, k <= Len(a)
  PROVE  /\ SubSeq(a, 1, k) \in String /\ Len(SubSeq(a, 1, k)) = k
         /\ Same(SubSeq(a, 1, k), a, k)
<1>1. /\ SubSeq(a, 1, k) \in Seq(Nat) /\ Len(SubSeq(a, 1, k)) = k
      /\ \A i \in 1 .. k : SubSeq(a, 1, k)[i] = a[i]
  BY DEF String
<1> QED BY <1>1 DEF Same, String

(* Prefixes in these terms.                                                *)
LEMMA PrefixSame ==
  ASSUME NEW a \in String, NEW b \in String
  PROVE  T!Prefix(a, b) <=> Same(a, b, Len(a))
<1>1. ASSUME T!Prefix(a, b) PROVE Same(a, b, Len(a))
  <2>1. Len(a) \in Nat /\ Len(a) <= Len(b) /\ a = SubSeq(b, 1, Len(a))
    BY <1>1, SameFacts DEF T!Prefix
  <2> QED BY <2>1, Begins
<1>2. ASSUME Same(a, b, Len(a)) PROVE T!Prefix(a, b)
  <2>1. Len(a) \in Nat /\ Len(a) <= Len(b)
    BY <1>2, SameFacts
  <2>2. /\ SubSeq(b, 1, Len(a)) \in String
        /\ Len(SubSeq(b, 1, Len(a))) = Len(a)
        /\ Same(SubSeq(b, 1, Len(a)), b, Len(a))
    BY <2>1, Begins
  <2>3. Same(a, SubSeq(b, 1, Len(a)), Len(a))
    BY <1>2, <2>1, <2>2, SameFacts
  <2>4. a = SubSeq(b, 1, Len(a))
    BY <2>2, <2>3, SameEqual
  <2> QED BY <2>1, <2>4 DEF T!Prefix
<1> QED BY <1>1, <1>2

(* Cutting two strings after k characters tells whether they share them.   *)
LEMMA CutSame ==
  ASSUME NEW a \in String, NEW b \in String, NEW k \in Nat,
         k <= Len(a), k <= Len(b)
  PROVE  (SubSeq(a, 1, k) = SubSeq(b, 1, k)) <=> Same(a, b, k)
<1>1. /\ SubSeq(a, 1, k) \in String /\ Len(SubSeq(a, 1, k)) = k
      /\ Same(SubSeq(a, 1, k), a, k)
      /\ SubSeq(b, 1, k) \in String /\ Len(SubSeq(b, 1, k)) = k
      /\ Same(SubSeq(b, 1, k), b, k)
  BY Begins
<1>2. ASSUME SubSeq(a, 1, k) = SubSeq(b, 1, k) PROVE Same(a, b, k)
  BY <1>1, <1>2, SameFacts
<1>3. ASSUME Same(a, b, k) PROVE SubSeq(a, 1, k) = SubSeq(b, 1, k)
  <2>1. Same(SubSeq(a, 1, k), b, k)
    BY <1>1, <1>3, SameFacts
  <2>2. Same(b, SubSeq(b, 1, k), k)
    BY <1>1, SameFacts
  <2>3. Same(SubSeq(a, 1, k), SubSeq(b, 1, k), k)
    BY <1>1, <2>1, <2>2, SameFacts
  <2> QED BY <1>1, <2>3, SameEqual
<1> QED BY <1>2, <1>3

-----------------------------------------------------------------------------
(* The shape of a trie: the strings D of its nodes, and where the prefix   *)
(* of each one starts                                                      *)

(* The nodes below n, with nothing between.                                *)
Below(X, s, n) == {m \in X : Same(n, m, Len(n)) /\ s[m] = Len(n) + 1}

(* A string that has the first character after which n was entered in      *)
(* common with n goes through n, and every node but the root is a child.   *)
Shape(X, s) ==
  /\ X \subseteq String /\ IsFiniteSet(X) /\ s \in [X -> Nat]
  /\ \E top \in Nat : \A n \in X : Len(n) <= top
  /\ \A n \in X : s[n] <= Len(n)
  /\ \A m \in X, n \in X : Same(m, n, s[n]) => Same(n, m, Len(n))
  /\ \A n \in X : s[n] = 0 \/ \E p \in X : n \in Below(X, s, p)

(* A set of numbers has a least one.                                       *)
LEMMA LeastThere ==
  ASSUME NEW Z \in SUBSET Nat, Z # {}
  PROVE  \E x \in Z : \A y \in Z : x <= y
<1>1. PICK x \in Z : \A y \in Z : ~(<<y, x>> \in OpToRel(<, Nat))
  BY NatLessThanWellFounded, WFMin, Zenon
<1>2. \A y \in Z : ~(y < x)
  BY <1>1 DEF OpToRel
<1> QED BY <1>2

(* Of some strings of bounded length there is a shortest and a longest.    *)
LEMMA ShortestThere ==
  ASSUME NEW S, S \subseteq String, S # {}
  PROVE  \E x \in S : \A y \in S : Len(x) <= Len(y)
<1> DEFINE Z == {Len(x) : x \in S}
<1>1. Z \in SUBSET Nat /\ Z # {}
  BY SameFacts
<1>2. PICK l \in Z : \A y \in Z : l <= y
  BY <1>1, LeastThere
<1>3. PICK x \in S : l = Len(x)
  BY <1>2
<1> QED BY <1>2, <1>3

LEMMA LongestThere ==
  ASSUME NEW S, S \subseteq String, S # {}, NEW top \in Nat,
         \A x \in S : Len(x) <= top
  PROVE  /\ T!Longest(S) \in S
         /\ \A y \in S : Len(y) <= Len(T!Longest(S))
<1> DEFINE Z == {top - Len(x) : x \in S}
<1>1. Z \in SUBSET Nat /\ Z # {}
  BY SameFacts
<1>2. PICK l \in Z : \A y \in Z : l <= y
  BY <1>1, LeastThere
<1>3. PICK x \in S : l = top - Len(x)
  BY <1>2
<1>4. \A y \in S : Len(y) \in Nat /\ l <= top - Len(y)
  BY <1>2, SameFacts
<1>5. \E z \in S : \A y \in S : Len(y) <= Len(z)
  BY <1>3, <1>4, SameFacts
<1> QED BY <1>5 DEF T!Longest

(* What lies below m has a child of m on its way.                          *)
LEMMA KidToward ==
  ASSUME NEW X, NEW s, Shape(X, s), NEW m \in X, NEW n \in X,
         Same(m, n, Len(m)), m # n
  PROVE  \E x \in Below(X, s, m) : Same(x, n, Len(x))
<1> DEFINE S == {x \in X : Same(x, n, Len(x)) /\ Len(m) < Len(x)}
<1>0. m \in String /\ n \in String /\ Len(m) \in Nat /\ Len(n) \in Nat
  BY SameFacts DEF Shape
<1>1. n \in S
  <2>1. Len(m) <= Len(n)
    BY <1>0, SameFacts
  <2>2. Len(m) # Len(n)
    BY <1>0, SameEqual
  <2> QED BY <1>0, <2>1, <2>2, SameFacts
<1>2. S \subseteq String
  BY DEF Shape
<1>3. PICK x \in S : \A y \in S : Len(x) <= Len(y)
  BY <1>1, <1>2, ShortestThere
<1>4. x \in String /\ Len(x) \in Nat /\ s[x] \in Nat /\ s[x] <= Len(x)
  BY <1>2, SameFacts DEF Shape
<1>5. ~(s[x] <= Len(m))
  <2> SUFFICES ASSUME s[x] <= Len(m) PROVE FALSE
    OBVIOUS
  <2>1. Same(m, n, s[x])
    BY <1>0, <1>4, SameFacts
  <2>2. Same(n, x, s[x])
    BY <1>0, <1>4, SameFacts
  <2>3. Same(m, x, s[x])
    BY <1>0, <1>4, <2>1, <2>2, SameFacts
  <2>4. Same(x, m, Len(x))
    BY <2>3, <1>3 DEF Shape
  <2> QED BY <1>0, <1>4, <2>4, SameFacts
<1>6. PICK p \in X : x \in Below(X, s, p)
  BY <1>0, <1>4, <1>5 DEF Shape
<1>7. p \in String /\ Len(p) \in Nat /\ Same(p, x, Len(p)) /\ s[x] = Len(p) + 1
  BY <1>6, SameFacts DEF Below, Shape
<1>8. Same(p, n, Len(p))
  <2>1. Len(p) <= Len(x)
    BY <1>4, <1>7, SameFacts
  <2>2. Same(x, n, Len(p))
    BY <1>0, <1>4, <1>7, <2>1, SameFacts
  <2> QED BY <1>0, <1>4, <1>7, <2>2, SameFacts
<1>9. ~(Len(m) < Len(p))
  <2> SUFFICES ASSUME Len(m) < Len(p) PROVE FALSE
    OBVIOUS
  <2>1. p \in S
    BY <1>8
  <2>2. Len(x) <= Len(p)
    BY <1>3, <2>1
  <2> QED BY <1>4, <1>7, <2>2
<1>10. Len(m) = Len(p)
  BY <1>0, <1>4, <1>5, <1>7, <1>9
<1>11. m = p
  <2>1. Same(n, p, Len(p))
    BY <1>0, <1>7, <1>8, SameFacts
  <2>2. Same(m, p, Len(m))
    BY <1>0, <1>7, <1>10, <2>1, SameFacts
  <2> QED BY <1>0, <1>7, <1>10, <2>2, SameEqual
<1> QED BY <1>6, <1>11

(* A node has one child for a character.                                   *)
LEMMA OneKid ==
  ASSUME NEW X, NEW s, Shape(X, s), NEW m \in X,
         NEW x \in Below(X, s, m), NEW y \in Below(X, s, m),
         Same(x, y, Len(m) + 1)
  PROVE  x = y
<1>1. /\ x \in X /\ y \in X /\ x \in String /\ y \in String
      /\ s[x] = Len(m) + 1 /\ s[y] = Len(m) + 1 /\ s[x] \in Nat
      /\ Len(x) \in Nat /\ Len(y) \in Nat
  BY SameFacts DEF Shape, Below
<1>2. Same(x, y, s[y]) /\ Same(y, x, s[x])
  BY <1>1, SameFacts
<1>3. Same(y, x, Len(y)) /\ Same(x, y, Len(x))
  BY <1>1, <1>2 DEF Shape
<1>4. Len(x) = Len(y)
  BY <1>1, <1>3, SameFacts
<1> QED BY <1>1, <1>3, <1>4, SameEqual

(* The parent of a node is unique, and shorter.                            *)
LEMMA OneParent ==
  ASSUME NEW X, NEW s, Shape(X, s), NEW p \in X, NEW q \in X,
         NEW x \in Below(X, s, p)
  PROVE  /\ Len(p) < Len(x)
         /\ x \in Below(X, s, q) => p = q
<1>1. /\ x \in X /\ x \in String /\ p \in String /\ q \in String
      /\ Len(x) \in Nat /\ Len(p) \in Nat /\ Len(q) \in Nat
      /\ Same(p, x, Len(p)) /\ s[x] = Len(p) + 1 /\ s[x] <= Len(x)
  BY SameFacts DEF Shape, Below
<1>2. ASSUME x \in Below(X, s, q) PROVE p = q
  <2>1. Same(q, x, Len(q)) /\ s[x] = Len(q) + 1
    BY <1>2 DEF Below
  <2>2. Len(p) = Len(q)
    BY <1>1, <2>1
  <2>3. Same(x, q, Len(p))
    BY <1>1, <2>1, <2>2, SameFacts
  <2>4. Same(p, q, Len(p))
    BY <1>1, <2>3, SameFacts
  <2> QED BY <1>1, <2>2, <2>4, SameEqual
<1> QED BY <1>1, <1>2

(* The root is a beginning of every node.                                  *)
LEMMA RootThere ==
  ASSUME NEW X, NEW s, Shape(X, s), X # {}
  PROVE  \E n \in X : s[n] = 0
<1>1. X \subseteq String
  BY DEF Shape
<1>2. PICK n \in X : \A y \in X : Len(n) <= Len(y)
  BY <1>1, ShortestThere
<1>3. ASSUME NEW p \in X, n \in Below(X, s, p) PROVE FALSE
  <2>1. Len(p) < Len(n) /\ Len(n) <= Len(p)
    BY <1>2, <1>3, OneParent
  <2> QED BY <2>1, <1>1, SameFacts
<1> QED BY <1>3 DEF Shape

(* A node that is merged with its only child makes room for it.            *)
MergeCase(X, s, n, m, z) ==
  /\ Shape(X, s) /\ n \in X /\ Below(X, s, n) = {m}
  /\ z = [x \in X \ {n} |-> IF x = m THEN s[n] ELSE s[x]]

Merged(X, s, n, m, z) ==
  \A y \in X \ {n} :
    /\ m \notin Below(X, s, y)
    /\ Below(X \ {n}, z, y) =
         IF n \in Below(X, s, y)
           THEN (Below(X, s, y) \ {n}) \cup {m} ELSE Below(X, s, y)

(* The others have the children they had, but for m.                       *)
LEMMA ShapeMerge ==
  ASSUME NEW X, NEW s, NEW n, NEW m, NEW z, MergeCase(X, s, n, m, z)
  PROVE  Shape(X \ {n}, z) /\ m \in X /\ m # n /\ Merged(X, s, n, m, z)
<1>0. /\ Shape(X, s) /\ n \in X /\ Below(X, s, n) = {m}
      /\ z = [x \in X \ {n} |-> IF x = m THEN s[n] ELSE s[x]]
  BY DEF MergeCase
<1> USE <1>0
<1> DEFINE E == X \ {n}
<1>1. /\ m \in X /\ m \in String /\ n \in String /\ X \subseteq String
      /\ Len(m) \in Nat /\ Len(n) \in Nat
      /\ Same(n, m, Len(n)) /\ s[m] = Len(n) + 1 /\ s[m] <= Len(m)
      /\ s[n] \in Nat /\ s[n] <= Len(n)
  BY SameFacts DEF Shape, Below
<1>2. m # n
  BY <1>1
<1>3. z \in [E -> Nat] /\ z[m] = s[n] /\ \A x \in E : x # m => z[x] = s[x]
  BY <1>1, <1>2 DEF Shape
<1>4. \A x \in E : z[x] <= Len(x)
  BY <1>1, <1>3, SameFacts DEF Shape
<1>5. ASSUME NEW x \in E, NEW y \in E, Same(x, y, z[y])
      PROVE  Same(y, x, Len(y))
  <2>1. CASE y # m
    BY <1>3, <1>5, <2>1 DEF Shape
  <2>2. CASE y = m
    <3>1. Same(x, m, s[n])
      BY <1>3, <1>5, <2>2
    <3>2. x \in String /\ Same(m, n, s[n])
      BY <1>1, SameFacts
    <3>3. Same(x, n, s[n])
      BY <1>1, <3>1, <3>2, SameFacts
    <3>4. Same(n, x, Len(n))
      BY <3>3 DEF Shape
    <3>5. PICK w \in Below(X, s, n) : Same(w, x, Len(w))
      BY <3>4, KidToward
    <3> QED BY <3>5, <2>2
  <2> QED BY <2>1, <2>2
<1>6. ASSUME NEW y \in E
      PROVE  /\ m \notin Below(X, s, y)
             /\ Below(E, z, y) =
                  IF n \in Below(X, s, y)
                    THEN (Below(X, s, y) \ {n}) \cup {m} ELSE Below(X, s, y)
  <2>1. m \notin Below(X, s, y)
    <3>1. m \in Below(X, s, n)
      OBVIOUS
    <3> QED BY <3>1, OneParent
  <2>2. y \in String /\ Len(y) \in Nat
    BY <1>1, SameFacts
  <2>3. m \in Below(E, z, y) <=> n \in Below(X, s, y)
    <3>1. ASSUME m \in Below(E, z, y) PROVE n \in Below(X, s, y)
      <4>1. Same(y, m, Len(y)) /\ s[n] = Len(y) + 1
        BY <3>1, <1>3 DEF Below
      <4>2. Len(y) <= Len(n) /\ Same(m, n, Len(n))
        BY <1>1, <2>2, <4>1, SameFacts
      <4>3. Same(m, n, Len(y))
        BY <1>1, <2>2, <4>2, SameFacts
      <4>4. Same(y, n, Len(y))
        BY <1>1, <2>2, <4>1, <4>3, SameFacts
      <4> QED BY <4>1, <4>4 DEF Below
    <3>2. ASSUME n \in Below(X, s, y) PROVE m \in Below(E, z, y)
      <4>1. Same(y, n, Len(y)) /\ s[n] = Len(y) + 1
        BY <3>2 DEF Below
      <4>2. Same(n, m, Len(y))
        BY <1>1, <2>2, <4>1, SameFacts
      <4>3. Same(y, m, Len(y))
        BY <1>1, <2>2, <4>1, <4>2, SameFacts
      <4> QED BY <4>1, <4>3, <1>1, <1>2, <1>3 DEF Below
    <3> QED BY <3>1, <3>2
  <2>4. \A x \in E : x # m => (x \in Below(E, z, y) <=> x \in Below(X, s, y))
    BY <1>3 DEF Below
  <2>5. /\ \A x \in Below(E, z, y) : x \in E
        /\ \A x \in Below(X, s, y) : x \in X
    BY DEF Below
  <2>6. ASSUME n \in Below(X, s, y)
        PROVE  Below(E, z, y) = (Below(X, s, y) \ {n}) \cup {m}
    <3>1. m \in Below(E, z, y) /\ n \notin Below(E, z, y)
      BY <2>3, <2>5, <2>6
    <3> QED BY <1>1, <1>2, <2>4, <2>5, <2>6, <3>1
  <2>7. ASSUME n \notin Below(X, s, y)
        PROVE  Below(E, z, y) = Below(X, s, y)
    <3>1. m \notin Below(E, z, y)
      BY <2>3, <2>7
    <3> QED BY <2>1, <2>4, <2>5, <2>7, <3>1
  <2> QED BY <2>1, <2>6, <2>7
<1>7. ASSUME NEW y \in E
      PROVE  z[y] = 0 \/ \E p \in E : y \in Below(E, z, p)
  <2>1. CASE y # m
    <3>1. s[y] = 0 \/ \E p \in X : y \in Below(X, s, p)
      BY DEF Shape
    <3>2. CASE s[y] = 0
      BY <1>3, <2>1, <3>2
    <3>3. ASSUME NEW p \in X, y \in Below(X, s, p) PROVE \E q \in E : y \in Below(E, z, q)
      <4>1. p # n
        BY <2>1, <3>3
      <4>2. y # n
        OBVIOUS
      <4> QED BY <1>6, <3>3, <4>1, <4>2
    <3> QED BY <3>1, <3>2, <3>3
  <2>2. CASE y = m
    <3>1. s[n] = 0 \/ \E p \in X : n \in Below(X, s, p)
      BY DEF Shape
    <3>2. CASE s[n] = 0
      BY <1>3, <2>2, <3>2
    <3>3. ASSUME NEW p \in X, n \in Below(X, s, p) PROVE \E q \in E : y \in Below(E, z, q)
      <4>1. p # n
        BY <3>3, OneParent, <1>1
      <4> QED BY <1>6, <2>2, <3>3, <4>1
    <3> QED BY <3>1, <3>2, <3>3
  <2> QED BY <2>1, <2>2
<1>8. IsFiniteSet(E)
  BY FS_RemoveElement DEF Shape
<1>9. \E top \in Nat : \A x \in E : Len(x) <= top
  BY DEF Shape
<1>10. Shape(E, z)
  BY <1>1, <1>3, <1>4, <1>5, <1>7, <1>8, <1>9 DEF Shape
<1> QED BY <1>1, <1>2, <1>6, <1>10 DEF Merged

(* The node n is split after k characters, those of p.                     *)
SplitCase(X, s, n, k, p, z) ==
  /\ Shape(X, s) /\ n \in X /\ k \in Nat /\ s[n] <= k /\ k < Len(n)
  /\ p \in String /\ Len(p) = k /\ Same(p, n, k)
  /\ z = [x \in X \cup {p} |-> IF x = p THEN s[n]
                                ELSE IF x = n THEN k + 1 ELSE s[x]]

(* Below the nodes D, p is in the place of n.                              *)
InPlace(X, s, E, z, n, p) ==
  \A y \in X :
    Below(E, z, y) = IF n \in Below(X, s, y)
                       THEN (Below(X, s, y) \ {n}) \cup {p}
                       ELSE Below(X, s, y)

(* The node m has the one child n.                                         *)
Only(X, s, m, n) == Below(X, s, m) = {n}

(* A node that is split gets the node p above it.                          *)
LEMMA ShapeSplit ==
  ASSUME NEW X, NEW s, NEW n, NEW k, NEW p, NEW z,
         SplitCase(X, s, n, k, p, z)
  PROVE  /\ Shape(X \cup {p}, z) /\ p \notin X
         /\ Only(X \cup {p}, z, p, n)
         /\ InPlace(X, s, X \cup {p}, z, n, p)
<1>0. /\ Shape(X, s) /\ n \in X /\ k \in Nat /\ s[n] <= k /\ k < Len(n)
      /\ p \in String /\ Len(p) = k /\ Same(p, n, k)
      /\ z = [x \in X \cup {p} |-> IF x = p THEN s[n]
                                    ELSE IF x = n THEN k + 1 ELSE s[x]]
  BY DEF SplitCase
<1> USE <1>0
<1> DEFINE E == X \cup {p}
<1>1. /\ n \in String /\ X \subseteq String /\ Len(n) \in Nat /\ s[n] \in Nat
      /\ \A x \in X : Len(x) \in Nat /\ s[x] \in Nat /\ s[x] <= Len(x)
  BY SameFacts DEF Shape
<1>2. p \notin X
  <2> SUFFICES ASSUME p \in X PROVE FALSE
    OBVIOUS
  <2>1. Same(p, n, s[n])
    BY <1>1, SameFacts
  <2>2. Same(n, p, Len(n))
    BY <2>1 DEF Shape
  <2> QED BY <1>1, <2>2, SameFacts
<1>3. /\ z \in [E -> Nat] /\ z[p] = s[n] /\ z[n] = k + 1
      /\ \A x \in X : x # n => z[x] = s[x]
  BY <1>1, <1>2
<1>4. \A x \in E : z[x] <= Len(x)
  BY <1>1, <1>3
(* Whoever enters p goes through it, and p is on the way to n.             *)
<1>5. ASSUME NEW x \in X, Same(x, p, s[n]) PROVE Same(n, x, Len(n))
  <2>1. Same(p, n, s[n])
    BY <1>1, SameFacts
  <2>2. Same(x, n, s[n])
    BY <1>1, <1>5, <2>1, SameFacts
  <2> QED BY <2>2 DEF Shape
<1>6. ASSUME NEW x \in E, NEW y \in E, Same(x, y, z[y])
      PROVE  Same(y, x, Len(y))
  <2>1. CASE x = p /\ y = p
    BY <2>1, SameFacts
  <2>2. CASE x \in X /\ y = p
    <3>1. Same(n, x, Len(n))
      BY <1>3, <1>5, <1>6, <2>2
    <3>2. Same(n, x, k)
      BY <1>1, <2>2, <3>1, SameFacts
    <3> QED BY <1>1, <2>2, <3>2, SameFacts
  <2>3. CASE x = p /\ y = n
    <3>1. k + 1 <= Len(p)
      BY <1>1, <1>3, <1>6, <2>3, SameFacts
    <3> QED BY <3>1
  <2>4. CASE x = p /\ y \in X /\ y # n
    <3>1. Same(p, y, s[y]) /\ s[y] <= k
      BY <1>1, <1>3, <1>6, <2>4, SameFacts
    <3>2. Same(n, p, s[y])
      BY <1>1, <2>4, <3>1, SameFacts
    <3>3. Same(n, y, s[y])
      BY <1>1, <2>4, <3>1, <3>2, SameFacts
    <3>4. Same(y, n, Len(y))
      BY <2>4, <3>3 DEF Shape
    <3>5. Len(y) <= k
      <4> SUFFICES ASSUME k < Len(y) PROVE FALSE
        BY <1>1, <2>4
      <4>1. Same(y, n, s[n])
        BY <1>1, <2>4, <3>4, SameFacts
      <4>2. Same(n, y, Len(n))
        BY <2>4, <4>1 DEF Shape
      <4>3. Len(y) = Len(n)
        BY <1>1, <2>4, <3>4, <4>2, SameFacts
      <4> QED BY <1>1, <2>4, <4>2, <4>3, SameEqual
    <3>6. Same(n, p, Len(y))
      BY <1>1, <2>4, <3>5, SameFacts
    <3> QED BY <1>1, <2>4, <3>4, <3>6, SameFacts
  <2>5. CASE x \in X /\ y = n
    <3>1. Same(x, n, k + 1)
      BY <1>3, <1>6, <2>5
    <3>2. Same(x, n, s[n])
      BY <1>1, <2>5, <3>1, SameFacts
    <3> QED BY <2>5, <3>2 DEF Shape
  <2>6. CASE x \in X /\ y \in X /\ y # n
    BY <1>3, <1>6, <2>6 DEF Shape
  <2> QED BY <2>1, <2>2, <2>3, <2>4, <2>5, <2>6
<1>7. ASSUME NEW y \in X
      PROVE  Below(E, z, y) =
               IF n \in Below(X, s, y)
                 THEN (Below(X, s, y) \ {n}) \cup {p} ELSE Below(X, s, y)
  <2>1. p \in Below(E, z, y) <=> n \in Below(X, s, y)
    <3>1. ASSUME p \in Below(E, z, y) PROVE n \in Below(X, s, y)
      <4>1. Same(y, p, Len(y)) /\ s[n] = Len(y) + 1
        BY <3>1, <1>3 DEF Below
      <4>2. Same(p, n, Len(y))
        BY <1>1, <4>1, SameFacts
      <4>3. Same(y, n, Len(y))
        BY <1>1, <4>1, <4>2, SameFacts
      <4> QED BY <4>1, <4>3 DEF Below
    <3>2. ASSUME n \in Below(X, s, y) PROVE p \in Below(E, z, y)
      <4>1. Same(y, n, Len(y)) /\ s[n] = Len(y) + 1
        BY <3>2 DEF Below
      <4>2. Same(n, p, Len(y))
        BY <1>1, <4>1, SameFacts
      <4>3. Same(y, p, Len(y))
        BY <1>1, <4>1, <4>2, SameFacts
      <4> QED BY <4>1, <4>3, <1>3 DEF Below
    <3> QED BY <3>1, <3>2
  <2>2. n \notin Below(E, z, y)
    <3> SUFFICES ASSUME n \in Below(E, z, y) PROVE FALSE
      OBVIOUS
    <3>1. Same(y, n, Len(y)) /\ k = Len(y)
      BY <1>1, <1>3 DEF Below
    <3>2. Same(n, p, k)
      BY <1>1, SameFacts
    <3>3. Same(y, p, k)
      BY <1>1, <3>1, <3>2, SameFacts
    <3>4. y = p
      BY <1>1, <3>1, <3>3, SameEqual
    <3> QED BY <1>2, <3>4
  <2>3. \A x \in X : x # n => (x \in Below(E, z, y) <=> x \in Below(X, s, y))
    BY <1>3 DEF Below
  <2>4. /\ \A x \in Below(E, z, y) : x \in E
        /\ \A x \in Below(X, s, y) : x \in X
    BY DEF Below
  <2>5. ASSUME n \in Below(X, s, y)
        PROVE  Below(E, z, y) = (Below(X, s, y) \ {n}) \cup {p}
    <3>1. p \in Below(E, z, y)
      BY <2>1, <2>5
    <3> QED BY <2>2, <2>3, <2>4, <2>5, <3>1
  <2>6. ASSUME n \notin Below(X, s, y)
        PROVE  Below(E, z, y) = Below(X, s, y)
    <3>1. p \notin Below(E, z, y)
      BY <2>1, <2>6
    <3>2. \A x \in Below(E, z, y) : x \in Below(X, s, y)
      BY <2>2, <2>3, <2>4, <3>1
    <3>3. \A x \in Below(X, s, y) : x \in Below(E, z, y)
      BY <2>3, <2>4, <2>6
    <3> QED BY <3>2, <3>3
  <2> QED BY <2>5, <2>6
<1>8. Below(E, z, p) = {n}
  <2>1. n \in Below(E, z, p)
    BY <1>1, <1>3 DEF Below
  <2>2. ASSUME NEW x \in Below(E, z, p) PROVE x = n
    <3>1. x \in E /\ Same(p, x, k) /\ z[x] = k + 1
      BY DEF Below
    <3>2. x # p
      BY <1>1, <1>3, <3>1
    <3>3. x \in X /\ x \in String
      BY <1>1, <3>1, <3>2
    <3>4. Same(x, p, s[n])
      BY <1>1, <3>1, <3>3, SameFacts
    <3>5. Same(n, x, Len(n))
      BY <1>5, <3>3, <3>4
    <3> SUFFICES ASSUME x # n PROVE FALSE
      OBVIOUS
    <3>6. s[x] = k + 1
      BY <1>3, <3>1, <3>3
    <3>7. Same(n, x, s[x])
      BY <1>1, <3>3, <3>5, <3>6, SameFacts
    <3>8. Same(x, n, Len(x))
      BY <3>3, <3>7 DEF Shape
    <3>9. Len(x) = Len(n)
      BY <1>1, <3>3, <3>5, <3>8, SameFacts
    <3> QED BY <1>1, <3>3, <3>5, <3>9, SameEqual
  <2> QED BY <2>1, <2>2
<1>9. ASSUME NEW y \in E
      PROVE  z[y] = 0 \/ \E q \in E : y \in Below(E, z, q)
  <2>1. CASE y = n
    BY <1>8, <2>1
  <2>2. CASE y = p
    <3>1. s[n] = 0 \/ \E q \in X : n \in Below(X, s, q)
      BY DEF Shape
    <3> QED BY <1>3, <1>7, <2>2, <3>1
  <2>3. CASE y \in X /\ y # n
    <3>1. s[y] = 0 \/ \E q \in X : y \in Below(X, s, q)
      BY <2>3 DEF Shape
    <3> QED BY <1>3, <1>7, <2>3, <3>1
  <2> QED BY <2>1, <2>2, <2>3
<1>10. IsFiniteSet(E)
  BY FS_AddElement DEF Shape
<1>11. \E top \in Nat : \A x \in E : Len(x) <= top
  <2>1. PICK top \in Nat : \A x \in X : Len(x) <= top
    BY DEF Shape
  <2> QED BY <1>1, <2>1
<1>12. Shape(E, z)
  BY <1>1, <1>3, <1>4, <1>6, <1>9, <1>10, <1>11 DEF Shape
<1> QED BY <1>2, <1>7, <1>8, <1>12 DEF InPlace, Only

(* The nodes R are taken away, and with each one what is below it.         *)
LessCase(X, s, R, z) ==
  /\ Shape(X, s) /\ R \subseteq X /\ \A p \in R : Below(X, s, p) \subseteq R
  /\ z = [x \in X \ R |-> s[x]]

Without(X, s, R, z) ==
  \A y \in X \ R : Below(X \ R, z, y) = Below(X, s, y) \ R

(* What is left keeps its shape.                                           *)
LEMMA ShapeLess ==
  ASSUME NEW X, NEW s, NEW R, NEW z, LessCase(X, s, R, z)
  PROVE  Shape(X \ R, z) /\ Without(X, s, R, z)
<1>0. /\ Shape(X, s) /\ R \subseteq X
      /\ \A p \in R : Below(X, s, p) \subseteq R
      /\ z = [x \in X \ R |-> s[x]]
  BY DEF LessCase
<1> USE <1>0
<1> DEFINE E == X \ R
<1>1. z \in [E -> Nat] /\ \A x \in E : z[x] = s[x]
  BY DEF Shape
<1>2. \A y \in E : Below(E, z, y) = Below(X, s, y) \ R
  BY <1>1 DEF Below
<1>3. ASSUME NEW y \in E
      PROVE  z[y] = 0 \/ \E p \in E : y \in Below(E, z, p)
  <2>1. s[y] = 0 \/ \E p \in X : y \in Below(X, s, p)
    BY DEF Shape
  <2>2. ASSUME NEW p \in X, y \in Below(X, s, p) PROVE p \in E
    BY <2>2
  <2> QED BY <1>1, <1>2, <2>1, <2>2
<1>4. IsFiniteSet(E)
  BY FS_Subset DEF Shape
<1>5. /\ E \subseteq String
      /\ \E top \in Nat : \A n \in E : Len(n) <= top
      /\ \A n \in E : z[n] <= Len(n)
  BY <1>1 DEF Shape
<1>6. \A m \in E, n \in E : Same(m, n, z[n]) => Same(n, m, Len(n))
  BY <1>1 DEF Shape
<1>7. Shape(E, z)
  BY <1>1, <1>3, <1>4, <1>5, <1>6 DEF Shape
<1> QED BY <1>2, <1>7 DEF Without

(* The nodes N of a chain for the end of the string d, from its place at   *)
(* on; v is where their prefixes start.                                    *)
Links(N, v, d, pl) ==
  /\ N \subseteq String /\ IsFiniteSet(N) /\ v \in [N -> Nat] /\ d \in N
  /\ \A x \in N : Same(x, d, Len(x)) /\ pl <= v[x] /\ v[x] <= Len(x)
  /\ \A x \in N, y \in N : v[y] <= Len(x) => Len(y) <= Len(x)
  /\ \A x \in N : v[x] = pl \/ \E p \in N : v[x] = Len(p) + 1
  /\ \A x \in N : x # d => \E y \in N : v[y] = Len(x) + 1
  /\ \E x \in N : v[x] = pl

(* The way of d through the nodes D ends before its place at.              *)
EndsAt(X, s, d, pl) ==
  /\ \A m \in X : Same(m, d, s[m]) => Len(m) < pl
  /\ pl = 0 \/ \E a \in X : Len(a) + 1 = pl /\ Same(a, d, Len(a))

(* The chain N is put at the end of the way of d.                          *)
HangCase(X, s, d, pl, N, v, z) ==
  /\ Shape(X, s) /\ d \in String /\ pl \in Nat /\ pl <= Len(d)
  /\ EndsAt(X, s, d, pl) /\ Links(N, v, d, pl)
  /\ z = [x \in X \cup N |-> IF x \in N THEN v[x] ELSE s[x]]

(* The last node it hangs on has one child more, each node of the chain    *)
(* but the last has one.                                                   *)
Hung(X, s, d, pl, N, E, z) ==
  /\ \A x \in N : x \notin X
  /\ \A x \in N : x # d => \E y : Below(E, z, x) = {y}
  /\ Below(E, z, d) = {}
  /\ \A y \in X : Len(y) + 1 = pl /\ Same(y, d, Len(y)) =>
       \E x \in N : /\ Below(E, z, y) = Below(X, s, y) \cup {x}
                    /\ x \notin Below(X, s, y)
  /\ \A y \in X : ~(Len(y) + 1 = pl /\ Same(y, d, Len(y))) =>
       Below(E, z, y) = Below(X, s, y)

(* A chain gives the trie a shape again.                                   *)
LEMMA ShapeGrow ==
  ASSUME NEW X, NEW s, NEW d, NEW pl, NEW N, NEW v, NEW z,
         HangCase(X, s, d, pl, N, v, z)
  PROVE  Shape(X \cup N, z) /\ Hung(X, s, d, pl, N, X \cup N, z)
<1> DEFINE E == X \cup N
<1>0. /\ Shape(X, s) /\ d \in String /\ pl \in Nat /\ pl <= Len(d)
      /\ EndsAt(X, s, d, pl) /\ Links(N, v, d, pl)
      /\ z = [x \in X \cup N |-> IF x \in N THEN v[x] ELSE s[x]]
  BY DEF HangCase
<1> USE <1>0
<1>1. /\ X \subseteq String /\ N \subseteq String
      /\ \A x \in E : x \in String /\ Len(x) \in Nat
      /\ \A x \in X : s[x] \in Nat /\ s[x] <= Len(x)
      /\ \A x \in N : v[x] \in Nat /\ v[x] <= Len(x) /\ pl <= v[x]
      /\ \A x \in N : Same(x, d, Len(x))
      /\ Len(d) \in Nat
  BY SameFacts DEF Shape, Links
<1>2. ASSUME NEW x \in X, Same(x, d, pl) PROVE FALSE
  <2>1. CASE pl = 0
    <3>1. PICK r \in X : s[r] = 0
      BY RootThere
    <3>2. Same(r, d, s[r])
      BY <1>1, <3>1 DEF Same
    <3> QED BY <1>1, <2>1, <3>1, <3>2 DEF EndsAt
  <2>2. ASSUME NEW a \in X, Len(a) + 1 = pl, Same(a, d, Len(a)) PROVE FALSE
    <3>1. Same(d, x, Len(a))
      BY <1>1, <1>2, <2>2, SameFacts
    <3>2. Same(a, x, Len(a))
      BY <1>1, <2>2, <3>1, SameFacts
    <3>3. a # x
      BY <1>1, <1>2, <2>2, SameFacts
    <3>4. PICK w \in Below(X, s, a) : Same(w, x, Len(w))
      BY <3>2, <3>3, KidToward
    <3>5. w \in X /\ s[w] = pl /\ pl <= Len(w)
      BY <1>1, <2>2, <3>4 DEF Below
    <3>6. Same(w, x, pl)
      BY <1>1, <3>4, <3>5, SameFacts
    <3>7. Same(w, d, pl)
      BY <1>1, <1>2, <3>5, <3>6, SameFacts
    <3> QED BY <1>1, <3>5, <3>7 DEF EndsAt
  <2> QED BY <2>1, <2>2 DEF EndsAt
<1>3. ASSUME NEW x \in X, NEW y \in N, NEW k \in Nat, pl <= k,
             Same(x, y, k)
      PROVE  FALSE
  <2>1. Same(x, y, pl) /\ pl <= Len(y)
    BY <1>1, <1>3, SameFacts
  <2>2. Same(y, d, pl)
    BY <1>1, <2>1, SameFacts
  <2>3. Same(x, d, pl)
    BY <1>1, <2>1, <2>2, SameFacts
  <2> QED BY <1>2, <2>3
<1>4. \A x \in N : x \notin X
  <2> SUFFICES ASSUME NEW x \in N, x \in X PROVE FALSE
    OBVIOUS
  <2>1. Same(x, x, Len(x))
    BY <1>1, SameFacts
  <2> QED BY <1>1, <1>3, <2>1
<1>5. /\ z \in [E -> Nat]
      /\ \A x \in N : z[x] = v[x]
      /\ \A x \in X : z[x] = s[x]
  BY <1>1, <1>4
<1>6. \A x \in E : z[x] <= Len(x)
  BY <1>1, <1>5
(* Two nodes of the chain.                                                 *)
<1>7. ASSUME NEW x \in N, NEW y \in N, Len(y) <= Len(x)
      PROVE  Same(y, x, Len(y))
  <2>1. Same(x, d, Len(y))
    BY <1>1, <1>7, SameFacts
  <2>2. Same(d, x, Len(y))
    BY <1>1, <2>1, SameFacts
  <2> QED BY <1>1, <2>2, SameFacts
<1>8. ASSUME NEW x \in N, NEW y \in N, v[x] = v[y] PROVE x = y
  <2>1. v[y] <= Len(x) /\ v[x] <= Len(y)
    BY <1>1, <1>8
  <2>2. Len(y) <= Len(x) /\ Len(x) <= Len(y)
    BY <2>1 DEF Links
  <2>3. Len(x) = Len(y)
    BY <1>1, <2>2
  <2>4. Same(y, x, Len(y))
    BY <1>7, <2>2
  <2> QED BY <1>1, <2>3, <2>4, SameEqual
<1>9. ASSUME NEW x \in E, NEW y \in E, Same(x, y, z[y])
      PROVE  Same(y, x, Len(y))
  <2>1. CASE x \in X /\ y \in X
    BY <1>5, <1>9, <2>1 DEF Shape
  <2>2. CASE x \in N /\ y \in N
    <3>1. v[y] <= Len(x)
      BY <1>1, <1>5, <1>9, <2>2, SameFacts
    <3> QED BY <1>7, <2>2, <3>1 DEF Links
  <2>3. CASE x \in X /\ y \in N
    BY <1>1, <1>3, <1>5, <1>9, <2>3
  <2>4. CASE x \in N /\ y \in X
    <3>1. Same(x, y, s[y])
      BY <1>5, <1>9, <2>4
    <3>2. s[y] <= Len(x)
      BY <1>1, <2>4, <3>1, SameFacts
    <3>3. Same(y, x, s[y]) /\ Same(x, d, s[y])
      BY <1>1, <2>4, <3>1, <3>2, SameFacts
    <3>4. Same(y, d, s[y])
      BY <1>1, <2>4, <3>3, SameFacts
    <3>5. Len(y) < pl
      BY <2>4, <3>4 DEF EndsAt
    <3>6. PICK a \in X : Len(a) + 1 = pl /\ Same(a, d, Len(a))
      BY <1>1, <2>4, <3>5 DEF EndsAt
    <3>7. Len(y) <= Len(a) /\ s[y] <= Len(a) /\ Len(y) <= Len(x)
      BY <1>1, <2>4, <3>5, <3>6
    <3>8. Same(a, d, s[y]) /\ Same(d, y, s[y])
      BY <1>1, <2>4, <3>4, <3>6, <3>7, SameFacts
    <3>9. Same(a, y, s[y])
      BY <1>1, <2>4, <3>8, SameFacts
    <3>10. Same(y, a, Len(y))
      BY <2>4, <3>9 DEF Shape
    <3>11. Same(a, d, Len(y)) /\ Same(x, d, Len(y))
      BY <1>1, <2>4, <3>6, <3>7, SameFacts
    <3>12. Same(y, d, Len(y)) /\ Same(d, x, Len(y))
      BY <1>1, <2>4, <3>10, <3>11, SameFacts
    <3> QED BY <1>1, <2>4, <3>12, SameFacts
  <2> QED BY <2>1, <2>2, <2>3, <2>4
(* What is below the nodes now.                                            *)
<1>10. ASSUME NEW x \in N
       PROVE  \A w \in Below(E, z, x) : w \in N /\ v[w] = Len(x) + 1
  <2> SUFFICES ASSUME NEW w \in Below(E, z, x)
               PROVE  w \in N /\ v[w] = Len(x) + 1
    OBVIOUS
  <2>1. w \in E /\ Same(x, w, Len(x)) /\ z[w] = Len(x) + 1
    BY DEF Below
  <2>2. w \notin X
    <3> SUFFICES ASSUME w \in X PROVE FALSE
      OBVIOUS
    <3>1. Same(w, x, Len(x)) /\ pl <= Len(x)
      BY <1>1, <2>1, SameFacts
    <3> QED BY <1>1, <1>3, <3>1
  <2> QED BY <1>5, <2>1, <2>2
<1>11. ASSUME NEW x \in N, NEW w \in N, v[w] = Len(x) + 1
       PROVE  w \in Below(E, z, x)
  <2>1. Len(x) <= Len(w)
    BY <1>1, <1>11
  <2>2. Same(x, w, Len(x))
    BY <1>7, <2>1
  <2> QED BY <1>5, <1>11, <2>2 DEF Below
<1>12. ASSUME NEW x \in N, x # d PROVE \E y : Below(E, z, x) = {y}
  <2>1. PICK y \in N : v[y] = Len(x) + 1
    BY <1>12 DEF Links
  <2>2. y \in Below(E, z, x)
    BY <1>11, <2>1
  <2>3. \A w \in Below(E, z, x) : w = y
    BY <1>8, <1>10, <2>1
  <2> QED BY <2>2, <2>3
<1>13. ASSUME NEW y \in X, NEW x \in N, x \in Below(E, z, y)
       PROVE  Len(y) + 1 = pl /\ Same(y, d, Len(y)) /\ v[x] = pl
  <2>1. Same(y, x, Len(y)) /\ v[x] = Len(y) + 1
    BY <1>5, <1>13 DEF Below
  <2>2. Same(x, d, Len(y))
    BY <1>1, <2>1, SameFacts
  <2>3. Same(y, d, Len(y))
    BY <1>1, <2>1, <2>2, SameFacts
  <2>4. Same(y, d, s[y])
    BY <1>1, <2>3, SameFacts
  <2>5. Len(y) < pl
    BY <2>4 DEF EndsAt
  <2> QED BY <1>1, <2>1, <2>3, <2>5
<1>14. ASSUME NEW y \in X, NEW x \in N, Len(y) + 1 = pl, Same(y, d, Len(y)),
              v[x] = pl
       PROVE  x \in Below(E, z, y)
  <2>1. Len(y) <= Len(x)
    BY <1>1, <1>14
  <2>2. Same(x, d, Len(y))
    BY <1>1, <2>1, SameFacts
  <2>3. Same(d, x, Len(y))
    BY <1>1, <2>2, SameFacts
  <2>4. Same(y, x, Len(y))
    BY <1>1, <1>14, <2>3, SameFacts
  <2> QED BY <1>5, <1>14, <2>4 DEF Below
<1>15. \A y \in X : \A w \in X : w \in Below(E, z, y) <=> w \in Below(X, s, y)
  BY <1>5 DEF Below
<1>16. \A y \in X : Below(X, s, y) \subseteq X /\ Below(E, z, y) \subseteq E
  BY DEF Below
<1>17. ASSUME NEW y \in X, Len(y) + 1 = pl, Same(y, d, Len(y))
       PROVE  \E x \in N : /\ Below(E, z, y) = Below(X, s, y) \cup {x}
                           /\ x \notin Below(X, s, y)
  <2>1. PICK x \in N : v[x] = pl
    BY DEF Links
  <2>2. x \in Below(E, z, y)
    BY <1>14, <1>17, <2>1
  <2>3. \A w \in N : w \in Below(E, z, y) => w = x
    BY <1>8, <1>13, <2>1
  <2>4. \A w \in Below(E, z, y) : w \in Below(X, s, y) \cup {x}
    BY <1>15, <1>16, <2>3
  <2>5. \A w \in Below(X, s, y) \cup {x} : w \in Below(E, z, y)
    BY <1>15, <1>16, <2>2
  <2>6. Below(E, z, y) = Below(X, s, y) \cup {x}
    BY <2>4, <2>5
  <2>7. x \notin Below(X, s, y)
    BY <1>4, <1>16
  <2> QED BY <2>6, <2>7
<1>18. ASSUME NEW y \in X, ~(Len(y) + 1 = pl /\ Same(y, d, Len(y)))
       PROVE  Below(E, z, y) = Below(X, s, y)
  <2>1. \A w \in Below(E, z, y) : w \in X
    BY <1>13, <1>16, <1>18
  <2> QED BY <1>15, <1>16, <2>1
<1>19. ASSUME NEW y \in E
       PROVE  z[y] = 0 \/ \E p \in E : y \in Below(E, z, p)
  <2>1. CASE y \in X
    <3>1. s[y] = 0 \/ \E p \in X : y \in Below(X, s, p)
      BY <2>1 DEF Shape
    <3> QED BY <1>5, <1>15, <2>1, <3>1
  <2>2. CASE y \in N /\ v[y] = pl
    <3>1. pl = 0 \/ \E a \in X : Len(a) + 1 = pl /\ Same(a, d, Len(a))
      BY DEF EndsAt
    <3> QED BY <1>5, <1>14, <2>2, <3>1
  <2>3. CASE y \in N /\ v[y] # pl
    <3>1. PICK p \in N : v[y] = Len(p) + 1
      BY <2>3 DEF Links
    <3> QED BY <1>11, <2>3, <3>1
  <2> QED BY <2>1, <2>2, <2>3
<1>20. IsFiniteSet(E)
  BY FS_Union DEF Shape, Links
<1>21. \E top \in Nat : \A x \in E : Len(x) <= top
  <2>1. PICK top \in Nat : \A x \in X : Len(x) <= top
    BY DEF Shape
  <2>2. \A x \in N : Len(x) <= Len(d)
    BY <1>1, SameFacts
  <2>3. CASE top <= Len(d)
    BY <1>1, <2>1, <2>2, <2>3
  <2>4. CASE ~(top <= Len(d))
    BY <1>1, <2>1, <2>2, <2>4
  <2> QED BY <2>3, <2>4
<1>22. Shape(E, z)
  BY <1>1, <1>5, <1>6, <1>9, <1>19, <1>20, <1>21 DEF Shape
<1>23. Below(E, z, d) = {}
  <2> SUFFICES ASSUME NEW w \in Below(E, z, d) PROVE FALSE
    OBVIOUS
  <2>1. d \in N
    BY DEF Links
  <2>2. w \in N /\ v[w] = Len(d) + 1
    BY <1>10, <2>1
  <2>3. Len(w) <= Len(d)
    BY <1>1, <2>2, SameFacts
  <2> QED BY <1>1, <2>2, <2>3
<1> QED BY <1>4, <1>12, <1>17, <1>18, <1>22, <1>23 DEF Hung

(* Multiples of a positive number.                                         *)
LEMMA Multiples ==
  ASSUME NEW q \in Nat, q >= 1, NEW i \in Nat, NEW j \in Nat
  PROVE  /\ i * q \in Nat /\ j * q \in Nat
         /\ i < j => i * q + q <= j * q
         /\ (i + 1) * q = i * q + q
<1>1. i * q \in Nat /\ j * q \in Nat
  OBVIOUS
<1>2. (i + 1) * q = i * q + q
  OBVIOUS
<1>3. ASSUME i < j PROVE i * q + q <= j * q
  <2>1. PICK k \in Nat : j = (i + 1) + k
    <3>1. j - (i + 1) \in Nat /\ j = (i + 1) + (j - (i + 1))
      BY <1>3
    <3> QED BY <3>1
  <2>2. j * q = (i + 1) * q + k * q
    BY <2>1
  <2>3. k * q >= 0
    OBVIOUS
  <2> QED BY <1>1, <1>2, <2>2, <2>3
<1> QED BY <1>1, <1>2, <1>3

(* What a node holds.                                                      *)
NodeOK(r) ==
  /\ r = [len |-> r.len, ref |-> r.ref, dense |-> r.dense, min |-> r.min,
          max |-> r.max, nbr |-> r.nbr]
  /\ r.len \in Nat /\ r.ref \in Nat /\ r.dense \in BOOLEAN /\ r.nbr \in Nat

(* A new node.                                                             *)
LEMMA NodeNew ==
  ASSUME NEW l \in Nat
  PROVE  /\ NodeOK(T!Node(l)) /\ T!Node(l).len = l /\ T!Node(l).ref = 0
         /\ T!Node(l).dense = FALSE
BY DEF T!Node, NodeOK

(* A new node with a dense table.                                          *)
DenseNew(l, lo, hi, b, r) ==
  /\ l \in Nat /\ b \in Nat
  /\ r = [T!Node(l) EXCEPT !.dense = TRUE, !.min = lo, !.max = hi, !.nbr = b]

DenseNode(l, b, r) ==
  NodeOK(r) /\ r.len = l /\ r.ref = 0 /\ r.dense = TRUE /\ r.nbr = b

(* It does not count.                                                      *)
LEMMA NodeDense ==
  ASSUME NEW l, NEW lo, NEW hi, NEW b, NEW r, DenseNew(l, lo, hi, b, r)
  PROVE  DenseNode(l, b, r)
<1> DEFINE q == T!Node(l)
<1>1. q = [len |-> l, ref |-> 0, dense |-> FALSE, min |-> 0, max |-> 0,
           nbr |-> 0]
  BY DEF T!Node
<1>2. /\ l \in Nat /\ b \in Nat
      /\ r = [q EXCEPT !.dense = TRUE, !.min = lo, !.max = hi, !.nbr = b]
  BY DEF DenseNew
<1> HIDE DEF q
<1>3. r = [len |-> l, ref |-> 0, dense |-> TRUE, min |-> lo, max |-> hi,
           nbr |-> b]
  BY <1>1, <1>2
<1>4. r.len = l /\ r.ref = 0 /\ r.dense = TRUE /\ r.min = lo /\ r.max = hi
      /\ r.nbr = b
  BY <1>3
<1>5. r = [len |-> r.len, ref |-> r.ref, dense |-> r.dense, min |-> r.min,
           max |-> r.max, nbr |-> r.nbr]
  BY <1>3, <1>4
<1>6. r.len \in Nat /\ r.ref \in Nat /\ r.dense \in BOOLEAN /\ r.nbr \in Nat
  BY <1>2, <1>4
<1>7. NodeOK(r)
  BY <1>5, <1>6 DEF NodeOK
<1> QED BY <1>4, <1>7 DEF DenseNode

(* The same node with another table.                                       *)
TableNew(q, lo, hi, b, r) ==
  NodeOK(q) /\ b \in Nat /\ r = [q EXCEPT !.min = lo, !.max = hi, !.nbr = b]

(* It keeps its prefix and its count.                                      *)
LEMMA NodeTable ==
  ASSUME NEW q, NEW b, NEW lo, NEW hi, NEW r, TableNew(q, lo, hi, b, r)
  PROVE  /\ NodeOK(r) /\ r.len = q.len /\ r.ref = q.ref
         /\ r.dense = q.dense /\ r.nbr = b
<1>0. NodeOK(q) /\ b \in Nat /\ r = [q EXCEPT !.min = lo, !.max = hi, !.nbr = b]
  BY DEF TableNew
<1> USE <1>0
<1>1. q = [len |-> q.len, ref |-> q.ref, dense |-> q.dense, min |-> q.min,
           max |-> q.max, nbr |-> q.nbr]
  BY DEF NodeOK
<1>2. r = [len |-> q.len, ref |-> q.ref, dense |-> q.dense, min |-> lo,
           max |-> hi, nbr |-> b]
  BY <1>1
<1>3. /\ r.len = q.len /\ r.ref = q.ref /\ r.dense = q.dense /\ r.min = lo
      /\ r.max = hi /\ r.nbr = b
  BY <1>2
<1> QED BY <1>2, <1>3 DEF NodeOK

(* nn_node's of one chain: full ones, and the last one.                    *)
LEMMA ChainLinks ==
  ASSUME PREFIX_MAX \in Nat, NEW d \in String, NEW p \in Nat, p <= Len(d),
         NEW Y, Y = T!Chain(d, p)
  PROVE  /\ Y = [x \in DOMAIN Y |-> Y[x]]
         /\ \A x \in DOMAIN Y : NodeOK(Y[x]) /\ Y[x].ref = 0 /\ ~Y[x].dense
         /\ \A x \in DOMAIN Y : Y[x].len <= Len(x)
         /\ Links(DOMAIN Y, [x \in DOMAIN Y |-> Len(x) - Y[x].len], d, p)
<1> DEFINE q == PREFIX_MAX + 1
           k == (Len(d) - p) \div q
           pl(i) == p + i * q + PREFIX_MAX
           full == {SubSeq(d, 1, p + i * q + PREFIX_MAX) : i \in 0 .. k - 1}
           N == full \cup {d}
           last == Len(d) - p - k * q
           v == [x \in DOMAIN Y |-> Len(x) - Y[x].len]
<1>1. /\ q \in Nat /\ q >= 1 /\ Len(d) \in Nat /\ Len(d) - p \in Nat
      /\ PREFIX_MAX = q - 1
  BY SameFacts
<1>2. k \in Nat /\ k * q <= Len(d) - p /\ Len(d) - p < k * q + q
  <2> DEFINE a == Len(d) - p
  <2>1. a \in Nat
    BY <1>1
  <2> HIDE DEF a, q
  <2>2. /\ a \div q \in Nat /\ (a \div q) * q <= a /\ a < (a \div q) * q + q
    BY <1>1, <2>1
  <2> QED BY <2>2 DEF a
<1>3. Y = [n \in N |-> T!Node(IF n = d THEN last ELSE PREFIX_MAX)]
  BY DEF T!Chain
<1>5. DOMAIN Y = N
  BY <1>3
<1>6. \A n \in N : Y[n] = T!Node(IF n = d THEN last ELSE PREFIX_MAX)
  BY <1>3
<1> HIDE DEF q, k, last
<1>4. k * q \in Nat /\ last \in Nat /\ last <= PREFIX_MAX
  <2>1. k * q \in Nat
    BY <1>1, <1>2, Multiples
  <2> QED BY <1>1, <1>2, <2>1 DEF last
<1>20. ASSUME NEW n \in N
       PROVE  Y[n].len = IF n = d THEN last ELSE PREFIX_MAX
  <2>1. Y[n] = T!Node(IF n = d THEN last ELSE PREFIX_MAX)
    BY <1>6
  <2> QED BY <2>1 DEF T!Node
(* Each node has its place in the chain.                                   *)
<1>7. ASSUME NEW i \in 0 .. k - 1
      PROVE  /\ pl(i) \in Nat /\ pl(i) < Len(d) /\ i * q \in Nat
             /\ SubSeq(d, 1, pl(i)) \in N
             /\ SubSeq(d, 1, pl(i)) \in String
             /\ Len(SubSeq(d, 1, pl(i))) = pl(i)
             /\ Same(SubSeq(d, 1, pl(i)), d, pl(i))
             /\ SubSeq(d, 1, pl(i)) # d
  <2>1. i \in Nat /\ k \in Nat /\ i < k
    BY <1>2
  <2>2. i * q \in Nat /\ i * q + q <= k * q
    BY <1>1, <2>1, Multiples
  <2>3. pl(i) \in Nat /\ pl(i) < Len(d)
    BY <1>1, <1>2, <1>4, <2>2
  <2>4. SubSeq(d, 1, pl(i)) \in N
    OBVIOUS
  <2> HIDE DEF pl
  <2>5. /\ SubSeq(d, 1, pl(i)) \in String
        /\ Len(SubSeq(d, 1, pl(i))) = pl(i)
        /\ Same(SubSeq(d, 1, pl(i)), d, pl(i))
    BY <1>1, <2>3, Begins
  <2>6. SubSeq(d, 1, pl(i)) # d
    BY <2>3, <2>5, <1>1
  <2> QED BY <2>2, <2>3, <2>4, <2>5, <2>6
<1>8. ASSUME NEW x \in N
      PROVE  /\ x \in String /\ Len(x) \in Nat /\ Same(x, d, Len(x))
             /\ NodeOK(Y[x]) /\ Y[x].ref = 0 /\ Y[x].dense = FALSE
             /\ Y[x].len <= Len(x)
             /\ v[x] \in Nat
             /\ \E i \in 0 .. k :
                  /\ v[x] = p + i * q /\ i * q \in Nat
                  /\ IF i = k THEN x = d
                     ELSE x = SubSeq(d, 1, pl(i)) /\ Len(x) = v[x] + PREFIX_MAX
  <2>1. Y[x] = T!Node(IF x = d THEN last ELSE PREFIX_MAX)
    BY <1>6
  <2>2. v[x] = Len(x) - Y[x].len
    BY <1>5
  <2>3. /\ NodeOK(Y[x]) /\ Y[x].ref = 0 /\ Y[x].dense = FALSE
        /\ Y[x].len = IF x = d THEN last ELSE PREFIX_MAX
    BY <1>4, <2>1 DEF T!Node, NodeOK
  <2>4. CASE x = d
    <3>1. v[x] = p + k * q /\ Y[x].len <= Len(x)
      BY <1>1, <1>4, <2>2, <2>3, <2>4 DEF last
    <3>2. Same(x, d, Len(x))
      BY <2>4, SameFacts
    <3>3. k \in 0 .. k
      BY <1>2
    <3> HIDE DEF pl, v
    <3> QED BY <1>1, <1>4, <2>3, <2>4, <3>1, <3>2, <3>3
  <2>5. CASE x # d
    <3>1. PICK i \in 0 .. k - 1 : x = SubSeq(d, 1, p + i * q + PREFIX_MAX)
      BY <2>5
    <3>2. /\ Len(x) = p + i * q + PREFIX_MAX /\ i * q \in Nat
          /\ x \in String /\ Same(x, d, Len(x)) /\ x = SubSeq(d, 1, pl(i))
      BY <1>7, <3>1
    <3> HIDE DEF pl, v
    <3>3. Y[x].len = PREFIX_MAX
      BY <2>3, <2>5
    <3>4. v[x] = p + i * q /\ Y[x].len <= Len(x) /\ Len(x) = v[x] + PREFIX_MAX
      BY <2>2, <3>2, <3>3
    <3>5. i \in 0 .. k /\ i # k
      BY <1>2
    <3>6. v[x] \in Nat /\ Len(x) \in Nat
      BY <3>2, <3>4
    <3>7. \E j \in 0 .. k :
            /\ v[x] = p + j * q /\ j * q \in Nat
            /\ IF j = k THEN x = d
               ELSE x = SubSeq(d, 1, pl(j)) /\ Len(x) = v[x] + PREFIX_MAX
      BY <3>2, <3>4, <3>5
    <3> QED BY <2>3, <3>2, <3>4, <3>6, <3>7
  <2> QED BY <2>4, <2>5
<1>9. IsFiniteSet(N)
  <2> DEFINE I == 0 .. k - 1
             f == [i \in I |-> SubSeq(d, 1, p + i * q + PREFIX_MAX)]
  <2>1. f \in Surjection(I, full)
    BY DEF Surjection
  <2>2. IsFiniteSet(I)
    BY <1>2, FS_Interval
  <2>3. IsFiniteSet(full)
    BY <2>1, <2>2, FS_Surjection
  <2> QED BY <2>3, FS_AddElement
<1> HIDE DEF N, pl, v
<1>10. ASSUME NEW x \in N, NEW y \in N, v[y] <= Len(x) PROVE Len(y) <= Len(x)
  <2>1. PICK i \in 0 .. k :
          /\ v[x] = p + i * q /\ i * q \in Nat
          /\ IF i = k THEN x = d
             ELSE x = SubSeq(d, 1, pl(i)) /\ Len(x) = v[x] + PREFIX_MAX
    BY <1>8
  <2>2. PICK j \in 0 .. k :
          /\ v[y] = p + j * q /\ j * q \in Nat
          /\ IF j = k THEN y = d
             ELSE y = SubSeq(d, 1, pl(j)) /\ Len(y) = v[y] + PREFIX_MAX
    BY <1>8
  <2>3. i \in Nat /\ j \in Nat /\ i <= k /\ j <= k /\ k \in Nat
    BY <1>2
  <2>4. Len(x) \in Nat /\ Len(y) \in Nat /\ Len(y) <= Len(d)
    BY <1>1, <1>8, SameFacts
  <2>5. CASE i = k
    BY <2>1, <2>4, <2>5
  <2>6. CASE i # k /\ j <= i
    <3>1. j * q <= i * q
      <4>1. CASE j = i
        BY <2>1, <4>1
      <4>2. CASE j < i
        BY <1>1, <2>3, <4>2, Multiples
      <4> QED BY <2>3, <2>6, <4>1, <4>2
    <3>2. Len(x) = p + i * q + PREFIX_MAX /\ Len(y) = p + j * q + PREFIX_MAX
      BY <2>1, <2>2, <2>3, <2>6
    <3> QED BY <2>1, <2>2, <3>1, <3>2, <1>1
  <2>7. CASE i # k /\ i < j
    <3>1. i * q + q <= j * q
      BY <1>1, <2>3, <2>7, Multiples
    <3>2. Len(x) = p + i * q + PREFIX_MAX
      BY <2>1, <2>7
    <3> QED BY <1>1, <1>10, <2>1, <2>2, <3>1, <3>2
  <2> QED BY <2>3, <2>5, <2>6, <2>7
<1>11. ASSUME NEW i \in 0 .. k
       PROVE  \E x \in N : v[x] = p + i * q
  <2>1. CASE i = k
    <3>1. d \in N /\ v[d] = Len(d) - Y[d].len
      BY <1>5 DEF v, N
    <3>2. Y[d].len = last
      BY <1>20, <3>1
    <3>3. v[d] = p + i * q
      BY <1>1, <1>4, <2>1, <3>1, <3>2 DEF last
    <3> QED BY <3>1, <3>3
  <2>2. CASE i # k
    <3> DEFINE x == SubSeq(d, 1, pl(i))
    <3>1. i \in 0 .. k - 1
      BY <1>2, <2>2
    <3>2. /\ x \in N /\ x # d /\ Len(x) = pl(i) /\ i * q \in Nat
          /\ pl(i) = p + i * q + PREFIX_MAX
      BY <1>7, <3>1 DEF pl
    <3> HIDE DEF x
    <3>3. v[x] = Len(x) - Y[x].len
      BY <1>5, <3>2 DEF v
    <3>4. Y[x].len = PREFIX_MAX
      BY <1>20, <3>2
    <3>5. v[x] = p + i * q
      BY <3>2, <3>3, <3>4
    <3> QED BY <3>2, <3>5
  <2> QED BY <2>1, <2>2
<1>12. ASSUME NEW x \in N PROVE v[x] = p \/ \E y \in N : v[x] = Len(y) + 1
  <2>1. PICK i \in 0 .. k : v[x] = p + i * q /\ i * q \in Nat
    BY <1>8
  <2>2. CASE i = 0
    BY <1>1, <2>1, <2>2
  <2>3. CASE i # 0
    <3>1. i - 1 \in 0 .. k - 1 /\ i - 1 \in Nat
      BY <1>2, <2>3
    <3>2. i * q = (i - 1) * q + q
      <4>1. ((i - 1) + 1) * q = (i - 1) * q + q
        BY <1>1, <3>1, Multiples
      <4> QED BY <3>1, <4>1
    <3>3. PICK y \in N : Len(y) = pl(i - 1)
      BY <1>7, <3>1
    <3>4. (i - 1) * q \in Nat
      BY <1>7, <3>1
    <3>5. v[x] = Len(y) + 1
      BY <1>1, <2>1, <3>2, <3>3, <3>4 DEF pl
    <3> QED BY <3>5
  <2> QED BY <2>2, <2>3
<1>13. ASSUME NEW x \in N, x # d PROVE \E y \in N : v[y] = Len(x) + 1
  <2>1. PICK i \in 0 .. k :
          /\ v[x] = p + i * q /\ i * q \in Nat
          /\ IF i = k THEN x = d
             ELSE x = SubSeq(d, 1, pl(i)) /\ Len(x) = v[x] + PREFIX_MAX
    BY <1>8
  <2>2. i \in Nat /\ i + 1 \in 0 .. k
    BY <1>2, <1>13, <2>1
  <2>3. PICK y \in N : v[y] = p + (i + 1) * q
    BY <1>11, <2>2
  <2>4. (i + 1) * q = i * q + q
    BY <1>1, <2>2, Multiples
  <2>5. Len(x) = p + i * q + PREFIX_MAX
    BY <1>13, <2>1
  <2>6. v[y] = Len(x) + 1
    BY <1>1, <2>1, <2>3, <2>4, <2>5
  <2> QED BY <2>6
<1>14. \E x \in N : v[x] = p
  <2>1. 0 \in 0 .. k /\ p + 0 * q = p
    BY <1>1, <1>2
  <2> QED BY <1>11, <2>1
<1>15. \A x \in N : p <= v[x] /\ v[x] <= Len(x)
  <2> SUFFICES ASSUME NEW x \in N PROVE p <= v[x] /\ v[x] <= Len(x)
    OBVIOUS
  <2>1. PICK i \in 0 .. k : v[x] = p + i * q /\ i * q \in Nat
    BY <1>8
  <2>2. v[x] = Len(x) - Y[x].len /\ Y[x].len \in Nat /\ Len(x) \in Nat
    BY <1>5, <1>8 DEF v, NodeOK
  <2> QED BY <2>1, <2>2
<1>16. d \in N
  BY DEF N
<1>17. v \in [N -> Nat]
  <2>1. \A x \in N : Len(x) - Y[x].len \in Nat
    BY <1>5, <1>8 DEF v
  <2> QED BY <1>5, <2>1 DEF v
<1>18. Links(N, v, d, p)
  BY <1>8, <1>9, <1>10, <1>12, <1>13, <1>14, <1>15, <1>16, <1>17 DEF Links
<1>19. Y = [x \in DOMAIN Y |-> Y[x]]
  BY <1>3
<1> QED BY <1>5, <1>8, <1>18, <1>19 DEF v

(* The way of d still ends at its place when a node beside it is merged    *)
(* with its child.                                                         *)
LEMMA MergeEnds ==
  ASSUME NEW X, NEW s, Shape(X, s), NEW n \in X, NEW m, Below(X, s, n) = {m},
         NEW z, z = [x \in X \ {n} |-> IF x = m THEN s[n] ELSE s[x]],
         NEW d \in String, NEW pl \in Nat, EndsAt(X, s, d, pl),
         ~Same(n, d, s[n])
  PROVE  EndsAt(X \ {n}, z, d, pl)
<1>1. /\ m \in X /\ m # n /\ m \in String /\ n \in String /\ X \subseteq String
      /\ Len(m) \in Nat /\ Len(n) \in Nat /\ Same(n, m, Len(n))
      /\ s[n] \in Nat /\ s[n] <= Len(n)
      /\ \A x \in X : s[x] \in Nat /\ s[x] <= Len(x) /\ Len(x) \in Nat
  <2>1. m \in Below(X, s, n)
    OBVIOUS
  <2>2. m \in X /\ m # n
    BY <2>1, OneParent, SameFacts DEF Below, Shape
  <2> QED BY <2>1, <2>2, SameFacts DEF Shape, Below
<1>2. ~Same(m, d, s[n])
  <2> SUFFICES ASSUME Same(m, d, s[n]) PROVE FALSE
    OBVIOUS
  <2>1. Same(n, m, s[n])
    BY <1>1, SameFacts
  <2> QED BY <1>1, <2>1, SameFacts
<1>3. ASSUME NEW x \in X \ {n}, Same(x, d, z[x]) PROVE Len(x) < pl
  <2>1. x # m
    BY <1>1, <1>2, <1>3
  <2> QED BY <1>3, <2>1 DEF EndsAt
<1>4. ASSUME NEW a \in X, Same(a, d, Len(a)) PROVE a # n
  <2>1. Same(a, d, s[a])
    BY <1>1, <1>4, SameFacts
  <2> QED BY <2>1
<1> QED BY <1>3, <1>4 DEF EndsAt

-----------------------------------------------------------------------------
(* Tries: their shape, the tables of their nodes and their counts          *)

Starts(t) == [n \in DOMAIN t |-> T!Start(t, n)]

Tree(t) ==
  /\ t = [n \in DOMAIN t |-> t[n]]
  /\ \A n \in DOMAIN t : NodeOK(t[n])
  /\ Shape(DOMAIN t, Starts(t))

(* How many children a dense table knows of: exactly all of them for e = 0. *)
Knows(e, b, K) == b <= K /\ (e = 0 => b = K)

(* A leaf counts, a dense table knows of more children than a sparse one   *)
(* may have.                                                               *)
TableOK(e, t, n) ==
  /\ T!Kids(t, n) = {} => t[n].ref > 0
  /\ t[n].dense => /\ Knows(e, t[n].nbr, Cardinality(T!Kids(t, n)))
                   /\ t[n].nbr > SPARSE_MAX
  /\ ~t[n].dense => Cardinality(T!Kids(t, n)) <= SPARSE_MAX

Sound(e, t) == Tree(t) /\ \A n \in DOMAIN t : TableOK(e, t, n)

Ref(t, n) == IF n \in DOMAIN t THEN t[n].ref ELSE 0

(* All counts are the same, are but that of d, or it is one more.          *)
SameRefs(t, w) == \A x : Ref(w, x) = Ref(t, x)
Recounted(t, w, d, r) == Ref(w, d) = r /\ \A x : x # d => Ref(w, x) = Ref(t, x)
OneMore(t, w, d) == Recounted(t, w, d, Ref(t, d) + 1)

(* The table of x has changed its form, and the count is gone.             *)
Changed(t, w, x) ==
  /\ x \in DOMAIN t /\ x \in DOMAIN w /\ w[x].dense # t[x].dense
  /\ Ref(w, x) = 0

(* The same, but for such nodes.                                           *)
Spared(t, w) == \A x : Ref(w, x) = Ref(t, x) \/ Changed(t, w, x)
Tallied(t, w, d, r) ==
  /\ Ref(w, d) = r
  /\ \A x : x # d => Ref(w, x) = Ref(t, x) \/ Changed(t, w, x)

(* A table that has become sparse is full.                                 *)
Fits(t, w) ==
  \A x \in DOMAIN t \cap DOMAIN w :
    t[x].dense /\ ~w[x].dense => Cardinality(T!Kids(w, x)) = SPARSE_MAX

(* The children of a node, in terms of the shape.                          *)
LEMMA KidsBelow ==
  ASSUME NEW t, Tree(t), NEW n \in DOMAIN t
  PROVE  /\ T!Kids(t, n) = Below(DOMAIN t, Starts(t), n)
         /\ IsFiniteSet(T!Kids(t, n)) /\ Cardinality(T!Kids(t, n)) \in Nat
         /\ T!Kids(t, n) \subseteq DOMAIN t
<1>1. n \in String /\ DOMAIN t \subseteq String
  BY DEF Tree, Shape
<1>2. \A m \in DOMAIN t : T!Prefix(n, m) <=> Same(n, m, Len(n))
  BY <1>1, PrefixSame
<1>3. \A m \in DOMAIN t : Starts(t)[m] = T!Start(t, m)
  BY DEF Starts
<1>4. T!Kids(t, n) = Below(DOMAIN t, Starts(t), n)
  BY <1>2, <1>3 DEF T!Kids, Below
<1>5. T!Kids(t, n) \subseteq DOMAIN t
  BY DEF T!Kids
<1>6. IsFiniteSet(T!Kids(t, n))
  BY <1>5, FS_Subset DEF Tree, Shape
<1> QED BY <1>4, <1>5, <1>6, FS_CardinalityType

(* One element for another.                                                *)
Swap(S, x, y, Z) ==
  /\ IsFiniteSet(S) /\ x \in S /\ y \notin S
  /\ Z = (S \ {x}) \cup {y}

(* The cardinality stays.                                                  *)
LEMMA Swapped ==
  ASSUME NEW S, NEW x, NEW y, NEW Z, Swap(S, x, y, Z)
  PROVE  Cardinality(Z) = Cardinality(S) /\ Z # {} /\ S # {}
<1>0. /\ IsFiniteSet(S) /\ x \in S /\ y \notin S
      /\ Z = (S \ {x}) \cup {y}
  BY DEF Swap
<1> USE <1>0
<1>1. /\ IsFiniteSet(S \ {x}) /\ Cardinality(S \ {x}) = Cardinality(S) - 1
      /\ Cardinality(S) \in Nat
  BY FS_RemoveElement, FS_CardinalityType
<1>2. Cardinality((S \ {x}) \cup {y}) = Cardinality(S \ {x}) + 1
  BY <1>1, FS_AddElement
<1> QED BY <1>1, <1>2

(* A sparse table with few children, and some.                             *)
LEMMA SparseOK ==
  ASSUME NEW e, NEW t, NEW n, ~t[n].dense, T!Kids(t, n) # {},
         Cardinality(T!Kids(t, n)) <= SPARSE_MAX
  PROVE  TableOK(e, t, n)
BY Zenon DEF TableOK

(* The part of a node that merging and splitting leave alone.              *)
Kept(t, u, n) ==
  /\ u[n].ref = t[n].ref /\ u[n].dense = t[n].dense /\ u[n].nbr = t[n].nbr
  /\ Cardinality(T!Kids(u, n)) = Cardinality(T!Kids(t, n))
  /\ T!Kids(u, n) = {} <=> T!Kids(t, n) = {}

LEMMA KeptOK ==
  ASSUME NEW e, NEW t, NEW u, NEW n, Kept(t, u, n), TableOK(e, t, n)
  PROVE  TableOK(e, u, n)
BY DEF Kept, TableOK

(* A table that is given the record r.                                     *)
LEMMA TableMade ==
  ASSUME NEW e, NEW w, NEW m, NEW r, NEW K \in Nat, w[m] = r,
         T!Kids(w, m) # {}, Cardinality(T!Kids(w, m)) = K,
         r.dense => Knows(e, r.nbr, K) /\ r.nbr > SPARSE_MAX,
         ~r.dense => K <= SPARSE_MAX
  PROVE  TableOK(e, w, m)
BY DEF TableOK

(* Merging a node with its child keeps all counts (nn_node_compact).       *)
LEMMA CompactOK ==
  ASSUME NEW e, NEW t, Sound(e, t), NEW n \in DOMAIN t, NEW u,
         u = T!nn_node_compact(t, n)
  PROVE  /\ Sound(e, u)
         /\ DOMAIN t \ {n} \subseteq DOMAIN u /\ DOMAIN u \subseteq DOMAIN t
         /\ n \notin DOMAIN u => t[n].ref = 0
         /\ \A x \in DOMAIN u : Kept(t, u, x)
         /\ \A d \in String, pl \in Nat :
              /\ EndsAt(DOMAIN t, Starts(t), d, pl)
              /\ ~Same(n, d, T!Start(t, n))
              => EndsAt(DOMAIN u, Starts(u), d, pl)
<1> DEFINE X == DOMAIN t
           s == Starts(t)
<1>1. CASE u = t
  BY <1>1 DEF Kept, Sound
<1>2. CASE u # t
  <2> DEFINE m == CHOOSE k \in T!Kids(t, n) : TRUE
             len == t[n].len + t[m].len + 1
  <2>1. /\ ~T!nn_node_has_subscribers(t, n) /\ ~t[n].dense
        /\ Cardinality(T!Kids(t, n)) = 1
        /\ u = T!Less([t EXCEPT ![m].len = len], {n})
    BY <1>2, TrieCounts DEF T!nn_node_compact
  <2>2. /\ IsFiniteSet(T!Kids(t, n)) /\ T!Kids(t, n) = Below(X, s, n)
        /\ T!Kids(t, n) \subseteq X
    BY KidsBelow DEF Sound
  <2>3. T!Kids(t, n) = {m}
    BY <2>1, <2>2, FS_Singleton
  <2> HIDE DEF m
  <2>4. m \in X
    BY <2>2, <2>3
  <2>5. NodeOK(t[n]) /\ NodeOK(t[m]) /\ len \in Nat
    BY <2>4 DEF Sound, Tree, NodeOK
  <2> HIDE DEF len
  <2>6. Shape(X, s) /\ Below(X, s, n) = {m}
    BY <2>2, <2>3 DEF Sound, Tree
  <2> DEFINE z == [x \in X \ {n} |-> IF x = m THEN s[n] ELSE s[x]]
  <2>7. /\ Shape(X \ {n}, z) /\ m # n
        /\ \A y \in X \ {n} :
              /\ m \notin Below(X, s, y)
              /\ Below(X \ {n}, z, y) =
                   IF n \in Below(X, s, y)
                     THEN (Below(X, s, y) \ {n}) \cup {m} ELSE Below(X, s, y)
    <3> HIDE DEF X, s
    <3>1. n \in X /\ z = [x \in X \ {n} |-> IF x = m THEN s[n] ELSE s[x]]
      BY DEF X
    <3> HIDE DEF z
    <3>2. MergeCase(X, s, n, m, z)
      BY <2>6, <3>1 DEF MergeCase
    <3>3. Shape(X \ {n}, z) /\ m # n /\ Merged(X, s, n, m, z)
      BY <3>2, ShapeMerge
    <3> QED BY <3>3 DEF Merged
  <2>8. DOMAIN u = X \ {n} /\ u = [x \in X \ {n} |-> u[x]]
    BY <2>1 DEF T!Less
  <2>9. /\ \A x \in X \ {n} : x # m => u[x] = t[x]
        /\ u[m] = [t[m] EXCEPT !.len = len]
    BY <2>1, <2>4, <2>7 DEF T!Less
  <2>10. /\ NodeOK(u[m]) /\ u[m].len = len /\ u[m].ref = t[m].ref
         /\ u[m].dense = t[m].dense /\ u[m].nbr = t[m].nbr
    BY <2>5, <2>9 DEF NodeOK
  <2>11. \A x \in X \ {n} :
           /\ NodeOK(u[x]) /\ u[x].ref = t[x].ref
           /\ u[x].dense = t[x].dense /\ u[x].nbr = t[x].nbr
    BY <2>9, <2>10 DEF Sound, Tree
  <2>12. Starts(u) = z
    <3>1. s[m] = Len(n) + 1
      BY <2>6 DEF Below
    <3>2. s[m] = Len(m) - t[m].len /\ s[n] = Len(n) - t[n].len
      BY <2>4 DEF Starts, T!Start
    <3>3. Len(m) \in Nat /\ Len(n) \in Nat
      BY <2>4, SameFacts DEF Sound, Tree, Shape
    <3>4. Len(m) - len = s[n]
      <4> DEFINE a == t[n].len
                 b == t[m].len
      <4>1. a \in Nat /\ b \in Nat /\ len = a + b + 1
        BY <2>5 DEF NodeOK, len
      <4>2. s[n] = Len(n) - a /\ Len(m) - b = Len(n) + 1
        BY <3>1, <3>2
      <4> HIDE DEF a, b, s
      <4> QED BY <3>3, <4>1, <4>2
    <3>5. \A x \in X \ {n} : T!Start(u, x) = z[x]
      BY <2>9, <2>10, <3>4 DEF T!Start, Starts
    <3> QED BY <2>8, <3>5 DEF Starts
  <2>13. Tree(u)
    BY <2>7, <2>8, <2>11, <2>12 DEF Tree
  <2>14. ASSUME NEW x \in DOMAIN u PROVE Kept(t, u, x)
    <3>1. T!Kids(u, x) = Below(X \ {n}, z, x)
      BY <2>8, <2>12, <2>13, KidsBelow
    <3>2. T!Kids(t, x) = Below(X, s, x) /\ IsFiniteSet(T!Kids(t, x))
      BY <2>8, KidsBelow DEF Sound
    <3>3. CASE n \in Below(X, s, x)
      <4>1. T!Kids(u, x) = (T!Kids(t, x) \ {n}) \cup {m} /\ m \notin T!Kids(t, x)
        BY <2>7, <2>8, <3>1, <3>2, <3>3
      <4>3. Swap(T!Kids(t, x), n, m, T!Kids(u, x))
        BY <3>2, <3>3, <4>1 DEF Swap
      <4>2. Cardinality(T!Kids(u, x)) = Cardinality(T!Kids(t, x)) /\ T!Kids(u, x) # {}
            /\ T!Kids(t, x) # {}
        BY <4>3, Swapped
      <4> QED BY <2>8, <2>11, <4>2 DEF Kept
    <3>4. CASE n \notin Below(X, s, x)
      <4>1. T!Kids(u, x) = T!Kids(t, x)
        BY <2>7, <2>8, <3>1, <3>2, <3>4
      <4> QED BY <2>8, <2>11, <4>1 DEF Kept
    <3> QED BY <3>3, <3>4
  <2>15. Sound(e, u)
    BY <2>8, <2>13, <2>14, KeptOK DEF Sound
  <2>16. t[n].ref = 0
    BY <2>1, <2>5 DEF T!nn_node_has_subscribers, NodeOK
  <2>17. ASSUME NEW d \in String, NEW pl \in Nat, EndsAt(X, s, d, pl),
                ~Same(n, d, T!Start(t, n))
         PROVE  EndsAt(DOMAIN u, Starts(u), d, pl)
    <3>1. ~Same(n, d, s[n])
      BY <2>17 DEF Starts
    <3>2. EndsAt(X \ {n}, z, d, pl)
      BY <2>6, <2>17, <3>1, MergeEnds
    <3> QED BY <2>8, <2>12, <3>2
  <2> QED BY <2>8, <2>14, <2>15, <2>16, <2>17
<1> QED BY <1>1, <1>2

(* A bounded set of numbers has a greatest one.                            *)
LEMMA MostThere ==
  ASSUME NEW S \in SUBSET Nat, S # {}, NEW top \in Nat, \A x \in S : x <= top
  PROVE  T!Most(S) \in S /\ \A y \in S : y <= T!Most(S)
<1> DEFINE Z == {top - x : x \in S}
<1>0. \A x \in S : top - x \in Nat
  OBVIOUS
<1>1. Z \in SUBSET Nat /\ Z # {}
  BY <1>0
<1>2. PICK l \in Z : \A y \in Z : l <= y
  BY <1>1, LeastThere
<1>3. PICK x \in S : l = top - x
  BY <1>2
<1>4. \A y \in S : y \in Nat /\ l <= top - y
  BY <1>2
<1>5. \E z \in S : \A y \in S : z >= y
  BY <1>3, <1>4
<1>6. T!Most(S) \in S /\ \A y \in S : T!Most(S) >= y
  BY <1>5 DEF T!Most
<1> QED BY <1>6

(* How much of a node's string is common with d (nn_node_check_prefix).    *)
LEMMA CheckOK ==
  ASSUME NEW a \in String, NEW d \in String, NEW k,
         k = T!nn_node_check_prefix(a, d)
  PROVE  /\ k \in Nat /\ k <= Len(a) /\ Same(a, d, k)
         /\ \A j \in Nat : Same(a, d, j) => j <= k
<1> DEFINE S == {i \in 0 .. Len(a) :
                   i <= Len(d) /\ SubSeq(a, 1, i) = SubSeq(d, 1, i)}
<1>1. Len(a) \in Nat /\ Len(d) \in Nat
  BY SameFacts
<1>2. \A i \in 0 .. Len(a) : i \in S <=> Same(a, d, i)
  <2> SUFFICES ASSUME NEW i \in 0 .. Len(a) PROVE i \in S <=> Same(a, d, i)
    OBVIOUS
  <2>1. CASE i <= Len(d)
    BY <1>1, <2>1, CutSame
  <2>2. CASE ~(i <= Len(d))
    BY <1>1, <2>2, SameFacts
  <2> QED BY <2>1, <2>2
<1>3. S \in SUBSET Nat /\ \A x \in S : x <= Len(a)
  BY <1>1
<1>4. 0 \in S
  BY <1>1, <1>2 DEF Same
<1>5. k = T!Most(S)
  BY DEF T!nn_node_check_prefix
<1> HIDE DEF S
<1>6. k \in S /\ \A y \in S : y <= k
  BY <1>1, <1>3, <1>4, <1>5, MostThere
<1>7. \A j \in Nat : Same(a, d, j) => j \in 0 .. Len(a)
  BY <1>1, SameFacts
<1>8. k \in 0 .. Len(a)
  BY <1>6 DEF S
<1> QED BY <1>1, <1>2, <1>6, <1>7, <1>8

(* The way of d ends at the longest node that it enters.                   *)
LEMMA ReachedOK ==
  ASSUME NEW t, Tree(t), DOMAIN t # {}, NEW d \in String, NEW n,
         n = T!Reached(t, d)
  PROVE  /\ n \in DOMAIN t /\ Same(n, d, Starts(t)[n])
         /\ \A x \in DOMAIN t : Same(x, d, Starts(t)[x]) => Len(x) <= Len(n)
<1> DEFINE X == DOMAIN t
           s == Starts(t)
           S == {x \in X : T!Start(t, x) <= Len(d)
                           /\ T!Prefix(SubSeq(x, 1, T!Start(t, x)), d)}
<1>1. Shape(X, s) /\ X \subseteq String
  BY DEF Tree, Shape
<1>2. \A x \in X : s[x] = T!Start(t, x) /\ s[x] \in Nat /\ s[x] <= Len(x)
  BY <1>1 DEF Shape, Starts
<1>3. \A x \in X : x \in S <=> Same(x, d, s[x])
  <2> SUFFICES ASSUME NEW x \in X PROVE x \in S <=> Same(x, d, s[x])
    OBVIOUS
  <2> DEFINE b == SubSeq(x, 1, s[x])
  <2>0. x \in String /\ s[x] \in Nat /\ s[x] <= Len(x)
    BY <1>1, <1>2
  <2>1. b \in String /\ Len(b) = s[x] /\ Same(b, x, s[x])
    BY <2>0, Begins
  <2>2. x \in S <=> s[x] <= Len(d) /\ T!Prefix(b, d)
    BY <1>2
  <2> HIDE DEF b, s, S
  <2>3. T!Prefix(b, d) <=> Same(b, d, s[x])
    BY <2>1, PrefixSame
  <2>4. Same(b, d, s[x]) <=> Same(x, d, s[x])
    BY <2>0, <2>1, SameFacts
  <2>5. Same(x, d, s[x]) => s[x] <= Len(d)
    BY <2>0, SameFacts
  <2> QED BY <2>2, <2>3, <2>4, <2>5
<1>4. S # {}
  <2>1. PICK r \in X : s[r] = 0
    BY <1>1, RootThere
  <2>2. Same(r, d, s[r])
    BY <1>1, <2>1, SameFacts DEF Same
  <2> QED BY <1>3, <2>2
<1>5. S \subseteq String
  BY <1>1
<1>6. PICK top \in Nat : \A x \in X : Len(x) <= top
  BY <1>1 DEF Shape
<1>7. n = T!Longest(S) /\ S \subseteq X
  BY DEF T!Reached
<1> HIDE DEF S
<1>8. n \in S /\ \A y \in S : Len(y) <= Len(n)
  BY <1>4, <1>5, <1>6, <1>7, LongestThere
<1> QED BY <1>3, <1>7, <1>8

(* The way of d ends at the node that a split puts above the reached one.  *)
LEMMA SplitEnds ==
  ASSUME NEW X, NEW s, NEW d \in String, NEW n, NEW k, NEW p, NEW z,
         SplitCase(X, s, n, k, p, z), p \notin X,
         Same(n, d, s[n]), \A x \in X : Same(x, d, s[x]) => Len(x) <= Len(n),
         Same(n, d, k), ~Same(n, d, k + 1)
  PROVE  EndsAt(X \cup {p}, z, d, k + 1)
<1>0. /\ Shape(X, s) /\ n \in X /\ k \in Nat /\ s[n] <= k /\ k < Len(n)
      /\ p \in String /\ Len(p) = k /\ Same(p, n, k)
      /\ z = [x \in X \cup {p} |-> IF x = p THEN s[n]
                                    ELSE IF x = n THEN k + 1 ELSE s[x]]
  BY DEF SplitCase
<1> USE <1>0
<1>1. /\ X \subseteq String /\ n \in String
      /\ \A x \in X : Len(x) \in Nat /\ s[x] \in Nat /\ s[x] <= Len(x)
  BY SameFacts DEF Shape
<1>2. Same(p, d, k)
  BY <1>1, SameFacts
<1>3. z[p] = s[n] /\ z[n] = k + 1 /\ \A x \in X : x # n => z[x] = s[x]
  OBVIOUS
<1>4. ASSUME NEW x \in X, Same(x, d, s[x]), ~(Len(x) < k + 1)
      PROVE  x = n
  <2>1. x \in String /\ Len(x) \in Nat /\ Len(x) > k /\ s[x] \in Nat
    BY <1>1, <1>4
  <2>2. Same(x, n, s[n])
    <3>1. CASE s[x] <= k
      <4>1. Same(n, d, s[x])
        BY <1>1, <2>1, <3>1, SameFacts
      <4>2. Same(d, x, s[x])
        BY <1>4, <2>1, SameFacts
      <4>3. Same(n, x, s[x])
        BY <1>1, <2>1, <4>1, <4>2, SameFacts
      <4>4. Same(x, n, Len(x))
        BY <4>3 DEF Shape
      <4> QED BY <1>1, <2>1, <4>4, SameFacts
    <3>2. CASE s[n] <= s[x]
      <4>1. Same(x, d, s[n])
        BY <1>1, <1>4, <2>1, <3>2, SameFacts
      <4>2. Same(d, n, s[n])
        BY <1>1, SameFacts
      <4> QED BY <1>1, <2>1, <4>1, <4>2, SameFacts
    <3> QED BY <1>1, <2>1, <3>1, <3>2
  <2>3. Same(n, x, Len(n))
    BY <2>2 DEF Shape
  <2>4. Len(n) <= Len(x) /\ Len(x) <= Len(n)
    BY <1>1, <1>4, <2>1, <2>3, SameFacts
  <2>5. Len(n) = Len(x)
    BY <1>1, <2>1, <2>4
  <2> QED BY <1>1, <2>1, <2>3, <2>5, SameEqual
<1>5. ASSUME NEW x \in X \cup {p}, Same(x, d, z[x]) PROVE Len(x) < k + 1
  <2>1. CASE x = p
    BY <2>1
  <2>2. CASE x = n
    BY <1>3, <1>5, <2>2
  <2>3. CASE x \in X /\ x # n
    BY <1>3, <1>4, <1>5, <2>3
  <2> QED BY <2>1, <2>2, <2>3
<1>6. Len(p) + 1 = k + 1 /\ Same(p, d, Len(p))
  BY <1>2
<1> QED BY <1>5, <1>6 DEF EndsAt

(* The sizes of prefixes and of sparse tables.                             *)
Limits == PREFIX_MAX \in Nat /\ SPARSE_MAX \in Nat /\ SPARSE_MAX >= 2

(* Splitting the node where the way of d ends inside keeps all counts, and *)
(* leaves a node to put the rest of d under.                               *)
SplitIn(e, t, d, n, k, p, u) ==
  /\ Sound(e, t) /\ DOMAIN t # {} /\ d \in String /\ n = T!Reached(t, d)
  /\ k = T!nn_node_check_prefix(n, d) /\ k < Len(n)
  /\ p = SubSeq(n, 1, k) /\ u = T!Split(t, n, k)

SplitDone(e, t, d, p, u) ==
  /\ Sound(e, u) /\ p \in DOMAIN u /\ p \in String /\ Len(p) \in Nat
  /\ Same(p, d, Len(p)) /\ u[p].ref = 0
  /\ EndsAt(DOMAIN u, Starts(u), d, Len(p) + 1)
  /\ SameRefs(t, u)

(* The count of each string is kept.                                       *)
LEMMA SplitOK ==
  ASSUME NEW e, NEW t, NEW d, NEW n, NEW k, NEW p, NEW u,
         SplitIn(e, t, d, n, k, p, u),
         Limits
  PROVE  SplitDone(e, t, d, p, u)
<1>0. /\ Sound(e, t) /\ DOMAIN t # {} /\ d \in String /\ n = T!Reached(t, d)
      /\ k = T!nn_node_check_prefix(n, d) /\ k < Len(n)
      /\ p = SubSeq(n, 1, k) /\ u = T!Split(t, n, k)
      /\ SPARSE_MAX \in Nat /\ SPARSE_MAX >= 2
  BY DEF SplitIn, Limits
<1> USE <1>0
<1> DEFINE X == DOMAIN t
           s == Starts(t)
           E == X \cup {p}
<1>1. /\ n \in X /\ Same(n, d, s[n])
      /\ \A x \in X : Same(x, d, s[x]) => Len(x) <= Len(n)
      /\ Shape(X, s) /\ n \in String /\ Tree(t)
  <2>1. Tree(t)
    BY DEF Sound
  <2> QED BY <2>1, ReachedOK DEF Tree, Shape
<1>2. /\ k \in Nat /\ k <= Len(n) /\ Same(n, d, k) /\ ~Same(n, d, k + 1)
      /\ s[n] \in Nat /\ s[n] <= k /\ s[n] = Len(n) - t[n].len /\ Len(n) \in Nat
  <2>1. s[n] \in Nat /\ s[n] = Len(n) - t[n].len
    BY <1>1 DEF Shape, Starts, T!Start
  <2>2. /\ k \in Nat /\ k <= Len(n) /\ Same(n, d, k)
        /\ \A j \in Nat : Same(n, d, j) => j <= k
    BY <1>1, CheckOK
  <2> HIDE DEF s
  <2>3. s[n] <= k
    BY <1>1, <2>1, <2>2
  <2>4. ~Same(n, d, k + 1)
    BY <2>2
  <2> QED BY <1>1, <2>1, <2>2, <2>3, <2>4, SameFacts
<1>3. p \in String /\ Len(p) = k /\ Same(p, n, k) /\ Same(p, d, k)
  BY <1>1, <1>2, Begins, SameFacts
<1> DEFINE z == [x \in E |-> IF x = p THEN s[n]
                             ELSE IF x = n THEN k + 1 ELSE s[x]]
<1>20. SplitCase(X, s, n, k, p, z)
  BY <1>1, <1>2, <1>3 DEF SplitCase
<1>4. /\ Shape(E, z) /\ p \notin X
      /\ Only(E, z, p, n)
      /\ InPlace(X, s, E, z, n, p)
  <2> HIDE DEF X, s, E, z
  <2>1. Shape(X \cup {p}, z)
    BY <1>20, ShapeSplit
  <2>2. p \notin X
    BY <1>20, ShapeSplit
  <2>3. Only(X \cup {p}, z, p, n)
    BY <1>20, ShapeSplit
  <2>4. InPlace(X, s, X \cup {p}, z, n, p)
    BY <1>20, ShapeSplit
  <2> QED BY <2>1, <2>2, <2>3, <2>4 DEF E
<1>5. EndsAt(E, z, d, k + 1)
  <2> HIDE DEF X, s, E, z
  <2> QED BY <1>1, <1>2, <1>20, <1>4, SplitEnds DEF E
<1> DEFINE v == T!With([t EXCEPT ![n].len = Len(n) - k - 1],
                     [m \in {p} |-> T!Node(k - T!Start(t, n))])
<1>6. u = T!nn_node_compact(v, n)
  BY DEF T!Split
<1>7. /\ DOMAIN v = E /\ v = [x \in E |-> v[x]]
      /\ v[p] = T!Node(k - s[n])
      /\ v[n] = [t[n] EXCEPT !.len = Len(n) - k - 1]
      /\ \A x \in X : x # n => v[x] = t[x]
  BY <1>1, <1>4 DEF T!With, Starts
<1> HIDE DEF v
<1>8. /\ NodeOK(v[p]) /\ v[p].ref = 0 /\ v[p].dense = FALSE
      /\ v[p].len = k - s[n]
  <2> DEFINE l == k - s[n]
  <2>1. l \in Nat /\ v[p] = T!Node(l)
    BY <1>2, <1>7
  <2> HIDE DEF l
  <2>2. NodeOK(v[p]) /\ v[p].ref = 0 /\ v[p].dense = FALSE /\ v[p].len = l
    BY <2>1, NodeNew
  <2> QED BY <2>2 DEF l
<1>9. /\ NodeOK(v[n]) /\ v[n].ref = t[n].ref /\ v[n].dense = t[n].dense
      /\ v[n].nbr = t[n].nbr /\ v[n].len = Len(n) - k - 1
  <2>1. Len(n) - k - 1 \in Nat
    BY <1>2
  <2>2. NodeOK(t[n])
    BY <1>1 DEF Tree
  <2> QED BY <1>7, <2>1, <2>2 DEF NodeOK
<1>10. \A x \in X : /\ NodeOK(v[x]) /\ v[x].ref = t[x].ref
                    /\ v[x].dense = t[x].dense /\ v[x].nbr = t[x].nbr
  BY <1>1, <1>7, <1>9 DEF Tree
<1>11. Starts(v) = z
  <2>1. Len(n) - v[n].len = k + 1
    BY <1>2, <1>9
  <2>2. Len(p) - v[p].len = s[n]
    BY <1>2, <1>3, <1>8
  <2>3. \A x \in E : T!Start(v, x) = z[x]
    BY <1>4, <1>7, <2>1, <2>2 DEF T!Start, Starts
  <2> QED BY <1>7, <2>3 DEF Starts
<1> HIDE DEF z
<1>12. Tree(v)
  BY <1>4, <1>7, <1>8, <1>10, <1>11 DEF Tree
<1>13. ASSUME NEW x \in X PROVE Kept(t, v, x)
  <2>1. T!Kids(v, x) = Below(E, z, x)
    BY <1>7, <1>11, <1>12, KidsBelow
  <2>2. T!Kids(t, x) = Below(X, s, x) /\ IsFiniteSet(T!Kids(t, x))
    BY <1>1, KidsBelow
  <2>3. p \notin T!Kids(t, x)
    BY <1>4, <2>2 DEF Below
  <2>4. CASE n \in Below(X, s, x)
    <3>1. T!Kids(v, x) = (T!Kids(t, x) \ {n}) \cup {p}
      BY <1>4, <2>1, <2>2, <2>4 DEF InPlace
    <3>3. Swap(T!Kids(t, x), n, p, T!Kids(v, x))
      BY <2>2, <2>3, <2>4, <3>1 DEF Swap
    <3>2. Cardinality(T!Kids(v, x)) = Cardinality(T!Kids(t, x)) /\ T!Kids(v, x) # {}
          /\ T!Kids(t, x) # {}
      BY <3>3, Swapped
    <3> QED BY <1>10, <3>2 DEF Kept
  <2>5. CASE n \notin Below(X, s, x)
    <3>1. T!Kids(v, x) = T!Kids(t, x)
      BY <1>4, <2>1, <2>2, <2>5 DEF InPlace
    <3> QED BY <1>10, <3>1 DEF Kept
  <2> QED BY <2>4, <2>5
<1>14. T!Kids(v, p) = {n} /\ Cardinality(T!Kids(v, p)) = 1
  <2>1. p \in DOMAIN v
    BY <1>7
  <2>2. T!Kids(v, p) = Below(DOMAIN v, Starts(v), p)
    BY <1>12, <2>1, KidsBelow
  <2>3. T!Kids(v, p) = {n}
    BY <1>4, <1>7, <1>11, <2>2 DEF Only
  <2>4. Cardinality({n}) = 1
    BY FS_Singleton
  <2> QED BY <2>3, <2>4
<1>15. Sound(e, v)
  <2>1. \A x \in X : TableOK(e, v, x)
    BY <1>13, KeptOK DEF Sound
  <2>2. TableOK(e, v, p)
    <3>1. ~v[p].dense /\ Cardinality(T!Kids(v, p)) <= SPARSE_MAX
      BY <1>8, <1>14
    <3>2. T!Kids(v, p) # {}
      BY <1>14
    <3> QED BY <3>1, <3>2, SparseOK
  <2> QED BY <1>7, <1>12, <2>1, <2>2 DEF Sound
<1>16. ~Same(n, d, T!Start(v, n))
  <2>1. T!Start(v, n) = k + 1
    BY <1>2, <1>9 DEF T!Start
  <2> QED BY <1>2, <2>1
<1>17. /\ Sound(e, u)
       /\ DOMAIN v \ {n} \subseteq DOMAIN u /\ DOMAIN u \subseteq DOMAIN v
       /\ n \notin DOMAIN u => v[n].ref = 0
       /\ \A x \in DOMAIN u : Kept(v, u, x)
       /\ EndsAt(DOMAIN v, Starts(v), d, k + 1)
            => EndsAt(DOMAIN u, Starts(u), d, k + 1)
  <2>1. n \in DOMAIN v /\ k + 1 \in Nat
    BY <1>1, <1>2, <1>7
  <2> QED BY <1>6, <1>15, <1>16, <2>1, CompactOK
<1>18. EndsAt(DOMAIN u, Starts(u), d, k + 1)
  BY <1>5, <1>7, <1>11, <1>17
<1>19. p \in DOMAIN u /\ u[p].ref = 0 /\ ~u[p].dense
       /\ Cardinality(T!Kids(u, p)) = 1
  <2>1. p \in DOMAIN u
    BY <1>1, <1>4, <1>7, <1>17
  <2> QED BY <1>8, <1>14, <1>17, <2>1 DEF Kept
<1>21. ASSUME NEW x PROVE Ref(u, x) = Ref(t, x)
  <2>1. CASE x = p
    BY <1>4, <1>19, <2>1 DEF Ref
  <2>2. CASE x \in X /\ x \in DOMAIN u
    <3>1. u[x].ref = v[x].ref /\ v[x].ref = t[x].ref
      BY <1>10, <1>17, <2>2 DEF Kept
    <3> QED BY <2>2, <3>1 DEF Ref
  <2>3. CASE x \in X /\ x \notin DOMAIN u
    <3>1. x = n
      BY <1>7, <1>17, <2>3
    <3> QED BY <1>9, <1>17, <2>3, <3>1 DEF Ref
  <2>4. CASE x \notin X /\ x # p
    BY <1>7, <1>17, <2>4 DEF Ref
  <2> QED BY <2>1, <2>2, <2>3, <2>4
<1> HIDE DEF X, s, E
<1>22. SameRefs(t, u)
  BY <1>21 DEF SameRefs
<1>23. p \in String /\ Len(p) = k /\ k \in Nat /\ Same(p, d, Len(p))
  BY <1>2, <1>3
<1>24. EndsAt(DOMAIN u, Starts(u), d, Len(p) + 1)
  BY <1>18, <1>23
<1> QED BY <1>17, <1>19, <1>22, <1>23, <1>24 DEF SplitDone

(* A chain is put under a node, or into an empty trie, and d counts.       *)
HangIn(t, d, pl, w) ==
  /\ Tree(t) /\ d \in String /\ pl \in Nat /\ pl <= Len(d)
  /\ EndsAt(DOMAIN t, Starts(t), d, pl)
  /\ w = [T!With(t, T!Chain(d, pl)) EXCEPT ![d].ref = @ + 1]

HangDone(e, t, d, pl, w) ==
  /\ Tree(w) /\ DOMAIN t \subseteq DOMAIN w /\ d \notin DOMAIN t
  /\ \A x \in DOMAIN t : w[x] = t[x]
  /\ \A x \in DOMAIN w : x \notin DOMAIN t => TableOK(e, w, x)
  /\ OneMore(t, w, d)
  /\ \A y \in DOMAIN t : Len(y) + 1 = pl /\ Same(y, d, Len(y)) =>
       Cardinality(T!Kids(w, y)) = Cardinality(T!Kids(t, y)) + 1
  /\ \A y \in DOMAIN t : ~(Len(y) + 1 = pl /\ Same(y, d, Len(y))) =>
       T!Kids(w, y) = T!Kids(t, y)

(* The chain brings nodes that are as they should be.                      *)
LEMMA HangOK ==
  ASSUME NEW e, NEW t, NEW d, NEW pl, NEW w, HangIn(t, d, pl, w), Limits
  PROVE  HangDone(e, t, d, pl, w)
<1>0. /\ Tree(t) /\ d \in String /\ pl \in Nat /\ pl <= Len(d)
      /\ EndsAt(DOMAIN t, Starts(t), d, pl)
      /\ PREFIX_MAX \in Nat /\ SPARSE_MAX \in Nat /\ SPARSE_MAX >= 2
      /\ w = [T!With(t, T!Chain(d, pl)) EXCEPT ![d].ref = @ + 1]
  BY DEF HangIn, Limits
<1> USE <1>0
<1> DEFINE X == DOMAIN t
           s == Starts(t)
           Y == T!Chain(d, pl)
           N == DOMAIN Y
           v == [x \in N |-> Len(x) - Y[x].len]
           E == X \cup N
           g == T!With(t, Y)
<1>1. /\ Y = [x \in N |-> Y[x]]
      /\ \A x \in N : NodeOK(Y[x]) /\ Y[x].ref = 0 /\ ~Y[x].dense
      /\ Links(N, v, d, pl)
  BY ChainLinks
<1> HIDE DEF Y
<1>2. d \in N
  BY <1>1 DEF Links
<1> DEFINE z == [x \in E |-> IF x \in N THEN v[x] ELSE s[x]]
<1>17. HangCase(X, s, d, pl, N, v, z)
  <2>1. Shape(X, s) /\ EndsAt(X, s, d, pl)
    BY DEF Tree
  <2> HIDE DEF X, s, v, N
  <2> QED BY <1>1, <2>1 DEF HangCase
<1>18. Shape(E, z) /\ Hung(X, s, d, pl, N, E, z)
  <2> HIDE DEF X, s, v, N, E, z
  <2> QED BY <1>17, ShapeGrow DEF E
<1>3. /\ Shape(E, z)
      /\ \A x \in N : x \notin X
      /\ \A x \in N : x # d => \E y : Below(E, z, x) = {y}
      /\ Below(E, z, d) = {}
      /\ \A y \in X : Len(y) + 1 = pl /\ Same(y, d, Len(y)) =>
           \E x \in N : /\ Below(E, z, y) = Below(X, s, y) \cup {x}
                        /\ x \notin Below(X, s, y)
      /\ \A y \in X : ~(Len(y) + 1 = pl /\ Same(y, d, Len(y))) =>
           Below(E, z, y) = Below(X, s, y)
  <2> HIDE DEF X, s, v, N, E, z
  <2> QED BY <1>18 DEF Hung
<1>4. /\ DOMAIN g = E /\ g = [x \in E |-> g[x]]
      /\ \A x \in N : g[x] = Y[x]
      /\ \A x \in X : g[x] = t[x]
  BY <1>3 DEF T!With
<1> HIDE DEF g
<1>5. w = [g EXCEPT ![d].ref = @ + 1]
  BY DEF g, Y
<1>6. /\ DOMAIN w = E /\ w = [x \in E |-> w[x]]
      /\ w[d] = [Y[d] EXCEPT !.ref = @ + 1]
      /\ \A x \in N : x # d => w[x] = Y[x]
      /\ \A x \in X : w[x] = t[x]
  <2>1. d \in E /\ d \notin X
    BY <1>2, <1>3
  <2>2. g[d] = Y[d]
    BY <1>2, <1>4
  <2> QED BY <1>4, <1>5, <2>1, <2>2
<1>7. /\ NodeOK(w[d]) /\ w[d].ref = 1 /\ ~w[d].dense /\ w[d].len = Y[d].len
  <2>1. NodeOK(Y[d]) /\ Y[d].ref = 0 /\ ~Y[d].dense
    BY <1>1, <1>2
  <2> QED BY <1>6, <2>1 DEF NodeOK
<1>8. \A x \in E : NodeOK(w[x])
  BY <1>1, <1>6, <1>7 DEF Tree
<1>9. Starts(w) = z
  <2>1. \A x \in N : w[x].len = Y[x].len
    BY <1>6, <1>7
  <2>2. \A x \in N : T!Start(w, x) = z[x]
    BY <2>1 DEF T!Start
  <2>3. ASSUME NEW x \in X PROVE T!Start(w, x) = z[x]
    <3>1. x \notin N /\ x \in E /\ w[x] = t[x]
      BY <1>3, <1>6
    <3>2. z[x] = s[x] /\ s[x] = Len(x) - t[x].len
      BY <3>1 DEF T!Start, Starts
    <3> QED BY <3>1, <3>2 DEF T!Start
  <2>4. \A x \in E : T!Start(w, x) = z[x]
    BY <2>2, <2>3
  <2> HIDE DEF z
  <2>5. z = [x \in E |-> z[x]]
    BY DEF z
  <2> QED BY <1>6, <2>4, <2>5 DEF Starts
<1> HIDE DEF z, v, N
<1>10. Tree(w)
  BY <1>3, <1>6, <1>8, <1>9 DEF Tree
<1>11. \A x \in E : /\ T!Kids(w, x) = Below(E, z, x)
  BY <1>6, <1>9, <1>10, KidsBelow
<1>12. \A x \in X : T!Kids(t, x) = Below(X, s, x) /\ IsFiniteSet(T!Kids(t, x))
  BY KidsBelow
<1>13. ASSUME NEW x \in N PROVE TableOK(e, w, x)
  <2>1. CASE x = d
    <3>1. T!Kids(w, x) = {}
      BY <1>2, <1>3, <1>11, <2>1
    <3>2. Cardinality(T!Kids(w, x)) = 0
      BY <3>1, FS_EmptySet
    <3> QED BY <1>7, <2>1, <3>2 DEF TableOK
  <2>2. CASE x # d
    <3>1. PICK y : T!Kids(w, x) = {y}
      BY <1>3, <1>11, <2>2
    <3>2. Cardinality(T!Kids(w, x)) = 1 /\ T!Kids(w, x) # {}
      BY <3>1, FS_Singleton
    <3>3. ~w[x].dense
      BY <1>1, <1>6, <2>2
    <3>4. Cardinality(T!Kids(w, x)) <= SPARSE_MAX
      BY <3>2
    <3> QED BY <3>2, <3>3, <3>4, SparseOK
  <2> QED BY <2>1, <2>2
<1>14. ASSUME NEW x
       PROVE  Ref(w, x) = IF x = d THEN Ref(t, x) + 1 ELSE Ref(t, x)
  <2>1. CASE x = d
    <3>1. x \in E /\ x \notin X
      BY <1>2, <1>3, <2>1
    <3>2. Ref(w, x) = 1 /\ Ref(t, x) = 0
      BY <1>6, <1>7, <2>1, <3>1 DEF Ref
    <3> QED BY <2>1, <3>2
  <2>2. CASE x # d /\ x \in N
    <3>1. x \in E /\ x \notin X
      BY <1>3, <2>2
    <3>2. w[x].ref = 0
      BY <1>1, <1>6, <2>2
    <3> QED BY <1>6, <2>2, <3>1, <3>2 DEF Ref
  <2>3. CASE x # d /\ x \in X
    BY <1>6, <2>3 DEF Ref
  <2>4. CASE x # d /\ x \notin E
    BY <1>6, <2>4 DEF Ref
  <2> QED BY <2>1, <2>2, <2>3, <2>4
<1>15. ASSUME NEW y \in X, Len(y) + 1 = pl, Same(y, d, Len(y))
       PROVE  Cardinality(T!Kids(w, y)) = Cardinality(T!Kids(t, y)) + 1
  <2>1. PICK x \in N : /\ Below(E, z, y) = Below(X, s, y) \cup {x}
                       /\ x \notin Below(X, s, y)
    BY <1>3, <1>15
  <2>2. T!Kids(w, y) = T!Kids(t, y) \cup {x} /\ x \notin T!Kids(t, y)
        /\ IsFiniteSet(T!Kids(t, y))
    BY <1>11, <1>12, <2>1
  <2> QED BY <2>2, FS_AddElement
<1>16. ASSUME NEW y \in X, ~(Len(y) + 1 = pl /\ Same(y, d, Len(y)))
       PROVE  T!Kids(w, y) = T!Kids(t, y)
  BY <1>3, <1>11, <1>12, <1>16
<1>19. OneMore(t, w, d)
  BY <1>14 DEF OneMore, Recounted
<1> QED BY <1>2, <1>3, <1>6, <1>10, <1>13, <1>15, <1>16, <1>19 DEF HangDone

(* A character for which the node has no child.                            *)
LEMMA KidCharsMore ==
  ASSUME NEW t, Tree(t), NEW n \in DOMAIN t, NEW d \in String,
         Same(n, d, Len(n)), Len(n) < Len(d),
         EndsAt(DOMAIN t, Starts(t), d, Len(n) + 1)
  PROVE  Cardinality(T!KidChars(t, n) \cup {d[Len(n) + 1]})
           = Cardinality(T!Kids(t, n)) + 1
<1> DEFINE X == DOMAIN t
           s == Starts(t)
           K == T!Kids(t, n)
           pl == Len(n) + 1
           f == [m \in K |-> m[pl]]
<1>1. Shape(X, s) /\ X \subseteq String /\ n \in String /\ Len(n) \in Nat
  BY SameFacts DEF Tree, Shape
<1>2. K = Below(X, s, n) /\ IsFiniteSet(K) /\ K \subseteq X
  BY KidsBelow
<1>3. \A m \in K : /\ m \in X /\ m \in String /\ Same(n, m, Len(n))
                   /\ s[m] = pl /\ pl <= Len(m) /\ Len(m) \in Nat
  <2> SUFFICES ASSUME NEW m \in K
               PROVE  /\ m \in X /\ m \in String /\ Same(n, m, Len(n))
                      /\ s[m] = pl /\ pl <= Len(m) /\ Len(m) \in Nat
    OBVIOUS
  <2>1. m \in X /\ Same(n, m, Len(n)) /\ s[m] = pl
    BY <1>2 DEF Below
  <2>2. s[m] <= Len(m)
    BY <1>1, <2>1 DEF Shape
  <2> QED BY <1>1, <2>1, <2>2, SameFacts
<1> HIDE DEF s, X, K
<1>4. ASSUME NEW a \in String, NEW b \in String, Same(n, a, Len(n)),
             Same(n, b, Len(n)), pl <= Len(a), pl <= Len(b), a[pl] = b[pl]
      PROVE  Same(a, b, pl)
  <2>1. Same(a, b, Len(n))
    BY <1>1, <1>4, SameFacts
  <2> QED BY <1>1, <1>4, <2>1 DEF Same
<1>5. ASSUME NEW a \in K, NEW b \in K, a[pl] = b[pl] PROVE a = b
  <2>1. Same(a, b, pl)
    BY <1>3, <1>4, <1>5
  <2>2. n \in X
    BY DEF X
  <2> QED BY <1>1, <1>2, <2>1, <2>2, OneKid
<1>6. T!KidChars(t, n) = {m[pl] : m \in K}
  BY DEF T!KidChars, K
<1>7. f \in Surjection(K, T!KidChars(t, n)) /\ f \in Injection(K, T!KidChars(t, n))
  <2>1. f \in [K -> T!KidChars(t, n)]
    BY <1>6
  <2>2. \A c \in T!KidChars(t, n) : \E m \in K : f[m] = c
    BY <1>6
  <2>3. \A a \in K, b \in K : f[a] = f[b] => a = b
    BY <1>5
  <2> DEFINE L == T!KidChars(t, n)
  <2> HIDE DEF f, L
  <2>4. f \in Surjection(K, L)
    BY <2>1, <2>2 DEF Surjection, L
  <2>5. f \in Injection(K, L)
    BY <2>1, <2>3 DEF Injection, IsInjective, L
  <2> QED BY <2>4, <2>5 DEF L
<1> HIDE DEF f
<1>8. /\ IsFiniteSet(T!KidChars(t, n))
      /\ Cardinality(T!KidChars(t, n)) = Cardinality(K)
  BY <1>2, <1>7, FS_Surjection
<1>9. d[pl] \notin T!KidChars(t, n)
  <2> SUFFICES ASSUME NEW m \in K, m[pl] = d[pl] PROVE FALSE
    BY <1>6
  <2>1. Same(m, d, pl)
    BY <1>1, <1>3, <1>4, SameFacts
  <2>2. Len(m) < pl
    BY <1>3, <2>1 DEF EndsAt, X, s
  <2> QED BY <1>1, <1>3, <2>2
<1> QED BY <1>8, <1>9, FS_AddElement DEF K

(* Room for one more child: the table grows, or changes its form and loses *)
(* the count.                                                              *)
LEMMA AdjustOK ==
  ASSUME NEW e, NEW t, Sound(e, t), NEW n \in DOMAIN t, NEW c, NEW A,
         A = T!Adjust(t, n, c), SPARSE_MAX \in Nat,
         Cardinality(T!KidChars(t, n) \cup {c}) = Cardinality(T!Kids(t, n)) + 1
  PROVE  /\ DOMAIN A = DOMAIN t /\ A = [x \in DOMAIN t |-> A[x]]
         /\ \A x \in DOMAIN t : x # n => A[x] = t[x]
         /\ NodeOK(A[n]) /\ A[n].len = t[n].len
         /\ A[n].dense = t[n].dense => A[n].ref = t[n].ref
         /\ A[n].dense # t[n].dense => A[n].ref = 0
         /\ A[n].dense => /\ Knows(e, A[n].nbr, Cardinality(T!Kids(t, n)) + 1)
                          /\ A[n].nbr > SPARSE_MAX
         /\ ~A[n].dense => Cardinality(T!Kids(t, n)) + 1 <= SPARSE_MAX
<1> DEFINE cs == T!KidChars(t, n) \cup {c}
           lo == T!Least({t[n].min, c})
           hi == T!Most({t[n].max, c})
           K == Cardinality(T!Kids(t, n))
<1>1. /\ NodeOK(t[n]) /\ TableOK(e, t, n) /\ K \in Nat
      /\ t = [x \in DOMAIN t |-> t[x]]
  BY KidsBelow DEF Sound, Tree
<1>2. CASE t[n].dense
  <2>1. A = [t EXCEPT ![n].min = T!Least({@, c}), ![n].max = T!Most({@, c}),
                      ![n].nbr = @ + 1]
    BY <1>2 DEF T!Adjust
  <2>2. A = [t EXCEPT ![n] = [t[n] EXCEPT !.min = lo, !.max = hi,
                                         !.nbr = t[n].nbr + 1]]
    BY <1>1, <2>1
  <2> HIDE DEF lo, hi, K
  <2>3. /\ DOMAIN A = DOMAIN t /\ A = [x \in DOMAIN t |-> A[x]]
        /\ \A x \in DOMAIN t : x # n => A[x] = t[x]
        /\ A[n] = [t[n] EXCEPT !.min = lo, !.max = hi, !.nbr = t[n].nbr + 1]
    BY <1>1, <2>2
  <2>4. /\ NodeOK(A[n]) /\ A[n].len = t[n].len /\ A[n].dense = t[n].dense
        /\ A[n].ref = t[n].ref /\ A[n].nbr = t[n].nbr + 1
    <3> DEFINE q == t[n]
               b == t[n].nbr + 1
               r == A[n]
    <3>2. TableNew(q, lo, hi, b, r)
      BY <1>1, <2>3 DEF NodeOK, TableNew
    <3> HIDE DEF q, b, r
    <3>3. /\ NodeOK(r) /\ r.len = q.len /\ r.ref = q.ref
          /\ r.dense = q.dense /\ r.nbr = b
      BY <3>2, NodeTable
    <3> QED BY <3>3 DEF q, b, r
  <2>5. /\ t[n].nbr <= K /\ (e = 0 => t[n].nbr = K)
        /\ t[n].nbr > SPARSE_MAX /\ t[n].nbr \in Nat
    BY <1>1, <1>2 DEF TableOK, K, Knows, NodeOK
  <2>6. Knows(e, A[n].nbr, K + 1) /\ A[n].nbr > SPARSE_MAX
    BY <1>1, <2>4, <2>5 DEF Knows
  <2> QED BY <1>2, <2>3, <2>4, <2>6 DEF K
<1>3. CASE ~t[n].dense /\ Cardinality(cs) <= SPARSE_MAX
  <2>1. A = t
    BY <1>3, TrieCounts DEF T!Adjust
  <2> QED BY <1>1, <1>3, <2>1
<1>4. CASE ~t[n].dense /\ ~(Cardinality(cs) <= SPARSE_MAX)
  <2> DEFINE l == t[n].len
             lo1 == T!Least(cs)
             hi1 == T!Most(cs)
             b == SPARSE_MAX + 1
             r == [T!Node(l) EXCEPT !.dense = TRUE, !.min = lo1, !.max = hi1,
                                  !.nbr = b]
  <2>1. A = [t EXCEPT ![n] = [T!Node(@.len) EXCEPT
               !.dense = TRUE, !.min = T!Least(cs), !.max = T!Most(cs),
               !.nbr = SPARSE_MAX + 1]]
    BY <1>4, TrieCounts DEF T!Adjust
  <2>2. A = [t EXCEPT ![n] = r]
    BY <2>1
  <2>3. l \in Nat /\ b \in Nat
    BY <1>1 DEF NodeOK
  <2> HIDE DEF l, lo1, hi1, b, cs, K
  <2>9. DenseNew(l, lo1, hi1, b, r)
    BY <2>3 DEF DenseNew
  <2> HIDE DEF r
  <2>8. NodeOK(r) /\ r.len = l /\ r.ref = 0 /\ r.dense = TRUE /\ r.nbr = b
    <3>1. DenseNode(l, b, r)
      BY <2>9, NodeDense
    <3> QED BY <3>1 DEF DenseNode
  <2>4. /\ DOMAIN A = DOMAIN t /\ A = [x \in DOMAIN t |-> A[x]]
        /\ \A x \in DOMAIN t : x # n => A[x] = t[x]
        /\ A[n] = r
    BY <1>1, <2>2
  <2>5. /\ NodeOK(A[n]) /\ A[n].len = t[n].len /\ A[n].dense = TRUE
        /\ A[n].ref = 0 /\ A[n].nbr = SPARSE_MAX + 1
    BY <2>4, <2>8 DEF l, b
  <2>6. Cardinality(cs) = K + 1 /\ K <= SPARSE_MAX
    BY <1>1, <1>4 DEF TableOK, K, cs
  <2>7. Knows(e, A[n].nbr, K + 1) /\ A[n].nbr > SPARSE_MAX
    BY <1>1, <1>4, <2>5, <2>6 DEF Knows
  <2> QED BY <1>4, <2>4, <2>5, <2>7 DEF K
<1> QED BY <1>2, <1>3, <1>4

(* A chain under a node, with its table adjusted, keeps all counts, but    *)
(* that of the node if its table changes its form.                         *)
GrowIn(e, t, n, d, w) ==
  /\ Sound(e, t) /\ n \in DOMAIN t /\ d \in String
  /\ Same(n, d, Len(n)) /\ Len(n) < Len(d)
  /\ EndsAt(DOMAIN t, Starts(t), d, Len(n) + 1)
  /\ w = [T!Grow(t, n, d) EXCEPT ![d].ref = @ + 1]

Grown(t, n, d, w) ==
  /\ Ref(w, d) = Ref(t, d) + 1
  /\ \A x : x # d => Ref(w, x) = Ref(t, x) \/ (x = n /\ Changed(t, w, n))

(* The trie stays as it should be, and d is counted.                       *)
LEMMA GrowOK ==
  ASSUME NEW e, NEW t, NEW n, NEW d, NEW w, GrowIn(e, t, n, d, w), Limits
  PROVE  Sound(e, w) /\ Grown(t, n, d, w)
<1>0. /\ Sound(e, t) /\ n \in DOMAIN t /\ d \in String
      /\ Same(n, d, Len(n)) /\ Len(n) < Len(d)
      /\ EndsAt(DOMAIN t, Starts(t), d, Len(n) + 1)
      /\ w = [T!Grow(t, n, d) EXCEPT ![d].ref = @ + 1]
      /\ PREFIX_MAX \in Nat /\ SPARSE_MAX \in Nat /\ SPARSE_MAX >= 2
  BY DEF GrowIn, Limits
<1> USE <1>0
<1> DEFINE X == DOMAIN t
           s == Starts(t)
           pl == Len(n) + 1
           A == T!Adjust(t, n, d[pl])
           K == Cardinality(T!Kids(t, n))
<1>1. /\ Shape(X, s) /\ X \subseteq String /\ n \in String /\ Len(n) \in Nat
      /\ Tree(t) /\ K \in Nat /\ Len(d) \in Nat
  BY KidsBelow, SameFacts DEF Sound, Tree, Shape
<1>2. Cardinality(T!KidChars(t, n) \cup {d[pl]}) = K + 1
  BY <1>1, KidCharsMore
<1>3. /\ DOMAIN A = X /\ A = [x \in X |-> A[x]]
      /\ \A x \in X : x # n => A[x] = t[x]
      /\ NodeOK(A[n]) /\ A[n].len = t[n].len
      /\ A[n].dense = t[n].dense => A[n].ref = t[n].ref
      /\ A[n].dense # t[n].dense => A[n].ref = 0
      /\ A[n].dense => Knows(e, A[n].nbr, K + 1) /\ A[n].nbr > SPARSE_MAX
      /\ ~A[n].dense => K + 1 <= SPARSE_MAX
  BY <1>2, AdjustOK
<1>4. w = [T!With(A, T!Chain(d, pl)) EXCEPT ![d].ref = @ + 1]
  BY <1>1 DEF T!Grow
<1> HIDE DEF A
<1>5. Starts(A) = s
  <2>1. \A x \in X : T!Start(A, x) = T!Start(t, x)
    BY <1>3 DEF T!Start
  <2> QED BY <1>3, <2>1 DEF Starts
<1>6. Tree(A)
  BY <1>1, <1>3, <1>5 DEF Tree
<1>7. \A x \in X : T!Kids(A, x) = T!Kids(t, x)
  BY <1>1, <1>3, <1>5, <1>6, KidsBelow
<1>8. /\ Tree(w) /\ X \subseteq DOMAIN w /\ d \notin X
      /\ \A x \in X : w[x] = A[x]
      /\ \A x \in DOMAIN w : x \notin X => TableOK(e, w, x)
      /\ OneMore(A, w, d)
      /\ Cardinality(T!Kids(w, n)) = K + 1
      /\ \A y \in X : ~(Len(y) + 1 = pl /\ Same(y, d, Len(y))) =>
           T!Kids(w, y) = T!Kids(A, y)
  <2>1. EndsAt(DOMAIN A, Starts(A), d, pl) /\ pl \in Nat /\ pl <= Len(d)
    BY <1>1, <1>3, <1>5
  <2>2. n \in DOMAIN A /\ Len(n) + 1 = pl /\ Same(n, d, Len(n))
    BY <1>3
  <2>3. T!Kids(A, n) = T!Kids(t, n)
    BY <1>7
  <2>4. HangIn(A, d, pl, w)
    BY <1>4, <1>6, <2>1 DEF HangIn
  <2> HIDE DEF pl
  <2>5. HangDone(e, A, d, pl, w)
    BY <2>4, HangOK
  <2> HIDE DEF K
  <2>6. Cardinality(T!Kids(w, n)) = Cardinality(T!Kids(A, n)) + 1
    BY <2>2, <2>5 DEF HangDone
  <2>7. Cardinality(T!Kids(w, n)) = K + 1
    BY <2>3, <2>6 DEF K
  <2> QED BY <1>3, <2>5, <2>7 DEF HangDone
<1>9. ASSUME NEW x \in X, x # n PROVE TableOK(e, w, x)
  <2>1. ~(Len(x) + 1 = pl /\ Same(x, d, Len(x)))
    <3> SUFFICES ASSUME Len(x) + 1 = pl, Same(x, d, Len(x)) PROVE FALSE
      OBVIOUS
    <3>1. x \in String /\ Len(x) \in Nat
      BY <1>1, SameFacts
    <3>2. Len(x) = Len(n)
      BY <1>1, <3>1
    <3>3. Same(d, n, Len(x))
      BY <1>1, <3>2, SameFacts
    <3>4. Same(x, n, Len(x))
      BY <1>1, <3>1, <3>3, SameFacts
    <3> QED BY <1>1, <1>9, <3>1, <3>2, <3>4, SameEqual
  <2>2. T!Kids(w, x) = T!Kids(t, x) /\ w[x] = t[x]
    BY <1>3, <1>7, <1>8, <1>9, <2>1
  <2> QED BY <2>2 DEF Sound, TableOK
<1>10. TableOK(e, w, n)
  <2>1. w[n] = A[n] /\ Cardinality(T!Kids(w, n)) = K + 1
    BY <1>8
  <2>2. T!Kids(w, n) # {}
    <3>1. Cardinality(T!Kids(w, n)) # 0
      BY <1>1, <2>1
    <3> QED BY <3>1, FS_EmptySet
  <2> HIDE DEF K
  <2> QED BY <1>3, <2>1, <2>2 DEF TableOK
<1>11. Sound(e, w)
  BY <1>8, <1>9, <1>10 DEF Sound
<1>12. ASSUME NEW x, x # d
       PROVE  Ref(w, x) = Ref(t, x) \/ (x = n /\ Changed(t, w, n))
  <2>1. Ref(w, x) = Ref(A, x)
    BY <1>8, <1>12 DEF OneMore, Recounted
  <2>2. CASE x # n
    BY <1>3, <2>1, <2>2 DEF Ref
  <2>3. CASE x = n /\ A[n].dense = t[n].dense
    BY <1>3, <2>1, <2>3 DEF Ref
  <2>4. CASE x = n /\ A[n].dense # t[n].dense
    <3>1. n \in DOMAIN w /\ w[n].dense # t[n].dense /\ Ref(A, n) = 0
      BY <1>3, <1>8, <2>4 DEF Ref
    <3> QED BY <2>1, <2>4, <3>1 DEF Changed
  <2> QED BY <2>2, <2>3, <2>4
<1>13. Ref(w, d) = Ref(t, d) + 1
  <2>1. Ref(A, d) = 0 /\ Ref(t, d) = 0
    BY <1>3, <1>8 DEF Ref
  <2> QED BY <1>8, <2>1 DEF OneMore, Recounted
<1> QED BY <1>11, <1>12, <1>13 DEF Grown

(* Another count in a node.                                                *)
CountIn(e, t, d, r, w) ==
  /\ Sound(e, t) /\ d \in DOMAIN t /\ r \in Nat /\ w = [t EXCEPT ![d].ref = r]

CountDone(e, t, d, r, w) ==
  /\ Tree(w) /\ DOMAIN w = DOMAIN t
  /\ \A x \in DOMAIN t : T!Kids(w, x) = T!Kids(t, x) /\ w[x].dense = t[x].dense
  /\ \A x \in DOMAIN t : x # d => w[x].ref = t[x].ref
  /\ w[d].ref = r
  /\ \A x \in DOMAIN t : x # d => TableOK(e, w, x)
  /\ r > 0 \/ T!Kids(t, d) # {} => Sound(e, w)
  /\ Recounted(t, w, d, r)

(* The other nodes are as before.                                          *)
LEMMA CountOK ==
  ASSUME NEW e, NEW t, NEW d, NEW r, NEW w, CountIn(e, t, d, r, w)
  PROVE  CountDone(e, t, d, r, w)
<1>0. /\ Sound(e, t) /\ d \in DOMAIN t /\ r \in Nat
      /\ w = [t EXCEPT ![d].ref = r]
  BY DEF CountIn
<1> USE <1>0
<1>1. /\ DOMAIN w = DOMAIN t /\ w = [x \in DOMAIN t |-> w[x]]
      /\ w[d] = [t[d] EXCEPT !.ref = r]
      /\ \A x \in DOMAIN t : x # d => w[x] = t[x]
      /\ \A x \in DOMAIN t : NodeOK(t[x])
  BY DEF Sound, Tree
<1>2. /\ NodeOK(w[d]) /\ w[d].len = t[d].len /\ w[d].dense = t[d].dense
      /\ w[d].nbr = t[d].nbr /\ w[d].ref = r
  <2>1. NodeOK(t[d])
    BY <1>1
  <2> QED BY <1>1, <2>1 DEF NodeOK
<1>3. \A x \in DOMAIN t : /\ NodeOK(w[x]) /\ w[x].len = t[x].len
                          /\ w[x].dense = t[x].dense /\ w[x].nbr = t[x].nbr
                          /\ w[x].ref = IF x = d THEN r ELSE t[x].ref
  BY <1>1, <1>2
<1>4. Starts(w) = Starts(t)
  BY <1>1, <1>3 DEF Starts, T!Start
<1>5. Tree(w)
  BY <1>1, <1>3, <1>4 DEF Sound, Tree
<1>6. \A x \in DOMAIN t : T!Kids(w, x) = T!Kids(t, x)
  <2>1. \A x \in DOMAIN t : T!Kids(t, x) = Below(DOMAIN t, Starts(t), x)
    BY KidsBelow DEF Sound
  <2>2. \A x \in DOMAIN w : T!Kids(w, x) = Below(DOMAIN w, Starts(w), x)
    BY <1>5, KidsBelow
  <2> SUFFICES ASSUME NEW x \in DOMAIN t PROVE T!Kids(w, x) = T!Kids(t, x)
    OBVIOUS
  <2>3. T!Kids(t, x) = Below(DOMAIN t, Starts(t), x)
    BY <2>1
  <2>4. T!Kids(w, x) = Below(DOMAIN w, Starts(w), x)
    BY <1>1, <2>2
  <2> QED BY <1>1, <1>4, <2>3, <2>4
<1>7. ASSUME NEW x \in DOMAIN t, x # d \/ r > 0 \/ T!Kids(t, d) # {}
      PROVE  TableOK(e, w, x)
  <2>1. TableOK(e, t, x) /\ T!Kids(w, x) = T!Kids(t, x)
    BY <1>6 DEF Sound
  <2>2. /\ w[x].dense = t[x].dense /\ w[x].nbr = t[x].nbr
        /\ w[x].ref = IF x = d THEN r ELSE t[x].ref
    BY <1>3
  <2>3. T!Kids(w, x) = {} => w[x].ref > 0
    BY <1>7, <2>1, <2>2 DEF TableOK
  <2>4. ~t[x].dense => Cardinality(T!Kids(w, x)) <= SPARSE_MAX
    BY <2>1 DEF TableOK
  <2>5. t[x].dense => /\ Knows(e, t[x].nbr, Cardinality(T!Kids(w, x)))
                      /\ t[x].nbr > SPARSE_MAX
    BY <2>1 DEF TableOK
  <2> QED BY <2>2, <2>3, <2>4, <2>5 DEF TableOK
<1>8. r > 0 \/ T!Kids(t, d) # {} => Sound(e, w)
  BY <1>1, <1>5, <1>7 DEF Sound
<1>9. \A x : Ref(w, x) = IF x = d THEN r ELSE Ref(t, x)
  BY <1>1, <1>3 DEF Ref
<1>10. Recounted(t, w, d, r)
  BY <1>9 DEF Recounted
<1>11. \A x \in DOMAIN t : x # d => TableOK(e, w, x)
  BY <1>7
<1>12. /\ \A x \in DOMAIN t : T!Kids(w, x) = T!Kids(t, x) /\ w[x].dense = t[x].dense
       /\ \A x \in DOMAIN t : x # d => w[x].ref = t[x].ref
       /\ w[d].ref = r
  BY <1>3, <1>6
<1> QED BY <1>1, <1>5, <1>8, <1>10, <1>11, <1>12 DEF CountDone

(* One count more in a node that is there.                                 *)
LEMMA AddOne ==
  ASSUME NEW e, NEW t, Sound(e, t), NEW d \in DOMAIN t, NEW w,
         w = [t EXCEPT ![d].ref = @ + 1]
  PROVE  Sound(e, w) /\ OneMore(t, w, d)
<1> DEFINE r == t[d].ref + 1
<1>1. r \in Nat /\ r > 0
  BY DEF Sound, Tree, NodeOK
<1>2. w = [t EXCEPT ![d].ref = r]
  OBVIOUS
<1>3. Ref(t, d) + 1 = r
  BY DEF Ref
<1> HIDE DEF r
<1>4. CountIn(e, t, d, r, w)
  BY <1>1, <1>2 DEF CountIn
<1>5. CountDone(e, t, d, r, w)
  BY <1>4, CountOK
<1>6. Sound(e, w) /\ Recounted(t, w, d, r)
  BY <1>1, <1>5 DEF CountDone
<1> QED BY <1>3, <1>6 DEF OneMore

(* A node n at the end of the way of d: d is this node or below it.        *)
EndIn(e, t, n, d, w) ==
  /\ Sound(e, t) /\ n \in DOMAIN t /\ d \in String /\ Same(n, d, Len(n))
  /\ EndsAt(DOMAIN t, Starts(t), d, Len(n) + 1)
  /\ w = [T!Grow(t, n, d) EXCEPT ![d].ref = @ + 1]

(* In both cases d is counted.                                             *)
LEMMA EndOK ==
  ASSUME NEW e, NEW t, NEW n, NEW d, NEW w, EndIn(e, t, n, d, w), Limits
  PROVE  Sound(e, w) /\ Grown(t, n, d, w)
<1>0. /\ Sound(e, t) /\ n \in DOMAIN t /\ d \in String /\ Same(n, d, Len(n))
      /\ EndsAt(DOMAIN t, Starts(t), d, Len(n) + 1)
      /\ w = [T!Grow(t, n, d) EXCEPT ![d].ref = @ + 1]
  BY DEF EndIn
<1>1. n \in String /\ Len(n) \in Nat /\ Len(d) \in Nat /\ Len(n) <= Len(d)
  <2>1. n \in String
    BY <1>0 DEF Sound, Tree, Shape
  <2> QED BY <1>0, <2>1, SameFacts
<1>2. CASE Len(d) = Len(n)
  <2>1. d = n
    BY <1>0, <1>1, <1>2, SameEqual
  <2>2. T!Grow(t, n, d) = t
    BY <1>2 DEF T!Grow
  <2>3. d \in DOMAIN t /\ w = [t EXCEPT ![d].ref = @ + 1]
    BY <1>0, <2>1, <2>2
  <2>4. Sound(e, w) /\ OneMore(t, w, d)
    BY <1>0, <2>3, AddOne
  <2> QED BY <2>4 DEF OneMore, Recounted, Grown
<1>3. CASE Len(d) # Len(n)
  <2>1. Len(n) < Len(d)
    BY <1>1, <1>3
  <2>2. GrowIn(e, t, n, d, w)
    BY <1>0, <2>1 DEF GrowIn
  <2> QED BY <2>2, GrowOK
<1> QED BY <1>2, <1>3

(* A subscription is counted where it belongs (nn_trie_subscribe).         *)
LEMMA SubscribeOK ==
  ASSUME NEW e, NEW t, Sound(e, t), NEW d \in String, Limits, NEW w,
         w = T!nn_trie_subscribe(t, d)
  PROVE  Sound(e, w) /\ Tallied(t, w, d, Ref(t, d) + 1)
<1> DEFINE n == T!Reached(t, d)
           k == T!nn_node_check_prefix(n, d)
           p == SubSeq(n, 1, k)
           s == Starts(t)
<1>0. Tree(t) /\ Len(d) \in Nat /\ DOMAIN t \subseteq String
  BY SameFacts DEF Sound, Tree, Shape
<1>2. CASE DOMAIN t = {}
  <2> DEFINE U == T!Chain(d, 0)
  <2>1. w = [U EXCEPT ![d].ref = @ + 1]
    BY <1>2 DEF T!nn_trie_subscribe
  <2>2. U = [x \in DOMAIN U |-> U[x]]
    BY DEF T!Chain
  <2> HIDE DEF U
  <2>3. T!With(t, U) = U
    BY <1>2, <2>2 DEF T!With
  <2>4. EndsAt(DOMAIN t, Starts(t), d, 0)
    BY <1>2 DEF EndsAt
  <2>5. w = [T!With(t, T!Chain(d, 0)) EXCEPT ![d].ref = @ + 1]
    BY <2>1, <2>3 DEF U
  <2>6. HangIn(t, d, 0, w)
    BY <1>0, <2>4, <2>5 DEF HangIn
  <2>7. HangDone(e, t, d, 0, w)
    BY <2>6, HangOK
  <2>8. /\ Tree(w) /\ OneMore(t, w, d)
        /\ \A x \in DOMAIN w : x \notin DOMAIN t => TableOK(e, w, x)
    BY <2>7 DEF HangDone
  <2> QED BY <1>2, <2>8 DEF Sound, OneMore, Recounted, Tallied
<1>3. CASE DOMAIN t # {} /\ k < Len(n)
  <2> DEFINE u == T!Split(t, n, k)
  <2>1. w = [T!Grow(u, p, d) EXCEPT ![d].ref = @ + 1]
    BY <1>3 DEF T!nn_trie_subscribe
  <2>2. SplitIn(e, t, d, n, k, p, u)
    BY <1>3 DEF SplitIn
  <2> HIDE DEF u, p, k, n
  <2>3. SplitDone(e, t, d, p, u)
    BY <2>2, SplitOK
  <2>4. EndIn(e, u, p, d, w)
    BY <2>1, <2>3 DEF SplitDone, EndIn
  <2>5. Sound(e, w) /\ Grown(u, p, d, w)
    BY <2>4, EndOK
  <2>6. SameRefs(t, u) /\ Ref(u, p) = 0
    BY <2>3 DEF SplitDone, Ref
  <2>7. \A x : x # d => Ref(w, x) = Ref(u, x)
    BY <2>5, <2>6 DEF Grown, Changed
  <2>8. Ref(w, d) = Ref(t, d) + 1 /\ \A x : x # d => Ref(w, x) = Ref(t, x)
    BY <2>5, <2>6, <2>7 DEF Grown, SameRefs
  <2> QED BY <2>5, <2>8 DEF Tallied
<1>4. CASE DOMAIN t # {} /\ ~(k < Len(n))
  <2>1. w = [T!Grow(t, n, d) EXCEPT ![d].ref = @ + 1]
    BY <1>4 DEF T!nn_trie_subscribe
  <2>2. /\ n \in DOMAIN t
        /\ \A x \in DOMAIN t : Same(x, d, s[x]) => Len(x) <= Len(n)
    BY <1>0, <1>4, ReachedOK
  <2>3. n \in String /\ Len(n) \in Nat
    BY <1>0, <2>2, SameFacts
  <2>4. Same(n, d, Len(n)) /\ Len(n) <= Len(d)
    <3>1. k \in Nat /\ k <= Len(n) /\ Same(n, d, k)
      BY <2>3, CheckOK
    <3> HIDE DEF k, n
    <3>2. k = Len(n)
      BY <1>4, <2>3, <3>1
    <3> QED BY <2>3, <3>1, <3>2, SameFacts
  <2> HIDE DEF k, n
  <2>5. EndsAt(DOMAIN t, Starts(t), d, Len(n) + 1)
    <3>1. \A x \in DOMAIN t : Same(x, d, s[x]) => Len(x) < Len(n) + 1
      <4>1. \A x \in DOMAIN t : Len(x) \in Nat
        BY <1>0, SameFacts
      <4> QED BY <2>2, <2>3, <4>1
    <3> QED BY <2>2, <2>4, <3>1 DEF EndsAt
  <2>6. EndIn(e, t, n, d, w)
    BY <2>1, <2>2, <2>4, <2>5 DEF EndIn
  <2>7. Sound(e, w) /\ Grown(t, n, d, w)
    BY <2>6, EndOK
  <2> QED BY <2>7 DEF Grown, Tallied
<1> QED BY <1>2, <1>3, <1>4

(* The table of m, which has lost a child, is brought up to date.          *)
PruneIn(e, v, m, c, w) ==
  /\ Tree(v) /\ m \in DOMAIN v /\ w = T!Prune(v, m, c)
  /\ \A x \in DOMAIN v : x # m => TableOK(e, v, x)
  /\ ~v[m].dense => TableOK(e, v, m)
  /\ v[m].dense => /\ Knows(e, v[m].nbr, Cardinality(T!Kids(v, m)) + 1)
                   /\ v[m].nbr > SPARSE_MAX
  /\ e = 0 \/ Fits(v, w)

(* The counts are kept, but that of m if its table changes its form.       *)
LEMMA PruneOK ==
  ASSUME NEW e, NEW v, NEW m, NEW c, NEW w, PruneIn(e, v, m, c, w), Limits
  PROVE  Sound(e, w) /\ Spared(v, w) /\ Fits(v, w)
<1>0. /\ Tree(v) /\ m \in DOMAIN v /\ w = T!Prune(v, m, c)
      /\ \A x \in DOMAIN v : x # m => TableOK(e, v, x)
      /\ ~v[m].dense => TableOK(e, v, m)
      /\ v[m].dense => /\ Knows(e, v[m].nbr, Cardinality(T!Kids(v, m)) + 1)
                       /\ v[m].nbr > SPARSE_MAX
      /\ e = 0 \/ Fits(v, w)
      /\ SPARSE_MAX \in Nat /\ SPARSE_MAX >= 2
  BY DEF PruneIn, Limits
<1> USE <1>0
<1> DEFINE K == Cardinality(T!Kids(v, m))
<1>1. /\ v = [x \in DOMAIN v |-> v[x]] /\ NodeOK(v[m]) /\ K \in Nat
      /\ v[m].nbr \in Nat /\ \A x \in DOMAIN v : NodeOK(v[x])
  BY KidsBelow DEF Tree, NodeOK
<1>2. CASE ~v[m].dense
  <2>1. w = T!nn_node_compact(v, m)
    BY <1>2 DEF T!Prune
  <2>2. Sound(e, v)
    BY <1>2 DEF Sound
  <2>3. /\ Sound(e, w)
        /\ DOMAIN v \ {m} \subseteq DOMAIN w /\ DOMAIN w \subseteq DOMAIN v
        /\ m \notin DOMAIN w => v[m].ref = 0
        /\ \A x \in DOMAIN w : Kept(v, w, x)
    BY <2>1, <2>2, CompactOK
  <2>4. \A x : Ref(w, x) = Ref(v, x)
    BY <2>3 DEF Ref, Kept
  <2>5. Fits(v, w)
    BY <2>3 DEF Fits, Kept
  <2> QED BY <2>3, <2>4, <2>5 DEF Spared
(* The dense node m is replaced by r.                                      *)
<1>3. ASSUME NEW r, w = [v EXCEPT ![m] = r], NodeOK(r), r.len = v[m].len,
             v[m].dense,
             IF r.dense THEN r.ref = v[m].ref ELSE r.ref = 0,
             r.dense => Knows(e, r.nbr, K) /\ r.nbr > SPARSE_MAX,
             ~r.dense => (e = 0 => K = SPARSE_MAX)
      PROVE  Sound(e, w) /\ Spared(v, w) /\ Fits(v, w)
  <2>1. /\ DOMAIN w = DOMAIN v /\ w = [x \in DOMAIN v |-> w[x]] /\ w[m] = r
        /\ \A x \in DOMAIN v : x # m => w[x] = v[x]
    BY <1>1, <1>3
  <2>2. Starts(w) = Starts(v)
    <3>1. \A x \in DOMAIN v : T!Start(w, x) = T!Start(v, x)
      BY <1>3, <2>1 DEF T!Start
    <3> QED BY <2>1, <3>1 DEF Starts
  <2>3. Tree(w)
    BY <1>1, <1>3, <2>1, <2>2 DEF Tree
  <2>4. \A x \in DOMAIN v : T!Kids(w, x) = T!Kids(v, x)
    BY <2>1, <2>2, <2>3, KidsBelow
  <2>5. \A x \in DOMAIN v : x # m => TableOK(e, w, x)
    BY <2>1, <2>4 DEF TableOK
  <2>10. Cardinality(T!Kids(w, m)) = K /\ m \in DOMAIN v \cap DOMAIN w
    BY <2>1, <2>4
  <2>11. ~r.dense => K = SPARSE_MAX
    <3> SUFFICES ASSUME ~r.dense, Fits(v, w) PROVE K = SPARSE_MAX
      BY <1>3
    <3> HIDE DEF K
    <3> QED BY <1>3, <2>1, <2>10 DEF Fits
  <2>12. K > 0
    <3> HIDE DEF K
    <3>1. CASE r.dense
      <4>1. r.nbr \in Nat /\ r.nbr <= K /\ r.nbr > SPARSE_MAX
        BY <1>3, <3>1 DEF Knows, NodeOK
      <4> QED BY <1>1, <4>1
    <3>2. CASE ~r.dense
      BY <2>11, <3>2
    <3> QED BY <3>1, <3>2
  <2>6. T!Kids(w, m) # {} /\ Cardinality(T!Kids(w, m)) = K
    <3>1. T!Kids(v, m) # {}
      <4> SUFFICES ASSUME T!Kids(v, m) = {} PROVE FALSE
        OBVIOUS
      <4>1. K = 0
        BY FS_EmptySet
      <4> HIDE DEF K
      <4> QED BY <2>12, <4>1
    <3> QED BY <2>4, <3>1
  <2> HIDE DEF K
  <2>7. TableOK(e, w, m)
    <3>1. ~r.dense => K <= SPARSE_MAX
      BY <2>11
    <3>2. r.dense => Knows(e, r.nbr, K) /\ r.nbr > SPARSE_MAX
      BY <1>3
    <3> QED BY <1>1, <2>1, <2>6, <3>1, <3>2, TableMade
  <2>8. Sound(e, w)
    BY <2>1, <2>3, <2>5, <2>7 DEF Sound
  <2>9. ASSUME NEW x PROVE Ref(w, x) = Ref(v, x) \/ Changed(v, w, x)
    <3>1. CASE x # m
      BY <2>1, <3>1 DEF Ref
    <3>2. CASE x = m /\ r.dense
      BY <1>3, <2>1, <3>2 DEF Ref
    <3>3. CASE x = m /\ ~r.dense
      BY <1>3, <2>1, <3>3 DEF Ref, Changed
    <3> QED BY <3>1, <3>2, <3>3
  <2>13. Fits(v, w)
    BY <2>1, <2>6, <2>11 DEF Fits
  <2> QED BY <2>8, <2>9, <2>13 DEF Spared
<1>4. CASE v[m].dense /\ v[m].nbr > SPARSE_MAX + 1
  <2> DEFINE lo == IF c = v[m].min THEN T!Least(T!KidChars(v, m)) ELSE v[m].min
             hi == IF c = v[m].max /\ c # v[m].min
                     THEN T!Most(T!KidChars(v, m)) ELSE v[m].max
             r == [v[m] EXCEPT !.min = lo, !.max = hi, !.nbr = v[m].nbr - 1]
  <2>1. w = [v EXCEPT ![m].nbr = @ - 1,
                      ![m].min = IF c = @ THEN T!Least(T!KidChars(v, m)) ELSE @,
                      ![m].max = IF c = @ /\ c # v[m].min
                                   THEN T!Most(T!KidChars(v, m)) ELSE @]
    BY <1>4 DEF T!Prune
  <2>2. w = [v EXCEPT ![m] = r]
    BY <1>1, <2>1
  <2> HIDE DEF lo, hi
  <2>3. v[m].nbr - 1 \in Nat
    BY <1>1, <1>4
  <2>4. /\ NodeOK(r) /\ r.len = v[m].len /\ r.ref = v[m].ref
        /\ r.dense = v[m].dense /\ r.nbr = v[m].nbr - 1
    <3> DEFINE q == v[m]
               b == v[m].nbr - 1
    <3>2. TableNew(q, lo, hi, b, r)
      BY <1>1, <2>3 DEF TableNew
    <3> HIDE DEF q, b, r
    <3>3. /\ NodeOK(r) /\ r.len = q.len /\ r.ref = q.ref
          /\ r.dense = q.dense /\ r.nbr = b
      BY <3>2, NodeTable
    <3> QED BY <3>3 DEF q, b, r
  <2> HIDE DEF r, K
  <2>5. v[m].nbr <= K + 1 /\ (e = 0 => v[m].nbr = K + 1)
    BY <1>4 DEF K, Knows
  <2>6. Knows(e, r.nbr, K) /\ r.nbr > SPARSE_MAX
    BY <1>1, <1>4, <2>4, <2>5 DEF Knows
  <2> QED BY <1>3, <1>4, <2>2, <2>4, <2>6
<1>5. CASE v[m].dense /\ ~(v[m].nbr > SPARSE_MAX + 1)
  <2> DEFINE r == T!Node(v[m].len)
  <2>1. w = [v EXCEPT ![m] = r]
    BY <1>5 DEF T!Prune
  <2>2. NodeOK(r) /\ r.len = v[m].len /\ r.ref = 0 /\ ~r.dense
    BY <1>1 DEF T!Node, NodeOK
  <2> HIDE DEF r, K
  <2>3. e = 0 => K = SPARSE_MAX
    <3>1. e = 0 => v[m].nbr = K + 1
      BY <1>5 DEF K, Knows
    <3> QED BY <1>1, <1>5, <3>1
  <2> QED BY <1>3, <1>5, <2>1, <2>2, <2>3
<1> QED BY <1>2, <1>4, <1>5

(* No node is new.                                                         *)
LEMMA PruneDomain ==
  ASSUME NEW v, NEW m, NEW c, NEW w, v = [x \in DOMAIN v |-> v[x]],
         w = T!Prune(v, m, c)
  PROVE  DOMAIN w \subseteq DOMAIN v
<1>1. w = T!nn_node_compact(v, m) => DOMAIN w \subseteq DOMAIN v
  BY DEF T!nn_node_compact, T!Less
<1> QED BY <1>1 DEF T!Prune

(* Nodes on the way to n are taken away; m, if there is one, is the last   *)
(* that stays.                                                             *)
Way(t, n) == {m \in DOMAIN t : Same(m, n, Len(m))}

FreeIn(t, n, R, v) ==
  /\ Tree(t) /\ n \in DOMAIN t /\ T!Kids(t, n) = {}
  /\ R \subseteq Way(t, n) /\ n \in R
  /\ \A x \in R, y \in Way(t, n) : Len(x) <= Len(y) => y \in R
  /\ \A x \in R : x # n => Cardinality(T!Kids(t, x)) <= 1
  /\ v = T!Less(t, R)

FreeLeft(t, n, R, v) ==
  /\ Tree(v) /\ DOMAIN v = DOMAIN t \ R
  /\ \A x \in DOMAIN v : v[x] = t[x]
  /\ \A y \in DOMAIN v : y \notin Way(t, n) => T!Kids(v, y) = T!Kids(t, y)
  /\ \A y \in Way(t, n) \ R, x \in Way(t, n) \ R :
       ~(Len(x) <= Len(y)) => T!Kids(v, y) = T!Kids(t, y)
  /\ \A y \in Way(t, n) \ R :
       (\A x \in Way(t, n) \ R : Len(x) <= Len(y)) =>
         \E x \in T!Kids(t, y) : T!Kids(v, y) = T!Kids(t, y) \ {x}

(* Only m, the last that stays, has a child less.                          *)
LEMMA FreeShape ==
  ASSUME NEW t, NEW n, NEW R, NEW v, FreeIn(t, n, R, v)
  PROVE  FreeLeft(t, n, R, v)
<1>0. /\ Tree(t) /\ n \in DOMAIN t /\ T!Kids(t, n) = {}
      /\ R \subseteq Way(t, n) /\ n \in R
      /\ \A x \in R, y \in Way(t, n) : Len(x) <= Len(y) => y \in R
      /\ \A x \in R : x # n => Cardinality(T!Kids(t, x)) <= 1
      /\ v = T!Less(t, R)
  BY DEF FreeIn
<1> USE <1>0
<1> DEFINE X == DOMAIN t
           s == Starts(t)
           V == Way(t, n)
           E == X \ R
           z == [x \in E |-> s[x]]
<1>1. /\ Shape(X, s) /\ X \subseteq String /\ n \in String /\ Len(n) \in Nat
      /\ V \subseteq X /\ R \subseteq X /\ n \in V
      /\ \A x \in X : Len(x) \in Nat /\ s[x] \in Nat /\ s[x] <= Len(x)
      /\ \A x \in V : x \in String /\ Same(x, n, Len(x)) /\ Len(x) <= Len(n)
  BY SameFacts DEF Tree, Shape, Way
<1>2. \A x \in X : /\ T!Kids(t, x) = Below(X, s, x) /\ IsFiniteSet(T!Kids(t, x))
                   /\ T!Kids(t, x) \subseteq X /\ Cardinality(T!Kids(t, x)) \in Nat
  BY KidsBelow
(* Nodes of the way are beginnings of each other.                          *)
<1>3. ASSUME NEW x \in V, NEW y \in V, Len(x) <= Len(y)
      PROVE  Same(x, y, Len(x)) /\ (Len(x) = Len(y) => x = y)
  <2>1. Same(y, n, Len(x))
    BY <1>1, <1>3, SameFacts
  <2>2. Same(n, y, Len(x))
    BY <1>1, <2>1, SameFacts
  <2>3. Same(x, y, Len(x))
    BY <1>1, <2>2, SameFacts
  <2> QED BY <1>1, <2>3, SameEqual
(* The child that the way goes on to.                                      *)
<1>4. ASSUME NEW x \in V, x # n
      PROVE  \E y \in T!Kids(t, x) : /\ y \in V /\ Len(x) < Len(y)
                                     /\ \A r \in T!Kids(t, x) : r \in V => r = y
  <2>1. PICK y \in Below(X, s, x) : Same(y, n, Len(y))
    BY <1>1, <1>4, KidToward
  <2>2. y \in X /\ y \in V /\ y \in T!Kids(t, x)
    BY <1>1, <1>2, <2>1 DEF Below, Way
  <2>3. Len(x) < Len(y)
    BY <1>1, <2>1, OneParent
  <2>4. ASSUME NEW r \in T!Kids(t, x), r \in V PROVE r = y
    <3>1. r \in Below(X, s, x)
      BY <1>1, <1>2
    <3>2. Len(x) < Len(r)
      BY <1>1, <3>1, OneParent
    <3>3. Len(x) + 1 <= Len(r) /\ Len(x) + 1 <= Len(y) /\ Len(x) + 1 \in Nat
      BY <1>1, <2>2, <2>3, <2>4, <3>2
    <3>4. Same(r, n, Len(x) + 1) /\ Same(y, n, Len(x) + 1)
      BY <1>1, <2>2, <2>4, <3>3, SameFacts
    <3>5. Same(n, y, Len(x) + 1)
      BY <1>1, <2>2, <3>3, <3>4, SameFacts
    <3>6. Same(r, y, Len(x) + 1)
      BY <1>1, <2>2, <2>4, <3>3, <3>4, <3>5, SameFacts
    <3> QED BY <1>1, <2>1, <3>1, <3>6, OneKid
  <2> QED BY <2>2, <2>3, <2>4
<1>5. ASSUME NEW x \in R PROVE Below(X, s, x) \subseteq R
  <2>1. CASE x = n
    BY <1>2, <2>1
  <2>2. CASE x # n
    <3>1. x \in V /\ x \in X
      BY <1>1
    <3>2. PICK y \in T!Kids(t, x) : y \in V /\ Len(x) < Len(y)
      BY <1>4, <2>2, <3>1
    <3>3. y \in R
      BY <1>1, <3>1, <3>2
    <3>4. Cardinality(T!Kids(t, x)) = 1
      <4>1. Cardinality(T!Kids(t, x)) # 0
        BY <1>2, <3>1, <3>2, FS_EmptySet
      <4>2. Cardinality(T!Kids(t, x)) \in Nat /\ Cardinality(T!Kids(t, x)) <= 1
        BY <1>2, <2>2, <3>1
      <4> QED BY <4>1, <4>2
    <3>5. PICK a : T!Kids(t, x) = {a}
      BY <1>2, <3>1, <3>4, FS_Singleton
    <3> QED BY <1>2, <3>1, <3>2, <3>3, <3>5
  <2> QED BY <2>1, <2>2
<1>6. /\ Shape(E, z)
      /\ \A y \in E : Below(E, z, y) = Below(X, s, y) \ R
  <2> HIDE DEF s
  <2>1. z = [x \in X \ R |-> s[x]]
    OBVIOUS
  <2> HIDE DEF z, E
  <2>2. LessCase(X, s, R, z)
    BY <1>1, <1>5, <2>1 DEF LessCase
  <2>3. Shape(X \ R, z) /\ Without(X, s, R, z)
    BY <2>2, ShapeLess
  <2> QED BY <2>3 DEF Without, E
<1>7. DOMAIN v = E /\ v = [x \in E |-> v[x]] /\ \A x \in E : v[x] = t[x]
  BY DEF T!Less
<1>8. Starts(v) = z
  BY <1>7 DEF Starts, T!Start
<1>9. Tree(v)
  BY <1>6, <1>7, <1>8 DEF Tree
<1>10. \A y \in E : T!Kids(v, y) = T!Kids(t, y) \ R
  <2>1. \A y \in E : T!Kids(v, y) = Below(E, z, y)
    BY <1>7, <1>8, <1>9, KidsBelow
  <2> QED BY <1>2, <1>6, <2>1
<1> HIDE DEF z, s
(* A node with a child that is gone is on the way.                         *)
<1>11. ASSUME NEW y \in E, NEW r \in R, r \in T!Kids(t, y)
       PROVE  y \in V
  <2>1. Same(y, r, Len(y)) /\ Len(y) <= Len(r)
    BY <1>1, <1>2, <1>11, SameFacts DEF Below
  <2>2. Same(r, n, Len(y))
    BY <1>1, <2>1, SameFacts
  <2>3. Same(y, n, Len(y))
    BY <1>1, <2>1, <2>2, SameFacts
  <2> QED BY <2>3 DEF Way
<1>12. ASSUME NEW y \in E, y \notin V PROVE T!Kids(v, y) = T!Kids(t, y)
  BY <1>10, <1>11, <1>12
<1>13. ASSUME NEW y \in V \ R, \A x \in V \ R : Len(x) <= Len(y)
       PROVE  \E x \in T!Kids(t, y) : T!Kids(v, y) = T!Kids(t, y) \ {x}
  <2>1. PICK x \in T!Kids(t, y) : /\ x \in V /\ Len(y) < Len(x)
                                  /\ \A r \in T!Kids(t, y) : r \in V => r = x
    BY <1>4
  <2>2. x \in R
    <3> SUFFICES ASSUME x \notin R PROVE FALSE
      OBVIOUS
    <3>1. Len(x) <= Len(y)
      BY <1>13, <2>1
    <3> QED BY <1>1, <2>1, <3>1
  <2>3. \A r \in T!Kids(t, y) : r \in R <=> r = x
    BY <1>1, <2>1, <2>2
  <2>4. T!Kids(v, y) = T!Kids(t, y) \ R
    BY <1>1, <1>10
  <2> QED BY <2>3, <2>4
<1>14. ASSUME NEW y \in V \ R, NEW x \in V \ R, ~(Len(x) <= Len(y))
       PROVE  T!Kids(v, y) = T!Kids(t, y)
  <2>1. ASSUME NEW r \in R, r \in T!Kids(t, y) PROVE FALSE
    <3>1. Len(x) < Len(r)
      <4>1. ~(Len(r) <= Len(x))
        BY <1>1
      <4> QED BY <1>1, <4>1
    <3>2. s[r] = Len(y) + 1 /\ r \in X /\ r \in V
      BY <1>1, <1>2, <2>1 DEF Below
    <3>3. s[r] \in Nat /\ s[r] <= Len(x)
      BY <1>1, <1>14, <3>2
    <3>4. Same(x, r, Len(x))
      BY <1>1, <1>3, <3>1, <3>2
    <3>5. Same(x, r, s[r])
      BY <1>1, <3>2, <3>3, <3>4, SameFacts
    <3>6. Same(r, x, Len(r))
      BY <1>1, <3>2, <3>5 DEF Shape
    <3>7. Len(r) <= Len(x)
      BY <1>1, <3>2, <3>6, SameFacts
    <3> QED BY <1>1, <3>1, <3>2, <3>7
  <2> QED BY <1>1, <1>10, <2>1
<1> QED BY <1>7, <1>9, <1>12, <1>13, <1>14 DEF FreeLeft

(* A leaf that counts no more is freed, with the nodes above that are only *)
(* there for it: all other counts are kept (nn_node_unsubscribe).          *)
LeafIn(e, t, n, w) ==
  /\ Tree(t) /\ n \in DOMAIN t /\ T!Kids(t, n) = {} /\ ~t[n].dense
  /\ t[n].ref = 0 /\ \A x \in DOMAIN t : x # n => TableOK(e, t, x)
  /\ w = T!Free(t, n)
  /\ e = 0 \/ Fits(t, w)

(* The nodes that are freed count nothing.                                 *)
LEMMA FreeLeafOK ==
  ASSUME NEW e, NEW t, NEW n, NEW w, LeafIn(e, t, n, w), Limits
  PROVE  Sound(e, w) /\ Spared(t, w) /\ Fits(t, w)
<1>0. /\ Tree(t) /\ n \in DOMAIN t /\ T!Kids(t, n) = {} /\ ~t[n].dense
      /\ t[n].ref = 0 /\ \A x \in DOMAIN t : x # n => TableOK(e, t, x)
      /\ w = T!Free(t, n)
      /\ e = 0 \/ Fits(t, w)
  BY DEF LeafIn
<1> USE <1>0
<1> DEFINE X == DOMAIN t
           V == Way(t, n)
           above == {m \in X : T!Prefix(m, n) /\ m # n}
           stay == {m \in above : T!nn_node_has_subscribers(t, m) \/ t[m].dense
                                  \/ T!Cardinality(T!Kids(t, m)) > 1}
           m == T!Longest(stay)
<1>1. /\ Shape(X, Starts(t)) /\ X \subseteq String /\ n \in String
      /\ \A x \in X : Len(x) \in Nat
      /\ \A x \in X : NodeOK(t[x]) /\ t[x].ref \in Nat
      /\ \A x \in X : Cardinality(T!Kids(t, x)) \in Nat /\ IsFiniteSet(T!Kids(t, x))
  BY SameFacts, KidsBelow DEF Tree, Shape, NodeOK
<1>2. above = V \ {n} /\ n \in V /\ V \subseteq X
  BY <1>1, PrefixSame, SameFacts DEF Way
<1>3. ASSUME NEW x \in above, x \notin stay
      PROVE  Cardinality(T!Kids(t, x)) <= 1 /\ t[x].ref = 0 /\ x \in X
  BY <1>1, <1>3, TrieCounts DEF T!nn_node_has_subscribers
<1>4. ASSUME NEW x \in V PROVE Len(x) <= Len(n) /\ (Len(x) = Len(n) => x = n)
  <2>1. Same(x, n, Len(x)) /\ x \in String
    BY <1>1, <1>2 DEF Way
  <2> QED BY <1>1, <2>1, SameFacts, SameEqual
<1>5. CASE stay = {}
  <2>1. w = T!Less(t, above \cup {n})
    BY <1>5 DEF T!Free
  <2>2. above \cup {n} = V
    BY <1>2
  <2>3. \A x \in V : x # n => Cardinality(T!Kids(t, x)) <= 1 /\ t[x].ref = 0
    BY <1>2, <1>3, <1>5
  <2> HIDE DEF V, X, above, stay
  <2>4. /\ Tree(w) /\ DOMAIN w = X \ V
        /\ \A x \in DOMAIN w : w[x] = t[x]
        /\ \A y \in DOMAIN w : y \notin V => T!Kids(w, y) = T!Kids(t, y)
    <3>1. FreeIn(t, n, V, w)
      BY <1>2, <2>1, <2>2, <2>3 DEF FreeIn, V
    <3>2. FreeLeft(t, n, V, w)
      BY <3>1, FreeShape
    <3> QED BY <3>2 DEF FreeLeft, V, X
  <2>5. \A x \in DOMAIN w : TableOK(e, w, x)
    <3> SUFFICES ASSUME NEW x \in DOMAIN w PROVE TableOK(e, w, x)
      OBVIOUS
    <3>1. x # n /\ x \in X /\ T!Kids(w, x) = T!Kids(t, x) /\ w[x] = t[x]
      BY <1>2, <2>4
    <3>2. TableOK(e, t, x)
      BY <3>1 DEF X
    <3> QED BY <3>1, <3>2 DEF TableOK
  <2>6. \A x \in V : t[x].ref = 0
    BY <2>3
  <2>7. \A x : Ref(w, x) = Ref(t, x)
    BY <1>2, <2>4, <2>6 DEF Ref, X
  <2>8. Fits(t, w)
    BY <2>4 DEF Fits
  <2> QED BY <2>4, <2>5, <2>7, <2>8 DEF Sound, Spared
<1>6. CASE stay # {}
  <2> DEFINE R == {n} \cup {k \in above : Len(k) > Len(m)}
             v == T!Less(t, R)
             c == n[Len(m) + 1]
  <2>1. w = T!Prune(v, m, c)
    BY <1>6 DEF T!Free
  <2>2. m \in stay /\ \A y \in stay : Len(y) <= Len(m)
    <3>1. stay \subseteq String
      BY <1>1
    <3>2. PICK top \in Nat : \A x \in X : Len(x) <= top
      BY <1>1 DEF Shape
    <3>3. \A x \in stay : Len(x) <= top
      BY <3>2
    <3> HIDE DEF stay
    <3> QED BY <1>6, <3>1, <3>3, LongestThere
  <2>3. m \in above /\ m \in X /\ Len(m) \in Nat /\ m # n /\ m \in V
        /\ (t[m].ref > 0 \/ t[m].dense \/ Cardinality(T!Kids(t, m)) > 1)
    BY <1>1, <1>2, <2>2, TrieCounts DEF T!nn_node_has_subscribers
  <2> HIDE DEF m
  <2>4. \A x \in R : x # n => /\ Cardinality(T!Kids(t, x)) <= 1
                              /\ t[x].ref = 0 /\ x \in V /\ Len(x) > Len(m)
    <3> SUFFICES ASSUME NEW x \in R, x # n
                 PROVE  /\ Cardinality(T!Kids(t, x)) <= 1
                        /\ t[x].ref = 0 /\ x \in V /\ Len(x) > Len(m)
      OBVIOUS
    <3>1. x \in above /\ Len(x) > Len(m) /\ x \in V /\ Len(x) \in Nat
      BY <1>1, <1>2
    <3>2. x \notin stay
      BY <2>2, <2>3, <3>1
    <3> QED BY <1>3, <3>1, <3>2
  <2>5. n \in R /\ R \subseteq V
    BY <1>2
  <2>6. Len(m) < Len(n) /\ Len(n) \in Nat
    <3>1. Len(m) <= Len(n) /\ Len(m) # Len(n)
      BY <1>4, <2>3
    <3> QED BY <1>1, <2>3, <3>1
  <2>7. \A x \in V : x \in R <=> Len(x) > Len(m)
    BY <1>2, <2>6
  <2>8. \A x \in R, y \in V : Len(x) <= Len(y) => y \in R
    <3> SUFFICES ASSUME NEW x \in R, NEW y \in V, Len(x) <= Len(y)
                 PROVE  y \in R
      OBVIOUS
    <3>1. Len(x) > Len(m) /\ Len(x) \in Nat /\ Len(y) \in Nat
      BY <1>1, <1>2, <2>5, <2>7
    <3> QED BY <2>3, <2>7, <3>1
  <2>9. m \in V \ R /\ \A x \in V \ R : Len(x) <= Len(m)
    <3>1. m \notin R
      BY <2>3, <2>7
    <3>2. \A x \in V \ R : Len(x) \in Nat /\ ~(Len(x) > Len(m))
      BY <1>1, <1>2, <2>7
    <3> QED BY <2>3, <3>1, <3>2
  <2> HIDE DEF R, V, X, stay, above, v, c
  <2>10. v = T!Less(t, R) /\ R \subseteq Way(t, n) /\ V = Way(t, n) /\ X = DOMAIN t
    BY <2>5 DEF v, V, X
  <2>11. /\ Tree(v) /\ DOMAIN v = X \ R
         /\ \A x \in DOMAIN v : v[x] = t[x]
         /\ \A y \in DOMAIN v : y \notin V => T!Kids(v, y) = T!Kids(t, y)
         /\ \A y \in V \ R, x \in V \ R :
              ~(Len(x) <= Len(y)) => T!Kids(v, y) = T!Kids(t, y)
         /\ \A y \in V \ R :
              (\A x \in V \ R : Len(x) <= Len(y)) =>
                \E x \in T!Kids(t, y) : T!Kids(v, y) = T!Kids(t, y) \ {x}
    <3>1. FreeIn(t, n, R, v)
      BY <2>4, <2>5, <2>8, <2>10 DEF FreeIn
    <3>2. FreeLeft(t, n, R, v)
      BY <3>1, FreeShape
    <3> QED BY <2>10, <3>2 DEF FreeLeft
  <2>12. PICK a \in T!Kids(t, m) : T!Kids(v, m) = T!Kids(t, m) \ {a}
    BY <2>9, <2>11
  <2>13. m \in DOMAIN v /\ m \in X /\ v[m] = t[m] /\ TableOK(e, t, m) /\ n \notin DOMAIN v
    BY <2>3, <2>5, <2>9, <2>11 DEF X
  <2>14. /\ Cardinality(T!Kids(v, m)) + 1 = Cardinality(T!Kids(t, m))
         /\ Cardinality(T!Kids(v, m)) \in Nat
    <3>1. Cardinality(T!Kids(t, m) \ {a}) = Cardinality(T!Kids(t, m)) - 1
      BY <1>1, <2>12, <2>13, FS_RemoveElement
    <3>2. Cardinality(T!Kids(t, m)) \in Nat
      BY <1>1, <2>13
    <3>3. Cardinality(T!Kids(v, m)) \in Nat
      BY <2>11, <2>13, KidsBelow
    <3> QED BY <2>12, <3>1, <3>2, <3>3
  <2>15. ASSUME NEW x \in DOMAIN v, x # m PROVE TableOK(e, v, x)
    <3>1. x \in X /\ x \notin R /\ x # n /\ v[x] = t[x]
      BY <2>11, <2>13
    <3>2. TableOK(e, t, x)
      BY <3>1 DEF X
    <3>3. T!Kids(v, x) = T!Kids(t, x)
      <4>1. CASE x \notin V
        BY <2>11, <4>1
      <4>2. CASE x \in V
        <5>1. ~(\A y \in V \ R : Len(y) <= Len(x))
          <6> SUFFICES ASSUME \A y \in V \ R : Len(y) <= Len(x) PROVE FALSE
            OBVIOUS
          <6>1. Len(m) <= Len(x) /\ Len(x) <= Len(m)
            BY <2>9, <3>1, <4>2
          <6>2. Len(x) = Len(m)
            BY <1>1, <2>3, <3>1, <6>1
          <6>3. Same(x, n, Len(x)) /\ Same(m, n, Len(m))
            BY <2>3, <2>10, <4>2 DEF Way
          <6>4. x \in String /\ m \in String
            BY <1>1, <2>3, <3>1
          <6>5. Same(n, m, Len(m))
            BY <1>1, <2>3, <6>3, <6>4, SameFacts
          <6>6. Same(x, m, Len(x))
            BY <1>1, <2>3, <6>2, <6>3, <6>4, <6>5, SameFacts
          <6> QED BY <2>15, <6>2, <6>4, <6>6, SameEqual
        <5> QED BY <2>11, <3>1, <4>2, <5>1
      <4> QED BY <4>1, <4>2
    <3> QED BY <3>1, <3>2, <3>3 DEF TableOK
  <2>16. ~v[m].dense => TableOK(e, v, m)
    <3> SUFFICES ASSUME ~t[m].dense PROVE TableOK(e, v, m)
      BY <2>13
    <3>1. Cardinality(T!Kids(t, m)) <= SPARSE_MAX
      BY <2>13 DEF TableOK
    <3>2. Cardinality(T!Kids(v, m)) <= SPARSE_MAX
      <4> DEFINE a1 == Cardinality(T!Kids(v, m))
                 a2 == Cardinality(T!Kids(t, m))
      <4>1. a1 \in Nat /\ a1 + 1 = a2 /\ a2 <= SPARSE_MAX /\ SPARSE_MAX \in Nat
        BY <2>14, <3>1 DEF Limits
      <4> HIDE DEF a1, a2
      <4>2. a1 <= SPARSE_MAX
        BY <4>1
      <4> QED BY <4>2 DEF a1
    <3>3. T!Kids(v, m) = {} => t[m].ref > 0
      <4> SUFFICES ASSUME T!Kids(v, m) = {} PROVE t[m].ref > 0
        OBVIOUS
      <4>1. Cardinality(T!Kids(v, m)) = 0
        BY FS_EmptySet
      <4>2. ~(Cardinality(T!Kids(t, m)) > 1)
        BY <2>14, <4>1
      <4> QED BY <2>3, <4>2
    <3> QED BY <2>13, <3>2, <3>3 DEF TableOK
  <2>17. v[m].dense => /\ Knows(e, v[m].nbr, Cardinality(T!Kids(v, m)) + 1)
                       /\ v[m].nbr > SPARSE_MAX
    BY <2>13, <2>14 DEF TableOK
  <2>18. e = 0 \/ Fits(v, w)
    BY <2>11 DEF X, Fits
  <2>19. Sound(e, w) /\ Spared(v, w) /\ Fits(v, w)
    <3>1. PruneIn(e, v, m, c, w)
      BY <2>1, <2>11, <2>13, <2>15, <2>16, <2>17, <2>18 DEF PruneIn
    <3> QED BY <3>1, PruneOK
  <2>20. \A x : Ref(v, x) = Ref(t, x)
    <3>1. \A x \in R : t[x].ref = 0
      BY <2>4
    <3> QED BY <2>10, <2>11, <3>1 DEF Ref
  <2>21. Spared(t, w)
    BY <2>10, <2>11, <2>19, <2>20 DEF Spared, Changed
  <2>22. Fits(t, w)
    <3> SUFFICES ASSUME NEW x \in DOMAIN t \cap DOMAIN w, t[x].dense,
                        ~w[x].dense
                 PROVE  x \in DOMAIN v /\ v[x].dense
      BY <2>19 DEF Fits
    <3>1. DOMAIN w \subseteq DOMAIN v
      BY <2>1, <2>11, <2>13, PruneDomain DEF Tree
    <3> QED BY <2>11, <3>1
  <2> QED BY <2>19, <2>21, <2>22
<1> QED BY <1>5, <1>6

(* A count in the node n is taken back (the label found).                  *)
FoundIn(e, t, n, w) ==
  /\ Sound(e, t) /\ n \in DOMAIN t /\ t[n].ref > 0 /\ w = T!Found(t, n)
  /\ e = 0 \/ Fits(t, w)

(* The others are kept.                                                    *)
LEMMA FoundOK ==
  ASSUME NEW e, NEW t, NEW n, NEW w, FoundIn(e, t, n, w), Limits
  PROVE  Sound(e, w) /\ Tallied(t, w, n, Ref(t, n) - 1) /\ Fits(t, w)
<1>0. /\ Sound(e, t) /\ n \in DOMAIN t /\ t[n].ref > 0 /\ w = T!Found(t, n)
      /\ e = 0 \/ Fits(t, w)
  BY DEF FoundIn
<1> USE <1>0
<1>1. Tree(t) /\ \A x \in DOMAIN t : t[x].ref \in Nat
  BY DEF Sound, Tree, NodeOK
<1>4. Ref(t, n) = t[n].ref
  BY DEF Ref
<1>5. CASE t[n].ref > 1
  <2> DEFINE r == t[n].ref - 1
  <2>1. w = [t EXCEPT ![n].ref = r]
    BY <1>5 DEF T!Found
  <2>2. r \in Nat /\ r > 0 /\ Ref(t, n) - 1 = r
    BY <1>1, <1>4, <1>5
  <2> HIDE DEF r
  <2>3. CountDone(e, t, n, r, w)
    <3>1. CountIn(e, t, n, r, w)
      BY <2>1, <2>2 DEF CountIn
    <3> QED BY <3>1, CountOK
  <2>4. Sound(e, w) /\ Recounted(t, w, n, r)
    BY <2>2, <2>3 DEF CountDone
  <2>5. Fits(t, w)
    BY <2>3 DEF CountDone, Fits
  <2> QED BY <2>2, <2>4, <2>5 DEF Recounted, Tallied
<1>6. CASE ~(t[n].ref > 1)
  <2> DEFINE u == [t EXCEPT ![n].ref = 0]
  <2>1. Ref(t, n) - 1 = 0
    BY <1>1, <1>4, <1>6
  <2>2. w = IF T!Kids(t, n) = {} /\ ~t[n].dense THEN T!Free(u, n)
                                                ELSE T!nn_node_compact(u, n)
    BY <1>6 DEF T!Found
  <2>3. u = [t EXCEPT ![n].ref = 0]
    OBVIOUS
  <2> HIDE DEF u
  <2>4. /\ Tree(u) /\ DOMAIN u = DOMAIN t
        /\ \A x \in DOMAIN t : /\ T!Kids(u, x) = T!Kids(t, x)
                               /\ u[x].dense = t[x].dense
        /\ u[n].ref = 0
        /\ \A x \in DOMAIN t : x # n => TableOK(e, u, x)
        /\ T!Kids(t, n) # {} => Sound(e, u)
        /\ Recounted(t, u, n, 0)
    <3>1. CountIn(e, t, n, 0, u)
      BY <2>3 DEF CountIn
    <3>2. CountDone(e, t, n, 0, u)
      BY <3>1, CountOK
    <3> QED BY <3>2 DEF CountDone
  <2>5. e = 0 \/ Fits(u, w)
    BY <2>4 DEF Fits
  <2>6. Sound(e, w) /\ Spared(u, w) /\ Fits(u, w)
    <3>1. CASE T!Kids(t, n) = {} /\ ~t[n].dense
      <4>1. w = T!Free(u, n)
        BY <2>2, <3>1
      <4>2. n \in DOMAIN u /\ T!Kids(u, n) = {} /\ ~u[n].dense /\ u[n].ref = 0
        BY <2>4, <3>1
      <4>3. LeafIn(e, u, n, w)
        BY <2>4, <2>5, <4>1, <4>2 DEF LeafIn
      <4> QED BY <4>3, FreeLeafOK
    <3>2. CASE ~(T!Kids(t, n) = {} /\ ~t[n].dense)
      <4>1. T!Kids(t, n) # {}
        <5> SUFFICES ASSUME T!Kids(t, n) = {} PROVE FALSE
          OBVIOUS
        <5>1. Cardinality(T!Kids(t, n)) = 0
          BY FS_EmptySet
        <5>2. t[n].dense /\ TableOK(e, t, n) /\ NodeOK(t[n])
          BY <3>2 DEF Sound, Tree
        <5>3. t[n].nbr <= 0 /\ t[n].nbr > SPARSE_MAX /\ t[n].nbr \in Nat
          BY <5>1, <5>2 DEF TableOK, Knows, NodeOK
        <5> QED BY <5>3 DEF Limits
      <4>2. w = T!nn_node_compact(u, n) /\ Sound(e, u) /\ n \in DOMAIN u
        BY <2>2, <2>4, <3>2, <4>1
      <4>3. /\ Sound(e, w)
            /\ DOMAIN u \ {n} \subseteq DOMAIN w /\ DOMAIN w \subseteq DOMAIN u
            /\ n \notin DOMAIN w => u[n].ref = 0
            /\ \A x \in DOMAIN w : Kept(u, w, x)
        BY <4>2, CompactOK
      <4>4. \A x : Ref(w, x) = Ref(u, x)
        BY <4>3 DEF Ref, Kept
      <4>5. Fits(u, w)
        BY <4>3 DEF Fits, Kept
      <4> QED BY <4>3, <4>4, <4>5 DEF Spared
    <3> QED BY <3>1, <3>2
  <2>7. \A x : Changed(u, w, x) => Changed(t, w, x)
    BY <2>4 DEF Changed
  <2>8. Tallied(t, w, n, 0)
    BY <2>4, <2>6, <2>7 DEF Recounted, Spared, Tallied, Changed
  <2>9. Fits(t, w)
    BY <2>4, <2>6 DEF Fits
  <2> QED BY <2>1, <2>6, <2>8, <2>9
<1> QED BY <1>5, <1>6

(* The way of a string that has a node ends there.                         *)
LEMMA ReachedThere ==
  ASSUME NEW t, Tree(t), NEW d \in DOMAIN t
  PROVE  T!Reached(t, d) = d
<1> DEFINE X == DOMAIN t
           s == Starts(t)
           n == T!Reached(t, d)
<1>1. /\ Shape(X, s) /\ X \subseteq String /\ d \in String
      /\ \A x \in X : s[x] \in Nat /\ s[x] <= Len(x)
  BY DEF Tree, Shape
<1>2. /\ n \in X /\ Same(n, d, s[n])
      /\ \A x \in X : Same(x, d, s[x]) => Len(x) <= Len(n)
  BY <1>1, ReachedOK
<1> HIDE DEF n, s
<1>3. n \in String /\ Len(n) \in Nat /\ Len(d) \in Nat
  BY <1>1, <1>2, SameFacts
<1>4. Same(d, n, s[n])
  BY <1>1, <1>2, <1>3, SameFacts
<1>5. Same(n, d, Len(n))
  BY <1>1, <1>2, <1>4 DEF Shape
<1>6. Same(d, d, Len(d))
  BY <1>1, SameFacts
<1>7. Same(d, d, s[d])
  BY <1>1, <1>3, <1>6, SameFacts
<1>8. Len(d) <= Len(n) /\ Len(n) <= Len(d)
  BY <1>1, <1>2, <1>3, <1>5, <1>7, SameFacts
<1>9. Len(n) = Len(d)
  BY <1>3, <1>8
<1> QED BY <1>1, <1>3, <1>5, <1>9, SameEqual DEF n

(* What unsubscribing d leaves: a count less for d, if it had one, and     *)
(* for the strings that are lost now.                                      *)
Lowered(t, w, d, U) ==
  /\ Ref(w, d) = IF Ref(t, d) > 0 THEN Ref(t, d) - 1 ELSE 0
  /\ \A x : x # d => \/ Ref(w, x) = Ref(t, x)
                     \/ x \in U /\ Ref(w, x) < Ref(t, x)

(* With a count for d, a trie with exact tables, in which nothing crashes. *)
LEMMA UnsubscribeCounted ==
  ASSUME NEW e, NEW t, Sound(e, t), NEW d \in DOMAIN t, t[d].ref > 0, Limits,
         NEW w, w = T!nn_trie_unsubscribe(t, d), e = 0 \/ ~T!Crashes(t, d)
  PROVE  /\ Sound(e, w) /\ ~T!Crashes(t, d)
         /\ Lowered(t, w, d, T!Uncounted(t, w) \cup T!Mistaken(t, d))
<1>1. Tree(t) /\ T!Reached(t, d) = d /\ \A x \in DOMAIN t : t[x].ref \in Nat
  BY ReachedThere DEF Sound, Tree, NodeOK
<1>2. DOMAIN t # {} /\ T!IsFound(t, d)
  BY <1>1 DEF T!IsFound
<1>3. w = T!Found(t, d)
  BY <1>1, <1>2 DEF T!nn_trie_unsubscribe, T!nn_node_has_subscribers
<1>4. Fits(t, w) <=> ~T!Overfull(t, w)
  BY TrieCounts DEF Fits, T!Overfull
<1>5. T!Crashes(t, d) <=> T!Overfull(t, w)
  BY <1>2 DEF T!Crashes, T!Dereferences, T!AtNULL
<1>6. FoundIn(e, t, d, w)
  BY <1>3, <1>4, <1>5 DEF FoundIn
<1>7. Sound(e, w) /\ Tallied(t, w, d, Ref(t, d) - 1) /\ Fits(t, w)
  BY <1>6, FoundOK
<1>8. ASSUME NEW x, x # d
      PROVE  \/ Ref(w, x) = Ref(t, x)
             \/ x \in T!Uncounted(t, w) /\ Ref(w, x) < Ref(t, x)
  BY <1>1, <1>7, <1>8 DEF Tallied, Changed, Ref, T!Uncounted
<1>9. Ref(t, d) > 0
  BY DEF Ref
<1> QED BY <1>4, <1>5, <1>7, <1>8, <1>9 DEF Lowered, Tallied

(* Without one, another string may lose a count, or a table a child that   *)
(* it does not have.                                                       *)
LEMMA UnsubscribeStray ==
  ASSUME NEW t, Sound(1, t), NEW d \in String, Ref(t, d) = 0, Limits, NEW w,
         w = T!nn_trie_unsubscribe(t, d), ~T!Crashes(t, d)
  PROVE  /\ Sound(1, w)
         /\ Lowered(t, w, d, T!Uncounted(t, w) \cup T!Mistaken(t, d))
<1> DEFINE n == T!Reached(t, d)
           U == T!Uncounted(t, w) \cup T!Mistaken(t, d)
<1>1. Tree(t) /\ \A x \in DOMAIN t : t[x].ref \in Nat
  BY DEF Sound, Tree, NodeOK
<1>2. Fits(t, w)
  BY TrieCounts DEF Fits, T!Overfull, T!Crashes
<1>3. \A x : Changed(t, w, x) => \/ Ref(w, x) = Ref(t, x)
                                 \/ x \in U /\ Ref(w, x) < Ref(t, x)
  BY <1>1 DEF Changed, Ref, T!Uncounted
<1>4. CASE w = t
  BY <1>4 DEF Lowered
<1>5. CASE T!IsFound(t, d) /\ T!nn_node_has_subscribers(t, n)
  <2>1. n \in DOMAIN t /\ t[n].ref > 0 /\ w = T!Found(t, n)
    <3>1. DOMAIN t # {} /\ t[n].ref > 0
      BY <1>5 DEF T!IsFound, T!nn_node_has_subscribers
    <3>2. n \in DOMAIN t
      BY <1>1, <3>1, ReachedOK
    <3>3. w = T!Found(t, n)
      BY <1>5 DEF T!nn_trie_unsubscribe, T!AtNULL
    <3> QED BY <3>1, <3>2, <3>3
  <2>2. n # d
    BY <2>1 DEF Ref
  <2>3. n \in U
    BY <1>5, <2>1, <2>2 DEF T!Mistaken
  <2> HIDE DEF n, U
  <2>4. Sound(1, w) /\ Tallied(t, w, n, Ref(t, n) - 1)
    <3>1. FoundIn(1, t, n, w)
      BY <1>2, <2>1 DEF FoundIn
    <3> QED BY <3>1, FoundOK
  <2>5. Ref(t, n) \in Nat /\ Ref(w, n) < Ref(t, n)
    BY <1>1, <2>1, <2>4 DEF Ref, Tallied
  <2>6. Ref(w, d) = 0
    BY <2>2, <2>4 DEF Tallied, Changed
  <2>7. \A x : x # d => \/ Ref(w, x) = Ref(t, x)
                        \/ x \in U /\ Ref(w, x) < Ref(t, x)
    BY <1>3, <2>3, <2>4, <2>5 DEF Tallied
  <2> QED BY <2>4, <2>6, <2>7 DEF Lowered, U
<1>6. CASE T!AtNULL(t, d) /\ Len(d) = Len(n) + 1
  <2>1. w = T!Prune(t, n, d[Len(d)]) /\ n \in DOMAIN t /\ t[n].dense
    BY <1>1, <1>6, ReachedOK DEF T!nn_trie_unsubscribe, T!AtNULL, T!nn_node_next
  <2> HIDE DEF n, U
  <2>2. PruneIn(1, t, n, d[Len(d)], w)
    <3>1. TableOK(1, t, n) /\ Cardinality(T!Kids(t, n)) \in Nat /\ NodeOK(t[n])
      BY <1>1, <2>1, KidsBelow DEF Sound, Tree
    <3>2. Knows(1, t[n].nbr, Cardinality(T!Kids(t, n)) + 1)
      BY <2>1, <3>1 DEF TableOK, Knows, NodeOK
    <3> QED BY <1>1, <1>2, <2>1, <3>1, <3>2 DEF PruneIn, Sound, TableOK
  <2>3. Sound(1, w) /\ Spared(t, w)
    BY <2>2, PruneOK
  <2>4. Ref(w, d) = 0
    BY <2>3 DEF Spared, Changed
  <2> QED BY <1>3, <2>3, <2>4 DEF Lowered, Spared, U
<1> QED BY <1>4, <1>5, <1>6 DEF T!nn_trie_unsubscribe

-----------------------------------------------------------------------------
(* The trie is as it should be, each node counts the subscriptions to its  *)
(* string, which is one of Topic if there are any, but for those that have *)
(* lost a count; and its tables are exact until a string without a count   *)
(* is unsubscribed.                                                        *)
TrieInv ==
  /\ subs \in [Strings -> Nat] /\ stray \in BOOLEAN /\ aborted \in BOOLEAN
  /\ Sound(1, trie) /\ (~stray => Sound(0, trie))
  /\ \A d \in Strings :
       Ref(trie, d) <= subs[d] /\ (d \notin lost => Ref(trie, d) = subs[d])
  /\ \A n \in DOMAIN trie : trie[n].ref > 0 => n \in Strings
  /\ aborted => stray

(* Counts are natural numbers.                                             *)
LEMMA RefNat ==
  ASSUME NEW e, NEW t, Sound(e, t), NEW x
  PROVE  Ref(t, x) \in Nat
BY DEF Sound, Tree, NodeOK, Ref

(* A trie that is exact is so.                                             *)
LEMMA ExactSound ==
  ASSUME NEW t, Sound(0, t)
  PROVE  Sound(1, t)
BY DEF Sound, TableOK, Knows

(* The first trie is empty.                                                *)
LEMMA TrieInit ==
  ASSUME T!Init
  PROVE  TrieInv
<1>1. /\ trie = T!EmptyTrie /\ DOMAIN trie = {} /\ subs = [d \in Strings |-> 0]
      /\ aborted = FALSE /\ stray = FALSE
  BY DEF T!Init, T!EmptyTrie
<1>2. subs \in [Strings -> Nat] /\ \A d \in Strings : Ref(trie, d) = subs[d]
  BY <1>1 DEF Ref
<1>3. trie = [x \in DOMAIN trie |-> trie[x]]
  BY DEF T!Init, T!EmptyTrie
<1>4. Starts(trie) \in [DOMAIN trie -> Nat]
  BY <1>1 DEF Starts
<1>5. Shape(DOMAIN trie, Starts(trie))
  <2>1. IsFiniteSet({})
    BY FS_EmptySet
  <2>2. 0 \in Nat
    OBVIOUS
  <2> QED BY <1>1, <1>4, <2>1, <2>2 DEF Shape
<1>6. Sound(0, trie) /\ Sound(1, trie)
  BY <1>1, <1>3, <1>5 DEF Sound, Tree
<1>7. \A d \in Strings : Ref(trie, d) <= subs[d]
  BY <1>1, <1>2
<1> QED BY <1>1, <1>2, <1>6, <1>7 DEF TrieInv

(* What the user subscribes and unsubscribes keeps this.                   *)
LEMMA TrieStep ==
  ASSUME TrieInv, Strings \subseteq String, Limits, T!Next
  PROVE  TrieInv'
<1>1. /\ subs \in [Strings -> Nat] /\ stray \in BOOLEAN /\ aborted \in BOOLEAN
      /\ Sound(1, trie) /\ (~stray => Sound(0, trie))
      /\ \A d \in Strings :
           Ref(trie, d) <= subs[d] /\ (d \notin lost => Ref(trie, d) = subs[d])
      /\ \A n \in DOMAIN trie : trie[n].ref > 0 => n \in Strings
      /\ aborted => stray
  BY DEF TrieInv
<1>2. \A x : Ref(trie, x) \in Nat
  BY <1>1, RefNat
(* A node that counts is one of Topic when no other one counts more.       *)
<1>3. ASSUME NEW d \in Strings,
             \A x : x # d => Ref(trie', x) <= Ref(trie, x)
                             /\ Ref(trie', x) \in Nat
      PROVE  \A n \in DOMAIN trie' : trie'[n].ref > 0 => n \in Strings
  <2> SUFFICES ASSUME NEW n \in DOMAIN trie', trie'[n].ref > 0, n # d
               PROVE  n \in Strings
    OBVIOUS
  <2>1. Ref(trie', n) = trie'[n].ref /\ Ref(trie', n) <= Ref(trie, n)
        /\ Ref(trie', n) \in Nat
    BY <1>3 DEF Ref
  <2>2. Ref(trie, n) > 0
    BY <1>2, <2>1
  <2>3. n \in DOMAIN trie /\ trie[n].ref > 0
    BY <2>2 DEF Ref
  <2> QED BY <1>1, <2>3
<1>4. ASSUME NEW d \in Strings, T!Subscribe(d)
      PROVE  TrieInv'
  <2>1. /\ trie' = T!nn_trie_subscribe(trie, d)
        /\ subs' = [subs EXCEPT ![d] = subs[d] + 1]
        /\ lost' = lost \cup T!Uncounted(trie, trie')
        /\ aborted' = aborted /\ stray' = stray
    BY <1>4 DEF T!Subscribe
  <2>2. subs' \in [Strings -> Nat] /\ subs'[d] = subs[d] + 1
        /\ \A x \in Strings : x # d => subs'[x] = subs[x]
    BY <1>1, <2>1
  <2>3. d \in String
    OBVIOUS
  <2>4. Sound(1, trie') /\ Tallied(trie, trie', d, Ref(trie, d) + 1)
    BY <1>1, <2>1, <2>3, SubscribeOK
  <2>5. ~stray => Sound(0, trie')
    BY <1>1, <2>1, <2>3, SubscribeOK
  <2>6. ASSUME NEW x, x # d
        PROVE  \/ Ref(trie', x) = Ref(trie, x)
               \/ x \in T!Uncounted(trie, trie') /\ Ref(trie', x) = 0
    BY <1>2, <2>4, <2>6 DEF Tallied, Changed, Ref, T!Uncounted
  <2>7. \A n \in DOMAIN trie' : trie'[n].ref > 0 => n \in Strings
    BY <1>2, <1>3, <2>6
  <2>8. ASSUME NEW x \in Strings
        PROVE  /\ Ref(trie', x) <= subs'[x]
               /\ x \notin lost' => Ref(trie', x) = subs'[x]
    <3>1. /\ Ref(trie, x) <= subs[x]
          /\ x \notin lost => Ref(trie, x) = subs[x]
          /\ subs[x] \in Nat /\ Ref(trie, x) \in Nat
      BY <1>1, <1>2
    <3>2. CASE x = d
      BY <2>1, <2>2, <2>4, <3>1, <3>2 DEF Tallied
    <3>3. CASE x # d
      BY <2>1, <2>2, <2>6, <3>1, <3>3
    <3> QED BY <3>2, <3>3
  <2> QED BY <1>1, <2>1, <2>2, <2>4, <2>5, <2>7, <2>8 DEF TrieInv
<1>5. ASSUME NEW d \in Strings, T!Unsubscribe(d)
      PROVE  TrieInv'
  <2> DEFINE U == T!Uncounted(trie, trie') \cup T!Mistaken(trie, d)
  <2>1. /\ trie' = T!nn_trie_unsubscribe(trie, d) /\ ~T!Crashes(trie, d)
        /\ subs' = [subs EXCEPT ![d] = IF subs[d] > 0 THEN subs[d] - 1 ELSE 0]
        /\ lost' = {x \in lost \cup U : subs'[x] > 0}
        /\ stray' = (stray \/ Ref(trie, d) = 0)
        /\ aborted' = aborted
    BY <1>5 DEF T!Unsubscribe, T!Count, Ref
  <2> HIDE DEF U
  <2>2. /\ (IF subs[d] > 0 THEN subs[d] - 1 ELSE 0) \in Nat
        /\ subs[d] \in Nat /\ d \in String
    BY <1>1
  <2>3. /\ subs' \in [Strings -> Nat]
        /\ subs'[d] = IF subs[d] > 0 THEN subs[d] - 1 ELSE 0
        /\ \A x \in Strings : x # d => subs'[x] = subs[x]
    BY <1>1, <2>1, <2>2
  <2>4. /\ Sound(1, trie') /\ Lowered(trie, trie', d, U)
        /\ ~stray' => Sound(0, trie')
    <3>1. CASE Ref(trie, d) = 0
      BY <1>1, <2>1, <2>2, <3>1, UnsubscribeStray DEF U
    <3>2. CASE Ref(trie, d) # 0
      <4>1. d \in DOMAIN trie /\ trie[d].ref > 0
        BY <1>2, <3>2 DEF Ref
      <4>2. Sound(1, trie') /\ Lowered(trie, trie', d, U)
        BY <1>1, <2>1, <4>1, UnsubscribeCounted DEF U
      <4>3. ~stray => Sound(0, trie')
        BY <1>1, <2>1, <4>1, UnsubscribeCounted
      <4> QED BY <2>1, <4>2, <4>3
    <3> QED BY <3>1, <3>2
  <2>5. \A x : Ref(trie', x) \in Nat
    BY <2>4, RefNat
  <2>6. \A x : x # d => Ref(trie', x) <= Ref(trie, x) /\ Ref(trie', x) \in Nat
    BY <1>2, <2>4, <2>5 DEF Lowered
  <2>7. \A n \in DOMAIN trie' : trie'[n].ref > 0 => n \in Strings
    BY <1>3, <2>6
  <2>8. ASSUME NEW x \in Strings
        PROVE  /\ Ref(trie', x) <= subs'[x]
               /\ x \notin lost' => Ref(trie', x) = subs'[x]
    <3>1. /\ Ref(trie, x) <= subs[x]
          /\ x \notin lost => Ref(trie, x) = subs[x]
          /\ subs[x] \in Nat /\ Ref(trie, x) \in Nat
          /\ Ref(trie', x) \in Nat /\ subs'[x] \in Nat
      BY <1>1, <1>2, <2>3, <2>5
    <3>2. Ref(trie', x) <= subs'[x]
      <4>1. CASE x = d
        BY <2>2, <2>3, <2>4, <3>1, <4>1 DEF Lowered
      <4>2. CASE x # d
        BY <2>3, <2>6, <3>1, <4>2
      <4> QED BY <4>1, <4>2
    <3>3. ASSUME x \notin lost', subs'[x] > 0 PROVE Ref(trie', x) = subs'[x]
      <4>1. x \notin lost /\ x \notin U
        BY <2>1, <3>3
      <4>2. CASE x = d
        BY <2>2, <2>3, <2>4, <3>1, <3>3, <4>1, <4>2 DEF Lowered
      <4>3. CASE x # d
        BY <2>3, <2>4, <3>1, <4>1, <4>3 DEF Lowered
      <4> QED BY <4>2, <4>3
    <3> QED BY <3>1, <3>2, <3>3
  <2> QED BY <1>1, <2>1, <2>3, <2>4, <2>7, <2>8 DEF TrieInv
<1>6. ASSUME NEW d \in Strings, T!UnsubscribeCrash(d)
      PROVE  TrieInv'
  <2>1. /\ trie' = trie /\ subs' = subs /\ lost' = lost /\ aborted' = TRUE
        /\ stray' = (stray \/ Ref(trie, d) = 0) /\ T!Crashes(trie, d)
    BY <1>6 DEF T!UnsubscribeCrash, T!Count, Ref
  <2>2. stray'
    <3> SUFFICES ASSUME ~stray, Ref(trie, d) # 0 PROVE FALSE
      BY <2>1
    <3>1. d \in DOMAIN trie /\ trie[d].ref > 0 /\ Sound(0, trie)
      BY <1>1, <1>2 DEF Ref
    <3> QED BY <2>1, <3>1, UnsubscribeCounted
  <2>3. stray' \in BOOLEAN
    BY <2>1
  <2> QED BY <1>1, <2>1, <2>2, <2>3 DEF TrieInv
<1> QED BY <1>4, <1>5, <1>6 DEF T!Next

(* The counts tell what a message matches.                                 *)
LEMMA TrieRight ==
  ASSUME TrieInv
  PROVE  T!CountsRight /\ T!MatchRight
<1>1. /\ Sound(1, trie) /\ (~stray => Sound(0, trie)) /\ (aborted => stray)
      /\ \A d \in Strings : /\ Ref(trie, d) <= subs[d] /\ subs[d] \in Nat
                            /\ d \notin lost => Ref(trie, d) = subs[d]
      /\ \A n \in DOMAIN trie : trie[n].ref > 0 => n \in Strings
      /\ \A n \in DOMAIN trie : trie[n].ref \in Nat
  BY DEF TrieInv, Sound, Tree, NodeOK
<1>2. \A n \in DOMAIN trie : trie[n].ref > 0 => n \in T!Subscribed
  BY <1>1 DEF T!Subscribed, Ref
<1>3. \A n \in T!Subscribed \ lost : n \in DOMAIN trie /\ trie[n].ref > 0
  BY <1>1 DEF T!Subscribed, Ref
<1>4. \A n \in DOMAIN trie :
        /\ T!Kids(trie, n) = {} => trie[n].ref > 0
        /\ ~stray /\ trie[n].dense => trie[n].nbr = Cardinality(T!Kids(trie, n))
  BY <1>1 DEF Sound, TableOK, Knows
<1>5. \A d \in Strings : T!Count(trie, d) = Ref(trie, d)
  BY DEF T!Count, Ref
<1>6. T!CountsRight
  BY <1>1, <1>4, <1>5, TrieCounts DEF T!CountsRight, T!nn_node_has_subscribers
<1>7. ASSUME NEW d \in Strings
      PROVE  LET results == T!nn_trie_match(trie, d) IN
             /\ (\E s \in T!Subscribed \ lost : T!Prefix(s, d))
                  => results = {TRUE}
             /\ (~\E s \in T!Subscribed : T!Prefix(s, d)) =>
                  \/ results = {FALSE}
                  \/ results = BOOLEAN /\ \E s \in T!Subscribed : T!Prefix(d, s)
  <2> DEFINE way == {n \in DOMAIN trie : T!Prefix(n, d)}
             counts == \E n \in way : trie[n].ref > 0
             behind == d \in way
                       /\ \E m \in DOMAIN trie :
                            T!Prefix(d, m) /\ trie[m].ref > 0
  <2>1. T!nn_trie_match(trie, d) =
          IF counts THEN {TRUE} ELSE IF behind THEN BOOLEAN ELSE {FALSE}
    BY DEF T!nn_trie_match, T!nn_node_has_subscribers
  <2>2. (\E s \in T!Subscribed \ lost : T!Prefix(s, d)) => counts
    BY <1>3
  <2>3. counts => \E s \in T!Subscribed : T!Prefix(s, d)
    BY <1>2
  <2>4. behind => \E s \in T!Subscribed : T!Prefix(d, s)
    BY <1>2
  <2> HIDE DEF counts, behind
  <2> QED BY <2>1, <2>2, <2>3, <2>4
<1>8. T!MatchRight
  BY <1>7 DEF T!MatchRight
<1> QED BY <1>6, <1>8

-----------------------------------------------------------------------------
(* The subscriptions in the composition                                    *)

SubsInv == started = "trie" => TrieInv

(* They are kept.                                                          *)
LEMMA SubscriptionsKept ==
  /\ Init => SubsInv
  /\ SubsInv /\ [Next]_vars => SubsInv'
<1>1. Init => SubsInv
  BY TrieInit DEF Init, SubsInv
<1>2. Strings \subseteq String
  BY DEF Strings, String
<1>3. Limits
  BY TrieAssumption DEF Limits
<1>4. ASSUME TrieInv, UNCHANGED subscriptions
      PROVE  TrieInv'
  BY <1>4 DEF subscriptions, TrieInv
<1>5. ASSUME SubsInv, [Next]_vars, started' = "trie"
      PROVE  TrieInv'
  <2>1. started = "trie" /\ (UNCHANGED subscriptions \/ T!Next)
    BY <1>5 DEF vars, rest, Next, Core, One, Two, Survey, Patterns,
                Subscriptions, Device, Memory
  <2>2. TrieInv
    BY <1>5, <2>1 DEF SubsInv
  <2>3. CASE UNCHANGED subscriptions
    BY <1>4, <2>2, <2>3
  <2>4. CASE T!Next
    BY <1>2, <1>3, <2>2, <2>4, TrieStep
  <2> QED BY <2>1, <2>3, <2>4
<1>6. SubsInv /\ [Next]_vars => SubsInv'
  BY <1>5 DEF SubsInv
<1> QED BY <1>1, <1>6

-----------------------------------------------------------------------------
(* Whatever the user subscribes and unsubscribes: a message that begins    *)
(* with a subscription that has kept its count is taken, and one that      *)
(* begins with none is not, unless one goes on from it (trie.c).           *)
THEOREM SubscriptionsMatch == Spec => []MatchRight
<1>1. SubsInv => MatchRight
  BY TrieRight DEF SubsInv, MatchRight
<1>2. QED
  BY <1>1, SubscriptionsKept, PTL DEF Spec
-----------------------------------------------------------------------------
(* Request/reply: the theorems of ReqRepProofs for the two topologies      *)

Q1 == INSTANCE ReqRepProofs WITH
        Req <- {"a"}, Rep <- {"p", "q"}, Pipe <- OnePipes,
        SndPrio <- [x \in OnePipes |-> 1]
Q2 == INSTANCE ReqRepProofs WITH
        Req <- {"a", "b"}, Rep <- {"p"}, Pipe <- TwoPipes,
        SndPrio <- [x \in TwoPipes |-> 1], MaxReq <- 1, MaxFault <- 0

(* Both instances of ReqRep start alike.                                   *)
LEMMA SameInit1 == R1!Init => Q1!Init
BY DEF R1!Prio, R1!EmptyList, R1!None, R1!Init, Q1!Prio, Q1!EmptyList, Q1!None,
   Q1!Init

(* Both take the same steps: all that a step of ReqRep is made of.         *)
LEMMA SameNext1 == R1!Next => Q1!Next
BY DEF R1!Prio, R1!Elements, R1!Place, R1!Without, R1!Following, R1!FirstFrom,
   R1!nn_priolist_is_active, R1!nn_priolist_getpipe, R1!IsActive,
   R1!nn_priolist_activate, R1!nn_priolist_rm, R1!nn_priolist_advance,
   R1!repVars, R1!None, R1!Terminated, R1!CanSend, R1!Sent, R1!nn_lb_send,
   R1!StopTimer, R1!LeaveActive, R1!ActionSent, R1!nn_req_csend,
   R1!nn_req_crecv, R1!nn_req_inprogress, R1!Replied, R1!nn_req_in,
   R1!InFlight, R1!Timeout, R1!nn_req_shutdown, R1!TimerStopped, R1!Close,
   R1!nn_req_stop, R1!nn_req_out, R1!nn_xrep_add, R1!nn_xrep_rm, R1!nn_xreq_rm,
   R1!nn_req_rm, R1!PipeUp, R1!PipeDown, R1!nn_xrep_in, R1!nn_xrep_recv,
   R1!nn_rep_recv, R1!nn_rep_recv_again,
   R1!Outpipe, R1!nn_xrep_send, R1!nn_rep_send, R1!Next,
   Q1!Prio, Q1!Elements, Q1!Place, Q1!Without, Q1!Following, Q1!FirstFrom,
   Q1!nn_priolist_is_active, Q1!nn_priolist_getpipe, Q1!IsActive,
   Q1!nn_priolist_activate, Q1!nn_priolist_rm, Q1!nn_priolist_advance,
   Q1!repVars, Q1!None, Q1!Terminated, Q1!CanSend, Q1!Sent, Q1!nn_lb_send,
   Q1!StopTimer, Q1!LeaveActive, Q1!ActionSent, Q1!nn_req_csend,
   Q1!nn_req_crecv, Q1!nn_req_inprogress, Q1!Replied, Q1!nn_req_in,
   Q1!InFlight, Q1!Timeout, Q1!nn_req_shutdown, Q1!TimerStopped, Q1!Close,
   Q1!nn_req_stop, Q1!nn_req_out, Q1!nn_xrep_add, Q1!nn_xrep_rm, Q1!nn_xreq_rm,
   Q1!nn_req_rm, Q1!PipeUp, Q1!PipeDown, Q1!nn_xrep_in, Q1!nn_xrep_recv,
   Q1!nn_rep_recv, Q1!nn_rep_recv_again,
   Q1!Outpipe, Q1!nn_xrep_send, Q1!nn_rep_send, Q1!Next

(* Both instances of ReqRep start alike.                                   *)
LEMMA SameInit2 == R2!Init => Q2!Init
BY DEF R2!Prio, R2!EmptyList, R2!None, R2!Init, Q2!Prio, Q2!EmptyList, Q2!None,
   Q2!Init

(* Both take the same steps: all that a step of ReqRep is made of.         *)
LEMMA SameNext2 == R2!Next => Q2!Next
BY DEF R2!Prio, R2!Elements, R2!Place, R2!Without, R2!Following, R2!FirstFrom,
   R2!nn_priolist_is_active, R2!nn_priolist_getpipe, R2!IsActive,
   R2!nn_priolist_activate, R2!nn_priolist_rm, R2!nn_priolist_advance,
   R2!repVars, R2!None, R2!Terminated, R2!CanSend, R2!Sent, R2!nn_lb_send,
   R2!StopTimer, R2!LeaveActive, R2!ActionSent, R2!nn_req_csend,
   R2!nn_req_crecv, R2!nn_req_inprogress, R2!Replied, R2!nn_req_in,
   R2!InFlight, R2!Timeout, R2!nn_req_shutdown, R2!TimerStopped, R2!Close,
   R2!nn_req_stop, R2!nn_req_out, R2!nn_xrep_add, R2!nn_xrep_rm, R2!nn_xreq_rm,
   R2!nn_req_rm, R2!PipeUp, R2!PipeDown, R2!nn_xrep_in, R2!nn_xrep_recv,
   R2!nn_rep_recv, R2!nn_rep_recv_again,
   R2!Outpipe, R2!nn_xrep_send, R2!nn_rep_send, R2!Next,
   Q2!Prio, Q2!Elements, Q2!Place, Q2!Without, Q2!Following, Q2!FirstFrom,
   Q2!nn_priolist_is_active, Q2!nn_priolist_getpipe, Q2!IsActive,
   Q2!nn_priolist_activate, Q2!nn_priolist_rm, Q2!nn_priolist_advance,
   Q2!repVars, Q2!None, Q2!Terminated, Q2!CanSend, Q2!Sent, Q2!nn_lb_send,
   Q2!StopTimer, Q2!LeaveActive, Q2!ActionSent, Q2!nn_req_csend,
   Q2!nn_req_crecv, Q2!nn_req_inprogress, Q2!Replied, Q2!nn_req_in,
   Q2!InFlight, Q2!Timeout, Q2!nn_req_shutdown, Q2!TimerStopped, Q2!Close,
   Q2!nn_req_stop, Q2!nn_req_out, Q2!nn_xrep_add, Q2!nn_xrep_rm, Q2!nn_xreq_rm,
   Q2!nn_req_rm, Q2!PipeUp, Q2!PipeDown, Q2!nn_xrep_in, Q2!nn_xrep_recv,
   Q2!nn_rep_recv, Q2!nn_rep_recv_again,
   Q2!Outpipe, Q2!nn_xrep_send, Q2!nn_rep_send, Q2!Next

(* The two topologies are wired as ReqRepProofs takes them to be.          *)
LEMMA TopologiesWired == Q1!Wired /\ Q2!Wired
<1>1. 1 \in 1 .. SLOTS
  BY PipeAssumption
<1>2. Q1!Wired
  BY <1>1, PipeAssumption DEF Q1!Wired, Q1!Prio, OnePipes
<1>3. Q2!Wired
  BY <1>1, PipeAssumption DEF Q2!Wired, Q2!Prio, TwoPipes
<1>4. QED
  BY <1>2, <1>3

OneInv == started = "one" => Q1!ReqInv
TwoInv == started = "two" => Q2!ReqInv

(* The invariants of request/reply hold in the composition.                *)
LEMMA DialoguesKept ==
  /\ Init => OneInv /\ TwoInv
  /\ OneInv /\ [Next]_vars => OneInv'
  /\ TwoInv /\ [Next]_vars => TwoInv'
<1>1. Init => OneInv
  BY TopologiesWired, SameInit1, Q1!ReqInit DEF Init, OneInv
<1>2. Init => TwoInv
  BY TopologiesWired, SameInit2, Q2!ReqInit DEF Init, TwoInv
<1>3. ASSUME OneInv, [Next]_vars
      PROVE  OneInv'
  <2> SUFFICES ASSUME started' = "one" PROVE (Q1!ReqInv)'
    BY DEF OneInv
  <2>1. started = "one" /\ [R1!Next]_reqrep
    BY <1>3 DEF Next, vars, Core, One, Two, Survey, Patterns,
       Subscriptions, Device, Memory
  <2>2. [Q1!Next]_(Q1!vars) /\ Q1!ReqInv
    BY <1>3, <2>1, SameNext1 DEF OneInv, Q1!vars, reqrep
  <2>3. QED
    BY <2>2, TopologiesWired, Q1!ReqStep
<1>4. ASSUME TwoInv, [Next]_vars
      PROVE  TwoInv'
  <2> SUFFICES ASSUME started' = "two" PROVE (Q2!ReqInv)'
    BY DEF TwoInv
  <2>1. started = "two" /\ [R2!Next]_reqrep
    BY <1>4 DEF Next, vars, Core, One, Two, Survey, Patterns,
       Subscriptions, Device, Memory
  <2>2. [Q2!Next]_(Q2!vars) /\ Q2!ReqInv
    BY <1>4, <2>1, SameNext2 DEF TwoInv, Q2!vars, reqrep
  <2>3. QED
    BY <2>2, TopologiesWired, Q2!ReqStep
<1>5. QED
  BY <1>1, <1>2, <1>3, <1>4

(* What they say of the sockets.                                           *)
LEMMA DialoguesMean ==
  ASSUME OneInv, TwoInv
  PROVE  /\ OwnReply
         /\ started = "one" => R1!NoBadAction
         /\ started = "two" => R2!NoBadAction
<1>1. started = "one" => R1!OwnReply /\ R1!NoBadAction
  BY Q1!ReqMeans DEF OneInv, Q1!OwnReply, R1!OwnReply, Q1!NoBadAction,
     R1!NoBadAction
<1>2. started = "two" => R2!OwnReply /\ R2!NoBadAction
  BY Q2!ReqMeans DEF TwoInv, Q2!OwnReply, R2!OwnReply, Q2!NoBadAction,
     R2!NoBadAction
<1>3. QED
  BY <1>1, <1>2 DEF OwnReply

(* The user of a REQ socket never gets the reply to another request than   *)
(* its last one, through timeouts, cancellations, lost pipes and late      *)
(* replies: the module's theorem, in both topologies of the composition.   *)
THEOREM EveryReplyIsOwn == Spec => []OwnReply
<1>1. OneInv /\ TwoInv => OwnReply
  BY DialoguesMean
<1>2. QED
  BY <1>1, DialoguesKept, PTL DEF Spec
-----------------------------------------------------------------------------
(* Surveys: the theorems of SurveyProofs for the two topologies            *)

V2 == INSTANCE SurveyProofs WITH
        Respondent <- {"r", "s"}, MaxFault <- 0, outpipes <- sOut,
        inpipes <- sIn, up <- sUp, got <- responses, faults <- sFaults
V1 == INSTANCE SurveyProofs WITH
        Respondent <- {"r"}, outpipes <- sOut,
        inpipes <- sIn, up <- sUp, got <- responses, faults <- sFaults

(* Both instances of Survey start alike.                                   *)
LEMMA SurveyInit1 == S1!Init => V1!Init
BY DEF S1!Prio, S1!EmptyList, S1!Init, V1!Prio, V1!EmptyList, V1!Init

(* Both take the same steps: all that a step of Survey is made of.         *)
LEMMA SurveyNext1 == S1!Next => V1!Next
BY DEF S1!Prio, S1!Elements, S1!Place, S1!Without, S1!Following, S1!FirstFrom,
   S1!nn_priolist_is_active, S1!nn_priolist_getpipe, S1!IsActive,
   S1!nn_priolist_activate, S1!nn_priolist_rm, S1!nn_priolist_advance,
   S1!nn_surveyor_inprogress, S1!nn_surveyor_resend, S1!Stopping,
   S1!nn_surveyor_send, S1!Stale, S1!FqTake, S1!nn_surveyor_recv,
   S1!RecvTimedOut, S1!Deadline, S1!nn_surveyor_shutdown, S1!TimerStopped,
   S1!Close, S1!nn_surveyor_stop, S1!nn_xsurveyor_in, S1!nn_xsurveyor_out,
   S1!nn_xsurveyor_add, S1!nn_xsurveyor_rm, S1!nn_xrespondent_add,
   S1!nn_xrespondent_rm, S1!PipeUp, S1!PipeDown, S1!nn_xrespondent_in,
   S1!nn_xrespondent_out, S1!nn_xrespondent_recv, S1!nn_respondent_recv,
   S1!nn_respondent_recv_again,
   S1!nn_xrespondent_send, S1!nn_respondent_send, S1!Next, S1!Cardinality,
   V1!Prio, V1!Elements, V1!Place, V1!Without, V1!Following, V1!FirstFrom,
   V1!nn_priolist_is_active, V1!nn_priolist_getpipe, V1!IsActive,
   V1!nn_priolist_activate, V1!nn_priolist_rm, V1!nn_priolist_advance,
   V1!nn_surveyor_inprogress, V1!nn_surveyor_resend, V1!Stopping,
   V1!nn_surveyor_send, V1!Stale, V1!FqTake, V1!nn_surveyor_recv,
   V1!RecvTimedOut, V1!Deadline, V1!nn_surveyor_shutdown, V1!TimerStopped,
   V1!Close, V1!nn_surveyor_stop, V1!nn_xsurveyor_in, V1!nn_xsurveyor_out,
   V1!nn_xsurveyor_add, V1!nn_xsurveyor_rm, V1!nn_xrespondent_add,
   V1!nn_xrespondent_rm, V1!PipeUp, V1!PipeDown, V1!nn_xrespondent_in,
   V1!nn_xrespondent_out, V1!nn_xrespondent_recv, V1!nn_respondent_recv,
   V1!nn_respondent_recv_again,
   V1!nn_xrespondent_send, V1!nn_respondent_send, V1!Next, V1!Cardinality

(* Both instances of Survey start alike.                                   *)
LEMMA SurveyInit2 == S2!Init => V2!Init
BY DEF S2!Prio, S2!EmptyList, S2!Init, V2!Prio, V2!EmptyList, V2!Init

(* Both take the same steps: all that a step of Survey is made of.         *)
LEMMA SurveyNext2 == S2!Next => V2!Next
BY DEF S2!Prio, S2!Elements, S2!Place, S2!Without, S2!Following, S2!FirstFrom,
   S2!nn_priolist_is_active, S2!nn_priolist_getpipe, S2!IsActive,
   S2!nn_priolist_activate, S2!nn_priolist_rm, S2!nn_priolist_advance,
   S2!nn_surveyor_inprogress, S2!nn_surveyor_resend, S2!Stopping,
   S2!nn_surveyor_send, S2!Stale, S2!FqTake, S2!nn_surveyor_recv,
   S2!RecvTimedOut, S2!Deadline, S2!nn_surveyor_shutdown, S2!TimerStopped,
   S2!Close, S2!nn_surveyor_stop, S2!nn_xsurveyor_in, S2!nn_xsurveyor_out,
   S2!nn_xsurveyor_add, S2!nn_xsurveyor_rm, S2!nn_xrespondent_add,
   S2!nn_xrespondent_rm, S2!PipeUp, S2!PipeDown, S2!nn_xrespondent_in,
   S2!nn_xrespondent_out, S2!nn_xrespondent_recv, S2!nn_respondent_recv,
   S2!nn_respondent_recv_again,
   S2!nn_xrespondent_send, S2!nn_respondent_send, S2!Next, S2!Cardinality,
   V2!Prio, V2!Elements, V2!Place, V2!Without, V2!Following, V2!FirstFrom,
   V2!nn_priolist_is_active, V2!nn_priolist_getpipe, V2!IsActive,
   V2!nn_priolist_activate, V2!nn_priolist_rm, V2!nn_priolist_advance,
   V2!nn_surveyor_inprogress, V2!nn_surveyor_resend, V2!Stopping,
   V2!nn_surveyor_send, V2!Stale, V2!FqTake, V2!nn_surveyor_recv,
   V2!RecvTimedOut, V2!Deadline, V2!nn_surveyor_shutdown, V2!TimerStopped,
   V2!Close, V2!nn_surveyor_stop, V2!nn_xsurveyor_in, V2!nn_xsurveyor_out,
   V2!nn_xsurveyor_add, V2!nn_xsurveyor_rm, V2!nn_xrespondent_add,
   V2!nn_xrespondent_rm, V2!PipeUp, V2!PipeDown, V2!nn_xrespondent_in,
   V2!nn_xrespondent_out, V2!nn_xrespondent_recv, V2!nn_respondent_recv,
   V2!nn_respondent_recv_again,
   V2!nn_xrespondent_send, V2!nn_respondent_send, V2!Next, V2!Cardinality

(* Both topologies are as SurveyProofs takes them to be.                   *)
LEMMA SurveysFit == V1!Fit /\ V2!Fit
<1>1. IsFiniteSet({"r"}) /\ IsFiniteSet({"r", "s"})
  BY FS_EmptySet, FS_AddElement, FS_Singleton
<1>2. V1!IsFiniteSet({"r"})
  BY <1>1, Zenon DEF V1!IsFiniteSet, IsFiniteSet
<1>3. V2!IsFiniteSet({"r", "s"})
  BY <1>1, Zenon DEF V2!IsFiniteSet, IsFiniteSet
<1>4. V1!Fit
  BY <1>2, PipeAssumption DEF V1!Fit
<1>5. V2!Fit
  BY <1>3, PipeAssumption DEF V2!Fit
<1>6. QED
  BY <1>4, <1>5

SurveyInvs ==
  /\ started = "survey1" => V1!SurveyInv
  /\ started = "survey2" => V2!SurveyInv

(* The invariants of the surveys hold in the composition.                  *)
LEMMA SurveysKept ==
  /\ Init => SurveyInvs
  /\ SurveyInvs /\ [Next]_vars => SurveyInvs'
<1>1. Init => SurveyInvs
  BY SurveysFit, SurveyInit1, SurveyInit2, V1!SurveyInit, V2!SurveyInit
     DEF Init, SurveyInvs
<1>2. ASSUME SurveyInvs, [Next]_vars, started' = "survey1"
      PROVE  (V1!SurveyInv)'
  <2>1. started = "survey1" /\ [S1!Next]_survey
    BY <1>2 DEF Next, vars, Core, One, Two, Survey, Patterns,
       Subscriptions, Device, Memory
  <2>2. [V1!Next]_(V1!vars) /\ V1!SurveyInv
    BY <1>2, <2>1, SurveyNext1 DEF SurveyInvs, V1!vars, survey
  <2>3. QED
    BY <2>2, SurveysFit, V1!SurveyStep
<1>3. ASSUME SurveyInvs, [Next]_vars, started' = "survey2"
      PROVE  (V2!SurveyInv)'
  <2>1. started = "survey2" /\ [S2!Next]_survey
    BY <1>3 DEF Next, vars, Core, One, Two, Survey, Patterns,
       Subscriptions, Device, Memory
  <2>2. [V2!Next]_(V2!vars) /\ V2!SurveyInv
    BY <1>3, <2>1, SurveyNext2 DEF SurveyInvs, V2!vars, survey
  <2>3. QED
    BY <2>2, SurveysFit, V2!SurveyStep
<1>4. SurveyInvs /\ [Next]_vars => SurveyInvs'
  BY <1>2, <1>3 DEF SurveyInvs
<1>5. QED
  BY <1>1, <1>4

(* What they say of the surveyor and of its user.                          *)
LEMMA SurveysMean ==
  ASSUME SurveyInvs
  PROVE  /\ OwnResponses
         /\ started = "survey1" => S1!SurveyorStates
         /\ started = "survey2" => S2!SurveyorStates
<1>1. started = "survey1" => S1!OwnResponses /\ S1!SurveyorStates
  BY V1!SurveyMeans DEF SurveyInvs, V1!OwnResponses, S1!OwnResponses,
     V1!SurveyorStates, S1!SurveyorStates
<1>2. started = "survey2" => S2!OwnResponses /\ S2!SurveyorStates
  BY V2!SurveyMeans DEF SurveyInvs, V2!OwnResponses, S2!OwnResponses,
     V2!SurveyorStates, S2!SurveyorStates
<1>3. QED
  BY <1>1, <1>2 DEF OwnResponses

(* The user of a SURVEYOR socket gets one response of each respondent at   *)
(* most, to its last survey only: the theorem of SurveyProofs, in both     *)
(* topologies of the composition.                                          *)
THEOREM EveryResponseIsOwn == Spec => []OwnResponses
<1>1. SurveyInvs => OwnResponses
  BY SurveysMean
<1>2. QED
  BY <1>1, SurveysKept, PTL DEF Spec

-----------------------------------------------------------------------------
(* No state machine of the sockets meets an event it has no case for, no   *)
(* assertion fails, and no call uses a socket or a chunk that is gone, when*)
(* nn_bind, nn_connect and the options are not called beside the nn_close  *)
(* of the same socket (sock.c, req.c, surveyor.c, device.c, chunk.c).      *)
THEOREM NothingIsBad == Careful => (Spec => []NoBadAction)
<1> SUFFICES ASSUME Careful PROVE Spec => []NoBadAction
  OBVIOUS
<1>1. Spec => [](C!NoBadEvent)
  BY CoreBehaves, NoEventIsBad, PTL
<1>2. /\ C!NoBadEvent /\ OneInv /\ TwoInv /\ SurveyInvs /\ DevInv /\ MemInv
      => NoBadAction
  BY DialoguesMean, SurveysMean, DevicesMean, MemoryMeans DEF NoBadAction
<1>3. QED
  BY <1>1, <1>2, DialoguesKept, SurveysKept, DevicesKept, MemoryKept, PTL
     DEF Spec
-----------------------------------------------------------------------------
(* The other patterns: the theorems of PatternsProofs for the topologies   *)

W == INSTANCE PatternsProofs WITH
       Kind <- Kinds, Nets <- AllNets, PipePrio <- Prios,
       Topics <- {"t", "u"}, Wanted <- {"t"}, MaxMsg <- Sends,
       Cap <- 2,
       up <- pUp, lb <- pLb, faults <- pFaults

(* Both instances of Patterns start alike.                                 *)
LEMMA PatternsInit == P!Init => W!Init
BY DEF P!Prio, P!EmptyList, P!Socket, P!Dir, P!NoMsg, P!Init, W!Prio,
   W!EmptyList, W!Socket, W!Dir, W!NoMsg, W!Init

(* Both take the same steps: all that a step of Patterns is made of.       *)
LEMMA PatternsNext == P!Next => W!Next
BY DEF P!Prio, P!Elements, P!Place, P!Without, P!Following, P!FirstFrom,
   P!nn_priolist_is_active, P!nn_priolist_getpipe, P!IsActive,
   P!nn_priolist_activate, P!nn_priolist_rm, P!nn_priolist_advance, P!Socket,
   P!Dir, P!Spreads, P!Queues, P!Carries, P!NoMsg, P!nn_dist_out, P!nn_lb_out,
   P!nn_lb_rm, P!nn_fq_in, P!nn_fq_rm, P!nn_excl_add, P!nn_excl_rm,
   P!nn_dist_send, P!Ends, P!nn_xpub_add, P!nn_xpub_rm, P!nn_xsub_rm,
   P!nn_xpush_add, P!nn_xpush_rm, P!nn_xpair_add, P!nn_xpair_rm, P!Dangling,
   P!Allocated, P!Freed, P!Connect, P!Disconnect, P!In, P!Ready, P!Out,
   P!Message, P!CountSent, P!nn_xpub_send, P!nn_bus_send, P!nn_xbus_send,
   P!nn_xpush_send, P!PairDir, P!nn_xpair_send, P!FqTake, P!nn_xpull_recv,
   P!nn_xsub_recv, P!nn_xbus_recv, P!nn_xpair_recv, P!Recv, P!Next,
   P!Cardinality, W!Prio, W!Elements, W!Place, W!Without, W!Following,
   W!FirstFrom, W!nn_priolist_is_active, W!nn_priolist_getpipe, W!IsActive,
   W!nn_priolist_activate, W!nn_priolist_rm, W!nn_priolist_advance, W!Socket,
   W!Dir, W!Spreads, W!Queues, W!Carries, W!NoMsg, W!nn_dist_out, W!nn_lb_out,
   W!nn_lb_rm, W!nn_fq_in, W!nn_fq_rm, W!nn_excl_add, W!nn_excl_rm,
   W!nn_dist_send, W!Ends, W!nn_xpub_add, W!nn_xpub_rm, W!nn_xsub_rm,
   W!nn_xpush_add, W!nn_xpush_rm, W!nn_xpair_add, W!nn_xpair_rm, W!Dangling,
   W!Allocated, W!Freed, W!Connect, W!Disconnect, W!In, W!Ready, W!Out,
   W!Message, W!CountSent, W!nn_xpub_send, W!nn_bus_send, W!nn_xbus_send,
   W!nn_xpush_send, W!PairDir, W!nn_xpair_send, W!FqTake, W!nn_xpull_recv,
   W!nn_xsub_recv, W!nn_xbus_recv, W!nn_xpair_recv, W!Recv, W!Next,
   W!Cardinality

(* Seven elements.                                                         *)
LEMMA SevenFinite ==
  ASSUME NEW a, NEW b, NEW c, NEW d, NEW e, NEW f, NEW g
  PROVE  IsFiniteSet({a, b, c, d, e, f, g})
<1> DEFINE S == {a, b, c}
           T3 == {d, e, f}
<1>1. \A i, j, k : IsFiniteSet({i, j, k})
  <2> SUFFICES ASSUME NEW i, NEW j, NEW k PROVE IsFiniteSet({i, j, k})
    OBVIOUS
  <2>1. IsFiniteSet({i})
    BY FS_Singleton
  <2>2. IsFiniteSet({i} \cup {j})
    BY <2>1, FS_AddElement
  <2>3. IsFiniteSet(({i} \cup {j}) \cup {k})
    BY <2>2, FS_AddElement
  <2>4. {i, j, k} = ({i} \cup {j}) \cup {k}
    OBVIOUS
  <2> QED BY <2>3, <2>4
<1>2. IsFiniteSet(S) /\ IsFiniteSet(T3)
  BY <1>1
<1>3. {a, b, c, d, e, f, g} = (S \cup T3) \cup {g}
  OBVIOUS
<1> HIDE DEF S, T3
<1>4. IsFiniteSet(S \cup T3)
  BY <1>2, FS_Union
<1>5. IsFiniteSet((S \cup T3) \cup {g})
  BY <1>4, FS_AddElement
<1> QED BY <1>3, <1>5

(* The topologies are wired as PatternsProofs takes them to be.            *)
LEMMA PatternsWired == W!Wired
<1> DEFINE K == DOMAIN Kinds
           N == UNION AllNets
           H == DOMAIN Prios
<1>1. K = {"p", "q", "s", "b", "c", "d", "h"}
            \cup {"g", "l", "m", "n", "x", "y", "z"}
  BY DEF Kinds
<1>2. /\ H = {y \in K \X K : {y[1], y[2]} \in N}
      /\ \A x \in H : Prios[x] \in {1, 2}
  BY DEF Prios
<1>3. W!Socket = K /\ W!Dir = H /\ {1, 2} \subseteq W!Prio
  BY PipeAssumption, PatternAssumption DEF W!Socket, W!Dir, W!Prio
<1>4. IsFiniteSet(H)
  <2>1. IsFiniteSet(K)
    <3> DEFINE S == {"p", "q", "s", "b", "c", "d", "h"}
               U == {"g", "l", "m", "n", "x", "y", "z"}
    <3>1. IsFiniteSet(S) /\ IsFiniteSet(U)
      BY SevenFinite
    <3>2. K = S \cup U
      BY <1>1
    <3> HIDE DEF S, U, K
    <3> QED BY <3>1, <3>2, FS_Union
  <2> HIDE DEF K
  <2>2. IsFiniteSet(K \X K)
    BY <2>1, FS_Product
  <2>3. H \subseteq K \X K
    BY <1>2
  <2> HIDE DEF H
  <2> QED BY <2>2, <2>3, FS_Subset
<1>5. W!IsFiniteSet(H)
  BY <1>4, Zenon DEF W!IsFiniteSet, IsFiniteSet
<1>6. /\ H \subseteq K \X K
      /\ \A a, b \in K : {a, b} \in N => <<a, b>> \in H /\ <<b, a>> \in H
  <2>1. \A a, b \in K : {a, b} = {b, a}
    OBVIOUS
  <2> HIDE DEF K, N, H
  <2> QED BY <1>2, <2>1
<1>7. ASSUME NEW e \in N
      PROVE  \E a, b \in K : /\ a # b /\ e = {a, b}
                             /\ <<Kinds[a], Kinds[b]>> \in W!Mates
  <2>1. \/ e = {"p", "s"} \/ e = {"q", "s"} \/ e = {"b", "d"}
        \/ e = {"c", "d"} \/ e = {"h", "l"} \/ e = {"h", "m"}
        \/ e = {"g", "l"} \/ e = {"g", "n"} \/ e = {"x", "y"}
        \/ e = {"x", "z"}
    BY <1>7 DEF AllNets
  <2>2. /\ Kinds["p"] = "PUB" /\ Kinds["q"] = "PUB" /\ Kinds["s"] = "SUB"
        /\ Kinds["b"] = "BUS" /\ Kinds["c"] = "BUS" /\ Kinds["d"] = "DEV"
        /\ Kinds["h"] = "PUSH" /\ Kinds["g"] = "PUSH" /\ Kinds["l"] = "PULL"
        /\ Kinds["m"] = "PULL" /\ Kinds["n"] = "PULL" /\ Kinds["x"] = "PAIR"
        /\ Kinds["y"] = "PAIR" /\ Kinds["z"] = "PAIR"
    BY DEF Kinds
  <2> HIDE DEF K, N
  <2>3. CASE e = {"p", "s"} \/ e = {"q", "s"}
    BY <1>1, <2>2, <2>3 DEF W!Mates
  <2>4. CASE e = {"b", "d"} \/ e = {"c", "d"}
    BY <1>1, <2>2, <2>4 DEF W!Mates
  <2>5. CASE e = {"h", "l"} \/ e = {"h", "m"}
    BY <1>1, <2>2, <2>5 DEF W!Mates
  <2>6. CASE e = {"g", "l"} \/ e = {"g", "n"}
    BY <1>1, <2>2, <2>6 DEF W!Mates
  <2>7. CASE e = {"x", "y"} \/ e = {"x", "z"}
    BY <1>1, <2>2, <2>7 DEF W!Mates
  <2> QED BY <2>1, <2>3, <2>4, <2>5, <2>6, <2>7
<1>8. ASSUME NEW d \in K, Kinds[d] = "DEV"
      PROVE  \A n \in AllNets : \A e, f \in n : d \in e => d \in f
  <2>1. d = "d"
    BY <1>1, <1>8 DEF Kinds
  <2> QED BY <2>1 DEF AllNets
<1>9. NoPipe \notin H /\ \A e \in N : e # NoPipe
  BY PatternAssumption
<1>10. \A n \in AllNets : \A e \in n : e \in N
  OBVIOUS
<1> HIDE DEF K, N, H
<1>11. ASSUME NEW e \in N PROVE W!Link(e)
  <2>1. PICK a, b \in K : /\ a # b /\ e = {a, b}
                          /\ <<Kinds[a], Kinds[b]>> \in W!Mates
    BY <1>7
  <2>2. <<a, b>> \in H /\ <<b, a>> \in H
    BY <1>6, <2>1
  <2> QED BY <1>3, <2>1, <2>2 DEF W!Link
<1>12. /\ SLOTS \in Nat \ {0} /\ 2 \in Nat \ {0}
       /\ \A x \in H : Prios[x] \in W!Prio
  BY <1>2, <1>3, PipeAssumption
<1> QED
  BY <1>3, <1>5, <1>6, <1>8, <1>9, <1>10, <1>11, <1>12 DEF W!Wired

(* The invariant of the patterns holds in the composition.                 *)
PatternsInv == started = "patterns" => W!PatInv

(* It holds at the start, and every step keeps it.                         *)
LEMMA PatternsKept ==
  /\ Init => PatternsInv
  /\ PatternsInv /\ [Next]_vars => PatternsInv'
<1>1. Init => PatternsInv
  BY PatternsWired, PatternsInit, W!PatInit DEF Init, PatternsInv
<1>2. ASSUME PatternsInv, [Next]_vars, started' = "patterns"
      PROVE  (W!PatInv)'
  <2>1. started = "patterns" /\ [P!Next]_patterns
    BY <1>2 DEF Next, vars, Core, One, Two, Survey, Patterns,
       Subscriptions, Device, Memory
  <2>2. [W!Next]_(W!vars) /\ W!PatInv
    BY <1>2, <2>1, PatternsNext DEF PatternsInv, W!vars, patterns
  <2>3. QED
    BY <2>2, PatternsWired, W!PatNext
<1>3. QED
  BY <1>1, <1>2 DEF PatternsInv

(* What it says of the sockets and their lists.                            *)
LEMMA PatternsMean ==
  ASSUME PatternsInv
  PROVE  /\ started = "patterns" => P!OnceInOrder
         /\ Balanced
<1>1. W!OnceInOrder => P!OnceInOrder
  BY DEF W!OnceInOrder, P!OnceInOrder, W!Socket, P!Socket
<1>2. W!Balanced => P!Balanced
  BY DEF W!Balanced, P!Balanced, W!Socket, P!Socket, W!Dir, P!Dir,
     W!PrioListOK, P!PrioListOK, W!FirstFrom, P!FirstFrom, W!Prio, P!Prio,
     W!Elements, P!Elements, W!IsActive, P!IsActive, W!Ready, P!Ready,
     W!Pipes, P!Pipes, W!Cardinality, P!Cardinality
<1>3. QED
  BY <1>1, <1>2, PatternsWired, W!PatOrder, W!PatBalance
     DEF PatternsInv, Balanced
-----------------------------------------------------------------------------
(* Messages arrive once and in the order in which they were sent, through  *)
(* every pattern and through a device: dist.c, lb.c, fq.c, excl.c, xbus.c  *)
(* and device.c.                                                           *)
THEOREM EveryMessageOnce == Spec => []OnceInOrder
<1>1. PatternsInv /\ DevInv /\ FwdInv => OnceInOrder
  BY PatternsMean, ForwardersMean DEF OnceInOrder
<1>2. QED
  BY <1>1, PatternsKept, DevicesKept, ForwardersKept, PTL DEF Spec

(* The lists of pipes are in step with the pipes, and two pipes of a PUSH  *)
(* socket take turns (priolist.c, lb.c, fq.c, dist.c, excl.c).             *)
THEOREM PipesAreBalanced == Spec => []Balanced
<1>1. PatternsInv => Balanced
  BY PatternsMean
<1>2. QED
  BY <1>1, PatternsKept, PTL DEF Spec

=============================================================================

