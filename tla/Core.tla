-------------------------------- MODULE Core --------------------------------
(***************************************************************************)
(* The core of nanomsg: the table of sockets (core/global.c), the sockets  *)
(* (core/sock.c) with their endpoints (core/ep.c) and the file descriptors *)
(* a blocked call waits on (utils/efd.c), used by several threads.         *)
(*                                                                         *)
(* The global lock and a socket's context lock make the actions: what runs *)
(* under one lock is one action, with the nn_sock_onleave that ends every  *)
(* stay in a context.  Of a socket's protocol, its pipes and its           *)
(* transports only what the core sees remains: which directions are ready, *)
(* that an endpoint asked to stop stops, and whether the protocol stops at *)
(* once or later.                                                          *)
(***************************************************************************)
EXTENDS Naturals, FiniteSets

CONSTANTS
  Thread,
  Main,          \* the thread that calls nn_term and nn_init
  MAX_SOCKETS,   \* NN_MAX_SOCKETS
  MaxSock,       \* bound on the sockets ever created
  MaxEp,         \* bound on the endpoints of a socket
  Lazy,          \* the sockets whose protocol stops later (req, surveyor)
  MaxCall,       \* bound on the calls of each thread
  Beside         \* the calls that may be inside a socket that is closed

Slot == 0 .. MAX_SOCKETS - 1
Obj == 1 .. MaxSock      \* struct nn_sock, numbered as they are allocated
Dir == {"in", "out"}     \* nn_recvmsg and nn_sendmsg, rcvfd and sndfd

VARIABLES
  glob,    \* struct nn_global
  sock,    \* the sockets allocated so far
  thr,     \* the call each thread is in
  calls

vars == <<glob, sock, thr, calls>>

Unborn == [state |-> "NONE", lazy |-> FALSE, holds |-> 0, eps |-> {},
           sdeps |-> {}, eid |-> 1, term |-> 0, rele |-> 0,
           fd |-> [d \in Dir |-> "closed"], flags |-> {}, ready |-> {},
           bad |-> {}]

Idle == [pc |-> "idle", op |-> "none", obj |-> 1, slot |-> 0, scan |-> 0]

Unused == [live |-> FALSE, socks |-> [s \in Slot |-> 0],
           unused |-> [s \in Slot |-> 0], nsocks |-> 0, flags |-> {}]

Init ==
  /\ glob = Unused
  /\ sock = [o \in Obj |-> Unborn]
  /\ thr = [t \in Thread |-> Idle]
  /\ calls = [t \in Thread |-> 0]

-----------------------------------------------------------------------------
(* The socket table.                                                       *)

nn_global_init(g) ==
  IF g.live THEN g
  ELSE [live |-> TRUE, socks |-> [s \in Slot |-> 0],
        unused |-> [i \in Slot |-> MAX_SOCKETS - i - 1], nsocks |-> 0,
        flags |-> {}]

(* Without a socket the global state is freed; its flags remain.           *)
nn_global_term(g) ==
  IF g.nsocks > 0 THEN g ELSE [Unused EXCEPT !.flags = g.flags]

(* nn_global_create_socket: the slot on top of the stack.                  *)
nn_global_create_socket(g, o) ==
  [g EXCEPT !.socks[g.unused[MAX_SOCKETS - g.nsocks - 1]] = o,
            !.nsocks = @ + 1]

(* A variant with a slip: the slot goes back below the top of the stack.   *)
nn_close_slotLow(g, s) ==
  nn_global_term([g EXCEPT !.socks[s] = 0,
                           !.unused[MAX_SOCKETS - g.nsocks - 1] = s,
                           !.nsocks = @ - 1])

(* The last part of nn_close: the slot returns to the stack.               *)
nn_close_slot(g, s) ==
  nn_global_term([g EXCEPT !.socks[s] = 0,
                           !.unused[MAX_SOCKETS - g.nsocks] = s,
                           !.nsocks = @ - 1])

(* nn_global_hold_socket_locked and nn_sock_hold succeed.                  *)
Holdable(s) ==
  /\ glob.live
  /\ glob.socks[s] # 0
  /\ sock[glob.socks[s]].state = "ACTIVE"

-----------------------------------------------------------------------------
(* A socket.                                                               *)

Fail(r, what) == [r EXCEPT !.bad = @ \cup {what}]

(* nn_sock_init, with the hold of its creator.                             *)
nn_sock_init ==
  [Unborn EXCEPT !.state = "ACTIVE", !.holds = 1,
                 !.fd = [d \in Dir |-> "off"]]

(* A variant with a slip: the flag is raised without the signal.           *)
nn_sock_onleaveQuiet(r) ==
  IF r.state # "ACTIVE" THEN r
  ELSE [r EXCEPT !.flags = r.ready,
                 !.fd = [d \in Dir |-> IF d \in r.ready THEN @[d] ELSE "off"]]

(* nn_sock_onleave: signal what became ready, unsignal what is not.  An    *)
(* eventfd that is not signalled cannot be unsignalled: the read fails.    *)
nn_sock_onleave(r) ==
  LET lost == r.flags \ r.ready
      on == [r EXCEPT
        !.flags = r.ready,
        !.fd = [d \in Dir |-> IF d \in r.ready \ r.flags THEN "on"
                              ELSE IF d \in lost THEN "off" ELSE @[d]]]
  IN IF r.state # "ACTIVE" THEN r
     ELSE IF \E d \in lost : r.fd[d] # "on" THEN Fail(r, "unsignal") ELSE on

(* finish1 of nn_sock_shutdown: the protocol is destroyed, the event fds   *)
(* are closed, nn_close may go on.                                         *)
Finish1(r) ==
  [r EXCEPT !.state = "FINI", !.fd = [d \in Dir |-> "closed"],
            !.ready = {}, !.term = @ + 1]

(* finish2: when no endpoint is left the protocol is stopped.              *)
Finish2(r) ==
  IF r.sdeps # {} THEN r
  ELSE IF r.eps # {} THEN Fail(r, "eps not empty")
  ELSE IF r.lazy THEN [r EXCEPT !.state = "STOPPING"]
  ELSE Finish1(r)

(* NN_FSM_STOP of nn_sock_shutdown: both event fds are signalled and the   *)
(* endpoints are asked to stop.                                            *)
StopEndpoints(r) ==
  Finish2([r EXCEPT !.fd = [d \in Dir |-> "on"], !.eps = {},
                    !.sdeps = @ \cup r.eps, !.state = "STOPPING_EPS"])

nn_sock_stop(r) ==
  IF r.state # "ACTIVE" THEN Fail(r, "stop") ELSE StopEndpoints(r)

(* A new endpoint under the next id, started at once.                      *)
nn_ep_init(r) == [r EXCEPT !.eps = @ \cup {r.eid}, !.eid = @ + 1]

(* Endpoint e is asked to stop and leaves the list of the endpoints.       *)
nn_ep_stop(r, e) == [r EXCEPT !.eps = @ \ {e}, !.sdeps = @ \cup {e}]

(* NN_EP_STOPPED of endpoint e, in nn_sock_handler and nn_sock_shutdown.   *)
nn_ep_stopped(r, e) ==
  LET q == [r EXCEPT !.sdeps = @ \ {e}]
  IN CASE r.state = "ACTIVE" -> q
       [] r.state = "STOPPING_EPS" -> Finish2(q)
       [] OTHER -> Fail(r, "ep stopped")

nn_sock_hold(r) == [r EXCEPT !.holds = @ + 1]

(* A variant with a slip: the release that reaches zero posts nothing.     *)
nn_sock_releSilent(r) == [r EXCEPT !.holds = @ - 1]

nn_sock_rele(r) ==
  [r EXCEPT !.holds = @ - 1, !.rele = @ + (IF r.holds = 1 THEN 1 ELSE 0)]

-----------------------------------------------------------------------------
(* Calls.  A call that fails at once, with EBADF or ETERM or for its       *)
(* arguments, changes nothing.                                             *)

Begin(t) ==
  /\ \A o \in Obj : sock[o].bad = {}
  /\ thr[t].pc = "idle"
  /\ calls[t] < MaxCall[t]
  /\ calls' = [calls EXCEPT ![t] = @ + 1]

(* nn_socket, or a failure of it.                                          *)
nn_socket(t) ==
  /\ Begin(t)
  /\ glob.flags = {}
  /\ \/ LET g == nn_global_init(glob)
            o == Cardinality({p \in Obj : sock[p].state # "NONE"}) + 1
        IN /\ o <= MaxSock
           /\ g.nsocks < MAX_SOCKETS
           /\ glob' = nn_global_create_socket(g, o)
           /\ sock' = [sock EXCEPT ![o] = [nn_sock_init EXCEPT
                                             !.lazy = o \in Lazy]]
     \/ /\ glob' = nn_global_term(nn_global_init(glob))
        /\ UNCHANGED sock
  /\ UNCHANGED thr

(* The other calls begin with a hold of the socket in slot s.              *)
nn_global_hold_socket(t, op, s) ==
  /\ Begin(t)
  /\ Holdable(s)
  /\ LET o == glob.socks[s]
     IN /\ sock' = [sock EXCEPT ![o] = nn_sock_hold(@)]
        /\ thr' = [thr EXCEPT ![t].pc = "held", ![t].op = op, ![t].obj = o]
  /\ UNCHANGED glob

(* For the core nn_bind and nn_connect do the same, and so do nn_setsockopt *)
(* and nn_getsockopt.                                                      *)
nn_bind(t, s) == nn_global_hold_socket(t, "bind", s)
nn_connect(t, s) == nn_global_hold_socket(t, "bind", s)
nn_shutdown(t, s) == nn_global_hold_socket(t, "shutdown", s)
nn_setsockopt(t, s) == nn_global_hold_socket(t, "option", s)
nn_getsockopt(t, s) == nn_global_hold_socket(t, "option", s)
nn_sendmsg(t, s) == nn_global_hold_socket(t, "out", s)
nn_recvmsg(t, s) == nn_global_hold_socket(t, "in", s)

(* What thread t does with its socket in one stay in the context: r is the *)
(* socket after it, pc where the call continues.                           *)
InCtx(t, r, pc) ==
  /\ sock[thr[t].obj].bad = {}
  /\ sock' = [sock EXCEPT ![thr[t].obj] =
                IF @.state = "FREED" THEN Fail(@, "freed")
                ELSE nn_sock_onleave(r)]
  /\ thr' = [thr EXCEPT ![t].pc = pc]
  /\ UNCHANGED <<glob, calls>>

(* nn_sock_add_ep does not look at the state of the socket.                *)
nn_sock_add_ep(t) ==
  LET r == sock[thr[t].obj]
  IN /\ thr[t].pc = "held" /\ thr[t].op = "bind"
     /\ r.eid <= MaxEp
     /\ InCtx(t, nn_ep_init(r), "rele")

(* nn_global_create_ep or the transport refuses the address.               *)
nn_global_create_ep(t) ==
  /\ thr[t].pc = "held" /\ thr[t].op = "bind"
  /\ InCtx(t, sock[thr[t].obj], "rele")

(* nn_sock_rm_ep of endpoint e, or of one that does not exist.             *)
nn_sock_rm_ep(t) ==
  LET r == sock[thr[t].obj]
  IN /\ thr[t].pc = "held" /\ thr[t].op = "shutdown"
     /\ \E e \in 1 .. MaxEp :
          InCtx(t, IF e \in r.eps THEN nn_ep_stop(r, e) ELSE r, "rele")

(* What nn_sock_setopt and nn_sock_getopt share: they ask the protocol.    *)
Option(t) ==
  LET r == sock[thr[t].obj]
  IN /\ thr[t].pc = "held" /\ thr[t].op = "option"
     /\ InCtx(t, IF r.state = "FINI" THEN Fail(r, "protocol gone") ELSE r,
              "rele")

nn_sock_setopt(t) == Option(t)
nn_sock_getopt(t) == Option(t)

(* The loop of nn_sock_recv and nn_sock_send from where the context is     *)
(* entered to where it is left: on a second round the flag is set again    *)
(* when the fd is signalled.                                               *)
Try(t, d) ==
  LET r == sock[thr[t].obj]
      q == IF thr[t].pc = "woken" /\ r.fd[d] = "on"
           THEN [r EXCEPT !.flags = @ \cup {d}] ELSE r
  IN /\ thr[t].pc \in {"held", "woken"} /\ thr[t].op = d
     /\ \/ r.state # "ACTIVE" /\ InCtx(t, q, "rele")      \* -EBADF
        \/ /\ r.state = "ACTIVE" /\ d \in r.ready
           /\ InCtx(t, [q EXCEPT !.ready = @ \ {d}], "rele")
        \/ /\ r.state = "ACTIVE" /\ d \notin r.ready
           /\ \/ InCtx(t, q, "wait")
              \/ InCtx(t, q, "rele")   \* -EAGAIN, or an error of the protocol

nn_sock_send(t) == Try(t, "out")
nn_sock_recv(t) == Try(t, "in")

(* nn_efd_wait: the fd is signalled, or closed, or the time is over.       *)
nn_efd_wait(t) ==
  LET r == sock[thr[t].obj]
  IN /\ thr[t].pc = "wait" /\ r.bad = {}
     /\ \/ /\ r.fd[thr[t].op] = "on"
           /\ thr' = [thr EXCEPT ![t].pc = "woken"]
        \/ /\ r.fd[thr[t].op] = "closed"
           /\ thr' = [thr EXCEPT ![t].pc = "rele"]
     /\ UNCHANGED <<glob, sock, calls>>

TimedOut(t) ==
  /\ thr[t].pc = "wait"
  /\ sock[thr[t].obj].fd[thr[t].op] = "off"
  /\ thr' = [thr EXCEPT ![t].pc = "rele"]
  /\ UNCHANGED <<glob, sock, calls>>

(* The call returns.                                                       *)
nn_global_rele_socket(t) ==
  /\ thr[t].pc = "rele"
  /\ sock[thr[t].obj].bad = {}
  /\ sock' = [sock EXCEPT ![thr[t].obj] =
                IF @.state = "FREED" THEN Fail(@, "freed")
                ELSE nn_sock_rele(@)]
  /\ thr' = [thr EXCEPT ![t] = Idle]
  /\ UNCHANGED <<glob, calls>>

-----------------------------------------------------------------------------
(* Closing.                                                                *)

(* The first part of nn_close, under the global lock: stop the socket and  *)
(* drop two holds, the one just taken and the creator's.                   *)
Close(t, s) ==
  LET o == glob.socks[s]
      held == nn_sock_hold(sock[o])
  IN /\ \A u \in Thread :
          thr[u].pc = "held" /\ thr[u].obj = o => thr[u].op \in Beside
     /\ sock' = [sock EXCEPT ![o] =
                   nn_sock_rele(nn_sock_rele(nn_sock_stop(held)))]
     /\ thr' = [thr EXCEPT ![t].pc = "termsem", ![t].op = "close",
                           ![t].obj = o, ![t].slot = s]
     /\ UNCHANGED glob

nn_close(t, s) == Begin(t) /\ Holdable(s) /\ Close(t, s)

(* nn_sock_term: wait for the endpoints, then for the holds.               *)
nn_sock_term(t) ==
  LET o == thr[t].obj
  IN /\ sock[o].bad = {}
     /\ \/ /\ thr[t].pc = "termsem" /\ sock[o].term > 0
           /\ sock' = [sock EXCEPT ![o].term = @ - 1]
           /\ thr' = [thr EXCEPT ![t].pc = "relesem"]
        \/ /\ thr[t].pc = "relesem" /\ sock[o].rele > 0
           /\ sock' = [sock EXCEPT ![o] =
                IF @.eps \cup @.sdeps # {} THEN Fail(@, "list not empty")
                ELSE [@ EXCEPT !.rele = sock[o].rele - 1]]
           /\ thr' = [thr EXCEPT ![t].pc = "finish"]
     /\ UNCHANGED <<glob, calls>>

(* The last part of nn_close, under the global lock again.                 *)
nn_close_finish(t) ==
  /\ thr[t].pc = "finish"
  /\ sock[thr[t].obj].bad = {}
  /\ glob' = nn_close_slot(glob, thr[t].slot)
  /\ sock' = [sock EXCEPT ![thr[t].obj] = [Unborn EXCEPT !.state = "FREED"]]
  /\ thr' = [thr EXCEPT ![t] =
       IF @.scan = 0 THEN Idle
       ELSE [Idle EXCEPT !.pc = "scan", !.scan = thr[t].scan]]
  /\ UNCHANGED calls

(* nn_term: no new socket from now on; close slot after slot.              *)
nn_term(t) ==
  /\ t = Main
  /\ Begin(t)
  /\ glob' = [glob EXCEPT !.flags = @ \cup {"TERMING"}]
  /\ thr' = [thr EXCEPT ![t].pc = "scan", ![t].scan = 1]
  /\ UNCHANGED sock

Scan(t) ==
  /\ thr[t].pc = "scan"
  /\ UNCHANGED calls
  /\ LET s == thr[t].scan - 1
         next == [thr EXCEPT ![t].scan = @ + 1]
     IN \/ /\ s \in Slot /\ Holdable(s)
           /\ Close(t, s)
        \/ /\ s \in Slot /\ ~Holdable(s)
           /\ thr' = next
           /\ UNCHANGED <<glob, sock>>
        \/ /\ s \notin Slot
           /\ glob' = [glob EXCEPT !.flags = {"TERMED"}]
           /\ thr' = [thr EXCEPT ![t] = Idle]
           /\ UNCHANGED sock

(* nn_init waits for an nn_term in progress.                               *)
nn_init(t) ==
  /\ t = Main
  /\ Begin(t)
  /\ "TERMING" \notin glob.flags
  /\ "TERMED" \in glob.flags
  /\ glob' = [glob EXCEPT !.flags = @ \ {"TERMED"}]
  /\ UNCHANGED <<sock, thr>>

-----------------------------------------------------------------------------
(* Workers: what the transports and the protocol report to the socket.     *)

Worker(o, r) ==
  /\ sock[o].bad = {}
  /\ sock' = [sock EXCEPT ![o] = nn_sock_onleave(r)]
  /\ UNCHANGED <<glob, thr, calls>>

EpStopped(o) ==
  \E e \in sock[o].sdeps : Worker(o, nn_ep_stopped(sock[o], e))

(* nn_sock_stopped of a protocol that stops later.                         *)
ProtocolStopped(o) ==
  /\ sock[o].state = "STOPPING"
  /\ Worker(o, Finish1(sock[o]))

(* NN_PIPE_IN or NN_PIPE_OUT: a direction becomes ready.  A socket that    *)
(* stops ignores it.                                                       *)
PipeReady(o, d) ==
  /\ sock[o].state = "ACTIVE"
  /\ d \notin sock[o].ready /\ sock[o].eps # {}
  /\ Worker(o, [sock[o] EXCEPT !.ready = @ \cup {d}])

(* A pipe goes away, and with it the last one to send to.                  *)
nn_sock_rm(o) ==
  /\ sock[o].state = "ACTIVE"
  /\ "out" \in sock[o].ready
  /\ Worker(o, [sock[o] EXCEPT !.ready = @ \ {"out"}])

InCall(t) ==
  \/ nn_sock_add_ep(t) \/ nn_global_create_ep(t) \/ nn_sock_rm_ep(t)
  \/ nn_sock_setopt(t) \/ nn_sock_getopt(t)
  \/ nn_sock_send(t) \/ nn_sock_recv(t) \/ nn_efd_wait(t)
  \/ nn_global_rele_socket(t)

Closing(t) == nn_sock_term(t) \/ nn_close_finish(t) \/ Scan(t)

Call(t) ==
  \/ nn_socket(t) \/ nn_term(t) \/ nn_init(t)
  \/ \E s \in Slot :
       \/ nn_close(t, s) \/ nn_bind(t, s) \/ nn_connect(t, s)
       \/ nn_shutdown(t, s) \/ nn_setsockopt(t, s) \/ nn_getsockopt(t, s)
       \/ nn_sendmsg(t, s) \/ nn_recvmsg(t, s)

Next ==
  \/ \E t \in Thread : Call(t) \/ InCall(t) \/ Closing(t) \/ TimedOut(t)
  \/ \E o \in Obj : \/ EpStopped(o) \/ ProtocolStopped(o)
                    \/ nn_sock_rm(o) \/ \E d \in Dir : PipeReady(o, d)

Spec == Init /\ [][Next]_vars

(* A call in progress goes on whenever it can, and an endpoint or a        *)
(* protocol asked to stop does.                                            *)
FairSpec ==
  /\ Spec
  /\ \A t \in Thread : WF_vars(InCall(t)) /\ WF_vars(Closing(t))
  /\ \A o \in Obj : WF_vars(EpStopped(o)) /\ WF_vars(ProtocolStopped(o))

-----------------------------------------------------------------------------
(* No assertion of sock.c, list.c or efd.c fails, no call uses a socket    *)
(* that is freed, or a protocol that is destroyed: the holds of sock.c     *)
(* keep the socket until every call inside it has returned.                *)
NoBadEvent == \A o \in Obj : sock[o].bad = {}

(* The stack of unused slots of global.c holds the free slots, each once:  *)
(* no descriptor is given to two sockets, none is lost.                    *)
SlotsRight ==
  glob.live =>
    LET n == MAX_SOCKETS - glob.nsocks
        free == {s \in Slot : glob.socks[s] = 0}
    IN /\ Cardinality(free) = n
       /\ {glob.unused[i] : i \in 0 .. n - 1} = free

(* A call blocked in nn_efd_wait finds its event fd signalled, or closed,  *)
(* when there is something for it, and when the socket stops.              *)
WakeupKept ==
  \A t \in Thread :
    thr[t].pc = "wait" =>
      LET r == sock[thr[t].obj]
      IN thr[t].op \in r.ready \/ r.state # "ACTIVE" => r.fd[thr[t].op] # "off"

(* nn_close and nn_term return, also with calls inside the socket.         *)
CloseReturns ==
  \A t \in Thread : thr[t].pc \in {"termsem", "scan"} ~> thr[t].pc = "idle"
=============================================================================
