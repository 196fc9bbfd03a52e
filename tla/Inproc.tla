------------------------------- MODULE Inproc -------------------------------
(***************************************************************************)
(* The inproc transport of nanomsg: a socket "c" that connects             *)
(* (cinproc.c), a socket "b" that binds (binproc.c), the registry of names *)
(* they find each other in (ins.c), and the two ends of the connection     *)
(* (sinproc.c with msgqueue.c and the pipe of core/pipe.c).                *)
(*                                                                         *)
(* Each socket has a context with a lock (ctx.c) and is used by one        *)
(* thread, of its name.  A call runs under its socket's lock; what it      *)
(* raises to the other side is delivered by the same thread after the      *)
(* lock is released, one event at a time under the other lock, and what    *)
(* is raised meanwhile comes first (nn_ctx_leave).  Between two deliveries *)
(* the other thread runs.  Messages have the size 1 and are numbers.       *)
(***************************************************************************)
EXTENDS Naturals, Sequences

CONSTANTS
  MaxMem,     \* NN_RCVBUF
  MaxMsg,     \* bound on the messages of each side
  MaxBind,    \* bound on how often b binds
  Overlap     \* TRUE: calls that open or close overlap with all others

Side == {"c", "b"}
Other(s) == IF s = "c" THEN "b" ELSE "c"

VARIABLES
  ep,      \* state of the endpoints: cinproc and binproc
  ins,     \* the endpoints that are registered
  sin,     \* struct nn_sinproc of each end, with its pipe
  queue,   \* the events each thread has to deliver
  alone,   \* the thread that opens or closes, without Overlap
  bad,     \* an assertion or a bad event has ended the process
  sent, got,   \* what each side sent and received since it connected
  binds

vars == <<ep, ins, sin, queue, alone, bad, sent, got, binds>>

(* nn_sinproc_init.                                                        *)
nn_sinproc_init ==
  [state |-> "IDLE", fsm |-> "IDLE", peer |-> FALSE, sending |-> FALSE,
   receiving |-> FALSE, msgqueue |-> << >>, msg |-> 0,
   in |-> "OFF", out |-> "OFF"]

Init ==
  /\ ep = [s \in Side |-> "NONE"]
  /\ ins = {}
  /\ sin = [s \in Side |-> nn_sinproc_init]
  /\ queue = [s \in Side |-> << >>]
  /\ alone = {}
  /\ bad = FALSE
  /\ sent = [s \in Side |-> << >>]
  /\ got = [s \in Side |-> << >>]
  /\ binds = 0

Event(s, type) == [to |-> s, type |-> type]

(* Thread t begins a call.                                                 *)
Call(t) == ~bad /\ queue[t] = << >> /\ (Overlap \/ alone = {})

(* It opens or closes an endpoint: if calls do not overlap, the other      *)
(* thread is done and waits.                                               *)
CallAlone(t) ==
  /\ Call(t)
  /\ Overlap \/ queue[Other(t)] = << >>
  /\ alone' = IF Overlap THEN {} ELSE {t}

Raise(t, events) == queue' = [queue EXCEPT ![t] = events]

-----------------------------------------------------------------------------
(* Opening                                                                 *)

(* nn_sinproc_connect: the end of s waits for the other one.               *)
nn_sinproc_connect(s) ==
  sin' = [sin EXCEPT ![s] = [nn_sinproc_init EXCEPT !.state = "CONNECTING",
                                                    !.fsm = "ACTIVE"]]

(* nn_cinproc_create with nn_ins_connect: if the name is bound, the        *)
(* handshake starts.                                                       *)
nn_cinproc_create ==
  /\ CallAlone("c") /\ ep["c"] = "NONE"
  /\ ins' = ins \cup {"c"}
  /\ \/ /\ "b" \in ins
        /\ ep' = [ep EXCEPT !["c"] = "ACTIVE"]
        /\ nn_sinproc_connect("c")
        /\ Raise("c", <<Event("b", "CONNECT")>>)
     \/ /\ "b" \notin ins
        /\ ep' = [ep EXCEPT !["c"] = "DISCONNECTED"]
        /\ UNCHANGED <<sin, queue>>
  /\ UNCHANGED <<bad, sent, got, binds>>

(* nn_binproc_create with nn_ins_bind and nn_binproc_connect: the binder   *)
(* starts the handshake with an endpoint that waits for the name.          *)
nn_binproc_create ==
  /\ CallAlone("b") /\ ep["b"] \in {"NONE", "IDLE"} /\ binds < MaxBind
  /\ ins' = ins \cup {"b"}
  /\ ep' = [ep EXCEPT !["b"] = "ACTIVE"]
  /\ binds' = binds + 1
  /\ \/ /\ "c" \in ins
        /\ nn_sinproc_connect("b")
        /\ Raise("b", <<Event("c", "CONNECT")>>)
     \/ /\ "c" \notin ins
        /\ sin' = [sin EXCEPT !["b"] = nn_sinproc_init]
        /\ UNCHANGED queue
  /\ UNCHANGED <<bad, sent, got>>

-----------------------------------------------------------------------------
(* Messages                                                                *)

nn_msgqueue_full(q) == Len(q) > 0 /\ Len(q) + 1 >= MaxMem

(* nn_pipe_send with nn_sinproc_send: the message is shown to the peer.    *)
nn_sinproc_send(s) ==
  /\ Call(s) /\ sin[s].out = "IDLE" /\ Len(sent[s]) < MaxMsg
  /\ LET m == Len(sent[s]) + 1 IN
     /\ bad' = (sin[s].state # "ACTIVE" \/ sin[s].sending)
     /\ sin' = [sin EXCEPT ![s].msg = m, ![s].sending = TRUE,
                           ![s].out = "ASYNC"]
     /\ sent' = [sent EXCEPT ![s] = Append(@, m)]
  /\ Raise(s, <<Event(Other(s), "SENT")>>)
  /\ UNCHANGED <<ep, ins, alone, got, binds>>

(* A variant with a slip: the peer is not told of the lingering message.   *)
nn_sinproc_recvSilent(s) ==
  /\ Call(s) /\ sin[s].in = "IDLE"
  /\ LET p == Other(s)
         rest == Tail(sin[s].msgqueue)
         moves == sin[s].receiving /\ ~nn_msgqueue_full(rest)
         q == IF moves THEN Append(rest, sin[p].msg) ELSE rest IN
     /\ sin' = [sin EXCEPT
          ![s].msgqueue = q,
          ![s].receiving = @ /\ ~moves,
          ![s].in = IF q = << >> THEN "ASYNC" ELSE "IDLE",
          ![p].msg = IF moves THEN 0 ELSE @]
     /\ got' = [got EXCEPT ![s] = Append(@, Head(sin[s].msgqueue))]
     /\ UNCHANGED queue
  /\ UNCHANGED <<ep, ins, alone, bad, sent, binds>>

(* nn_pipe_recv with nn_sinproc_recv: room in the queue lets a lingering   *)
(* message of the peer in.                                                 *)
nn_sinproc_recv(s) ==
  /\ Call(s) /\ sin[s].in = "IDLE"
  /\ LET p == Other(s)
         rest == Tail(sin[s].msgqueue)
         moves == sin[s].receiving /\ ~nn_msgqueue_full(rest)
         q == IF moves THEN Append(rest, sin[p].msg) ELSE rest IN
     /\ sin' = [sin EXCEPT
          ![s].msgqueue = q,
          ![s].receiving = @ /\ ~moves,
          ![s].in = IF q = << >> THEN "ASYNC" ELSE "IDLE",
          ![p].msg = IF moves THEN 0 ELSE @]
     /\ got' = [got EXCEPT ![s] = Append(@, Head(sin[s].msgqueue))]
     /\ IF moves THEN Raise(s, <<Event(p, "RECEIVED")>>) ELSE UNCHANGED queue
  /\ UNCHANGED <<ep, ins, alone, bad, sent, binds>>

-----------------------------------------------------------------------------
(* Closing: nn_cinproc_shutdown and nn_binproc_shutdown                    *)

Pending(s, types) ==
  \E t \in Side : \E i \in DOMAIN queue'[t] :
    queue'[t][i].to = s /\ queue'[t][i].type \in types

(* The end r of side s in the state STOPPING is stopped, and its endpoint  *)
(* with it, once nothing is on its way to it.                              *)
Finish(s, r) ==
  IF r.state = "STOPPING" /\ ~Pending(s, {"RECEIVED", "DISCONNECT"})
    THEN /\ sin' = [sin EXCEPT ![s] = [r EXCEPT !.fsm = "IDLE",
                                                !.state = "IDLE"]]
         /\ ep' = [ep EXCEPT ![s] = "IDLE"]
         /\ bad' = Pending(s, {"SENT"})
    ELSE /\ sin' = [sin EXCEPT ![s] = r]
         /\ UNCHANGED <<ep, bad>>

(* NN_FSM_STOP: the name is taken out of the registry, and the peer is     *)
(* told, if there is one.                                                  *)
Stop(s) ==
  /\ CallAlone(s) /\ ep[s] \in {"ACTIVE", "DISCONNECTED"}
  /\ ins' = ins \ {s}
  /\ LET r == sin[s] IN
     \/ /\ r.fsm = "IDLE"
        /\ ep' = [ep EXCEPT ![s] = "IDLE"]
        /\ UNCHANGED <<sin, queue, bad>>
     \/ /\ r.fsm = "ACTIVE" /\ r.state = "DISCONNECTED"
        /\ UNCHANGED queue
        /\ ep' = [ep EXCEPT ![s] = "IDLE"]
        /\ sin' = [sin EXCEPT ![s].state = "IDLE", ![s].fsm = "IDLE"]
        /\ UNCHANGED bad
     \/ /\ r.fsm = "ACTIVE" /\ r.state # "DISCONNECTED"
        /\ bad' = ~r.peer
        /\ sin' = [sin EXCEPT ![s].state = "STOPPING_PEER",
                     ![s].fsm = "STOPPING", ![s].in = "OFF", ![s].out = "OFF"]
        /\ ep' = [ep EXCEPT ![s] = "STOPPING"]
        /\ Raise(s, <<Event(Other(s), "DISCONNECT")>>)
  /\ UNCHANGED <<sent, got, binds>>

-----------------------------------------------------------------------------
(* Events: thread t delivers the first one of its queue to side s          *)

Delivers(t, s, type, raised) ==
  /\ ~bad /\ queue[t] # << >> /\ Head(queue[t]) = Event(s, type)
  /\ queue' = [queue EXCEPT ![t] = raised \o Tail(@)]
  /\ alone' = IF queue'[t] = << >> THEN alone \ {t} ELSE alone
  /\ UNCHANGED <<ins, binds>>

BadEvent == bad' = TRUE /\ UNCHANGED <<ep, sin, sent, got>>

(* NN_SINPROC_CONNECT to the endpoint of s, which accepts it with          *)
(* nn_sinproc_accept; one that is being closed ignores it or, a binproc,   *)
(* asserts that it does not come.                                          *)
Accepts(s) ==
  ep[s] = IF s = "c" THEN "DISCONNECTED" ELSE "ACTIVE"

Connect(t, s) ==
  /\ Delivers(t, s, "CONNECT",
       IF Accepts(s) THEN <<Event(Other(s), "READY")>> ELSE << >>)
  /\ \/ /\ Accepts(s)
        /\ ep' = [ep EXCEPT ![s] = "ACTIVE"]
        /\ sin' = [sin EXCEPT ![s] = [nn_sinproc_init EXCEPT
                     !.state = "READY", !.fsm = "ACTIVE", !.peer = TRUE]]
        /\ UNCHANGED <<bad, sent, got>>
     \/ /\ ~Accepts(s) /\ ep[s] = "STOPPING" /\ s = "c"
        /\ UNCHANGED <<ep, sin, bad, sent, got>>
     \/ /\ ~Accepts(s) /\ ~(ep[s] = "STOPPING" /\ s = "c")
        /\ BadEvent

(* nn_pipebase_start.                                                      *)
Started(r) == [r EXCEPT !.state = "ACTIVE", !.peer = TRUE, !.in = "ASYNC",
                        !.out = "IDLE"]

(* NN_SINPROC_READY, answered by NN_SINPROC_ACCEPTED.                      *)
Ready(t, s) ==
  LET r == sin[s] IN
  /\ Delivers(t, s, "READY",
       IF r.fsm = "ACTIVE" /\ r.state = "CONNECTING"
         THEN <<Event(Other(s), "ACCEPTED")>> ELSE << >>)
  /\ IF r.fsm = "ACTIVE" /\ r.state \in {"CONNECTING", "READY"}
       THEN /\ sin' = [sin EXCEPT ![s] = Started(r)]
            /\ sent' = [sent EXCEPT ![s] = << >>]
            /\ got' = [x \in Side |-> << >>]
            /\ UNCHANGED <<ep, bad>>
       ELSE BadEvent

Accepted(t, s) ==
  /\ Delivers(t, s, "ACCEPTED", << >>)
  /\ IF sin[s].fsm = "ACTIVE" /\ sin[s].state = "READY"
       THEN /\ sin' = [sin EXCEPT ![s] = Started(@)]
            /\ sent' = [sent EXCEPT ![s] = << >>]
            /\ UNCHANGED <<ep, bad, got>>
       ELSE BadEvent

(* NN_SINPROC_SENT: the message of the peer is queued, or lingers there.   *)
Sent(t, s) ==
  LET r == sin[s]
      p == Other(s)
      full == nn_msgqueue_full(r.msgqueue)
      takes == r.fsm = "ACTIVE" /\ r.state = "ACTIVE" IN
  /\ Delivers(t, s, "SENT",
       IF takes /\ ~full THEN <<Event(p, "RECEIVED")>> ELSE << >>)
  /\ \/ /\ takes /\ full
        /\ sin' = [sin EXCEPT ![s].receiving = TRUE]
        /\ UNCHANGED <<ep, bad, sent, got>>
     \/ /\ takes /\ ~full
        /\ sin' = [sin EXCEPT ![s].msgqueue = Append(@, sin[p].msg),
                              ![s].in =
                                IF r.msgqueue = << >> THEN "IDLE" ELSE @,
                              ![p].msg = 0]
        /\ UNCHANGED <<ep, bad, sent, got>>
     \/ ~takes /\ BadEvent

(* NN_SINPROC_RECEIVED: the pipe can send again.  An end that is           *)
(* disconnected or being stopped ignores it.                               *)
Received(t, s) ==
  LET r == sin[s] IN
  /\ Delivers(t, s, "RECEIVED", << >>)
  /\ \/ /\ r.fsm = "ACTIVE" /\ r.state = "ACTIVE"
        /\ bad' = (~r.sending \/ r.out # "ASYNC")
        /\ sin' = [sin EXCEPT ![s].sending = FALSE, ![s].out = "IDLE"]
        /\ UNCHANGED <<ep, sent, got>>
     \/ /\ r.fsm = "ACTIVE" /\ r.state = "DISCONNECTED"
        /\ UNCHANGED <<ep, sin, bad, sent, got>>
     \/ /\ r.fsm = "STOPPING"
        /\ Finish(s, r)
        /\ UNCHANGED <<sent, got>>
     \/ /\ ~(r.fsm = "ACTIVE" /\ r.state \in {"ACTIVE", "DISCONNECTED"})
        /\ r.fsm # "STOPPING"
        /\ BadEvent

(* NN_SINPROC_DISCONNECT: an active end answers it and tells its endpoint; *)
(* a cinproc then makes its end anew, a binproc keeps it until it stops.   *)
Disconnect(t, s) ==
  LET r == sin[s]
      active == r.fsm = "ACTIVE" /\ r.state = "ACTIVE" IN
  /\ Delivers(t, s, "DISCONNECT",
       IF active THEN <<Event(Other(s), "DISCONNECT")>> ELSE << >>)
  /\ \/ /\ active /\ s = "c"
        /\ sin' = [sin EXCEPT ![s] = nn_sinproc_init]
        /\ ep' = [ep EXCEPT ![s] = "DISCONNECTED"]
        /\ UNCHANGED <<bad, sent, got>>
     \/ /\ active /\ s = "b"
        /\ sin' = [sin EXCEPT ![s] = [@ EXCEPT !.state = "DISCONNECTED",
                     !.peer = FALSE, !.in = "OFF", !.out = "OFF"]]
        /\ UNCHANGED <<ep, bad, sent, got>>
     \/ /\ r.fsm = "STOPPING" /\ r.state = "STOPPING_PEER"
        /\ Finish(s, [r EXCEPT !.state = "STOPPING"])
        /\ UNCHANGED <<sent, got>>
     \/ /\ ~active /\ ~(r.fsm = "STOPPING" /\ r.state = "STOPPING_PEER")
        /\ BadEvent

-----------------------------------------------------------------------------
Deliver(t) ==
  \E s \in Side : \/ Connect(t, s) \/ Ready(t, s) \/ Accepted(t, s)
                  \/ Sent(t, s) \/ Received(t, s) \/ Disconnect(t, s)

(* A call that had nothing to deliver is over.                             *)
Return(t) ==
  /\ t \in alone /\ queue[t] = << >>
  /\ alone' = alone \ {t}
  /\ UNCHANGED <<ep, ins, sin, queue, bad, sent, got, binds>>

Next ==
  \/ nn_cinproc_create \/ nn_binproc_create
  \/ \E s \in Side : nn_sinproc_send(s) \/ nn_sinproc_recv(s) \/ Stop(s)
                     \/ Deliver(s) \/ Return(s)

Spec == Init /\ [][Next]_vars

(* A thread goes on with its call, and the user receives what there is.    *)
Fairness == \A s \in Side : WF_vars(Deliver(s)) /\ WF_vars(Return(s))
                            /\ WF_vars(nn_sinproc_recv(s))

FairSpec == Spec /\ Fairness

-----------------------------------------------------------------------------
(* No event comes in a state that has no case for it and no assertion of   *)
(* sinproc.c, cinproc.c and binproc.c fails.                               *)
NoBadEvent == ~bad

(* While two ends are connected, what one received is what the other sent, *)
(* in its order; the rest is in the queue or shown by the sender, at most  *)
(* one message there, and a pipe waits exactly for what is missing.        *)
ExactTransfer ==
  \A s \in Side :
    sin[s].state = "ACTIVE" /\ sin[Other(s)].state = "ACTIVE" =>
      LET p == sin[Other(s)] IN
      /\ sent[Other(s)] = got[s] \o sin[s].msgqueue
                          \o (IF p.msg = 0 THEN << >> ELSE <<p.msg>>)
      /\ (sin[s].in = "IDLE") = (sin[s].msgqueue # << >>)
      /\ p.sending = (p.out = "ASYNC")
      /\ sin[s].receiving => p.msg # 0

(* Every message that is sent is received, unless the connection ends      *)
(* first, and every close comes to its end.                                *)
TransferEnds ==
  \A s \in Side :
    /\ sin[s].sending ~> ~sin[s].sending \/ sin[s].state # "ACTIVE"
    /\ ep[s] = "STOPPING" ~> ep[s] = "IDLE"

=============================================================================
