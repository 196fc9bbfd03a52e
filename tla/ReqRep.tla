------------------------------- MODULE ReqRep -------------------------------
(***************************************************************************)
(* The request/reply protocol of nanomsg: req.c over xreq.c (load          *)
(* balancing) and rep.c over xrep.c (routing by a key per pipe).  Every    *)
(* call and every event of the transport runs to its end under the         *)
(* socket's lock, events it raises included, so each is one step here.     *)
(* The timer is the exception: stopping it takes the worker thread a step  *)
(* of its own, during which calls and messages come in.                    *)
(*                                                                         *)
(* A pipe joins one REQ socket and one REP socket and holds up to Cap      *)
(* messages in each direction.  A request is its number; the body of a     *)
(* message is the request it is about, a history field.                    *)
(***************************************************************************)
EXTENDS PrioList, FiniteSets

CONSTANTS
  Req, Rep,
  Pipe,       \* pairs <<q, p>> of a REQ and a REP socket
  SndPrio,    \* the NN_SNDPRIO of each pipe
  Cap,
  MaxReq,     \* bound on the requests of a socket
  MaxFault    \* bound on lost pipes, early timeouts and dropped requests

VARIABLES
  req,       \* struct nn_req of each REQ socket, and whether it is closing
  lb,        \* its load balancer
  up,        \* per pipe: attached to both sockets?
  outkey,    \* per pipe: its key in outpipes of the REP socket
  outflag,   \* per pipe: NN_XREP_OUT
  toRep, toReq,
  inpipes,   \* per REP socket: its fair queue
  rep,       \* per REP socket: next_key and the stored backtrace
  faults

vars == <<req, lb, up, outkey, outflag, toRep, toReq, inpipes, rep, faults>>
repVars == <<outkey, outflag, inpipes, rep>>

None == [id |-> 0, body |-> << >>]          \* no message
Terminated == [id |-> -1, body |-> << >>]   \* after nn_msg_term

Init ==
  /\ req = [q \in Req |-> [state |-> "PASSIVE", id |-> 0, sent_to |-> NoPipe,
                           reply |-> None, timer |-> "idle",
                           closing |-> FALSE]]
  /\ lb = [q \in Req |-> EmptyList]
  /\ up = [x \in Pipe |-> FALSE]
  /\ outkey = [x \in Pipe |-> 0]
  /\ outflag = [x \in Pipe |-> FALSE]
  /\ toRep = [x \in Pipe |-> << >>]
  /\ toReq = [x \in Pipe |-> << >>]
  /\ inpipes = [p \in Rep |-> EmptyList]
  /\ rep = [p \in Rep |-> [next_key |-> 1, inprogress |-> FALSE,
                           key |-> 0, msg |-> None]]
  /\ faults = 0

-----------------------------------------------------------------------------
(* The REQ socket                                                          *)

(* nn_req_action_send on the socket r of name q: over the pipe whose turn  *)
(* it is, or later when there is none.                                     *)
CanSend(q) == nn_priolist_is_active(lb[q])

Sent(q, r) ==
  IF CanSend(q)
    THEN [r EXCEPT !.state = "ACTIVE", !.timer = "active",
                   !.sent_to = nn_priolist_getpipe(lb[q])]
    ELSE [r EXCEPT !.state = "DELAYED"]

nn_lb_send(q, r) ==
  IF CanSend(q)
    THEN LET x == nn_priolist_getpipe(lb[q])
             m == [id |-> r.id, body |-> <<q, r.id>>] IN
         /\ toRep' = [toRep EXCEPT ![x] = Append(@, m)]
         /\ lb' = [lb EXCEPT ![q] =
                     nn_priolist_advance(@, Len(toRep[x]) + 1 = Cap)]
    ELSE UNCHANGED <<toRep, lb>>

(* Stopping the timer takes effect in the worker (TimerStopped).           *)
StopTimer(r) == [r EXCEPT !.timer = IF @ = "active" THEN "stopping" ELSE @]

(* A variant with a slip: the pipe the request went to is remembered.      *)
LeaveActiveRemembering(r, state) == [StopTimer(r) EXCEPT !.state = state]

LeaveActive(r, state) ==
  [StopTimer(r) EXCEPT !.state = state, !.sent_to = NoPipe]

(* NN_REQ_ACTION_SENT by state.  A request that is still in progress is    *)
(* cancelled.                                                              *)
ActionSent(q, r) ==
  \/ /\ r.state \in {"PASSIVE", "DONE"}
     /\ req' = [req EXCEPT ![q] = Sent(q, r)]
     /\ nn_lb_send(q, r)
  \/ /\ r.state \in {"DELAYED", "CANCELLING"}
     /\ req' = [req EXCEPT ![q] = r]
     /\ UNCHANGED <<toRep, lb>>
  \/ /\ r.state \in {"TIMED_OUT", "STOPPING_TIMER"}
     /\ req' = [req EXCEPT ![q] = [r EXCEPT !.state = "CANCELLING"]]
     /\ UNCHANGED <<toRep, lb>>
  \/ /\ r.state = "ACTIVE"
     /\ req' = [req EXCEPT ![q] = LeaveActive(r, "CANCELLING")]
     /\ UNCHANGED <<toRep, lb>>

(* A request under a new number.                                           *)
nn_req_csend(q) ==
  /\ ~req[q].closing /\ req[q].id < MaxReq
  /\ ActionSent(q, [req[q] EXCEPT !.id = @ + 1])
  /\ UNCHANGED <<up, toReq, repVars, faults>>

(* nn_req_crecv, when there is a reply; in the other states it returns     *)
(* EFSM or EAGAIN and changes nothing.                                     *)
nn_req_crecv(q) ==
  /\ ~req[q].closing /\ req[q].state = "DONE"
  /\ req' = [req EXCEPT ![q].reply = None, ![q].state = "PASSIVE"]
  /\ UNCHANGED <<lb, up, toRep, toReq, repVars, faults>>

nn_req_inprogress(r) == r.state \notin {"IDLE", "PASSIVE", "STOPPING"}

(* A variant with a slip: the number of a reply is not compared.           *)
RepliedAny(r, m) ==
  IF ~nn_req_inprogress(r)
    THEN [r EXCEPT !.reply = Terminated]
    ELSE IF r.state = "ACTIVE"
           THEN LeaveActive([r EXCEPT !.reply = m], "STOPPING_TIMER")
           ELSE [r EXCEPT !.reply = m]

(* nn_req_in after the message was received into the field reply: it is    *)
(* terminated there when nobody waits for it or its number is another, and *)
(* the state machine hears of it in the state ACTIVE only.                 *)
Replied(r, m) ==
  IF ~nn_req_inprogress(r) \/ m.id # r.id
    THEN [r EXCEPT !.reply = Terminated]
    ELSE IF r.state = "ACTIVE"
           THEN LeaveActive([r EXCEPT !.reply = m], "STOPPING_TIMER")
           ELSE [r EXCEPT !.reply = m]

nn_req_in(x) ==
  /\ up[x] /\ toReq[x] # << >>
  /\ toReq' = [toReq EXCEPT ![x] = Tail(@)]
  /\ req' = [req EXCEPT ![x[1]] = Replied(@, Head(toReq[x]))]
  /\ outflag' = [outflag EXCEPT ![x] = TRUE]
  /\ UNCHANGED <<lb, up, toRep, outkey, inpipes, rep, faults>>

(* The request q waits for is on its way, or at a REP socket, or its reply *)
(* is.                                                                     *)
InFlight(q) ==
  LET body == <<q, req[q].id>> IN
  \/ \E x \in Pipe : \/ \E i \in DOMAIN toRep[x] : toRep[x][i].body = body
                     \/ \E i \in DOMAIN toReq[x] : toReq[x][i].body = body
  \/ \E p \in Rep : rep[p].inprogress /\ rep[p].msg.body = body

(* NN_TIMER_TIMEOUT.  A timeout before the reply had its time is a fault.  *)
Timeout(q) ==
  /\ req[q].timer = "active"
  /\ IF InFlight(q) THEN faults < MaxFault /\ faults' = faults + 1
                    ELSE UNCHANGED faults
  /\ req' = [req EXCEPT ![q] =
               IF @.state = "ACTIVE" THEN LeaveActive(@, "TIMED_OUT")
                                     ELSE [@ EXCEPT !.state = "BAD"]]
  /\ UNCHANGED <<lb, up, toRep, toReq, repVars>>

(* The socket is stopped when its timer is idle.                           *)
nn_req_shutdown(r) ==
  [r EXCEPT !.state = IF r.timer = "idle" THEN "IDLE" ELSE "STOPPING"]

(* NN_TIMER_STOPPED, in nn_req_handler or nn_req_shutdown.                 *)
TimerStopped(q) ==
  /\ req[q].timer = "stopping"
  /\ LET r == [req[q] EXCEPT !.timer = "idle"] IN
     \/ /\ r.state \in {"TIMED_OUT", "CANCELLING"}
        /\ req' = [req EXCEPT ![q] = Sent(q, r)]
        /\ nn_lb_send(q, r)
     \/ /\ r.state = "STOPPING_TIMER"
        /\ req' = [req EXCEPT ![q] = [r EXCEPT !.state = "DONE"]]
        /\ UNCHANGED <<toRep, lb>>
     \/ /\ r.state = "STOPPING"
        /\ req' = [req EXCEPT ![q] = nn_req_shutdown(r)]
        /\ UNCHANGED <<toRep, lb>>
  /\ UNCHANGED <<up, toReq, repVars, faults>>

(* The user closes the socket, in any state of it, after its last request. *)
Close(q) ==
  /\ ~req[q].closing /\ req[q].id = MaxReq
  /\ req' = [req EXCEPT ![q].closing = TRUE]
  /\ UNCHANGED <<lb, up, toRep, toReq, repVars, faults>>

(* nn_req_stop, once the core has removed the endpoints and their pipes.   *)
nn_req_stop(q) ==
  /\ req[q].closing /\ req[q].state \notin {"STOPPING", "IDLE"}
  /\ \A x \in Pipe : x[1] = q => ~up[x]
  /\ req' = [req EXCEPT ![q] = nn_req_shutdown(StopTimer(@))]
  /\ UNCHANGED <<lb, up, toRep, toReq, repVars, faults>>

-----------------------------------------------------------------------------
(* Pipes come and go                                                       *)

(* nn_req_out: the pipe can take a message; a delayed request goes out     *)
(* over it at once.                                                        *)
nn_req_out(x, pipes, chan) ==
  LET q == x[1]
      l == nn_priolist_activate(pipes, x, SndPrio[x])
      y == nn_priolist_getpipe(l)
      m == [id |-> req[q].id, body |-> <<q, req[q].id>>] IN
  IF req[q].state = "DELAYED"
    THEN /\ req' = [req EXCEPT ![q].state = "ACTIVE", ![q].timer = "active",
                               ![q].sent_to = y]
         /\ toRep' = [chan EXCEPT ![y] = Append(@, m)]
         /\ lb' = [lb EXCEPT ![q] =
                     nn_priolist_advance(l, Len(chan[y]) + 1 = Cap)]
    ELSE /\ lb' = [lb EXCEPT ![q] = l]
         /\ toRep' = chan
         /\ UNCHANGED req

(* The REP socket gives the pipe a key; nn_xrep_out follows at once.       *)
nn_xrep_add(x) ==
  /\ outkey' = [outkey EXCEPT ![x] = rep[x[2]].next_key]
  /\ rep' = [rep EXCEPT ![x[2]].next_key = @ + 1]
  /\ outflag' = [outflag EXCEPT ![x] = TRUE]

nn_xrep_rm(x) ==
  /\ outkey' = [outkey EXCEPT ![x] = 0]
  /\ outflag' = [outflag EXCEPT ![x] = FALSE]
  /\ inpipes' = [inpipes EXCEPT ![x[2]] = nn_priolist_rm(@, x, 1)]

nn_xreq_rm(x) ==
  lb' = [lb EXCEPT ![x[1]] = nn_priolist_rm(@, x, SndPrio[x])]

(* NN_REQ_ACTION_PIPE_RM when the request went out over this pipe.         *)
nn_req_rm(x, r) ==
  CASE r.sent_to # x      -> r
    [] r.sent_to = x /\ r.state = "ACTIVE" -> LeaveActive(r, "TIMED_OUT")
    [] OTHER              -> [r EXCEPT !.state = "BAD"]

PipeUp(x) ==
  /\ ~up[x] /\ ~req[x[1]].closing
  /\ up' = [up EXCEPT ![x] = TRUE]
  /\ nn_xrep_add(x)
  /\ nn_req_out(x, lb[x[1]], toRep)
  /\ UNCHANGED <<toReq, inpipes, faults>>

(* What is in the pipe is lost.                                            *)
PipeDown(x) ==
  /\ up[x]
  /\ \/ faults < MaxFault /\ faults' = faults + 1
     \/ req[x[1]].closing /\ UNCHANGED faults
  /\ up' = [up EXCEPT ![x] = FALSE]
  /\ toRep' = [toRep EXCEPT ![x] = << >>]
  /\ toReq' = [toReq EXCEPT ![x] = << >>]
  /\ nn_xrep_rm(x) /\ nn_xreq_rm(x)
  /\ req' = [req EXCEPT ![x[1]] = nn_req_rm(x, @)]
  /\ UNCHANGED rep

-----------------------------------------------------------------------------
(* The REP socket                                                          *)

nn_xrep_in(x) ==
  /\ up[x] /\ toRep[x] # << >> /\ ~IsActive(inpipes[x[2]], x, 1)
  /\ inpipes' = [inpipes EXCEPT ![x[2]] = nn_priolist_activate(@, x, 1)]
  /\ UNCHANGED <<req, lb, up, toRep, toReq, outkey, outflag, rep, faults>>

(* The request is taken from the pipe whose turn it is.  The pipe can take *)
(* another message, which the REQ socket hears of.                         *)
nn_xrep_recv(p, x) ==
  LET chan == [toRep EXCEPT ![x] = Tail(@)] IN
  /\ inpipes' = [inpipes EXCEPT ![p] =
                   nn_priolist_advance(@, Len(toRep[x]) = 1)]
  /\ IF Len(toRep[x]) = Cap
       THEN nn_req_out(x, lb[x[1]], chan)
       ELSE toRep' = chan /\ UNCHANGED <<req, lb>>

(* Its key is kept.  A request in progress is dropped.                     *)
nn_rep_recv(p) ==
  /\ nn_priolist_is_active(inpipes[p])
  /\ IF rep[p].inprogress THEN faults < MaxFault /\ faults' = faults + 1
                          ELSE UNCHANGED faults
  /\ LET x == nn_priolist_getpipe(inpipes[p]) IN
     /\ rep' = [rep EXCEPT ![p].inprogress = TRUE, ![p].key = outkey[x],
                           ![p].msg = Head(toRep[x])]
     /\ nn_xrep_recv(p, x)
  /\ UNCHANGED <<up, toReq, outkey, outflag>>

(* A request in progress is dropped, too, when there is none to receive.   *)
nn_rep_recv_again(p) ==
  /\ rep[p].inprogress /\ ~nn_priolist_is_active(inpipes[p])
  /\ faults < MaxFault /\ faults' = faults + 1
  /\ rep' = [rep EXCEPT ![p].inprogress = FALSE]
  /\ UNCHANGED <<req, lb, up, toRep, toReq, outkey, outflag, inpipes>>

(* nn_hash_get in outpipes, if the pipe is ready for sending.              *)
Outpipe(p, k) ==
  {x \in Pipe : up[x] /\ x[2] = p /\ outkey[x] = k /\ outflag[x]}

(* Without a pipe the reply is dropped.                                    *)
nn_xrep_send(p) ==
  \/ /\ Outpipe(p, rep[p].key) = {}
     /\ UNCHANGED <<toReq, outflag>>
  \/ \E x \in Outpipe(p, rep[p].key) :
       /\ toReq' = [toReq EXCEPT ![x] = Append(@, rep[p].msg)]
       /\ outflag' = [outflag EXCEPT ![x] = Len(toReq[x]) + 1 < Cap]

nn_rep_send(p) ==
  /\ rep[p].inprogress
  /\ rep' = [rep EXCEPT ![p].inprogress = FALSE]
  /\ nn_xrep_send(p)
  /\ UNCHANGED <<req, lb, up, toRep, outkey, inpipes, faults>>

-----------------------------------------------------------------------------
Next ==
  \/ \E q \in Req : nn_req_csend(q) \/ nn_req_crecv(q) \/ Timeout(q)
                    \/ TimerStopped(q) \/ Close(q) \/ nn_req_stop(q)
  \/ \E x \in Pipe : nn_req_in(x) \/ PipeUp(x) \/ PipeDown(x) \/ nn_xrep_in(x)
  \/ \E p \in Rep : nn_rep_recv(p) \/ nn_rep_recv_again(p) \/ nn_rep_send(p)

Spec == Init /\ [][Next]_vars

PipeClosed(x) == req[x[1]].closing /\ PipeDown(x)

(* The REP socket's user answers what it receives.                         *)
Answer(p) ==
  nn_rep_send(p) \/ (~rep[p].inprogress /\ nn_rep_recv(p))

(* Workers run, timers expire, the transport connects again and delivers,  *)
(* and the user of a REP socket receives and answers.                      *)
Fairness ==
  /\ \A q \in Req : WF_vars(Timeout(q)) /\ WF_vars(TimerStopped(q))
                    /\ WF_vars(nn_req_stop(q))
  /\ \A x \in Pipe : WF_vars(nn_req_in(x)) /\ WF_vars(PipeUp(x))
                     /\ WF_vars(nn_xrep_in(x)) /\ WF_vars(PipeClosed(x))
  /\ \A p \in Rep : WF_vars(Answer(p))

FairSpec == Spec /\ Fairness

-----------------------------------------------------------------------------
(* No state machine meets an action it has no case for (nn_fsm_bad_action  *)
(* ends the process): the timer runs and the pipe is remembered exactly in *)
(* the state ACTIVE, whatever pipe is lost in whatever state.              *)
NoBadAction ==
  \A q \in Req :
    /\ req[q].state # "BAD"
    /\ (req[q].timer = "active") = (req[q].state = "ACTIVE")
    /\ (req[q].sent_to # NoPipe) = (req[q].state = "ACTIVE")
    /\ req[q].state \in {"TIMED_OUT", "CANCELLING", "STOPPING_TIMER",
                         "STOPPING"} => req[q].timer = "stopping"

(* The user never gets the reply to another request than its last one, of  *)
(* its own socket or of another, through timeouts, cancellations, lost     *)
(* pipes and late replies (nn_req_in, nn_xrep_send).                       *)
OwnReply ==
  \A q \in Req :
    req[q].state = "DONE" /\ req[q].reply.id > 0
      => req[q].reply.body = <<q, req[q].id>>

(* "In DONE state the reply is stored in 'reply' field" (nn_req_events).   *)
ReplyStored ==
  \A q \in Req :
    req[q].state = "DONE" => req[q].reply.body = <<q, req[q].id>>

(* A request is answered in the end, or its socket is closed and stops:    *)
(* re-sending makes up for lost pipes, dropped requests and timeouts.      *)
RequestCompletes ==
  \A q \in Req :
    nn_req_inprogress(req[q]) ~> req[q].state \in {"DONE", "IDLE"}

=============================================================================
