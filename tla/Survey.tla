------------------------------- MODULE Survey -------------------------------
(***************************************************************************)
(* The survey protocol of nanomsg: one SURVEYOR socket (surveyor.c over    *)
(* xsurveyor.c) asks all RESPONDENT sockets (respondent.c over             *)
(* xrespondent.c) and takes their responses until a deadline.  A survey is *)
(* its number, a response is the number of the survey it answers; the      *)
(* name of the respondent in it is a history field.  There is no device in *)
(* between, so a header is one hop long.                                   *)
(***************************************************************************)
EXTENDS PrioList, FiniteSets

CONSTANTS
  Respondent,   \* each has one pipe to the surveyor, of its name
  Cap,
  MaxSurvey,
  MaxFault      \* bound on the pipes that break

VARIABLES
  surveyor,     \* struct nn_surveyor: state, number, timer, timedout
  outpipes,     \* of the surveyor: pipes ready for sending (nn_dist)
  inpipes,      \* of the surveyor: its fair queue
  up,
  toResp, toSurv,
  resp,         \* per respondent: key of its pipe and next_key, OUT flag,
                \* whether a message is reported, the survey in progress
  got,          \* history: what the user received for the last survey
  faults

vars == <<surveyor, outpipes, inpipes, up, toResp, toSurv, resp, got, faults>>

Init ==
  /\ surveyor = [state |-> "PASSIVE", id |-> 0, timer |-> "idle",
                 timedout |-> FALSE, closing |-> FALSE]
  /\ outpipes = {}
  /\ inpipes = EmptyList
  /\ up = {}
  /\ toResp = [r \in Respondent |-> << >>]
  /\ toSurv = [r \in Respondent |-> << >>]
  /\ resp = [r \in Respondent |->
       [key |-> 0, next_key |-> 1, out |-> FALSE, in |-> FALSE,
        inprogress |-> FALSE, from |-> 0, survey |-> 0]]
  /\ got = << >>
  /\ faults = 0

-----------------------------------------------------------------------------
(* The surveyor                                                            *)

nn_surveyor_inprogress ==
  surveyor.state \notin {"IDLE", "PASSIVE", "STOPPING"}

(* nn_surveyor_resend with nn_dist_send, and the deadline starts.          *)
nn_surveyor_resend(id) ==
  /\ surveyor' = [surveyor EXCEPT !.id = id, !.state = "ACTIVE",
                                  !.timer = "active"]
  /\ toResp' = [r \in Respondent |->
       IF r \in outpipes THEN Append(toResp[r], id) ELSE toResp[r]]
  /\ outpipes' = {r \in outpipes : Len(toResp'[r]) < Cap}

Stopping(s) == [s EXCEPT !.timer = IF @ = "active" THEN "stopping" ELSE @]

(* A new survey.  One that is going on is cancelled, and the new one waits *)
(* for the timer to stop.                                                  *)
nn_surveyor_send ==
  /\ ~surveyor.closing /\ surveyor.id < MaxSurvey
  /\ \/ /\ ~nn_surveyor_inprogress
        /\ nn_surveyor_resend(surveyor.id + 1)
     \/ /\ nn_surveyor_inprogress
        /\ surveyor' = [Stopping(surveyor) EXCEPT !.id = @ + 1,
                                                  !.state = "CANCELLING"]
        /\ UNCHANGED <<toResp, outpipes>>
  /\ got' = << >>
  /\ UNCHANGED <<inpipes, up, toSurv, resp, faults>>

(* A variant with a slip: responses to earlier surveys are not told apart. *)
StaleNone(m) == FALSE

Stale(m) == m.survey # surveyor.id

FqTake(q, c) ==
  LET r == nn_priolist_getpipe(q) IN
  [q |-> nn_priolist_advance(q, Len(c[r]) = 1),
   c |-> [c EXCEPT ![r] = Tail(@)], msg |-> Head(c[r])]

(* With a survey going on: stale responses are taken and dropped until one *)
(* to this survey comes or none is left.                                   *)
nn_surveyor_recv ==
  /\ ~surveyor.closing
  /\ nn_surveyor_inprogress /\ nn_priolist_is_active(inpipes)
  /\ LET waiting == Cardinality({w \in Respondent \X (1 .. Cap) :
                                   w[2] <= Len(toSurv[w[1]])})
         take[k \in 1 .. waiting] ==
           IF k = 1 THEN FqTake(inpipes, toSurv)
           ELSE LET t == take[k - 1] IN
                IF ~Stale(t.msg) \/ ~nn_priolist_is_active(t.q)
                  THEN t ELSE FqTake(t.q, t.c)
         last == take[waiting] IN
     /\ inpipes' = last.q
     /\ toSurv' = last.c
     /\ got' = IF Stale(last.msg) THEN got ELSE Append(got, last.msg)
  /\ UNCHANGED <<surveyor, outpipes, up, toResp, resp, faults>>

(* Without one: -ETIMEDOUT once, then -EFSM.                               *)
RecvTimedOut ==
  /\ ~surveyor.closing /\ ~nn_surveyor_inprogress /\ surveyor.timedout
  /\ surveyor' = [surveyor EXCEPT !.timedout = FALSE]
  /\ UNCHANGED <<outpipes, inpipes, up, toResp, toSurv, resp, got, faults>>

(* A variant with a slip: the timer is not stopped after the deadline.     *)
DeadlineRunning ==
  /\ surveyor.timer = "active"
  /\ surveyor' = IF surveyor.state = "ACTIVE"
                   THEN [surveyor EXCEPT !.state = "PASSIVE",
                                         !.timedout = TRUE]
                   ELSE [surveyor EXCEPT !.state = "BAD"]
  /\ UNCHANGED <<outpipes, inpipes, up, toResp, toSurv, resp, got, faults>>

(* NN_TIMER_TIMEOUT.                                                       *)
Deadline ==
  /\ surveyor.timer = "active"
  /\ surveyor' = IF surveyor.state = "ACTIVE"
                   THEN [Stopping(surveyor) EXCEPT !.state = "STOPPING_TIMER",
                                                   !.timedout = TRUE]
                   ELSE [surveyor EXCEPT !.state = "BAD"]
  /\ UNCHANGED <<outpipes, inpipes, up, toResp, toSurv, resp, got, faults>>

(* The socket is stopped when its timer is idle.                           *)
nn_surveyor_shutdown(s) ==
  [s EXCEPT !.state = IF s.timer = "idle" THEN "IDLE" ELSE "STOPPING"]

(* NN_TIMER_STOPPED: the survey that waited is sent, the expired one is    *)
(* over, or nn_surveyor_shutdown ends.                                     *)
TimerStopped ==
  /\ surveyor.timer = "stopping"
  /\ \/ /\ surveyor.state = "CANCELLING"
        /\ nn_surveyor_resend(surveyor.id)
     \/ /\ surveyor.state = "STOPPING_TIMER"
        /\ surveyor' = [surveyor EXCEPT !.state = "PASSIVE", !.timer = "idle"]
        /\ UNCHANGED <<toResp, outpipes>>
     \/ /\ surveyor.state = "STOPPING"
        /\ surveyor' = nn_surveyor_shutdown([surveyor EXCEPT !.timer = "idle"])
        /\ UNCHANGED <<toResp, outpipes>>
  /\ UNCHANGED <<inpipes, up, toSurv, resp, got, faults>>

Close ==
  /\ ~surveyor.closing /\ surveyor.id = MaxSurvey
  /\ surveyor' = [surveyor EXCEPT !.closing = TRUE]
  /\ UNCHANGED <<outpipes, inpipes, up, toResp, toSurv, resp, got, faults>>

(* Once the core has removed the pipes.                                    *)
nn_surveyor_stop ==
  /\ surveyor.closing /\ surveyor.state \notin {"STOPPING", "IDLE"} /\ up = {}
  /\ surveyor' = nn_surveyor_shutdown(Stopping(surveyor))
  /\ UNCHANGED <<outpipes, inpipes, up, toResp, toSurv, resp, got, faults>>

(* A response waits in the pipe of r, or there is room for a survey.       *)
nn_xsurveyor_in(r) ==
  /\ r \in up /\ toSurv[r] # << >> /\ ~IsActive(inpipes, r, 1)
  /\ inpipes' = nn_priolist_activate(inpipes, r, 1)
  /\ UNCHANGED <<surveyor, outpipes, up, toResp, toSurv, resp, got, faults>>

nn_xsurveyor_out(r) ==
  /\ r \in up \ outpipes /\ Len(toResp[r]) < Cap
  /\ outpipes' = outpipes \cup {r}
  /\ UNCHANGED <<surveyor, inpipes, up, toResp, toSurv, resp, got, faults>>

-----------------------------------------------------------------------------
(* Pipes, with the first out events                                        *)

nn_xsurveyor_add(r) == outpipes' = outpipes \cup {r}

nn_xsurveyor_rm(r) ==
  /\ outpipes' = outpipes \ {r}
  /\ inpipes' = nn_priolist_rm(inpipes, r, 1)

nn_xrespondent_add(r) ==
  resp' = [resp EXCEPT ![r].key = resp[r].next_key, ![r].next_key = @ + 1,
                       ![r].out = TRUE]

nn_xrespondent_rm(r) ==
  resp' = [resp EXCEPT ![r].key = 0, ![r].out = FALSE, ![r].in = FALSE]

PipeUp(r) ==
  /\ r \notin up /\ ~surveyor.closing
  /\ up' = up \cup {r}
  /\ nn_xsurveyor_add(r) /\ nn_xrespondent_add(r)
  /\ UNCHANGED <<surveyor, inpipes, toResp, toSurv, got, faults>>

PipeDown(r) ==
  /\ r \in up
  /\ \/ surveyor.closing /\ UNCHANGED faults
     \/ faults < MaxFault /\ faults' = faults + 1
  /\ up' = up \ {r}
  /\ nn_xsurveyor_rm(r) /\ nn_xrespondent_rm(r)
  /\ toResp' = [toResp EXCEPT ![r] = << >>]
  /\ toSurv' = [toSurv EXCEPT ![r] = << >>]
  /\ UNCHANGED <<surveyor, got>>

-----------------------------------------------------------------------------
(* The respondents                                                         *)

nn_xrespondent_in(r) ==
  /\ r \in up /\ toResp[r] # << >> /\ ~resp[r].in
  /\ resp' = [resp EXCEPT ![r].in = TRUE]
  /\ UNCHANGED <<surveyor, outpipes, inpipes, up, toResp, toSurv, got, faults>>

nn_xrespondent_out(r) ==
  /\ r \in up /\ Len(toSurv[r]) < Cap /\ ~resp[r].out
  /\ resp' = [resp EXCEPT ![r].out = TRUE]
  /\ UNCHANGED <<surveyor, outpipes, inpipes, up, toResp, toSurv, got, faults>>

(* The survey is taken out of the pipe, with the key of the pipe.          *)
nn_xrespondent_recv(r) ==
  /\ resp[r].in
  /\ toResp' = [toResp EXCEPT ![r] = Tail(@)]

(* It is kept; a survey in progress is forgotten.                          *)
nn_respondent_recv(r) ==
  /\ nn_xrespondent_recv(r)
  /\ resp' = [resp EXCEPT ![r].inprogress = TRUE, ![r].from = resp[r].key,
                          ![r].survey = Head(toResp[r]),
                          ![r].in = Len(toResp[r]) > 1]
  /\ UNCHANGED <<surveyor, outpipes, inpipes, up, toSurv, got, faults>>

(* So it is when there is no other to receive.                             *)
nn_respondent_recv_again(r) ==
  /\ resp[r].inprogress /\ ~resp[r].in
  /\ resp' = [resp EXCEPT ![r].inprogress = FALSE]
  /\ UNCHANGED <<surveyor, outpipes, inpipes, up, toResp, toSurv, got, faults>>

(* The response is dropped when the pipe it is for is gone or not ready.   *)
nn_xrespondent_send(r) ==
  \/ /\ resp[r].from = resp[r].key /\ resp[r].out
     /\ toSurv' = [toSurv EXCEPT ![r] =
                     Append(@, [survey |-> resp[r].survey, by |-> r])]
     /\ resp' = [resp EXCEPT ![r].inprogress = FALSE,
                             ![r].out = Len(toSurv[r]) + 1 < Cap]
  \/ /\ resp[r].from # resp[r].key \/ ~resp[r].out
     /\ resp' = [resp EXCEPT ![r].inprogress = FALSE]
     /\ UNCHANGED toSurv

nn_respondent_send(r) ==
  /\ resp[r].inprogress
  /\ nn_xrespondent_send(r)
  /\ UNCHANGED <<surveyor, outpipes, inpipes, up, toResp, got, faults>>

-----------------------------------------------------------------------------
Next ==
  \/ nn_surveyor_send \/ nn_surveyor_recv \/ RecvTimedOut \/ Deadline
  \/ TimerStopped \/ Close \/ nn_surveyor_stop
  \/ \E r \in Respondent :
       \/ nn_xsurveyor_in(r) \/ nn_xsurveyor_out(r)
       \/ nn_xrespondent_in(r) \/ nn_xrespondent_out(r)
       \/ PipeUp(r) \/ PipeDown(r)
       \/ nn_respondent_recv(r) \/ nn_respondent_recv_again(r)
       \/ nn_respondent_send(r)

Spec == Init /\ [][Next]_vars

PipeClosed(r) == surveyor.closing /\ PipeDown(r)

(* Deadlines pass, the worker stops timers and the core ends a close.      *)
Fairness ==
  /\ WF_vars(Deadline) /\ WF_vars(TimerStopped) /\ WF_vars(nn_surveyor_stop)
  /\ \A r \in Respondent : WF_vars(PipeClosed(r))

FairSpec == Spec /\ Fairness

-----------------------------------------------------------------------------
(* The state machine meets no event it has no case for: the deadline runs  *)
(* exactly while a survey is out, and a timer that is being stopped has a  *)
(* state that waits for it, whichever calls come in between.               *)
SurveyorStates ==
  /\ surveyor.state # "BAD"
  /\ (surveyor.timer = "active") = (surveyor.state = "ACTIVE")
  /\ (surveyor.timer = "stopping") =
       (surveyor.state \in {"CANCELLING", "STOPPING_TIMER", "STOPPING"})

(* The user gets responses to the last survey only, at most one from each  *)
(* respondent, whatever was cancelled, late, or sent over a pipe that has  *)
(* since been replaced.                                                    *)
OwnResponses ==
  \A j \in DOMAIN got :
    /\ got[j].survey = surveyor.id
    /\ \A i \in 1 .. j - 1 : got[i].by # got[j].by

(* Every survey ends: the socket becomes passive, or closed.               *)
SurveyEnds ==
  nn_surveyor_inprogress ~> surveyor.state \in {"PASSIVE", "IDLE"}

=============================================================================
