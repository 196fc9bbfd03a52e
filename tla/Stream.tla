------------------------------- MODULE Stream -------------------------------
(***************************************************************************)
(* What the stream transports of nanomsg share: the asynchronous socket    *)
(* (usock_posix.inc), the timer (timer.c), the retry timer (backoff.c) and *)
(* the exchange of protocol headers (streamhdr.c).                         *)
(*                                                                         *)
(* A connection is a record r: the state of each machine of its stack and  *)
(* the events it raised, ev.  A function of the code is an operator that   *)
(* gives the next record, or the set of them where the kernel decides.  A  *)
(* machine that has stopped is STOPPED until its owner has the event       *)
(* (nn_fsm_isidle) and IDLE then.  bad: the process has aborted, on an     *)
(* event no state has a case for or on an assertion.                       *)
(***************************************************************************)
EXTENDS Sequences, Naturals

(* The coincidences that may happen: "timer", the socket has sent or       *)
(* received while streamhdr stops its timer; "bind", the local address is  *)
(* gone after it was resolved; "memory", a new endpoint is not zero where  *)
(* it is not set.                                                          *)
CONSTANT Rare

Fresh ==
  [usock |-> "IDLE", owner |-> "ep", rx |-> FALSE, tx |-> FALSE,
   hdr |-> "IDLE", timer |-> "IDLE", stream |-> "IDLE", in |-> "NONE",
   out |-> "NONE", pipe |-> FALSE, ep |-> "IDLE", retry |-> "IDLE",
   dns |-> "IDLE", ev |-> << >>, bad |-> FALSE]

(* nn_fsm_raise: the event goes to whoever is the owner now.               *)
Raise(r, to, type) == [r EXCEPT !.ev = Append(@, [to |-> to, type |-> type])]

Bad(r) == [r EXCEPT !.bad = TRUE]

(* The events a machine raises from one struct.  A struct is in the queue  *)
(* at most once: nn_queue_push asserts that it is not there yet.           *)
OneStruct ==
  {{"USOCK_SHUTDOWN", "USOCK_ERROR"}, {"USOCK_CONNECTED", "USOCK_ACCEPTED"},
   {"STREAMHDR_OK", "STREAMHDR_ERROR"}, {"STREAM_ERROR", "STREAM_CLOSED"}}

QueuedOnce(queue) ==
  \A i, j \in DOMAIN queue :
    i < j /\ queue[i].c = queue[j].c =>
      LET types == {queue[i].type, queue[j].type} IN
      types \notin OneStruct /\ queue[i].type # queue[j].type

(* The machine that ends with an event is idle when the event is taken     *)
(* from the queue.                                                         *)
Ends == [USOCK_STOPPED |-> "usock", TIMER_STOPPED |-> "timer",
         BACKOFF_STOPPED |-> "retry", DNS_STOPPED |-> "dns",
         STREAMHDR_STOPPED |-> "hdr", STREAM_STOPPED |-> "stream"]

Taken(r, type) ==
  IF type \in DOMAIN Ends THEN [r EXCEPT ![Ends[type]] = "IDLE"] ELSE r

-----------------------------------------------------------------------------
(* usock                                                                   *)

(* NN_USOCK_ACTION_ERROR: the worker is asked to remove the socket.        *)
nn_usock_error(r) ==
  CASE r.usock = "ACTIVE" ->
         Raise([r EXCEPT !.usock = "REMOVING_FD", !.rx = FALSE, !.tx = FALSE],
               r.owner, "USOCK_SHUTDOWN")
    [] r.usock \in {"REMOVING_FD", "DONE", "STOPPING"} -> r
    [] OTHER -> Bad(r)

(* nn_usock_send and nn_usock_recv: done at once, left to the worker, or   *)
(* failed.                                                                 *)
nn_usock_send(r) ==
  IF r.usock # "ACTIVE" THEN {nn_usock_error(r)}
  ELSE {Raise(r, r.owner, "USOCK_SENT"), [r EXCEPT !.tx = TRUE],
        nn_usock_error(r)}

nn_usock_recv(r) ==
  IF r.usock # "ACTIVE" THEN {nn_usock_error(r)}
  ELSE {Raise(r, r.owner, "USOCK_RECEIVED"), [r EXCEPT !.rx = TRUE],
        nn_usock_error(r)}

(* nn_usock_stop; a socket that is being accepted cancels that first.      *)
nn_usock_stop(r) ==
  CASE r.usock \in {"IDLE", "STOPPED", "STOPPING", "STOPPING_ACCEPT"} -> r
    [] r.usock \in {"DONE", "STARTING", "ACCEPTED"} ->
         Raise([r EXCEPT !.usock = "STOPPED"], r.owner, "USOCK_STOPPED")
    [] r.usock = "BEING_ACCEPTED" -> [r EXCEPT !.usock = "STOPPING_ACCEPT"]
    [] r.usock = "REMOVING_FD" -> [r EXCEPT !.usock = "STOPPING"]
    [] r.usock \in {"ACTIVE", "CONNECTING"} ->
         Raise([r EXCEPT !.usock = "STOPPING", !.rx = FALSE, !.tx = FALSE],
               r.owner, "USOCK_SHUTDOWN")

Failed(r) ==
  Raise([r EXCEPT !.usock = "DONE", !.rx = FALSE, !.tx = FALSE],
        r.owner, "USOCK_ERROR")

(* nn_usock_handler and nn_usock_shutdown, on what the worker finds.       *)
UsockEvents(r) ==
  CASE r.usock = "CONNECTING" ->
         {Raise([r EXCEPT !.usock = "ACTIVE"], r.owner, "USOCK_CONNECTED"),
          Failed(r)}
    [] r.usock = "ACTIVE" ->
         {Failed(r)}
         \cup {n \in {Raise([r EXCEPT !.rx = FALSE],
                             r.owner, "USOCK_RECEIVED")} : r.rx}
         \cup {n \in {Raise([r EXCEPT !.tx = FALSE], r.owner, "USOCK_SENT")}
                 : r.tx}
    [] r.usock = "REMOVING_FD" -> {Failed(r)}
    [] r.usock = "STOPPING" ->
         {Raise([r EXCEPT !.usock = "STOPPED"], r.owner, "USOCK_STOPPED")}
    [] OTHER -> {}

-----------------------------------------------------------------------------
(* Timers: timer (of streamhdr) and retry (backoff)                        *)

nn_timer_start(r, t) ==
  IF r[t] = "IDLE" THEN [r EXCEPT ![t] = "ACTIVE"] ELSE Bad(r)

nn_timer_stop(r, t) ==
  IF r[t] = "ACTIVE" THEN [r EXCEPT ![t] = "STOPPING"] ELSE r

TimerEvents(r) ==
  CASE r.timer = "ACTIVE" -> {Raise(r, "hdr", "TIMER_TIMEOUT")}
    [] r.timer = "STOPPING" ->
         {Raise([r EXCEPT !.timer = "STOPPED"], "hdr", "TIMER_STOPPED")}
    [] OTHER -> {}

BackoffEvents(r) ==
  CASE r.retry = "ACTIVE" -> {Raise(r, "ep", "BACKOFF_TIMEOUT")}
    [] r.retry = "STOPPING" ->
         {Raise([r EXCEPT !.retry = "STOPPED"], "ep", "BACKOFF_STOPPED")}
    [] OTHER -> {}

-----------------------------------------------------------------------------
(* streamhdr                                                               *)

(* nn_streamhdr_start: it owns the socket until the headers are exchanged. *)
nn_streamhdr_start(r) ==
  nn_usock_send([nn_timer_start(r, "timer")
                   EXCEPT !.owner = "hdr", !.hdr = "SENDING"])

(* nn_streamhdr_shutdown, once the timer is idle.                          *)
nn_streamhdr_shutdown(r) ==
  IF r.timer # "IDLE" THEN r
  ELSE Raise([r EXCEPT !.hdr = "STOPPED"], "stream", "STREAMHDR_STOPPED")

nn_streamhdr_stop(r) ==
  IF r.hdr \in {"IDLE", "STOPPED", "STOPPING"} THEN r
  ELSE nn_streamhdr_shutdown([nn_timer_stop(r, "timer")
                                EXCEPT !.hdr = "STOPPING"])

GiveUp(r) ==
  [nn_timer_stop(r, "timer") EXCEPT !.hdr = "STOPPING_TIMER_ERROR"]

(* A variant with a slip: a shutdown of the socket is not expected.        *)
nn_streamhdr_sendingStrict(r, type) ==
  CASE type = "USOCK_SENT" -> nn_usock_recv([r EXCEPT !.hdr = "RECEIVING"])
    [] type \in {"USOCK_ERROR", "TIMER_TIMEOUT"} -> {GiveUp(r)}
    [] OTHER -> {Bad(r)}

(* The state SENDING.                                                      *)
nn_streamhdr_sending(r, type) ==
  CASE type = "USOCK_SENT" -> nn_usock_recv([r EXCEPT !.hdr = "RECEIVING"])
    [] type = "USOCK_SHUTDOWN" -> {r}
    [] type \in {"USOCK_ERROR", "TIMER_TIMEOUT"} -> {GiveUp(r)}
    [] OTHER -> {Bad(r)}

(* The state RECEIVING: the peer speaks the protocol, or it does not.      *)
nn_streamhdr_receiving(r, type) ==
  CASE type = "USOCK_RECEIVED" ->
         {GiveUp(r), [nn_timer_stop(r, "timer")
                        EXCEPT !.hdr = "STOPPING_TIMER_DONE"]}
    [] type = "USOCK_SHUTDOWN" -> {r}
    [] type \in {"USOCK_ERROR", "TIMER_TIMEOUT"} -> {GiveUp(r)}
    [] OTHER -> {Bad(r)}

(* The states STOPPING_TIMER_ERROR and STOPPING_TIMER_DONE: the socket     *)
(* goes back to its owner when the timer has stopped; until then an error  *)
(* is ignored, and the code asserts that nothing else comes.               *)
nn_streamhdr_stopping_timer(r, type) ==
  CASE type = "USOCK_ERROR" -> {r}
    [] type = "TIMER_STOPPED" ->
         {Raise([r EXCEPT !.owner = "stream", !.hdr = "DONE"], "stream",
                IF r.hdr = "STOPPING_TIMER_DONE" THEN "STREAMHDR_OK"
                                                 ELSE "STREAMHDR_ERROR")}
    [] OTHER -> {Bad(r)}

(* What the worker finds on a socket under streamhdr.                      *)
Found(r) ==
  {n \in UsockEvents(r) :
     \/ "timer" \in Rare \/ n.usock = "DONE"
     \/ r.hdr \notin {"STOPPING_TIMER_ERROR", "STOPPING_TIMER_DONE"}}

nn_streamhdr_handler(r, type) ==
  CASE r.hdr = "SENDING" -> nn_streamhdr_sending(r, type)
    [] r.hdr = "RECEIVING" -> nn_streamhdr_receiving(r, type)
    [] r.hdr \in {"STOPPING_TIMER_ERROR", "STOPPING_TIMER_DONE"} ->
         nn_streamhdr_stopping_timer(r, type)
    [] r.hdr = "STOPPING" -> {nn_streamhdr_shutdown(r)}
    [] OTHER -> {Bad(r)}

=============================================================================
