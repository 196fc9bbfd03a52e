------------------------------- MODULE Device -------------------------------
(***************************************************************************)
(* nn_device (devices/device.c): what it accepts, and the one or two       *)
(* threads that move messages from one of its sockets to the other until a *)
(* socket is closed.  Sockets are 1 and 2; a message is a number.          *)
(***************************************************************************)
EXTENDS Naturals, Sequences

CONSTANTS
  Kinds,     \* kinds of sockets: domain, protocol family, directions
  MaxMsg     \* bound on the messages that come to a socket

VARIABLES
  kind,      \* the sockets given to the device, NoSocket for a negative one
  came,      \* the messages that came to each socket
  taken,     \* how many of them were received
  out,       \* the messages that were sent on each socket
  fwd,       \* the threads that move messages, by their direction
  open       \* the sockets that are open

vars == <<kind, came, taken, out, fwd, open>>

NoSocket == [raw |-> FALSE, family |-> "none", rcv |-> FALSE, snd |-> FALSE]

(* nn_device_loopback takes a raw socket.                                  *)
nn_device_loopback(s) == IF kind[s].raw THEN {<<s, s>>} ELSE {}

nn_device_oneway(s, t) == {<<s, t>>}
nn_device_twoway(s, t) == {<<s, t>>, <<t, s>>}

(* nn_device_entry: the directions that are served, none for an error, or  *)
(* the assertion at its end.                                               *)
Assert == {<<0, 0>>}

nn_device_entry ==
  LET a == kind[1]
      b == kind[2] IN
  IF a = NoSocket /\ b = NoSocket THEN {}
  ELSE IF b = NoSocket THEN nn_device_loopback(1)
  ELSE IF a = NoSocket THEN nn_device_loopback(2)
  ELSE IF ~a.raw \/ ~b.raw \/ a.family # b.family THEN {}
  ELSE IF (a.rcv /\ ~b.snd) \/ (a.snd /\ ~b.rcv)
            \/ (b.rcv /\ ~a.snd) \/ (b.snd /\ ~a.rcv) THEN {}
  ELSE IF a.rcv /\ a.snd /\ b.rcv /\ b.snd THEN nn_device_twoway(1, 2)
  ELSE IF a.rcv /\ ~a.snd /\ ~b.rcv /\ b.snd THEN nn_device_oneway(1, 2)
  ELSE IF ~a.rcv /\ a.snd /\ b.rcv /\ ~b.snd THEN nn_device_oneway(2, 1)
  ELSE Assert

Init ==
  /\ kind \in [1 .. 2 -> Kinds \cup {NoSocket}]
  /\ came = [s \in 1 .. 2 |-> 0]
  /\ taken = [s \in 1 .. 2 |-> 0]
  /\ out = [s \in 1 .. 2 |-> << >>]
  /\ fwd = [d \in nn_device_entry |-> [pc |-> "recv", msg |-> 0]]
  /\ open = {s \in 1 .. 2 : kind[s] # NoSocket}

(* nn_device_forwarder: each call of nn_device_mvmsg receives a message,   *)
(* blocking, and sends it; EBADF ends the thread, and what it holds.       *)
nn_device_mvmsg(d) ==
  LET from == d[1]
      to == d[2] IN
  \/ /\ fwd[d].pc = "recv" /\ from \in open /\ taken[from] < came[from]
     /\ fwd' = [fwd EXCEPT ![d] = [pc |-> "send", msg |-> taken[from] + 1]]
     /\ taken' = [taken EXCEPT ![from] = @ + 1]
     /\ UNCHANGED <<kind, came, out, open>>
  \/ /\ fwd[d].pc = "send" /\ to \in open
     /\ fwd' = [fwd EXCEPT ![d] = [pc |-> "recv", msg |-> 0]]
     /\ out' = [out EXCEPT ![to] = Append(@, fwd[d].msg)]
     /\ UNCHANGED <<kind, came, taken, open>>
  \/ /\ \/ fwd[d].pc = "recv" /\ from \notin open
        \/ fwd[d].pc = "send" /\ to \notin open
     /\ fwd' = [fwd EXCEPT ![d].pc = "ended"]
     /\ UNCHANGED <<kind, came, taken, out, open>>

(* A message comes to a socket that receives.                              *)
Arrive(s) ==
  /\ s \in open /\ kind[s].rcv /\ came[s] < MaxMsg
  /\ came' = [came EXCEPT ![s] = @ + 1]
  /\ UNCHANGED <<kind, taken, out, fwd, open>>

(* Another thread closes a socket.                                         *)
Close(s) ==
  /\ s \in open
  /\ open' = open \ {s}
  /\ UNCHANGED <<kind, came, taken, out, fwd>>

Next ==
  \/ \E d \in DOMAIN fwd : nn_device_mvmsg(d)
  \/ \E s \in 1 .. 2 : Arrive(s) \/ Close(s)

(* nn_device_twoway joins both threads before it returns.                  *)
Returned == \A d \in DOMAIN fwd : fwd[d].pc = "ended"

-----------------------------------------------------------------------------
(* nn_device never comes to the assertion at its end, and it serves every  *)
(* direction in which one socket receives and the other one sends.         *)
EveryDirection ==
  /\ DOMAIN fwd # Assert
  /\ DOMAIN fwd # {} /\ NoSocket \notin {kind[1], kind[2]} =>
       DOMAIN fwd = {d \in (1 .. 2) \X (1 .. 2) :
                       d[1] # d[2] /\ kind[d[1]].rcv /\ kind[d[2]].snd}

(* What comes to a socket leaves through the other one, once and in order; *)
(* only a message in a thread that has ended is missing.                   *)
Forwarded ==
  \A d \in DOMAIN fwd :
    /\ out[d[2]] = [i \in 1 .. Len(out[d[2]]) |-> i]
    /\ Len(out[d[2]]) = taken[d[1]] - IF fwd[d].msg = 0 THEN 0 ELSE 1

(* When both sockets are closed nn_device returns.                         *)
DeviceEnds == [](open = {} => <>Returned)

=============================================================================
