------------------------------ MODULE Patterns ------------------------------
(***************************************************************************)
(* The one-way and symmetric protocols of nanomsg over their pipes: PUB    *)
(* and SUB (xpub.c, xsub.c), PUSH and PULL (xpush.c, xpull.c), PAIR        *)
(* (xpair.c) and BUS (bus.c, xbus.c), with the helpers they send and       *)
(* receive through: dist.c, lb.c, fq.c and excl.c.                         *)
(*                                                                         *)
(* A link {a, b} that is up is a pipe between two sockets; its direction   *)
(* <<a, b>> holds up to Cap messages.  What the transport reports to a     *)
(* socket, that a message is in the pipe or that the pipe has room, is a   *)
(* step of its own.  A message is its sender, a number and a topic.  The   *)
(* socket of kind DEV is a raw BUS socket in a device that sends what it   *)
(* receives on to the other pipes.                                         *)
(***************************************************************************)
EXTENDS PrioList, FiniteSets

CONSTANTS
  Kind,       \* the type of each socket
  Nets,       \* topologies, sets of links
  PipePrio,   \* NN_SNDPRIO and NN_RCVPRIO of each direction
  Topics, Wanted,   \* of the messages of PUB, and of the SUB sockets
  Cap,
  MaxMsg,     \* bound on what each socket sends
  MaxFault    \* bound on the links that break

VARIABLES
  net,     \* the topology
  up,      \* the links that are up
  chan,    \* the messages in each direction
  dist,    \* outpipes of PUB, BUS and DEV: the directions ready for sending
  lb,      \* of PUSH
  fq,      \* of SUB, PULL, BUS and DEV
  excl,    \* of PAIR
  hold,    \* the message in a device, and where it came from
  sent, got,   \* how many messages each socket sent, which it received
  skipped,     \* how often each direction was ready and passed over
  faults

vars == <<net, up, chan, dist, lb, fq, excl, hold, sent, got, skipped, faults>>

Socket == DOMAIN Kind
Dir == DOMAIN PipePrio
Spreads(a) == Kind[a] \in {"PUB", "BUS", "DEV"}
Queues(a) == Kind[a] \in {"SUB", "PULL", "BUS", "DEV"}

(* Messages go from a to b.                                                *)
Carries(x) == Kind[x[1]] \notin {"SUB", "PULL"} /\ Kind[x[2]] # "PUB"

NoMsg == [from |-> NoPipe, no |-> 0, topic |-> NoPipe]

Init ==
  /\ net \in Nets
  /\ up = {}
  /\ chan = [x \in Dir |-> << >>]
  /\ dist = [a \in Socket |-> {}]
  /\ lb = [a \in Socket |-> EmptyList]
  /\ fq = [a \in Socket |-> EmptyList]
  /\ excl = [a \in Socket |-> [pipe |-> NoPipe, in |-> FALSE, out |-> FALSE]]
  /\ hold = [a \in Socket |-> [msg |-> NoMsg, pipe |-> NoPipe]]
  /\ sent = [a \in Socket |-> 0]
  /\ got = [a \in Socket |-> << >>]
  /\ skipped = [x \in Dir |-> 0]
  /\ faults = 0

-----------------------------------------------------------------------------
(* What the helpers do with a pipe x of its socket.                        *)

nn_dist_out(d, x) == d \cup {x}

nn_lb_out(l, x) == nn_priolist_activate(l, x, PipePrio[x])

nn_lb_rm(l, x) == nn_priolist_rm(l, x, PipePrio[x])

nn_fq_in(q, x) == nn_priolist_activate(q, x, PipePrio[x])

nn_fq_rm(q, x) == nn_priolist_rm(q, x, PipePrio[x])

(* nn_excl_add refuses a second pipe, and its link does not come up.       *)
nn_excl_add(a) == Kind[a] = "PAIR" => excl[a].pipe = NoPipe

nn_excl_rm(e) == [pipe |-> NoPipe, in |-> FALSE, out |-> FALSE]

(* A variant with a slip: the pipe of the sender is not left out.          *)
nn_dist_sendAll(a, m, exclude) ==
  /\ chan' = [x \in Dir |-> IF x \in dist[a] THEN Append(chan[x], m)
                                             ELSE chan[x]]
  /\ dist' = [dist EXCEPT ![a] = {x \in @ : Len(chan'[x]) < Cap}]

(* nn_dist_send: a copy to every pipe but one; pipes that are full leave   *)
(* the list.                                                               *)
nn_dist_send(a, m, exclude) ==
  /\ chan' = [x \in Dir |-> IF x \in dist[a] \ {exclude}
                              THEN Append(chan[x], m) ELSE chan[x]]
  /\ dist' = [dist EXCEPT ![a] = {x \in @ : Len(chan'[x]) < Cap}]

-----------------------------------------------------------------------------
(* Pipes come and go: nn_xpub_add, nn_xsub_add, ..., with the first out    *)
(* event of each end that sends, and nn_xpub_rm, nn_xsub_rm, ...           *)

Ends(e) == {x \in Dir : {x[1], x[2]} = e /\ Carries(x)}

(* PUB and BUS: nn_dist_add and nn_dist_out.                               *)
nn_xpub_add(e) ==
  dist' = [a \in Socket |->
    IF a \in e /\ Spreads(a)
      THEN dist[a] \cup {x \in Ends(e) : x[1] = a} ELSE dist[a]]

nn_xpub_rm(e) == dist' = [a \in Socket |-> dist[a] \ Ends(e)]

(* SUB, PULL and BUS: nothing is to be received from a new pipe.           *)
nn_xsub_rm(e) ==
  fq' = [a \in Socket |->
    IF a \in e /\ Queues(a)
      THEN nn_fq_rm(fq[a], CHOOSE x \in Ends(e) : x[2] = a) ELSE fq[a]]

nn_xpush_add(e) ==
  lb' = [a \in Socket |->
    IF a \in e /\ Kind[a] = "PUSH"
      THEN nn_lb_out(lb[a], CHOOSE x \in Ends(e) : x[1] = a) ELSE lb[a]]

nn_xpush_rm(e) ==
  lb' = [a \in Socket |->
    IF a \in e /\ Kind[a] = "PUSH"
      THEN nn_lb_rm(lb[a], CHOOSE x \in Ends(e) : x[1] = a) ELSE lb[a]]

nn_xpair_add(e) ==
  excl' = [a \in Socket |->
    IF a \in e /\ Kind[a] = "PAIR"
      THEN [pipe |-> e, in |-> FALSE, out |-> TRUE] ELSE excl[a]]

nn_xpair_rm(e) ==
  excl' = [a \in Socket |->
    IF a \in e /\ Kind[a] = "PAIR" THEN nn_excl_rm(excl[a]) ELSE excl[a]]

(* The header of a message in a device is the address of a pipe.  When the *)
(* pipe is gone, the memory may be given to a new pipe of the device.      *)
Dangling(a) == hold[a].msg # NoMsg /\ hold[a].pipe = NoPipe

Allocated(e, same) ==
  hold' = [a \in Socket |->
    IF a \in same /\ Dangling(a)
      THEN [hold[a] EXCEPT !.pipe = CHOOSE x \in Ends(e) : x[1] = a]
      ELSE hold[a]]

Freed(e) ==
  hold' = [a \in Socket |->
    IF hold[a].pipe \in Ends(e) THEN [hold[a] EXCEPT !.pipe = NoPipe]
                                ELSE hold[a]]

Connect(e) ==
  /\ e \in net \ up /\ \A a \in e : nn_excl_add(a)
  /\ up' = up \cup {e}
  /\ nn_xpub_add(e) /\ nn_xpush_add(e) /\ nn_xpair_add(e)
  /\ \E same \in SUBSET e : Allocated(e, same)
  /\ UNCHANGED <<net, chan, fq, sent, got, skipped, faults>>

(* The messages in the pipe are lost.                                      *)
Disconnect(e) ==
  /\ e \in up /\ faults < MaxFault /\ faults' = faults + 1
  /\ up' = up \ {e}
  /\ chan' = [x \in Dir |-> IF x \in Ends(e) THEN << >> ELSE chan[x]]
  /\ skipped' = [x \in Dir |-> IF x \in Ends(e) THEN 0 ELSE skipped[x]]
  /\ nn_xpub_rm(e) /\ nn_xpush_rm(e) /\ nn_xsub_rm(e) /\ nn_xpair_rm(e)
  /\ Freed(e)
  /\ UNCHANGED <<net, sent, got>>

(* A message waits in the pipe: nn_xsub_in, nn_xpull_in, nn_xbus_in and    *)
(* nn_xpair_in.                                                            *)
In(x) ==
  LET b == x[2] IN
  /\ {x[1], b} \in up /\ chan[x] # << >>
  /\ \/ /\ Queues(b) /\ ~IsActive(fq[b], x, PipePrio[x])
        /\ fq' = [fq EXCEPT ![b] = nn_fq_in(@, x)]
        /\ UNCHANGED excl
     \/ /\ Kind[b] = "PAIR" /\ ~excl[b].in
        /\ excl' = [excl EXCEPT ![b].in = TRUE]
        /\ UNCHANGED fq
  /\ UNCHANGED <<net, up, chan, dist, lb, hold, sent, got, skipped, faults>>

Ready(x) ==
  LET a == x[1] IN
  \/ x \in dist[a]
  \/ IsActive(lb[a], x, PipePrio[x])
  \/ excl[a].out

(* The pipe has room again: nn_xpub_out, nn_xbus_out, nn_xpush_out and     *)
(* nn_xpair_out.                                                           *)
Out(x) ==
  LET a == x[1] IN
  /\ {a, x[2]} \in up /\ Carries(x) /\ Len(chan[x]) < Cap /\ ~Ready(x)
  /\ \/ /\ Spreads(a)
        /\ dist' = [dist EXCEPT ![a] = nn_dist_out(@, x)]
        /\ UNCHANGED <<lb, excl>>
     \/ /\ Kind[a] = "PUSH"
        /\ lb' = [lb EXCEPT ![a] = nn_lb_out(@, x)]
        /\ UNCHANGED <<dist, excl>>
     \/ /\ Kind[a] = "PAIR"
        /\ excl' = [excl EXCEPT ![a].out = TRUE]
        /\ UNCHANGED <<dist, lb>>
  /\ UNCHANGED <<net, up, chan, fq, hold, sent, got, skipped, faults>>

-----------------------------------------------------------------------------
(* Sending                                                                 *)

Message(a, t) == [from |-> a, no |-> sent[a] + 1, topic |-> t]

CountSent(a) == sent[a] < MaxMsg[a] /\ sent' = [sent EXCEPT ![a] = @ + 1]

nn_xpub_send(a, t) ==
  /\ Kind[a] = "PUB" /\ CountSent(a)
  /\ nn_dist_send(a, Message(a, t), NoPipe)
  /\ UNCHANGED <<net, up, lb, fq, excl, hold, got, skipped, faults>>

(* nn_xbus_send without a header.                                          *)
nn_bus_send(a) ==
  /\ Kind[a] = "BUS" /\ CountSent(a)
  /\ nn_dist_send(a, Message(a, NoPipe), NoPipe)
  /\ UNCHANGED <<net, up, lb, fq, excl, hold, got, skipped, faults>>

(* With the header a device got from nn_xbus_recv: the pipe is left out.   *)
nn_xbus_send(a) ==
  /\ Kind[a] = "DEV" /\ hold[a].msg # NoMsg
  /\ nn_dist_send(a, hold[a].msg, hold[a].pipe)
  /\ hold' = [hold EXCEPT ![a] = [msg |-> NoMsg, pipe |-> NoPipe]]
  /\ UNCHANGED <<net, up, lb, fq, excl, sent, got, skipped, faults>>

(* nn_lb_send: over the pipe whose turn it is, or -EAGAIN.                 *)
nn_xpush_send(a) ==
  /\ Kind[a] = "PUSH" /\ nn_priolist_is_active(lb[a]) /\ CountSent(a)
  /\ LET x == nn_priolist_getpipe(lb[a])
         peers == Elements(lb[a].pipes[PipePrio[x]]) IN
     /\ chan' = [chan EXCEPT ![x] = Append(@, Message(a, NoPipe))]
     /\ lb' = [lb EXCEPT ![a] =
                 nn_priolist_advance(@, Len(chan[x]) + 1 = Cap)]
     /\ skipped' = [y \in Dir |-> CASE y = x     -> 0
                                    [] y \in peers \ {x} -> skipped[y] + 1
                                    [] OTHER     -> skipped[y]]
  /\ UNCHANGED <<net, up, dist, fq, excl, hold, got, faults>>

PairDir(a) == <<a, CHOOSE b \in Socket : b # a /\ excl[a].pipe = {a, b}>>

nn_xpair_send(a) ==
  /\ Kind[a] = "PAIR" /\ excl[a].out /\ CountSent(a)
  /\ LET x == PairDir(a) IN
     /\ chan' = [chan EXCEPT ![x] = Append(@, Message(a, NoPipe))]
     /\ excl' = [excl EXCEPT ![a].out = Len(chan[x]) + 1 < Cap]
  /\ UNCHANGED <<net, up, dist, lb, fq, hold, got, skipped, faults>>

-----------------------------------------------------------------------------
(* Receiving                                                               *)

(* nn_fq_recv on the queue q and the pipes c.                              *)
FqTake(q, c) ==
  LET x == nn_priolist_getpipe(q) IN
  [q |-> nn_priolist_advance(q, Len(c[x]) = 1),
   c |-> [c EXCEPT ![x] = Tail(@)], msg |-> Head(c[x]), pipe |-> x]

nn_xpull_recv(b) ==
  /\ Kind[b] \in {"PULL", "BUS"} /\ nn_priolist_is_active(fq[b])
  /\ LET r == FqTake(fq[b], chan) IN
     /\ fq' = [fq EXCEPT ![b] = r.q]
     /\ chan' = r.c
     /\ got' = [got EXCEPT ![b] = Append(@, r.msg)]
  /\ UNCHANGED <<net, up, dist, lb, excl, hold, sent, skipped, faults>>

(* Messages are taken and dropped until one matches or none is left.       *)
nn_xsub_recv(b) ==
  /\ Kind[b] = "SUB" /\ nn_priolist_is_active(fq[b])
  /\ LET waiting == Cardinality({w \in Dir \X (1 .. Cap) :
                                   w[1][2] = b /\ w[2] <= Len(chan[w[1]])})
         take[k \in 1 .. waiting] ==
           IF k = 1 THEN FqTake(fq[b], chan)
           ELSE LET r == take[k - 1] IN
                IF r.msg.topic \in Wanted \/ ~nn_priolist_is_active(r.q)
                  THEN r ELSE FqTake(r.q, r.c)
         last == take[waiting] IN
     /\ fq' = [fq EXCEPT ![b] = last.q]
     /\ chan' = last.c
     /\ got' = IF last.msg.topic \in Wanted
                 THEN [got EXCEPT ![b] = Append(@, last.msg)] ELSE got
  /\ UNCHANGED <<net, up, dist, lb, excl, hold, sent, skipped, faults>>

(* nn_xbus_recv by a device: the pipe is kept in the header.               *)
nn_xbus_recv(b) ==
  /\ Kind[b] = "DEV" /\ nn_priolist_is_active(fq[b]) /\ hold[b].msg = NoMsg
  /\ LET r == FqTake(fq[b], chan) IN
     /\ fq' = [fq EXCEPT ![b] = r.q]
     /\ chan' = r.c
     /\ hold' = [hold EXCEPT ![b] =
                   [msg |-> r.msg, pipe |-> <<b, r.pipe[1]>>]]
  /\ UNCHANGED <<net, up, dist, lb, excl, sent, got, skipped, faults>>

nn_xpair_recv(b) ==
  /\ Kind[b] = "PAIR" /\ excl[b].in
  /\ LET y == PairDir(b)
         x == <<y[2], b>> IN
     /\ chan' = [chan EXCEPT ![x] = Tail(@)]
     /\ excl' = [excl EXCEPT ![b].in = Len(chan[x]) > 1]
     /\ got' = [got EXCEPT ![b] = Append(@, Head(chan[x]))]
  /\ UNCHANGED <<net, up, dist, lb, fq, hold, sent, skipped, faults>>

-----------------------------------------------------------------------------
Recv(b) == nn_xpull_recv(b) \/ nn_xsub_recv(b) \/ nn_xbus_recv(b)
           \/ nn_xpair_recv(b)

Next ==
  \/ \E e \in net : Connect(e) \/ Disconnect(e)
  \/ \E x \in Dir : In(x) \/ Out(x)
  \/ \E a \in Socket, t \in Topics : nn_xpub_send(a, t)
  \/ \E a \in Socket : nn_bus_send(a) \/ nn_xbus_send(a)
                        \/ nn_xpush_send(a) \/ nn_xpair_send(a) \/ Recv(a)

Spec == Init /\ [][Next]_vars

-----------------------------------------------------------------------------
(* A socket receives the messages of another one once each and in their    *)
(* order, none of its own comes back to it through a device unless a link  *)
(* broke, and a SUB socket gets what it wants only; links may break and    *)
(* come up again.                                                          *)
OnceInOrder ==
  \A b \in Socket : \A j \in DOMAIN got[b] :
    /\ got[b][j].from = b => faults > 0
    /\ Kind[b] = "SUB" => got[b][j].topic \in Wanted
    /\ \A i \in 1 .. j - 1 :
         got[b][i].from = got[b][j].from => got[b][i].no < got[b][j].no

Pipes(a) == {x \in Dir : x[1] = a}

(* The lists of pipes agree with their pointers and with the pipes: what   *)
(* is ready for sending has room, what is queued for receiving has a       *)
(* message, and two pipes take turns.                                      *)
Balanced ==
  /\ \A a \in Socket : PrioListOK(lb[a]) /\ PrioListOK(fq[a])
  /\ \A x \in Dir :
       /\ Ready(x) /\ {x[1], x[2]} \in up => Len(chan[x]) < Cap
       /\ IsActive(fq[x[2]], x, PipePrio[x]) => chan[x] # << >>
       /\ Cardinality(Pipes(x[1])) <= 2 => skipped[x] <= 1

=============================================================================
