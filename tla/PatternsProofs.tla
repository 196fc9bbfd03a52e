--------------------------- MODULE PatternsProofs ---------------------------
(***************************************************************************)
(* The one-way and symmetric protocols for any sockets and pipes: messages *)
(* of a socket arrive once and in their order, and the lists of pipes are  *)
(* in step with the pipes.  The numbers of the messages of one socket rise *)
(* against their way: those received, those in the last pipe, the one in a *)
(* device, those in the first pipe.                                        *)
(***************************************************************************)
EXTENDS Patterns, PrioListProofs, FiniteSetTheorems

-----------------------------------------------------------------------------
(* What the constants must be                                              *)

(* Sockets that nn_ispeer of their protocols lets talk to each other.      *)
Mates ==
  {<<"PUB", "SUB">>, <<"PUSH", "PULL">>, <<"PAIR", "PAIR">>,
   <<"BUS", "BUS">>, <<"BUS", "DEV">>}

(* A link between two sockets, with the directions messages go.            *)
Link(e) ==
  \E a, b \in Socket :
    /\ a # b /\ e = {a, b} /\ <<Kind[a], Kind[b]>> \in Mates
    /\ Carries(<<a, b>>) => <<a, b>> \in Dir
    /\ Carries(<<b, a>>) => <<b, a>> \in Dir

(* All links of a topology with a device are links of the device: there is *)
(* one way from a socket to another one.                                   *)
Wired ==
  /\ SLOTS \in Nat \ {0} /\ Cap \in Nat \ {0}
  /\ IsFiniteSet(Dir) /\ Dir \subseteq Socket \X Socket /\ NoPipe \notin Dir
  /\ \A x \in Dir : PipePrio[x] \in Prio
  /\ \A n \in Nets : \A e \in n : e # NoPipe /\ Link(e)
  /\ \A n \in Nets : \A d \in Socket : \A e, f \in n :
       Kind[d] = "DEV" /\ d \in e => d \in f

-----------------------------------------------------------------------------
(* The messages                                                            *)

Msg == [from : Socket, no : Nat \ {0}, topic : Topics \cup {NoPipe}]

(* Numbers of one sender: rising in s, all of s before all of t, all of s  *)
(* before m, or after m.                                                   *)
Rising(s) ==
  \A i, j \in 1 .. Len(s) :
    i < j /\ s[i].from = s[j].from => s[i].no < s[j].no
Before(s, t) ==
  \A i \in 1 .. Len(s), j \in 1 .. Len(t) :
    s[i].from = t[j].from => s[i].no < t[j].no
Older(s, m) ==
  \A i \in 1 .. Len(s) : s[i].from = m.from => s[i].no < m.no
Newer(s, m) ==
  \A i \in 1 .. Len(s) : s[i].from = m.from => m.no < s[i].no

(* A message m in direction x: its sender, the last number, faults.        *)
Came(n, x, m) ==
  IF Kind[x[1]] = "DEV" THEN m.from # x[1] /\ {m.from, x[1]} \in n
                        ELSE m.from = x[1]
Sound(n, x, m, s, f) ==
  Came(n, x, m) /\ m.no <= s[m.from] /\ (m.from = x[2] => f > 0)

ChanOK(n, u, c, s, f) ==
  /\ DOMAIN c = Dir
  /\ \A x \in Dir :
       /\ c[x] \in Seq(Msg) /\ Rising(c[x])
       /\ c[x] # << >> => {x[1], x[2]} \in u /\ Carries(x)
       /\ \A i \in 1 .. Len(c[x]) : Sound(n, x, c[x][i], s, f)

HoldOK(n, h, s, f) ==
  /\ DOMAIN h = Socket
  /\ \A d \in Socket :
       /\ DOMAIN h[d] = {"msg", "pipe"}
       /\ h[d].msg # NoMsg =>
            /\ Kind[d] = "DEV" /\ h[d].msg \in Msg
            /\ h[d].msg.from # d /\ {h[d].msg.from, d} \in n
            /\ h[d].msg.no <= s[h[d].msg.from]
            /\ h[d].pipe = <<d, h[d].msg.from>> \/ f > 0

GotOK(g, s, f) ==
  /\ DOMAIN g = Socket
  /\ \A b \in Socket :
       /\ g[b] \in Seq(Msg) /\ Rising(g[b])
       /\ \A i \in 1 .. Len(g[b]) :
            /\ g[b][i].no <= s[g[b][i].from]
            /\ g[b][i].from = b => f > 0
            /\ Kind[b] = "SUB" => g[b][i].topic \in Wanted

(* The way of the messages.                                                *)
Order(c, g, h) ==
  /\ \A x \in Dir : Before(g[x[2]], c[x])
  /\ \A x \in Dir : h[x[1]].msg # NoMsg =>
       Older(g[x[2]], h[x[1]].msg) /\ Older(c[x], h[x[1]].msg)
  /\ \A x \in Dir : h[x[2]].msg # NoMsg => Newer(c[x], h[x[2]].msg)
  /\ \A x, y \in Dir : x[2] = y[1] /\ Kind[y[1]] = "DEV" =>
       Before(c[y], c[x]) /\ Before(g[y[2]], c[x])

(* The messages on their way are right.                                    *)
Flow(n, u, c, g, h, s, f) ==
  /\ ChanOK(n, u, c, s, f) /\ HoldOK(n, h, s, f) /\ GotOK(g, s, f)
  /\ Order(c, g, h)

-----------------------------------------------------------------------------
(* The lists of pipes                                                      *)

IsUp(u, x) == {x[1], x[2]} \in u /\ Carries(x)

(* The load balancer of socket a.                                          *)
LbOne(l, a, u, c) ==
  /\ ListOK(l, Dir)
  /\ \A i \in Prio : \A x \in Elements(l.pipes[i]) :
       /\ i = PipePrio[x] /\ x[1] = a /\ Kind[a] = "PUSH"
       /\ IsUp(u, x) /\ Len(c[x]) < Cap

LbOK(l, u, c) ==
  /\ DOMAIN l = Socket
  /\ \A a \in Socket : LbOne(l[a], a, u, c)

(* The fair queue of socket b.                                             *)
FqOK(q, b, u, c) ==
  /\ ListOK(q, Dir)
  /\ \A i \in Prio : \A x \in Elements(q.pipes[i]) :
       /\ i = PipePrio[x] /\ x[2] = b /\ Queues(b)
       /\ IsUp(u, x) /\ c[x] # << >>

FqsOK(q, u, c) ==
  /\ DOMAIN q = Socket
  /\ \A b \in Socket : FqOK(q[b], b, u, c)

DistOK(d, u, c) ==
  /\ DOMAIN d = Socket
  /\ \A a \in Socket : \A x \in d[a] :
       /\ x \in Dir /\ x[1] = a /\ Spreads(a)
       /\ IsUp(u, x) /\ Len(c[x]) < Cap

ExclOK(k, u, c) ==
  /\ DOMAIN k = Socket
  /\ \A a \in Socket :
       /\ k[a] \in [pipe : u \cup {NoPipe}, in : BOOLEAN, out : BOOLEAN]
       /\ k[a].pipe # NoPipe => Kind[a] = "PAIR" /\ a \in k[a].pipe
       /\ k[a].pipe = NoPipe => ~k[a].in /\ ~k[a].out
       /\ Kind[a] = "PAIR" => \A e \in u : a \in e => k[a].pipe = e
       /\ \A x \in Dir : {x[1], x[2]} = k[a].pipe =>
            /\ x[1] = a /\ k[a].out => Len(c[x]) < Cap
            /\ x[2] = a /\ k[a].in => c[x] # << >>

(* One of two pipes was passed over once, and it is its turn.              *)
TurnsOK(k, l) ==
  /\ DOMAIN k = Dir /\ \A x \in Dir : k[x] \in Nat
  /\ \A x \in Dir : Cardinality(Pipes(x[1])) <= 2 /\ k[x] # 0 =>
       /\ k[x] = 1 /\ IsActive(l[x[1]], x, PipePrio[x])
       /\ l[x[1]].turn[PipePrio[x]] = x

Basics(n, u, s, f) ==
  /\ n \in Nets /\ u \subseteq n /\ s \in [Socket -> Nat] /\ f \in Nat

PatInv ==
  /\ Basics(net, up, sent, faults)
  /\ Flow(net, up, chan, got, hold, sent, faults)
  /\ LbOK(lb, up, chan) /\ FqsOK(fq, up, chan) /\ DistOK(dist, up, chan)
  /\ ExclOK(excl, up, chan) /\ TurnsOK(skipped, lb)

-----------------------------------------------------------------------------
(* Sequences of messages                                                   *)

(* What a sequence becomes without its first element.                      *)
LEMMA TailFacts ==
  ASSUME NEW S, NEW s \in Seq(S), s # << >>
  PROVE  /\ Head(s) = s[1] /\ Head(s) \in S /\ 1 \in 1 .. Len(s)
         /\ Tail(s) \in Seq(S) /\ Len(s) \in Nat
         /\ Len(Tail(s)) = Len(s) - 1
         /\ \A i \in 1 .. Len(Tail(s)) :
              /\ Tail(s)[i] = s[i + 1] /\ i + 1 \in 1 .. Len(s) /\ 1 < i + 1
OBVIOUS

(* The orders of a sequence hold for what is left when the first is gone,  *)
(* and the first is before the rest.                                       *)
LEMMA TailKeeps ==
  ASSUME NEW S, NEW s \in Seq(S), s # << >>
  PROVE  /\ Rising(s) => Rising(Tail(s)) /\ Newer(Tail(s), Head(s))
         /\ \A t : Before(s, t) => Before(Tail(s), t) /\ Newer(t, Head(s))
         /\ \A t : Before(t, s) => Before(t, Tail(s)) /\ Older(t, Head(s))
         /\ \A m : Older(s, m) =>
              /\ Older(Tail(s), m)
              /\ Head(s).from = m.from => Head(s).no < m.no
         /\ \A m : Newer(s, m) => Newer(Tail(s), m)
<1> DEFINE h == Head(s)
           r == Tail(s)
<1>1. /\ h = s[1] /\ 1 \in 1 .. Len(s)
      /\ \A i \in 1 .. Len(r) :
           r[i] = s[i + 1] /\ i + 1 \in 1 .. Len(s) /\ 1 < i + 1
      /\ Len(s) \in Nat /\ Len(r) \in Nat
  BY TailFacts
<1> HIDE DEF h, r
<1>2. ASSUME Rising(s) PROVE Rising(r) /\ Newer(r, h)
  <2>1. ASSUME NEW i \in 1 .. Len(r), NEW j \in 1 .. Len(r), i < j,
               r[i].from = r[j].from
        PROVE  r[i].no < r[j].no
    <3>1. i + 1 < j + 1
      BY <1>1, <2>1
    <3> QED BY <1>1, <1>2, <2>1, <3>1 DEF Rising
  <2>2. Newer(r, h)
    BY <1>1, <1>2 DEF Rising, Newer
  <2> QED BY <2>1, <2>2 DEF Rising
<1>3. ASSUME NEW t, Before(s, t) PROVE Before(r, t) /\ Newer(t, h)
  BY <1>1, <1>3 DEF Before, Newer
<1>4. ASSUME NEW t, Before(t, s) PROVE Before(t, r) /\ Older(t, h)
  BY <1>1, <1>4 DEF Before, Older
<1>5. ASSUME NEW m, Older(s, m)
      PROVE  Older(r, m) /\ (h.from = m.from => h.no < m.no)
  BY <1>1, <1>5 DEF Older
<1>6. ASSUME NEW m, Newer(s, m) PROVE Newer(r, m)
  BY <1>1, <1>6 DEF Newer
<1> QED BY <1>2, <1>3, <1>4, <1>5, <1>6 DEF h, r

(* And when one is appended that fits.                                     *)
LEMMA AppendKeeps ==
  ASSUME NEW S, NEW s \in Seq(S), NEW m \in S
  PROVE  /\ Rising(s) /\ Older(s, m) => Rising(Append(s, m))
         /\ \A t : Before(s, t) /\ Newer(t, m) => Before(Append(s, m), t)
         /\ \A t : Before(t, s) /\ Older(t, m) => Before(t, Append(s, m))
         /\ \A k : Older(s, k) /\ (m.from = k.from => m.no < k.no)
                     => Older(Append(s, m), k)
         /\ \A k : Newer(s, k) /\ (m.from = k.from => k.no < m.no)
                     => Newer(Append(s, m), k)
<1> DEFINE r == Append(s, m)
           n == Len(s)
<1>1. /\ Len(r) = n + 1 /\ n \in Nat /\ r[n + 1] = m
      /\ \A i \in 1 .. n + 1 : (i \in 1 .. n /\ r[i] = s[i]) \/ i = n + 1
  BY AppendProperties, LenProperties
<1> HIDE DEF r
<1>2. ASSUME Rising(s), Older(s, m) PROVE Rising(r)
  <2>1. ASSUME NEW i \in 1 .. n + 1, NEW j \in 1 .. n + 1, i < j,
               r[i].from = r[j].from
        PROVE  r[i].no < r[j].no
    <3>1. i \in 1 .. n /\ r[i] = s[i]
      BY <1>1, <2>1
    <3>2. CASE j = n + 1
      BY <1>1, <1>2, <2>1, <3>1, <3>2 DEF Older
    <3>3. CASE j \in 1 .. n /\ r[j] = s[j]
      BY <1>2, <2>1, <3>1, <3>3 DEF Rising
    <3> QED BY <1>1, <3>2, <3>3
  <2> QED BY <1>1, <2>1 DEF Rising
<1> HIDE DEF n
<1>3. ASSUME NEW t, Before(s, t), Newer(t, m) PROVE Before(r, t)
  BY <1>1, <1>3 DEF Before, Newer, n
<1>4. ASSUME NEW t, Before(t, s), Older(t, m) PROVE Before(t, r)
  BY <1>1, <1>4 DEF Before, Older, n
<1>5. ASSUME NEW k, Older(s, k), m.from = k.from => m.no < k.no
      PROVE  Older(r, k)
  BY <1>1, <1>5 DEF Older, n
<1>6. ASSUME NEW k, Newer(s, k), m.from = k.from => k.no < m.no
      PROVE  Newer(r, k)
  BY <1>1, <1>6 DEF Newer, n
<1> QED BY <1>2, <1>3, <1>4, <1>5, <1>6 DEF r

-----------------------------------------------------------------------------
(* Links                                                                   *)

(* The ends of a link are two sockets whose protocols are peers.           *)
LEMMA LinkFacts ==
  ASSUME Wired, NEW n \in Nets, NEW x \in Dir, {x[1], x[2]} \in n
  PROVE  /\ x = <<x[1], x[2]>> /\ x[1] \in Socket /\ x[2] \in Socket
         /\ x[1] # x[2]
         /\ \/ <<Kind[x[1]], Kind[x[2]]>> \in Mates
            \/ <<Kind[x[2]], Kind[x[1]]>> \in Mates
         /\ ~(Kind[x[1]] = "DEV" /\ Kind[x[2]] = "DEV")
<1>1. x \in Socket \X Socket
  BY DEF Wired
<1>2. x = <<x[1], x[2]>> /\ x[1] \in Socket /\ x[2] \in Socket
  BY <1>1
<1>3. Link({x[1], x[2]})
  BY DEF Wired
<1>4. PICK a, b \in Socket :
        a # b /\ {x[1], x[2]} = {a, b} /\ <<Kind[a], Kind[b]>> \in Mates
  BY <1>3 DEF Link
<1>5. x[1] # x[2] /\ ((x[1] = a /\ x[2] = b) \/ (x[1] = b /\ x[2] = a))
  BY <1>4
<1>6. \/ <<Kind[x[1]], Kind[x[2]]>> \in Mates
      \/ <<Kind[x[2]], Kind[x[1]]>> \in Mates
  BY <1>4, <1>5
<1>7. ~(Kind[x[1]] = "DEV" /\ Kind[x[2]] = "DEV")
  BY <1>6 DEF Mates
<1> QED BY <1>2, <1>5, <1>6, <1>7

(* A link has the directions in which messages go.                         *)
LEMMA LinkDirs ==
  ASSUME Wired, NEW n \in Nets, NEW a, NEW b, {a, b} \in n, a # b
  PROVE  /\ a \in Socket /\ b \in Socket
         /\ Carries(<<a, b>>) => <<a, b>> \in Dir
         /\ Carries(<<b, a>>) => <<b, a>> \in Dir
         /\ \/ <<Kind[a], Kind[b]>> \in Mates
            \/ <<Kind[b], Kind[a]>> \in Mates
<1>1. Link({a, b})
  BY DEF Wired
<1>2. PICK p, q \in Socket :
        /\ p # q /\ {a, b} = {p, q} /\ <<Kind[p], Kind[q]>> \in Mates
        /\ Carries(<<p, q>>) => <<p, q>> \in Dir
        /\ Carries(<<q, p>>) => <<q, p>> \in Dir
  BY <1>1 DEF Link
<1>3. (a = p /\ b = q) \/ (a = q /\ b = p)
  BY <1>2
<1> QED BY <1>2, <1>3

(* All links are links of the device, if there is one.                     *)
LEMMA Star ==
  ASSUME Wired, NEW n \in Nets, NEW d \in Socket, Kind[d] = "DEV",
         NEW e \in n, d \in e, NEW f \in n
  PROVE  d \in f
BY DEF Wired

(* Messages of one sender come to a socket through one pipe only.          *)
LEMMA Route ==
  ASSUME Wired, NEW n \in Nets, NEW x \in Dir, NEW y \in Dir, x[2] = y[2],
         {x[1], x[2]} \in n, {y[1], y[2]} \in n,
         NEW m, NEW k, Came(n, x, m), Came(n, y, k), m.from = k.from
  PROVE  x = y
<1>1. /\ x = <<x[1], x[2]>> /\ x[1] \in Socket /\ x[1] # x[2]
      /\ y = <<y[1], y[2]>> /\ y[1] \in Socket /\ y[1] # y[2]
  BY LinkFacts
<1>2. CASE Kind[x[1]] = "DEV"
  <2>1. x[1] \in {y[1], y[2]}
    BY <1>1, <1>2, Star
  <2> QED BY <1>1, <2>1
<1>3. CASE Kind[y[1]] = "DEV"
  <2>1. y[1] \in {x[1], x[2]}
    BY <1>1, <1>3, Star
  <2> QED BY <1>1, <2>1
<1>4. CASE Kind[x[1]] # "DEV" /\ Kind[y[1]] # "DEV"
  BY <1>1, <1>4 DEF Came
<1> QED BY <1>2, <1>3, <1>4

-----------------------------------------------------------------------------
(* The messages on their way                                               *)

(* The link of a pipe that holds messages.                                 *)
LEMMA Holding ==
  ASSUME Wired, NEW n \in Nets, NEW u, u \subseteq n, NEW c, NEW s, NEW f,
         ChanOK(n, u, c, s, f), NEW x \in Dir, c[x] # << >>
  PROVE  /\ {x[1], x[2]} \in n /\ IsUp(u, x)
         /\ Head(c[x]) \in Msg /\ Sound(n, x, Head(c[x]), s, f)
         /\ \A i \in 1 .. Len(c[x]) : Came(n, x, c[x][i])
<1>1. /\ c[x] \in Seq(Msg) /\ {x[1], x[2]} \in u /\ Carries(x)
      /\ \A i \in 1 .. Len(c[x]) : Sound(n, x, c[x][i], s, f)
  BY DEF ChanOK
<1>2. Head(c[x]) = c[x][1] /\ Head(c[x]) \in Msg /\ 1 \in 1 .. Len(c[x])
  BY <1>1, TailFacts
<1> QED BY <1>1, <1>2 DEF IsUp, Sound

(* A message leaves pipe x, and socket x[2] gets it or holds it.           *)
Taken(k, c, x) ==
  /\ DOMAIN k = Dir /\ k[x] = Tail(c[x])
  /\ \A y \in Dir : y # x => k[y] = c[y]
Received(r, g, c, x) ==
  /\ DOMAIN r = Socket /\ r[x[2]] = Append(g[x[2]], Head(c[x]))
  /\ \A b \in Socket : b # x[2] => r[b] = g[b]
Held(r, h, c, x) ==
  /\ DOMAIN r = Socket /\ DOMAIN r[x[2]] = {"msg", "pipe"}
  /\ r[x[2]].msg = Head(c[x]) /\ r[x[2]].pipe = <<x[2], x[1]>>
  /\ \A d \in Socket : d # x[2] => r[d] = h[d]

(* A message leaves its pipe.                                              *)
LEMMA TakeKeeps ==
  ASSUME Wired, NEW n \in Nets, NEW u, u \subseteq n,
         NEW c, NEW g, NEW h, NEW s, NEW f, Flow(n, u, c, g, h, s, f),
         NEW x \in Dir, c[x] # << >>,
         NEW k, DOMAIN k = Dir, k[x] = Tail(c[x]),
         \A y \in Dir : y # x => k[y] = c[y]
  PROVE  Flow(n, u, k, g, h, s, f)
<1>1. ChanOK(n, u, c, s, f) /\ Order(c, g, h)
  BY DEF Flow
<1>2. c[x] \in Seq(Msg) /\ Rising(c[x])
  BY <1>1 DEF ChanOK
<1>3. /\ Tail(c[x]) \in Seq(Msg) /\ Rising(Tail(c[x]))
      /\ \A i \in 1 .. Len(Tail(c[x])) :
           Tail(c[x])[i] = c[x][i + 1] /\ i + 1 \in 1 .. Len(c[x])
  BY <1>2, TailFacts, TailKeeps
<1>4. ChanOK(n, u, k, s, f)
  <2> SUFFICES ASSUME NEW y \in Dir
               PROVE  /\ k[y] \in Seq(Msg) /\ Rising(k[y])
                      /\ k[y] # << >> => {y[1], y[2]} \in u /\ Carries(y)
                      /\ \A i \in 1 .. Len(k[y]) : Sound(n, y, k[y][i], s, f)
    BY DEF ChanOK
  <2>1. CASE y = x
    BY <1>1, <1>3, <2>1 DEF ChanOK
  <2>2. CASE y # x
    BY <1>1, <2>2 DEF ChanOK
  <2> QED BY <2>1, <2>2
<1>5. /\ \A t : Before(c[x], t) => Before(k[x], t)
      /\ \A t : Before(t, c[x]) => Before(t, k[x])
      /\ \A m : Older(c[x], m) => Older(k[x], m)
      /\ \A m : Newer(c[x], m) => Newer(k[x], m)
  BY <1>2, TailKeeps
<1>6. \A y \in Dir : /\ \A t : Before(c[y], t) => Before(k[y], t)
                     /\ \A t : Before(t, c[y]) => Before(t, k[y])
                     /\ \A m : Older(c[y], m) => Older(k[y], m)
                     /\ \A m : Newer(c[y], m) => Newer(k[y], m)
  <2> SUFFICES ASSUME NEW y \in Dir
               PROVE  /\ \A t : Before(c[y], t) => Before(k[y], t)
                      /\ \A t : Before(t, c[y]) => Before(t, k[y])
                      /\ \A m : Older(c[y], m) => Older(k[y], m)
                      /\ \A m : Newer(c[y], m) => Newer(k[y], m)
    OBVIOUS
  <2>1. CASE y = x
    BY <1>5, <2>1
  <2>2. CASE y # x
    <3>1. k[y] = c[y]
      BY <2>2
    <3> QED BY <3>1
  <2> QED BY <2>1, <2>2
<1>7. Order(k, g, h)
  BY <1>1, <1>6 DEF Order
<1> QED BY <1>4, <1>7 DEF Flow

(* A socket at the end of the way gets it.                                 *)
LEMMA GotKeeps ==
  ASSUME Wired, NEW n \in Nets, NEW u, u \subseteq n,
         NEW c, NEW g, NEW h, NEW s, NEW f, Flow(n, u, c, g, h, s, f),
         NEW x \in Dir, c[x] # << >>, Kind[x[2]] # "DEV",
         Kind[x[2]] = "SUB" => Head(c[x]).topic \in Wanted,
         NEW k, Taken(k, c, x), NEW r, Received(r, g, c, x)
  PROVE  Flow(n, u, k, r, h, s, f)
<1>0. /\ DOMAIN k = Dir /\ k[x] = Tail(c[x])
      /\ \A y \in Dir : y # x => k[y] = c[y]
      /\ DOMAIN r = Socket /\ r[x[2]] = Append(g[x[2]], Head(c[x]))
      /\ \A b \in Socket : b # x[2] => r[b] = g[b]
  BY DEF Taken, Received
<1> USE <1>0
<1> DEFINE b == x[2]
           m == Head(c[x])
<1>1. /\ ChanOK(n, u, c, s, f) /\ Order(c, g, h) /\ GotOK(g, s, f)
      /\ HoldOK(n, h, s, f)
  BY DEF Flow
<1>2. ChanOK(n, u, k, s, f) /\ Order(k, g, h)
  <2>1. Flow(n, u, k, g, h, s, f)
    BY TakeKeeps
  <2> QED BY <2>1 DEF Flow
<1>3. /\ {x[1], b} \in n /\ m \in Msg /\ Sound(n, x, m, s, f)
      /\ x[1] # b /\ b \in Socket /\ x = <<x[1], b>> /\ x[1] \in Socket
  <2>1. {x[1], b} \in n /\ m \in Msg /\ Sound(n, x, m, s, f)
    BY <1>1, Holding
  <2> QED BY <2>1, LinkFacts
<1>4. c[x] \in Seq(Msg) /\ Rising(c[x]) /\ Before(g[b], c[x])
  BY <1>1 DEF ChanOK, Order
<1>5. Older(g[b], m) /\ Newer(k[x], m)
  BY <1>4, TailKeeps
<1>6. g[b] \in Seq(Msg) /\ Rising(g[b])
  BY <1>1, <1>3 DEF GotOK
<1> HIDE DEF m
<1>7. /\ r[b] \in Seq(Msg) /\ Rising(r[b])
      /\ Len(r[b]) = Len(g[b]) + 1 /\ Len(g[b]) \in Nat
      /\ \A i \in 1 .. Len(g[b]) : r[b][i] = g[b][i]
      /\ r[b][Len(g[b]) + 1] = m
  BY <1>3, <1>5, <1>6, AppendProperties, AppendKeeps, LenProperties DEF m
<1>8. \A i \in 1 .. Len(r[b]) :
        (i \in 1 .. Len(g[b]) /\ r[b][i] = g[b][i]) \/ r[b][i] = m
  BY <1>7
<1>9. GotOK(r, s, f)
  <2> SUFFICES ASSUME NEW p \in Socket
               PROVE  /\ r[p] \in Seq(Msg) /\ Rising(r[p])
                      /\ \A i \in 1 .. Len(r[p]) :
                           /\ r[p][i].no <= s[r[p][i].from]
                           /\ r[p][i].from = p => f > 0
                           /\ Kind[p] = "SUB" => r[p][i].topic \in Wanted
    BY DEF GotOK
  <2>1. CASE p = b
    <3> SUFFICES ASSUME NEW i \in 1 .. Len(r[b])
                 PROVE  /\ r[b][i].no <= s[r[b][i].from]
                        /\ r[b][i].from = b => f > 0
                        /\ Kind[b] = "SUB" => r[b][i].topic \in Wanted
      BY <1>7, <2>1
    <3>1. CASE r[b][i] = m
      BY <1>3, <3>1 DEF Sound, m
    <3>2. CASE i \in 1 .. Len(g[b]) /\ r[b][i] = g[b][i]
      BY <1>1, <1>3, <3>2 DEF GotOK
    <3> QED BY <1>8, <3>1, <3>2
  <2>2. CASE p # b
    BY <1>1, <2>2 DEF GotOK
  <2> QED BY <2>1, <2>2
(* The new message is before those that come later, wherever they are.     *)
<1>10. ASSUME NEW y \in Dir, y[2] = b PROVE Newer(k[y], m)
  <2>1. CASE y = x
    BY <1>5, <2>1
  <2>2. CASE y # x
    <3> SUFFICES ASSUME NEW i \in 1 .. Len(c[y]), c[y][i].from = m.from
                 PROVE  FALSE
      BY <2>2 DEF Newer
    <3>1. c[y] \in Seq(Msg)
      BY <1>1 DEF ChanOK
    <3>2. c[y] # << >>
      BY <3>1
    <3>3. {y[1], y[2]} \in n /\ Came(n, y, c[y][i])
      BY <1>1, <3>2, Holding
    <3>4. Came(n, x, m)
      BY <1>3 DEF Sound
    <3> QED BY <1>3, <1>10, <2>2, <3>3, <3>4, Route
  <2> QED BY <2>1, <2>2
<1>11. ASSUME NEW y \in Dir, y[2] = b, h[y[1]].msg # NoMsg
       PROVE  m.from = h[y[1]].msg.from => m.no < h[y[1]].msg.no
  <2> DEFINE d == y[1]
  <2>1. y = <<y[1], y[2]>> /\ d \in Socket
    BY DEF Wired
  <2>2. Kind[d] = "DEV" /\ {h[d].msg.from, d} \in n
    BY <1>1, <1>11, <2>1 DEF HoldOK
  <2>3. d \in {x[1], b}
    BY <1>3, <2>1, <2>2, Star
  <2>4. y = x
    BY <1>3, <1>11, <2>1, <2>2, <2>3
  <2>5. Older(c[x], h[d].msg)
    BY <1>1, <1>11, <2>4 DEF Order
  <2> QED BY <1>4, <2>5, TailKeeps DEF m
<1>12. ASSUME NEW y \in Dir, NEW z \in Dir, z[2] = y[1], Kind[y[1]] = "DEV",
              y[2] = b
       PROVE  Newer(k[z], m)
  <2>1. CASE c[z] = << >>
    <3>1. z # x /\ k[z] = c[z]
      BY <2>1
    <3>2. Len(k[z]) = 0
      BY <2>1, <3>1
    <3> QED BY <3>2 DEF Newer
  <2>2. CASE c[z] # << >>
    <3>1. {z[1], z[2]} \in n /\ z[2] \in Socket
      <4>1. {z[1], z[2]} \in n
        BY <1>1, <2>2, Holding
      <4> QED BY <4>1, LinkFacts
    <3>2. y[1] \in {x[1], b}
      BY <1>3, <1>12, <3>1, Star
    <3>3. y = x /\ z # x
      <4>1. y = <<y[1], y[2]>>
        BY DEF Wired
      <4> QED BY <1>3, <1>12, <3>2, <4>1
    <3>4. Before(c[x], c[z])
      BY <1>1, <1>12, <3>3 DEF Order
    <3>5. Newer(c[z], m)
      BY <1>4, <3>4, TailKeeps DEF m
    <3> QED BY <3>3, <3>5
  <2> QED BY <2>1, <2>2
<1>13. /\ \A t : Before(g[b], t) /\ Newer(t, m) => Before(r[b], t)
       /\ \A q : Older(g[b], q) /\ (m.from = q.from => m.no < q.no)
                   => Older(r[b], q)
  BY <1>3, <1>6, AppendKeeps DEF m
<1>14. Order(k, r, h)
  <2>1. ASSUME NEW y \in Dir PROVE Before(r[y[2]], k[y])
    <3>1. y[2] \in Socket /\ Before(g[y[2]], k[y])
      BY <1>2 DEF Order, Wired
    <3>2. CASE y[2] = b
      BY <1>10, <1>13, <3>1, <3>2
    <3>3. CASE y[2] # b
      BY <3>1, <3>3
    <3> QED BY <3>2, <3>3
  <2>2. ASSUME NEW y \in Dir, h[y[1]].msg # NoMsg
        PROVE  Older(r[y[2]], h[y[1]].msg) /\ Older(k[y], h[y[1]].msg)
    <3>1. /\ y[2] \in Socket
          /\ Older(g[y[2]], h[y[1]].msg) /\ Older(k[y], h[y[1]].msg)
      BY <1>2, <2>2 DEF Order, Wired
    <3>2. CASE y[2] = b
      BY <1>11, <1>13, <2>2, <3>1, <3>2
    <3>3. CASE y[2] # b
      BY <3>1, <3>3
    <3> QED BY <3>2, <3>3
  <2>3. ASSUME NEW z \in Dir, NEW y \in Dir, z[2] = y[1], Kind[y[1]] = "DEV"
        PROVE  Before(k[y], k[z]) /\ Before(r[y[2]], k[z])
    <3>1. /\ y[2] \in Socket
          /\ Before(k[y], k[z]) /\ Before(g[y[2]], k[z])
      BY <1>2, <2>3 DEF Order, Wired
    <3>2. CASE y[2] = b
      BY <1>12, <1>13, <2>3, <3>1, <3>2
    <3>3. CASE y[2] # b
      BY <3>1, <3>3
    <3> QED BY <3>2, <3>3
  <2> QED BY <1>2, <2>1, <2>2, <2>3 DEF Order
<1> QED BY <1>1, <1>2, <1>9, <1>14 DEF Flow

(* A device takes it.                                                      *)
LEMMA HoldKeeps ==
  ASSUME Wired, NEW n \in Nets, NEW u, u \subseteq n,
         NEW c, NEW g, NEW h, NEW s, NEW f, Flow(n, u, c, g, h, s, f),
         NEW x \in Dir, c[x] # << >>, Kind[x[2]] = "DEV",
         NEW k, Taken(k, c, x), Flow(n, u, k, g, h, s, f),
         NEW r, Held(r, h, c, x)
  PROVE  Flow(n, u, k, g, r, s, f)
<1>0. /\ DOMAIN k = Dir /\ k[x] = Tail(c[x])
      /\ \A y \in Dir : y # x => k[y] = c[y]
      /\ DOMAIN r = Socket /\ DOMAIN r[x[2]] = {"msg", "pipe"}
      /\ r[x[2]].msg = Head(c[x]) /\ r[x[2]].pipe = <<x[2], x[1]>>
      /\ \A d \in Socket : d # x[2] => r[d] = h[d]
  BY DEF Taken, Held
<1> USE <1>0
<1> DEFINE d == x[2]
           m == Head(c[x])
<1>1. /\ ChanOK(n, u, c, s, f) /\ Order(c, g, h) /\ GotOK(g, s, f)
      /\ HoldOK(n, h, s, f)
  BY DEF Flow
<1>2. ChanOK(n, u, k, s, f) /\ Order(k, g, h)
  BY DEF Flow
<1>3. /\ {x[1], d} \in n /\ m \in Msg /\ Sound(n, x, m, s, f)
      /\ x[1] # d /\ d \in Socket /\ x = <<x[1], d>> /\ x[1] \in Socket
      /\ Kind[x[1]] # "DEV"
  <2>1. {x[1], d} \in n /\ m \in Msg /\ Sound(n, x, m, s, f)
    BY <1>1, Holding
  <2> QED BY <2>1, LinkFacts
<1>4. c[x] \in Seq(Msg) /\ Rising(c[x])
  BY <1>1 DEF ChanOK
<1>5. Newer(k[x], m)
  BY <1>4, TailKeeps
<1>6. m.from = x[1] /\ m.no <= s[m.from]
  BY <1>3 DEF Sound, Came
<1>7. \A t : Before(t, c[x]) => Older(t, m)
  BY <1>4, TailKeeps
<1> HIDE DEF m
<1>8. HoldOK(n, r, s, f)
  <2> SUFFICES ASSUME NEW p \in Socket
               PROVE  /\ DOMAIN r[p] = {"msg", "pipe"}
                      /\ r[p].msg # NoMsg =>
                         /\ Kind[p] = "DEV" /\ r[p].msg \in Msg
                         /\ r[p].msg.from # p /\ {r[p].msg.from, p} \in n
                         /\ r[p].msg.no <= s[r[p].msg.from]
                         /\ r[p].pipe = <<p, r[p].msg.from>> \/ f > 0
    BY DEF HoldOK
  <2>1. CASE p = d
    BY <1>3, <1>6, <2>1 DEF m
  <2>2. CASE p # d
    BY <1>1, <2>2 DEF HoldOK
  <2> QED BY <2>1, <2>2
<1>9. ASSUME NEW y \in Dir, y[2] = d PROVE Newer(k[y], m)
  <2>1. CASE y = x
    BY <1>5, <2>1
  <2>2. CASE y # x
    <3> SUFFICES ASSUME NEW i \in 1 .. Len(c[y]), c[y][i].from = m.from
                 PROVE  FALSE
      BY <2>2 DEF Newer
    <3>1. c[y] \in Seq(Msg)
      BY <1>1 DEF ChanOK
    <3>2. c[y] # << >>
      BY <3>1
    <3>3. {y[1], y[2]} \in n /\ Came(n, y, c[y][i])
      BY <1>1, <3>2, Holding
    <3>4. Came(n, x, m)
      BY <1>3 DEF Sound
    <3> QED BY <1>3, <1>9, <2>2, <3>3, <3>4, Route
  <2> QED BY <2>1, <2>2
<1>10. ASSUME NEW y \in Dir, y[1] = d
       PROVE  Older(g[y[2]], m) /\ Older(k[y], m)
  <2>1. Before(c[y], c[x]) /\ Before(g[y[2]], c[x])
    BY <1>1, <1>10 DEF Order
  <2>2. y # x /\ k[y] = c[y]
    BY <1>3, <1>10
  <2> QED BY <1>7, <2>1, <2>2
<1>11. Order(k, g, r)
  <2>1. ASSUME NEW y \in Dir, r[y[1]].msg # NoMsg
        PROVE  Older(g[y[2]], r[y[1]].msg) /\ Older(k[y], r[y[1]].msg)
    <3>1. y[1] \in Socket
      BY DEF Wired
    <3>2. CASE y[1] = d
      BY <1>10, <3>2 DEF m
    <3>3. CASE y[1] # d
      BY <1>2, <2>1, <3>1, <3>3 DEF Order
    <3> QED BY <3>2, <3>3
  <2>2. ASSUME NEW y \in Dir, r[y[2]].msg # NoMsg
        PROVE  Newer(k[y], r[y[2]].msg)
    <3>1. y[2] \in Socket
      BY DEF Wired
    <3>2. CASE y[2] = d
      BY <1>9, <3>2 DEF m
    <3>3. CASE y[2] # d
      BY <1>2, <2>2, <3>1, <3>3 DEF Order
    <3> QED BY <3>2, <3>3
  <2> QED BY <1>2, <2>1, <2>2 DEF Order
<1> QED BY <1>1, <1>2, <1>8, <1>11 DEF Flow

(* Some pipes of socket a that are up get message m; the socket counts it, *)
(* or a device is done with it.                                            *)
OutPipes(D, a, u) == \A x \in D : x \in Dir /\ x[1] = a /\ IsUp(u, x)
Copied(k, c, D, m) ==
  /\ DOMAIN k = Dir /\ \A x \in D : k[x] = Append(c[x], m)
  /\ \A x \in Dir : x \notin D => k[x] = c[x]
Counted(w, s, a) ==
  /\ s \in [Socket -> Nat] /\ w \in [Socket -> Nat] /\ w[a] = s[a] + 1
  /\ \A b \in Socket : b # a => w[b] = s[b]
LetGo(r, h, d) ==
  /\ DOMAIN r = Socket /\ DOMAIN r[d] = {"msg", "pipe"}
  /\ r[d].msg = NoMsg /\ \A b \in Socket : b # d => r[b] = h[b]

(* A socket sends a new message over some of its pipes.                    *)
LEMMA SendKeeps ==
  ASSUME Wired, NEW n \in Nets, NEW u, u \subseteq n,
         NEW c, NEW g, NEW h, NEW s, NEW f, Flow(n, u, c, g, h, s, f),
         NEW a \in Socket, Kind[a] # "DEV",
         NEW m \in Msg, m.from = a, m.no = s[a] + 1,
         NEW D, OutPipes(D, a, u), NEW k, Copied(k, c, D, m),
         NEW w, Counted(w, s, a)
  PROVE  Flow(n, u, k, g, h, w, f)
<1>0. /\ \A x \in D : x \in Dir /\ x[1] = a /\ IsUp(u, x)
      /\ DOMAIN k = Dir /\ \A x \in D : k[x] = Append(c[x], m)
      /\ \A x \in Dir : x \notin D => k[x] = c[x]
      /\ s \in [Socket -> Nat] /\ w \in [Socket -> Nat] /\ w[a] = s[a] + 1
      /\ \A b \in Socket : b # a => w[b] = s[b]
  BY DEF OutPipes, Copied, Counted
<1> USE <1>0
<1>1. /\ ChanOK(n, u, c, s, f) /\ Order(c, g, h) /\ GotOK(g, s, f)
      /\ HoldOK(n, h, s, f)
  BY DEF Flow
<1>2. \A b \in Socket : s[b] \in Nat /\ w[b] \in Nat /\ s[b] <= w[b]
  <2> SUFFICES ASSUME NEW b \in Socket
               PROVE  s[b] \in Nat /\ w[b] \in Nat /\ s[b] <= w[b]
    OBVIOUS
  <2>1. CASE b = a
    BY <2>1
  <2>2. CASE b # a
    BY <2>2
  <2> QED BY <2>1, <2>2
<1>3. ASSUME NEW l \in Msg, l.no <= s[l.from]
      PROVE  l.no <= w[l.from] /\ (l.from = m.from => l.no < m.no)
  <2>1. l.no \in Nat /\ l.from \in Socket /\ m.no \in Nat
    BY DEF Msg
  <2>2. l.no <= w[l.from]
    BY <1>2, <1>3, <2>1
  <2>3. l.from = m.from => l.no < m.no
    BY <1>2, <1>3, <2>1
  <2> QED BY <2>2, <2>3
<1>4. \A x \in D : /\ x \in Dir /\ {x[1], x[2]} \in n /\ IsUp(u, x)
                   /\ x[1] # x[2] /\ x[2] \in Socket
  <2> SUFFICES ASSUME NEW x \in D
               PROVE  /\ x \in Dir /\ {x[1], x[2]} \in n /\ IsUp(u, x)
                      /\ x[1] # x[2] /\ x[2] \in Socket
    OBVIOUS
  <2>1. x \in Dir /\ {x[1], x[2]} \in n
    BY DEF IsUp
  <2> QED BY <2>1, LinkFacts
(* All messages there are come before the new one.                         *)
<1>5. \A x \in Dir : c[x] \in Seq(Msg) /\ Older(c[x], m)
  <2> SUFFICES ASSUME NEW x \in Dir
               PROVE  c[x] \in Seq(Msg) /\ Older(c[x], m)
    OBVIOUS
  <2>1. /\ c[x] \in Seq(Msg)
        /\ \A i \in 1 .. Len(c[x]) : c[x][i].no <= s[c[x][i].from]
    BY <1>1 DEF ChanOK, Sound
  <2>2. \A i \in 1 .. Len(c[x]) : c[x][i] \in Msg
    BY <2>1
  <2> QED BY <1>3, <2>1, <2>2 DEF Older
<1>6. \A b \in Socket : g[b] \in Seq(Msg) /\ Older(g[b], m)
  <2> SUFFICES ASSUME NEW b \in Socket
               PROVE  g[b] \in Seq(Msg) /\ Older(g[b], m)
    OBVIOUS
  <2>1. /\ g[b] \in Seq(Msg)
        /\ \A i \in 1 .. Len(g[b]) : g[b][i].no <= s[g[b][i].from]
    BY <1>1 DEF GotOK
  <2>2. \A i \in 1 .. Len(g[b]) : g[b][i] \in Msg
    BY <2>1
  <2> QED BY <1>3, <2>1, <2>2 DEF Older
<1>7. \A d \in Socket : h[d].msg # NoMsg =>
        /\ Kind[d] = "DEV"
        /\ m.from = h[d].msg.from => h[d].msg.no < m.no
  <2> SUFFICES ASSUME NEW d \in Socket, h[d].msg # NoMsg
               PROVE  /\ Kind[d] = "DEV"
                      /\ m.from = h[d].msg.from => h[d].msg.no < m.no
    OBVIOUS
  <2>1. /\ Kind[d] = "DEV" /\ h[d].msg \in Msg
        /\ h[d].msg.no <= s[h[d].msg.from]
    BY <1>1 DEF HoldOK
  <2> QED BY <1>3, <2>1
<1>8. ChanOK(n, u, k, w, f)
  <2> SUFFICES ASSUME NEW x \in Dir
               PROVE  /\ k[x] \in Seq(Msg) /\ Rising(k[x])
                      /\ k[x] # << >> => {x[1], x[2]} \in u /\ Carries(x)
                      /\ \A i \in 1 .. Len(k[x]) : Sound(n, x, k[x][i], w, f)
    BY DEF ChanOK
  <2>1. /\ c[x] \in Seq(Msg) /\ Rising(c[x])
        /\ c[x] # << >> => {x[1], x[2]} \in u /\ Carries(x)
        /\ \A i \in 1 .. Len(c[x]) : Sound(n, x, c[x][i], s, f)
    BY <1>1 DEF ChanOK
  <2>2. \A i \in 1 .. Len(c[x]) : Sound(n, x, c[x][i], w, f)
    <3>1. \A i \in 1 .. Len(c[x]) : c[x][i] \in Msg
      BY <2>1
    <3> QED BY <1>3, <2>1, <3>1 DEF Sound
  <2>3. CASE x \notin D
    <3>1. k[x] = c[x]
      BY <2>3
    <3> QED BY <2>1, <2>2, <3>1
  <2>4. CASE x \in D
    <3>1. k[x] = Append(c[x], m)
      BY <2>4
    <3>2. /\ k[x] \in Seq(Msg) /\ Rising(k[x])
          /\ Len(k[x]) = Len(c[x]) + 1 /\ Len(c[x]) \in Nat
          /\ \A i \in 1 .. Len(c[x]) : k[x][i] = c[x][i]
          /\ k[x][Len(c[x]) + 1] = m
      BY <1>5, <2>1, <3>1, AppendProperties, AppendKeeps, LenProperties
    <3>3. Sound(n, x, m, w, f)
      <4>1. m.no <= w[m.from]
        BY <1>2
      <4>2. x[1] = a /\ a # x[2]
        BY <1>4, <2>4
      <4> QED BY <4>1, <4>2 DEF Sound, Came
    <3>4. \A i \in 1 .. Len(k[x]) : Sound(n, x, k[x][i], w, f)
      <4> SUFFICES ASSUME NEW i \in 1 .. Len(k[x])
                   PROVE  Sound(n, x, k[x][i], w, f)
        OBVIOUS
      <4>1. CASE i \in 1 .. Len(c[x])
        BY <2>2, <3>2, <4>1
      <4>2. CASE i = Len(c[x]) + 1
        BY <3>2, <3>3, <4>2
      <4> QED BY <3>2, <4>1, <4>2
    <3>5. {x[1], x[2]} \in u /\ Carries(x)
      BY <1>4, <2>4 DEF IsUp
    <3> QED BY <3>2, <3>4, <3>5
  <2> QED BY <2>3, <2>4
<1>9. HoldOK(n, h, w, f)
  BY <1>1, <1>3 DEF HoldOK
<1>10. GotOK(g, w, f)
  <2> SUFFICES ASSUME NEW b \in Socket, NEW i \in 1 .. Len(g[b])
               PROVE  g[b][i].no <= w[g[b][i].from]
    BY <1>1 DEF GotOK
  <2>1. g[b][i] \in Msg /\ g[b][i].no <= s[g[b][i].from]
    BY <1>1, <1>6 DEF GotOK
  <2> QED BY <1>3, <2>1
<1>11. \A x \in D :
         /\ \A t : Before(t, c[x]) /\ Older(t, m) => Before(t, k[x])
         /\ \A q : Newer(c[x], q) /\ (m.from = q.from => q.no < m.no)
                     => Newer(k[x], q)
  <2> SUFFICES ASSUME NEW x \in D
               PROVE
         /\ \A t : Before(t, c[x]) /\ Older(t, m) => Before(t, k[x])
         /\ \A q : Newer(c[x], q) /\ (m.from = q.from => q.no < m.no)
                     => Newer(k[x], q)
    OBVIOUS
  <2>1. c[x] \in Seq(Msg) /\ k[x] = Append(c[x], m)
    BY <1>4, <1>5
  <2> QED BY <2>1, AppendKeeps
<1>12. Order(k, g, h)
  <2>1. ASSUME NEW x \in Dir PROVE Before(g[x[2]], k[x])
    <3>1. Before(g[x[2]], c[x]) /\ x[2] \in Socket
      BY <1>1 DEF Order, Wired
    <3>2. CASE x \in D
      BY <1>6, <1>11, <3>1, <3>2
    <3>3. CASE x \notin D
      BY <3>1, <3>3
    <3> QED BY <3>2, <3>3
  <2>2. ASSUME NEW x \in Dir, h[x[1]].msg # NoMsg
        PROVE  Older(g[x[2]], h[x[1]].msg) /\ Older(k[x], h[x[1]].msg)
    <3>1. x[1] \in Socket /\ Kind[x[1]] = "DEV"
      BY <1>7, <2>2 DEF Wired
    <3>2. x \notin D /\ k[x] = c[x]
      BY <3>1
    <3> QED BY <1>1, <2>2, <3>2 DEF Order
  <2>3. ASSUME NEW x \in Dir, h[x[2]].msg # NoMsg
        PROVE  Newer(k[x], h[x[2]].msg)
    <3>1. Newer(c[x], h[x[2]].msg) /\ x[2] \in Socket
      BY <1>1, <2>3 DEF Order, Wired
    <3>2. CASE x \in D
      BY <1>7, <1>11, <2>3, <3>1, <3>2
    <3>3. CASE x \notin D
      BY <3>1, <3>3
    <3> QED BY <3>2, <3>3
  <2>4. ASSUME NEW x \in Dir, NEW y \in Dir, x[2] = y[1], Kind[y[1]] = "DEV"
        PROVE  Before(k[y], k[x]) /\ Before(g[y[2]], k[x])
    <3>1. /\ Before(c[y], c[x]) /\ Before(g[y[2]], c[x]) /\ y[2] \in Socket
      BY <1>1, <2>4 DEF Order, Wired
    <3>2. k[y] = c[y]
      BY <2>4
    <3>3. CASE x \in D
      BY <1>5, <1>6, <1>11, <3>1, <3>2, <3>3
    <3>4. CASE x \notin D
      BY <3>1, <3>2, <3>4
    <3> QED BY <3>3, <3>4
  <2> QED BY <2>1, <2>2, <2>3, <2>4 DEF Order
<1> QED BY <1>8, <1>9, <1>10, <1>12 DEF Flow

(* A device sends the message it holds on, but not back.                   *)
LEMMA ForwardKeeps ==
  ASSUME Wired, NEW n \in Nets, NEW u, u \subseteq n,
         NEW c, NEW g, NEW h, NEW s, NEW f, Flow(n, u, c, g, h, s, f),
         NEW d \in Socket, h[d].msg # NoMsg,
         NEW D, OutPipes(D, d, u), h[d].pipe \notin D,
         NEW k, Copied(k, c, D, h[d].msg), NEW r, LetGo(r, h, d)
  PROVE  Flow(n, u, k, g, r, s, f)
<1>0. /\ \A x \in D : /\ x \in Dir /\ x[1] = d /\ IsUp(u, x)
                       /\ x # h[d].pipe
      /\ DOMAIN k = Dir /\ \A x \in D : k[x] = Append(c[x], h[d].msg)
      /\ \A x \in Dir : x \notin D => k[x] = c[x]
      /\ DOMAIN r = Socket /\ DOMAIN r[d] = {"msg", "pipe"}
      /\ r[d].msg = NoMsg /\ \A b \in Socket : b # d => r[b] = h[b]
  BY DEF OutPipes, Copied, LetGo
<1> USE <1>0
<1> DEFINE m == h[d].msg
<1>1. /\ ChanOK(n, u, c, s, f) /\ Order(c, g, h) /\ GotOK(g, s, f)
      /\ HoldOK(n, h, s, f)
  BY DEF Flow
<1>2. /\ Kind[d] = "DEV" /\ m \in Msg /\ m.from # d /\ {m.from, d} \in n
      /\ m.no <= s[m.from] /\ (h[d].pipe = <<d, m.from>> \/ f > 0)
  BY <1>1 DEF HoldOK
<1>3. \A x \in D : /\ x \in Dir /\ {x[1], x[2]} \in n /\ IsUp(u, x)
                   /\ x = <<d, x[2]>> /\ x[1] = d /\ x[2] # d
                   /\ x[2] \in Socket /\ Kind[x[2]] # "DEV"
  <2> SUFFICES ASSUME NEW x \in D
               PROVE  /\ x \in Dir /\ {x[1], x[2]} \in n /\ IsUp(u, x)
                      /\ x = <<d, x[2]>> /\ x[1] = d /\ x[2] # d
                      /\ x[2] \in Socket /\ Kind[x[2]] # "DEV"
    OBVIOUS
  <2>1. x \in Dir /\ {x[1], x[2]} \in n
    BY DEF IsUp
  <2> QED BY <1>2, <2>1, LinkFacts
<1>4. \A x \in D : c[x] \in Seq(Msg) /\ k[x] = Append(c[x], m)
  BY <1>1, <1>3 DEF ChanOK
<1>5. \A x \in D : Older(g[x[2]], m) /\ Older(c[x], m)
  BY <1>1, <1>3 DEF Order
<1>6. \A x \in Dir : x[2] = d => Newer(c[x], m)
  BY <1>1 DEF Order
<1>7. \A x \in D : Sound(n, x, m, s, f)
  <2> SUFFICES ASSUME NEW x \in D PROVE Sound(n, x, m, s, f)
    OBVIOUS
  <2>1. Came(n, x, m)
    BY <1>2, <1>3 DEF Came
  <2>2. ASSUME m.from = x[2], ~(f > 0) PROVE FALSE
    <3>1. h[d].pipe = <<d, m.from>>
      BY <1>2, <2>2
    <3>2. x = <<d, x[2]>> /\ x # h[d].pipe
      BY <1>3
    <3> HIDE DEF m
    <3> QED BY <2>2, <3>1, <3>2, Zenon
  <2> QED BY <1>2, <2>1, <2>2 DEF Sound
<1> HIDE DEF m
<1>8. ChanOK(n, u, k, s, f)
  <2> SUFFICES ASSUME NEW x \in Dir
               PROVE  /\ k[x] \in Seq(Msg) /\ Rising(k[x])
                      /\ k[x] # << >> => {x[1], x[2]} \in u /\ Carries(x)
                      /\ \A i \in 1 .. Len(k[x]) : Sound(n, x, k[x][i], s, f)
    BY DEF ChanOK
  <2>1. /\ c[x] \in Seq(Msg) /\ Rising(c[x])
        /\ c[x] # << >> => {x[1], x[2]} \in u /\ Carries(x)
        /\ \A i \in 1 .. Len(c[x]) : Sound(n, x, c[x][i], s, f)
    BY <1>1 DEF ChanOK
  <2>2. CASE x \notin D
    <3>1. k[x] = c[x]
      BY <2>2
    <3> QED BY <2>1, <3>1
  <2>3. CASE x \in D
    <3>1. k[x] = Append(c[x], m) /\ Older(c[x], m)
      BY <1>4, <1>5, <2>3
    <3>2. /\ k[x] \in Seq(Msg) /\ Rising(k[x])
          /\ Len(k[x]) = Len(c[x]) + 1 /\ Len(c[x]) \in Nat
          /\ \A i \in 1 .. Len(c[x]) : k[x][i] = c[x][i]
          /\ k[x][Len(c[x]) + 1] = m
      BY <1>2, <2>1, <3>1, AppendProperties, AppendKeeps, LenProperties
    <3>3. \A i \in 1 .. Len(k[x]) : Sound(n, x, k[x][i], s, f)
      <4> SUFFICES ASSUME NEW i \in 1 .. Len(k[x])
                   PROVE  Sound(n, x, k[x][i], s, f)
        OBVIOUS
      <4>1. CASE i \in 1 .. Len(c[x])
        BY <2>1, <3>2, <4>1
      <4>2. CASE i = Len(c[x]) + 1
        BY <1>7, <2>3, <3>2, <4>2
      <4> QED BY <3>2, <4>1, <4>2
    <3>4. {x[1], x[2]} \in u /\ Carries(x)
      BY <1>3, <2>3 DEF IsUp
    <3> QED BY <3>2, <3>3, <3>4
  <2> QED BY <2>2, <2>3
<1>9. HoldOK(n, r, s, f)
  <2> SUFFICES ASSUME NEW p \in Socket
               PROVE  /\ DOMAIN r[p] = {"msg", "pipe"}
                      /\ r[p].msg # NoMsg =>
                         /\ Kind[p] = "DEV" /\ r[p].msg \in Msg
                         /\ r[p].msg.from # p /\ {r[p].msg.from, p} \in n
                         /\ r[p].msg.no <= s[r[p].msg.from]
                         /\ r[p].pipe = <<p, r[p].msg.from>> \/ f > 0
    BY DEF HoldOK
  <2>1. CASE p = d
    BY <2>1
  <2>2. CASE p # d
    <3>1. r[p] = h[p]
      BY <2>2
    <3>2. /\ DOMAIN h[p] = {"msg", "pipe"}
          /\ h[p].msg # NoMsg =>
               /\ Kind[p] = "DEV" /\ h[p].msg \in Msg
               /\ h[p].msg.from # p /\ {h[p].msg.from, p} \in n
               /\ h[p].msg.no <= s[h[p].msg.from]
               /\ h[p].pipe = <<p, h[p].msg.from>> \/ f > 0
      BY <1>1, Zenon DEF HoldOK
    <3> QED BY <3>1, <3>2, Zenon
  <2> QED BY <2>1, <2>2
<1>10. \A x \in D :
         /\ \A t : Before(t, c[x]) /\ Older(t, m) => Before(t, k[x])
         /\ \A t : Before(c[x], t) /\ Newer(t, m) => Before(k[x], t)
  <2> SUFFICES ASSUME NEW x \in D
               PROVE
         /\ \A t : Before(t, c[x]) /\ Older(t, m) => Before(t, k[x])
         /\ \A t : Before(c[x], t) /\ Newer(t, m) => Before(k[x], t)
    OBVIOUS
  <2>1. c[x] \in Seq(Msg) /\ k[x] = Append(c[x], m)
    BY <1>4
  <2> QED BY <1>2, <2>1, AppendKeeps
<1>11. Order(k, g, r)
  <2>1. ASSUME NEW x \in Dir PROVE Before(g[x[2]], k[x])
    <3>1. Before(g[x[2]], c[x])
      BY <1>1 DEF Order
    <3>2. CASE x \in D
      BY <1>5, <1>10, <3>1, <3>2
    <3>3. CASE x \notin D
      BY <3>1, <3>3
    <3> QED BY <3>2, <3>3
  <2>2. ASSUME NEW x \in Dir, r[x[1]].msg # NoMsg
        PROVE  Older(g[x[2]], r[x[1]].msg) /\ Older(k[x], r[x[1]].msg)
    <3>1. x[1] \in Socket /\ x[1] # d /\ r[x[1]] = h[x[1]]
      BY <2>2 DEF Wired
    <3>2. k[x] = c[x]
      BY <1>3, <3>1
    <3> QED BY <1>1, <2>2, <3>1, <3>2 DEF Order
  <2>3. ASSUME NEW x \in Dir, r[x[2]].msg # NoMsg
        PROVE  Newer(k[x], r[x[2]].msg)
    <3>1. x[2] \in Socket /\ x[2] # d /\ r[x[2]] = h[x[2]]
      BY <2>3 DEF Wired
    <3>2. Kind[x[2]] = "DEV"
      BY <1>1, <2>3, <3>1 DEF HoldOK
    <3>3. k[x] = c[x]
      BY <1>3, <3>2
    <3> QED BY <1>1, <2>3, <3>1, <3>3 DEF Order
  <2>4. ASSUME NEW x \in Dir, NEW y \in Dir, x[2] = y[1], Kind[y[1]] = "DEV"
        PROVE  Before(k[y], k[x]) /\ Before(g[y[2]], k[x])
    <3>1. Before(c[y], c[x]) /\ Before(g[y[2]], c[x])
      BY <1>1, <2>4 DEF Order
    <3>2. k[x] = c[x]
      BY <1>3, <2>4
    <3>3. CASE y \in D
      <4>1. Newer(c[x], m)
        BY <1>3, <1>6, <2>4, <3>3
      <4> QED BY <1>10, <3>1, <3>2, <3>3, <4>1
    <3>4. CASE y \notin D
      BY <3>1, <3>2, <3>4
    <3> QED BY <3>3, <3>4
  <2> QED BY <2>1, <2>2, <2>3, <2>4 DEF Order
<1> QED BY <1>1, <1>8, <1>9, <1>11 DEF Flow

(* The pipes when the links that are up change from u to v, and what the   *)
(* devices remember; w links broke.                                        *)
Flushed(k, c, u, v) ==
  /\ DOMAIN k = Dir
  /\ \A x \in Dir :
       \/ k[x] = << >>
       \/ k[x] = c[x] /\ ({x[1], x[2]} \in u => {x[1], x[2]} \in v)
Moved(r, h, w) ==
  /\ DOMAIN r = Socket
  /\ \A d \in Socket :
       /\ DOMAIN r[d] = {"msg", "pipe"} /\ r[d].msg = h[d].msg
       /\ r[d].pipe = h[d].pipe \/ w > 0 \/ h[d].pipe = NoPipe

(* Links come up or break: pipes become empty, and the pipe that a device  *)
(* remembers may be gone, or be another one that came after it.            *)
LEMMA LinksKeep ==
  ASSUME Wired, NEW n \in Nets, NEW u, u \subseteq n,
         NEW c, NEW g, NEW h, NEW s, NEW f \in Nat,
         Flow(n, u, c, g, h, s, f),
         NEW v, NEW w \in Nat, f <= w, NEW k, Flushed(k, c, u, v),
         NEW r, Moved(r, h, w)
  PROVE  Flow(n, v, k, g, r, s, w)
<1>0. /\ DOMAIN k = Dir
      /\ \A x \in Dir :
           \/ k[x] = << >>
           \/ k[x] = c[x] /\ ({x[1], x[2]} \in u => {x[1], x[2]} \in v)
      /\ DOMAIN r = Socket
      /\ \A d \in Socket :
           /\ DOMAIN r[d] = {"msg", "pipe"} /\ r[d].msg = h[d].msg
           /\ r[d].pipe = h[d].pipe \/ w > 0 \/ h[d].pipe = NoPipe
  BY DEF Flushed, Moved
<1> USE <1>0
<1>1. /\ ChanOK(n, u, c, s, f) /\ Order(c, g, h) /\ GotOK(g, s, f)
      /\ HoldOK(n, h, s, f)
  BY DEF Flow
<1>2. f > 0 => w > 0
  OBVIOUS
<1>3. ChanOK(n, v, k, s, w)
  <2> SUFFICES ASSUME NEW x \in Dir
               PROVE  /\ k[x] \in Seq(Msg) /\ Rising(k[x])
                      /\ k[x] # << >> => {x[1], x[2]} \in v /\ Carries(x)
                      /\ \A i \in 1 .. Len(k[x]) : Sound(n, x, k[x][i], s, w)
    BY DEF ChanOK
  <2>1. CASE k[x] = << >>
    BY <2>1 DEF Rising
  <2>2. CASE k[x] # << >>
    <3>1. k[x] = c[x] /\ ({x[1], x[2]} \in u => {x[1], x[2]} \in v)
      BY <2>2
    <3> QED BY <1>1, <1>2, <3>1 DEF ChanOK, Sound
  <2> QED BY <2>1, <2>2
<1>4. HoldOK(n, r, s, w)
  <2> SUFFICES ASSUME NEW d \in Socket, r[d].msg # NoMsg
               PROVE  /\ Kind[d] = "DEV" /\ r[d].msg \in Msg
                      /\ r[d].msg.from # d /\ {r[d].msg.from, d} \in n
                      /\ r[d].msg.no <= s[r[d].msg.from]
                      /\ r[d].pipe = <<d, r[d].msg.from>> \/ w > 0
    BY DEF HoldOK
  <2> DEFINE m == h[d].msg
  <2>1. r[d].msg = m /\ m # NoMsg
    OBVIOUS
  <2>2. /\ Kind[d] = "DEV" /\ m \in Msg /\ m.from # d /\ {m.from, d} \in n
        /\ m.no <= s[m.from] /\ (h[d].pipe = <<d, m.from>> \/ f > 0)
    BY <1>1, <2>1 DEF HoldOK
  <2> HIDE DEF m
  <2>3. ASSUME h[d].pipe = NoPipe, h[d].pipe = <<d, m.from>> PROVE FALSE
    <3> DEFINE a == m.from
    <3>1. {a, d} \in n /\ a # d
      BY <2>2
    <3> HIDE DEF a
    <3>2. /\ Carries(<<d, a>>) => <<d, a>> \in Dir
          /\ \/ <<Kind[a], Kind[d]>> \in Mates
             \/ <<Kind[d], Kind[a]>> \in Mates
      BY <3>1, LinkDirs
    <3>3. Carries(<<d, a>>)
      BY <2>2, <3>2 DEF Mates, Carries
    <3> QED BY <2>3, <3>2, <3>3 DEF Wired, a
  <2> QED BY <1>2, <2>1, <2>2, <2>3
<1>5. GotOK(g, s, w)
  BY <1>1, <1>2 DEF GotOK
<1>6. \A x \in Dir : /\ \A t : Before(c[x], t) => Before(k[x], t)
                     /\ \A t : Before(t, c[x]) => Before(t, k[x])
                     /\ \A m : Older(c[x], m) => Older(k[x], m)
                     /\ \A m : Newer(c[x], m) => Newer(k[x], m)
  <2> SUFFICES ASSUME NEW x \in Dir
               PROVE  /\ \A t : Before(c[x], t) => Before(k[x], t)
                      /\ \A t : Before(t, c[x]) => Before(t, k[x])
                      /\ \A m : Older(c[x], m) => Older(k[x], m)
                      /\ \A m : Newer(c[x], m) => Newer(k[x], m)
    OBVIOUS
  <2>1. CASE k[x] = << >>
    BY <2>1 DEF Before, Older, Newer
  <2>2. CASE k[x] # << >>
    <3>1. k[x] = c[x]
      BY <2>2
    <3> QED BY <3>1
  <2> QED BY <2>1, <2>2
<1>7. \A x \in Dir : x[1] \in Socket /\ x[2] \in Socket
  BY DEF Wired
<1>8. Order(k, g, r)
  BY <1>1, <1>6, <1>7 DEF Order
<1> QED BY <1>3, <1>4, <1>5, <1>8 DEF Flow

-----------------------------------------------------------------------------
(* The lists of pipes when pipes get or lose messages                      *)

(* Pipes of PUSH sockets that had room have room.                          *)
LEMMA LbSame ==
  ASSUME NEW l, NEW u, NEW c, LbOK(l, u, c), NEW z,
         \A x \in Dir : Kind[x[1]] = "PUSH" /\ Len(c[x]) < Cap
                          => Len(z[x]) < Cap
  PROVE  LbOK(l, u, z)
<1> SUFFICES ASSUME NEW a \in Socket, NEW i \in Prio,
                    NEW x \in Elements(l[a].pipes[i])
             PROVE  Len(z[x]) < Cap
  BY DEF LbOK, LbOne
<1>1. /\ ListOK(l[a], Dir) /\ Len(c[x]) < Cap /\ x[1] = a
      /\ Kind[a] = "PUSH"
  BY DEF LbOK, LbOne
<1>2. x \in Dir
  BY <1>1, MemberOf
<1> QED BY <1>1, <1>2

(* The same of PUB and BUS sockets and devices.                            *)
LEMMA DistSame ==
  ASSUME NEW d, NEW u, NEW c, DistOK(d, u, c), NEW z,
         \A x \in Dir : Spreads(x[1]) /\ Len(c[x]) < Cap => Len(z[x]) < Cap
  PROVE  DistOK(d, u, z)
BY DEF DistOK

(* Pipes to socket b that had a message have one.                          *)
LEMMA FqSame ==
  ASSUME NEW q, NEW b, NEW u, NEW c, FqOK(q, b, u, c), NEW z,
         \A x \in Dir : x[2] = b /\ c[x] # << >> => z[x] # << >>
  PROVE  FqOK(q, b, u, z)
<1> SUFFICES ASSUME NEW i \in Prio, NEW x \in Elements(q.pipes[i])
             PROVE  z[x] # << >>
  BY DEF FqOK
<1>1. ListOK(q, Dir) /\ c[x] # << >> /\ x[2] = b
  BY DEF FqOK
<1>2. x \in Dir
  BY <1>1, MemberOf
<1> QED BY <1>1, <1>2

(* The pipes between PAIR sockets are as they were.                        *)
LEMMA ExclSame ==
  ASSUME Wired, NEW n \in Nets, NEW u, u \subseteq n,
         NEW k, NEW c, ExclOK(k, u, c), NEW z,
         \A x \in Dir : Kind[x[1]] = "PAIR" /\ Kind[x[2]] = "PAIR"
                          => z[x] = c[x]
  PROVE  ExclOK(k, u, z)
<1> SUFFICES ASSUME NEW a \in Socket, NEW x \in Dir,
                    {x[1], x[2]} = k[a].pipe
             PROVE  /\ x[1] = a /\ k[a].out => Len(z[x]) < Cap
                    /\ x[2] = a /\ k[a].in => z[x] # << >>
  BY DEF ExclOK
<1>1. /\ k[a].pipe \in u \cup {NoPipe}
      /\ k[a].pipe # NoPipe => Kind[a] = "PAIR" /\ a \in k[a].pipe
      /\ k[a].pipe = NoPipe => ~k[a].in /\ ~k[a].out
      /\ x[1] = a /\ k[a].out => Len(c[x]) < Cap
      /\ x[2] = a /\ k[a].in => c[x] # << >>
  BY DEF ExclOK
<1>2. CASE k[a].pipe = NoPipe
  BY <1>1, <1>2
<1>3. CASE k[a].pipe # NoPipe
  <2>1. {x[1], x[2]} \in n /\ (x[1] = a \/ x[2] = a) /\ Kind[a] = "PAIR"
    BY <1>1, <1>3
  <2>2. \/ <<Kind[x[1]], Kind[x[2]]>> \in Mates
        \/ <<Kind[x[2]], Kind[x[1]]>> \in Mates
    BY <2>1, LinkFacts
  <2>3. Kind[x[1]] = "PAIR" /\ Kind[x[2]] = "PAIR"
    BY <2>1, <2>2 DEF Mates
  <2>4. z[x] = c[x]
    BY <2>3
  <2> QED BY <1>1, <2>4
<1> QED BY <1>2, <1>3

(* A pipe with a message less.                                             *)
LEMMA TakeRoom ==
  ASSUME NEW n, NEW u, NEW c, NEW s, NEW f, ChanOK(n, u, c, s, f),
         NEW x \in Dir, c[x] # << >>, Cap \in Nat,
         NEW z, Taken(z, c, x)
  PROVE  /\ \A y \in Dir : Len(c[y]) < Cap => Len(z[y]) < Cap
         /\ Len(c[x]) \in Nat
         /\ Len(c[x]) # 1 => z[x] # << >>
         /\ Len(c[x]) = 1 => z[x] = << >>
<1>0. z[x] = Tail(c[x]) /\ \A y \in Dir : y # x => z[y] = c[y]
  BY DEF Taken
<1> USE <1>0
<1>1. c[x] \in Seq(Msg)
  BY DEF ChanOK
<1>2. /\ Len(c[x]) \in Nat /\ Len(z[x]) = Len(c[x]) - 1
      /\ z[x] \in Seq(Msg)
  BY <1>1, TailFacts
<1>3. ASSUME NEW y \in Dir, Len(c[y]) < Cap PROVE Len(z[y]) < Cap
  <2>1. CASE y = x
    <3>1. Len(c[x]) < Cap
      BY <1>3, <2>1
    <3>2. Len(z[x]) < Cap
      BY <1>2, <3>1
    <3> QED BY <2>1, <3>2
  <2>2. CASE y # x
    BY <1>3, <2>2
  <2> QED BY <2>1, <2>2
<1>4. z[x] = << >> <=> Len(z[x]) = 0
  BY <1>2, EmptySeq
<1> QED BY <1>2, <1>3, <1>4

(* The turn passes on from a pipe that lost a message, and the pipe leaves *)
(* the queue when none is left.                                            *)
LEMMA FqTurn ==
  ASSUME Wired, NEW q, NEW b, NEW u, NEW c, FqOK(q, b, u, c),
         nn_priolist_is_active(q), NEW z,
         \A y \in Dir : y # nn_priolist_getpipe(q) => z[y] = c[y]
  PROVE  /\ FqOK(nn_priolist_advance(q, TRUE), b, u, z)
         /\ z[nn_priolist_getpipe(q)] # << >> =>
              FqOK(nn_priolist_advance(q, FALSE), b, u, z)
         /\ nn_priolist_getpipe(q) \in Dir
         /\ nn_priolist_getpipe(q)[2] = b
         /\ c[nn_priolist_getpipe(q)] # << >>
<1> DEFINE x == nn_priolist_getpipe(q)
           f(r) == nn_priolist_advance(q, r)
<1>1. SLOTS \in Nat /\ NoPipe \notin Dir /\ ListOK(q, Dir)
  BY DEF Wired, FqOK
<1>2. /\ ListOK(f(TRUE), Dir)
      /\ \A j \in Prio : Elements(f(TRUE).pipes[j])
           = IF TRUE /\ j = q.current
             THEN Elements(q.pipes[j]) \ {q.turn[q.current]}
             ELSE Elements(q.pipes[j])
  BY <1>1, AdvanceOK
<1>3. /\ ListOK(f(FALSE), Dir)
      /\ \A j \in Prio : Elements(f(FALSE).pipes[j])
           = IF FALSE /\ j = q.current
             THEN Elements(q.pipes[j]) \ {q.turn[q.current]}
             ELSE Elements(q.pipes[j])
  BY <1>1, AdvanceOK
<1>4. /\ q.current \in Prio /\ x = q.turn[q.current]
      /\ x \in Elements(q.pipes[q.current])
  BY <1>1, TurnOK
<1>5. \A i \in Prio : \A y \in Elements(q.pipes[i]) :
        /\ i = PipePrio[y] /\ y[2] = b /\ Queues(b)
        /\ IsUp(u, y) /\ c[y] # << >> /\ y \in Dir
  BY <1>1, MemberOf DEF FqOK
<1>6. ASSUME NEW i \in Prio, NEW y \in Elements(f(TRUE).pipes[i])
      PROVE  /\ i = PipePrio[y] /\ y[2] = b /\ Queues(b)
             /\ IsUp(u, y) /\ z[y] # << >>
  <2> HIDE DEF f
  <2>1. y \in Elements(q.pipes[i]) /\ ~(i = q.current /\ y = x)
    BY <1>2, <1>4
  <2>2. /\ i = PipePrio[y] /\ y[2] = b /\ Queues(b)
        /\ IsUp(u, y) /\ c[y] # << >> /\ y \in Dir
    BY <2>1, <1>5
  <2>3. q.current = PipePrio[x]
    BY <1>4, <1>5
  <2>4. y # x
    BY <2>1, <2>2, <2>3
  <2> QED BY <2>2, <2>4
<1>7. ASSUME NEW i \in Prio, NEW y \in Elements(f(FALSE).pipes[i]),
             z[x] # << >>
      PROVE  /\ i = PipePrio[y] /\ y[2] = b /\ Queues(b)
             /\ IsUp(u, y) /\ z[y] # << >>
  <2> HIDE DEF f
  <2>1. y \in Elements(q.pipes[i])
    BY <1>3
  <2>2. /\ i = PipePrio[y] /\ y[2] = b /\ Queues(b)
        /\ IsUp(u, y) /\ c[y] # << >> /\ y \in Dir
    BY <2>1, <1>5
  <2> QED BY <2>2, <1>7
<1> HIDE DEF f
<1>8. FqOK(f(TRUE), b, u, z)
  BY <1>2, <1>6 DEF FqOK
<1>9. z[x] # << >> => FqOK(f(FALSE), b, u, z)
  BY <1>3, <1>7 DEF FqOK
<1>10. x \in Dir /\ x[2] = b /\ c[x] # << >>
  BY <1>4, <1>5
<1> QED BY <1>8, <1>9, <1>10 DEF f

(* FqTake: the next message of the queue of b leaves its pipe.             *)
LEMMA FqTakeOK ==
  ASSUME Wired, NEW n \in Nets, NEW u, u \subseteq n,
         NEW c, NEW g, NEW h, NEW s, NEW f, Flow(n, u, c, g, h, s, f),
         NEW q, NEW b, FqOK(q, b, u, c), nn_priolist_is_active(q),
         NEW t, t = FqTake(q, c), NEW x, x = nn_priolist_getpipe(q)
  PROVE  /\ x \in Dir /\ x[2] = b /\ c[x] # << >>
         /\ t.msg = Head(c[x]) /\ t.pipe = x
         /\ DOMAIN t.c = Dir /\ t.c[x] = Tail(c[x])
         /\ \A y \in Dir : y # x => t.c[y] = c[y]
         /\ \A y \in Dir : Len(c[y]) < Cap => Len(t.c[y]) < Cap
         /\ FqOK(t.q, b, u, t.c)
         /\ Flow(n, u, t.c, g, h, s, f)
<1> DEFINE e == t.c
           full == Len(c[x]) = 1
<1>1. ChanOK(n, u, c, s, f) /\ DOMAIN c = Dir /\ Cap \in Nat
  BY DEF Flow, ChanOK, Wired
<1>2. /\ t.msg = Head(c[x]) /\ t.pipe = x /\ e = [c EXCEPT ![x] = Tail(@)]
      /\ t.q = nn_priolist_advance(q, full)
  BY DEF FqTake
<1>3. x \in Dir /\ x[2] = b /\ c[x] # << >>
  BY FqTurn
<1>4. /\ DOMAIN e = Dir /\ e[x] = Tail(c[x])
      /\ \A y \in Dir : y # x => e[y] = c[y]
  BY <1>1, <1>2, <1>3
<1> HIDE DEF e
<1>5. /\ \A y \in Dir : Len(c[y]) < Cap => Len(e[y]) < Cap
      /\ ~full => e[x] # << >>
  <2>1. Taken(e, c, x)
    BY <1>4 DEF Taken
  <2> QED BY <1>1, <1>3, <2>1, TakeRoom
<1>6. Flow(n, u, e, g, h, s, f)
  BY <1>3, <1>4, TakeKeeps
<1>7. FqOK(t.q, b, u, e)
  <2>1. /\ FqOK(nn_priolist_advance(q, TRUE), b, u, e)
        /\ e[x] # << >> => FqOK(nn_priolist_advance(q, FALSE), b, u, e)
    BY <1>4, FqTurn
  <2>2. CASE full
    <3>1. t.q = nn_priolist_advance(q, TRUE)
      BY <1>2, <2>2
    <3> QED BY <2>1, <3>1
  <2>3. CASE ~full
    <3>1. t.q = nn_priolist_advance(q, FALSE)
      BY <1>2, <2>3
    <3> QED BY <1>5, <2>1, <2>3, <3>1
  <2> QED BY <2>2, <2>3
<1> QED BY <1>2, <1>3, <1>4, <1>5, <1>6, <1>7 DEF e

(* Messages left pipes to b.                                               *)
Drained(z, c, b) ==
  /\ DOMAIN z = Dir
  /\ \A x \in Dir : /\ x[2] # b => z[x] = c[x]
                    /\ Len(c[x]) < Cap => Len(z[x]) < Cap

(* The lists of pipes when socket b received.                              *)
LEMMA RecvLists ==
  ASSUME Wired, NEW n \in Nets, NEW u, u \subseteq n, NEW c,
         NEW l, LbOK(l, u, c), NEW d, DistOK(d, u, c),
         NEW k, ExclOK(k, u, c), NEW q, FqsOK(q, u, c),
         NEW b \in Socket, Kind[b] # "PAIR", NEW z, Drained(z, c, b),
         NEW r, DOMAIN r = Socket, FqOK(r[b], b, u, z),
         \A a \in Socket : a # b => r[a] = q[a]
  PROVE  /\ LbOK(l, u, z) /\ DistOK(d, u, z) /\ ExclOK(k, u, z)
         /\ FqsOK(r, u, z)
<1>1. /\ \A x \in Dir : Len(c[x]) < Cap => Len(z[x]) < Cap
      /\ \A x \in Dir : x[2] # b => z[x] = c[x]
  BY DEF Drained
<1>2. LbOK(l, u, z)
  BY <1>1, LbSame
<1>3. DistOK(d, u, z)
  BY <1>1, DistSame
<1>4. ExclOK(k, u, z)
  <2>1. \A x \in Dir : Kind[x[1]] = "PAIR" /\ Kind[x[2]] = "PAIR"
                         => z[x] = c[x]
    BY <1>1
  <2> QED BY <2>1, ExclSame
<1>5. ASSUME NEW a \in Socket PROVE FqOK(r[a], a, u, z)
  <2>1. CASE a = b
    BY <2>1
  <2>2. CASE a # b
    <3>1. FqOK(q[a], a, u, c) /\ r[a] = q[a]
      BY <2>2 DEF FqsOK
    <3>2. \A x \in Dir : x[2] = a /\ c[x] # << >> => z[x] # << >>
      BY <1>1, <2>2
    <3>3. FqOK(q[a], a, u, z)
      BY <3>1, <3>2, FqSame
    <3> QED BY <3>1, <3>3
  <2> QED BY <2>1, <2>2
<1>6. FqsOK(r, u, z)
  BY <1>5 DEF FqsOK
<1> QED BY <1>2, <1>3, <1>4, <1>6

-----------------------------------------------------------------------------
(* Receiving                                                               *)

(* PULL and BUS.                                                           *)
LEMMA PullRecv ==
  ASSUME Wired, PatInv, NEW b \in Socket, nn_xpull_recv(b)
  PROVE  PatInv'
<1> DEFINE x == nn_priolist_getpipe(fq[b])
           t == FqTake(fq[b], chan)
<1>1. /\ net \in Nets /\ up \subseteq net
      /\ Flow(net, up, chan, got, hold, sent, faults)
      /\ FqOK(fq[b], b, up, chan) /\ nn_priolist_is_active(fq[b])
      /\ DOMAIN fq = Socket /\ DOMAIN got = Socket
  BY DEF PatInv, Basics, FqsOK, nn_xpull_recv, Flow, GotOK
<1>2. /\ x \in Dir /\ x[2] = b /\ chan[x] # << >>
      /\ t.msg = Head(chan[x])
      /\ DOMAIN t.c = Dir /\ t.c[x] = Tail(chan[x])
      /\ \A y \in Dir : y # x => t.c[y] = chan[y]
      /\ \A y \in Dir : Len(chan[y]) < Cap => Len(t.c[y]) < Cap
      /\ FqOK(t.q, b, up, t.c)
  BY <1>1, FqTakeOK
<1>3. /\ Kind[b] \in {"PULL", "BUS"} /\ chan' = t.c
      /\ fq' = [fq EXCEPT ![b] = t.q]
      /\ got' = [got EXCEPT ![b] = Append(@, t.msg)]
      /\ UNCHANGED <<net, up, dist, lb, excl, hold, sent, skipped, faults>>
  BY DEF nn_xpull_recv
<1> HIDE DEF x, t
<1>4. /\ DOMAIN got' = Socket /\ got'[b] = Append(got[b], Head(chan[x]))
      /\ \A a \in Socket : a # b => got'[a] = got[a]
      /\ DOMAIN fq' = Socket /\ fq'[b] = t.q
      /\ \A a \in Socket : a # b => fq'[a] = fq[a]
      /\ DOMAIN chan' = Dir /\ chan'[x] = Tail(chan[x])
      /\ \A y \in Dir : y # x => chan'[y] = chan[y]
  BY <1>1, <1>2, <1>3
<1>5. Flow(net, up, chan', got', hold, sent, faults)
  <2>1. /\ net \in Nets /\ up \subseteq net /\ x \in Dir /\ chan[x] # << >>
        /\ Flow(net, up, chan, got, hold, sent, faults)
        /\ Kind[x[2]] # "DEV" /\ Kind[x[2]] # "SUB"
    BY <1>1, <1>2, <1>3
  <2>2. /\ DOMAIN chan' = Dir /\ chan'[x] = Tail(chan[x])
        /\ \A y \in Dir : y # x => chan'[y] = chan[y]
    BY <1>4
  <2>3. /\ DOMAIN got' = Socket
        /\ got'[x[2]] = Append(got[x[2]], Head(chan[x]))
        /\ \A a \in Socket : a # x[2] => got'[a] = got[a]
    BY <1>2, <1>4
  <2>4. Taken(chan', chan, x) /\ Received(got', got, chan, x)
    BY <2>2, <2>3 DEF Taken, Received
  <2> QED BY <2>1, <2>4, GotKeeps
<1>6. Drained(chan', chan, b)
  BY <1>2, <1>3, <1>4 DEF Drained
<1>7. /\ LbOK(lb, up, chan') /\ DistOK(dist, up, chan')
      /\ ExclOK(excl, up, chan') /\ FqsOK(fq', up, chan')
  <2>1. FqOK(fq'[b], b, up, chan')
    BY <1>2, <1>3, <1>4
  <2>2. /\ LbOK(lb, up, chan) /\ DistOK(dist, up, chan)
        /\ ExclOK(excl, up, chan) /\ FqsOK(fq, up, chan) /\ Kind[b] # "PAIR"
        /\ net \in Nets /\ up \subseteq net
    BY <1>1, <1>3 DEF PatInv
  <2>3. DOMAIN fq' = Socket /\ \A a \in Socket : a # b => fq'[a] = fq[a]
    BY <1>4
  <2> QED BY <1>6, <2>1, <2>2, <2>3, RecvLists
<1> QED BY <1>3, <1>5, <1>7 DEF PatInv

(* A device.                                                               *)
LEMMA BusRecv ==
  ASSUME Wired, PatInv, NEW b \in Socket, nn_xbus_recv(b)
  PROVE  PatInv'
<1> DEFINE x == nn_priolist_getpipe(fq[b])
           t == FqTake(fq[b], chan)
<1>1. /\ net \in Nets /\ up \subseteq net
      /\ Flow(net, up, chan, got, hold, sent, faults)
      /\ FqOK(fq[b], b, up, chan) /\ nn_priolist_is_active(fq[b])
      /\ DOMAIN fq = Socket /\ DOMAIN hold = Socket
  BY DEF PatInv, Basics, FqsOK, nn_xbus_recv, Flow, HoldOK
<1>2. /\ x \in Dir /\ x[2] = b /\ chan[x] # << >>
      /\ t.msg = Head(chan[x]) /\ t.pipe = x
      /\ DOMAIN t.c = Dir /\ t.c[x] = Tail(chan[x])
      /\ \A y \in Dir : y # x => t.c[y] = chan[y]
      /\ \A y \in Dir : Len(chan[y]) < Cap => Len(t.c[y]) < Cap
      /\ FqOK(t.q, b, up, t.c)
      /\ Flow(net, up, t.c, got, hold, sent, faults)
  BY <1>1, FqTakeOK
<1>3. /\ Kind[b] = "DEV" /\ hold[b].msg = NoMsg /\ chan' = t.c
      /\ fq' = [fq EXCEPT ![b] = t.q]
      /\ hold' = [hold EXCEPT ![b] =
                    [msg |-> t.msg, pipe |-> <<b, t.pipe[1]>>]]
      /\ UNCHANGED <<net, up, dist, lb, excl, sent, got, skipped, faults>>
  BY DEF nn_xbus_recv
<1> HIDE DEF x, t
<1>4. /\ DOMAIN hold' = Socket /\ DOMAIN hold'[b] = {"msg", "pipe"}
      /\ hold'[b].msg = Head(chan[x]) /\ hold'[b].pipe = <<b, x[1]>>
      /\ \A a \in Socket : a # b => hold'[a] = hold[a]
      /\ DOMAIN fq' = Socket /\ fq'[b] = t.q
      /\ \A a \in Socket : a # b => fq'[a] = fq[a]
      /\ DOMAIN chan' = Dir /\ chan'[x] = Tail(chan[x])
      /\ \A y \in Dir : y # x => chan'[y] = chan[y]
      /\ Flow(net, up, chan', got, hold, sent, faults)
  BY <1>1, <1>2, <1>3
<1>5. Flow(net, up, chan', got, hold', sent, faults)
  <2>1. Kind[x[2]] = "DEV" /\ net \in Nets /\ up \subseteq net
        /\ Flow(net, up, chan, got, hold, sent, faults)
    BY <1>1, <1>2, <1>3
  <2>2. /\ DOMAIN hold'[x[2]] = {"msg", "pipe"}
        /\ hold'[x[2]].msg = Head(chan[x])
        /\ hold'[x[2]].pipe = <<x[2], x[1]>>
        /\ \A a \in Socket : a # x[2] => hold'[a] = hold[a]
    BY <1>2, <1>4
  <2>3. /\ x \in Dir /\ chan[x] # << >> /\ DOMAIN hold' = Socket
        /\ DOMAIN chan' = Dir /\ chan'[x] = Tail(chan[x])
        /\ \A y \in Dir : y # x => chan'[y] = chan[y]
        /\ Flow(net, up, chan', got, hold, sent, faults)
    BY <1>2, <1>4
  <2>4. Taken(chan', chan, x) /\ Held(hold', hold, chan, x)
    BY <2>2, <2>3 DEF Taken, Held
  <2> QED BY <2>1, <2>3, <2>4, HoldKeeps
<1>6. Drained(chan', chan, b)
  BY <1>2, <1>3, <1>4 DEF Drained
<1>7. /\ LbOK(lb, up, chan') /\ DistOK(dist, up, chan')
      /\ ExclOK(excl, up, chan') /\ FqsOK(fq', up, chan')
  <2>1. FqOK(fq'[b], b, up, chan')
    BY <1>2, <1>3, <1>4
  <2>2. /\ LbOK(lb, up, chan) /\ DistOK(dist, up, chan)
        /\ ExclOK(excl, up, chan) /\ FqsOK(fq, up, chan) /\ Kind[b] # "PAIR"
        /\ net \in Nets /\ up \subseteq net
    BY <1>1, <1>3 DEF PatInv
  <2>3. DOMAIN fq' = Socket /\ \A a \in Socket : a # b => fq'[a] = fq[a]
    BY <1>4
  <2> QED BY <1>6, <2>1, <2>2, <2>3, RecvLists
<1> QED BY <1>3, <1>5, <1>7 DEF PatInv

(* The pipe of a PAIR socket leads to another one, whose pipe it is too.   *)
LEMMA PairPipe ==
  ASSUME Wired, net \in Nets, up \subseteq net, ExclOK(excl, up, chan),
         NEW a \in Socket, excl[a].pipe # NoPipe,
         NEW p, p = PairDir(a)[2]
  PROVE  /\ p \in Socket /\ p # a /\ excl[a].pipe = {a, p} /\ {a, p} \in up
         /\ Kind[a] = "PAIR" /\ Kind[p] = "PAIR"
         /\ PairDir(a) = <<a, p>> /\ <<a, p>> \in Dir /\ <<p, a>> \in Dir
         /\ Carries(<<a, p>>) /\ Carries(<<p, a>>)
<1>1. excl[a].pipe \in up /\ Kind[a] = "PAIR" /\ a \in excl[a].pipe
  BY DEF ExclOK
<1>2. Link(excl[a].pipe)
  BY <1>1 DEF Wired
<1>3. \E b \in Socket : b # a /\ excl[a].pipe = {a, b}
  BY <1>1, <1>2 DEF Link
<1>4. /\ PairDir(a) = <<a, p>> /\ p \in Socket /\ p # a
      /\ excl[a].pipe = {a, p}
  BY <1>3 DEF PairDir
<1> HIDE DEF PairDir
<1>5. /\ Carries(<<a, p>>) => <<a, p>> \in Dir
      /\ Carries(<<p, a>>) => <<p, a>> \in Dir
      /\ \/ <<Kind[a], Kind[p]>> \in Mates
         \/ <<Kind[p], Kind[a]>> \in Mates
  <2>1. {a, p} \in net /\ a # p
    BY <1>1, <1>4
  <2> QED BY <2>1, LinkDirs
<1>6. Kind[p] = "PAIR"
  BY <1>1, <1>5 DEF Mates
<1>7. Carries(<<a, p>>) /\ Carries(<<p, a>>)
  BY <1>1, <1>6 DEF Carries
<1> QED BY <1>1, <1>4, <1>5, <1>6, <1>7

(* PAIR socket b notes what its pipe can do, and all notes fit the pipes.  *)
Noted(r, k, u, b) ==
  /\ DOMAIN r = Socket /\ \A a \in Socket : a # b => r[a] = k[a]
  /\ r[b] \in [pipe : u \cup {NoPipe}, in : BOOLEAN, out : BOOLEAN]
  /\ r[b].pipe = k[b].pipe /\ k[b].pipe # NoPipe
Fits(r, k, z) ==
  \A a \in Socket, y \in Dir : {y[1], y[2]} = k[a].pipe =>
    /\ y[1] = a /\ r[a].out => Len(z[y]) < Cap
    /\ y[2] = a /\ r[a].in => z[y] # << >>

(* One PAIR socket notes what its pipe can do.                             *)
LEMMA ExclOne ==
  ASSUME NEW k, NEW u, NEW c, ExclOK(k, u, c), NEW b \in Socket,
         NEW r, Noted(r, k, u, b), NEW z, Fits(r, k, z)
  PROVE  ExclOK(r, u, z)
<1>0. /\ DOMAIN r = Socket /\ \A a \in Socket : a # b => r[a] = k[a]
      /\ r[b] \in [pipe : u \cup {NoPipe}, in : BOOLEAN, out : BOOLEAN]
      /\ r[b].pipe = k[b].pipe /\ k[b].pipe # NoPipe
      /\ \A a \in Socket, y \in Dir : {y[1], y[2]} = k[a].pipe =>
           /\ y[1] = a /\ r[a].out => Len(z[y]) < Cap
           /\ y[2] = a /\ r[a].in => z[y] # << >>
  BY DEF Noted, Fits
<1> USE <1>0
<1> SUFFICES ASSUME NEW a \in Socket
             PROVE
       /\ r[a] \in [pipe : u \cup {NoPipe}, in : BOOLEAN, out : BOOLEAN]
       /\ r[a].pipe # NoPipe => Kind[a] = "PAIR" /\ a \in r[a].pipe
       /\ r[a].pipe = NoPipe => ~r[a].in /\ ~r[a].out
       /\ Kind[a] = "PAIR" => \A e \in u : a \in e => r[a].pipe = e
       /\ \A x \in Dir : {x[1], x[2]} = r[a].pipe =>
            /\ x[1] = a /\ r[a].out => Len(z[x]) < Cap
            /\ x[2] = a /\ r[a].in => z[x] # << >>
  BY DEF ExclOK
<1>1. /\ k[a] \in [pipe : u \cup {NoPipe}, in : BOOLEAN, out : BOOLEAN]
      /\ k[a].pipe # NoPipe => Kind[a] = "PAIR" /\ a \in k[a].pipe
      /\ k[a].pipe = NoPipe => ~k[a].in /\ ~k[a].out
      /\ Kind[a] = "PAIR" => \A e \in u : a \in e => k[a].pipe = e
  BY DEF ExclOK
<1>2. CASE a = b
  BY <1>1, <1>2
<1>3. CASE a # b
  <2>1. r[a] = k[a]
    BY <1>3
  <2> QED BY <1>1, <2>1
<1> QED BY <1>2, <1>3

(* PAIR.                                                                   *)
LEMMA PairRecv ==
  ASSUME Wired, PatInv, NEW b \in Socket, nn_xpair_recv(b)
  PROVE  PatInv'
<1> DEFINE p == PairDir(b)[2]
           x == <<p, b>>
<1>1. /\ net \in Nets /\ up \subseteq net /\ ExclOK(excl, up, chan)
      /\ Flow(net, up, chan, got, hold, sent, faults)
      /\ DOMAIN excl = Socket /\ DOMAIN got = Socket /\ Cap \in Nat
      /\ ChanOK(net, up, chan, sent, faults) /\ DOMAIN chan = Dir
  BY DEF PatInv, Basics, ExclOK, Flow, GotOK, ChanOK, Wired
<1>2. /\ Kind[b] = "PAIR" /\ excl[b].in
      /\ chan' = [chan EXCEPT ![x] = Tail(@)]
      /\ excl' = [excl EXCEPT ![b].in = Len(chan[x]) > 1]
      /\ got' = [got EXCEPT ![b] = Append(@, Head(chan[x]))]
      /\ UNCHANGED <<net, up, dist, lb, fq, hold, sent, skipped, faults>>
  BY DEF nn_xpair_recv
<1>3. /\ excl[b] \in [pipe : up \cup {NoPipe}, in : BOOLEAN, out : BOOLEAN]
      /\ excl[b].pipe # NoPipe
  BY <1>1, <1>2 DEF ExclOK
<1>4. /\ p \in Socket /\ p # b /\ excl[b].pipe = {b, p} /\ {b, p} \in up
      /\ Kind[p] = "PAIR" /\ x \in Dir
  BY <1>1, <1>3, PairPipe
<1> HIDE DEF p
<1>5. chan[x] # << >>
  <2>1. {x[1], x[2]} = excl[b].pipe /\ x[2] = b
    BY <1>4
  <2> HIDE DEF x
  <2> QED BY <1>1, <1>2, <1>4, <2>1 DEF ExclOK
<1>6. x[1] = p /\ x[2] = b
  OBVIOUS
<1> HIDE DEF x
<1>7. Taken(chan', chan, x)
  BY <1>1, <1>2, <1>4 DEF Taken
<1>8. Received(got', got, chan, x)
  BY <1>1, <1>2, <1>6 DEF Received
<1>9. Flow(net, up, chan', got', hold, sent, faults)
  <2>1. Kind[x[2]] # "DEV" /\ Kind[x[2]] # "SUB"
    BY <1>2, <1>6
  <2> QED BY <1>1, <1>4, <1>5, <1>7, <1>8, <2>1, GotKeeps
<1>10. /\ \A y \in Dir : Len(chan[y]) < Cap => Len(chan'[y]) < Cap
       /\ Len(chan[x]) \in Nat /\ (Len(chan[x]) # 1 => chan'[x] # << >>)
  BY <1>1, <1>4, <1>5, <1>7, TakeRoom
<1>15. Len(chan[x]) > 1 => chan'[x] # << >>
  <2> DEFINE len == Len(chan[x])
  <2>1. len \in Nat /\ (len # 1 => chan'[x] # << >>)
    BY <1>10
  <2> HIDE DEF len
  <2>2. len > 1 => len # 1
    BY <2>1
  <2> QED BY <2>1, <2>2 DEF len
<1>11. LbOK(lb, up, chan') /\ DistOK(dist, up, chan')
  <2>1. LbOK(lb, up, chan) /\ DistOK(dist, up, chan)
    BY DEF PatInv
  <2>2. LbOK(lb, up, chan')
    BY <1>10, <2>1, LbSame
  <2>3. DistOK(dist, up, chan')
    BY <1>10, <2>1, DistSame
  <2> QED BY <2>2, <2>3
<1>12. FqsOK(fq, up, chan')
  <2> SUFFICES ASSUME NEW a \in Socket PROVE FqOK(fq[a], a, up, chan')
    BY DEF FqsOK, PatInv
  <2>1. FqOK(fq[a], a, up, chan)
    BY DEF FqsOK, PatInv
  <2>2. CASE a # b
    <3>1. \A y \in Dir : y[2] = a /\ chan[y] # << >> => chan'[y] # << >>
      BY <1>6, <1>7, <2>2 DEF Taken
    <3> QED BY <2>1, <3>1, FqSame
  <2>3. CASE a = b
    <3>1. ~Queues(a)
      BY <1>2, <2>3 DEF Queues
    <3> QED BY <2>1, <3>1 DEF FqOK
  <2> QED BY <2>2, <2>3
<1>13. ExclOK(excl', up, chan')
  <2>1. /\ DOMAIN excl' = Socket
        /\ \A a \in Socket : a # b => excl'[a] = excl[a]
        /\ excl'[b] \in [pipe : up \cup {NoPipe}, in : BOOLEAN, out : BOOLEAN]
        /\ excl'[b].pipe = excl[b].pipe
        /\ excl'[b].out = excl[b].out
        /\ excl'[b].in = (Len(chan[x]) > 1)
    <3> DEFINE v == Len(chan[x]) > 1
    <3>1. v \in BOOLEAN /\ excl' = [excl EXCEPT ![b].in = v]
      BY <1>2
    <3> HIDE DEF v
    <3>2. /\ DOMAIN excl' = Socket /\ excl'[b] = [excl[b] EXCEPT !.in = v]
          /\ \A a \in Socket : a # b => excl'[a] = excl[a]
      BY <1>1, <3>1
    <3>3. /\ excl'[b] \in [pipe : up \cup {NoPipe}, in : BOOLEAN,
                            out : BOOLEAN]
          /\ excl'[b].pipe = excl[b].pipe /\ excl'[b].out = excl[b].out
          /\ excl'[b].in = v
      BY <1>3, <3>1, <3>2
    <3> QED BY <3>2, <3>3 DEF v
  <2>2. ASSUME NEW a \in Socket, NEW y \in Dir, {y[1], y[2]} = excl[a].pipe
        PROVE  /\ y[1] = a /\ excl'[a].out => Len(chan'[y]) < Cap
               /\ y[2] = a /\ excl'[a].in => chan'[y] # << >>
    <3>1. /\ y[1] = a /\ excl[a].out => Len(chan[y]) < Cap
          /\ y[2] = a /\ excl[a].in => chan[y] # << >>
      BY <1>1, <2>2 DEF ExclOK
    <3>2. excl'[a].out = excl[a].out
      BY <2>1
    <3>3. ASSUME y[2] = a, excl'[a].in PROVE chan'[y] # << >>
      <4>1. CASE y = x
        <5>1. Len(chan[x]) > 1
          BY <1>6, <2>1, <3>3, <4>1
        <5> QED BY <1>15, <4>1, <5>1
      <4>2. CASE y # x
        <5>1. a # b
          <6> SUFFICES ASSUME a = b PROVE FALSE
            OBVIOUS
          <6>1. {y[1], y[2]} = {b, p} /\ y[2] = b /\ y \in Socket \X Socket
            BY <1>4, <2>2, <3>3 DEF Wired
          <6>2. y = <<p, b>>
            BY <1>4, <6>1
          <6> QED BY <4>2, <6>2 DEF x
        <5>2. chan'[y] = chan[y] /\ excl'[a].in = excl[a].in
          BY <1>7, <2>1, <4>2, <5>1 DEF Taken
        <5> QED BY <3>1, <3>3, <5>2
      <4> QED BY <4>1, <4>2
    <3> QED BY <1>10, <3>1, <3>2, <3>3
  <2>3. Noted(excl', excl, up, b)
    BY <1>3, <2>1 DEF Noted
  <2>4. Fits(excl', excl, chan')
    BY <2>2 DEF Fits
  <2> QED BY <1>1, <2>3, <2>4, ExclOne
<1>14. /\ Basics(net, up, sent, faults) /\ TurnsOK(skipped, lb)
  BY DEF PatInv
<1> QED BY <1>2, <1>9, <1>11, <1>12, <1>13, <1>14 DEF PatInv

(* What holds after every round of the loop of nn_xsub_recv.               *)
RoundOK(t, b) ==
  /\ Drained(t.c, chan, b) /\ FqOK(t.q, b, up, t.c)
  /\ Flow(net, up, t.c, got, hold, sent, faults)
  /\ t.msg.topic \in Wanted =>
       Flow(net, up, t.c, [got EXCEPT ![b] = Append(@, t.msg)],
            hold, sent, faults)

(* One message is taken.                                                   *)
LEMMA RoundTake ==
  ASSUME Wired, PatInv, NEW b \in Socket, Kind[b] # "DEV",
         NEW q, NEW c, Drained(c, chan, b), FqOK(q, b, up, c),
         nn_priolist_is_active(q),
         Flow(net, up, c, got, hold, sent, faults)
  PROVE  RoundOK(FqTake(q, c), b)
<1> DEFINE x == nn_priolist_getpipe(q)
           t == FqTake(q, c)
           r == [got EXCEPT ![b] = Append(@, t.msg)]
<1>1. net \in Nets /\ up \subseteq net /\ DOMAIN got = Socket
  BY DEF PatInv, Basics, Flow, GotOK
<1>0. net \in Nets /\ up \subseteq net
  BY DEF PatInv, Basics
<1>2. /\ x \in Dir /\ x[2] = b /\ c[x] # << >>
      /\ t.msg = Head(c[x])
      /\ DOMAIN t.c = Dir /\ t.c[x] = Tail(c[x])
      /\ \A y \in Dir : y # x => t.c[y] = c[y]
      /\ \A y \in Dir : Len(c[y]) < Cap => Len(t.c[y]) < Cap
      /\ FqOK(t.q, b, up, t.c)
      /\ Flow(net, up, t.c, got, hold, sent, faults)
  BY <1>0, FqTakeOK
<1>3. /\ DOMAIN r = Socket /\ r[b] = Append(got[b], t.msg)
      /\ \A a \in Socket : a # b => r[a] = got[a]
  BY <1>1
<1> HIDE DEF x, t, r
<1>4. Drained(t.c, chan, b)
  <2>1. \A y \in Dir : /\ y[2] # b => c[y] = chan[y]
                       /\ Len(chan[y]) < Cap => Len(c[y]) < Cap
    BY DEF Drained
  <2> QED BY <1>2, <2>1 DEF Drained
<1>5. Taken(t.c, c, x) /\ Received(r, got, c, x)
  BY <1>2, <1>3 DEF Taken, Received
<1>6. ASSUME t.msg.topic \in Wanted
      PROVE  Flow(net, up, t.c, r, hold, sent, faults)
  <2>1. /\ Kind[x[2]] # "DEV"
        /\ Kind[x[2]] = "SUB" => Head(c[x]).topic \in Wanted
    BY <1>2, <1>6
  <2>2. x \in Dir /\ c[x] # << >>
    BY <1>2
  <2> QED BY <1>1, <1>5, <2>1, <2>2, GotKeeps
<1> QED BY <1>2, <1>4, <1>6 DEF RoundOK, r, t

TakeNext(t) ==
  IF t.msg.topic \in Wanted \/ ~nn_priolist_is_active(t.q)
    THEN t ELSE FqTake(t.q, t.c)

Waiting(b) ==
  Cardinality({w \in Dir \X (1 .. Cap) :
                 w[1][2] = b /\ w[2] <= Len(chan[w[1]])})

(* The first n rounds of the loop.                                         *)
IsTake(g, b, n) ==
  g = [k \in 1 .. n |-> IF k = 1 THEN FqTake(fq[b], chan)
                                 ELSE TakeNext(g[k - 1])]

(* There are as many rounds as one likes.                                  *)
LEMMA RoundsExist == \A b : \A n \in Nat : \E g : IsTake(g, b, n)
<1> SUFFICES ASSUME NEW b, ~ \A n \in Nat : \E g : IsTake(g, b, n)
             PROVE  FALSE
  OBVIOUS
<1> DEFINE T == {n \in Nat : ~ \E g : IsTake(g, b, n)}
<1>1. T \subseteq Nat /\ T # {}
  OBVIOUS
<1>2. PICK n \in T : \A y \in T : n <= y
  <2> HIDE DEF T
  <2> QED BY <1>1, LeastNat
<1>3. n \in Nat /\ ~ \E g : IsTake(g, b, n)
  OBVIOUS
<1>4. CASE n = 0
  <2> DEFINE g == [k \in 1 .. 0 |-> FqTake(fq[b], chan)]
  <2>1. IsTake(g, b, 0)
    BY DEF IsTake
  <2> QED BY <1>3, <1>4, <2>1
<1>5. CASE n # 0
  <2>1. n - 1 \in Nat /\ ~(n - 1 \in T)
    BY <1>2, <1>3, <1>5
  <2>2. PICK g : IsTake(g, b, n - 1)
    BY <2>1
  <2> DEFINE h == [k \in 1 .. n |-> IF k = 1 THEN FqTake(fq[b], chan)
                                             ELSE TakeNext(g[k - 1])]
  <2>3. g = [k \in 1 .. n - 1 |-> IF k = 1 THEN FqTake(fq[b], chan)
                                            ELSE TakeNext(g[k - 1])]
    BY <2>2 DEF IsTake
  <2>4. \A k \in 1 .. n - 1 : g[k] = h[k]
    BY <1>3, <2>3
  <2>5. \A k \in 1 .. n : h[k] = IF k = 1 THEN FqTake(fq[b], chan)
                                          ELSE TakeNext(h[k - 1])
    <3> TAKE k \in 1 .. n
    <3>1. CASE k = 1
      BY <3>1
    <3>2. CASE k # 1
      <4>1. k - 1 \in 1 .. n - 1
        BY <1>3, <3>2
      <4>2. h[k] = TakeNext(g[k - 1])
        BY <3>2
      <4> QED BY <4>1, <4>2, <2>4, <3>2
    <3> QED BY <3>1, <3>2
  <2>6. DOMAIN h = 1 .. n /\ h = [k \in DOMAIN h |-> h[k]]
    OBVIOUS
  <2> HIDE DEF h
  <2>7. IsTake(h, b, n)
    BY <2>5, <2>6 DEF IsTake
  <2> QED BY <1>3, <2>7
<1> QED BY <1>4, <1>5

(* A pipe in the queue has a message, so at least one waits.               *)
LEMMA SomeWaits ==
  ASSUME Wired, PatInv, NEW b \in Socket, nn_priolist_is_active(fq[b])
  PROVE  Waiting(b) \in Nat /\ Waiting(b) >= 1
<1> DEFINE W == {w \in Dir \X (1 .. Cap) :
                   w[1][2] = b /\ w[2] <= Len(chan[w[1]])}
           x == nn_priolist_getpipe(fq[b])
<1>1. IsFiniteSet(Dir) /\ Cap \in Nat /\ Cap >= 1
  BY DEF Wired
<1>2. IsFiniteSet(1 .. Cap)
  BY <1>1, FS_Interval
<1>3. IsFiniteSet(Dir \X (1 .. Cap))
  BY <1>1, <1>2, FS_Product
<1>4. IsFiniteSet(W)
  BY <1>3, FS_Subset
<1>5. x \in Dir /\ x[2] = b /\ chan[x] # << >>
  <2>1. FqOK(fq[b], b, up, chan)
    BY DEF PatInv, FqsOK
  <2> QED BY <2>1, FqTurn
<1> HIDE DEF x
<1>6. 1 <= Len(chan[x])
  <2>1. chan[x] \in Seq(Msg)
    BY <1>5 DEF PatInv, Flow, ChanOK
  <2> QED BY <1>5, <2>1, TailFacts
<1>7. <<x, 1>> \in W
  BY <1>1, <1>5, <1>6
<1> HIDE DEF W
<1>8. Cardinality(W) \in Nat /\ Cardinality(W) # 0
  BY <1>4, <1>7, FS_CardinalityType, FS_EmptySet
<1>9. Waiting(b) = Cardinality(W)
  BY DEF Waiting, W
<1> QED BY <1>8, <1>9

(* Every round keeps what a taken message promises.                        *)
LEMMA RoundsOK ==
  ASSUME Wired, PatInv, NEW b \in Socket, Kind[b] # "DEV",
         nn_priolist_is_active(fq[b]),
         NEW n \in Nat, n >= 1, NEW g, IsTake(g, b, n)
  PROVE  RoundOK(g[n], b)
<1> DEFINE T == {k \in 1 .. n : ~RoundOK(g[k], b)}
<1>1. \A k \in 1 .. n : g[k] = IF k = 1 THEN FqTake(fq[b], chan)
                                        ELSE TakeNext(g[k - 1])
  BY DEF IsTake
<1>2. SUFFICES ASSUME ~RoundOK(g[n], b) PROVE FALSE
  OBVIOUS
<1>3. T \subseteq Nat /\ n \in T
  BY <1>2
<1>4. PICK k \in T : \A y \in T : k <= y
  <2> HIDE DEF T
  <2> QED BY <1>3, LeastNat
<1>5. k \in 1 .. n /\ ~RoundOK(g[k], b)
  OBVIOUS
<1>6. CASE k = 1
  <2>1. g[k] = FqTake(fq[b], chan)
    BY <1>1, <1>5, <1>6
  <2>2. /\ FqOK(fq[b], b, up, chan)
        /\ Flow(net, up, chan, got, hold, sent, faults)
        /\ Drained(chan, chan, b)
    BY DEF PatInv, FqsOK, Drained, Flow, ChanOK
  <2>3. RoundOK(FqTake(fq[b], chan), b)
    BY <2>2, RoundTake
  <2> QED BY <1>5, <2>1, <2>3
<1>7. CASE k # 1
  <2>1. k - 1 \in 1 .. n
    BY <1>5, <1>7
  <2>2. RoundOK(g[k - 1], b)
    BY <1>4, <1>5, <2>1
  <2> DEFINE t == g[k - 1]
  <2>3. g[k] = TakeNext(t)
    BY <1>1, <1>5, <1>7
  <2>4. RoundOK(t, b)
    BY <2>2
  <2> HIDE DEF t
  <2>5. CASE t.msg.topic \in Wanted \/ ~nn_priolist_is_active(t.q)
    BY <2>3, <2>4, <2>5, <1>5 DEF TakeNext
  <2>6. CASE ~(t.msg.topic \in Wanted \/ ~nn_priolist_is_active(t.q))
    <3>1. g[k] = FqTake(t.q, t.c)
      BY <2>3, <2>6 DEF TakeNext
    <3>2. /\ Drained(t.c, chan, b) /\ FqOK(t.q, b, up, t.c)
          /\ Flow(net, up, t.c, got, hold, sent, faults)
          /\ nn_priolist_is_active(t.q)
      BY <2>4, <2>6 DEF RoundOK
    <3>3. RoundOK(FqTake(t.q, t.c), b)
      BY <3>2, RoundTake
    <3> QED BY <1>5, <3>1, <3>3
  <2> QED BY <2>5, <2>6
<1> QED BY <1>6, <1>7

(* SUB.                                                                    *)
LEMMA SubRecv ==
  ASSUME Wired, PatInv, NEW b \in Socket, nn_xsub_recv(b)
  PROVE  PatInv'
<1> DEFINE take[k \in 1 .. Waiting(b)] ==
             IF k = 1 THEN FqTake(fq[b], chan) ELSE TakeNext(take[k - 1])
           last == take[Waiting(b)]
<1>1. /\ fq' = [fq EXCEPT ![b] = last.q] /\ chan' = last.c
      /\ got' = IF last.msg.topic \in Wanted
                  THEN [got EXCEPT ![b] = Append(@, last.msg)] ELSE got
      /\ UNCHANGED <<net, up, dist, lb, excl, hold, sent, skipped, faults>>
  BY DEF nn_xsub_recv, TakeNext, Waiting
<1>2. nn_priolist_is_active(fq[b]) /\ Kind[b] = "SUB"
  BY DEF nn_xsub_recv
<1>3. Waiting(b) \in Nat /\ Waiting(b) >= 1
  BY <1>2, SomeWaits
<1>4. \E g : IsTake(g, b, Waiting(b))
  BY <1>3, RoundsExist
<1>5. IsTake(take, b, Waiting(b))
  BY <1>4 DEF IsTake
<1> HIDE DEF take
<1>6. RoundOK(last, b)
  <2>1. nn_priolist_is_active(fq[b]) /\ Kind[b] # "DEV"
    BY <1>2
  <2> QED BY <1>3, <1>5, <2>1, RoundsOK
<1> HIDE DEF last
<1>7. Drained(chan', chan, b) /\ FqOK(last.q, b, up, chan')
  BY <1>1, <1>6 DEF RoundOK
<1>8. Flow(net, up, chan', got', hold, sent, faults)
  <2>1. CASE last.msg.topic \in Wanted
    BY <1>1, <1>6, <2>1 DEF RoundOK
  <2>2. CASE ~(last.msg.topic \in Wanted)
    BY <1>1, <1>6, <2>2 DEF RoundOK
  <2> QED BY <2>1, <2>2
<1>9. /\ LbOK(lb, up, chan') /\ DistOK(dist, up, chan')
      /\ ExclOK(excl, up, chan') /\ FqsOK(fq', up, chan')
  <2>1. DOMAIN fq = Socket
    BY DEF PatInv, FqsOK
  <2>2. /\ DOMAIN fq' = Socket /\ fq'[b] = last.q
        /\ \A a \in Socket : a # b => fq'[a] = fq[a]
    BY <1>1, <2>1
  <2>3. FqOK(fq'[b], b, up, chan')
    BY <1>7, <2>2
  <2>4. /\ LbOK(lb, up, chan) /\ DistOK(dist, up, chan)
        /\ ExclOK(excl, up, chan) /\ FqsOK(fq, up, chan) /\ Kind[b] # "PAIR"
        /\ net \in Nets /\ up \subseteq net
    BY <1>2 DEF PatInv, Basics
  <2>5. DOMAIN fq' = Socket /\ \A a \in Socket : a # b => fq'[a] = fq[a]
    BY <2>2
  <2> QED BY <1>7, <2>3, <2>4, <2>5, RecvLists
<1> QED BY <1>1, <1>8, <1>9 DEF PatInv

-----------------------------------------------------------------------------
(* Sending                                                                 *)

(* The lists of pipes when socket a sent over its pipes D.                 *)
LEMMA SendLists ==
  ASSUME Wired, NEW n \in Nets, NEW u, u \subseteq n, NEW c, NEW s, NEW f,
         ChanOK(n, u, c, s, f), NEW a, NEW m \in Msg,
         NEW D, OutPipes(D, a, u), NEW z, Copied(z, c, D, m)
  PROVE  /\ \A l : LbOK(l, u, c) /\ Kind[a] # "PUSH" => LbOK(l, u, z)
         /\ \A d : DistOK(d, u, c) /\ ~Spreads(a) => DistOK(d, u, z)
         /\ \A q : FqsOK(q, u, c) => FqsOK(q, u, z)
         /\ \A k : ExclOK(k, u, c) /\ Kind[a] # "PAIR" => ExclOK(k, u, z)
<1>1. /\ \A x \in D : x \in Dir /\ x[1] = a
      /\ \A x \in D : z[x] = Append(c[x], m)
      /\ \A x \in Dir : x \notin D => z[x] = c[x]
  BY DEF OutPipes, Copied
<1>2. \A x \in Dir : x[1] # a => z[x] = c[x]
  BY <1>1
<1>3. \A x \in Dir : c[x] # << >> => z[x] # << >>
  <2> SUFFICES ASSUME NEW x \in Dir, c[x] # << >> PROVE z[x] # << >>
    OBVIOUS
  <2>1. CASE x \in D
    <3>1. c[x] \in Seq(Msg) /\ z[x] = Append(c[x], m)
      BY <1>1, <2>1 DEF ChanOK
    <3> QED BY <3>1, AppendProperties
  <2>2. CASE x \notin D
    BY <1>1, <2>2
  <2> QED BY <2>1, <2>2
<1>4. ASSUME NEW l, LbOK(l, u, c), Kind[a] # "PUSH" PROVE LbOK(l, u, z)
  <2>1. \A x \in Dir : Kind[x[1]] = "PUSH" /\ Len(c[x]) < Cap
                         => Len(z[x]) < Cap
    BY <1>2, <1>4
  <2> QED BY <1>4, <2>1, LbSame
<1>5. ASSUME NEW d, DistOK(d, u, c), ~Spreads(a) PROVE DistOK(d, u, z)
  <2>1. \A x \in Dir : Spreads(x[1]) /\ Len(c[x]) < Cap => Len(z[x]) < Cap
    BY <1>2, <1>5
  <2> QED BY <1>5, <2>1, DistSame
<1>6. ASSUME NEW q, FqsOK(q, u, c) PROVE FqsOK(q, u, z)
  <2> SUFFICES ASSUME NEW b \in Socket PROVE FqOK(q[b], b, u, z)
    BY <1>6 DEF FqsOK
  <2>1. FqOK(q[b], b, u, c)
    BY <1>6 DEF FqsOK
  <2> QED BY <1>3, <2>1, FqSame
<1>7. ASSUME NEW k, ExclOK(k, u, c), Kind[a] # "PAIR" PROVE ExclOK(k, u, z)
  <2>1. \A x \in Dir : Kind[x[1]] = "PAIR" /\ Kind[x[2]] = "PAIR"
                         => z[x] = c[x]
    BY <1>2, <1>7
  <2> QED BY <1>7, <2>1, ExclSame
<1> QED BY <1>4, <1>5, <1>6, <1>7

(* nn_dist_send: all pipes of the list but one, and the full ones leave.   *)
LEMMA DistSend ==
  ASSUME Wired, PatInv, NEW a \in Socket, Spreads(a), NEW m \in Msg,
         NEW ex, nn_dist_send(a, m, ex), NEW D, D = dist[a] \ {ex}
  PROVE  /\ OutPipes(D, a, up) /\ Copied(chan', chan, D, m)
         /\ LbOK(lb, up, chan') /\ DistOK(dist', up, chan')
         /\ ExclOK(excl, up, chan') /\ FqsOK(fq, up, chan')
<1>1. /\ net \in Nets /\ up \subseteq net /\ DistOK(dist, up, chan)
      /\ ChanOK(net, up, chan, sent, faults)
  BY DEF PatInv, Basics, Flow
<1>2. /\ chan' = [x \in Dir |-> IF x \in D THEN Append(chan[x], m)
                                           ELSE chan[x]]
      /\ dist' = [dist EXCEPT ![a] = {x \in @ : Len(chan'[x]) < Cap}]
  BY DEF nn_dist_send
<1>3. OutPipes(D, a, up)
  BY <1>1 DEF OutPipes, DistOK
<1>4. Copied(chan', chan, D, m)
  BY <1>2, <1>3 DEF OutPipes, Copied
<1>5. /\ LbOK(lb, up, chan) => LbOK(lb, up, chan')
      /\ FqsOK(fq, up, chan) => FqsOK(fq, up, chan')
      /\ ExclOK(excl, up, chan) => ExclOK(excl, up, chan')
  <2>1. Kind[a] # "PUSH" /\ Kind[a] # "PAIR"
    BY DEF Spreads
  <2>2. /\ \A l : LbOK(l, up, chan) /\ Kind[a] # "PUSH" => LbOK(l, up, chan')
        /\ \A q : FqsOK(q, up, chan) => FqsOK(q, up, chan')
        /\ \A k : ExclOK(k, up, chan) /\ Kind[a] # "PAIR"
                    => ExclOK(k, up, chan')
    BY <1>1, <1>3, <1>4, SendLists
  <2> QED BY <2>1, <2>2
<1>6. DistOK(dist', up, chan')
  <2>1. /\ DOMAIN dist' = Socket
        /\ \A x \in dist'[a] : x \in dist[a] /\ Len(chan'[x]) < Cap
        /\ \A b \in Socket : b # a => dist'[b] = dist[b]
    BY <1>1, <1>2 DEF DistOK
  <2> SUFFICES ASSUME NEW b \in Socket, NEW x \in dist'[b]
               PROVE  /\ x \in Dir /\ x[1] = b /\ Spreads(b)
                      /\ IsUp(up, x) /\ Len(chan'[x]) < Cap
    BY <2>1 DEF DistOK
  <2>2. x \in dist[b] /\ (b = a => Len(chan'[x]) < Cap)
    BY <2>1
  <2>3. /\ x \in Dir /\ x[1] = b /\ Spreads(b) /\ IsUp(up, x)
        /\ Len(chan[x]) < Cap
    BY <1>1, <2>2 DEF DistOK
  <2>4. b # a => chan'[x] = chan[x]
    BY <1>3, <1>4, <2>3 DEF OutPipes, Copied
  <2> QED BY <2>2, <2>3, <2>4
<1> QED BY <1>3, <1>4, <1>5, <1>6 DEF PatInv

(* A message with the next number.                                         *)
LEMMA NewMessage ==
  ASSUME PatInv, NEW a \in Socket, NEW t \in Topics \cup {NoPipe},
         CountSent(a)
  PROVE  /\ Message(a, t) \in Msg /\ Message(a, t).from = a
         /\ Message(a, t).no = sent[a] + 1
         /\ Counted(sent', sent, a)
<1>1. sent \in [Socket -> Nat] /\ sent[a] \in Nat
  BY DEF PatInv, Basics
<1>2. sent' = [sent EXCEPT ![a] = sent[a] + 1]
  BY DEF CountSent
<1>3. Counted(sent', sent, a)
  BY <1>1, <1>2 DEF Counted
<1> QED BY <1>1, <1>3 DEF Message, Msg

(* PUB and BUS.                                                            *)
LEMMA PubSend ==
  ASSUME Wired, PatInv, NEW a \in Socket, Spreads(a), Kind[a] # "DEV",
         NEW t \in Topics \cup {NoPipe},
         CountSent(a), nn_dist_send(a, Message(a, t), NoPipe),
         UNCHANGED <<net, up, lb, fq, excl, hold, got, skipped, faults>>
  PROVE  PatInv'
<1> DEFINE m == Message(a, t)
           D == dist[a] \ {NoPipe}
<1>1. /\ m \in Msg /\ m.from = a /\ m.no = sent[a] + 1
      /\ Counted(sent', sent, a)
  BY NewMessage
<1>2. nn_dist_send(a, m, NoPipe)
  OBVIOUS
<1> HIDE DEF m
<1>3. /\ OutPipes(D, a, up) /\ Copied(chan', chan, D, m)
      /\ LbOK(lb, up, chan') /\ DistOK(dist', up, chan')
      /\ ExclOK(excl, up, chan') /\ FqsOK(fq, up, chan')
  BY <1>1, <1>2, DistSend
<1> HIDE DEF D
<1>4. /\ net \in Nets /\ up \subseteq net
      /\ Flow(net, up, chan, got, hold, sent, faults)
  BY DEF PatInv, Basics
<1>5. Flow(net, up, chan', got, hold, sent', faults)
  BY <1>1, <1>3, <1>4, SendKeeps
<1>6. sent' \in [Socket -> Nat]
  BY <1>1 DEF Counted
<1> QED BY <1>3, <1>5, <1>6 DEF PatInv, Basics

(* A device.                                                               *)
LEMMA BusForward ==
  ASSUME Wired, PatInv, NEW a \in Socket, nn_xbus_send(a)
  PROVE  PatInv'
<1> DEFINE m == hold[a].msg
           D == dist[a] \ {hold[a].pipe}
<1>1. /\ net \in Nets /\ up \subseteq net
      /\ Flow(net, up, chan, got, hold, sent, faults)
      /\ DOMAIN hold = Socket /\ HoldOK(net, hold, sent, faults)
  BY DEF PatInv, Basics, Flow, HoldOK
<1>2. /\ Kind[a] = "DEV" /\ m # NoMsg /\ nn_dist_send(a, m, hold[a].pipe)
      /\ hold' = [hold EXCEPT ![a] = [msg |-> NoMsg, pipe |-> NoPipe]]
      /\ UNCHANGED <<net, up, lb, fq, excl, sent, got, skipped, faults>>
  BY DEF nn_xbus_send
<1>3. Spreads(a) /\ m \in Msg
  BY <1>1, <1>2 DEF Spreads, HoldOK
<1>4. LetGo(hold', hold, a)
  BY <1>1, <1>2 DEF LetGo
<1>5. /\ OutPipes(D, a, up) /\ Copied(chan', chan, D, m)
      /\ LbOK(lb, up, chan') /\ DistOK(dist', up, chan')
      /\ ExclOK(excl, up, chan') /\ FqsOK(fq, up, chan')
  <2>1. nn_dist_send(a, m, hold[a].pipe)
    BY <1>2
  <2> QED BY <1>3, <2>1, DistSend
<1>6. hold[a].pipe \notin D /\ hold[a].msg # NoMsg
  BY <1>2
<1> HIDE DEF D
<1>7. Flow(net, up, chan', got, hold', sent, faults)
  <2>1. /\ net \in Nets /\ up \subseteq net
        /\ Flow(net, up, chan, got, hold, sent, faults)
    BY <1>1
  <2> QED BY <2>1, <1>4, <1>5, <1>6, ForwardKeeps
<1> QED BY <1>2, <1>5, <1>7 DEF PatInv

(* The pipe whose turn it is.                                              *)
LEMMA LbPipe ==
  ASSUME Wired, NEW l, NEW a, NEW u, NEW c, LbOne(l, a, u, c),
         nn_priolist_is_active(l), NEW x, x = nn_priolist_getpipe(l)
  PROVE  /\ x \in Dir /\ x[1] = a /\ IsUp(u, x) /\ Len(c[x]) < Cap
         /\ l.current = PipePrio[x] /\ l.turn[PipePrio[x]] = x
         /\ PipePrio[x] \in Prio /\ x \in Elements(l.pipes[PipePrio[x]])
<1>1. SLOTS \in Nat /\ ListOK(l, Dir)
  BY DEF Wired, LbOne
<1>2. /\ l.current \in Prio /\ x = l.turn[l.current]
      /\ x \in Elements(l.pipes[l.current])
  BY <1>1, TurnOK
<1>3. x \in Dir
  BY <1>1, <1>2, MemberOf
<1>4. /\ x[1] = a /\ IsUp(u, x) /\ Len(c[x]) < Cap
      /\ l.current = PipePrio[x]
  BY <1>2 DEF LbOne
<1> QED BY <1>2, <1>3, <1>4

(* The turn passes on from a pipe that got a message, and the pipe leaves  *)
(* the list when it is full.                                               *)
LEMMA LbTurn ==
  ASSUME Wired, NEW l, NEW a, NEW u, NEW c, LbOne(l, a, u, c),
         nn_priolist_is_active(l), NEW x, x = nn_priolist_getpipe(l),
         NEW z, \A y \in Dir : y # x => z[y] = c[y]
  PROVE  /\ LbOne(nn_priolist_advance(l, TRUE), a, u, z)
         /\ Len(z[x]) < Cap => LbOne(nn_priolist_advance(l, FALSE), a, u, z)
<1> DEFINE f(r) == nn_priolist_advance(l, r)
<1>1. SLOTS \in Nat /\ NoPipe \notin Dir /\ ListOK(l, Dir)
  BY DEF Wired, LbOne
<1>2. /\ ListOK(f(TRUE), Dir)
      /\ \A j \in Prio : Elements(f(TRUE).pipes[j])
           = IF TRUE /\ j = l.current
             THEN Elements(l.pipes[j]) \ {l.turn[l.current]}
             ELSE Elements(l.pipes[j])
  BY <1>1, AdvanceOK
<1>3. /\ ListOK(f(FALSE), Dir)
      /\ \A j \in Prio : Elements(f(FALSE).pipes[j])
           = IF FALSE /\ j = l.current
             THEN Elements(l.pipes[j]) \ {l.turn[l.current]}
             ELSE Elements(l.pipes[j])
  BY <1>1, AdvanceOK
<1>4. /\ l.current \in Prio /\ x = l.turn[l.current]
      /\ x \in Elements(l.pipes[l.current])
  BY <1>1, TurnOK
<1>5. \A i \in Prio : \A y \in Elements(l.pipes[i]) :
        /\ i = PipePrio[y] /\ y[1] = a /\ Kind[a] = "PUSH"
        /\ IsUp(u, y) /\ Len(c[y]) < Cap /\ y \in Dir
  BY <1>1, MemberOf DEF LbOne
<1>6. /\ x \in Dir /\ x[1] = a /\ IsUp(u, x) /\ Len(c[x]) < Cap
      /\ l.current = PipePrio[x]
  BY <1>4, <1>5
<1>7. ASSUME NEW i \in Prio, NEW y \in Elements(f(TRUE).pipes[i])
      PROVE  /\ i = PipePrio[y] /\ y[1] = a /\ Kind[a] = "PUSH"
             /\ IsUp(u, y) /\ Len(z[y]) < Cap
  <2> HIDE DEF f
  <2>1. y \in Elements(l.pipes[i]) /\ ~(i = l.current /\ y = x)
    BY <1>2, <1>4
  <2>2. /\ i = PipePrio[y] /\ y[1] = a /\ Kind[a] = "PUSH"
        /\ IsUp(u, y) /\ Len(c[y]) < Cap /\ y \in Dir
    BY <2>1, <1>5
  <2>3. y # x
    BY <1>6, <2>1, <2>2
  <2> QED BY <2>2, <2>3
<1>8. ASSUME NEW i \in Prio, NEW y \in Elements(f(FALSE).pipes[i]),
             Len(z[x]) < Cap
      PROVE  /\ i = PipePrio[y] /\ y[1] = a /\ Kind[a] = "PUSH"
             /\ IsUp(u, y) /\ Len(z[y]) < Cap
  <2> HIDE DEF f
  <2>1. y \in Elements(l.pipes[i])
    BY <1>3
  <2>2. /\ i = PipePrio[y] /\ y[1] = a /\ Kind[a] = "PUSH"
        /\ IsUp(u, y) /\ Len(c[y]) < Cap /\ y \in Dir
    BY <2>1, <1>5
  <2> QED BY <2>2, <1>8
<1> HIDE DEF f
<1>9. LbOne(f(TRUE), a, u, z)
  BY <1>2, <1>7 DEF LbOne
<1>10. Len(z[x]) < Cap => LbOne(f(FALSE), a, u, z)
  BY <1>3, <1>8 DEF LbOne
<1> QED BY <1>9, <1>10 DEF f

(* A set with at most two elements.                                        *)
LEMMA TwoOnly ==
  ASSUME NEW S, IsFiniteSet(S), Cardinality(S) <= 2,
         NEW x \in S, NEW y \in S, x # y
  PROVE  S \subseteq {x, y}
<1> DEFINE R == S \ {x}
           Q == R \ {y}
<1>1. Cardinality(S) \in Nat
  BY FS_CardinalityType
<1>2. IsFiniteSet(R) /\ Cardinality(R) = Cardinality(S) - 1
  BY FS_RemoveElement
<1>3. y \in R
  OBVIOUS
<1> HIDE DEF R
<1>4. IsFiniteSet(Q) /\ Cardinality(Q) = Cardinality(R) - 1
  BY <1>2, <1>3, FS_RemoveElement
<1> HIDE DEF Q
<1>5. Cardinality(Q) \in Nat
  BY <1>4, FS_CardinalityType
<1>6. Cardinality(Q) = 0
  BY <1>1, <1>2, <1>4, <1>5
<1>7. Q = {}
  BY <1>4, <1>6, FS_EmptySet
<1> QED BY <1>7 DEF Q, R

(* After the turn passed on, the other one of two pipes has it; the lists  *)
(* of other priorities are as they were.                                   *)
LEMMA NextTurn ==
  ASSUME Wired, NEW l, NEW a, NEW u, NEW c, LbOne(l, a, u, c),
         nn_priolist_is_active(l), NEW x, x = nn_priolist_getpipe(l),
         NEW release \in BOOLEAN, NEW q, q = nn_priolist_advance(l, release),
         NEW y \in Dir
  PROVE  /\ /\ y \notin Elements(l.pipes[PipePrio[x]])
            /\ IsActive(l, y, PipePrio[y])
            => /\ IsActive(q, y, PipePrio[y])
               /\ q.turn[PipePrio[y]] = l.turn[PipePrio[y]]
         /\ /\ y \in Elements(l.pipes[PipePrio[x]]) \ {x}
            /\ Cardinality(Pipes(a)) <= 2
            => /\ IsActive(q, y, PipePrio[y]) /\ q.turn[PipePrio[y]] = y
               /\ PipePrio[y] = PipePrio[x]
<1> DEFINE i == PipePrio[x]
           s == l.pipes[i]
           t == Following(s, x, release)
<1>1. SLOTS \in Nat /\ NoPipe \notin Dir /\ ListOK(l, Dir)
  BY DEF Wired, LbOne
<1>2. /\ x \in Dir /\ x[1] = a /\ l.current = i /\ l.turn[i] = x
      /\ i \in Prio /\ x \in Elements(s)
  BY LbPipe
<1>3. /\ q.turn = [l.turn EXCEPT ![i] = t]
      /\ DOMAIN l.turn = Prio
  BY <1>1, <1>2 DEF nn_priolist_advance, ListOK
<1>4. \A j \in Prio : Elements(q.pipes[j])
           = IF release /\ j = l.current
             THEN Elements(l.pipes[j]) \ {l.turn[l.current]}
             ELSE Elements(l.pipes[j])
  BY <1>1, AdvanceOK
<1>5. PipePrio[y] \in Prio
  BY DEF Wired
<1>6. ASSUME y \notin Elements(s), IsActive(l, y, PipePrio[y])
      PROVE  /\ IsActive(q, y, PipePrio[y])
             /\ q.turn[PipePrio[y]] = l.turn[PipePrio[y]]
  <2>1. PipePrio[y] # i
    BY <1>6 DEF IsActive
  <2> QED BY <1>2, <1>3, <1>4, <1>5, <1>6, <2>1 DEF IsActive
<1>7. ASSUME y \in Elements(s), y # x, Cardinality(Pipes(a)) <= 2
      PROVE  /\ IsActive(q, y, PipePrio[y]) /\ q.turn[PipePrio[y]] = y
             /\ PipePrio[y] = i
  <2>1. PipePrio[y] = i /\ y[1] = a
    BY <1>2, <1>7 DEF LbOne
  <2>2. IsActive(q, y, i)
    BY <1>2, <1>4, <1>7 DEF IsActive
  <2>3. s \in Seq(Dir) /\ Once(s)
    BY <1>1, <1>2 DEF ListOK, PrioListOK, Once
  <2>4. Elements(s) \subseteq Pipes(a)
    <3> SUFFICES ASSUME NEW w \in Elements(s) PROVE w \in Pipes(a)
      OBVIOUS
    <3>1. w[1] = a
      BY <1>2 DEF LbOne
    <3>2. w \in Dir
      BY <1>1, <1>2, MemberOf
    <3> QED BY <3>1, <3>2 DEF Pipes
  <2>5. Pipes(a) \subseteq {x, y}
    <3>1. IsFiniteSet(Pipes(a))
      BY FS_Subset DEF Wired, Pipes
    <3>2. x \in Pipes(a) /\ y \in Pipes(a)
      BY <1>2, <1>7, <2>4
    <3> QED BY <1>7, <3>1, <3>2, TwoOnly
  <2> HIDE DEF s
  <2>6. Len(s) # 1
    <3> SUFFICES ASSUME Len(s) = 1 PROVE FALSE
      OBVIOUS
    <3>1. DOMAIN s = 1 .. 1
      BY <2>3, LenProperties
    <3>2. \A k, j \in DOMAIN s : k = j
      BY <3>1
    <3> QED BY <1>2, <1>7, <3>2 DEF Elements
  <2>7. t \in Elements(s) \ {x}
    <3>1. /\ Following(s, x, TRUE) \in Elements(s) \ {x}
          /\ Following(s, x, FALSE) \in Elements(s) \ {x}
      BY <1>2, <2>3, <2>6, FollowingFacts
    <3>2. CASE release = TRUE
      BY <3>1, <3>2
    <3>3. CASE release = FALSE
      BY <3>1, <3>3
    <3> QED BY <3>2, <3>3
  <2>8. t = y
    BY <2>4, <2>5, <2>7
  <2> HIDE DEF t, i
  <2>9. q.turn[i] = y
    BY <1>2, <1>3, <2>8
  <2> QED BY <2>1, <2>2, <2>9
<1> QED BY <1>6, <1>7

(* The list of socket a changes; a message goes over x, one of P.          *)
OnlyAt(r, l, a, v) ==
  /\ DOMAIN r = Socket /\ r[a] = v
  /\ \A b \in Socket : b # a => r[b] = l[b]
PassedOver(w, k, P, x) ==
  /\ DOMAIN w = Dir /\ w[x] = 0
  /\ \A y \in Dir : y \in P \ {x} => w[y] = k[y] + 1
  /\ \A y \in Dir : y \notin P \cup {x} => w[y] = k[y]

(* A PUSH socket sent: of two pipes, the one passed over is next.          *)
LEMMA TurnsPush ==
  ASSUME Wired, NEW l, NEW u, NEW c, LbOK(l, u, c), NEW k, TurnsOK(k, l),
         NEW a \in Socket, nn_priolist_is_active(l[a]),
         NEW x, x = nn_priolist_getpipe(l[a]), NEW release \in BOOLEAN,
         NEW r, OnlyAt(r, l, a, nn_priolist_advance(l[a], release)),
         NEW P, P = Elements(l[a].pipes[PipePrio[x]]),
         NEW w, PassedOver(w, k, P, x)
  PROVE  TurnsOK(w, r)
<1>0. /\ r[a] = nn_priolist_advance(l[a], release)
      /\ \A b \in Socket : b # a => r[b] = l[b]
      /\ DOMAIN w = Dir /\ w[x] = 0
      /\ \A y \in Dir : y \in P \ {x} => w[y] = k[y] + 1
      /\ \A y \in Dir : y \notin P \cup {x} => w[y] = k[y]
  BY DEF OnlyAt, PassedOver
<1> USE <1>0
<1> DEFINE q == r[a]
           m == l[a]
<1>1. LbOne(m, a, u, c) /\ nn_priolist_is_active(m)
      /\ q = nn_priolist_advance(m, release)
  BY DEF LbOK
<1>2. /\ x \in Dir /\ x[1] = a /\ m.turn[PipePrio[x]] = x /\ x \in P
  BY <1>1, LbPipe
<1>3. \A y \in Dir : k[y] \in Nat
  BY DEF TurnsOK
<1>4. ASSUME NEW y \in Dir PROVE w[y] \in Nat
  <2>1. CASE y = x
    BY <2>1
  <2>2. CASE y \in P \ {x}
    BY <1>3, <2>2
  <2>3. CASE y \notin P \cup {x}
    BY <1>3, <2>3
  <2> QED BY <2>1, <2>2, <2>3
<1> HIDE DEF q, m
<1>5. \A y \in Dir :
        /\ y \notin P /\ IsActive(m, y, PipePrio[y])
           => /\ IsActive(q, y, PipePrio[y])
              /\ q.turn[PipePrio[y]] = m.turn[PipePrio[y]]
        /\ y \in P \ {x} /\ Cardinality(Pipes(a)) <= 2
           => /\ IsActive(q, y, PipePrio[y]) /\ q.turn[PipePrio[y]] = y
              /\ PipePrio[y] = PipePrio[x]
  <2>1. P = Elements(m.pipes[PipePrio[x]]) /\ x = nn_priolist_getpipe(m)
    BY DEF m
  <2> QED BY <1>1, <2>1, NextTurn
<1>6. ASSUME NEW y \in Dir, Cardinality(Pipes(y[1])) <= 2, w[y] # 0
      PROVE  /\ w[y] = 1 /\ IsActive(r[y[1]], y, PipePrio[y])
             /\ r[y[1]].turn[PipePrio[y]] = y
  <2>1. /\ y[1] \in Socket
        /\ k[y] # 0 => /\ k[y] = 1 /\ IsActive(l[y[1]], y, PipePrio[y])
                       /\ l[y[1]].turn[PipePrio[y]] = y
    BY <1>6 DEF TurnsOK, Wired
  <2>2. y # x
    BY <1>6
  <2>3. CASE y \in P
    <3>1. y[1] = a
      BY <1>1, <1>2, <2>3 DEF LbOne, Wired, m
    <3>2. /\ IsActive(q, y, PipePrio[y]) /\ q.turn[PipePrio[y]] = y
          /\ PipePrio[y] = PipePrio[x]
      BY <1>5, <1>6, <2>2, <2>3, <3>1
    <3>3. k[y] = 0
      BY <1>2, <2>1, <2>2, <3>1, <3>2 DEF m
    <3>4. w[y] = 1
      BY <2>2, <2>3, <3>3
    <3> QED BY <3>1, <3>2, <3>4 DEF q
  <2>4. CASE y \notin P
    <3>1. w[y] = k[y]
      BY <2>2, <2>4
    <3>2. /\ w[y] = 1 /\ IsActive(l[y[1]], y, PipePrio[y])
          /\ l[y[1]].turn[PipePrio[y]] = y
      BY <1>6, <2>1, <3>1
    <3>3. CASE y[1] = a
      <4>1. IsActive(m, y, PipePrio[y]) /\ m.turn[PipePrio[y]] = y
        BY <3>2, <3>3 DEF m
      <4>2. IsActive(q, y, PipePrio[y]) /\ q.turn[PipePrio[y]] = y
        BY <1>5, <2>4, <4>1
      <4> QED BY <3>2, <3>3, <4>2 DEF q
    <3>4. CASE y[1] # a
      <4>1. r[y[1]] = l[y[1]]
        BY <2>1, <3>4
      <4> QED BY <3>2, <4>1
    <3> QED BY <3>3, <3>4
  <2> QED BY <2>3, <2>4
<1> QED BY <1>4, <1>6 DEF TurnsOK

(* The pipes of socket a are as they were.                                 *)
LEMMA LbOneSame ==
  ASSUME NEW l, NEW a, NEW u, NEW c, LbOne(l, a, u, c), NEW z,
         \A x \in Dir : x[1] = a => z[x] = c[x]
  PROVE  LbOne(l, a, u, z)
<1> SUFFICES ASSUME NEW i \in Prio, NEW x \in Elements(l.pipes[i])
             PROVE  Len(z[x]) < Cap
  BY DEF LbOne
<1>1. ListOK(l, Dir) /\ Len(c[x]) < Cap /\ x[1] = a
  BY DEF LbOne
<1>2. x \in Dir
  BY <1>1, MemberOf
<1> QED BY <1>1, <1>2

(* PUSH.                                                                   *)
LEMMA PushSend ==
  ASSUME Wired, PatInv, NEW a \in Socket, nn_xpush_send(a)
  PROVE  PatInv'
<1> DEFINE x == nn_priolist_getpipe(lb[a])
           m == Message(a, NoPipe)
           P == Elements(lb[a].pipes[PipePrio[x]])
           full == Len(chan[x]) + 1 = Cap
           q == nn_priolist_advance(lb[a], full)
<1>1. /\ net \in Nets /\ up \subseteq net /\ LbOK(lb, up, chan)
      /\ Flow(net, up, chan, got, hold, sent, faults)
      /\ ChanOK(net, up, chan, sent, faults) /\ DOMAIN chan = Dir
      /\ DOMAIN lb = Socket /\ LbOne(lb[a], a, up, chan) /\ Cap \in Nat
      /\ DOMAIN skipped = Dir
  BY DEF PatInv, Basics, Flow, ChanOK, LbOK, Wired, TurnsOK
<1>2. /\ Kind[a] = "PUSH" /\ nn_priolist_is_active(lb[a]) /\ CountSent(a)
      /\ chan' = [chan EXCEPT ![x] = Append(@, m)]
      /\ lb' = [lb EXCEPT ![a] = q]
      /\ skipped' = [y \in Dir |-> CASE y = x     -> 0
                                     [] y \in P \ {x} -> skipped[y] + 1
                                     [] OTHER     -> skipped[y]]
      /\ UNCHANGED <<net, up, dist, fq, excl, hold, got, faults>>
  BY DEF nn_xpush_send
<1>3. /\ x \in Dir /\ x[1] = a /\ IsUp(up, x) /\ Len(chan[x]) < Cap
  BY <1>1, <1>2, LbPipe
<1>4. /\ m \in Msg /\ m.from = a /\ m.no = sent[a] + 1
      /\ Counted(sent', sent, a)
  BY <1>2, NewMessage
<1>5. full \in BOOLEAN
  OBVIOUS
<1>6. PassedOver(skipped', skipped, P, x)
  <2> HIDE DEF x, P
  <2>1. DOMAIN skipped' = Dir /\ skipped'[x] = 0
    BY <1>2, <1>3
  <2>2. ASSUME NEW y \in Dir, y \in P \ {x}
        PROVE  skipped'[y] = skipped[y] + 1
    BY <1>2, <2>2
  <2>3. ASSUME NEW y \in Dir, y \notin P \cup {x}
        PROVE  skipped'[y] = skipped[y]
    BY <1>2, <2>3
  <2> QED BY <2>1, <2>2, <2>3 DEF PassedOver
<1>7. OnlyAt(lb', lb, a, q)
  <2> HIDE DEF q
  <2> QED BY <1>1, <1>2 DEF OnlyAt
<1>8. TurnsOK(skipped', lb')
  <2>1. TurnsOK(skipped, lb) /\ nn_priolist_is_active(lb[a])
    BY <1>2 DEF PatInv
  <2>2. LbOK(lb, up, chan)
    BY <1>1
  <2> HIDE DEF full
  <2> QED BY <1>5, <1>6, <1>7, <2>1, <2>2, TurnsPush
<1>9. Copied(chan', chan, {x}, m) /\ OutPipes({x}, a, up)
  <2> HIDE DEF x, m
  <2> QED BY <1>1, <1>2, <1>3 DEF Copied, OutPipes
<1>10. /\ Len(chan'[x]) = Len(chan[x]) + 1 /\ Len(chan[x]) \in Nat
       /\ \A y \in Dir : y # x => chan'[y] = chan[y]
  <2> HIDE DEF x, m
  <2>1. chan[x] \in Seq(Msg) /\ chan'[x] = Append(chan[x], m)
    BY <1>1, <1>3, <1>9 DEF ChanOK, Copied
  <2>2. \A y \in Dir : y # x => chan'[y] = chan[y]
    BY <1>9 DEF Copied
  <2> QED BY <1>4, <2>1, <2>2, AppendProperties, LenProperties
<1>11. LbOne(q, a, up, chan')
  <2>1. /\ LbOne(nn_priolist_advance(lb[a], TRUE), a, up, chan')
        /\ Len(chan'[x]) < Cap =>
             LbOne(nn_priolist_advance(lb[a], FALSE), a, up, chan')
    <3>1. LbOne(lb[a], a, up, chan) /\ nn_priolist_is_active(lb[a])
      BY <1>1, <1>2
    <3>2. \A y \in Dir : y # x => chan'[y] = chan[y]
      BY <1>10
    <3> QED BY <3>1, <3>2, LbTurn
  <2>2. CASE full
    <3>1. q = nn_priolist_advance(lb[a], TRUE)
      BY <2>2
    <3> QED BY <2>1, <3>1
  <2>3. CASE ~full
    <3>1. q = nn_priolist_advance(lb[a], FALSE)
      BY <2>3
    <3>2. Len(chan'[x]) < Cap
      <4> HIDE DEF x
      <4> QED BY <1>1, <1>3, <1>10, <2>3
    <3> QED BY <2>1, <3>1, <3>2
  <2> QED BY <2>2, <2>3
<1> HIDE DEF x, m, P, full, q
<1>12. LbOK(lb', up, chan')
  <2> SUFFICES ASSUME NEW b \in Socket PROVE LbOne(lb'[b], b, up, chan')
    BY <1>7 DEF LbOK, OnlyAt
  <2>1. CASE b = a
    BY <1>7, <1>11, <2>1 DEF OnlyAt
  <2>2. CASE b # a
    <3>1. lb'[b] = lb[b] /\ LbOne(lb[b], b, up, chan)
      BY <1>1, <1>7, <2>2 DEF OnlyAt, LbOK
    <3>2. \A y \in Dir : y[1] = b => chan'[y] = chan[y]
      BY <1>3, <1>10, <2>2
    <3>3. LbOne(lb[b], b, up, chan')
      BY <3>1, <3>2, LbOneSame
    <3> QED BY <3>1, <3>3
  <2> QED BY <2>1, <2>2
<1>13. /\ DistOK(dist, up, chan') /\ FqsOK(fq, up, chan')
       /\ ExclOK(excl, up, chan')
  <2>1. /\ \A d : DistOK(d, up, chan) /\ ~Spreads(a) => DistOK(d, up, chan')
        /\ \A r : FqsOK(r, up, chan) => FqsOK(r, up, chan')
        /\ \A k : ExclOK(k, up, chan) /\ Kind[a] # "PAIR"
                    => ExclOK(k, up, chan')
    <3>1. /\ net \in Nets /\ up \subseteq net /\ m \in Msg
          /\ ChanOK(net, up, chan, sent, faults)
      BY <1>1, <1>4
    <3> QED BY <1>9, <3>1, SendLists
  <2>2. ~Spreads(a) /\ Kind[a] # "PAIR"
    BY <1>2 DEF Spreads
  <2>3. /\ DistOK(dist, up, chan) /\ FqsOK(fq, up, chan)
        /\ ExclOK(excl, up, chan)
    BY DEF PatInv
  <2> QED BY <2>1, <2>2, <2>3
<1>14. Flow(net, up, chan', got, hold, sent', faults)
  <2>1. /\ net \in Nets /\ up \subseteq net /\ Kind[a] # "DEV"
        /\ Flow(net, up, chan, got, hold, sent, faults)
    BY <1>1, <1>2
  <2> QED BY <1>4, <1>9, <2>1, SendKeeps
<1>15. sent' \in [Socket -> Nat]
  BY <1>4 DEF Counted
<1> QED BY <1>2, <1>8, <1>12, <1>13, <1>14, <1>15 DEF PatInv, Basics

(* PAIR.                                                                   *)
LEMMA PairSend ==
  ASSUME Wired, PatInv, NEW a \in Socket, nn_xpair_send(a)
  PROVE  PatInv'
<1> DEFINE p == PairDir(a)[2]
           x == PairDir(a)
           m == Message(a, NoPipe)
<1>1. /\ net \in Nets /\ up \subseteq net /\ ExclOK(excl, up, chan)
      /\ Flow(net, up, chan, got, hold, sent, faults)
      /\ DOMAIN excl = Socket /\ Cap \in Nat
      /\ ChanOK(net, up, chan, sent, faults) /\ DOMAIN chan = Dir
  BY DEF PatInv, Basics, ExclOK, Flow, ChanOK, Wired
<1>2. /\ Kind[a] = "PAIR" /\ excl[a].out /\ CountSent(a)
      /\ chan' = [chan EXCEPT ![x] = Append(@, m)]
      /\ excl' = [excl EXCEPT ![a].out = Len(chan[x]) + 1 < Cap]
      /\ UNCHANGED <<net, up, dist, lb, fq, hold, got, skipped, faults>>
  BY DEF nn_xpair_send
<1>3. /\ excl[a] \in [pipe : up \cup {NoPipe}, in : BOOLEAN, out : BOOLEAN]
      /\ excl[a].pipe # NoPipe
  BY <1>1, <1>2 DEF ExclOK
<1>4. /\ p \in Socket /\ p # a /\ excl[a].pipe = {a, p} /\ {a, p} \in up
      /\ Kind[p] = "PAIR" /\ x = <<a, p>> /\ <<a, p>> \in Dir
      /\ Carries(<<a, p>>)
  <2>1. /\ net \in Nets /\ up \subseteq net /\ ExclOK(excl, up, chan)
        /\ excl[a].pipe # NoPipe /\ p = PairDir(a)[2]
    BY <1>1, <1>3
  <2> HIDE DEF p
  <2>2. /\ p \in Socket /\ p # a /\ excl[a].pipe = {a, p} /\ {a, p} \in up
        /\ Kind[p] = "PAIR" /\ PairDir(a) = <<a, p>> /\ <<a, p>> \in Dir
        /\ Carries(<<a, p>>)
    BY <2>1, PairPipe
  <2> QED BY <2>2
<1>5. /\ m \in Msg /\ m.from = a /\ m.no = sent[a] + 1
      /\ Counted(sent', sent, a)
  BY <1>2, NewMessage
<1> HIDE DEF p, x, m
<1>6. x \in Dir /\ x[1] = a /\ x[2] = p /\ IsUp(up, x)
  BY <1>4 DEF IsUp
<1>7. Copied(chan', chan, {x}, m) /\ OutPipes({x}, a, up)
  BY <1>1, <1>2, <1>6 DEF Copied, OutPipes
<1>8. /\ Len(chan'[x]) = Len(chan[x]) + 1 /\ chan'[x] # << >>
      /\ \A y \in Dir : y # x => chan'[y] = chan[y]
  <2>1. chan[x] \in Seq(Msg) /\ chan'[x] = Append(chan[x], m)
    BY <1>1, <1>6, <1>7 DEF ChanOK, Copied
  <2>2. \A y \in Dir : y # x => chan'[y] = chan[y]
    BY <1>7 DEF Copied
  <2> QED BY <1>5, <2>1, <2>2, AppendProperties, LenProperties
<1>9. /\ LbOK(lb, up, chan') /\ DistOK(dist, up, chan')
      /\ FqsOK(fq, up, chan')
  <2>1. /\ \A l : LbOK(l, up, chan) /\ Kind[a] # "PUSH" => LbOK(l, up, chan')
        /\ \A d : DistOK(d, up, chan) /\ ~Spreads(a) => DistOK(d, up, chan')
        /\ \A r : FqsOK(r, up, chan) => FqsOK(r, up, chan')
    <3>1. /\ net \in Nets /\ up \subseteq net /\ m \in Msg
          /\ ChanOK(net, up, chan, sent, faults)
      BY <1>1, <1>5
    <3> QED BY <1>7, <3>1, SendLists
  <2>2. ~Spreads(a) /\ Kind[a] # "PUSH"
    BY <1>2 DEF Spreads
  <2>3. LbOK(lb, up, chan) /\ DistOK(dist, up, chan) /\ FqsOK(fq, up, chan)
    BY DEF PatInv
  <2> QED BY <2>1, <2>2, <2>3
<1>10. Flow(net, up, chan', got, hold, sent', faults)
  <2>1. /\ net \in Nets /\ up \subseteq net /\ Kind[a] # "DEV"
        /\ Flow(net, up, chan, got, hold, sent, faults)
    BY <1>1, <1>2
  <2> QED BY <1>5, <1>7, <2>1, SendKeeps
<1>11. /\ DOMAIN excl' = Socket
       /\ \A b \in Socket : b # a => excl'[b] = excl[b]
       /\ excl'[a] \in [pipe : up \cup {NoPipe}, in : BOOLEAN, out : BOOLEAN]
       /\ excl'[a].pipe = excl[a].pipe /\ excl'[a].in = excl[a].in
       /\ excl'[a].out = (Len(chan[x]) + 1 < Cap)
  <2> DEFINE v == Len(chan[x]) + 1 < Cap
  <2>1. v \in BOOLEAN /\ excl' = [excl EXCEPT ![a].out = v]
    BY <1>2
  <2> HIDE DEF v
  <2>2. /\ DOMAIN excl' = Socket /\ excl'[a] = [excl[a] EXCEPT !.out = v]
        /\ \A b \in Socket : b # a => excl'[b] = excl[b]
    BY <1>1, <2>1
  <2>3. /\ excl'[a] \in [pipe : up \cup {NoPipe}, in : BOOLEAN,
                          out : BOOLEAN]
        /\ excl'[a].pipe = excl[a].pipe /\ excl'[a].in = excl[a].in
        /\ excl'[a].out = v
    BY <1>3, <2>1, <2>2
  <2> QED BY <2>2, <2>3 DEF v
<1>12. ASSUME NEW b \in Socket, NEW y \in Dir, {y[1], y[2]} = excl[b].pipe
       PROVE  /\ y[1] = b /\ excl'[b].out => Len(chan'[y]) < Cap
              /\ y[2] = b /\ excl'[b].in => chan'[y] # << >>
  <2>1. /\ y[1] = b /\ excl[b].out => Len(chan[y]) < Cap
        /\ y[2] = b /\ excl[b].in => chan[y] # << >>
    BY <1>1, <1>12 DEF ExclOK
  <2>2. ASSUME y[1] = b, excl'[b].out PROVE Len(chan'[y]) < Cap
    <3>1. CASE y = x
      <4>1. Len(chan[x]) + 1 < Cap
        BY <1>6, <1>11, <2>2, <3>1
      <4> QED BY <1>8, <3>1, <4>1
    <3>2. CASE y # x
      <4>1. b # a
        <5> SUFFICES ASSUME b = a PROVE FALSE
          OBVIOUS
        <5>1. {y[1], y[2]} = {a, p} /\ y[1] = a /\ y \in Socket \X Socket
          BY <1>4, <1>12, <2>2 DEF Wired
        <5>2. y = <<a, p>>
          BY <1>4, <5>1
        <5> QED BY <1>4, <3>2, <5>2
      <4>2. chan'[y] = chan[y] /\ excl'[b].out = excl[b].out
        BY <1>8, <1>11, <3>2, <4>1
      <4> QED BY <2>1, <2>2, <4>2
    <3> QED BY <3>1, <3>2
  <2>3. ASSUME y[2] = b, excl'[b].in PROVE chan'[y] # << >>
    <3>1. excl[b].in
      BY <1>11, <2>3
    <3>2. chan[y] # << >>
      BY <2>1, <2>3, <3>1
    <3>3. CASE y = x
      BY <1>8, <3>3
    <3>4. CASE y # x
      BY <1>8, <3>2, <3>4
    <3> QED BY <3>3, <3>4
  <2> QED BY <2>2, <2>3
<1>13. ExclOK(excl', up, chan')
  <2>1. Noted(excl', excl, up, a)
    BY <1>3, <1>11 DEF Noted
  <2>2. Fits(excl', excl, chan')
    BY <1>12 DEF Fits
  <2> QED BY <1>1, <2>1, <2>2, ExclOne
<1>14. sent' \in [Socket -> Nat]
  BY <1>5 DEF Counted
<1> QED BY <1>2, <1>9, <1>10, <1>13, <1>14 DEF PatInv, Basics

-----------------------------------------------------------------------------
(* Pipes become ready                                                      *)

(* A pipe joins a list.                                                    *)
LEMMA Joins ==
  ASSUME Wired, NEW q, ListOK(q, Dir), NEW x \in Dir,
         ~IsActive(q, x, PipePrio[x]), NEW r, r = nn_fq_in(q, x)
  PROVE  /\ ListOK(r, Dir)
         /\ \A j \in Prio : \A y \in Elements(r.pipes[j]) :
              y \in Elements(q.pipes[j]) \/ (j = PipePrio[x] /\ y = x)
<1> DEFINE i == PipePrio[x]
           p == nn_priolist_activate(q, x, i)
<1>1. /\ SLOTS \in Nat /\ i \in Prio /\ x # NoPipe /\ ~IsActive(q, x, i)
  BY DEF Wired
<1>2. r = p
  BY DEF nn_fq_in
<1> HIDE DEF i
<1>3. /\ ListOK(p, Dir)
      /\ \A j \in Prio : Elements(p.pipes[j])
           = IF j = i THEN Elements(q.pipes[j]) \cup {x}
                      ELSE Elements(q.pipes[j])
  BY <1>1, ActivateOK
<1> HIDE DEF p
<1> QED BY <1>2, <1>3 DEF i

(* A pipe with a message joins the queue.                                  *)
LEMMA FqIn ==
  ASSUME Wired, NEW q, NEW b, NEW u, NEW c, FqOK(q, b, u, c), Queues(b),
         NEW x \in Dir, x[2] = b, IsUp(u, x), c[x] # << >>,
         ~IsActive(q, x, PipePrio[x])
  PROVE  FqOK(nn_fq_in(q, x), b, u, c)
<1> DEFINE r == nn_fq_in(q, x)
<1>1. ListOK(q, Dir)
  BY DEF FqOK
<1>2. /\ ListOK(r, Dir)
      /\ \A j \in Prio : \A y \in Elements(r.pipes[j]) :
           y \in Elements(q.pipes[j]) \/ (j = PipePrio[x] /\ y = x)
  BY <1>1, Joins
<1> HIDE DEF r
<1>3. ASSUME NEW j \in Prio, NEW y \in Elements(r.pipes[j])
      PROVE  /\ j = PipePrio[y] /\ y[2] = b /\ Queues(b)
             /\ IsUp(u, y) /\ c[y] # << >>
  <2>1. CASE y \in Elements(q.pipes[j])
    BY <2>1 DEF FqOK
  <2>2. CASE j = PipePrio[x] /\ y = x
    BY <2>2
  <2> QED BY <1>2, <2>1, <2>2
<1>4. FqOK(r, b, u, c)
  BY <1>2, <1>3 DEF FqOK
<1> QED BY <1>4 DEF r

(* A pipe with room joins the list, and no turn changes.                   *)
LEMMA LbOut ==
  ASSUME Wired, NEW l, NEW a, NEW u, NEW c, LbOne(l, a, u, c),
         Kind[a] = "PUSH", NEW x \in Dir, x[1] = a, IsUp(u, x),
         Len(c[x]) < Cap, ~IsActive(l, x, PipePrio[x])
  PROVE  /\ LbOne(nn_lb_out(l, x), a, u, c)
         /\ \A y \in Dir : IsActive(l, y, PipePrio[y]) =>
              /\ IsActive(nn_lb_out(l, x), y, PipePrio[y])
              /\ nn_lb_out(l, x).turn[PipePrio[y]] = l.turn[PipePrio[y]]
<1> DEFINE i == PipePrio[x]
           r == nn_priolist_activate(l, x, i)
<1>1. /\ SLOTS \in Nat /\ ListOK(l, Dir) /\ i \in Prio /\ x # NoPipe
      /\ ~IsActive(l, x, i)
  BY DEF Wired, LbOne
<1>2. nn_lb_out(l, x) = r
  BY DEF nn_lb_out
<1> HIDE DEF i
<1>3. /\ ListOK(r, Dir)
      /\ \A j \in Prio : Elements(r.pipes[j])
           = IF j = i THEN Elements(l.pipes[j]) \cup {x}
                      ELSE Elements(l.pipes[j])
  BY <1>1, ActivateOK
<1>4. /\ r.turn = [l.turn EXCEPT ![i] = IF l.pipes[i] = << >> THEN x ELSE @]
      /\ DOMAIN l.turn = Prio
  BY <1>1 DEF nn_priolist_activate, ListOK
<1> HIDE DEF r
<1>5. ASSUME NEW j \in Prio, NEW y \in Elements(r.pipes[j])
      PROVE  /\ j = PipePrio[y] /\ y[1] = a /\ Kind[a] = "PUSH"
             /\ IsUp(u, y) /\ Len(c[y]) < Cap
  <2>1. y \in Elements(l.pipes[j]) \/ (j = i /\ y = x)
    BY <1>3
  <2>2. CASE y \in Elements(l.pipes[j])
    BY <2>2 DEF LbOne
  <2>3. CASE j = i /\ y = x
    BY <2>3 DEF i
  <2> QED BY <2>1, <2>2, <2>3
<1>6. LbOne(r, a, u, c)
  BY <1>3, <1>5 DEF LbOne
<1>7. ASSUME NEW y \in Dir, IsActive(l, y, PipePrio[y])
      PROVE  /\ IsActive(r, y, PipePrio[y])
             /\ r.turn[PipePrio[y]] = l.turn[PipePrio[y]]
  <2> DEFINE j == PipePrio[y]
  <2>1. j \in Prio /\ y \in Elements(l.pipes[j])
    BY <1>7 DEF Wired, IsActive
  <2> HIDE DEF j
  <2>2. y \in Elements(r.pipes[j])
    BY <1>3, <2>1
  <2>3. l.pipes[j] # << >>
    BY <2>1 DEF Elements
  <2>4. r.turn[j] = l.turn[j]
    BY <1>1, <1>4, <2>1, <2>3
  <2> QED BY <2>2, <2>4 DEF j, IsActive
<1> QED BY <1>2, <1>6, <1>7

(* Turns do not change when pipes join the lists.                          *)
LEMMA TurnsKeep ==
  ASSUME Wired, NEW k, NEW l, TurnsOK(k, l), NEW r,
         \A y \in Dir : IsActive(l[y[1]], y, PipePrio[y]) =>
           /\ IsActive(r[y[1]], y, PipePrio[y])
           /\ r[y[1]].turn[PipePrio[y]] = l[y[1]].turn[PipePrio[y]]
  PROVE  TurnsOK(k, r)
BY DEF TurnsOK

(* A PAIR socket's pipe can do something; it is its only one.              *)
LEMMA PairReady ==
  ASSUME Wired, PatInv, NEW b \in Socket, Kind[b] = "PAIR",
         NEW e \in up, b \in e, NEW v, DOMAIN v = Socket,
         \A a \in Socket : a # b => v[a] = excl[a],
         v[b] \in [pipe : {excl[b].pipe}, in : BOOLEAN, out : BOOLEAN],
         \A y \in Dir : {y[1], y[2]} = e =>
           /\ y[1] = b /\ v[b].out => Len(chan[y]) < Cap
           /\ y[2] = b /\ v[b].in => chan[y] # << >>
  PROVE  ExclOK(v, up, chan)
<1>1. ExclOK(excl, up, chan) /\ e # NoPipe
  BY DEF PatInv, Basics, Wired
<1>2. excl[b].pipe = e
  BY <1>1 DEF ExclOK
<1>3. Noted(v, excl, up, b)
  BY <1>1, <1>2 DEF Noted
<1>4. Fits(v, excl, chan)
  <2> SUFFICES ASSUME NEW a \in Socket, NEW y \in Dir,
                      {y[1], y[2]} = excl[a].pipe
               PROVE  /\ y[1] = a /\ v[a].out => Len(chan[y]) < Cap
                      /\ y[2] = a /\ v[a].in => chan[y] # << >>
    BY DEF Fits
  <2>1. CASE a = b
    BY <1>2, <2>1
  <2>2. CASE a # b
    <3>1. v[a] = excl[a]
      BY <2>2
    <3> QED BY <1>1, <3>1 DEF ExclOK
  <2> QED BY <2>1, <2>2
<1> QED BY <1>1, <1>3, <1>4, ExclOne

(* In.                                                                     *)
LEMMA InStep ==
  ASSUME Wired, PatInv, NEW x \in Dir, In(x)
  PROVE  PatInv'
<1> DEFINE b == x[2]
<1>1. /\ net \in Nets /\ up \subseteq net /\ DOMAIN fq = Socket
      /\ b \in Socket /\ DOMAIN excl = Socket
      /\ FqOK(fq[b], b, up, chan)
  BY DEF PatInv, Basics, FqsOK, ExclOK, Wired
<1>2. /\ {x[1], b} \in up /\ chan[x] # << >>
      /\ UNCHANGED <<net, up, chan, dist, lb, hold, sent, got, skipped,
                     faults>>
  BY DEF In
<1>3. IsUp(up, x)
  BY <1>2 DEF PatInv, Flow, ChanOK, IsUp
<1>4. CASE /\ Queues(b) /\ ~IsActive(fq[b], x, PipePrio[x])
           /\ fq' = [fq EXCEPT ![b] = nn_fq_in(@, x)] /\ UNCHANGED excl
  <2>1. FqOK(nn_fq_in(fq[b], x), b, up, chan)
    BY <1>1, <1>2, <1>3, <1>4, FqIn
  <2>2. ASSUME NEW a \in Socket PROVE FqOK(fq'[a], a, up, chan)
    <3>1. CASE a = b
      <4>1. fq'[a] = nn_fq_in(fq[b], x)
        BY <1>1, <1>4, <3>1
      <4> QED BY <2>1, <3>1, <4>1
    <3>2. CASE a # b
      <4>1. fq'[a] = fq[a]
        BY <1>1, <1>4, <3>2
      <4> QED BY <4>1 DEF PatInv, FqsOK
    <3> QED BY <3>1, <3>2
  <2>3. FqsOK(fq', up, chan)
    BY <1>1, <1>4, <2>2 DEF FqsOK
  <2> QED BY <1>2, <1>4, <2>3 DEF PatInv
<1>5. CASE /\ Kind[b] = "PAIR"
           /\ excl' = [excl EXCEPT ![b].in = TRUE] /\ UNCHANGED fq
  <2> DEFINE e == {x[1], b}
  <2>1. excl[b] \in [pipe : up \cup {NoPipe}, in : BOOLEAN, out : BOOLEAN]
    BY <1>1 DEF PatInv, ExclOK
  <2>2. /\ DOMAIN excl' = Socket /\ excl'[b] = [excl[b] EXCEPT !.in = TRUE]
        /\ \A a \in Socket : a # b => excl'[a] = excl[a]
    BY <1>1, <1>5
  <2>3. /\ excl'[b] \in [pipe : {excl[b].pipe}, in : BOOLEAN, out : BOOLEAN]
        /\ excl'[b].out = excl[b].out
    BY <2>1, <2>2
  <2>4. excl[b].pipe = e
    BY <1>1, <1>2, <1>5 DEF PatInv, ExclOK
  <2>5. ASSUME NEW y \in Dir, {y[1], y[2]} = e
        PROVE  /\ y[1] = b /\ excl'[b].out => Len(chan[y]) < Cap
               /\ y[2] = b /\ excl'[b].in => chan[y] # << >>
    <3>1. y[1] = b /\ excl[b].out => Len(chan[y]) < Cap
      BY <1>1, <2>4, <2>5 DEF PatInv, ExclOK
    <3>2. ASSUME y[2] = b PROVE chan[y] # << >>
      <4>1. x \in Socket \X Socket /\ y \in Socket \X Socket /\ x[1] # b
        BY <1>1, <1>2, LinkFacts DEF Wired
      <4>2. y[1] = x[1] /\ y[2] = x[2]
        BY <2>5, <3>2, <4>1
      <4>3. y = x
        BY <4>1, <4>2
      <4> QED BY <1>2, <4>3
    <3> QED BY <2>3, <3>1, <3>2
  <2>6. ExclOK(excl', up, chan)
    <3>1. e \in up /\ b \in e /\ b \in Socket /\ Kind[b] = "PAIR"
      BY <1>1, <1>2, <1>5
    <3> HIDE DEF e, b
    <3> QED BY <2>2, <2>3, <2>5, <3>1, PairReady
  <2> QED BY <1>2, <1>5, <2>6 DEF PatInv
<1> QED BY <1>4, <1>5 DEF In

(* Out.                                                                    *)
LEMMA OutStep ==
  ASSUME Wired, PatInv, NEW x \in Dir, Out(x)
  PROVE  PatInv'
<1> DEFINE a == x[1]
<1>1. /\ net \in Nets /\ up \subseteq net /\ DOMAIN lb = Socket
      /\ a \in Socket /\ DOMAIN excl = Socket /\ DOMAIN dist = Socket
      /\ LbOne(lb[a], a, up, chan) /\ DistOK(dist, up, chan)
  BY DEF PatInv, Basics, LbOK, ExclOK, DistOK, Wired
<1>2. /\ {a, x[2]} \in up /\ IsUp(up, x) /\ Len(chan[x]) < Cap /\ ~Ready(x)
      /\ UNCHANGED <<net, up, chan, fq, hold, sent, got, skipped, faults>>
  BY DEF Out, IsUp
<1>3. CASE /\ Spreads(a) /\ dist' = [dist EXCEPT ![a] = nn_dist_out(@, x)]
           /\ UNCHANGED <<lb, excl>>
  <2>1. /\ DOMAIN dist' = Socket /\ dist'[a] = dist[a] \cup {x}
        /\ \A b \in Socket : b # a => dist'[b] = dist[b]
    BY <1>1, <1>3 DEF nn_dist_out
  <2>2. ASSUME NEW b \in Socket, NEW y \in dist'[b]
        PROVE  /\ y \in Dir /\ y[1] = b /\ Spreads(b)
               /\ IsUp(up, y) /\ Len(chan[y]) < Cap
    <3>1. CASE y \in dist[b]
      BY <1>1, <3>1 DEF DistOK
    <3>2. CASE y = x /\ b = a
      BY <1>2, <1>3, <3>2
    <3> QED BY <2>1, <2>2, <3>1, <3>2
  <2>3. DistOK(dist', up, chan)
    BY <2>1, <2>2 DEF DistOK
  <2> QED BY <1>2, <1>3, <2>3 DEF PatInv
<1>4. CASE /\ Kind[a] = "PUSH" /\ lb' = [lb EXCEPT ![a] = nn_lb_out(@, x)]
           /\ UNCHANGED <<dist, excl>>
  <2> DEFINE r == nn_lb_out(lb[a], x)
  <2>1. ~IsActive(lb[a], x, PipePrio[x])
    BY <1>2 DEF Ready
  <2>2. /\ LbOne(r, a, up, chan)
        /\ \A y \in Dir : IsActive(lb[a], y, PipePrio[y]) =>
             /\ IsActive(r, y, PipePrio[y])
             /\ r.turn[PipePrio[y]] = lb[a].turn[PipePrio[y]]
    BY <1>1, <1>2, <1>4, <2>1, LbOut
  <2> HIDE DEF r
  <2>3. /\ DOMAIN lb' = Socket /\ lb'[a] = r
        /\ \A b \in Socket : b # a => lb'[b] = lb[b]
    BY <1>1, <1>4 DEF r
  <2>4. LbOK(lb', up, chan)
    <3> SUFFICES ASSUME NEW b \in Socket PROVE LbOne(lb'[b], b, up, chan)
      BY <2>3 DEF LbOK
    <3>1. CASE b = a
      BY <2>2, <2>3, <3>1
    <3>2. CASE b # a
      <4>1. lb'[b] = lb[b]
        BY <2>3, <3>2
      <4> QED BY <4>1 DEF PatInv, LbOK
    <3> QED BY <3>1, <3>2
  <2>5. ASSUME NEW y \in Dir, IsActive(lb[y[1]], y, PipePrio[y])
        PROVE  /\ IsActive(lb'[y[1]], y, PipePrio[y])
               /\ lb'[y[1]].turn[PipePrio[y]] = lb[y[1]].turn[PipePrio[y]]
    <3>1. y[1] \in Socket
      BY DEF Wired
    <3>2. CASE y[1] = a
      BY <2>2, <2>3, <2>5, <3>2
    <3>3. CASE y[1] # a
      <4>1. lb'[y[1]] = lb[y[1]]
        BY <2>3, <3>1, <3>3
      <4> QED BY <2>5, <4>1
    <3> QED BY <3>2, <3>3
  <2>6. TurnsOK(skipped, lb')
    <3>1. TurnsOK(skipped, lb)
      BY DEF PatInv
    <3> QED BY <2>5, <3>1, TurnsKeep
  <2> QED BY <1>2, <1>4, <2>4, <2>6 DEF PatInv
<1>5. CASE /\ Kind[a] = "PAIR" /\ excl' = [excl EXCEPT ![a].out = TRUE]
           /\ UNCHANGED <<dist, lb>>
  <2> DEFINE e == {a, x[2]}
  <2>1. excl[a] \in [pipe : up \cup {NoPipe}, in : BOOLEAN, out : BOOLEAN]
    BY <1>1 DEF PatInv, ExclOK
  <2>2. /\ DOMAIN excl' = Socket /\ excl'[a] = [excl[a] EXCEPT !.out = TRUE]
        /\ \A b \in Socket : b # a => excl'[b] = excl[b]
    BY <1>1, <1>5
  <2>3. /\ excl'[a] \in [pipe : {excl[a].pipe}, in : BOOLEAN, out : BOOLEAN]
        /\ excl'[a].in = excl[a].in
    BY <2>1, <2>2
  <2>4. excl[a].pipe = e
    BY <1>1, <1>2, <1>5 DEF PatInv, ExclOK
  <2>5. ASSUME NEW y \in Dir, {y[1], y[2]} = e
        PROVE  /\ y[1] = a /\ excl'[a].out => Len(chan[y]) < Cap
               /\ y[2] = a /\ excl'[a].in => chan[y] # << >>
    <3>1. y[2] = a /\ excl[a].in => chan[y] # << >>
      BY <1>1, <2>4, <2>5 DEF PatInv, ExclOK
    <3>2. ASSUME y[1] = a PROVE Len(chan[y]) < Cap
      <4>1. x \in Socket \X Socket /\ y \in Socket \X Socket /\ a # x[2]
        BY <1>1, <1>2, LinkFacts DEF Wired
      <4>2. y[1] = x[1] /\ y[2] = x[2]
        BY <2>5, <3>2, <4>1
      <4>3. y = x
        BY <4>1, <4>2
      <4> QED BY <1>2, <4>3
    <3> QED BY <2>3, <3>1, <3>2
  <2>6. ExclOK(excl', up, chan)
    <3>1. e \in up /\ a \in e /\ a \in Socket /\ Kind[a] = "PAIR"
      BY <1>1, <1>2, <1>5
    <3> HIDE DEF e, a
    <3> QED BY <2>2, <2>3, <2>5, <3>1, PairReady
  <2> QED BY <1>2, <1>5, <2>6 DEF PatInv
<1> QED BY <1>3, <1>4, <1>5 DEF Out

-----------------------------------------------------------------------------
(* Links come up and break                                                 *)

(* The directions of a link that start, or end, at a socket.               *)
LEMMA EndsOf ==
  ASSUME Wired, NEW n \in Nets, NEW e \in n, NEW a \in e
  PROVE  /\ a \in Socket
         /\ Kind[a] = "PUSH" => \E x \in Ends(e) : x[1] = a
         /\ Queues(a) => \E x \in Ends(e) : x[2] = a
         /\ \A x, y \in Ends(e) : x[1] = a /\ y[1] = a => x = y
         /\ \A x, y \in Ends(e) : x[2] = a /\ y[2] = a => x = y
<1>1. Link(e)
  BY DEF Wired
<1>2. PICK p \in Socket :
        a \in Socket /\ p # a /\ e = {a, p}
  BY <1>1 DEF Link
<1>3. /\ Carries(<<a, p>>) => <<a, p>> \in Dir
      /\ Carries(<<p, a>>) => <<p, a>> \in Dir
      /\ \/ <<Kind[a], Kind[p]>> \in Mates
         \/ <<Kind[p], Kind[a]>> \in Mates
  <2>1. {a, p} \in n /\ a # p
    BY <1>2
  <2> QED BY <2>1, LinkDirs
<1>4. ASSUME Kind[a] = "PUSH" PROVE \E x \in Ends(e) : x[1] = a
  <2>1. Carries(<<a, p>>)
    BY <1>3, <1>4 DEF Mates, Carries
  <2>2. <<a, p>> \in Ends(e)
    BY <1>2, <1>3, <2>1 DEF Ends
  <2> QED BY <2>2
<1>5. ASSUME Queues(a) PROVE \E x \in Ends(e) : x[2] = a
  <2>1. Carries(<<p, a>>)
    BY <1>3, <1>5 DEF Mates, Carries, Queues
  <2>2. {p, a} = e
    BY <1>2
  <2>3. <<p, a>> \in Ends(e)
    BY <1>3, <2>1, <2>2 DEF Ends
  <2> QED BY <2>3
<1>6. \A x \in Ends(e) : x \in Socket \X Socket /\ {x[1], x[2]} = {a, p}
  BY <1>2 DEF Ends, Wired
<1>7. \A x \in Ends(e) : /\ x[1] = a => x = <<a, p>>
                         /\ x[2] = a => x = <<p, a>>
  <2> SUFFICES ASSUME NEW x \in Ends(e)
               PROVE  /\ x[1] = a => x = <<a, p>>
                      /\ x[2] = a => x = <<p, a>>
    OBVIOUS
  <2>1. x \in Socket \X Socket /\ {x[1], x[2]} = {a, p}
    BY <1>6
  <2> QED BY <1>2, <2>1
<1> QED BY <1>2, <1>4, <1>5, <1>7

(* More links are up, and the pipes are as they were.                      *)
LEMMA MoreUp ==
  ASSUME NEW u, NEW v, u \subseteq v, NEW c
  PROVE  /\ \A l, a : LbOne(l, a, u, c) => LbOne(l, a, v, c)
         /\ \A q : FqsOK(q, u, c) => FqsOK(q, v, c)
<1>1. \A x : IsUp(u, x) => IsUp(v, x)
  BY DEF IsUp
<1>2. ASSUME NEW l, NEW a, LbOne(l, a, u, c) PROVE LbOne(l, a, v, c)
  BY <1>1, <1>2 DEF LbOne
<1>3. ASSUME NEW q, FqsOK(q, u, c) PROVE FqsOK(q, v, c)
  BY <1>1, <1>3 DEF FqsOK, FqOK
<1> QED BY <1>2, <1>3

(* Nothing is in the pipes of a link that is not up.                       *)
LEMMA DownEmpty ==
  ASSUME NEW n, NEW u, NEW c, NEW s, NEW f, ChanOK(n, u, c, s, f),
         NEW e, e \notin u, NEW x \in Dir, {x[1], x[2]} = e, Wired
  PROVE  c[x] = << >> /\ Len(c[x]) < Cap
<1>1. c[x] = << >>
  BY DEF ChanOK
<1>2. Len(<< >>) = 0 /\ Cap \in Nat /\ Cap # 0
  BY DEF Wired
<1> QED BY <1>1, <1>2

(* The lists of PUB, BUS and devices when link e comes up.                 *)
LEMMA ConnectDist ==
  ASSUME Wired, PatInv, NEW e \in net, Connect(e)
  PROVE  DistOK(dist', up', chan)
<1>1. /\ DistOK(dist, up, chan) /\ ChanOK(net, up, chan, sent, faults)
      /\ e \notin up /\ up' = up \cup {e}
      /\ dist' = [a \in Socket |->
           IF a \in e /\ Spreads(a)
             THEN dist[a] \cup {x \in Ends(e) : x[1] = a} ELSE dist[a]]
  BY DEF PatInv, Flow, Connect, nn_xpub_add
<1> SUFFICES ASSUME NEW a \in Socket, NEW x \in dist'[a]
             PROVE  /\ x \in Dir /\ x[1] = a /\ Spreads(a)
                    /\ IsUp(up', x) /\ Len(chan[x]) < Cap
  BY <1>1 DEF DistOK
<1>2. CASE x \in dist[a]
  BY <1>1, <1>2 DEF DistOK, IsUp
<1>3. CASE x \in Ends(e) /\ x[1] = a /\ Spreads(a)
  <2>1. x \in Dir /\ {x[1], x[2]} = e /\ Carries(x)
    BY <1>3 DEF Ends
  <2>2. Len(chan[x]) < Cap
    BY <1>1, <2>1, DownEmpty
  <2>3. IsUp(up', x)
    BY <1>1, <2>1 DEF IsUp
  <2> QED BY <1>3, <2>1, <2>2, <2>3
<1> QED BY <1>1, <1>2, <1>3

(* The lists of PUSH.                                                      *)
LEMMA ConnectLb ==
  ASSUME Wired, PatInv, NEW e \in net, Connect(e)
  PROVE  LbOK(lb', up', chan) /\ TurnsOK(skipped, lb')
<1>1. /\ LbOK(lb, up, chan) /\ ChanOK(net, up, chan, sent, faults)
      /\ TurnsOK(skipped, lb) /\ net \in Nets /\ up \subseteq net
      /\ e \notin up /\ up' = up \cup {e}
      /\ lb' = [a \in Socket |->
           IF a \in e /\ Kind[a] = "PUSH"
             THEN nn_lb_out(lb[a], CHOOSE x \in Ends(e) : x[1] = a)
             ELSE lb[a]]
  BY DEF PatInv, Basics, Flow, Connect, nn_xpush_add
<1>2. \A l, a : LbOne(l, a, up, chan) => LbOne(l, a, up', chan)
  BY <1>1, MoreUp
<1>3. ASSUME NEW a \in Socket
      PROVE  /\ LbOne(lb'[a], a, up', chan)
             /\ \A y \in Dir : IsActive(lb[a], y, PipePrio[y]) =>
                  /\ IsActive(lb'[a], y, PipePrio[y])
                  /\ lb'[a].turn[PipePrio[y]] = lb[a].turn[PipePrio[y]]
  <2>1. LbOne(lb[a], a, up, chan) /\ LbOne(lb[a], a, up', chan)
    BY <1>1, <1>2 DEF LbOK
  <2>2. CASE ~(a \in e /\ Kind[a] = "PUSH")
    <3>1. lb'[a] = lb[a]
      BY <1>1, <2>2
    <3> QED BY <2>1, <3>1
  <2>3. CASE a \in e /\ Kind[a] = "PUSH"
    <3> DEFINE x == CHOOSE x \in Ends(e) : x[1] = a
               r == nn_lb_out(lb[a], x)
    <3>1. \E z \in Ends(e) : z[1] = a
      BY <1>1, <2>3, EndsOf
    <3>2. x \in Ends(e) /\ x[1] = a
      BY <3>1
    <3>3. lb'[a] = r
      BY <1>1, <2>3
    <3> HIDE DEF x
    <3>4. x \in Dir /\ {x[1], x[2]} = e /\ Carries(x)
      BY <3>2 DEF Ends
    <3>5. Len(chan[x]) < Cap
      BY <1>1, <3>4, DownEmpty
    <3>6. IsUp(up', x)
      BY <1>1, <3>4 DEF IsUp
    <3>7. ~IsActive(lb[a], x, PipePrio[x])
      <4>1. ~IsUp(up, x) /\ PipePrio[x] \in Prio
        BY <1>1, <3>4 DEF IsUp, Wired
      <4> QED BY <2>1, <4>1 DEF LbOne, IsActive
    <3>8. /\ LbOne(r, a, up', chan)
          /\ \A y \in Dir : IsActive(lb[a], y, PipePrio[y]) =>
               /\ IsActive(r, y, PipePrio[y])
               /\ r.turn[PipePrio[y]] = lb[a].turn[PipePrio[y]]
      <4>1. LbOne(lb[a], a, up', chan) /\ Kind[a] = "PUSH" /\ x[1] = a
        BY <2>1, <2>3, <3>2
      <4> QED BY <3>4, <3>5, <3>6, <3>7, <4>1, LbOut
    <3> HIDE DEF r
    <3> QED BY <3>3, <3>8
  <2> QED BY <2>2, <2>3
<1>4. LbOK(lb', up', chan)
  BY <1>1, <1>3 DEF LbOK
<1>5. \A y \in Dir : y[1] \in Socket
  BY DEF Wired
<1>6. TurnsOK(skipped, lb')
  <2>1. \A y \in Dir : IsActive(lb[y[1]], y, PipePrio[y]) =>
          /\ IsActive(lb'[y[1]], y, PipePrio[y])
          /\ lb'[y[1]].turn[PipePrio[y]] = lb[y[1]].turn[PipePrio[y]]
    BY <1>3, <1>5
  <2>2. TurnsOK(skipped, lb)
    BY <1>1
  <2> QED BY <2>1, <2>2, TurnsKeep
<1> QED BY <1>4, <1>6

(* The pipe of PAIR: the socket had none.                                  *)
LEMMA ConnectExcl ==
  ASSUME Wired, PatInv, NEW e \in net, Connect(e)
  PROVE  ExclOK(excl', up', chan)
<1>1. /\ ExclOK(excl, up, chan) /\ ChanOK(net, up, chan, sent, faults)
      /\ net \in Nets /\ up \subseteq net
      /\ e \notin up /\ up' = up \cup {e}
      /\ \A a \in e : Kind[a] = "PAIR" => excl[a].pipe = NoPipe
      /\ excl' = [a \in Socket |->
           IF a \in e /\ Kind[a] = "PAIR"
             THEN [pipe |-> e, in |-> FALSE, out |-> TRUE] ELSE excl[a]]
  BY DEF PatInv, Basics, Flow, Connect, nn_xpair_add, nn_excl_add
<1>2. \A f \in net : f # NoPipe
  BY <1>1 DEF Wired
<1> SUFFICES ASSUME NEW a \in Socket
             PROVE  /\ excl'[a] \in [pipe : up' \cup {NoPipe}, in : BOOLEAN,
                                     out : BOOLEAN]
                    /\ excl'[a].pipe # NoPipe =>
                         Kind[a] = "PAIR" /\ a \in excl'[a].pipe
                    /\ excl'[a].pipe = NoPipe => ~excl'[a].in /\ ~excl'[a].out
                    /\ Kind[a] = "PAIR" =>
                         \A f \in up' : a \in f => excl'[a].pipe = f
                    /\ \A x \in Dir : {x[1], x[2]} = excl'[a].pipe =>
                         /\ x[1] = a /\ excl'[a].out => Len(chan[x]) < Cap
                         /\ x[2] = a /\ excl'[a].in => chan[x] # << >>
  BY <1>1 DEF ExclOK
<1>3. CASE a \in e /\ Kind[a] = "PAIR"
  <2>1. excl'[a] = [pipe |-> e, in |-> FALSE, out |-> TRUE]
    BY <1>1, <1>3
  <2>2. /\ excl'[a] \in [pipe : up' \cup {NoPipe}, in : BOOLEAN,
                         out : BOOLEAN]
        /\ excl'[a].pipe = e /\ excl'[a].in = FALSE /\ excl'[a].out = TRUE
    <3>1. e \in up' \cup {NoPipe}
      BY <1>1
    <3> DEFINE U == up' \cup {NoPipe}
    <3> HIDE DEF U
    <3>2. /\ excl'[a] \in [pipe : U, in : BOOLEAN, out : BOOLEAN]
          /\ excl'[a].pipe = e /\ excl'[a].in = FALSE /\ excl'[a].out = TRUE
      BY <2>1, <3>1 DEF U
    <3> QED BY <3>2 DEF U
  <2>3. ASSUME NEW f \in up', a \in f PROVE f = e
    <3>1. CASE f \in up
      <4>1. excl[a].pipe = f
        BY <1>1, <1>3, <2>3, <3>1 DEF ExclOK
      <4> QED BY <1>1, <1>2, <1>3, <3>1, <4>1
    <3> QED BY <1>1, <3>1
  <2>4. ASSUME NEW x \in Dir, {x[1], x[2]} = e PROVE Len(chan[x]) < Cap
    BY <1>1, <2>4, DownEmpty
  <2> QED BY <1>2, <1>3, <2>2, <2>3, <2>4
<1>4. CASE ~(a \in e /\ Kind[a] = "PAIR")
  <2>1. excl'[a] = excl[a]
    BY <1>1, <1>4
  <2>2. excl[a] \in [pipe : up' \cup {NoPipe}, in : BOOLEAN, out : BOOLEAN]
    BY <1>1 DEF ExclOK
  <2>3. Kind[a] = "PAIR" => \A f \in up' : a \in f => excl[a].pipe = f
    BY <1>1, <1>4 DEF ExclOK
  <2>4. /\ excl[a].pipe # NoPipe => Kind[a] = "PAIR" /\ a \in excl[a].pipe
        /\ excl[a].pipe = NoPipe => ~excl[a].in /\ ~excl[a].out
        /\ \A x \in Dir : {x[1], x[2]} = excl[a].pipe =>
             /\ x[1] = a /\ excl[a].out => Len(chan[x]) < Cap
             /\ x[2] = a /\ excl[a].in => chan[x] # << >>
    BY <1>1 DEF ExclOK
  <2> QED BY <2>1, <2>2, <2>3, <2>4
<1> QED BY <1>3, <1>4

(* Connect.                                                                *)
LEMMA ConnectStep ==
  ASSUME Wired, PatInv, NEW e \in net, Connect(e)
  PROVE  PatInv'
<1>1. /\ Basics(net, up, sent, faults) /\ net \in Nets /\ up \subseteq net
      /\ faults \in Nat /\ FqsOK(fq, up, chan)
      /\ Flow(net, up, chan, got, hold, sent, faults)
      /\ DOMAIN chan = Dir /\ HoldOK(net, hold, sent, faults)
  BY DEF PatInv, Basics, Flow, ChanOK
<1>2. /\ up' = up \cup {e}
      /\ UNCHANGED <<net, chan, fq, sent, got, skipped, faults>>
  BY DEF Connect
<1>3. PICK same \in SUBSET e : Allocated(e, same)
  BY DEF Connect
<1>4. Moved(hold', hold, faults)
  <2> DEFINE v == [d \in Socket |-> CHOOSE x \in Ends(e) : x[1] = d]
  <2>1. hold' = [d \in Socket |-> IF d \in same /\ Dangling(d)
                                    THEN [hold[d] EXCEPT !.pipe = v[d]]
                                    ELSE hold[d]]
    BY <1>3 DEF Allocated
  <2> HIDE DEF v
  <2>2. \A d \in Socket : DOMAIN hold[d] = {"msg", "pipe"}
    BY <1>1 DEF HoldOK
  <2> SUFFICES ASSUME NEW d \in Socket
               PROVE  /\ DOMAIN hold'[d] = {"msg", "pipe"}
                      /\ hold'[d].msg = hold[d].msg
                      /\ \/ hold'[d].pipe = hold[d].pipe
                         \/ hold[d].pipe = NoPipe
    BY <2>1 DEF Moved
  <2>3. CASE d \in same /\ Dangling(d)
    <3>1. hold'[d] = [hold[d] EXCEPT !.pipe = v[d]] /\ hold[d].pipe = NoPipe
      BY <2>1, <2>3 DEF Dangling
    <3> QED BY <2>2, <3>1
  <2>4. CASE ~(d \in same /\ Dangling(d))
    <3>1. hold'[d] = hold[d]
      BY <2>1, <2>4
    <3> QED BY <2>2, <3>1
  <2> QED BY <2>3, <2>4
<1>5. Flushed(chan, chan, up, up')
  BY <1>1, <1>2 DEF Flushed
<1>6. Flow(net, up', chan, got, hold', sent, faults)
  <2>1. faults <= faults
    BY <1>1
  <2> QED BY <1>1, <1>4, <1>5, <2>1, LinksKeep
<1>7. FqsOK(fq, up', chan)
  <2>1. up \subseteq up'
    BY <1>2
  <2> QED BY <1>1, <2>1, MoreUp
<1>8. Basics(net, up', sent, faults)
  BY <1>1, <1>2 DEF Basics
<1>9. /\ DistOK(dist', up', chan) /\ LbOK(lb', up', chan)
      /\ TurnsOK(skipped, lb') /\ ExclOK(excl', up', chan)
  BY ConnectDist, ConnectLb, ConnectExcl
<1> QED BY <1>2, <1>6, <1>7, <1>8, <1>9 DEF PatInv

(* Pipe x left list q, which became r: the others are there, and so are    *)
(* their turns.                                                            *)
Left(q, r, x, i) ==
  /\ ListOK(r, Dir)
  /\ \A j \in Prio : \A y \in Elements(r.pipes[j]) :
       y \in Elements(q.pipes[j]) /\ (j = i => y # x)
  /\ \A j \in Prio : \A y \in Elements(q.pipes[j]) : y # x =>
       /\ y \in Elements(r.pipes[j])
       /\ q.turn[j] = y => r.turn[j] = y

(* nn_priolist_rm.                                                         *)
LEMMA Leaves ==
  ASSUME SLOTS \in Nat, NoPipe \notin Dir, NEW q, ListOK(q, Dir),
         NEW i \in Prio, NEW x
  PROVE  Left(q, nn_priolist_rm(q, x, i), x, i)
<1> DEFINE p == nn_priolist_rm(q, x, i)
<1>1. /\ ListOK(p, Dir)
      /\ \A j \in Prio : Elements(p.pipes[j])
           = IF j = i THEN Elements(q.pipes[j]) \ {x}
                      ELSE Elements(q.pipes[j])
  BY RmOK
<1>2. ASSUME NEW j \in Prio, NEW y, y # x, q.turn[j] = y
      PROVE  p.turn[j] = y
  <2>1. CASE ~IsActive(q, x, i)
    BY <1>2, <2>1 DEF nn_priolist_rm
  <2>2. CASE IsActive(q, x, i)
    <3>1. p.turn = [q.turn EXCEPT ![i] =
                      IF q.turn[i] = x THEN Following(q.pipes[i], x, TRUE)
                                       ELSE q.turn[i]]
      BY <2>2 DEF nn_priolist_rm
    <3>2. DOMAIN q.turn = Prio
      BY DEF ListOK
    <3> HIDE DEF p
    <3> QED BY <1>2, <3>1, <3>2
  <2> QED BY <2>1, <2>2
<1> HIDE DEF p
<1>3. ASSUME NEW j \in Prio, NEW y \in Elements(p.pipes[j])
      PROVE  y \in Elements(q.pipes[j]) /\ (j = i => y # x)
  BY <1>1, <1>3
<1>4. ASSUME NEW j \in Prio, NEW y \in Elements(q.pipes[j]), y # x
      PROVE  /\ y \in Elements(p.pipes[j])
             /\ q.turn[j] = y => p.turn[j] = y
  BY <1>1, <1>2, <1>4
<1> QED BY <1>1, <1>3, <1>4 DEF p, Left

(* The pipes of the other links when link e breaks.                        *)
LEMMA OtherPipes ==
  ASSUME NEW e, Disconnect(e), NEW y \in Dir, IsUp(up, y), y \notin Ends(e)
  PROVE  IsUp(up', y) /\ chan'[y] = chan[y]
<1>1. /\ up' = up \ {e}
      /\ chan' = [x \in Dir |-> IF x \in Ends(e) THEN << >> ELSE chan[x]]
  BY DEF Disconnect
<1>2. {y[1], y[2]} # e
  BY DEF IsUp, Ends
<1> QED BY <1>1, <1>2 DEF IsUp

(* The lists of PUSH when link e breaks.                                   *)
LEMMA DisconnectLb ==
  ASSUME Wired, PatInv, NEW e \in net, Disconnect(e)
  PROVE  LbOK(lb', up', chan') /\ TurnsOK(skipped', lb')
<1>1. /\ LbOK(lb, up, chan) /\ TurnsOK(skipped, lb) /\ net \in Nets
      /\ lb' = [a \in Socket |->
           IF a \in e /\ Kind[a] = "PUSH"
             THEN nn_lb_rm(lb[a], CHOOSE x \in Ends(e) : x[1] = a)
             ELSE lb[a]]
      /\ skipped' = [x \in Dir |-> IF x \in Ends(e) THEN 0 ELSE skipped[x]]
  BY DEF PatInv, Basics, Disconnect, nn_xpush_rm
<1>2. ASSUME NEW a \in Socket
      PROVE  /\ ListOK(lb'[a], Dir)
             /\ \A j \in Prio : \A y \in Elements(lb'[a].pipes[j]) :
                  y \in Elements(lb[a].pipes[j]) /\ y \notin Ends(e)
             /\ \A j \in Prio : \A y \in Elements(lb[a].pipes[j]) :
                  y \notin Ends(e) =>
                    /\ y \in Elements(lb'[a].pipes[j])
                    /\ lb[a].turn[j] = y => lb'[a].turn[j] = y
  <2>1. LbOne(lb[a], a, up, chan) /\ ListOK(lb[a], Dir)
    BY <1>1 DEF LbOK, LbOne
  <2>2. CASE ~(a \in e /\ Kind[a] = "PUSH")
    <3>1. lb'[a] = lb[a]
      BY <1>1, <2>2
    <3>2. ASSUME NEW j \in Prio, NEW y \in Elements(lb[a].pipes[j])
          PROVE  y \notin Ends(e)
      <4>1. y[1] = a /\ Kind[a] = "PUSH"
        BY <2>1, <3>2 DEF LbOne
      <4> QED BY <2>2, <4>1 DEF Ends
    <3> QED BY <2>1, <3>1, <3>2
  <2>3. CASE a \in e /\ Kind[a] = "PUSH"
    <3> DEFINE x == CHOOSE x \in Ends(e) : x[1] = a
               i == PipePrio[x]
               r == nn_priolist_rm(lb[a], x, i)
    <3>1. \E z \in Ends(e) : z[1] = a
      BY <1>1, <2>3, EndsOf
    <3>2. x \in Ends(e) /\ x[1] = a /\ x \in Dir
      BY <3>1 DEF Ends
    <3>3. lb'[a] = r
      BY <1>1, <2>3 DEF nn_lb_rm
    <3> HIDE DEF x
    <3>4. SLOTS \in Nat /\ NoPipe \notin Dir /\ i \in Prio
      BY <3>2 DEF Wired
    <3> HIDE DEF i
    <3>5. /\ ListOK(r, Dir)
          /\ \A j \in Prio : \A y \in Elements(r.pipes[j]) :
               y \in Elements(lb[a].pipes[j]) /\ (j = i => y # x)
          /\ \A j \in Prio : \A y \in Elements(lb[a].pipes[j]) : y # x =>
               /\ y \in Elements(r.pipes[j])
               /\ lb[a].turn[j] = y => r.turn[j] = y
      <4>1. ListOK(lb[a], Dir)
        BY <2>1
      <4>2. Left(lb[a], r, x, i)
        BY <3>4, <4>1, Leaves
      <4> QED BY <4>2 DEF Left
    <3> HIDE DEF r
    <3>6. ASSUME NEW j \in Prio, NEW y \in Elements(r.pipes[j])
          PROVE  y \notin Ends(e)
      <4>1. y \in Elements(lb[a].pipes[j]) /\ (j = i => y # x)
        BY <3>5, <3>6
      <4>2. y[1] = a /\ j = PipePrio[y]
        BY <2>1, <4>1 DEF LbOne
      <4>3. y # x
        BY <4>1, <4>2 DEF i
      <4>4. \A z, t \in Ends(e) : z[1] = a /\ t[1] = a => z = t
        BY <1>1, <2>3, EndsOf
      <4> QED BY <3>2, <4>2, <4>3, <4>4
    <3> QED BY <3>2, <3>3, <3>5, <3>6
  <2> QED BY <2>2, <2>3
<1>3. ASSUME NEW a \in Socket PROVE LbOne(lb'[a], a, up', chan')
  <2>1. ListOK(lb'[a], Dir)
    BY <1>2
  <2>2. ASSUME NEW j \in Prio, NEW y \in Elements(lb'[a].pipes[j])
        PROVE  /\ j = PipePrio[y] /\ y[1] = a /\ Kind[a] = "PUSH"
               /\ IsUp(up', y) /\ Len(chan'[y]) < Cap
    <3>1. y \in Elements(lb[a].pipes[j]) /\ y \notin Ends(e)
      BY <1>2, <2>2
    <3>2. /\ j = PipePrio[y] /\ y[1] = a /\ Kind[a] = "PUSH"
          /\ IsUp(up, y) /\ Len(chan[y]) < Cap
      BY <1>1, <3>1 DEF LbOK, LbOne
    <3>3. y \in Dir
      <4>1. ListOK(lb'[a], Dir)
        BY <1>2
      <4> QED BY <4>1, MemberOf
    <3>4. IsUp(up', y) /\ chan'[y] = chan[y]
      BY <3>1, <3>2, <3>3, OtherPipes
    <3> QED BY <3>2, <3>4
  <2> QED BY <2>1, <2>2 DEF LbOne
<1>4. LbOK(lb', up', chan')
  BY <1>1, <1>3 DEF LbOK
<1>5. TurnsOK(skipped', lb')
  <2>1. DOMAIN skipped' = Dir /\ \A x \in Dir : skipped'[x] \in Nat
    BY <1>1 DEF TurnsOK
  <2>2. ASSUME NEW y \in Dir, Cardinality(Pipes(y[1])) <= 2, skipped'[y] # 0
        PROVE  /\ skipped'[y] = 1 /\ IsActive(lb'[y[1]], y, PipePrio[y])
               /\ lb'[y[1]].turn[PipePrio[y]] = y
    <3>1. y \notin Ends(e) /\ skipped'[y] = skipped[y]
      BY <1>1, <2>2
    <3>2. /\ skipped[y] = 1 /\ IsActive(lb[y[1]], y, PipePrio[y])
          /\ lb[y[1]].turn[PipePrio[y]] = y
      BY <1>1, <2>2, <3>1 DEF TurnsOK
    <3> DEFINE a == y[1]
               j == PipePrio[y]
    <3>3. a \in Socket /\ j \in Prio /\ y \in Elements(lb[a].pipes[j])
      BY <3>2 DEF Wired, IsActive
    <3>4. lb[a].turn[j] = y
      BY <3>2
    <3> HIDE DEF a, j
    <3>5. y \in Elements(lb'[a].pipes[j]) /\ lb'[a].turn[j] = y
      BY <1>2, <3>1, <3>3, <3>4
    <3> QED BY <3>1, <3>2, <3>5 DEF a, j, IsActive
  <2> QED BY <2>1, <2>2 DEF TurnsOK
<1> QED BY <1>4, <1>5

(* The queues of SUB, PULL, BUS and devices.                               *)
LEMMA DisconnectFq ==
  ASSUME Wired, PatInv, NEW e \in net, Disconnect(e)
  PROVE  FqsOK(fq', up', chan')
<1>1. /\ FqsOK(fq, up, chan) /\ net \in Nets
      /\ fq' = [a \in Socket |->
           IF a \in e /\ Queues(a)
             THEN nn_fq_rm(fq[a], CHOOSE x \in Ends(e) : x[2] = a)
             ELSE fq[a]]
  BY DEF PatInv, Basics, Disconnect, nn_xsub_rm
<1>2. ASSUME NEW b \in Socket
      PROVE  /\ ListOK(fq'[b], Dir)
             /\ \A j \in Prio : \A y \in Elements(fq'[b].pipes[j]) :
                  y \in Elements(fq[b].pipes[j]) /\ y \notin Ends(e)
  <2>1. FqOK(fq[b], b, up, chan) /\ ListOK(fq[b], Dir)
    BY <1>1 DEF FqsOK, FqOK
  <2>2. CASE ~(b \in e /\ Queues(b))
    <3>1. fq'[b] = fq[b]
      BY <1>1, <2>2
    <3>2. ASSUME NEW j \in Prio, NEW y \in Elements(fq[b].pipes[j])
          PROVE  y \notin Ends(e)
      <4>1. y[2] = b /\ Queues(b)
        BY <2>1, <3>2 DEF FqOK
      <4> QED BY <2>2, <4>1 DEF Ends
    <3> QED BY <2>1, <3>1, <3>2
  <2>3. CASE b \in e /\ Queues(b)
    <3> DEFINE x == CHOOSE x \in Ends(e) : x[2] = b
               i == PipePrio[x]
               r == nn_priolist_rm(fq[b], x, i)
    <3>1. \E z \in Ends(e) : z[2] = b
      BY <1>1, <2>3, EndsOf
    <3>2. x \in Ends(e) /\ x[2] = b /\ x \in Dir
      BY <3>1 DEF Ends
    <3>3. fq'[b] = r
      BY <1>1, <2>3 DEF nn_fq_rm
    <3> HIDE DEF x
    <3>4. SLOTS \in Nat /\ NoPipe \notin Dir /\ i \in Prio
      BY <3>2 DEF Wired
    <3> HIDE DEF i
    <3>5. /\ ListOK(r, Dir)
          /\ \A j \in Prio : \A y \in Elements(r.pipes[j]) :
               y \in Elements(fq[b].pipes[j]) /\ (j = i => y # x)
      <4>1. ListOK(fq[b], Dir)
        BY <2>1
      <4>2. Left(fq[b], r, x, i)
        BY <3>4, <4>1, Leaves
      <4> QED BY <4>2 DEF Left
    <3> HIDE DEF r
    <3>6. ASSUME NEW j \in Prio, NEW y \in Elements(r.pipes[j])
          PROVE  y \notin Ends(e)
      <4>1. y \in Elements(fq[b].pipes[j]) /\ (j = i => y # x)
        BY <3>5, <3>6
      <4>2. y[2] = b /\ j = PipePrio[y]
        BY <2>1, <4>1 DEF FqOK
      <4>3. y # x
        BY <4>1, <4>2 DEF i
      <4>4. \A z, t \in Ends(e) : z[2] = b /\ t[2] = b => z = t
        BY <1>1, <2>3, EndsOf
      <4> QED BY <3>2, <4>2, <4>3, <4>4
    <3> QED BY <3>3, <3>5, <3>6
  <2> QED BY <2>2, <2>3
<1>3. ASSUME NEW b \in Socket PROVE FqOK(fq'[b], b, up', chan')
  <2>1. ListOK(fq'[b], Dir)
    BY <1>2
  <2>2. ASSUME NEW j \in Prio, NEW y \in Elements(fq'[b].pipes[j])
        PROVE  /\ j = PipePrio[y] /\ y[2] = b /\ Queues(b)
               /\ IsUp(up', y) /\ chan'[y] # << >>
    <3>1. y \in Elements(fq[b].pipes[j]) /\ y \notin Ends(e)
      BY <1>2, <2>2
    <3>2. /\ j = PipePrio[y] /\ y[2] = b /\ Queues(b)
          /\ IsUp(up, y) /\ chan[y] # << >>
      BY <1>1, <3>1 DEF FqsOK, FqOK
    <3>3. y \in Dir
      BY <2>1, MemberOf
    <3>4. IsUp(up', y) /\ chan'[y] = chan[y]
      BY <3>1, <3>2, <3>3, OtherPipes
    <3> QED BY <3>2, <3>4
  <2> QED BY <2>1, <2>2 DEF FqOK
<1> QED BY <1>1, <1>3 DEF FqsOK

(* The lists of PUB, BUS and devices.                                      *)
LEMMA DisconnectDist ==
  ASSUME Wired, PatInv, NEW e \in net, Disconnect(e)
  PROVE  DistOK(dist', up', chan')
<1>1. /\ DistOK(dist, up, chan)
      /\ dist' = [a \in Socket |-> dist[a] \ Ends(e)]
  BY DEF PatInv, Disconnect, nn_xpub_rm
<1> SUFFICES ASSUME NEW a \in Socket, NEW y \in dist'[a]
             PROVE  /\ y \in Dir /\ y[1] = a /\ Spreads(a)
                    /\ IsUp(up', y) /\ Len(chan'[y]) < Cap
  BY <1>1 DEF DistOK
<1>2. y \in dist[a] /\ y \notin Ends(e)
  BY <1>1
<1>3. /\ y \in Dir /\ y[1] = a /\ Spreads(a)
      /\ IsUp(up, y) /\ Len(chan[y]) < Cap
  BY <1>1, <1>2 DEF DistOK
<1>4. IsUp(up', y) /\ chan'[y] = chan[y]
  BY <1>2, <1>3, OtherPipes
<1> QED BY <1>3, <1>4

(* The pipe of PAIR.                                                       *)
LEMMA DisconnectExcl ==
  ASSUME Wired, PatInv, NEW e \in net, Disconnect(e)
  PROVE  ExclOK(excl', up', chan')
<1>1. /\ ExclOK(excl, up, chan) /\ net \in Nets /\ up \subseteq net
      /\ e \in up /\ up' = up \ {e}
      /\ chan' = [x \in Dir |-> IF x \in Ends(e) THEN << >> ELSE chan[x]]
      /\ excl' = [a \in Socket |->
           IF a \in e /\ Kind[a] = "PAIR"
             THEN [pipe |-> NoPipe, in |-> FALSE, out |-> FALSE]
             ELSE excl[a]]
  BY DEF PatInv, Basics, Disconnect, nn_xpair_rm, nn_excl_rm
<1> SUFFICES ASSUME NEW a \in Socket
             PROVE  /\ excl'[a] \in [pipe : up' \cup {NoPipe}, in : BOOLEAN,
                                     out : BOOLEAN]
                    /\ excl'[a].pipe # NoPipe =>
                         Kind[a] = "PAIR" /\ a \in excl'[a].pipe
                    /\ excl'[a].pipe = NoPipe => ~excl'[a].in /\ ~excl'[a].out
                    /\ Kind[a] = "PAIR" =>
                         \A f \in up' : a \in f => excl'[a].pipe = f
                    /\ \A x \in Dir : {x[1], x[2]} = excl'[a].pipe =>
                         /\ x[1] = a /\ excl'[a].out => Len(chan'[x]) < Cap
                         /\ x[2] = a /\ excl'[a].in => chan'[x] # << >>
  BY <1>1 DEF ExclOK
<1>2. CASE a \in e /\ Kind[a] = "PAIR"
  <2>1. excl'[a] = [pipe |-> NoPipe, in |-> FALSE, out |-> FALSE]
    BY <1>1, <1>2
  <2> DEFINE U == up' \cup {NoPipe}
  <2>2. NoPipe \in U
    OBVIOUS
  <2> HIDE DEF U
  <2>3. /\ excl'[a] \in [pipe : U, in : BOOLEAN, out : BOOLEAN]
        /\ excl'[a].pipe = NoPipe /\ excl'[a].in = FALSE
        /\ excl'[a].out = FALSE
    BY <2>1, <2>2
  <2>4. ASSUME NEW f \in up', a \in f PROVE FALSE
    <3>1. f \in up /\ f # e
      BY <1>1
    <3>2. excl[a].pipe = f /\ excl[a].pipe = e
      BY <1>1, <1>2, <2>4, <3>1 DEF ExclOK
    <3> QED BY <3>1, <3>2
  <2> QED BY <1>2, <2>3, <2>4 DEF U
<1>3. CASE ~(a \in e /\ Kind[a] = "PAIR")
  <2>1. excl'[a] = excl[a]
    BY <1>1, <1>3
  <2>2. /\ excl[a] \in [pipe : up \cup {NoPipe}, in : BOOLEAN, out : BOOLEAN]
        /\ excl[a].pipe # NoPipe => Kind[a] = "PAIR" /\ a \in excl[a].pipe
        /\ excl[a].pipe = NoPipe => ~excl[a].in /\ ~excl[a].out
        /\ Kind[a] = "PAIR" => \A f \in up' : a \in f => excl[a].pipe = f
        /\ \A x \in Dir : {x[1], x[2]} = excl[a].pipe =>
             /\ x[1] = a /\ excl[a].out => Len(chan[x]) < Cap
             /\ x[2] = a /\ excl[a].in => chan[x] # << >>
    BY <1>1 DEF ExclOK
  <2>3. excl[a].pipe # NoPipe => excl[a].pipe # e
    BY <1>3, <2>2
  <2>4. excl[a].pipe \in up' \cup {NoPipe}
    BY <1>1, <2>2, <2>3
  <2>5. excl[a] \in [pipe : up' \cup {NoPipe}, in : BOOLEAN, out : BOOLEAN]
    BY <2>2, <2>4
  <2>6. ASSUME NEW x \in Dir, {x[1], x[2]} = excl[a].pipe
        PROVE  /\ x[1] = a /\ excl[a].out => Len(chan'[x]) < Cap
               /\ x[2] = a /\ excl[a].in => chan'[x] # << >>
    <3>1. CASE excl[a].pipe = NoPipe
      BY <2>2, <3>1
    <3>2. CASE excl[a].pipe # NoPipe
      <4>1. x \notin Ends(e)
        BY <2>3, <2>6, <3>2 DEF Ends
      <4>2. chan'[x] = chan[x]
        BY <1>1, <4>1
      <4> QED BY <2>2, <2>6, <4>2
    <3> QED BY <3>1, <3>2
  <2> QED BY <2>1, <2>2, <2>5, <2>6
<1> QED BY <1>2, <1>3

(* Disconnect.                                                             *)
LEMMA DisconnectStep ==
  ASSUME Wired, PatInv, NEW e \in net, Disconnect(e)
  PROVE  PatInv'
<1>1. /\ Basics(net, up, sent, faults) /\ net \in Nets /\ up \subseteq net
      /\ faults \in Nat
      /\ Flow(net, up, chan, got, hold, sent, faults)
      /\ ChanOK(net, up, chan, sent, faults)
      /\ HoldOK(net, hold, sent, faults)
  BY DEF PatInv, Basics, Flow
<1>2. /\ up' = up \ {e} /\ faults' = faults + 1
      /\ chan' = [x \in Dir |-> IF x \in Ends(e) THEN << >> ELSE chan[x]]
      /\ hold' = [a \in Socket |->
           IF hold[a].pipe \in Ends(e) THEN [hold[a] EXCEPT !.pipe = NoPipe]
                                       ELSE hold[a]]
      /\ UNCHANGED <<net, sent, got>>
  BY DEF Disconnect, Freed
<1>3. faults' \in Nat /\ faults <= faults' /\ faults' > 0
  BY <1>1, <1>2
<1>4. Moved(hold', hold, faults')
  <2>1. \A d \in Socket : DOMAIN hold[d] = {"msg", "pipe"}
    BY <1>1 DEF HoldOK
  <2> SUFFICES ASSUME NEW d \in Socket
               PROVE  /\ DOMAIN hold'[d] = {"msg", "pipe"}
                      /\ hold'[d].msg = hold[d].msg
    BY <1>2, <1>3 DEF Moved
  <2>2. CASE hold[d].pipe \in Ends(e)
    <3>1. hold'[d] = [hold[d] EXCEPT !.pipe = NoPipe]
      BY <1>2, <2>2
    <3> QED BY <2>1, <3>1
  <2>3. CASE hold[d].pipe \notin Ends(e)
    <3>1. hold'[d] = hold[d]
      BY <1>2, <2>3
    <3> QED BY <2>1, <3>1
  <2> QED BY <2>2, <2>3
<1>5. Flushed(chan', chan, up, up')
  <2> SUFFICES ASSUME NEW x \in Dir, chan'[x] # << >>
               PROVE  /\ chan'[x] = chan[x]
                      /\ {x[1], x[2]} \in up => {x[1], x[2]} \in up'
    BY <1>2 DEF Flushed
  <2>1. x \notin Ends(e) /\ chan'[x] = chan[x]
    BY <1>2
  <2>2. IsUp(up, x)
    BY <1>1, <2>1 DEF ChanOK, IsUp
  <2>3. IsUp(up', x)
    BY <2>1, <2>2, OtherPipes
  <2> QED BY <2>1, <2>3 DEF IsUp
<1>6. Flow(net, up', chan', got, hold', sent, faults')
  BY <1>1, <1>3, <1>4, <1>5, LinksKeep
<1>7. Basics(net, up', sent, faults')
  BY <1>1, <1>2, <1>3 DEF Basics
<1>8. /\ DistOK(dist', up', chan') /\ LbOK(lb', up', chan')
      /\ TurnsOK(skipped', lb') /\ ExclOK(excl', up', chan')
      /\ FqsOK(fq', up', chan')
  BY DisconnectDist, DisconnectLb, DisconnectExcl, DisconnectFq
<1> QED BY <1>2, <1>6, <1>7, <1>8 DEF PatInv

-----------------------------------------------------------------------------
(* The specification                                                       *)

(* The invariant holds at the start.                                       *)
LEMMA PatInit ==
  ASSUME Wired, Init
  PROVE  PatInv
<1>1. /\ net \in Nets /\ up = {} /\ faults = 0
      /\ chan = [x \in Dir |-> << >>] /\ dist = [a \in Socket |-> {}]
      /\ lb = [a \in Socket |-> EmptyList]
      /\ fq = [a \in Socket |-> EmptyList]
      /\ excl = [a \in Socket |->
                   [pipe |-> NoPipe, in |-> FALSE, out |-> FALSE]]
      /\ hold = [a \in Socket |-> [msg |-> NoMsg, pipe |-> NoPipe]]
      /\ sent = [a \in Socket |-> 0] /\ got = [a \in Socket |-> << >>]
      /\ skipped = [x \in Dir |-> 0]
  BY DEF Init
<1>2. \A x \in Dir : x[1] \in Socket /\ x[2] \in Socket
  BY DEF Wired
<1>3. Basics(net, up, sent, faults)
  BY <1>1 DEF Basics
<1>4. /\ << >> \in Seq(Msg) /\ Len(<< >>) = 0 /\ Rising(<< >>)
      /\ \A i : i \notin 1 .. Len(<< >>)
  BY DEF Rising
<1>5. ChanOK(net, up, chan, sent, faults)
  <2>1. DOMAIN chan = Dir /\ \A x \in Dir : chan[x] = << >>
    BY <1>1
  <2> SUFFICES ASSUME NEW x \in Dir
               PROVE  /\ chan[x] \in Seq(Msg) /\ Rising(chan[x])
                      /\ chan[x] = << >>
                      /\ \A i : i \notin 1 .. Len(chan[x])
    BY <2>1 DEF ChanOK
  <2>2. chan[x] = << >>
    BY <2>1
  <2> QED BY <1>4, <2>2
<1>6. HoldOK(net, hold, sent, faults)
  <2>1. DOMAIN hold = Socket
    BY <1>1
  <2>2. \A d \in Socket : hold[d] = [msg |-> NoMsg, pipe |-> NoPipe]
    BY <1>1
  <2>3. \A d \in Socket :
          DOMAIN hold[d] = {"msg", "pipe"} /\ hold[d].msg = NoMsg
    BY <2>2
  <2> QED BY <2>1, <2>3 DEF HoldOK
<1>7. GotOK(got, sent, faults)
  <2>1. DOMAIN got = Socket /\ \A b \in Socket : got[b] = << >>
    BY <1>1
  <2> SUFFICES ASSUME NEW b \in Socket
               PROVE  /\ got[b] \in Seq(Msg) /\ Rising(got[b])
                      /\ \A i : i \notin 1 .. Len(got[b])
    BY <2>1 DEF GotOK
  <2>2. got[b] = << >>
    BY <2>1
  <2> QED BY <1>4, <2>2
<1>8. Order(chan, got, hold)
  <2>1. /\ \A x \in Dir : chan[x] = << >>
        /\ \A b \in Socket : got[b] = << >> /\ hold[b].msg = NoMsg
    BY <1>1
  <2> QED BY <1>2, <1>4, <2>1 DEF Order, Before
<1>9. /\ ListOK(EmptyList, Dir)
      /\ \A i \in Prio : Elements(EmptyList.pipes[i]) = {}
  <2>1. SLOTS \in Nat
    BY DEF Wired
  <2> QED BY <2>1, EmptyOK
<1>10. LbOK(lb, up, chan)
  <2>1. DOMAIN lb = Socket /\ \A a \in Socket : lb[a] = EmptyList
    BY <1>1
  <2>2. ASSUME NEW a \in Socket PROVE LbOne(EmptyList, a, up, chan)
    BY <1>9 DEF LbOne
  <2> QED BY <2>1, <2>2 DEF LbOK
<1>11. FqsOK(fq, up, chan)
  <2>1. DOMAIN fq = Socket /\ \A b \in Socket : fq[b] = EmptyList
    BY <1>1
  <2>2. ASSUME NEW b \in Socket PROVE FqOK(EmptyList, b, up, chan)
    BY <1>9 DEF FqOK
  <2> QED BY <2>1, <2>2 DEF FqsOK
<1>12. DistOK(dist, up, chan)
  BY <1>1 DEF DistOK
<1>13. ExclOK(excl, up, chan)
  <2>1. DOMAIN excl = Socket
    BY <1>1
  <2>2. ASSUME NEW a \in Socket
        PROVE  /\ excl[a] \in [pipe : up \cup {NoPipe}, in : BOOLEAN,
                               out : BOOLEAN]
               /\ excl[a].pipe = NoPipe
               /\ excl[a].in = FALSE /\ excl[a].out = FALSE
    BY <1>1
  <2> QED BY <1>1, <2>1, <2>2 DEF ExclOK
<1>14. TurnsOK(skipped, lb)
  BY <1>1 DEF TurnsOK
<1> QED
  BY <1>3, <1>5, <1>6, <1>7, <1>8, <1>10, <1>11, <1>12, <1>13, <1>14
  DEF PatInv, Flow

(* Every step keeps it.                                                    *)
LEMMA PatNext ==
  ASSUME Wired, PatInv, [Next]_vars
  PROVE  PatInv'
<1>1. CASE \E e \in net : Connect(e)
  BY <1>1, ConnectStep
<1>2. CASE \E e \in net : Disconnect(e)
  BY <1>2, DisconnectStep
<1>3. CASE \E x \in Dir : In(x)
  BY <1>3, InStep
<1>4. CASE \E x \in Dir : Out(x)
  BY <1>4, OutStep
<1>5. CASE \E a \in Socket, t \in Topics : nn_xpub_send(a, t)
  <2>1. PICK a \in Socket, t \in Topics : nn_xpub_send(a, t)
    BY <1>5
  <2>2. /\ Spreads(a) /\ Kind[a] # "DEV" /\ t \in Topics \cup {NoPipe}
        /\ CountSent(a) /\ nn_dist_send(a, Message(a, t), NoPipe)
        /\ UNCHANGED <<net, up, lb, fq, excl, hold, got, skipped, faults>>
    BY <2>1 DEF nn_xpub_send, Spreads
  <2> QED BY <2>2, PubSend
<1>6. CASE \E a \in Socket : nn_bus_send(a)
  <2>1. PICK a \in Socket : nn_bus_send(a)
    BY <1>6
  <2>2. /\ Spreads(a) /\ Kind[a] # "DEV" /\ NoPipe \in Topics \cup {NoPipe}
        /\ CountSent(a) /\ nn_dist_send(a, Message(a, NoPipe), NoPipe)
        /\ UNCHANGED <<net, up, lb, fq, excl, hold, got, skipped, faults>>
    BY <2>1 DEF nn_bus_send, Spreads
  <2> QED BY <2>2, PubSend
<1>7. CASE \E a \in Socket : nn_xbus_send(a)
  BY <1>7, BusForward
<1>8. CASE \E a \in Socket : nn_xpush_send(a)
  BY <1>8, PushSend
<1>9. CASE \E a \in Socket : nn_xpair_send(a)
  BY <1>9, PairSend
<1>10. CASE \E b \in Socket : nn_xpull_recv(b)
  BY <1>10, PullRecv
<1>11. CASE \E b \in Socket : nn_xsub_recv(b)
  BY <1>11, SubRecv
<1>12. CASE \E b \in Socket : nn_xbus_recv(b)
  BY <1>12, BusRecv
<1>13. CASE \E b \in Socket : nn_xpair_recv(b)
  BY <1>13, PairRecv
<1>14. CASE UNCHANGED vars
  BY <1>14 DEF vars, PatInv
<1> QED
  BY <1>1, <1>2, <1>3, <1>4, <1>5, <1>6, <1>7, <1>8, <1>9, <1>10, <1>11,
     <1>12, <1>13, <1>14 DEF Next, Recv

(* The numbers that a socket received rise for each sender.                *)
LEMMA PatOrder ==
  ASSUME PatInv
  PROVE  OnceInOrder
<1>1. GotOK(got, sent, faults)
  BY DEF PatInv, Flow
<1> SUFFICES ASSUME NEW b \in Socket, NEW j \in DOMAIN got[b]
             PROVE  /\ got[b][j].from = b => faults > 0
                    /\ Kind[b] = "SUB" => got[b][j].topic \in Wanted
                    /\ \A i \in 1 .. j - 1 :
                         got[b][i].from = got[b][j].from =>
                           got[b][i].no < got[b][j].no
  BY DEF OnceInOrder
<1> DEFINE s == got[b]
<1>2. s \in Seq(Msg) /\ Rising(s)
  BY <1>1 DEF GotOK
<1>3. j \in 1 .. Len(s) /\ Len(s) \in Nat
  BY <1>2, LenProperties
<1>4. /\ s[j].from = b => faults > 0
      /\ Kind[b] = "SUB" => s[j].topic \in Wanted
  BY <1>1, <1>3 DEF GotOK
<1> HIDE DEF s
<1>5. ASSUME NEW i \in 1 .. j - 1, s[i].from = s[j].from
      PROVE  s[i].no < s[j].no
  <2>1. i \in 1 .. Len(s) /\ i < j
    BY <1>3
  <2> QED BY <1>2, <1>3, <1>5, <2>1 DEF Rising
<1> QED BY <1>4, <1>5 DEF s

(* The lists of pipes are in step with the pipes.                          *)
LEMMA PatBalance ==
  ASSUME Wired, PatInv
  PROVE  Balanced
<1>1. /\ LbOK(lb, up, chan) /\ FqsOK(fq, up, chan) /\ DistOK(dist, up, chan)
      /\ ExclOK(excl, up, chan) /\ TurnsOK(skipped, lb)
  BY DEF PatInv
<1>2. \A a \in Socket : PrioListOK(lb[a]) /\ PrioListOK(fq[a])
  BY <1>1 DEF LbOK, LbOne, FqsOK, FqOK, ListOK
<1>3. ASSUME NEW x \in Dir
      PROVE  /\ Ready(x) /\ {x[1], x[2]} \in up => Len(chan[x]) < Cap
             /\ IsActive(fq[x[2]], x, PipePrio[x]) => chan[x] # << >>
             /\ Cardinality(Pipes(x[1])) <= 2 => skipped[x] <= 1
  <2> DEFINE a == x[1]
             b == x[2]
             i == PipePrio[x]
  <2>1. a \in Socket /\ b \in Socket /\ i \in Prio
    BY DEF Wired
  <2>2. ASSUME x \in dist[a] PROVE Len(chan[x]) < Cap
    BY <1>1, <2>1, <2>2 DEF DistOK
  <2>3. ASSUME IsActive(lb[a], x, i) PROVE Len(chan[x]) < Cap
    BY <1>1, <2>1, <2>3 DEF LbOK, LbOne, IsActive
  <2>4. ASSUME excl[a].out, {a, b} \in up PROVE Len(chan[x]) < Cap
    <3>1. Kind[a] = "PAIR"
      BY <1>1, <2>1, <2>4 DEF ExclOK
    <3>2. excl[a].pipe = {a, b}
      BY <1>1, <2>1, <2>4, <3>1 DEF ExclOK
    <3> QED BY <1>1, <2>1, <2>4, <3>2 DEF ExclOK
  <2>5. ASSUME IsActive(fq[b], x, i) PROVE chan[x] # << >>
    BY <1>1, <2>1, <2>5 DEF FqsOK, FqOK, IsActive
  <2>6. Cardinality(Pipes(a)) <= 2 => skipped[x] <= 1
    BY <1>1 DEF TurnsOK
  <2> QED BY <2>2, <2>3, <2>4, <2>5, <2>6 DEF Ready
<1> QED BY <1>2, <1>3 DEF Balanced

(* Messages arrive once, in the order of their sender, whatever the        *)
(* topologies of sockets, the priorities and the bounds: nn_fq_recv and    *)
(* nn_excl_recv take what nn_dist_send, nn_lb_send and nn_excl_send put    *)
(* into the pipes, and no device sends a message back unless a link broke. *)
THEOREM PatternsOrder == Wired => (Spec => []OnceInOrder)
<1> SUFFICES ASSUME Wired PROVE Spec => []OnceInOrder
  OBVIOUS
<1>1. Init => PatInv
  BY PatInit
<1>2. PatInv /\ [Next]_vars => PatInv'
  BY PatNext
<1>3. PatInv => OnceInOrder
  BY PatOrder
<1> QED BY <1>1, <1>2, <1>3, PTL DEF Spec

(* The lists of nn_lb, nn_fq, nn_dist and nn_excl are in step with the     *)
(* pipes, and of two pipes none is passed over twice, for any sockets.     *)
THEOREM PatternsBalanced == Wired => (Spec => []Balanced)
<1> SUFFICES ASSUME Wired PROVE Spec => []Balanced
  OBVIOUS
<1>1. Init => PatInv
  BY PatInit
<1>2. PatInv /\ [Next]_vars => PatInv'
  BY PatNext
<1>3. PatInv => Balanced
  BY PatBalance
<1> QED BY <1>1, <1>2, <1>3, PTL DEF Spec

=============================================================================
