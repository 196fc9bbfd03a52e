--------------------------- MODULE PrioListProofs ---------------------------
(***************************************************************************)
(* What nn_priolist promises its users (lb.c, fq.c), for any number of     *)
(* pipes and priorities: its operations keep the lists, the pointers and   *)
(* the current priority in step, and change the set of active pipes by the *)
(* one pipe they name.                                                     *)
(***************************************************************************)
EXTENDS PrioList, SequenceTheorems, WellFoundedInduction, TLAPS

(* A list of pipes of the set S, in step with its pointers.                *)
ListOK(pl, S) ==
  /\ pl.pipes \in [Prio -> Seq(S)] /\ DOMAIN pl.turn = Prio
  /\ PrioListOK(pl)

(* A set of priorities has a best one.                                     *)
LEMMA LeastNat ==
  ASSUME NEW T, T \subseteq Nat, T # {}
  PROVE  \E x \in T : \A y \in T : x <= y
<1> DEFINE R == OpToRel(<, Nat)
<1>1. IsWellFoundedOn(R, Nat)
  BY NatLessThanWellFounded
<1>2. \A x, y \in Nat : <<x, y>> \in R <=> x < y
  BY DEF OpToRel
<1> HIDE DEF R
<1>3. PICK x \in T : \A y \in T : ~(<<y, x>> \in R)
  BY <1>1, WFMin
<1>4. ASSUME NEW y \in T PROVE x <= y
  <2>1. x \in Nat /\ y \in Nat
    OBVIOUS
  <2>2. ~(<<y, x>> \in R)
    BY <1>3
  <2>3. ~(y < x)
    BY <1>2, <2>1, <2>2
  <2> QED BY <2>1, <2>3
<1> QED BY <1>4

(* The first priority with a pipe.                                         *)
LEMMA FirstFromFacts ==
  ASSUME SLOTS \in Nat, NEW pipes, NEW i \in Nat, i >= 1
  PROVE  /\ \/ /\ FirstFrom(pipes, i) = -1
               /\ \A j \in i .. SLOTS : pipes[j] = << >>
            \/ /\ FirstFrom(pipes, i) \in i .. SLOTS
               /\ pipes[FirstFrom(pipes, i)] # << >>
               /\ \A j \in i .. SLOTS :
                    pipes[j] # << >> => FirstFrom(pipes, i) <= j
<1> DEFINE some == {j \in i .. SLOTS : pipes[j] # << >>}
<1>1. CASE some = {}
  BY <1>1 DEF FirstFrom
<1>2. CASE some # {}
  <2>1. some \subseteq Nat
    OBVIOUS
  <2>2. \E j \in some : \A k \in some : j <= k
    <3> HIDE DEF some
    <3> QED BY <1>2, <2>1, LeastNat
  <2> DEFINE c == CHOOSE j \in some : \A k \in some : j <= k
  <2>3. c \in some /\ \A k \in some : c <= k
    BY <2>2
  <2>4. FirstFrom(pipes, i) = c
    BY <1>2 DEF FirstFrom
  <2> HIDE DEF c
  <2> QED BY <2>3, <2>4
<1> QED BY <1>1, <1>2

(* The first priority is the one before which there is no pipe.            *)
LEMMA FirstIs ==
  ASSUME SLOTS \in Nat, NEW pipes, NEW i \in Nat, i >= 1,
         NEW c \in i .. SLOTS, pipes[c] # << >>,
         \A j \in i .. SLOTS : pipes[j] # << >> => c <= j
  PROVE  FirstFrom(pipes, i) = c
BY FirstFromFacts

(* No pipe from i on.                                                      *)
LEMMA FirstNone ==
  ASSUME SLOTS \in Nat, NEW pipes, NEW i \in Nat, i >= 1,
         \A j \in i .. SLOTS : pipes[j] = << >>
  PROVE  FirstFrom(pipes, i) = -1
BY FirstFromFacts

(* Elements of a sequence with a pipe more.                                *)
LEMMA ElementsAppend ==
  ASSUME NEW S, NEW s \in Seq(S), NEW p \in S
  PROVE  Elements(Append(s, p)) = Elements(s) \cup {p}
<1>1. /\ Append(s, p) \in Seq(S) /\ Len(Append(s, p)) = Len(s) + 1
      /\ \A i \in 1 .. Len(s) : Append(s, p)[i] = s[i]
      /\ Append(s, p)[Len(s) + 1] = p
  BY AppendProperties
<1>2. DOMAIN s = 1 .. Len(s) /\ DOMAIN Append(s, p) = 1 .. Len(s) + 1
      /\ Len(s) \in Nat
  BY <1>1, LenProperties
<1> DEFINE a == Append(s, p)
           n == Len(s)
<1>3. \A i \in 1 .. n + 1 : i \in 1 .. n \/ i = n + 1
  BY <1>2
<1>4. n + 1 \in 1 .. n + 1 /\ \A i \in 1 .. n : i \in 1 .. n + 1
  BY <1>2
<1> HIDE DEF a, n
<1>5. Elements(a) = Elements(s) \cup {p}
  <2>1. ASSUME NEW y \in Elements(a) PROVE y \in Elements(s) \cup {p}
    BY <1>1, <1>2, <1>3 DEF Elements, a, n
  <2>2. ASSUME NEW y \in Elements(s) PROVE y \in Elements(a)
    BY <1>1, <1>2, <1>4 DEF Elements, a, n
  <2>3. p \in Elements(a)
    BY <1>1, <1>2, <1>4 DEF Elements, a, n
  <2> QED BY <2>1, <2>2, <2>3
<1> QED BY <1>5 DEF a

(* A sequence that has no pipe twice.                                      *)
Once(s) == \A j, k \in DOMAIN s : s[j] = s[k] => j = k

(* The place of a pipe in its list.                                        *)
LEMMA PlaceFacts ==
  ASSUME NEW S, NEW s \in Seq(S), NEW p \in Elements(s)
  PROVE  /\ Place(s, p) \in 1 .. Len(s) /\ s[Place(s, p)] = p
         /\ Len(s) \in Nat /\ DOMAIN s = 1 .. Len(s) /\ s # << >>
<1>1. DOMAIN s = 1 .. Len(s) /\ Len(s) \in Nat
  BY LenProperties
<1>2. \E i \in DOMAIN s : s[i] = p
  BY DEF Elements
<1>3. Place(s, p) \in DOMAIN s /\ s[Place(s, p)] = p
  BY <1>2 DEF Place
<1>4. s # << >>
  BY <1>1, <1>2, EmptySeq
<1> QED BY <1>1, <1>3, <1>4

(* A pipe leaves its list, the others keep their order.                    *)
LEMMA WithoutFacts ==
  ASSUME NEW S, NEW s \in Seq(S), NEW p \in Elements(s), Once(s)
  PROVE  /\ Without(s, p) \in Seq(S) /\ Once(Without(s, p))
         /\ Elements(Without(s, p)) = Elements(s) \ {p}
         /\ Without(s, p) = << >> <=> Len(s) = 1
<1> DEFINE k == Place(s, p)
           n == Len(s)
           a == SubSeq(s, 1, k - 1)
           b == SubSeq(s, k + 1, n)
           w == a \o b
<1>1. k \in 1 .. n /\ s[k] = p /\ n \in Nat /\ DOMAIN s = 1 .. n
  BY PlaceFacts
<1>2. Without(s, p) = w
  BY DEF Without
<1>3. /\ a \in Seq(S) /\ Len(a) = k - 1
      /\ \A i \in 1 .. k - 1 : a[i] = s[i]
  <2> HIDE DEF k
  <2>1. CASE k = 1
    <3>1. a = << >>
      BY <2>1, SubSeqEmpty
    <3>2. 1 .. k - 1 = {} /\ k - 1 = 0
      BY <2>1
    <3> QED BY <3>1, <3>2, EmptySeq
  <2>2. CASE k > 1
    BY <1>1, <2>2
  <2> QED BY <1>1, <2>1, <2>2
<1>4. /\ b \in Seq(S) /\ Len(b) = n - k
      /\ \A i \in 1 .. n - k : b[i] = s[k + i]
  <2> HIDE DEF k, n
  <2>1. CASE k = n
    <3>1. b = << >>
      BY <1>1, <2>1, SubSeqEmpty
    <3>2. 1 .. n - k = {} /\ n - k = 0
      BY <1>1, <2>1
    <3> QED BY <3>1, <3>2, EmptySeq
  <2>2. CASE k < n
    BY <1>1, <2>2 DEF n
  <2> QED BY <1>1, <2>1, <2>2
<1> HIDE DEF a, b, k
<1>5. /\ w \in Seq(S) /\ Len(w) = n - 1 /\ DOMAIN w = 1 .. n - 1
      /\ \A i \in 1 .. k - 1 : w[i] = s[i]
      /\ \A i \in k .. n - 1 : w[i] = s[i + 1]
  <2>1. /\ w \in Seq(S) /\ Len(w) = Len(a) + Len(b)
        /\ \A i \in 1 .. Len(a) + Len(b) :
             w[i] = IF i <= Len(a) THEN a[i] ELSE b[i - Len(a)]
    BY <1>3, <1>4, ConcatProperties
  <2>2. Len(w) = n - 1 /\ DOMAIN w = 1 .. n - 1
    <3>1. Len(w) = n - 1
      BY <1>1, <1>3, <1>4, <2>1
    <3> QED BY <2>1, <3>1, LenProperties
  <2> HIDE DEF w, n
  <2>3. Len(a) + Len(b) = n - 1
    BY <1>1, <1>3, <1>4
  <2>4. ASSUME NEW i \in 1 .. k - 1 PROVE w[i] = s[i]
    BY <1>1, <1>3, <2>1, <2>3
  <2>5. ASSUME NEW i \in k .. n - 1 PROVE w[i] = s[i + 1]
    <3>1. i \in 1 .. n - 1 /\ ~(i <= k - 1) /\ i - (k - 1) \in 1 .. n - k
          /\ k + (i - (k - 1)) = i + 1
      BY <1>1
    <3>2. w[i] = b[i - (k - 1)]
      BY <1>3, <2>1, <2>3, <3>1
    <3>3. b[i - (k - 1)] = s[k + (i - (k - 1))]
      BY <1>4, <3>1
    <3> QED BY <3>1, <3>2, <3>3
  <2> QED BY <2>1, <2>2, <2>4, <2>5
<1> HIDE DEF w, n
<1>6. \A i \in 1 .. n - 1 :
        \/ i \in 1 .. k - 1 /\ w[i] = s[i] /\ i \in 1 .. n /\ i # k
        \/ i \in k .. n - 1 /\ w[i] = s[i + 1] /\ i + 1 \in 1 .. n /\ i + 1 # k
  <2> SUFFICES ASSUME NEW i \in 1 .. n - 1
               PROVE
        \/ i \in 1 .. k - 1 /\ w[i] = s[i] /\ i \in 1 .. n /\ i # k
        \/ i \in k .. n - 1 /\ w[i] = s[i + 1] /\ i + 1 \in 1 .. n /\ i + 1 # k
    OBVIOUS
  <2>1. CASE i < k
    <3>1. i \in 1 .. k - 1 /\ i \in 1 .. n /\ i # k
      BY <1>1, <2>1
    <3> QED BY <1>5, <3>1
  <2>2. CASE i >= k
    <3>1. i \in k .. n - 1 /\ i + 1 \in 1 .. n /\ i + 1 # k
      BY <1>1, <2>2
    <3> QED BY <1>5, <3>1
  <2> QED BY <1>1, <2>1, <2>2
<1>7. Elements(w) = Elements(s) \ {p}
  <2>1. ASSUME NEW y \in Elements(w) PROVE y \in Elements(s) \ {p}
    <3>1. PICK i \in 1 .. n - 1 : y = w[i]
      BY <1>5 DEF Elements
    <3>2. PICK j \in 1 .. n : y = s[j] /\ j # k
      BY <1>6, <3>1
    <3> QED BY <1>1, <3>2 DEF Elements, Once
  <2>2. ASSUME NEW y \in Elements(s), y # p PROVE y \in Elements(w)
    <3>1. PICK j \in 1 .. n : y = s[j]
      BY <1>1 DEF Elements
    <3>2. j # k
      BY <1>1, <2>2, <3>1
    <3>3. CASE j < k
      <4>1. j \in 1 .. k - 1 /\ j \in 1 .. n - 1
        BY <1>1, <3>3
      <4> QED BY <1>5, <3>1, <4>1 DEF Elements
    <3>4. CASE j > k
      <4>1. j - 1 \in k .. n - 1 /\ j - 1 \in 1 .. n - 1 /\ (j - 1) + 1 = j
        BY <1>1, <3>4
      <4> QED BY <1>5, <3>1, <4>1 DEF Elements
    <3> QED BY <1>1, <3>2, <3>3, <3>4
  <2> QED BY <2>1, <2>2
<1>8. Once(w)
  <2> SUFFICES ASSUME NEW i \in 1 .. n - 1, NEW j \in 1 .. n - 1,
                      w[i] = w[j]
               PROVE  i = j
    BY <1>5 DEF Once
  <2> DEFINE u(x) == IF x < k THEN x ELSE x + 1
  <2>1. w[i] = s[u(i)] /\ u(i) \in 1 .. n
    BY <1>1, <1>6
  <2>2. w[j] = s[u(j)] /\ u(j) \in 1 .. n
    BY <1>1, <1>6
  <2>3. u(i) = u(j)
    <3> HIDE DEF u
    <3> QED BY <1>1, <2>1, <2>2 DEF Once
  <2> QED BY <1>1, <2>3
<1>9. w = << >> <=> n = 1
  <2>1. w = << >> <=> Len(w) = 0
    BY <1>5, EmptySeq
  <2> QED BY <1>1, <1>5, <2>1
<1> QED BY <1>2, <1>5, <1>7, <1>8, <1>9 DEF n

-----------------------------------------------------------------------------
(* The operations                                                          *)

(* An empty list.                                                          *)
LEMMA EmptyOK ==
  ASSUME SLOTS \in Nat, NEW S
  PROVE  /\ ListOK(EmptyList, S) /\ ~nn_priolist_is_active(EmptyList)
         /\ \A i \in Prio : EmptyList.pipes[i] = << >>
         /\ \A i \in Prio : Elements(EmptyList.pipes[i]) = {}
<1> DEFINE z == [i \in Prio |-> << >>]
           t == [i \in Prio |-> NoPipe]
<1>1. /\ EmptyList.pipes = z /\ EmptyList.turn = t /\ EmptyList.current = -1
      /\ \A i \in Prio : z[i] = << >> /\ t[i] = NoPipe
      /\ z \in [Prio -> Seq(S)] /\ DOMAIN t = Prio
  BY DEF EmptyList
<1> HIDE DEF z, t
<1>2. FirstFrom(z, 1) = -1
  BY <1>1, FirstNone DEF Prio
<1>3. PrioListOK(EmptyList)
  <2>1. \A j : j \notin DOMAIN << >>
    OBVIOUS
  <2> QED BY <1>1, <1>2, <2>1 DEF PrioListOK
<1>4. Elements(<< >>) = {}
  BY DEF Elements
<1> QED BY <1>1, <1>3, <1>4 DEF ListOK, nn_priolist_is_active

(* What a list in step says of the pipe whose turn it is.                  *)
LEMMA TurnOK ==
  ASSUME SLOTS \in Nat, NEW S, NEW pl, ListOK(pl, S),
         nn_priolist_is_active(pl)
  PROVE  /\ pl.current \in Prio /\ pl.pipes[pl.current] # << >>
         /\ pl.turn[pl.current] \in Elements(pl.pipes[pl.current])
         /\ nn_priolist_getpipe(pl) = pl.turn[pl.current]
         /\ nn_priolist_getpipe(pl) \in S
         /\ nn_priolist_getpipe(pl) # NoPipe
         /\ \A i \in Prio : i < pl.current => pl.pipes[i] = << >>
<1>1. pl.current = FirstFrom(pl.pipes, 1) /\ pl.current # -1
  BY DEF ListOK, PrioListOK, nn_priolist_is_active
<1>2. /\ pl.current \in Prio /\ pl.pipes[pl.current] # << >>
      /\ \A i \in Prio : i < pl.current => pl.pipes[i] = << >>
  <2>1. /\ pl.current \in 1 .. SLOTS /\ pl.pipes[pl.current] # << >>
        /\ \A j \in 1 .. SLOTS : pl.pipes[j] # << >> => pl.current <= j
    BY <1>1, FirstFromFacts
  <2> QED BY <2>1 DEF Prio
<1>3. pl.turn[pl.current] \in Elements(pl.pipes[pl.current])
      /\ pl.turn[pl.current] # NoPipe
  BY <1>2 DEF ListOK, PrioListOK
<1>4. pl.pipes[pl.current] \in Seq(S)
  BY <1>2 DEF ListOK
<1>5. \A y \in Elements(pl.pipes[pl.current]) : y \in S
  BY <1>4, LenProperties, ElementOfSeq DEF Elements
<1> QED BY <1>1, <1>2, <1>3, <1>5 DEF nn_priolist_getpipe

(* A change of one list and its pointer keeps the rest in step.            *)
LEMMA OneListOK ==
  ASSUME SLOTS \in Nat, NEW S, NEW pl, ListOK(pl, S), NEW i \in Prio,
         NEW s \in Seq(S), Once(s), NEW t,
         s = << >> <=> t = NoPipe, s # << >> => t \in Elements(s),
         NEW c, c = FirstFrom([pl.pipes EXCEPT ![i] = s], 1)
  PROVE  ListOK([pipes |-> [pl.pipes EXCEPT ![i] = s],
                 turn |-> [pl.turn EXCEPT ![i] = t], current |-> c], S)
<1> DEFINE u == [pl.pipes EXCEPT ![i] = s]
           v == [pl.turn EXCEPT ![i] = t]
           q == [pipes |-> u, turn |-> v, current |-> c]
<1>1. /\ u \in [Prio -> Seq(S)] /\ u[i] = s
      /\ \A j \in Prio : j # i => u[j] = pl.pipes[j]
      /\ DOMAIN v = Prio /\ v[i] = t
      /\ \A j \in Prio : j # i => v[j] = pl.turn[j]
  BY DEF ListOK
<1>2. q.pipes = u /\ q.turn = v /\ q.current = c /\ c = FirstFrom(u, 1)
  OBVIOUS
<1> HIDE DEF u, v, q
<1>3. ASSUME NEW j \in Prio
      PROVE  /\ (u[j] = << >>) = (v[j] = NoPipe)
             /\ u[j] # << >> => v[j] \in Elements(u[j])
             /\ Once(u[j])
  <2>1. CASE j = i
    BY <1>1, <2>1
  <2>2. CASE j # i
    BY <1>1, <2>2 DEF ListOK, PrioListOK, Once
  <2> QED BY <2>1, <2>2
<1>4. PrioListOK(q)
  BY <1>2, <1>3 DEF PrioListOK, Once
<1> QED BY <1>1, <1>2, <1>4 DEF ListOK, q, u, v

(* nn_priolist_activate adds the pipe, at the end of its list.             *)
LEMMA ActivateOK ==
  ASSUME SLOTS \in Nat, NEW S, NEW pl, ListOK(pl, S), NEW prio \in Prio,
         NEW p \in S, p # NoPipe, ~IsActive(pl, p, prio)
  PROVE  LET q == nn_priolist_activate(pl, p, prio)
         IN  /\ ListOK(q, S) /\ nn_priolist_is_active(q)
             /\ \A j \in Prio : Elements(q.pipes[j])
                  = IF j = prio THEN Elements(pl.pipes[j]) \cup {p}
                                ELSE Elements(pl.pipes[j])
<1> DEFINE a == pl.pipes[prio]
           s == Append(a, p)
           t == IF a = << >> THEN p ELSE pl.turn[prio]
           c == IF pl.current = -1 \/ pl.current > prio THEN prio
                                                        ELSE pl.current
           u == [pl.pipes EXCEPT ![prio] = s]
           v == [pl.turn EXCEPT ![prio] = t]
           q == nn_priolist_activate(pl, p, prio)
<1>1. a \in Seq(S) /\ pl.pipes \in [Prio -> Seq(S)] /\ DOMAIN pl.turn = Prio
      /\ Once(a) /\ p \notin Elements(a)
  BY DEF ListOK, PrioListOK, IsActive, Once
<1>2. q = [pipes |-> u, turn |-> v, current |-> c]
  BY <1>1 DEF nn_priolist_activate
<1>3. s \in Seq(S) /\ s # << >> /\ Elements(s) = Elements(a) \cup {p}
  BY <1>1, AppendProperties, ElementsAppend
<1>4. Once(s)
  <2>1. /\ DOMAIN a = 1 .. Len(a) /\ Len(a) \in Nat
        /\ DOMAIN s = 1 .. Len(a) + 1
        /\ \A i \in 1 .. Len(a) : s[i] = a[i]
        /\ s[Len(a) + 1] = p
    <3>1. Len(s) = Len(a) + 1
      BY <1>1, AppendProperties
    <3> QED BY <1>1, <1>3, <3>1, AppendProperties, LenProperties
  <2> DEFINE n == Len(a)
  <2> HIDE DEF a, s, n
  <2>2. \A i \in 1 .. n + 1 : i \in 1 .. n \/ i = n + 1
    BY <2>1 DEF n
  <2>3. \A i \in 1 .. n : a[i] # p
    BY <1>1, <2>1 DEF Elements, n
  <2> QED BY <1>1, <2>1, <2>2, <2>3 DEF Once, n
<1>5. t \in Elements(s) /\ t # NoPipe
  BY <1>1, <1>3 DEF ListOK, PrioListOK
<1>6. /\ u[prio] = s /\ \A j \in Prio : j # prio => u[j] = pl.pipes[j]
  BY <1>1
<1> HIDE DEF a, s, t, u
<1>7. c = FirstFrom(u, 1) /\ c # -1
  <2>1. Prio = 1 .. SLOTS /\ prio \in Int /\ prio # -1
    BY DEF Prio
  <2>2. CASE pl.current = -1
    <3>1. \A j \in 1 .. SLOTS : pl.pipes[j] = << >>
      BY <2>2, FirstFromFacts DEF ListOK, PrioListOK
    <3>2. \A j \in 1 .. SLOTS : u[j] # << >> => prio <= j
      BY <1>6, <2>1, <3>1
    <3>3. c = prio
      BY <2>2
    <3> QED BY <1>3, <1>6, <2>1, <3>2, <3>3, FirstIs
  <2>3. CASE pl.current # -1
    <3>1. /\ pl.current \in 1 .. SLOTS /\ pl.pipes[pl.current] # << >>
          /\ \A j \in 1 .. SLOTS : pl.pipes[j] # << >> => pl.current <= j
      BY <2>3, FirstFromFacts DEF ListOK, PrioListOK
    <3>2. CASE pl.current > prio
      <4>1. c = prio
        BY <3>2
      <4>2. \A j \in 1 .. SLOTS : u[j] # << >> => prio <= j
        BY <1>6, <2>1, <3>1, <3>2
      <4> QED BY <1>3, <1>6, <2>1, <4>1, <4>2, FirstIs
    <3>3. CASE ~(pl.current > prio)
      <4>1. c = pl.current
        BY <2>3, <3>3
      <4>2. \A j \in 1 .. SLOTS : u[j] # << >> => pl.current <= j
        BY <1>6, <2>1, <3>1, <3>3
      <4>3. u[pl.current] # << >>
        BY <1>3, <1>6, <2>1, <3>1
      <4>4. pl.current # -1
        BY <2>3
      <4> QED BY <3>1, <4>1, <4>2, <4>3, <4>4, FirstIs
    <3> QED BY <3>2, <3>3
  <2> QED BY <2>2, <2>3
<1> HIDE DEF c, v
<1>8. ListOK(q, S)
  <2>1. ListOK([pipes |-> [pl.pipes EXCEPT ![prio] = s],
                turn |-> [pl.turn EXCEPT ![prio] = t], current |-> c], S)
    BY <1>3, <1>4, <1>5, <1>7, OneListOK DEF u
  <2> QED BY <1>2, <2>1 DEF u, v
<1>9. nn_priolist_is_active(q) /\ q.pipes = u
  BY <1>2, <1>7 DEF nn_priolist_is_active
<1>10. \A j \in Prio : Elements(q.pipes[j])
         = IF j = prio THEN Elements(pl.pipes[j]) \cup {p}
                       ELSE Elements(pl.pipes[j])
  BY <1>3, <1>6, <1>9 DEF a
<1> QED BY <1>8, <1>9, <1>10

(* Below i there is no pipe.                                               *)
LEMMA FirstSame ==
  ASSUME SLOTS \in Nat, NEW pipes, NEW i \in Prio,
         \A j \in Prio : j < i => pipes[j] = << >>
  PROVE  FirstFrom(pipes, 1) = FirstFrom(pipes, i)
<1>1. Prio = 1 .. SLOTS /\ i \in Nat /\ i >= 1
  BY DEF Prio
<1>2. CASE FirstFrom(pipes, i) = -1
  <2>1. \A j \in i .. SLOTS : pipes[j] = << >>
    BY <1>1, <1>2, FirstFromFacts
  <2>2. \A j \in 1 .. SLOTS : pipes[j] = << >>
    BY <1>1, <2>1
  <2> QED BY <1>2, <2>2, FirstNone
<1>3. CASE FirstFrom(pipes, i) # -1
  <2> DEFINE c == FirstFrom(pipes, i)
  <2>1. /\ c \in i .. SLOTS /\ pipes[c] # << >>
        /\ \A j \in i .. SLOTS : pipes[j] # << >> => c <= j
    BY <1>1, <1>3, FirstFromFacts
  <2> HIDE DEF c
  <2>2. c \in 1 .. SLOTS /\ \A j \in 1 .. SLOTS : pipes[j] # << >> => c <= j
    BY <1>1, <2>1
  <2>3. FirstFrom(pipes, 1) = c
    BY <2>1, <2>2, FirstIs
  <2> QED BY <2>3 DEF c
<1> QED BY <1>2, <1>3

(* nn_list_next and nn_list_erase with the wrap-over.                      *)
LEMMA FollowingFacts ==
  ASSUME NEW S, NEW s \in Seq(S), NEW p \in Elements(s), Once(s)
  PROVE  /\ Following(s, p, FALSE) \in Elements(s)
         /\ Len(s) = 1 => Following(s, p, TRUE) = NoPipe
         /\ Len(s) # 1 => /\ Following(s, p, TRUE) \in Elements(s) \ {p}
                          /\ Following(s, p, FALSE) \in Elements(s) \ {p}
<1> DEFINE k == Place(s, p)
           n == Len(s)
<1>1. k \in 1 .. n /\ s[k] = p /\ n \in Nat /\ DOMAIN s = 1 .. n
  BY PlaceFacts
<1>2. CASE k < n
  <2>1. Following(s, p, FALSE) = s[k + 1] /\ Following(s, p, TRUE) = s[k + 1]
    BY <1>2 DEF Following
  <2> HIDE DEF k, n
  <2>2. k + 1 \in 1 .. n /\ k + 1 # k /\ n # 1
    BY <1>1, <1>2
  <2>3. s[k + 1] \in Elements(s) \ {p}
    BY <1>1, <2>2 DEF Elements, Once
  <2> QED BY <2>1, <2>2, <2>3 DEF n
<1>3. CASE k = n /\ k > 1
  <2>1. Following(s, p, FALSE) = s[1] /\ Following(s, p, TRUE) = s[1]
    BY <1>1, <1>3 DEF Following
  <2> HIDE DEF k, n
  <2>2. 1 \in 1 .. n /\ 1 # k /\ n # 1
    BY <1>1, <1>3
  <2>3. s[1] \in Elements(s) \ {p}
    BY <1>1, <2>2 DEF Elements, Once
  <2> QED BY <2>1, <2>2, <2>3 DEF n
<1>4. CASE k = n /\ ~(k > 1)
  <2>1. Following(s, p, FALSE) = s[1]
    BY <1>1, <1>4 DEF Following
  <2>2. Following(s, p, TRUE) = NoPipe
    BY <1>1, <1>4 DEF Following
  <2> HIDE DEF k, n
  <2>3. k = 1 /\ n = 1
    BY <1>1, <1>4
  <2> QED BY <1>1, <2>1, <2>2, <2>3 DEF n
<1>5. k < n \/ (k = n /\ k > 1) \/ (k = n /\ ~(k > 1))
  <2> HIDE DEF k, n
  <2> QED BY <1>1
<1> QED BY <1>2, <1>3, <1>4, <1>5

(* nn_priolist_rm takes the pipe out, if it is active.                     *)
LEMMA RmOK ==
  ASSUME SLOTS \in Nat, NEW S, NoPipe \notin S, NEW pl, ListOK(pl, S),
         NEW prio \in Prio, NEW p
  PROVE  LET q == nn_priolist_rm(pl, p, prio)
         IN  /\ ListOK(q, S)
             /\ \A j \in Prio : Elements(q.pipes[j])
                  = IF j = prio THEN Elements(pl.pipes[j]) \ {p}
                                ELSE Elements(pl.pipes[j])
<1> DEFINE a == pl.pipes[prio]
           s == Without(a, p)
           t == IF pl.turn[prio] = p THEN Following(a, p, TRUE)
                                     ELSE pl.turn[prio]
           u == [pl.pipes EXCEPT ![prio] = s]
           v == [pl.turn EXCEPT ![prio] = t]
           c == IF pl.turn[prio] = p /\ pl.current = prio
                  THEN FirstFrom(u, prio) ELSE pl.current
           q == nn_priolist_rm(pl, p, prio)
<1>1. CASE ~IsActive(pl, p, prio)
  <2>1. q = pl /\ p \notin Elements(a)
    BY <1>1 DEF nn_priolist_rm, IsActive
  <2> QED BY <2>1
<1>2. CASE IsActive(pl, p, prio)
  <2>1. /\ a \in Seq(S) /\ pl.pipes \in [Prio -> Seq(S)]
        /\ DOMAIN pl.turn = Prio /\ Once(a) /\ p \in Elements(a)
        /\ Prio = 1 .. SLOTS /\ prio \in Nat
    BY <1>2 DEF ListOK, PrioListOK, IsActive, Once, Prio
  <2>2. q = [pipes |-> u, turn |-> v, current |-> c]
    BY <1>2, <2>1 DEF nn_priolist_rm
  <2>3. a # << >> /\ pl.turn[prio] \in Elements(a)
    <3>1. a # << >>
      BY <2>1, PlaceFacts
    <3> QED BY <3>1 DEF ListOK, PrioListOK
  <2>4. /\ s \in Seq(S) /\ Once(s) /\ Elements(s) = Elements(a) \ {p}
        /\ s = << >> <=> Len(a) = 1
    BY <2>1, WithoutFacts
  <2>5. \A y \in Elements(a) : y \in S /\ y # NoPipe
    BY <2>1, LenProperties, ElementOfSeq DEF Elements
  <2>6. (s = << >> <=> t = NoPipe) /\ (s # << >> => t \in Elements(s))
    <3> HIDE DEF s
    <3>1. CASE pl.turn[prio] = p
      <4>1. t = Following(a, p, TRUE)
        BY <3>1
      <4> HIDE DEF t, a
      <4> QED BY <2>1, <2>4, <2>5, <4>1, FollowingFacts
    <3>2. CASE pl.turn[prio] # p
      <4>1. t = pl.turn[prio] /\ t \in Elements(s) /\ t # NoPipe
        BY <2>3, <2>4, <2>5, <3>2
      <4>2. s # << >>
        <5>1. Elements(<< >>) = {}
          BY DEF Elements
        <5> QED BY <4>1, <5>1
      <4> QED BY <4>1, <4>2
    <3> QED BY <3>1, <3>2
  <2>7. u[prio] = s /\ \A j \in Prio : j # prio => u[j] = pl.pipes[j]
    BY <2>1
  <2>8. /\ pl.current \in Prio /\ pl.pipes[pl.current] # << >>
        /\ \A j \in 1 .. SLOTS : pl.pipes[j] # << >> => pl.current <= j
    <3>1. pl.current = FirstFrom(pl.pipes, 1)
      BY DEF ListOK, PrioListOK
    <3> QED BY <2>1, <2>3, <3>1, FirstFromFacts
  <2> HIDE DEF a, s, t, u
  <2>9. c = FirstFrom(u, 1)
    <3>1. CASE pl.turn[prio] = p /\ pl.current = prio
      <4>1. ASSUME NEW j \in Prio, j < prio PROVE u[j] = << >>
        <5>1. j # prio /\ j \in 1 .. SLOTS /\ ~(prio <= j)
          BY <2>1, <4>1
        <5> QED BY <2>7, <2>8, <3>1, <5>1
      <4> QED BY <3>1, <4>1, FirstSame
    <3>2. CASE ~(pl.turn[prio] = p /\ pl.current = prio)
      <4>1. c = pl.current
        BY <3>2
      <4>2. u[pl.current] # << >>
        <5>1. CASE pl.current # prio
          BY <2>7, <2>8, <5>1
        <5>2. CASE pl.current = prio
          <6>1. pl.turn[prio] \in Elements(s)
            BY <2>3, <2>4, <3>2, <5>2
          <6> QED BY <2>7, <5>2, <6>1 DEF Elements
        <5> QED BY <5>1, <5>2
      <4>3. \A j \in 1 .. SLOTS : u[j] # << >> => pl.current <= j
        BY <2>1, <2>3, <2>7, <2>8 DEF a
      <4> QED BY <2>1, <2>8, <4>1, <4>2, <4>3, FirstIs
    <3> QED BY <3>1, <3>2
  <2> HIDE DEF c, v
  <2>10. ListOK(q, S)
    <3>1. ListOK([pipes |-> [pl.pipes EXCEPT ![prio] = s],
                  turn |-> [pl.turn EXCEPT ![prio] = t], current |-> c], S)
      BY <2>4, <2>6, <2>9, OneListOK DEF u
    <3> QED BY <2>2, <3>1 DEF u, v
  <2>11. q.pipes = u
    BY <2>2
  <2>12. \A j \in Prio : Elements(q.pipes[j])
           = IF j = prio THEN Elements(pl.pipes[j]) \ {p}
                         ELSE Elements(pl.pipes[j])
    BY <2>4, <2>7, <2>11 DEF a
  <2> QED BY <2>10, <2>12
<1> QED BY <1>1, <1>2

(* nn_priolist_advance passes the turn on; a pipe that is released leaves. *)
LEMMA AdvanceOK ==
  ASSUME SLOTS \in Nat, NEW S, NoPipe \notin S, NEW pl, ListOK(pl, S),
         nn_priolist_is_active(pl), NEW release \in BOOLEAN
  PROVE  LET q == nn_priolist_advance(pl, release)
         IN  /\ ListOK(q, S)
             /\ \A j \in Prio : Elements(q.pipes[j])
                  = IF release /\ j = pl.current
                    THEN Elements(pl.pipes[j]) \ {pl.turn[pl.current]}
                    ELSE Elements(pl.pipes[j])
<1> DEFINE i == pl.current
           p == pl.turn[i]
           a == pl.pipes[i]
           s == IF release THEN Without(a, p) ELSE a
           t == Following(a, p, release)
           u == [pl.pipes EXCEPT ![i] = s]
           v == [pl.turn EXCEPT ![i] = t]
           c == FirstFrom(u, i)
           q == nn_priolist_advance(pl, release)
<1>1. /\ i \in Prio /\ a # << >> /\ p \in Elements(a)
      /\ \A j \in Prio : j < i => pl.pipes[j] = << >>
  BY TurnOK
<1>2. /\ a \in Seq(S) /\ pl.pipes \in [Prio -> Seq(S)]
      /\ DOMAIN pl.turn = Prio /\ Once(a) /\ Prio = 1 .. SLOTS
  BY <1>1 DEF ListOK, PrioListOK, Once, Prio
<1>3. u[i] = s /\ \A j \in Prio : j # i => u[j] = pl.pipes[j]
  BY <1>1, <1>2
<1>4. q = [pipes |-> u, turn |-> v, current |-> c]
  <2>1. ~release => u = pl.pipes
    BY <1>2
  <2>2. CASE release
    BY <2>2 DEF nn_priolist_advance
  <2>3. CASE ~release
    <3>1. q = [pipes |-> pl.pipes, turn |-> v,
               current |-> FirstFrom(pl.pipes, i)]
      BY <2>3 DEF nn_priolist_advance
    <3> HIDE DEF q, u, v
    <3> QED BY <2>1, <2>3, <3>1
  <2> QED BY <2>2, <2>3
<1>5. \A y \in Elements(a) : y \in S /\ y # NoPipe
  BY <1>2, LenProperties, ElementOfSeq DEF Elements
<1>6. /\ s \in Seq(S) /\ Once(s)
      /\ Elements(s) = IF release THEN Elements(a) \ {p} ELSE Elements(a)
      /\ (s = << >> <=> t = NoPipe) /\ (s # << >> => t \in Elements(s))
  <2> HIDE DEF a, p
  <2>1. CASE release
    <3>1. s = Without(a, p) /\ t = Following(a, p, TRUE)
      BY <2>1
    <3> HIDE DEF s, t
    <3>2. /\ s \in Seq(S) /\ Once(s) /\ Elements(s) = Elements(a) \ {p}
          /\ s = << >> <=> Len(a) = 1
      BY <1>1, <1>2, <3>1, WithoutFacts
    <3> QED BY <1>1, <1>2, <1>5, <2>1, <3>1, <3>2, FollowingFacts
  <2>2. CASE ~release
    <3>1. s = a /\ t = Following(a, p, FALSE)
      BY <2>2
    <3> HIDE DEF s, t
    <3> QED BY <1>1, <1>2, <1>5, <2>2, <3>1, FollowingFacts
  <2> QED BY <2>1, <2>2
<1> HIDE DEF s, t
<1>7. c = FirstFrom(u, 1)
  <2>1. \A j \in Prio : j < i => u[j] = << >>
    <3>1. \A j \in Prio : j < i => j # i
      BY <1>1, <1>2
    <3> QED BY <1>1, <1>3, <3>1
  <2> HIDE DEF u
  <2> QED BY <1>1, <2>1, FirstSame
<1> HIDE DEF c, v, u
<1>8. ListOK(q, S)
  <2>1. ListOK([pipes |-> [pl.pipes EXCEPT ![i] = s],
                turn |-> [pl.turn EXCEPT ![i] = t], current |-> c], S)
    BY <1>1, <1>6, <1>7, OneListOK DEF u
  <2> QED BY <1>4, <2>1 DEF u, v
<1>9. q.pipes = u
  BY <1>4
<1>10. \A j \in Prio : Elements(q.pipes[j])
         = IF release /\ j = i THEN Elements(pl.pipes[j]) \ {p}
                               ELSE Elements(pl.pipes[j])
  BY <1>3, <1>6, <1>9
<1> QED BY <1>8, <1>10

(* What is in a list is a pipe of the socket.                              *)
LEMMA MemberOf ==
  ASSUME NEW S, NEW pl, ListOK(pl, S), NEW i \in Prio,
         NEW x \in Elements(pl.pipes[i])
  PROVE  x \in S
<1>1. pl.pipes[i] \in Seq(S)
  BY DEF ListOK
<1>2. PICK k \in DOMAIN pl.pipes[i] : pl.pipes[i][k] = x
  BY DEF Elements
<1>3. QED
  BY <1>1, <1>2, ElementOfSeq, LenProperties

=============================================================================
