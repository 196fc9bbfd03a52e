------------------------------ MODULE PrioList ------------------------------
(***************************************************************************)
(* nn_priolist of nanomsg: the active pipes of a socket by priority, under *)
(* the load balancer (lb.c) and the fair queue (fq.c).  Each priority has  *)
(* a list of pipes and a pointer to the one whose turn it is; current is   *)
(* the best priority that has a pipe, or -1.                               *)
(***************************************************************************)
EXTENDS Integers, Sequences

CONSTANTS
  SLOTS,    \* NN_PRIOLIST_SLOTS
  NoPipe    \* a NULL pointer

Prio == 1 .. SLOTS

EmptyList == [pipes |-> [i \in Prio |-> << >>],
              turn |-> [i \in Prio |-> NoPipe],
              current |-> -1]

Elements(s) == {s[i] : i \in DOMAIN s}

(* The place of pipe p in list s.                                          *)
Place(s, p) == CHOOSE i \in DOMAIN s : s[i] = p

Without(s, p) ==
  LET k == Place(s, p) IN SubSeq(s, 1, k - 1) \o SubSeq(s, k + 1, Len(s))

(* nn_list_next, or nn_list_erase, with the wrap-over to the beginning;    *)
(* NULL when no other pipe is left.                                        *)
Following(s, p, erased) ==
  LET k == Place(s, p) IN
  CASE k < Len(s)               -> s[k + 1]
    [] k = Len(s) /\ (k > 1 \/ ~erased) -> s[1]
    [] OTHER                    -> NoPipe

(* From priority i on, the first with a pipe; -1 when all are empty.       *)
FirstFrom(pipes, i) ==
  LET some == {j \in i .. SLOTS : pipes[j] # << >>} IN
  IF some = {} THEN -1 ELSE CHOOSE j \in some : \A k \in some : j <= k

nn_priolist_is_active(pl) == pl.current # -1

nn_priolist_getpipe(pl) ==
  IF pl.current = -1 THEN NoPipe ELSE pl.turn[pl.current]

IsActive(pl, p, prio) == p \in Elements(pl.pipes[prio])

nn_priolist_activate(pl, p, prio) ==
  [pipes |-> [pl.pipes EXCEPT ![prio] = Append(@, p)],
   turn |-> [pl.turn EXCEPT ![prio] =
               IF pl.pipes[prio] = << >> THEN p ELSE @],
   current |-> IF pl.current = -1 \/ pl.current > prio THEN prio
                                                       ELSE pl.current]

nn_priolist_rm(pl, p, prio) ==
  IF ~IsActive(pl, p, prio) THEN pl
  ELSE LET pipes == [pl.pipes EXCEPT ![prio] = Without(@, p)] IN
       [pipes |-> pipes,
        turn |-> [pl.turn EXCEPT ![prio] =
                    IF @ = p THEN Following(pl.pipes[prio], p, TRUE) ELSE @],
        current |-> IF pl.turn[prio] = p /\ pl.current = prio
                      THEN FirstFrom(pipes, prio)
                      ELSE pl.current]

(* A variant with a slip: the turn does not pass to the next pipe.         *)
nn_priolist_advanceStuck(pl, release) ==
  LET i == pl.current
      p == pl.turn[i]
      pipes == IF release THEN [pl.pipes EXCEPT ![i] = Without(@, p)]
                          ELSE pl.pipes IN
  [pipes |-> pipes,
   turn |-> IF release
              THEN [pl.turn EXCEPT ![i] = Following(pl.pipes[i], p, TRUE)]
              ELSE pl.turn,
   current |-> FirstFrom(pipes, i)]

(* After a message: the turn passes to the next pipe of the priority; a    *)
(* pipe that cannot take more leaves the list.                             *)
nn_priolist_advance(pl, release) ==
  LET i == pl.current
      p == pl.turn[i]
      pipes == IF release THEN [pl.pipes EXCEPT ![i] = Without(@, p)]
                          ELSE pl.pipes IN
  [pipes |-> pipes,
   turn |-> [pl.turn EXCEPT ![i] = Following(pl.pipes[i], p, release)],
   current |-> FirstFrom(pipes, i)]

(* The lists and their pointers agree: the turn of a priority is one of    *)
(* its pipes, and current is the best priority with a pipe.                *)
PrioListOK(pl) ==
  /\ pl.current = FirstFrom(pl.pipes, 1)
  /\ \A i \in Prio :
       /\ (pl.pipes[i] = << >>) = (pl.turn[i] = NoPipe)
       /\ pl.pipes[i] # << >> => pl.turn[i] \in Elements(pl.pipes[i])
       /\ \A j, k \in DOMAIN pl.pipes[i] :
            pl.pipes[i][j] = pl.pipes[i][k] => j = k

=============================================================================
