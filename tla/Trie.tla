-------------------------------- MODULE Trie --------------------------------
(***************************************************************************)
(* The subscriptions of a SUB socket of nanomsg: trie.c, under the options *)
(* NN_SUB_SUBSCRIBE and NN_SUB_UNSUBSCRIBE of xsub.c.                      *)
(*                                                                         *)
(* A node stands for a string: the characters on the way to it and its own *)
(* prefix.  The trie maps these strings to the nodes, and a node holds the *)
(* length of its prefix, its reference count and the form of its table of  *)
(* children: sparse, or dense from min to max with NULL pointers between.  *)
(* The order of the children in a sparse table is left out.                *)
(***************************************************************************)
EXTENDS Naturals, Sequences, FiniteSets

CONSTANTS
  Topic,       \* strings, as sequences of characters, with their prefixes
  PREFIX_MAX,  \* NN_TRIE_PREFIX_MAX, at least 1
  SPARSE_MAX,  \* NN_TRIE_SPARSE_MAX, at least 2
  MaxSubs      \* bound on the subscriptions at a time

VARIABLES
  trie,
  aborted,  \* the process has crashed
  subs,     \* history: how often the user is subscribed to each string
  lost,     \* history: the strings subscribed to that lost a count when a
            \* table changed its form or another string was unsubscribed
  stray     \* history: a string that has no count was unsubscribed

vars == <<trie, aborted, subs, lost, stray>>

Least(S) == CHOOSE x \in S : \A y \in S : x <= y
Most(S) == CHOOSE x \in S : \A y \in S : x >= y
Longest(S) == CHOOSE s \in S : \A r \in S : Len(r) <= Len(s)

Prefix(s, d) == Len(s) <= Len(d) /\ s = SubSeq(d, 1, Len(s))

EmptyTrie == [n \in {} |-> {}]

Node(len) == [len |-> len, ref |-> 0, dense |-> FALSE, min |-> 0, max |-> 0,
              nbr |-> 0]

(* The trie t with the nodes of u in place of its own.                     *)
With(t, u) == [n \in DOMAIN t \cup DOMAIN u |->
                 IF n \in DOMAIN u THEN u[n] ELSE t[n]]

Less(t, S) == [n \in DOMAIN t \ S |-> t[n]]

Start(t, n) == Len(n) - t[n].len

Kids(t, n) == {m \in DOMAIN t : Prefix(n, m) /\ Start(t, m) = Len(n) + 1}
KidChars(t, n) == {m[Len(n) + 1] : m \in Kids(t, n)}

nn_node_has_subscribers(t, n) == t[n].ref > 0

(* nn_node_next: no pointer, a NULL pointer in a dense table, or a node.   *)
nn_node_next(t, n, c) ==
  CASE c \in KidChars(t, n)                      -> "node"
    [] t[n].dense /\ c \in t[n].min .. t[n].max  -> "NULL"
    [] OTHER                                     -> "none"

(* How much of d the node n matches (nn_node_check_prefix).                *)
nn_node_check_prefix(n, d) ==
  Most({k \in 0 .. Len(n) : k <= Len(d) /\ SubSeq(n, 1, k) = SubSeq(d, 1, k)})

(* Where the way of d through the trie ends: the last node whose pointer   *)
(* it follows.                                                             *)
Reached(t, d) ==
  Longest({n \in DOMAIN t : Start(t, n) <= Len(d)
                            /\ Prefix(SubSeq(n, 1, Start(t, n)), d)})

(* A variant with a slip: the character of the child is not counted.       *)
nn_node_compactShort(t, n) ==
  IF nn_node_has_subscribers(t, n) \/ t[n].dense
       \/ Cardinality(Kids(t, n)) # 1
    THEN t
    ELSE LET m == CHOOSE k \in Kids(t, n) : TRUE
             len == t[n].len + t[m].len IN
         IF len > PREFIX_MAX THEN t
         ELSE Less([t EXCEPT ![m].len = len], {n})

(* A node with a single child and no subscription is merged with it when   *)
(* the prefixes fit into one node.                                         *)
nn_node_compact(t, n) ==
  IF nn_node_has_subscribers(t, n) \/ t[n].dense
       \/ Cardinality(Kids(t, n)) # 1
    THEN t
    ELSE LET m == CHOOSE k \in Kids(t, n) : TRUE
             len == t[n].len + t[m].len + 1 IN
         IF len > PREFIX_MAX THEN t
         ELSE Less([t EXCEPT ![m].len = len], {n})

-----------------------------------------------------------------------------
(* Subscribing                                                             *)

(* Step 2: the node n is split after k characters of its string.           *)
Split(t, n, k) ==
  LET u == With([t EXCEPT ![n].len = Len(n) - k - 1],
                [m \in {SubSeq(n, 1, k)} |-> Node(k - Start(t, n))])
  IN  nn_node_compact(u, n)

(* Step 3: room for the character c in the table of n.  When the table     *)
(* becomes a dense one, the new node starts with the count 0.              *)
Adjust(t, n, c) ==
  LET cs == KidChars(t, n) \cup {c} IN
  CASE t[n].dense ->
         [t EXCEPT ![n].min = Least({@, c}), ![n].max = Most({@, c}),
                   ![n].nbr = @ + 1]
    [] ~t[n].dense /\ Cardinality(cs) <= SPARSE_MAX -> t
    [] OTHER ->
         [t EXCEPT ![n] = [Node(@.len) EXCEPT
            !.dense = TRUE, !.min = Least(cs), !.max = Most(cs),
            !.nbr = SPARSE_MAX + 1]]

(* Step 4: nodes for the rest of d, whose first p characters have been     *)
(* used; all but the last one are full.                                    *)
Chain(d, p) ==
  LET k == (Len(d) - p) \div (PREFIX_MAX + 1)
      full == {SubSeq(d, 1, p + i * (PREFIX_MAX + 1) + PREFIX_MAX) :
                 i \in 0 .. k - 1} IN
  [n \in full \cup {d} |->
     Node(IF n = d THEN Len(d) - p - k * (PREFIX_MAX + 1) ELSE PREFIX_MAX)]

Grow(t, n, d) ==
  IF Len(d) = Len(n) THEN t
  ELSE With(Adjust(t, n, d[Len(n) + 1]), Chain(d, Len(n) + 1))

(* Step 1 decides which of the others are needed; step 5 counts.           *)
nn_trie_subscribe(t, d) ==
  LET n == Reached(t, d)
      k == nn_node_check_prefix(n, d)
      u == CASE DOMAIN t = {} -> Chain(d, 0)
             [] DOMAIN t # {} /\ k < Len(n) ->
                  Grow(Split(t, n, k), SubSeq(n, 1, k), d)
             [] OTHER -> Grow(t, n, d)
  IN  [u EXCEPT ![d].ref = @ + 1]

(* The nodes whose table of children changed its form, the count being     *)
(* left behind.                                                            *)
Uncounted(t, u) ==
  {n \in DOMAIN t \cap DOMAIN u : t[n].dense # u[n].dense /\ t[n].ref > 0}

Subscribe(d) ==
  /\ ~aborted
  /\ Cardinality({w \in Topic \X (1 .. MaxSubs) : w[2] <= subs[w[1]]})
       < MaxSubs
  /\ trie' = nn_trie_subscribe(trie, d)
  /\ subs' = [subs EXCEPT ![d] = @ + 1]
  /\ lost' = lost \cup Uncounted(trie, trie')
  /\ UNCHANGED <<aborted, stray>>

-----------------------------------------------------------------------------
(* Unsubscribing                                                           *)

(* A child of n is gone: the table loses the character c.  A dense table   *)
(* is trimmed at its ends, or becomes sparse again with the count 0.       *)
Prune(t, n, c) ==
  CASE ~t[n].dense -> nn_node_compact(t, n)
    [] t[n].dense /\ t[n].nbr > SPARSE_MAX + 1 ->
         [t EXCEPT ![n].nbr = @ - 1,
                   ![n].min = IF c = @ THEN Least(KidChars(t, n)) ELSE @,
                   ![n].max = IF c = @ /\ c # t[n].min
                                THEN Most(KidChars(t, n)) ELSE @]
    [] OTHER -> [t EXCEPT ![n] = Node(@.len)]

(* The last subscription of the leaf n is gone: it is freed, and so are    *)
(* the nodes above it that neither count nor have another child.           *)
Free(t, n) ==
  LET above == {m \in DOMAIN t : Prefix(m, n) /\ m # n}
      stay == {m \in above : nn_node_has_subscribers(t, m) \/ t[m].dense
                             \/ Cardinality(Kids(t, m)) > 1} IN
  IF stay = {} THEN Less(t, above \cup {n})
  ELSE LET m == Longest(stay) IN
       Prune(Less(t, {n} \cup {k \in above : Len(k) > Len(m)}), m,
             n[Len(m) + 1])

(* The label found of nn_node_unsubscribe.                                 *)
Found(t, n) ==
  IF t[n].ref > 1 THEN [t EXCEPT ![n].ref = @ - 1]
  ELSE LET u == [t EXCEPT ![n].ref = 0] IN
       IF Kids(t, n) = {} /\ ~t[n].dense THEN Free(u, n)
                                         ELSE nn_node_compact(u, n)

(* The node is found when no data are left on the way into it, whatever    *)
(* its prefix is, or none after its prefix.                                *)
IsFound(t, d) ==
  DOMAIN t # {} /\ (Start(t, Reached(t, d)) = Len(d) \/ Reached(t, d) = d)

(* The way of d ends at a NULL pointer in the table of this node.          *)
AtNULL(t, d) ==
  LET n == Reached(t, d) IN
  /\ DOMAIN t # {} /\ ~IsFound(t, d) /\ Prefix(n, d)
  /\ nn_node_next(t, n, d[Len(n) + 1]) = "NULL"

(* Without a subscription nothing changes (-EINVAL); a NULL pointer that   *)
(* no data follow still takes the character out of the table.              *)
nn_trie_unsubscribe(t, d) ==
  LET n == Reached(t, d) IN
  CASE IsFound(t, d) /\ nn_node_has_subscribers(t, n) -> Found(t, n)
    [] AtNULL(t, d) /\ Len(d) = Len(n) + 1 -> Prune(t, n, d[Len(d)])
    [] OTHER -> t

(* nn_node_check_prefix is called with a NULL pointer.                     *)
Dereferences(t, d) ==
  IF DOMAIN t = {} THEN d # << >>
                   ELSE AtNULL(t, d) /\ Len(d) > Len(Reached(t, d)) + 1

(* The assertion on the children of a table that becomes sparse fails.     *)
Overfull(t, u) ==
  \E n \in DOMAIN t \cap DOMAIN u :
    t[n].dense /\ ~u[n].dense /\ Cardinality(Kids(u, n)) # SPARSE_MAX

Crashes(t, d) == Dereferences(t, d) \/ Overfull(t, nn_trie_unsubscribe(t, d))

Count(t, d) == IF d \in DOMAIN t THEN t[d].ref ELSE 0

(* The count of another string is taken for that of d.                     *)
Mistaken(t, d) ==
  {n \in DOMAIN t : IsFound(t, d) /\ n = Reached(t, d) /\ n # d
                      /\ nn_node_has_subscribers(t, n)}

(* The user may unsubscribe any string, at any time.                       *)
Unsubscribe(d) ==
  /\ ~aborted /\ ~Crashes(trie, d)
  /\ trie' = nn_trie_unsubscribe(trie, d)
  /\ subs' = [subs EXCEPT ![d] = IF @ > 0 THEN @ - 1 ELSE 0]
  /\ lost' = {x \in lost \cup Uncounted(trie, trie') \cup Mistaken(trie, d) :
               subs'[x] > 0}
  /\ stray' = (stray \/ Count(trie, d) = 0)
  /\ UNCHANGED aborted

UnsubscribeCrash(d) ==
  /\ ~aborted /\ Crashes(trie, d)
  /\ aborted' = TRUE
  /\ stray' = (stray \/ Count(trie, d) = 0)
  /\ UNCHANGED <<trie, subs, lost>>

-----------------------------------------------------------------------------
(* nn_trie_match, the results it may give: the first counting node on the  *)
(* way decides.  When the way ends at a node without a subscription, the   *)
(* byte behind the data is read, and what is there is anything.            *)
nn_trie_match(t, d) ==
  LET way == {n \in DOMAIN t : Prefix(n, d)} IN
  IF \E n \in way : nn_node_has_subscribers(t, n) THEN {TRUE}
  ELSE IF d \in way /\ \E m \in DOMAIN t : Prefix(d, m) /\ t[m].ref > 0
         THEN BOOLEAN
         ELSE {FALSE}

Init ==
  /\ trie = EmptyTrie /\ aborted = FALSE
  /\ subs = [d \in Topic |-> 0]
  /\ lost = {} /\ stray = FALSE

Next ==
  \E d \in Topic : Subscribe(d) \/ Unsubscribe(d) \/ UnsubscribeCrash(d)

Spec == Init /\ [][Next]_vars

-----------------------------------------------------------------------------
Subscribed == {d \in Topic : subs[d] > 0}

(* Through splitting, merging and the changes of form of tables, the trie  *)
(* counts every subscription that has not lost its count (lost), and never *)
(* one the user does not have; no leaf is kept without a subscription.  A  *)
(* dense table knows how many children it has, and no call crashes, while  *)
(* only strings that have a count are unsubscribed.                        *)
CountsRight ==
  /\ \A d \in Topic : Count(trie, d) <= subs[d]
  /\ \A d \in Topic \ lost : Count(trie, d) = subs[d]
  /\ \A n \in DOMAIN trie :
       /\ n \in Topic \/ ~nn_node_has_subscribers(trie, n)
       /\ Kids(trie, n) = {} => nn_node_has_subscribers(trie, n)
       /\ ~stray /\ trie[n].dense => trie[n].nbr = Cardinality(Kids(trie, n))
  /\ aborted => stray

(* A message that begins with a subscription that has its count is         *)
(* delivered.  One that begins with no subscription is not delivered,      *)
(* except by chance where some subscription begins with the message: then  *)
(* what lies behind the message may be read as its next byte.              *)
MatchRight ==
  \A d \in Topic :
    LET results == nn_trie_match(trie, d) IN
    /\ (\E s \in Subscribed \ lost : Prefix(s, d)) => results = {TRUE}
    /\ (~\E s \in Subscribed : Prefix(s, d)) =>
         \/ results = {FALSE}
         \/ results = BOOLEAN /\ \E s \in Subscribed : Prefix(d, s)

=============================================================================
