------------------------------- MODULE Chunks -------------------------------
(***************************************************************************)
(* The memory of messages (utils/chunk.c, chunkref.c, msg.c): chunks with  *)
(* a count of the references to them, as PUB and REQ sockets hold them.    *)
(* A place is the application, the request that REQ keeps for resending,   *)
(* or outmsg of a pipe; it refers to a chunk, or has its message, which is *)
(* small, in itself.                                                       *)
(***************************************************************************)
EXTENDS Naturals, FiniteSetsExt

CONSTANTS
  Chunk,     \* the chunks that can be allocated
  Pipe,
  MaxStep    \* bound on the messages of the application

VARIABLES
  mem,       \* the count of each chunk that is allocated, bad
  at,        \* what each place refers to
  steps

vars == <<mem, at, steps>>

Small == "small"    \* a message within its chunkref
None == "none"      \* an empty message, within its chunkref as well
Place == {"app", "request"} \cup Pipe

Init ==
  /\ mem = [refs |-> [c \in {} |-> 0], bad |-> FALSE]
  /\ at = [p \in Place |-> None]
  /\ steps = 0

-----------------------------------------------------------------------------
(* chunk.c; nn_chunk_getptr checks the tag of the chunk.                   *)

Drop(m, c) == [m EXCEPT !.refs = [d \in DOMAIN m.refs \ {c} |-> m.refs[d]]]

nn_chunk_getptr(m, c, n) ==
  IF c \in DOMAIN m.refs THEN n ELSE [m EXCEPT !.bad = TRUE]

nn_chunk_alloc(m, c) ==
  [m EXCEPT !.refs = [d \in DOMAIN m.refs \cup {c} |->
                        IF d = c THEN 1 ELSE m.refs[d]]]

nn_chunk_free(m, c) ==
  nn_chunk_getptr(m, c, IF m.refs[c] <= 1 THEN Drop(m, c)
                        ELSE [m EXCEPT !.refs[c] = @ - 1])

nn_chunk_addref(m, c, n) ==
  nn_chunk_getptr(m, c, [m EXCEPT !.refs[c] = @ + n])

-----------------------------------------------------------------------------
(* chunkref.c                                                              *)

IsChunk(r) == r \notin {Small, None}

nn_chunkref_term(m, r) == IF IsChunk(r) THEN nn_chunk_free(m, r) ELSE m

nn_chunkref_cp(m, r) == IF IsChunk(r) THEN nn_chunk_addref(m, r, 1) ELSE m

(* All the references of nn_chunkref_bulkcopy_cp are counted at once.      *)
nn_chunkref_bulkcopy_start(m, r, copies) ==
  IF IsChunk(r) THEN nn_chunk_addref(m, r, copies) ELSE m

-----------------------------------------------------------------------------
(* Messages                                                                *)

Step == ~mem.bad /\ steps < MaxStep /\ steps' = steps + 1

(* nn_allocmsg, or a message that was received; with a chunk or small.     *)
nn_allocmsg(c) ==
  /\ Step /\ at["app"] = None /\ c \notin DOMAIN mem.refs
  /\ mem' = IF IsChunk(c) THEN nn_chunk_alloc(mem, c) ELSE mem
  /\ at' = [at EXCEPT !["app"] = c]

nn_freemsg ==
  /\ Step /\ at["app"] # None
  /\ mem' = nn_chunkref_term(mem, at["app"])
  /\ at' = [at EXCEPT !["app"] = None]

(* nn_dist_send to the pipes that are ready, one of them perhaps excluded: *)
(* it gets no copy, but one was counted for it.                            *)
nn_dist_send(ready, exclude) ==
  LET r == at["app"]
      copied == nn_chunkref_bulkcopy_start(mem, r, Cardinality(ready))
      dropped == IF exclude \in ready THEN nn_chunkref_term(copied, r)
                 ELSE copied IN
  /\ Step /\ r # None
  /\ \A p \in ready : at[p] = None
  /\ mem' = IF ready = {} THEN nn_chunkref_term(mem, r)
            ELSE nn_chunkref_term(dropped, r)
  /\ at' = [p \in Place |-> CASE p = "app" -> None
                              [] p \in ready \ {exclude} -> r
                              [] OTHER -> at[p]]

(* nn_req_csend: the last request is freed, the new one is kept.           *)
nn_req_csend ==
  /\ Step /\ at["app"] # None
  /\ mem' = nn_chunkref_term(mem, at["request"])
  /\ at' = [at EXCEPT !["request"] = at["app"], !["app"] = None]

(* nn_req_action_send: a copy is sent, or freed when no pipe is ready.     *)
nn_req_action_send(p) ==
  LET r == at["request"]
      m == nn_chunkref_cp(mem, r) IN
  /\ Step /\ r # None
  /\ IF at[p] = None THEN mem' = m /\ at' = [at EXCEPT ![p] = r]
     ELSE mem' = nn_chunkref_term(m, r) /\ UNCHANGED at

(* The message was written, or the pipe is closed.                         *)
Sent(p) ==
  /\ ~mem.bad /\ at[p] # None
  /\ mem' = nn_chunkref_term(mem, at[p])
  /\ at' = [at EXCEPT ![p] = None]
  /\ UNCHANGED steps

Next ==
  \/ \E c \in Chunk \cup {Small} : nn_allocmsg(c)
  \/ nn_freemsg \/ nn_req_csend
  \/ \E ready \in SUBSET Pipe, p \in Pipe : nn_dist_send(ready, p)
  \/ \E p \in Pipe : nn_req_action_send(p) \/ Sent(p)

-----------------------------------------------------------------------------
(* The count of a chunk is the number of places that refer to it: a chunk  *)
(* is freed with its last reference, not earlier and not never, and none   *)
(* is used after it was freed.                                             *)
RefsRight ==
  /\ ~mem.bad
  /\ \A c \in Chunk :
       LET refs == Cardinality({p \in Place : at[p] = c}) IN
       IF c \in DOMAIN mem.refs THEN mem.refs[c] = refs /\ refs > 0
                                ELSE refs = 0

=============================================================================
