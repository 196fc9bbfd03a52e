------------------------- MODULE ApplicationsProofs -------------------------
(***************************************************************************)
(* Proofs about the programs of TaskSystem, for any number of clients,     *)
(* stations, requests, rows and buckets.                                   *)
(***************************************************************************)
EXTENDS MCApplications, FiniteSetTheorems, SequenceTheorems,
        WellFoundedInduction, TLAPS

(* A non-empty set of natural numbers has a smallest element, which is     *)
(* what the searches through a table return.                               *)
LEMMA Smallest ==
  ASSUME NEW T \in SUBSET Nat, T # {}
  PROVE  \E x \in T : \A y \in T : x <= y
<1>1. PICK x \in T : \A y \in T : ~(<<y, x>> \in OpToRel(<, Nat))
  BY NatLessThanWellFounded, WFMin, Zenon
<1>2. \A y \in T : ~(y < x)
  BY <1>1 DEF OpToRel
<1> QED BY <1>2

(* A queue is empty once its only message is taken.                        *)
LEMMA LastTaken ==
  ASSUME NEW T, NEW s \in Seq(T), Len(s) = 1
  PROVE  Tail(s) = << >>
<1>1. s # << >>
  BY EmptySeq
<1>2. Tail(s) \in Seq(T) /\ Len(Tail(s)) = 0
  BY <1>1, HeadTailProperties
<1> QED BY <1>2, EmptySeq

-----------------------------------------------------------------------------
(* The database: types                                                     *)

Codes == {"OK", "ERROR"}
Source == Client \X Nat
ClientID == 2 .. Cardinality(Client) + 1
RequestMsg == [kind : D!Kind, id : Nat, sender : ClientID, from : Source]
ResponseMsg == [code : Codes, answers : Source]
ServerPlace == {"off", "set_name", "while", "receive", "send", "done", "ended"}
ClientPlace == {"off", "get_id", "for", "receive", "done", "undefined"}
Running == {"get_id", "for", "receive", "done", "undefined"}

DbType ==
  db \in [pc : ServerPlace, id : {0, 1}, count : Nat, students : Seq(Int),
          code : Codes, requester : {0} \cup ClientID,
          answers : {<< >>} \cup Source]

ClType ==
  cl \in [Client -> [pc : ClientPlace, id : {0} \cup ClientID,
                     db : {-1, 0, 1}, i : Nat, kind : D!Kind,
                     mapped : BOOLEAN, got : {<< >>} \cup ResponseMsg]]

QueueType ==
  /\ queue \in [D!ID -> Seq(RequestMsg \cup ResponseMsg)]
  /\ queue[1] \in Seq(RequestMsg)
  /\ \A n \in ClientID : queue[n] \in Seq(ResponseMsg)

(* Queue 1 is the server's, the others belong to clients; the places say   *)
(* which fields have been set.                                             *)
DTypes ==
  /\ nextTaskID \in Nat /\ linked \in BOOLEAN /\ task_name \subseteq {1}
  /\ crashes \in Nat
  /\ log \in Seq([kind : D!Kind, id : Nat, code : Codes])
  /\ DbType /\ ClType /\ QueueType
  /\ linked => nextTaskID >= 2
  /\ db.pc # "off" => db.id = 1
  /\ db.pc = "send" => db.requester \in ClientID /\ db.answers \in Source
  /\ \A c \in Client :
       /\ cl[c].pc # "off" => cl[c].id \in ClientID
       /\ cl[c].pc \in {"for", "receive", "done", "undefined"}
            => cl[c].db \in {-1, 1}

-----------------------------------------------------------------------------
(* The database: who waits for what, until the server crashes              *)

(* Client c waits and the request or response r is about its last request. *)
Waiting(c) == cl[c].pc = "receive"
Asked(c) == <<c, cl[c].i>>

(* IDs are given out in turn, above that of the server.                    *)
Turn ==
  /\ db.pc = "off" => ~linked /\ \A c \in Client : cl[c].pc = "off"
  /\ \A c \in Client : cl[c].pc # "off" => cl[c].id < nextTaskID
  /\ \A c, d \in Client :
       c # d /\ cl[c].pc # "off" /\ cl[d].pc # "off" => cl[c].id # cl[d].id

(* A request in the queue of the server is the last one of a client that   *)
(* waits, and nothing else about it is under way.                          *)
RequestsPending ==
  /\ \A j \in 1 .. Len(queue[1]) :
       \E c \in Client :
         /\ Waiting(c)
         /\ queue[1][j].sender = cl[c].id /\ queue[1][j].from = Asked(c)
         /\ queue[cl[c].id] = << >>
         /\ db.pc = "send" => db.requester # cl[c].id
  /\ \A j, k \in 1 .. Len(queue[1]) :
       j # k => queue[1][j].sender # queue[1][k].sender

(* So is the response the server is about to send.                         *)
ResponsePending ==
  db.pc = "send" =>
    \E c \in Client :
      /\ Waiting(c) /\ db.requester = cl[c].id /\ db.answers = Asked(c)
      /\ queue[cl[c].id] = << >>

(* A client that runs has at most the response to its last request.        *)
ResponsesOwn ==
  \A c \in Client : cl[c].pc # "off" =>
    \/ queue[cl[c].id] = << >>
    \/ /\ Waiting(c) /\ Len(queue[cl[c].id]) = 1
       /\ queue[cl[c].id][1].answers = Asked(c)

GotOwn ==
  \A c \in Client :
    cl[c].i > 0 => cl[c].got \in ResponseMsg /\
                   cl[c].got.answers = <<c, cl[c].i - 1>>

Exchange ==
  Turn /\ RequestsPending /\ ResponsePending /\ ResponsesOwn /\ GotOwn

-----------------------------------------------------------------------------
(* The database: proofs of the types                                       *)

(* The numbers of the queues.                                              *)
LEMMA IDFacts ==
  /\ Cardinality(Client) \in Nat
  /\ 1 \in D!ID /\ 1 \notin ClientID
  /\ \A n \in ClientID : n \in D!ID /\ n \in Nat /\ n # 1 /\ n # 0 /\ n >= 2
  /\ \A n \in D!ID : n = 1 \/ n \in ClientID
  /\ \A n \in D!ID : n >= 2 => n \in ClientID
<1>1. Cardinality(Client) \in Nat
  BY DatabaseAssumption, FS_CardinalityType
<1>2. D!ID = 1 .. Cardinality(Client) + 1
  BY Zenon DEF D!ID, D!Cardinality, Cardinality
<1>3. \A n : n \in ClientID
              <=> n \in Int /\ 2 <= n /\ n <= Cardinality(Client) + 1
  BY <1>1 DEF ClientID
<1>4. \A n : n \in D!ID <=> n \in Int /\ 1 <= n /\ n <= Cardinality(Client) + 1
  BY <1>1, <1>2
<1> QED BY <1>1, <1>3, <1>4

(* The fields of the two records.                                          *)
LEMMA Fields ==
  ASSUME DTypes
  PROVE  /\ db.pc \in ServerPlace /\ db.id \in {0, 1} /\ db.count \in Nat
         /\ db.students \in Seq(Int) /\ db.code \in Codes
         /\ \A c \in Client :
              /\ cl[c].pc \in ClientPlace /\ cl[c].i \in Nat
              /\ cl[c].kind \in D!Kind /\ cl[c].mapped \in BOOLEAN
              /\ cl[c].id \in {0} \cup ClientID /\ cl[c].db \in {-1, 0, 1}
BY DEF DTypes, DbType, ClType

(* The table has no row 0, so that the search can return one.              *)
LEMMA FoundFacts ==
  ASSUME DTypes, NEW id
  PROVE  LET rows == {i \in DOMAIN db.students : db.students[i] = id}
         IN  /\ rows = {} => D!Found(id) = -1
             /\ rows # {} => D!Found(id) \in rows
             /\ rows \subseteq 1 .. Len(db.students)
             /\ D!Found(id) > 0 <=> rows # {}
<1> DEFINE rows == {i \in DOMAIN db.students : db.students[i] = id}
<1>1. /\ db.students \in Seq(Int) /\ Len(db.students) \in Nat
      /\ DOMAIN db.students = 1 .. Len(db.students)
  BY Fields
<1>2. rows \subseteq 1 .. Len(db.students) /\ rows \in SUBSET Nat
  BY <1>1
<1>3. rows # {} => \E x \in rows : \A y \in rows : x <= y
  BY <1>2, Smallest
<1>4. D!Found(id) = IF rows = {} THEN -1
                    ELSE CHOOSE i \in rows : \A j \in rows : i <= j
  BY DEF D!Found
<1>5. rows # {} => D!Found(id) \in rows
  BY <1>3, <1>4
<1>6. rows = {} => D!Found(id) = -1
  BY <1>4
<1>7. rows # {} => D!Found(id) > 0
  BY <1>1, <1>2, <1>5
<1> QED BY <1>2, <1>5, <1>6, <1>7

(* A request changes the table by a row.                                   *)
LEMMA StudentsType ==
  ASSUME DTypes, NEW req \in RequestMsg
  PROVE  D!Students(req) \in Seq(Int) /\ D!Code(req) \in Codes
<1>1. /\ db.students \in Seq(Int) /\ req.id \in Int /\ req.kind \in D!Kind
  BY Fields DEF RequestMsg
<1>2. D!Code(req) \in Codes
  BY <1>1 DEF D!Code, D!Kind, Codes
<1>3. CASE req.kind = "insert" /\ Len(db.students) < MAX_STUDENT
  <2>1. D!Students(req) = Append(db.students, req.id)
    BY <1>3 DEF D!Students
  <2> QED BY <1>1, <1>2, <2>1
<1>4. CASE req.kind = "delete" /\ D!Found(req.id) > 0
  <2>1. D!Students(req) = [db.students EXCEPT ![D!Found(req.id)] = -1]
    BY <1>4 DEF D!Students
  <2>2. db.students \in [1 .. Len(db.students) -> Int] /\ -1 \in Int
    BY <1>1
  <2>3. D!Students(req) \in [1 .. Len(db.students) -> Int]
    BY <2>1, <2>2
  <2> QED BY <1>1, <1>2, <2>3
<1>5. CASE /\ ~(req.kind = "insert" /\ Len(db.students) < MAX_STUDENT)
           /\ ~(req.kind = "delete" /\ D!Found(req.id) > 0)
  <2>1. D!Students(req) = db.students
    BY <1>5 DEF D!Students
  <2> QED BY <1>1, <1>2, <2>1
<1> QED BY <1>3, <1>4, <1>5

(* Initially.                                                              *)
LEMMA DTypesInit == D!Init => DTypes
<1> SUFFICES ASSUME D!Init PROVE DTypes
  OBVIOUS
<1>1. DbType
  BY DEF D!Init, DbType, ServerPlace, Codes
<1>2. ClType
  <2>1. PICK kind \in [Client -> D!Kind] :
          cl = [c \in Client |-> [pc |-> "off", id |-> 0, db |-> 0, i |-> 0,
                                  kind |-> kind[c], mapped |-> FALSE,
                                  got |-> << >>]]
    BY DEF D!Init
  <2> QED BY <2>1 DEF ClType, ClientPlace
<1>3. \A c \in Client : cl[c].pc = "off"
  BY DEF D!Init
<1>4. QueueType
  BY IDFacts DEF D!Init, QueueType
<1>5. log \in Seq([kind : D!Kind, id : Nat, code : Codes])
  BY DEF D!Init
<1> QED BY <1>1, <1>2, <1>3, <1>4, <1>5 DEF D!Init, DTypes

(* The steps of the server.                                                *)
LEMMA DTypesServer ==
  ASSUME DTypes, D!ServerStart \/ D!Server \/ D!ServerCrash
  PROVE  DTypes'
<1> USE IDFacts DEF DTypes
<1>1. CASE D!ServerStart
  <2>1. DbType'
    BY <1>1 DEF D!ServerStart, DbType, ServerPlace, Codes
  <2>2. QueueType'
    BY <1>1 DEF D!ServerStart, QueueType
  <2> QED BY <1>1, <2>1, <2>2 DEF D!ServerStart, ClType
<1>2. CASE D!repository_set_name
  <2>1. DbType' /\ db'.id = db.id /\ db'.pc = "while"
    BY <1>2 DEF D!repository_set_name, DbType, ServerPlace
  <2> QED BY <1>2, <2>1 DEF D!repository_set_name, QueueType, ClType
<1>3. CASE D!While
  <2>1. DbType' /\ db'.id = db.id /\ db'.pc \in {"receive", "done"}
    <3>1. db.count + 1 \in Nat
      BY Fields
    <3> QED BY <1>3, <3>1 DEF D!While, DbType, ServerPlace
  <2> QED BY <1>3, <2>1 DEF D!While, QueueType, ClType
<1>4. CASE D!Handle
  <2> DEFINE req == Head(queue[1])
  <2>1. db.pc = "receive" /\ db.id = 1 /\ queue[1] # << >>
    BY <1>4 DEF D!Handle
  <2>2. req \in RequestMsg /\ Tail(queue[1]) \in Seq(RequestMsg)
    BY <2>1 DEF QueueType
  <2>3. /\ queue' = [queue EXCEPT ![1] = Tail(@)]
        /\ db' = [db EXCEPT !.pc = "send", !.requester = req.sender,
                            !.students = D!Students(req),
                            !.code = D!Code(req), !.answers = req.from]
        /\ log' = Append(log, [kind |-> req.kind, id |-> req.id,
                               code |-> D!Code(req)])
        /\ UNCHANGED <<nextTaskID, task_name, linked, cl, crashes>>
    BY <1>4, <2>1 DEF D!Handle
  <2>4. D!Students(req) \in Seq(Int) /\ D!Code(req) \in Codes
    BY <2>2, StudentsType
  <2>5. /\ req.sender \in ClientID /\ req.from \in Source
        /\ req.kind \in D!Kind /\ req.id \in Nat
    BY <2>2 DEF RequestMsg
  <2> HIDE DEF req
  <2>6. DbType' /\ db'.id = 1 /\ db'.requester = req.sender
        /\ db'.answers = req.from
    BY <2>1, <2>3, <2>4, <2>5 DEF DbType, ServerPlace
  <2>7. QueueType'
    BY <2>2, <2>3 DEF QueueType
  <2>8. log' \in Seq([kind : D!Kind, id : Nat, code : Codes])
    BY <2>3, <2>4, <2>5
  <2> QED BY <2>3, <2>5, <2>6, <2>7, <2>8 DEF ClType
<1>5. CASE D!SendResponse
  <2> DEFINE r == [code |-> db.code, answers |-> db.answers]
  <2>1. /\ db.requester \in ClientID /\ db.id = 1
        /\ queue' = [queue EXCEPT ![db.requester] = Append(@, r)]
        /\ db' = [db EXCEPT !.pc = "while"]
        /\ UNCHANGED <<nextTaskID, task_name, linked, cl, log, crashes>>
    BY <1>5 DEF D!SendResponse
  <2>2. r \in ResponseMsg
    BY <1>5, Fields DEF D!SendResponse, ResponseMsg
  <2> HIDE DEF r
  <2>3. DbType' /\ db'.id = 1 /\ db'.pc = "while"
    BY <2>1 DEF DbType, ServerPlace
  <2>4. QueueType'
    BY <2>1, <2>2 DEF QueueType
  <2> QED BY <2>1, <2>3, <2>4 DEF ClType
<1>6. CASE D!ServerEnd
  <2>1. DbType' /\ db'.id = db.id /\ db'.pc = "ended"
    BY <1>6 DEF D!ServerEnd, DbType, ServerPlace
  <2> QED BY <1>6, <2>1 DEF D!ServerEnd, QueueType, ClType
<1>7. CASE D!ServerCrash
  <2>1. DbType' /\ db'.pc = "off"
    BY <1>7 DEF D!ServerCrash, DbType, ServerPlace
  <2> QED BY <1>7, <2>1 DEF D!ServerCrash, QueueType, ClType
<1> QED BY <1>1, <1>2, <1>3, <1>4, <1>5, <1>6, <1>7 DEF D!Server

(* repository_get_id returns the ID of the server or -1.                   *)
LEMMA GetIdType ==
  ASSUME DTypes
  PROVE  D!repository_get_id \in {-1, 1}
<1>1. task_name = {} \/ task_name = {1}
  BY DEF DTypes
<1> QED BY <1>1 DEF D!repository_get_id

(* The steps of a client.                                                  *)
LEMMA DTypesClient ==
  ASSUME DTypes, NEW c \in Client, D!ClientStart(c) \/ D!ClientStep(c)
  PROVE  DTypes'
<1> USE IDFacts DEF DTypes
<1>0. /\ cl[c] \in [pc : ClientPlace, id : {0} \cup ClientID,
                    db : {-1, 0, 1}, i : Nat, kind : D!Kind,
                    mapped : BOOLEAN, got : {<< >>} \cup ResponseMsg]
      /\ cl \in [Client -> [pc : ClientPlace, id : {0} \cup ClientID,
                    db : {-1, 0, 1}, i : Nat, kind : D!Kind,
                    mapped : BOOLEAN, got : {<< >>} \cup ResponseMsg]]
  BY DEF ClType
<1>1. CASE D!ClientStart(c)
  <2>1. nextTaskID \in ClientID
    BY <1>1 DEF D!ClientStart
  <2>2. /\ cl' = [cl EXCEPT ![c] = [cl[c] EXCEPT !.pc = "get_id",
                                                !.id = nextTaskID]]
        /\ queue' = [queue EXCEPT ![nextTaskID] = << >>]
        /\ nextTaskID' = nextTaskID + 1
        /\ UNCHANGED <<task_name, linked, db, log, crashes>>
    BY <1>1 DEF D!ClientStart, D!Step
  <2>3. ClType'
    BY <1>0, <2>1, <2>2 DEF ClType, ClientPlace
  <2>4. QueueType'
    BY <2>1, <2>2 DEF QueueType
  <2>5. \A d \in Client : d # c => cl'[d] = cl[d]
    BY <1>0, <2>2
  <2>6. cl'[c].pc = "get_id" /\ cl'[c].id = nextTaskID
    BY <1>0, <2>2
  <2> QED BY <2>1, <2>2, <2>3, <2>4, <2>5, <2>6 DEF DbType
<1>2. CASE D!Lookup(c)
  <2>1. /\ cl' = [cl EXCEPT ![c] = [cl[c] EXCEPT !.pc = "for",
                                       !.db = D!repository_get_id]]
        /\ UNCHANGED <<nextTaskID, task_name, linked, queue, db, log, crashes>>
        /\ cl[c].pc = "get_id"
    BY <1>2 DEF D!Lookup, D!Step
  <2>2. D!repository_get_id \in {-1, 1}
    BY GetIdType
  <2>3. ClType'
    BY <1>0, <2>1, <2>2 DEF ClType, ClientPlace
  <2>4. \A d \in Client : d # c => cl'[d] = cl[d]
    BY <1>0, <2>1
  <2>5. cl'[c].db = D!repository_get_id /\ cl'[c].id = cl[c].id
        /\ cl'[c].pc = "for"
    BY <1>0, <2>1
  <2> QED BY <2>1, <2>2, <2>3, <2>4, <2>5 DEF DbType, QueueType
<1>3. CASE D!SendRequest(c)
  <2> DEFINE ok == linked \/ cl[c].mapped
             r == D!Request(c)
  <2>1. /\ cl[c].pc = "for" /\ cl[c].db = 1
        /\ queue' = [queue EXCEPT ![1] = IF ok THEN Append(@, r) ELSE @]
        /\ cl' = [cl EXCEPT ![c] = [cl[c] EXCEPT !.pc = "receive",
                                                !.mapped = ok]]
        /\ UNCHANGED <<nextTaskID, task_name, linked, db, log, crashes>>
    BY <1>3 DEF D!SendRequest, D!Step
  <2>2. r \in RequestMsg
    BY <1>0, <2>1 DEF D!Request, RequestMsg, Source
  <2>3. ok \in BOOLEAN
    BY <1>0
  <2> HIDE DEF r, ok
  <2>4. ClType'
    BY <1>0, <2>1, <2>3 DEF ClType, ClientPlace
  <2>5. QueueType'
    BY <2>1, <2>2 DEF QueueType
  <2>6. \A d \in Client : d # c => cl'[d] = cl[d]
    BY <1>0, <2>1
  <2>7. /\ cl'[c].db = cl[c].db /\ cl'[c].id = cl[c].id
        /\ cl'[c].pc = "receive"
    BY <1>0, <2>1
  <2> QED BY <2>1, <2>4, <2>5, <2>6, <2>7 DEF DbType
<1>4. CASE D!SendNowhere(c)
  <2>1. /\ cl[c].pc = "for"
        /\ cl' = [cl EXCEPT ![c] = [cl[c] EXCEPT !.pc = "undefined"]]
        /\ UNCHANGED <<nextTaskID, task_name, linked, queue, db, log, crashes>>
    BY <1>4 DEF D!SendNowhere, D!Step
  <2>2. ClType'
    BY <1>0, <2>1 DEF ClType, ClientPlace
  <2>3. \A d \in Client : d # c => cl'[d] = cl[d]
    BY <1>0, <2>1
  <2>4. cl'[c].db = cl[c].db /\ cl'[c].id = cl[c].id
    BY <1>0, <2>1
  <2> QED BY <2>1, <2>2, <2>3, <2>4 DEF DbType, QueueType
<1>5. CASE D!ReceiveResponse(c)
  <2> DEFINE n == cl[c].id
             h == Head(queue[n])
  <2>1. /\ cl[c].pc = "receive" /\ queue[n] # << >> /\ n \in ClientID
        /\ queue' = [queue EXCEPT ![n] = Tail(@)]
        /\ cl' = [cl EXCEPT ![c] = [cl[c] EXCEPT !.pc = "for", !.i = @ + 1,
                                                !.got = h]]
        /\ UNCHANGED <<nextTaskID, task_name, linked, db, log, crashes>>
    BY <1>5 DEF D!ReceiveResponse, D!Step
  <2>2. h \in ResponseMsg /\ Tail(queue[n]) \in Seq(ResponseMsg)
    BY <2>1 DEF QueueType
  <2>3. cl[c].i + 1 \in Nat
    BY <1>0
  <2> HIDE DEF h
  <2>4. ClType'
    BY <1>0, <2>1, <2>2, <2>3 DEF ClType, ClientPlace
  <2>5. QueueType'
    BY <2>1, <2>2 DEF QueueType
  <2>6. \A d \in Client : d # c => cl'[d] = cl[d]
    BY <1>0, <2>1
  <2>7. cl'[c].db = cl[c].db /\ cl'[c].id = cl[c].id
    BY <1>0, <2>1
  <2> QED BY <2>1, <2>4, <2>5, <2>6, <2>7 DEF DbType
<1>6. CASE D!ClientDone(c)
  <2>1. /\ cl[c].pc = "for"
        /\ cl' = [cl EXCEPT ![c] = [cl[c] EXCEPT !.pc = "done"]]
        /\ UNCHANGED <<nextTaskID, task_name, linked, queue, db, log, crashes>>
    BY <1>6 DEF D!ClientDone, D!Step
  <2>2. ClType'
    BY <1>0, <2>1 DEF ClType, ClientPlace
  <2>3. \A d \in Client : d # c => cl'[d] = cl[d]
    BY <1>0, <2>1
  <2>4. cl'[c].db = cl[c].db /\ cl'[c].id = cl[c].id
    BY <1>0, <2>1
  <2> QED BY <2>1, <2>2, <2>3, <2>4 DEF DbType, QueueType
<1> QED BY <1>1, <1>2, <1>3, <1>4, <1>5, <1>6 DEF D!ClientStep

(* Every step keeps the types.                                             *)
LEMMA DTypesNext ==
  ASSUME DTypes, [D!Next]_(D!vars)
  PROVE  DTypes'
<1>1. CASE UNCHANGED D!vars
  BY <1>1 DEF D!vars, DTypes, DbType, ClType, QueueType
<1> QED BY <1>1, DTypesServer, DTypesClient DEF D!Next

-----------------------------------------------------------------------------
(* The database: each client gets its own answers                          *)

(* A server step that handles no message.                                  *)
LEMMA ExchangeQuiet ==
  ASSUME DTypes, Exchange,
         D!repository_set_name \/ D!While \/ D!ServerEnd
  PROVE  Exchange'
<1>1. /\ UNCHANGED <<queue, cl, nextTaskID>>
      /\ db.pc # "off" /\ db'.pc # "off" /\ db'.pc # "send"
  BY DEF D!repository_set_name, D!While, D!ServerEnd, DTypes, DbType
<1> QED BY <1>1 DEF Exchange, Turn, RequestsPending, ResponsePending,
                    ResponsesOwn, GotOwn, Waiting, Asked

(* The first start of the server meets no client.                          *)
LEMMA ExchangeStart ==
  ASSUME DTypes, Exchange, D!ServerStart
  PROVE  Exchange'
<1>1. \A c \in Client : cl[c].pc = "off"
  BY DEF D!ServerStart, Exchange, Turn
<1>2. /\ cl' = cl /\ queue'[1] = << >> /\ db'.pc = "set_name"
  BY IDFacts DEF D!ServerStart, DTypes, QueueType
<1>3. Turn' /\ ResponsePending' /\ ResponsesOwn' /\ GotOwn'
  BY <1>1, <1>2 DEF Exchange, Turn, ResponsePending, ResponsesOwn, GotOwn
<1>4. RequestsPending'
  BY <1>2 DEF RequestsPending
<1> QED BY <1>3, <1>4 DEF Exchange

(* handle_RequestMsg takes the oldest request.                             *)
LEMMA ExchangeHandle ==
  ASSUME DTypes, Exchange, D!Handle
  PROVE  Exchange'
<1> DEFINE req == Head(queue[1])
<1>1. /\ db.pc = "receive" /\ queue[1] # << >>
      /\ queue[1] \in Seq(RequestMsg) /\ queue \in [D!ID -> Seq(RequestMsg
                                                          \cup ResponseMsg)]
      /\ queue' = [queue EXCEPT ![1] = Tail(@)]
      /\ UNCHANGED <<nextTaskID, linked, cl>>
      /\ db'.pc = "send" /\ db'.requester = req.sender
      /\ db'.answers = req.from
  BY DEF D!Handle, DTypes, DbType, QueueType
<1>2. /\ Len(queue[1]) \in Nat /\ 1 \in 1 .. Len(queue[1])
      /\ req = queue[1][1] /\ Len(queue'[1]) = Len(queue[1]) - 1
      /\ \A j \in 1 .. Len(queue'[1]) :
           j + 1 \in 1 .. Len(queue[1]) /\ queue'[1][j] = queue[1][j + 1]
                                       /\ j + 1 # 1
  BY <1>1, IDFacts
<1> HIDE DEF req
<1>3. \A c \in Client : cl[c].pc # "off" => queue'[cl[c].id] = queue[cl[c].id]
  BY <1>1, IDFacts DEF DTypes
<1>4. PICK c0 \in Client :
        /\ Waiting(c0) /\ req.sender = cl[c0].id /\ req.from = Asked(c0)
        /\ queue[cl[c0].id] = << >>
  BY <1>2 DEF Exchange, RequestsPending
<1>5. ResponsePending'
  BY <1>1, <1>3, <1>4 DEF ResponsePending, Waiting, Asked
<1>6. RequestsPending'
  <2>1. ASSUME NEW j \in 1 .. Len(queue'[1])
        PROVE  \E c \in Client :
                 /\ Waiting(c)'
                 /\ queue'[1][j].sender = cl'[c].id
                 /\ queue'[1][j].from = Asked(c)'
                 /\ queue'[cl'[c].id] = << >>
                 /\ db'.pc = "send" => db'.requester # cl'[c].id
    <3>1. PICK c \in Client :
            /\ Waiting(c) /\ queue[1][j + 1].sender = cl[c].id
            /\ queue[1][j + 1].from = Asked(c) /\ queue[cl[c].id] = << >>
      BY <1>2 DEF Exchange, RequestsPending
    <3>2. queue[1][j + 1].sender # req.sender
      BY <1>2 DEF Exchange, RequestsPending
    <3> QED BY <1>1, <1>2, <1>3, <3>1, <3>2 DEF Waiting, Asked
  <2>2. ASSUME NEW j \in 1 .. Len(queue'[1]), NEW k \in 1 .. Len(queue'[1]),
               j # k
        PROVE  queue'[1][j].sender # queue'[1][k].sender
    <3>1. j + 1 # k + 1
      BY <2>2
    <3> QED BY <1>2, <3>1 DEF Exchange, RequestsPending
  <2> QED BY <2>1, <2>2 DEF RequestsPending
<1>7. Turn' /\ GotOwn'
  BY <1>1 DEF Exchange, Turn, GotOwn
<1>8. ResponsesOwn'
  <2> SUFFICES ASSUME NEW c \in Client, cl[c].pc # "off"
               PROVE  \/ queue'[cl[c].id] = << >>
                      \/ /\ Waiting(c) /\ Len(queue'[cl[c].id]) = 1
                         /\ queue'[cl[c].id][1].answers = Asked(c)
    BY <1>1 DEF ResponsesOwn, Waiting, Asked
  <2>1. queue'[cl[c].id] = queue[cl[c].id]
    BY <1>3
  <2> QED BY <2>1 DEF Exchange, ResponsesOwn
<1> QED BY <1>5, <1>6, <1>7, <1>8 DEF Exchange

(* The response goes to the client whose request was handled.              *)
LEMMA ExchangeResponse ==
  ASSUME DTypes, Exchange, D!SendResponse
  PROVE  Exchange'
<1> DEFINE r == [code |-> db.code, answers |-> db.answers]
<1>1. /\ db.pc = "send" /\ db.requester \in ClientID
      /\ queue' = [queue EXCEPT ![db.requester] = Append(@, r)]
      /\ queue \in [D!ID -> Seq(RequestMsg \cup ResponseMsg)]
      /\ db'.pc = "while" /\ UNCHANGED <<nextTaskID, linked, cl>>
  BY DEF D!SendResponse, DTypes, DbType, QueueType
<1>2. queue'[1] = queue[1]
  BY <1>1, IDFacts
<1>3. PICK c0 \in Client :
        /\ Waiting(c0) /\ db.requester = cl[c0].id /\ db.answers = Asked(c0)
        /\ queue[cl[c0].id] = << >>
  BY <1>1 DEF Exchange, ResponsePending
<1>4. /\ queue'[cl[c0].id] = << r >>
      /\ r.answers = Asked(c0)
  BY <1>1, <1>3, IDFacts
<1>5. \A n \in D!ID : n # db.requester => queue'[n] = queue[n]
  BY <1>1
<1>6. \A c \in Client : cl[c].pc # "off" => cl[c].id \in D!ID
  BY IDFacts DEF DTypes
<1>7. RequestsPending'
  <2>1. ASSUME NEW j \in 1 .. Len(queue[1])
        PROVE  \E c \in Client :
                 /\ Waiting(c) /\ queue[1][j].sender = cl[c].id
                 /\ queue[1][j].from = Asked(c)
                 /\ queue'[cl[c].id] = << >>
    <3>1. PICK c \in Client :
            /\ Waiting(c) /\ queue[1][j].sender = cl[c].id
            /\ queue[1][j].from = Asked(c) /\ queue[cl[c].id] = << >>
            /\ db.requester # cl[c].id
      BY <1>1 DEF Exchange, RequestsPending
    <3> QED BY <1>5, <1>6, <3>1 DEF Waiting
  <2>2. \A j, k \in 1 .. Len(queue[1]) :
          j # k => queue[1][j].sender # queue[1][k].sender
    BY DEF Exchange, RequestsPending
  <2>3. ~(db'.pc = "send") /\ cl' = cl
    BY <1>1
  <2> HIDE DEF r
  <2> QED BY <1>2, <2>1, <2>2, <2>3 DEF RequestsPending, Waiting, Asked
<1>8. ResponsesOwn'
  <2> SUFFICES ASSUME NEW c \in Client, cl[c].pc # "off"
               PROVE  \/ queue'[cl[c].id] = << >>
                      \/ /\ Waiting(c) /\ Len(queue'[cl[c].id]) = 1
                         /\ queue'[cl[c].id][1].answers = Asked(c)
    BY <1>1 DEF ResponsesOwn, Waiting, Asked
  <2>1. CASE c = c0
    <3> HIDE DEF r
    <3>1. Len(<< r >>) = 1 /\ << r >>[1] = r
      OBVIOUS
    <3> QED BY <1>3, <1>4, <2>1, <3>1
  <2>2. CASE c # c0
    <3>1. cl[c].id # cl[c0].id
      BY <1>3, <2>2 DEF Exchange, Turn, Waiting
    <3> QED BY <1>3, <1>5, <1>6, <3>1 DEF Exchange, ResponsesOwn
  <2> QED BY <2>1, <2>2
<1>9. Turn' /\ GotOwn' /\ ResponsePending'
  BY <1>1 DEF Exchange, Turn, GotOwn, ResponsePending
<1> QED BY <1>7, <1>8, <1>9 DEF Exchange

(* A client starts with an ID and a queue of its own.                      *)
LEMMA ExchangeClientStart ==
  ASSUME DTypes, Exchange, NEW c \in Client, D!ClientStart(c)
  PROVE  Exchange'
<1>1. /\ cl[c].pc = "off" /\ linked /\ nextTaskID \in ClientID
      /\ nextTaskID' = nextTaskID + 1
      /\ queue' = [queue EXCEPT ![nextTaskID] = << >>]
      /\ queue \in [D!ID -> Seq(RequestMsg \cup ResponseMsg)]
      /\ UNCHANGED <<linked, db>>
  BY IDFacts DEF D!ClientStart, DTypes, QueueType
<1>2. /\ cl'[c].pc = "get_id" /\ cl'[c].id = nextTaskID
      /\ cl'[c].i = cl[c].i /\ cl'[c].got = cl[c].got
      /\ \A d \in Client : d # c => cl'[d] = cl[d]
  BY DEF D!ClientStart, D!Step, DTypes, ClType
<1>3. /\ queue'[1] = queue[1] /\ queue'[nextTaskID] = << >>
      /\ \A n \in D!ID : n # nextTaskID => queue'[n] = queue[n]
  BY <1>1, IDFacts
<1>4. \A d \in Client : cl[d].pc # "off" =>
        /\ d # c /\ cl'[d] = cl[d] /\ cl[d].id # nextTaskID
        /\ cl[d].id \in D!ID /\ queue'[cl[d].id] = queue[cl[d].id]
  <2> SUFFICES ASSUME NEW d \in Client, cl[d].pc # "off"
               PROVE  /\ d # c /\ cl'[d] = cl[d] /\ cl[d].id # nextTaskID
                      /\ cl[d].id \in D!ID
                      /\ queue'[cl[d].id] = queue[cl[d].id]
    OBVIOUS
  <2>1. cl[d].id \in ClientID /\ cl[d].id < nextTaskID
    BY DEF Exchange, Turn, DTypes
  <2>2. cl[d].id \in Nat /\ nextTaskID \in Nat /\ cl[d].id \in D!ID
    BY <1>1, <2>1, IDFacts
  <2>3. cl[d].id # nextTaskID
    BY <2>1, <2>2
  <2> QED BY <1>1, <1>2, <1>3, <2>2, <2>3
<1>5. RequestsPending'
  <2>1. ASSUME NEW j \in 1 .. Len(queue'[1])
        PROVE  \E d \in Client :
                 /\ Waiting(d)' /\ queue'[1][j].sender = cl'[d].id
                 /\ queue'[1][j].from = Asked(d)'
                 /\ queue'[cl'[d].id] = << >>
                 /\ db'.pc = "send" => db'.requester # cl'[d].id
    <3>1. PICK d \in Client :
            /\ Waiting(d) /\ queue[1][j].sender = cl[d].id
            /\ queue[1][j].from = Asked(d) /\ queue[cl[d].id] = << >>
            /\ db.pc = "send" => db.requester # cl[d].id
      BY <1>3 DEF Exchange, RequestsPending
    <3> QED BY <1>1, <1>3, <1>4, <3>1 DEF Waiting, Asked
  <2>2. \A j, k \in 1 .. Len(queue'[1]) :
          j # k => queue'[1][j].sender # queue'[1][k].sender
    BY <1>3 DEF Exchange, RequestsPending
  <2> QED BY <2>1, <2>2 DEF RequestsPending
<1>6. ResponsePending'
  <2> SUFFICES ASSUME db.pc = "send" PROVE ResponsePending'
    BY <1>1 DEF ResponsePending
  <2>1. PICK d \in Client :
          /\ Waiting(d) /\ db.requester = cl[d].id
          /\ db.answers = Asked(d) /\ queue[cl[d].id] = << >>
    BY DEF Exchange, ResponsePending
  <2> QED BY <1>1, <1>4, <2>1 DEF ResponsePending, Waiting, Asked
<1>7. ResponsesOwn'
  <2> SUFFICES ASSUME NEW d \in Client, cl'[d].pc # "off"
               PROVE  \/ queue'[cl'[d].id] = << >>
                      \/ /\ Waiting(d)' /\ Len(queue'[cl'[d].id]) = 1
                         /\ queue'[cl'[d].id][1].answers = Asked(d)'
    BY DEF ResponsesOwn
  <2>1. CASE d = c
    BY <1>2, <1>3, <2>1
  <2>2. CASE d # c
    <3>1. cl'[d] = cl[d] /\ queue'[cl[d].id] = queue[cl[d].id]
      BY <1>2, <1>4, <2>2
    <3> QED BY <3>1 DEF Exchange, ResponsesOwn, Waiting, Asked
  <2> QED BY <2>1, <2>2
<1>8. GotOwn'
  BY <1>2 DEF Exchange, GotOwn
<1>9. Turn'
  <2>1. \A d \in Client : cl'[d].pc # "off" => cl'[d].id < nextTaskID'
    <3> SUFFICES ASSUME NEW d \in Client, cl'[d].pc # "off"
                 PROVE  cl'[d].id < nextTaskID'
      OBVIOUS
    <3>1. nextTaskID \in Nat
      BY <1>1, IDFacts
    <3>2. CASE d = c
      BY <1>1, <1>2, <3>1, <3>2
    <3>3. CASE d # c
      <4>1. cl'[d] = cl[d] /\ cl[d].id \in Nat /\ cl[d].id < nextTaskID
        BY <1>2, <3>3, IDFacts DEF Exchange, Turn, DTypes
      <4> QED BY <1>1, <3>1, <4>1
    <3> QED BY <3>2, <3>3
  <2>2. \A d, e \in Client : d # e /\ cl'[d].pc # "off" /\ cl'[e].pc # "off"
          => cl'[d].id # cl'[e].id
    BY <1>2, <1>4 DEF Exchange, Turn
  <2>3. db'.pc # "off"
    BY <1>1 DEF Exchange, Turn
  <2> QED BY <2>1, <2>2, <2>3 DEF Turn
<1> QED BY <1>5, <1>6, <1>7, <1>8, <1>9 DEF Exchange

(* A step of a client that sends and takes nothing.                        *)
LEMMA ExchangeIdle ==
  ASSUME DTypes, Exchange, NEW c \in Client,
         D!Lookup(c) \/ D!SendNowhere(c) \/ D!ClientDone(c)
  PROVE  Exchange'
<1>1. /\ cl[c].pc \in {"get_id", "for"} /\ cl'[c].pc # "off"
      /\ cl'[c].id = cl[c].id /\ cl'[c].i = cl[c].i
      /\ cl'[c].got = cl[c].got
      /\ \A d \in Client : d # c => cl'[d] = cl[d]
      /\ UNCHANGED <<nextTaskID, linked, queue, db>>
  <2>1. CASE D!Lookup(c)
    BY <2>1 DEF D!Lookup, D!Step, DTypes, ClType
  <2>2. CASE D!SendNowhere(c)
    BY <2>2 DEF D!SendNowhere, D!Step, DTypes, ClType
  <2>3. CASE D!ClientDone(c)
    BY <2>3 DEF D!ClientDone, D!Step, DTypes, ClType
  <2> QED BY <2>1, <2>2, <2>3
<1>2. \A d \in Client : Waiting(d) => d # c /\ cl'[d] = cl[d]
  BY <1>1 DEF Waiting
<1>3. queue[cl[c].id] = << >>
  BY <1>1 DEF Exchange, ResponsesOwn, Waiting
<1>4. RequestsPending'
  <2>1. ASSUME NEW j \in 1 .. Len(queue[1])
        PROVE  \E d \in Client :
                 /\ Waiting(d)' /\ queue[1][j].sender = cl'[d].id
                 /\ queue[1][j].from = Asked(d)'
                 /\ queue[cl'[d].id] = << >>
                 /\ db.pc = "send" => db.requester # cl'[d].id
    <3>1. PICK d \in Client :
            /\ Waiting(d) /\ queue[1][j].sender = cl[d].id
            /\ queue[1][j].from = Asked(d) /\ queue[cl[d].id] = << >>
            /\ db.pc = "send" => db.requester # cl[d].id
      BY DEF Exchange, RequestsPending
    <3> QED BY <1>2, <3>1 DEF Waiting, Asked
  <2>2. \A j, k \in 1 .. Len(queue[1]) :
          j # k => queue[1][j].sender # queue[1][k].sender
    BY DEF Exchange, RequestsPending
  <2> QED BY <1>1, <2>1, <2>2 DEF RequestsPending
<1>5. ResponsePending'
  BY <1>1, <1>2 DEF Exchange, ResponsePending, Waiting, Asked
<1>6. ResponsesOwn'
  BY <1>1, <1>2, <1>3 DEF Exchange, ResponsesOwn, Waiting, Asked
<1>7. GotOwn'
  BY <1>1 DEF Exchange, GotOwn
<1>8. Turn'
  BY <1>1 DEF Exchange, Turn
<1> QED BY <1>4, <1>5, <1>6, <1>7, <1>8 DEF Exchange

(* A client sends its next request once the last one is answered.          *)
LEMMA ExchangeRequest ==
  ASSUME DTypes, Exchange, NEW c \in Client, D!SendRequest(c)
  PROVE  Exchange'
<1> DEFINE r == D!Request(c)
<1>1. /\ cl[c].pc = "for" /\ cl'[c].pc = "receive"
      /\ cl'[c].id = cl[c].id /\ cl'[c].i = cl[c].i
      /\ cl'[c].got = cl[c].got
      /\ \A d \in Client : d # c => cl'[d] = cl[d]
      /\ UNCHANGED <<nextTaskID, linked, db>>
  BY DEF D!SendRequest, D!Step, DTypes, ClType
<1>2. /\ cl[c].db = 1 /\ cl[c].id \in ClientID
      /\ queue[1] \in Seq(RequestMsg)
      /\ queue \in [D!ID -> Seq(RequestMsg \cup ResponseMsg)]
      /\ \/ queue' = [queue EXCEPT ![1] = Append(queue[1], r)]
         \/ queue' = [queue EXCEPT ![1] = queue[1]]
  BY <1>1 DEF D!SendRequest, DTypes, QueueType
<1>3. r.sender = cl[c].id /\ r.from = Asked(c) /\ r \in RequestMsg
  BY <1>2, Fields DEF D!Request, Asked, RequestMsg, Source
<1> HIDE DEF r
<1>4. \A d \in Client : cl[d].pc # "off" =>
        /\ cl'[d].pc # "off" /\ cl'[d].id = cl[d].id /\ cl'[d].i = cl[d].i
        /\ queue'[cl[d].id] = queue[cl[d].id]
  BY <1>1, <1>2, IDFacts DEF DTypes
<1>5. \A d \in Client : Waiting(d) => d # c /\ Waiting(d)'
  BY <1>1 DEF Waiting
<1>6. queue[cl[c].id] = << >> /\ queue'[cl[c].id] = << >>
  BY <1>1, <1>4 DEF Exchange, ResponsesOwn, Waiting
<1>7. \A d \in Client : d # c /\ cl[d].pc # "off" => cl[d].id # cl[c].id
  BY <1>1 DEF Exchange, Turn
<1>8. \/ queue'[1] = queue[1]
      \/ /\ Len(queue'[1]) = Len(queue[1]) + 1
         /\ \A j \in 1 .. Len(queue[1]) : queue'[1][j] = queue[1][j]
         /\ queue'[1][Len(queue[1]) + 1] = r
  <2>1. \/ queue'[1] = queue[1]
        \/ queue'[1] = Append(queue[1], r)
    BY <1>2, IDFacts
  <2>2. /\ Len(Append(queue[1], r)) = Len(queue[1]) + 1
        /\ \A j \in 1 .. Len(queue[1]) : Append(queue[1], r)[j] = queue[1][j]
        /\ Append(queue[1], r)[Len(queue[1]) + 1] = r
    BY <1>2, <1>3
  <2> QED BY <2>1, <2>2
<1>9. Len(queue[1]) \in Nat
  BY <1>2
<1>10. ASSUME NEW j \in 1 .. Len(queue[1])
       PROVE  /\ \E d \in Client :
                   /\ Waiting(d)' /\ queue[1][j].sender = cl'[d].id
                   /\ queue[1][j].from = Asked(d)'
                   /\ queue'[cl'[d].id] = << >>
                   /\ db'.pc = "send" => db'.requester # cl'[d].id
              /\ queue[1][j].sender # cl[c].id
  <2>1. PICK d \in Client :
          /\ Waiting(d) /\ queue[1][j].sender = cl[d].id
          /\ queue[1][j].from = Asked(d) /\ queue[cl[d].id] = << >>
          /\ db.pc = "send" => db.requester # cl[d].id
    BY DEF Exchange, RequestsPending
  <2>2. cl[d].pc # "off" /\ d # c
    BY <1>5, <2>1 DEF Waiting
  <2> QED BY <1>1, <1>4, <1>5, <1>7, <2>1, <2>2 DEF Asked
<1>11. db'.pc = "send" => db'.requester # cl'[c].id
  <2> SUFFICES ASSUME db.pc = "send" PROVE db.requester # cl[c].id
    BY <1>1
  <2>1. PICK d \in Client : Waiting(d) /\ db.requester = cl[d].id
    BY DEF Exchange, ResponsePending
  <2> QED BY <1>5, <1>7, <2>1 DEF Waiting
<1>12. \A j, k \in 1 .. Len(queue[1]) :
         j # k => queue[1][j].sender # queue[1][k].sender
  BY DEF Exchange, RequestsPending
<1>13. RequestsPending'
  <2>1. CASE queue'[1] = queue[1]
    BY <1>10, <1>12, <2>1 DEF RequestsPending
  <2>2. CASE queue'[1] # queue[1]
    <3>1. ASSUME NEW j \in 1 .. Len(queue'[1])
          PROVE  \E d \in Client :
                   /\ Waiting(d)' /\ queue'[1][j].sender = cl'[d].id
                   /\ queue'[1][j].from = Asked(d)'
                   /\ queue'[cl'[d].id] = << >>
                   /\ db'.pc = "send" => db'.requester # cl'[d].id
      <4>1. CASE j \in 1 .. Len(queue[1])
        BY <1>8, <1>10, <2>2, <4>1
      <4>2. CASE j = Len(queue[1]) + 1
        <5>1. queue'[1][j] = r
          BY <1>8, <2>2, <4>2
        <5> QED BY <1>1, <1>3, <1>6, <1>11, <5>1 DEF Waiting, Asked
      <4> QED BY <1>8, <1>9, <2>2, <4>1, <4>2
    <3>2. ASSUME NEW j \in 1 .. Len(queue'[1]),
                 NEW k \in 1 .. Len(queue'[1]), j # k
          PROVE  queue'[1][j].sender # queue'[1][k].sender
      <4>1. /\ j \in 1 .. Len(queue[1]) \/ j = Len(queue[1]) + 1
            /\ k \in 1 .. Len(queue[1]) \/ k = Len(queue[1]) + 1
        BY <1>8, <1>9, <2>2
      <4>2. \A i \in 1 .. Len(queue[1]) :
              queue'[1][i] = queue[1][i] /\ queue[1][i].sender # cl[c].id
        BY <1>8, <1>10, <2>2
      <4>3. queue'[1][Len(queue[1]) + 1].sender = cl[c].id
        BY <1>3, <1>8, <2>2
      <4>4. CASE j \in 1 .. Len(queue[1]) /\ k \in 1 .. Len(queue[1])
        BY <1>12, <3>2, <4>2, <4>4
      <4>5. CASE j \in 1 .. Len(queue[1]) /\ k = Len(queue[1]) + 1
        BY <4>2, <4>3, <4>5
      <4>6. CASE j = Len(queue[1]) + 1 /\ k \in 1 .. Len(queue[1])
        BY <4>2, <4>3, <4>6
      <4> QED BY <3>2, <4>1, <4>4, <4>5, <4>6
    <3> QED BY <3>1, <3>2 DEF RequestsPending
  <2> QED BY <2>1, <2>2
<1>14. ResponsePending'
  <2> SUFFICES ASSUME db.pc = "send" PROVE ResponsePending'
    BY <1>1 DEF ResponsePending
  <2>1. PICK d \in Client :
          /\ Waiting(d) /\ db.requester = cl[d].id
          /\ db.answers = Asked(d) /\ queue[cl[d].id] = << >>
    BY DEF Exchange, ResponsePending
  <2>2. cl[d].pc # "off"
    BY <2>1 DEF Waiting
  <2> QED BY <1>1, <1>4, <1>5, <2>1, <2>2 DEF ResponsePending, Asked
<1>15. ResponsesOwn'
  <2> SUFFICES ASSUME NEW d \in Client, cl'[d].pc # "off"
               PROVE  \/ queue'[cl'[d].id] = << >>
                      \/ /\ Waiting(d)' /\ Len(queue'[cl'[d].id]) = 1
                         /\ queue'[cl'[d].id][1].answers = Asked(d)'
    BY DEF ResponsesOwn
  <2>1. CASE d = c
    BY <1>1, <1>6, <2>1
  <2>2. CASE d # c
    <3>1. cl'[d] = cl[d] /\ queue'[cl[d].id] = queue[cl[d].id]
      BY <1>1, <1>4, <2>2
    <3> QED BY <3>1 DEF Exchange, ResponsesOwn, Waiting, Asked
  <2> QED BY <2>1, <2>2
<1>16. GotOwn'
  BY <1>1 DEF Exchange, GotOwn
<1>17. Turn'
  BY <1>1 DEF Exchange, Turn
<1> QED BY <1>13, <1>14, <1>15, <1>16, <1>17 DEF Exchange

(* A client takes the answer to its last request.                          *)
LEMMA ExchangeReceive ==
  ASSUME DTypes, Exchange, NEW c \in Client, D!ReceiveResponse(c)
  PROVE  Exchange'
<1> DEFINE n == cl[c].id
           h == Head(queue[n])
<1>1. /\ cl[c].pc = "receive" /\ queue[n] # << >> /\ n \in ClientID
      /\ cl'[c].pc = "for" /\ cl'[c].id = n
      /\ cl'[c].i = cl[c].i + 1 /\ cl'[c].got = h
      /\ \A d \in Client : d # c => cl'[d] = cl[d]
      /\ UNCHANGED <<nextTaskID, linked, db>>
      /\ queue' = [queue EXCEPT ![n] = Tail(queue[n])]
      /\ queue[n] \in Seq(ResponseMsg)
      /\ queue \in [D!ID -> Seq(RequestMsg \cup ResponseMsg)]
  BY DEF D!ReceiveResponse, D!Step, DTypes, ClType, QueueType
<1>2. /\ Len(queue[n]) = 1 /\ queue[n][1].answers = Asked(c)
  BY <1>1 DEF Exchange, ResponsesOwn
<1>3. /\ h = queue[n][1] /\ h \in ResponseMsg /\ queue'[n] = << >>
      /\ queue'[1] = queue[1]
      /\ \A m \in D!ID : m # n => queue'[m] = queue[m]
  <2> HIDE DEF n
  <2>1. n \in D!ID /\ 1 \in D!ID /\ n # 1
    BY <1>1, IDFacts
  <2>2. h = queue[n][1] /\ h \in ResponseMsg
    BY <1>1, <1>2
  <2>3. Tail(queue[n]) = << >>
    BY <1>1, <1>2, LastTaken
  <2> QED BY <1>1, <2>1, <2>2, <2>3
<1> HIDE DEF h, n
<1>4. \A d \in Client : d # c /\ cl[d].pc # "off" =>
        /\ cl[d].id # n /\ cl'[d] = cl[d]
        /\ queue'[cl[d].id] = queue[cl[d].id]
  BY <1>1, <1>3, IDFacts DEF Exchange, Turn, DTypes, n
<1>5. RequestsPending'
  <2>1. ASSUME NEW j \in 1 .. Len(queue[1])
        PROVE  \E d \in Client :
                 /\ Waiting(d)' /\ queue[1][j].sender = cl'[d].id
                 /\ queue[1][j].from = Asked(d)'
                 /\ queue'[cl'[d].id] = << >>
                 /\ db'.pc = "send" => db'.requester # cl'[d].id
    <3>1. PICK d \in Client :
            /\ Waiting(d) /\ queue[1][j].sender = cl[d].id
            /\ queue[1][j].from = Asked(d) /\ queue[cl[d].id] = << >>
            /\ db.pc = "send" => db.requester # cl[d].id
      BY DEF Exchange, RequestsPending
    <3>2. d # c /\ cl[d].pc # "off"
      BY <1>1, <3>1 DEF Waiting, n
    <3> QED BY <1>1, <1>4, <3>1, <3>2 DEF Waiting, Asked
  <2>2. \A j, k \in 1 .. Len(queue[1]) :
          j # k => queue[1][j].sender # queue[1][k].sender
    BY DEF Exchange, RequestsPending
  <2> QED BY <1>3, <2>1, <2>2 DEF RequestsPending
<1>6. ResponsePending'
  <2> SUFFICES ASSUME db.pc = "send" PROVE ResponsePending'
    BY <1>1 DEF ResponsePending
  <2>1. PICK d \in Client :
          /\ Waiting(d) /\ db.requester = cl[d].id
          /\ db.answers = Asked(d) /\ queue[cl[d].id] = << >>
    BY DEF Exchange, ResponsePending
  <2>2. d # c /\ cl[d].pc # "off"
    BY <1>1, <2>1 DEF Waiting, n
  <2> QED BY <1>1, <1>4, <2>1, <2>2 DEF ResponsePending, Waiting, Asked
<1>7. ResponsesOwn'
  <2> SUFFICES ASSUME NEW d \in Client, cl'[d].pc # "off"
               PROVE  \/ queue'[cl'[d].id] = << >>
                      \/ /\ Waiting(d)' /\ Len(queue'[cl'[d].id]) = 1
                         /\ queue'[cl'[d].id][1].answers = Asked(d)'
    BY DEF ResponsesOwn
  <2>1. CASE d = c
    BY <1>1, <1>3, <2>1
  <2>2. CASE d # c
    <3>1. cl'[d] = cl[d] /\ queue'[cl[d].id] = queue[cl[d].id]
      BY <1>1, <1>4, <2>2
    <3> QED BY <3>1 DEF Exchange, ResponsesOwn, Waiting, Asked
  <2> QED BY <2>1, <2>2
<1>8. GotOwn'
  <2>1. cl[c].i \in Nat
    BY Fields
  <2>2. cl'[c].got.answers = <<c, cl'[c].i - 1>>
    BY <1>1, <1>2, <1>3, <2>1 DEF Asked
  <2> QED BY <1>1, <1>3, <2>2 DEF Exchange, GotOwn
<1>9. Turn'
  <2>1. \A d \in Client : cl'[d].id = cl[d].id
                          /\ (cl'[d].pc # "off" => cl[d].pc # "off")
    BY <1>1 DEF n
  <2>2. db'.pc # "off"
    BY <1>1 DEF Exchange, Turn
  <2> QED BY <1>1, <2>1, <2>2 DEF Exchange, Turn
<1> QED BY <1>5, <1>6, <1>7, <1>8, <1>9 DEF Exchange

(* Until the server crashes, every step keeps the exchange in order.       *)
LEMMA ExchangeNext ==
  ASSUME DTypes, crashes = 0 => Exchange, [D!Next]_(D!vars)
  PROVE  crashes' = 0 => Exchange'
<1> SUFFICES ASSUME crashes' = 0 PROVE Exchange'
  OBVIOUS
<1>1. CASE UNCHANGED D!vars
  BY <1>1 DEF D!vars, Exchange, Turn, RequestsPending, ResponsePending,
              ResponsesOwn, GotOwn, Waiting, Asked
<1>2. CASE D!ServerCrash
  BY <1>2 DEF D!ServerCrash, DTypes
<1>3. CASE D!ServerStart
  BY <1>3, ExchangeStart DEF D!ServerStart
<1>4. CASE D!Server
  <2>1. crashes = 0
    BY <1>4 DEF D!Server, D!repository_set_name, D!While, D!Handle,
                D!SendResponse, D!ServerEnd
  <2> QED BY <1>4, <2>1, ExchangeQuiet, ExchangeHandle, ExchangeResponse
          DEF D!Server
<1>5. ASSUME NEW c \in Client, D!ClientStart(c) \/ D!ClientStep(c)
      PROVE  Exchange'
  <2>1. crashes = 0
    BY <1>5 DEF D!ClientStart, D!ClientStep, D!Lookup, D!SendRequest,
                D!SendNowhere, D!ReceiveResponse, D!ClientDone
  <2> QED BY <1>5, <2>1, ExchangeClientStart, ExchangeIdle, ExchangeRequest,
             ExchangeReceive DEF D!ClientStep
<1> QED BY <1>1, <1>2, <1>3, <1>4, <1>5 DEF D!Next

(* Initially nobody runs.                                                  *)
LEMMA ExchangeInit == D!Init => Exchange
<1> SUFFICES ASSUME D!Init PROVE Exchange
  OBVIOUS
<1>1. \A c \in Client : cl[c].pc = "off" /\ cl[c].i = 0
  BY DEF D!Init
<1>2. queue[1] = << >> /\ db.pc = "off" /\ linked = FALSE
  BY IDFacts DEF D!Init
<1> QED BY <1>1, <1>2 DEF Exchange, Turn, RequestsPending, ResponsePending,
                          ResponsesOwn, GotOwn

(* OwnAnswer: as long as the server has not crashed, the response a client *)
(* of the database takes answers its own last request, although responses  *)
(* carry no number; for any number of clients and requests.                *)
THEOREM AnswersAreOwn == D!Spec => []OwnAnswer
<1>1. D!Init => DTypes /\ (crashes = 0 => Exchange)
  BY DTypesInit, ExchangeInit
<1>2. /\ DTypes /\ (crashes = 0 => Exchange)
      /\ [D!Next]_(D!vars)
      => (DTypes /\ (crashes = 0 => Exchange))'
  BY DTypesNext, ExchangeNext
<1>3. DTypes /\ (crashes = 0 => Exchange) => OwnAnswer
  BY DEF OwnAnswer, D!OwnAnswer, Exchange, GotOwn
<1> QED BY <1>1, <1>2, <1>3, PTL DEF D!Spec

-----------------------------------------------------------------------------
(* The database: the table and the requests that made it                   *)

(* The places of a sequence that hold an element of X.                     *)
Occ(l, X) == {j \in DOMAIN l : l[j] \in X}

OkInserts == {r \in [kind : D!Kind, id : Nat, code : Codes] :
                r.kind = "insert" /\ r.code = "OK"}

(* The table has a row for every insertion, and holds a record as often as *)
(* it was inserted and not deleted.                                        *)
TableRight ==
  /\ Len(db.students) = Cardinality(Occ(log, OkInserts))
  /\ \A id \in Nat :
       Cardinality(Occ(db.students, {id}))
         = D!Rows(log, "insert", id) - D!Rows(log, "delete", id)

(* The instance counts as FiniteSets does.                                 *)
LEMMA SameCardinality == \A T : D!Cardinality(T) = Cardinality(T)
BY Zenon DEF D!Cardinality, Cardinality

(* Places are counted by numbers.                                          *)
LEMMA OccFinite ==
  ASSUME NEW T, NEW l \in Seq(T), NEW X
  PROVE  /\ IsFiniteSet(Occ(l, X)) /\ Cardinality(Occ(l, X)) \in Nat
         /\ Occ(l, X) \subseteq 1 .. Len(l)
         /\ Cardinality(Occ(l, X)) > 0 <=> Occ(l, X) # {}
<1>1. Occ(l, X) \subseteq 1 .. Len(l) /\ Len(l) \in Nat
  BY DEF Occ
<1>2. IsFiniteSet(1 .. Len(l))
  BY <1>1, FS_Interval
<1>3. IsFiniteSet(Occ(l, X))
  BY <1>1, <1>2, FS_Subset
<1>4. Cardinality(Occ(l, X)) \in Nat
  BY <1>3, FS_CardinalityType
<1>5. Cardinality(Occ(l, X)) = 0 <=> Occ(l, X) = {}
  BY <1>3, FS_EmptySet
<1> QED BY <1>1, <1>3, <1>4, <1>5

(* A new last element adds at most one place.                              *)
LEMMA OccAppend ==
  ASSUME NEW T, NEW l \in Seq(T), NEW e \in T, NEW X
  PROVE  /\ e \in X => Cardinality(Occ(Append(l, e), X))
                          = Cardinality(Occ(l, X)) + 1
         /\ e \notin X => Cardinality(Occ(Append(l, e), X))
                             = Cardinality(Occ(l, X))
<1> DEFINE n == Len(l) + 1
           m == Append(l, e)
<1>1. /\ Len(l) \in Nat /\ DOMAIN l = 1 .. Len(l) /\ DOMAIN m = 1 .. n
      /\ \A j \in 1 .. Len(l) : m[j] = l[j]
      /\ m[n] = e
  OBVIOUS
<1> HIDE DEF m
<1>2. n \notin Occ(l, X) /\ IsFiniteSet(Occ(l, X))
  BY <1>1, OccFinite
<1>3. CASE e \in X
  <2>1. \A j : j \in Occ(m, X) <=> j \in Occ(l, X) \cup {n}
    BY <1>1, <1>3 DEF Occ
  <2>2. Occ(m, X) = Occ(l, X) \cup {n}
    BY <2>1
  <2>3. Cardinality(Occ(m, X)) = Cardinality(Occ(l, X)) + 1
    BY <1>2, <2>2, FS_AddElement
  <2> QED BY <1>3, <2>3 DEF m
<1>4. CASE e \notin X
  <2>1. \A j : j \in Occ(m, X) <=> j \in Occ(l, X)
    BY <1>1, <1>4 DEF Occ
  <2>2. Occ(m, X) = Occ(l, X)
    BY <2>1
  <2> QED BY <1>4, <2>2 DEF m
<1> QED BY <1>3, <1>4

(* An element replaced by one outside X takes at most one place away.      *)
LEMMA OccReplace ==
  ASSUME NEW T, NEW l \in Seq(T), NEW k \in DOMAIN l, NEW v, NEW X,
         v \notin X
  PROVE  /\ l[k] \in X => Cardinality(Occ([l EXCEPT ![k] = v], X))
                            = Cardinality(Occ(l, X)) - 1
         /\ l[k] \notin X => Cardinality(Occ([l EXCEPT ![k] = v], X))
                               = Cardinality(Occ(l, X))
<1> DEFINE m == [l EXCEPT ![k] = v]
<1>1. /\ DOMAIN m = DOMAIN l /\ m[k] = v
      /\ \A j \in DOMAIN l : j # k => m[j] = l[j]
  OBVIOUS
<1> HIDE DEF m
<1>2. \A j : j \in Occ(m, X) <=> j \in Occ(l, X) \ {k}
  BY <1>1 DEF Occ
<1>3. Occ(m, X) = Occ(l, X) \ {k}
  BY <1>2
<1>4. CASE l[k] \in X
  <2>1. k \in Occ(l, X)
    BY <1>4 DEF Occ
  <2>2. Cardinality(Occ(m, X)) = Cardinality(Occ(l, X)) - 1
    BY <1>3, <2>1, OccFinite, FS_RemoveElement
  <2> QED BY <1>4, <2>2 DEF m
<1>5. CASE l[k] \notin X
  <2>1. Occ(m, X) = Occ(l, X)
    BY <1>3, <1>5 DEF Occ
  <2> QED BY <1>5, <2>1 DEF m
<1> QED BY <1>4, <1>5

(* Requests of a kind and id that succeeded, as places of the log.         *)
LEMMA RowsOcc ==
  ASSUME NEW l, NEW k, NEW id
  PROVE  D!Rows(l, k, id)
           = Cardinality(Occ(l, {[kind |-> k, id |-> id, code |-> "OK"]}))
<1> DEFINE e == [kind |-> k, id |-> id, code |-> "OK"]
<1> HIDE DEF e
<1>1. \A j : j \in {i \in DOMAIN l : l[i] = e} <=> j \in Occ(l, {e})
  BY DEF Occ
<1>2. {i \in DOMAIN l : l[i] = e} = Occ(l, {e})
  BY <1>1
<1>3. D!Rows(l, k, id) = D!Cardinality({i \in DOMAIN l : l[i] = e})
  BY Zenon DEF D!Rows, e
<1> QED BY <1>2, <1>3, SameCardinality DEF e

LogEntry == [kind : D!Kind, id : Nat, code : Codes]

(* The log holds a request more.                                           *)
LEMMA RowsAppend ==
  ASSUME NEW l \in Seq(LogEntry), NEW r \in LogEntry, NEW k, NEW id
  PROVE  /\ D!Rows(l, k, id) \in Nat
         /\ r = [kind |-> k, id |-> id, code |-> "OK"]
              => D!Rows(Append(l, r), k, id) = D!Rows(l, k, id) + 1
         /\ r # [kind |-> k, id |-> id, code |-> "OK"]
              => D!Rows(Append(l, r), k, id) = D!Rows(l, k, id)
<1> DEFINE e == [kind |-> k, id |-> id, code |-> "OK"]
<1> HIDE DEF e
<1>1. /\ D!Rows(l, k, id) = Cardinality(Occ(l, {e}))
      /\ D!Rows(Append(l, r), k, id) = Cardinality(Occ(Append(l, r), {e}))
  BY RowsOcc DEF e
<1>2. Cardinality(Occ(l, {e})) \in Nat
  BY OccFinite
<1>3. r = e => D!Rows(Append(l, r), k, id) = D!Rows(l, k, id) + 1
  BY <1>1, OccAppend
<1>4. r # e => D!Rows(Append(l, r), k, id) = D!Rows(l, k, id)
  BY <1>1, OccAppend
<1> QED BY <1>1, <1>2, <1>3, <1>4 DEF e

(* The code of a response is the one a store of records would give.        *)
LEMMA CodePromised ==
  ASSUME DTypes, TableRight, NEW req \in RequestMsg
  PROVE  LET r == [kind |-> req.kind, id |-> req.id, code |-> D!Code(req)]
         IN  (r.code = "OK") = D!Promised(log, r)
<1> DEFINE r == [kind |-> req.kind, id |-> req.id, code |-> D!Code(req)]
<1>1. /\ r.kind = req.kind /\ r.id = req.id /\ r.code = D!Code(req)
      /\ req.kind \in D!Kind /\ req.id \in Nat
      /\ log \in Seq(LogEntry) /\ db.students \in Seq(Int)
  BY Fields DEF RequestMsg, DTypes, LogEntry
<1> HIDE DEF r
<1>2. CASE req.kind = "ping"
  <2>1. D!Code(req) = "OK"
    BY <1>2 DEF D!Code
  <2>2. D!Promised(log, r) = TRUE
    BY <1>1, <1>2 DEF D!Promised
  <2> QED BY <1>1, <2>1, <2>2 DEF r
<1>3. CASE req.kind = "insert"
  <2> DEFINE A == {j \in DOMAIN log : log[j].kind = "insert"
                                      /\ log[j].code = "OK"}
  <2>0. \A j \in DOMAIN log : log[j] \in LogEntry
    BY <1>1
  <2>1. \A j : j \in A <=> j \in Occ(log, OkInserts)
    BY <2>0, Zenon DEF Occ, OkInserts, LogEntry
  <2>2. A = Occ(log, OkInserts)
    BY <2>1
  <2>3. D!Cardinality(A) = Len(db.students)
    BY <2>2, SameCardinality DEF TableRight
  <2>4. D!Promised(log, r) = (D!Cardinality(A) < MAX_STUDENT)
    BY <1>1, <1>3, Zenon DEF D!Promised
  <2>5. D!Code(req) = IF Len(db.students) < MAX_STUDENT THEN "OK" ELSE "ERROR"
    BY <1>3 DEF D!Code
  <2> HIDE DEF A
  <2> QED BY <1>1, <2>3, <2>4, <2>5 DEF r
<1>4. CASE req.kind \in {"select", "delete"}
  <2> DEFINE rows == {i \in DOMAIN db.students : db.students[i] = req.id}
             I == D!Rows(log, "insert", req.id)
             E == D!Rows(log, "delete", req.id)
  <2>1. D!Found(req.id) > 0 <=> rows # {}
    BY FoundFacts
  <2>2. \A j : j \in rows <=> j \in Occ(db.students, {req.id})
    BY DEF Occ
  <2>3. rows = Occ(db.students, {req.id})
    BY <2>2
  <2>4. Cardinality(rows) > 0 <=> rows # {}
    BY <1>1, <2>3, OccFinite
  <2>5. Cardinality(rows) = I - E
    BY <1>1, <2>3 DEF TableRight
  <2>6. I \in Nat /\ E \in Nat
    BY <1>1, RowsOcc, OccFinite
  <2>7. D!Promised(log, r) = (I > E)
    BY <1>1, <1>4, Zenon DEF D!Promised
  <2>8. D!Code(req) = IF D!Found(req.id) > 0 THEN "OK" ELSE "ERROR"
    BY <1>4 DEF D!Code
  <2> HIDE DEF rows, I, E
  <2>9. D!Found(req.id) > 0 <=> I > E
    BY <2>1, <2>4, <2>5, <2>6
  <2> QED BY <1>1, <2>7, <2>8, <2>9 DEF r
<1> QED BY <1>1, <1>2, <1>3, <1>4 DEF D!Kind

(* handle_RequestMsg keeps table and log in step.                          *)
LEMMA TableHandle ==
  ASSUME DTypes, TableRight, NEW req \in RequestMsg,
         db'.students = D!Students(req),
         log' = Append(log, [kind |-> req.kind, id |-> req.id,
                             code |-> D!Code(req)])
  PROVE  TableRight'
<1> DEFINE r == [kind |-> req.kind, id |-> req.id, code |-> D!Code(req)]
           t == db.students
           f == D!Found(req.id)
<1>1. /\ r.kind = req.kind /\ r.id = req.id /\ r.code = D!Code(req)
      /\ req.kind \in D!Kind /\ req.id \in Nat /\ r \in LogEntry
      /\ log \in Seq(LogEntry) /\ t \in Seq(Int) /\ Len(t) \in Nat
      /\ log' = Append(log, r)
  BY Fields, StudentsType DEF RequestMsg, DTypes, LogEntry
<1> HIDE DEF r
<1>2. ASSUME NEW k, NEW id
      PROVE  /\ D!Rows(log, k, id) \in Nat
             /\ r = [kind |-> k, id |-> id, code |-> "OK"]
                  => D!Rows(log', k, id) = D!Rows(log, k, id) + 1
             /\ r # [kind |-> k, id |-> id, code |-> "OK"]
                  => D!Rows(log', k, id) = D!Rows(log, k, id)
  BY <1>1, RowsAppend
<1>3. ASSUME NEW k, NEW id
      PROVE  r = [kind |-> k, id |-> id, code |-> "OK"]
               <=> r.kind = k /\ r.id = id /\ r.code = "OK"
  BY <1>1 DEF LogEntry
<1>4. /\ r \in OkInserts => Cardinality(Occ(log', OkInserts))
                              = Cardinality(Occ(log, OkInserts)) + 1
      /\ r \notin OkInserts => Cardinality(Occ(log', OkInserts))
                                 = Cardinality(Occ(log, OkInserts))
      /\ r \in OkInserts <=> r.kind = "insert" /\ r.code = "OK"
  <2>1. r \in OkInserts <=> r.kind = "insert" /\ r.code = "OK"
    BY <1>1, Zenon DEF OkInserts, LogEntry
  <2> QED BY <1>1, <2>1, OccAppend
<1>5. ASSUME NEW id \in Nat
      PROVE  /\ Cardinality(Occ(t, {id})) \in Nat
             /\ Cardinality(Occ(t, {id}))
                  = D!Rows(log, "insert", id) - D!Rows(log, "delete", id)
  BY <1>1, OccFinite DEF TableRight
<1>6. CASE req.kind = "insert" /\ Len(t) < MAX_STUDENT
  <2>1. D!Students(req) = Append(t, req.id) /\ D!Code(req) = "OK"
    BY <1>6 DEF D!Students, D!Code
  <2>2. Len(Append(t, req.id)) = Len(t) + 1
    BY <1>1
  <2>3. ASSUME NEW id \in Nat
        PROVE  Cardinality(Occ(db'.students, {id}))
                 = D!Rows(log', "insert", id) - D!Rows(log', "delete", id)
    <3>1. D!Rows(log', "delete", id) = D!Rows(log, "delete", id)
      BY <1>1, <1>2, <1>3, <1>6
    <3>2. CASE id = req.id
      <4>1. Cardinality(Occ(db'.students, {id}))
              = Cardinality(Occ(t, {id})) + 1
        BY <1>1, <2>1, <3>2, OccAppend
      <4>2. D!Rows(log', "insert", id) = D!Rows(log, "insert", id) + 1
        BY <1>1, <1>2, <1>3, <1>6, <2>1, <3>2
      <4> QED BY <1>2, <1>5, <3>1, <4>1, <4>2
    <3>3. CASE id # req.id
      <4>1. Cardinality(Occ(db'.students, {id})) = Cardinality(Occ(t, {id}))
        BY <1>1, <2>1, <3>3, OccAppend
      <4>2. D!Rows(log', "insert", id) = D!Rows(log, "insert", id)
        BY <1>1, <1>2, <1>3, <3>3
      <4> QED BY <1>5, <3>1, <4>1, <4>2
    <3> QED BY <3>2, <3>3
  <2> QED BY <1>1, <1>4, <1>6, <2>1, <2>2, <2>3 DEF TableRight
<1>7. CASE req.kind = "delete" /\ f > 0
  <2>1. D!Students(req) = [t EXCEPT ![f] = -1] /\ D!Code(req) = "OK"
    BY <1>7 DEF D!Students, D!Code
  <2>2. f \in DOMAIN t /\ t[f] = req.id
    BY <1>7, FoundFacts
  <2> HIDE DEF f
  <2>3. Len([t EXCEPT ![f] = -1]) = Len(t)
    BY <1>1, <2>2
  <2>4. ASSUME NEW id \in Nat
        PROVE  Cardinality(Occ(db'.students, {id}))
                 = D!Rows(log', "insert", id) - D!Rows(log', "delete", id)
    <3>1. D!Rows(log', "insert", id) = D!Rows(log, "insert", id)
      BY <1>1, <1>2, <1>3, <1>7
    <3>2. -1 \notin {id}
      OBVIOUS
    <3>3. CASE id = req.id
      <4>1. Cardinality(Occ(db'.students, {id}))
              = Cardinality(Occ(t, {id})) - 1
        <5> HIDE DEF t
        <5>1. t[f] \in {id}
          BY <2>2, <3>3
        <5>2. db'.students = [t EXCEPT ![f] = -1]
          BY <2>1
        <5> QED BY <1>1, <2>2, <3>2, <5>1, <5>2, OccReplace
      <4>2. D!Rows(log', "delete", id) = D!Rows(log, "delete", id) + 1
        BY <1>1, <1>2, <1>3, <1>7, <2>1, <3>3
      <4> QED BY <1>2, <1>5, <3>1, <4>1, <4>2
    <3>4. CASE id # req.id
      <4>1. Cardinality(Occ(db'.students, {id})) = Cardinality(Occ(t, {id}))
        <5> HIDE DEF t
        <5>1. t[f] \notin {id}
          BY <2>2, <3>4
        <5>2. db'.students = [t EXCEPT ![f] = -1]
          BY <2>1
        <5>3. Cardinality(Occ([t EXCEPT ![f] = -1], {id}))
                = Cardinality(Occ(t, {id}))
          <6> DEFINE v == -1
          <6>1. /\ t \in Seq(Int) /\ f \in DOMAIN t /\ v \notin {id}
                /\ t[f] \notin {id}
            BY <1>1, <2>2, <3>2, <5>1
          <6> HIDE DEF v
          <6>2. Cardinality(Occ([t EXCEPT ![f] = v], {id}))
                  = Cardinality(Occ(t, {id}))
            BY <6>1, OccReplace
          <6> QED BY <6>2 DEF v
        <5> QED BY <5>2, <5>3
      <4>2. D!Rows(log', "delete", id) = D!Rows(log, "delete", id)
        BY <1>1, <1>2, <1>3, <3>4
      <4> QED BY <1>5, <3>1, <4>1, <4>2
    <3> QED BY <3>3, <3>4
  <2> QED BY <1>1, <1>4, <1>7, <2>1, <2>3, <2>4 DEF TableRight
<1>8. CASE /\ ~(req.kind = "insert" /\ Len(t) < MAX_STUDENT)
           /\ ~(req.kind = "delete" /\ f > 0)
  <2>1. D!Students(req) = t
    BY <1>8 DEF D!Students
  <2>2. req.kind \in {"insert", "delete"} => D!Code(req) = "ERROR"
    BY <1>8 DEF D!Code
  <2>3. \A id : /\ D!Rows(log', "insert", id) = D!Rows(log, "insert", id)
                /\ D!Rows(log', "delete", id) = D!Rows(log, "delete", id)
    BY <1>1, <1>2, <1>3, <2>2
  <2>4. Cardinality(Occ(log', OkInserts)) = Cardinality(Occ(log, OkInserts))
    BY <1>1, <1>4, <2>2
  <2> QED BY <2>1, <2>3, <2>4 DEF TableRight
<1> QED BY <1>6, <1>7, <1>8

(* What was answered before is not touched by a new entry of the log.      *)
LEMMA AnswersAppend ==
  ASSUME log \in Seq(LogEntry), D!AnswersRight, NEW r \in LogEntry,
         log' = Append(log, r), (r.code = "OK") = D!Promised(log, r)
  PROVE  D!AnswersRight'
<1>1. /\ Len(log) \in Nat /\ DOMAIN log = 1 .. Len(log)
      /\ DOMAIN log' = 1 .. Len(log) + 1
      /\ log'[Len(log) + 1] = r
      /\ \A j \in 1 .. Len(log) : log'[j] = log[j]
  OBVIOUS
<1>2. ASSUME NEW j \in 1 .. Len(log) + 1
      PROVE  SubSeq(log', 1, j - 1) = SubSeq(log, 1, j - 1)
  <2>1. /\ log' \in Seq(LogEntry) /\ j - 1 \in 0 .. Len(log)
        /\ Len(log') = Len(log) + 1
    BY <1>1
  <2>2. /\ SubSeq(log', 1, j - 1) = [i \in 1 .. j - 1 |-> log'[i]]
        /\ SubSeq(log, 1, j - 1) = [i \in 1 .. j - 1 |-> log[i]]
    BY <1>1, <2>1
  <2>3. \A i \in 1 .. j - 1 : log'[i] = log[i]
    BY <1>1, <2>1
  <2> QED BY <2>2, <2>3
<1>3. SubSeq(log, 1, Len(log) + 1 - 1) = log
  BY <1>1, SubSeqFull
<1> SUFFICES ASSUME NEW j \in 1 .. Len(log) + 1
             PROVE  (log'[j].code = "OK")
                      = D!Promised(SubSeq(log', 1, j - 1), log'[j])
  BY <1>1 DEF D!AnswersRight
<1>4. SubSeq(log', 1, j - 1) = SubSeq(log, 1, j - 1)
  BY <1>2
<1>5. CASE j \in 1 .. Len(log)
  <2>1. log'[j] = log[j] /\ j \in DOMAIN log
    BY <1>1, <1>5
  <2> QED BY <1>4, <2>1 DEF D!AnswersRight
<1>6. CASE j = Len(log) + 1
  <2>1. log'[j] = r /\ SubSeq(log, 1, j - 1) = log
    BY <1>1, <1>3, <1>6
  <2> QED BY <1>4, <2>1
<1> QED BY <1>1, <1>5, <1>6

(* Nothing is counted in an empty log.                                     *)
LEMMA TableEmpty ==
  /\ Len(<< >>) = Cardinality(Occ(<< >>, OkInserts))
  /\ \A id \in Nat : Cardinality(Occ(<< >>, {id}))
       = D!Rows(<< >>, "insert", id) - D!Rows(<< >>, "delete", id)
<1>1. \A X : Occ(<< >>, X) = {}
  BY DEF Occ
<1>2. Cardinality({}) = 0
  BY FS_EmptySet
<1>3. ASSUME NEW k, NEW id PROVE D!Rows(<< >>, k, id) = 0
  BY <1>1, <1>2, RowsOcc, Zenon
<1>4. Len(<< >>) = 0
  OBVIOUS
<1>5. 0 = 0 - 0
  OBVIOUS
<1>6. /\ Cardinality(Occ(<< >>, OkInserts)) = 0
      /\ \A id \in Nat :
           /\ Cardinality(Occ(<< >>, {id})) = 0
           /\ D!Rows(<< >>, "insert", id) = 0
           /\ D!Rows(<< >>, "delete", id) = 0
  BY <1>1, <1>2, <1>3, Zenon
<1> QED BY <1>4, <1>5, <1>6

(* AnswersRight: every request the database has handled since it was       *)
(* started was answered as a store of records would, through insertions,   *)
(* deletions and a full table, for any MAX_STUDENT and number of clients.  *)
THEOREM AnswersAreRight == D!Spec => []AnswersRight
<1> DEFINE Inv == DTypes /\ TableRight /\ D!AnswersRight
<1>1. D!Init => Inv
  <2> SUFFICES ASSUME D!Init PROVE TableRight /\ D!AnswersRight
    BY DTypesInit
  <2>1. log = << >> /\ db.students = << >>
    BY DEF D!Init
  <2> QED BY <2>1, TableEmpty DEF TableRight, D!AnswersRight
<1>2. Inv /\ [D!Next]_(D!vars) => Inv'
  <2> SUFFICES ASSUME Inv, [D!Next]_(D!vars)
               PROVE  TableRight' /\ D!AnswersRight'
    BY DTypesNext
  <2>1. CASE D!Handle
    <3> DEFINE req == Head(queue[1])
               r == [kind |-> req.kind, id |-> req.id, code |-> D!Code(req)]
    <3>1. req \in RequestMsg
      BY <2>1 DEF D!Handle, DTypes, QueueType
    <3>2. db'.students = D!Students(req) /\ log' = Append(log, r)
      BY <2>1 DEF D!Handle, DTypes, DbType
    <3>3. r \in LogEntry /\ log \in Seq(LogEntry)
      BY <3>1, StudentsType DEF RequestMsg, LogEntry, DTypes
    <3>4. (r.code = "OK") = D!Promised(log, r)
      BY <3>1, CodePromised
    <3> HIDE DEF req
    <3>5. TableRight'
      BY <3>1, <3>2, TableHandle
    <3> HIDE DEF r
    <3>6. D!AnswersRight'
      BY <3>2, <3>3, <3>4, AnswersAppend
    <3> QED BY <3>5, <3>6
  <2>2. CASE D!ServerStart
    <3>1. log' = << >> /\ db'.students = << >>
      BY <2>2 DEF D!ServerStart
    <3> QED BY <3>1, TableEmpty DEF TableRight, D!AnswersRight
  <2>3. CASE UNCHANGED <<log, db.students>>
    BY <2>3 DEF TableRight, D!AnswersRight
  <2>4. D!Next /\ ~D!Handle /\ ~D!ServerStart
          => UNCHANGED <<log, db.students>>
    BY DEF D!Next, D!Server, D!repository_set_name, D!While, D!SendResponse,
           D!ServerEnd, D!ServerCrash, D!ClientStart, D!ClientStep, D!Lookup,
           D!SendRequest, D!SendNowhere, D!ReceiveResponse, D!ClientDone,
           DTypes, DbType
  <2>5. UNCHANGED D!vars => UNCHANGED <<log, db.students>>
    BY DEF D!vars
  <2> QED BY <2>1, <2>2, <2>3, <2>4, <2>5
<1>3. Inv => AnswersRight
  BY DEF AnswersRight
<1> QED BY <1>1, <1>2, <1>3, PTL DEF D!Spec

-----------------------------------------------------------------------------
(* Papa and his children                                                   *)

(* How many of the first n letters of PapaTask.start are for c.            *)
Due(c, n) ==
  CASE c = "child1" -> IF n < 1 THEN 0 ELSE IF n < 3 THEN 1 ELSE 2
    [] c = "child2" -> IF n < 2 THEN 0 ELSE IF n < 4 THEN 1 ELSE 2
    [] c = "child3" -> IF n < 5 THEN 0 ELSE IF n < 6 THEN 1 ELSE 2

Boxes == [S!Child -> Seq({"TEXT", "BAR"})]

(* A letter that was sent waits, was handled or was dropped.               *)
LettersKept ==
  /\ sent \in 0 .. 6
  /\ mail \in Boxes /\ handled \in Boxes /\ dropped \in Boxes
  /\ \A c \in S!Child :
       Len(handled[c]) + Len(dropped[c]) + Len(mail[c]) = Due(c, sent)

(* The next letter is one more for its child and none for the others.      *)
LEMMA NextLetter ==
  ASSUME NEW n \in 0 .. 5
  PROVE  /\ S!Letters[n + 1][1] \in S!Child
         /\ S!Letters[n + 1][2] \in {"TEXT", "BAR"}
         /\ \A c \in S!Child :
              Due(c, n + 1) = IF c = S!Letters[n + 1][1] THEN Due(c, n) + 1
                              ELSE Due(c, n)
<1>1. CASE n = 0
  BY <1>1 DEF S!Letters, S!Child, Due
<1>2. CASE n = 1
  BY <1>2 DEF S!Letters, S!Child, Due
<1>3. CASE n = 2
  BY <1>3 DEF S!Letters, S!Child, Due
<1>4. CASE n = 3
  BY <1>4 DEF S!Letters, S!Child, Due
<1>5. CASE n = 4
  BY <1>5 DEF S!Letters, S!Child, Due
<1>6. CASE n = 5
  BY <1>6 DEF S!Letters, S!Child, Due
<1> QED BY <1>1, <1>2, <1>3, <1>4, <1>5, <1>6

(* NothingLost: of the letters PapaTask sends, each child has handled or   *)
(* dropped its two or they still wait, however its receives fell.          *)
THEOREM LettersAreKept == S!Spec => []NothingLost
<1>1. S!Init => LettersKept
  <2> SUFFICES ASSUME S!Init PROVE LettersKept
    OBVIOUS
  <2>1. Len(<< >>) = 0 /\ << >> \in Seq({"TEXT", "BAR"})
    BY EmptySeq
  <2>2. \A c \in S!Child : Due(c, 0) = 0
    BY DEF S!Child, Due
  <2> QED BY <2>1, <2>2 DEF S!Init, LettersKept, Boxes
<1>2. LettersKept /\ [S!Next]_(S!simpleVars) => LettersKept'
  <2> SUFFICES ASSUME LettersKept, [S!Next]_(S!simpleVars)
               PROVE  LettersKept'
    OBVIOUS
  <2>1. CASE S!PapaSend
    <3> DEFINE d == S!Letters[sent + 1][1]
               m == S!Letters[sent + 1][2]
    <3>1. Len(S!Letters) = 6
      BY DEF S!Letters
    <3>2. sent \in 0 .. 5 /\ sent' = sent + 1
      BY <2>1, <3>1 DEF S!PapaSend, LettersKept
    <3>3. /\ d \in S!Child /\ m \in {"TEXT", "BAR"}
          /\ \A c \in S!Child : Due(c, sent + 1) =
               IF c = d THEN Due(c, sent) + 1 ELSE Due(c, sent)
      BY <3>2, NextLetter
    <3>4. mail' = [mail EXCEPT ![d] = Append(@, m)]
          /\ UNCHANGED <<handled, dropped>>
      BY <2>1, <3>2 DEF S!PapaSend
    <3> HIDE DEF d, m
    <3>5. mail' \in Boxes
      BY <3>3, <3>4 DEF LettersKept, Boxes
    <3>6. ASSUME NEW c \in S!Child
          PROVE  Len(handled'[c]) + Len(dropped'[c]) + Len(mail'[c])
                   = Due(c, sent')
      <4>1. /\ Len(handled[c]) \in Nat /\ Len(dropped[c]) \in Nat
            /\ Len(mail[c]) \in Nat /\ mail[c] \in Seq({"TEXT", "BAR"})
            /\ Len(handled[c]) + Len(dropped[c]) + Len(mail[c])
                 = Due(c, sent)
        BY DEF LettersKept, Boxes
      <4>2. CASE c = d
        <5>1. Len(mail'[c]) = Len(mail[c]) + 1
          BY <3>3, <3>4, <4>1, <4>2 DEF LettersKept, Boxes
        <5>2. Due(c, sent') = Due(c, sent) + 1
          BY <3>2, <3>3, <4>2
        <5>3. handled' = handled /\ dropped' = dropped
          BY <3>4
        <5> DEFINE a == Len(handled[c])  b == Len(dropped[c])
                   k == Len(mail[c])
        <5>4. Len(handled'[c]) = a /\ Len(dropped'[c]) = b
              /\ Len(mail'[c]) = k + 1
          BY <5>1, <5>3
        <5>5. a \in Nat /\ b \in Nat /\ k \in Nat /\ a + b + k = Due(c, sent)
          BY <4>1
        <5> HIDE DEF a, b, k
        <5>6. a + b + (k + 1) = (a + b + k) + 1
          BY <5>5
        <5> QED BY <5>2, <5>4, <5>5, <5>6
      <4>3. CASE c # d
        <5>1. mail'[c] = mail[c]
          BY <3>4, <4>3 DEF LettersKept, Boxes
        <5> QED BY <3>2, <3>3, <3>4, <4>1, <4>3, <5>1
      <4> QED BY <4>2, <4>3
    <3>7. sent' \in 0 .. 6
      BY <3>2
    <3>8. handled' \in Boxes /\ dropped' \in Boxes
      BY <3>4 DEF LettersKept
    <3> QED BY <3>5, <3>6, <3>7, <3>8 DEF LettersKept
  <2>2. ASSUME NEW c \in S!Child, S!Receive(c)
        PROVE  LettersKept'
    <3> DEFINE h == Head(mail[c])
    <3>1. /\ mail[c] # << >> /\ mail[c] \in Seq({"TEXT", "BAR"})
          /\ handled[c] \in Seq({"TEXT", "BAR"})
          /\ dropped[c] \in Seq({"TEXT", "BAR"})
          /\ mail' = [mail EXCEPT ![c] = Tail(@)] /\ sent' = sent
      BY <2>2 DEF S!Receive, LettersKept, Boxes
    <3>2. /\ h \in {"TEXT", "BAR"} /\ Tail(mail[c]) \in Seq({"TEXT", "BAR"})
          /\ Len(Tail(mail[c])) = Len(mail[c]) - 1
      BY <3>1, HeadTailProperties
    <3>3. \/ /\ handled' = [handled EXCEPT ![c] = Append(@, h)]
             /\ dropped' = dropped
          \/ /\ dropped' = [dropped EXCEPT ![c] = Append(@, h)]
             /\ handled' = handled
      BY <2>2 DEF S!Receive
    <3> HIDE DEF h
    <3>4. mail' \in Boxes /\ handled' \in Boxes /\ dropped' \in Boxes
      <4>1. mail' \in Boxes
        BY <3>1, <3>2 DEF LettersKept, Boxes
      <4>2. /\ Append(handled[c], h) \in Seq({"TEXT", "BAR"})
            /\ Append(dropped[c], h) \in Seq({"TEXT", "BAR"})
        BY <3>1, <3>2
      <4>3. handled' \in Boxes
        BY <3>3, <4>2 DEF LettersKept, Boxes
      <4>4. dropped' \in Boxes
        BY <3>3, <4>2 DEF LettersKept, Boxes
      <4> QED BY <4>1, <4>3, <4>4
    <3>5. ASSUME NEW d \in S!Child
          PROVE  Len(handled'[d]) + Len(dropped'[d]) + Len(mail'[d])
                   = Len(handled[d]) + Len(dropped[d]) + Len(mail[d])
      <4>1. /\ Len(handled[d]) \in Nat /\ Len(dropped[d]) \in Nat
            /\ Len(mail[d]) \in Nat
        BY DEF LettersKept, Boxes
      <4>2. CASE d = c
        <5>1. Len(mail'[c]) = Len(mail[c]) - 1
          BY <3>1, <3>2 DEF LettersKept, Boxes
        <5>2. /\ Len(Append(handled[c], h)) = Len(handled[c]) + 1
              /\ Len(Append(dropped[c], h)) = Len(dropped[c]) + 1
          BY <3>1, <3>2
        <5>3. \/ handled'[c] = Append(handled[c], h) /\ dropped' = dropped
              \/ dropped'[c] = Append(dropped[c], h) /\ handled' = handled
          BY <3>3 DEF LettersKept, Boxes
        <5> DEFINE a == Len(handled[c])  b == Len(dropped[c])
                   k == Len(mail[c])
                   aa == Len(handled'[c])  bb == Len(dropped'[c])
                   kk == Len(mail'[c])
        <5>4. a \in Nat /\ b \in Nat /\ k \in Nat /\ kk = k - 1
          BY <4>1, <4>2, <5>1
        <5>5. (aa = a + 1 /\ bb = b) \/ (aa = a /\ bb = b + 1)
          BY <5>2, <5>3
        <5> HIDE DEF a, b, k, aa, bb, kk
        <5>6. aa + bb + kk = a + b + k
          BY <5>4, <5>5
        <5> QED BY <4>2, <5>6 DEF a, b, k, aa, bb, kk
      <4>3. CASE d # c
        BY <3>1, <3>3, <4>3 DEF LettersKept, Boxes
      <4> QED BY <4>2, <4>3
    <3> QED BY <3>1, <3>4, <3>5 DEF LettersKept
  <2>3. CASE UNCHANGED <<sent, mail, handled, dropped>>
    BY <2>3 DEF LettersKept, Boxes
  <2> QED BY <2>1, <2>2, <2>3 DEF S!Next, S!simpleVars, S!Spawn,
                                  S!ReceiveNothing
<1>3. LettersKept => NothingLost
  <2>1. \A c \in S!Child : Due(c, 6) = 2
    BY DEF S!Child, Due
  <2>2. Len(S!Letters) = 6
    BY DEF S!Letters
  <2> QED BY <2>1, <2>2 DEF LettersKept, NothingLost, S!NothingLost
<1> QED BY <1>1, <1>2, <1>3, PTL DEF S!Spec

-----------------------------------------------------------------------------
(* The weather: who has which ID, name and queue                           *)

WeatherPlace == {"off", "name", "set_name", "get_id", "sub", "while",
                 "undefined"}
Post == [tag : {"NAME", "SUB", "POST"}, val : Name \cup Nat]

WTypes ==
  /\ wNext \in Nat /\ wName \in [W!ID -> Name \cup {"no name"}]
  /\ wQueue \in [W!ID -> Seq(Post)]
  /\ pc \in [W!Task -> WeatherPlace] /\ taskID \in [W!Task -> Nat]
  /\ station_name \in [W!Task -> Name \cup {"no name"}]
  /\ subs \in [Station -> Seq(Nat)]
  /\ station_id \in [Listener -> W!ID \cup {-1, 0}]
  /\ heard \in [Listener -> SUBSET Nat]
  /\ \A s \in Station : pc[s] \notin {"get_id", "sub", "undefined"}
  /\ \A c \in Listener : pc[c] # "set_name"

(* Started(t): IDs are given out in turn, so that there is one for every   *)
(* task.                                                                   *)
Started(t) == pc[t] # "off"
WTurn ==
  /\ wNext = Cardinality({t \in W!Task : Started(t)}) + 1
  /\ \A t \in W!Task : Started(t) => taskID[t] \in W!ID /\ taskID[t] < wNext
  /\ \A t, u \in W!Task :
       t # u /\ Started(t) /\ Started(u) => taskID[t] # taskID[u]

(* The names in the repository are those of stations that run.             *)
WNames ==
  /\ \A t \in W!Task :
       pc[t] \notin {"off", "name"} => station_name[t] = NameOf[t]
  /\ \A n \in W!ID : wName[n] # "no name" =>
       \E s \in Station : /\ pc[s] = "while" /\ taskID[s] = n
                          /\ wName[n] = NameOf[s]
  /\ \A c \in Listener : pc[c] \in {"sub", "while"} =>
       \/ station_id[c] = -1 /\ pc[c] = "sub"
       \/ station_id[c] \in W!ID /\ wName[station_id[c]] = NameOf[c]

(* The IDs of the clients that have looked up the station s and sent their *)
(* subscription.                                                           *)
Subscribers(s) ==
  {n \in W!ID : \E c \in Listener : /\ pc[c] = "while" /\ taskID[c] = n
                                   /\ station_id[c] = taskID[s]}

(* The messages q for the task t at the place p: a client at its loop      *)
(* hears the station with the ID n, a station is subscribed to by A.       *)
Expected(t, p, q, n, A) ==
  /\ p = "name" => q = << [tag |-> "NAME", val |-> NameOf[t]] >>
  /\ p \in {"set_name", "get_id", "sub", "undefined"} => q = << >>
  /\ p = "while" /\ t \in Station =>
       \A i \in 1 .. Len(q) : q[i].tag = "SUB" /\ q[i].val \in A
  /\ p = "while" /\ t \in Listener =>
       \A i \in 1 .. Len(q) : q[i].tag = "POST" /\ q[i].val = n

WPosts ==
  /\ \A t \in W!Task : Started(t) =>
       Expected(t, pc[t], wQueue[taskID[t]], station_id[t], Subscribers(t))
  /\ \A s \in Station :
       /\ Len(subs[s]) <= MaxSub
       /\ \A i \in 1 .. Len(subs[s]) : subs[s][i] \in Subscribers(s)
       /\ pc[s] # "while" => subs[s] = << >>
  /\ \A c \in Listener :
       heard[c] # {} => heard[c] = {station_id[c]} /\ pc[c] = "while"

WInv == WTypes /\ WTurn /\ WNames /\ WPosts

(* The tasks and their IDs.                                                *)
LEMMA TaskFacts ==
  /\ Station \subseteq W!Task /\ Listener \subseteq W!Task
  /\ \A t \in W!Task : (t \in Station /\ t \notin Listener)
                       \/ (t \notin Station /\ t \in Listener)
  /\ IsFiniteSet(W!Task) /\ Cardinality(W!Task) \in Nat
  /\ \A n : n \in W!ID <=> n \in Nat /\ 1 <= n /\ n <= Cardinality(W!Task)
  /\ \A t \in W!Task : NameOf[t] \in Name /\ NameOf[t] # "no name"
  /\ MaxSub \in Nat /\ Capacity \in Nat
<1>1. W!Task = Station \cup Listener
  BY DEF W!Task
<1>2. IsFiniteSet(W!Task)
  BY <1>1, WeatherAssumption, FS_Union
<1>3. Cardinality(W!Task) \in Nat
  BY <1>2, FS_CardinalityType
<1>4. W!ID = 1 .. Cardinality(W!Task)
  BY Zenon DEF W!ID, W!Cardinality, Cardinality
<1>5. \A n : n \in W!ID <=> n \in Nat /\ 1 <= n /\ n <= Cardinality(W!Task)
  BY <1>3, <1>4
<1>6. \A t \in W!Task : NameOf[t] \in Name /\ NameOf[t] # "no name"
  BY <1>1, WeatherAssumption
<1>7. \A t \in W!Task : (t \in Station /\ t \notin Listener)
                       \/ (t \notin Station /\ t \in Listener)
  BY <1>1, WeatherAssumption
<1>8. MaxSub \in Nat /\ Capacity \in Nat
  BY WeatherAssumption, Zenon
<1> QED BY <1>1, <1>2, <1>3, <1>5, <1>6, <1>7, <1>8

(* More subscribers, a message taken, a message more.                      *)
LEMMA ExpectedMore ==
  ASSUME NEW t, NEW p, NEW q, NEW n, NEW m, NEW A, NEW E, A \subseteq E,
         t \in Listener => m = n, Expected(t, p, q, n, A)
  PROVE  Expected(t, p, q, m, E)
BY DEF Expected

(* The message at the head of the queue is taken.                          *)
LEMMA ExpectedTail ==
  ASSUME NEW t, NEW q \in Seq(Post), NEW n, NEW A, q # << >>,
         Expected(t, "while", q, n, A)
  PROVE  Expected(t, "while", Tail(q), n, A)
<1>1. \A i \in 1 .. Len(Tail(q)) :
        i + 1 \in 1 .. Len(q) /\ Tail(q)[i] = q[i + 1]
  OBVIOUS
<1> QED BY <1>1 DEF Expected

(* A message comes that the task expects.                                  *)
LEMMA ExpectedAppend ==
  ASSUME NEW t, NEW q \in Seq(Post), NEW n, NEW A, NEW m \in Post,
         Expected(t, "while", q, n, A),
         t \in Station => m.tag = "SUB" /\ m.val \in A,
         t \in Listener => m.tag = "POST" /\ m.val = n
  PROVE  Expected(t, "while", Append(q, m), n, A)
<1>1. \A i \in 1 .. Len(Append(q, m)) :
        \/ i \in 1 .. Len(q) /\ Append(q, m)[i] = q[i]
        \/ Append(q, m)[i] = m
  OBVIOUS
<1> QED BY <1>1 DEF Expected

(* Nobody has started.                                                     *)
LEMMA WInit == W!Init => WInv
<1> SUFFICES ASSUME W!Init PROVE WInv
  OBVIOUS
<1>1. << >> \in Seq(Post) /\ << >> \in Seq(Nat) /\ Len(<< >>) = 0
  BY EmptySeq
<1>2. \A t \in W!Task : pc[t] = "off"
  BY DEF W!Init
<1>3. WTypes
  BY <1>1, TaskFacts DEF W!Init, WTypes, WeatherPlace, W!NoName
<1>4. WTurn
  <2>1. {t \in W!Task : Started(t)} = {}
    BY <1>2 DEF Started
  <2>2. Cardinality({}) = 0
    BY FS_EmptySet
  <2>3. wNext = 1 /\ Cardinality({t \in W!Task : Started(t)}) = 0
    BY <2>1, <2>2 DEF W!Init
  <2> QED BY <1>2, <2>3 DEF WTurn, Started
<1>5. WNames
  BY <1>2, TaskFacts DEF W!Init, WNames, W!NoName
<1>6. WPosts
  <2>1. /\ \A s \in Station : subs[s] = << >>
        /\ \A c \in Listener : heard[c] = {}
    BY DEF W!Init
  <2>2. MaxSub \in Nat
    BY TaskFacts
  <2> QED BY <1>1, <1>2, <2>1, <2>2 DEF WPosts, Started
<1> QED BY <1>3, <1>4, <1>5, <1>6 DEF WInv

(* A task is created: there is an ID for it that nobody else has.          *)
LEMMA WCreate ==
  ASSUME WInv, NEW t \in W!Task, W!Create(t)
  PROVE  WInv'
<1> DEFINE A == {u \in W!Task : Started(u)}
           msg == [tag |-> "NAME", val |-> NameOf[t]]
<1> USE DEF WInv
<1>1. /\ pc[t] = "off" /\ taskID' = [taskID EXCEPT ![t] = wNext]
      /\ wNext' = wNext + 1
      /\ wQueue' = [wQueue EXCEPT ![wNext] = << msg >>]
      /\ pc' = [pc EXCEPT ![t] = "name"]
      /\ UNCHANGED <<wName, station_name, subs, station_id, heard>>
  BY DEF W!Create, W!Goto
<1>2. /\ IsFiniteSet(A) /\ t \notin A /\ A \cup {t} \subseteq W!Task
      /\ Cardinality(A) \in Nat
  BY <1>1, TaskFacts, FS_Subset, FS_CardinalityType DEF Started
<1>3. Cardinality(A \cup {t}) = Cardinality(A) + 1
  BY <1>2, FS_AddElement
<1>4. Cardinality(A \cup {t}) <= Cardinality(W!Task)
  BY <1>2, TaskFacts, FS_Subset
<1>5. wNext \in W!ID /\ wNext \in Nat /\ wNext = Cardinality(A) + 1
  <2>1. wNext = Cardinality(A) + 1
    BY DEF WTurn
  <2> HIDE DEF A
  <2>2. wNext \in Nat /\ 1 <= wNext /\ wNext <= Cardinality(W!Task)
    BY <1>2, <1>3, <1>4, <2>1
  <2> QED BY <2>1, <2>2, TaskFacts
<1>6. /\ pc'[t] = "name" /\ taskID'[t] = wNext
      /\ \A u \in W!Task : u # t => pc'[u] = pc[u] /\ taskID'[u] = taskID[u]
  BY <1>1 DEF WTypes
<1>7. msg \in Post /\ << msg >> \in Seq(Post)
  <2>1. msg \in Post
    BY TaskFacts DEF Post
  <2> HIDE DEF msg
  <2> QED BY <2>1
<1> HIDE DEF msg, A
<1>8. WTypes'
  <2>1. wNext' \in Nat /\ wQueue' \in [W!ID -> Seq(Post)]
    <3>1. wNext' \in Nat
      BY <1>1, <1>5
    <3>2. wQueue' \in [W!ID -> Seq(Post)]
      BY <1>1, <1>7 DEF WTypes
    <3> QED BY <3>1, <3>2
  <2>2. pc' \in [W!Task -> WeatherPlace] /\ taskID' \in [W!Task -> Nat]
    BY <1>1, <1>5 DEF WTypes, WeatherPlace
  <2>3. /\ \A s \in Station : pc'[s] \notin {"get_id", "sub", "undefined"}
        /\ \A c \in Listener : pc'[c] # "set_name"
    BY <1>6, TaskFacts DEF WTypes
  <2> QED BY <1>1, <2>1, <2>2, <2>3 DEF WTypes
<1>9. \A u \in W!Task : u # t /\ Started(u) =>
        taskID[u] \in W!ID /\ taskID[u] \in Nat /\ taskID[u] < wNext
        /\ taskID[u] # wNext
  <2> SUFFICES ASSUME NEW u \in W!Task, Started(u)
               PROVE  taskID[u] \in W!ID /\ taskID[u] \in Nat
                      /\ taskID[u] < wNext /\ taskID[u] # wNext
    OBVIOUS
  <2>1. taskID[u] \in W!ID /\ taskID[u] < wNext
    BY DEF WTurn
  <2>2. taskID[u] \in Nat
    BY <2>1, TaskFacts
  <2> QED BY <1>5, <2>1, <2>2
<1>10. WTurn'
  <2>1. \A u : u \in {v \in W!Task : Started(v)'} <=> u \in A \cup {t}
    BY <1>6 DEF Started, A
  <2>2. {v \in W!Task : Started(v)'} = A \cup {t}
    BY <2>1
  <2>3. wNext' = Cardinality({v \in W!Task : Started(v)'}) + 1
    BY <1>1, <1>3, <1>5, <2>2
  <2>4. ASSUME NEW u \in W!Task, Started(u)'
        PROVE  taskID'[u] \in W!ID /\ taskID'[u] < wNext'
    BY <1>1, <1>5, <1>6, <1>9, <2>4 DEF Started
  <2>5. ASSUME NEW u \in W!Task, NEW v \in W!Task, u # v,
               Started(u)', Started(v)'
        PROVE  taskID'[u] # taskID'[v]
    BY <1>6, <1>9, <2>5 DEF WTurn, Started
  <2> QED BY <2>3, <2>4, <2>5 DEF WTurn
<1>11. WNames'
  <2>1. \A s \in Station : pc[s] = "while" => s # t /\ s \in W!Task
    BY <1>1, TaskFacts
  <2>2. \A u \in W!Task : pc'[u] \notin {"off", "name"} =>
          station_name'[u] = NameOf[u]
    BY <1>1, <1>6 DEF WNames
  <2>3. \A n \in W!ID : wName'[n] # "no name" =>
          \E s \in Station : /\ pc'[s] = "while" /\ taskID'[s] = n
                             /\ wName'[n] = NameOf[s]
    <3> SUFFICES ASSUME NEW n \in W!ID, wName[n] # "no name"
                 PROVE  \E s \in Station :
                          /\ pc'[s] = "while" /\ taskID'[s] = n
                          /\ wName[n] = NameOf[s]
      BY <1>1
    <3>1. PICK s \in Station : /\ pc[s] = "while" /\ taskID[s] = n
                              /\ wName[n] = NameOf[s]
      BY DEF WNames
    <3> QED BY <1>6, <2>1, <3>1
  <2>4. \A c \in Listener : pc'[c] \in {"sub", "while"} =>
          \/ station_id'[c] = -1 /\ pc'[c] = "sub"
          \/ station_id'[c] \in W!ID /\ wName'[station_id'[c]] = NameOf[c]
    BY <1>1, <1>6, TaskFacts DEF WNames
  <2> QED BY <2>2, <2>3, <2>4 DEF WNames
<1>12. ASSUME NEW u \in W!Task, u # t
       PROVE  Subscribers(u) \subseteq Subscribers(u)'
  <2>1. \A c \in Listener : pc[c] = "while" => c # t /\ c \in W!Task
    BY <1>1, TaskFacts
  <2> QED BY <1>1, <1>6, <1>12, <2>1 DEF Subscribers
<1>13. WPosts'
  <2>1. ASSUME NEW u \in W!Task, Started(u)'
        PROVE  Expected(u, pc'[u], wQueue'[taskID'[u]], station_id'[u],
                        Subscribers(u)')
    <3>1. CASE u = t
      <4>1. wQueue'[taskID'[u]] = << msg >>
        BY <1>1, <1>5, <1>6, <3>1 DEF WTypes
      <4> QED BY <1>6, <3>1, <4>1 DEF Expected, msg
    <3>2. CASE u # t
      <4>1. /\ Started(u) /\ pc'[u] = pc[u] /\ taskID'[u] = taskID[u]
            /\ station_id' = station_id
        BY <1>1, <1>6, <2>1, <3>2 DEF Started
      <4>2. wQueue'[taskID[u]] = wQueue[taskID[u]]
        BY <1>1, <1>9, <3>2, <4>1 DEF WTypes
      <4>3. Expected(u, pc[u], wQueue[taskID[u]], station_id[u],
                     Subscribers(u))
        BY <4>1 DEF WPosts
      <4> QED BY <1>12, <3>2, <4>1, <4>2, <4>3, ExpectedMore
    <3> QED BY <3>1, <3>2
  <2>2. ASSUME NEW s \in Station
        PROVE  /\ Len(subs'[s]) <= MaxSub
               /\ \A i \in 1 .. Len(subs'[s]) :
                    subs'[s][i] \in Subscribers(s)'
               /\ pc'[s] # "while" => subs'[s] = << >>
    <3>1. s \in W!Task
      BY TaskFacts
    <3>2. CASE s # t
      BY <1>1, <1>6, <1>12, <3>1, <3>2 DEF WPosts
    <3>3. CASE s = t
      <4>1. subs'[s] = << >> /\ Len(<< >>) = 0
        BY <1>1, <3>3, EmptySeq DEF WPosts
      <4>2. MaxSub \in Nat
        BY TaskFacts
      <4> QED BY <4>1, <4>2
    <3> QED BY <3>2, <3>3
  <2>3. \A c \in Listener : heard'[c] # {} =>
          heard'[c] = {station_id'[c]} /\ pc'[c] = "while"
    BY <1>1, <1>6, TaskFacts DEF WPosts
  <2> QED BY <2>1, <2>2, <2>3 DEF WPosts
<1> QED BY <1>8, <1>10, <1>11, <1>13

(* Who has started keeps its ID.                                           *)
LEMMA TurnKept ==
  ASSUME WTurn, UNCHANGED <<wNext, taskID>>,
         \A u \in W!Task : Started(u)' <=> Started(u)
  PROVE  WTurn'
<1>1. \A u : u \in {v \in W!Task : Started(v)'}
              <=> u \in {v \in W!Task : Started(v)}
  OBVIOUS
<1>2. {v \in W!Task : Started(v)'} = {v \in W!Task : Started(v)}
  BY <1>1
<1>3. wNext' = Cardinality({v \in W!Task : Started(v)'}) + 1
  BY <1>2 DEF WTurn
<1>4. \A u \in W!Task : Started(u)' =>
        taskID'[u] \in W!ID /\ taskID'[u] < wNext'
  BY DEF WTurn
<1>5. \A u, v \in W!Task :
        u # v /\ Started(u)' /\ Started(v)' => taskID'[u] # taskID'[v]
  BY DEF WTurn
<1> QED BY <1>3, <1>4, <1>5 DEF WTurn

(* Who has subscribed stays subscribed.                                    *)
LEMMA SubscribersKept ==
  ASSUME UNCHANGED taskID,
         \A c \in Listener : pc[c] = "while" =>
           pc'[c] = "while" /\ station_id'[c] = station_id[c],
         NEW s
  PROVE  Subscribers(s) \subseteq Subscribers(s)'
BY DEF Subscribers

(* A step of t that touches no queue but its own.                          *)
LEMMA OwnStep ==
  ASSUME WInv, NEW t \in W!Task, Started(t), Started(t)',
         UNCHANGED <<wNext, taskID>>,
         \A u \in W!Task : u # t => pc'[u] = pc[u],
         \A c \in Listener : c # t => station_id'[c] = station_id[c],
         pc[t] = "while" => pc'[t] = "while" /\ UNCHANGED station_id,
         \A n \in W!ID : n # taskID[t] => wQueue'[n] = wQueue[n],
         Expected(t, pc'[t], wQueue'[taskID[t]], station_id'[t],
                  Subscribers(t))
  PROVE  /\ WTurn'
         /\ \A s : Subscribers(s) \subseteq Subscribers(s)'
         /\ \A u \in W!Task : Started(u)' =>
              Expected(u, pc'[u], wQueue'[taskID'[u]], station_id'[u],
                       Subscribers(u)')
<1>1. \A u \in W!Task : Started(u)' <=> Started(u)
  BY DEF Started
<1>2. WTurn'
  BY <1>1, TurnKept DEF WInv
<1>3. ASSUME NEW s PROVE Subscribers(s) \subseteq Subscribers(s)'
  BY SubscribersKept, TaskFacts
<1>4. ASSUME NEW u \in W!Task, Started(u)
      PROVE  Expected(u, pc'[u], wQueue'[taskID[u]], station_id'[u],
                      Subscribers(u)')
  <2>1. CASE u = t
    BY <1>3, <2>1, ExpectedMore
  <2>2. CASE u # t
    <3>1. taskID[u] \in W!ID /\ taskID[u] # taskID[t]
      BY <1>4, <2>2 DEF WInv, WTurn
    <3>2. wQueue'[taskID[u]] = wQueue[taskID[u]] /\ pc'[u] = pc[u]
      BY <2>2, <3>1
    <3>3. u \in Listener => station_id'[u] = station_id[u]
      BY <2>2
    <3>4. Expected(u, pc[u], wQueue[taskID[u]], station_id[u],
                   Subscribers(u))
      BY <1>4 DEF WInv, WPosts
    <3> QED BY <1>3, <3>2, <3>3, <3>4, ExpectedMore
  <2> QED BY <2>1, <2>2
<1> QED BY <1>1, <1>2, <1>3, <1>4

(* A step that registers and looks up nothing.                             *)
LEMMA NamesKept ==
  ASSUME WInv, UNCHANGED <<wName, taskID, station_id>>,
         \A u \in W!Task : pc'[u] \notin {"off", "name"} =>
           station_name'[u] = NameOf[u],
         \A u \in W!Task : pc[u] = "while" => pc'[u] = "while",
         \A c \in Listener : pc'[c] \in {"sub", "while"} =>
           pc'[c] = pc[c] \/ (station_id[c] # -1 /\ pc[c] = "sub")
  PROVE  WNames'
<1>1. ASSUME NEW n \in W!ID, wName[n] # "no name"
      PROVE  \E s \in Station : /\ pc'[s] = "while" /\ taskID[s] = n
                                /\ wName[n] = NameOf[s]
  <2>1. PICK s \in Station : /\ pc[s] = "while" /\ taskID[s] = n
                            /\ wName[n] = NameOf[s]
    BY <1>1 DEF WInv, WNames
  <2> QED BY <2>1, TaskFacts
<1>2. ASSUME NEW c \in Listener, pc'[c] \in {"sub", "while"}
      PROVE  \/ station_id[c] = -1 /\ pc'[c] = "sub"
             \/ station_id[c] \in W!ID /\ wName[station_id[c]] = NameOf[c]
  BY <1>2 DEF WInv, WNames
<1> QED BY <1>1, <1>2 DEF WNames

(* The first receive of a task: its name.                                  *)
LEMMA WReceiveName ==
  ASSUME WInv, NEW t \in W!Task, W!ReceiveName(t)
  PROVE  WInv'
<1> DEFINE next == IF t \in Station THEN "set_name" ELSE "get_id"
           msg == [tag |-> "NAME", val |-> NameOf[t]]
           n == taskID[t]
<1> USE DEF WInv
<1>1. /\ pc[t] = "name" /\ wQueue[n] # << >>
      /\ station_name' = [station_name EXCEPT ![t] = Head(wQueue[n]).val]
      /\ wQueue' = [wQueue EXCEPT ![n] = Tail(@)]
      /\ pc' = [pc EXCEPT ![t] = next]
      /\ UNCHANGED <<wNext, wName, taskID, subs, station_id, heard>>
  BY DEF W!ReceiveName, W!Goto
<1>2. n \in W!ID /\ Started(t)
  BY <1>1 DEF Started, WTurn
<1>3. wQueue[n] = << msg >>
  BY <1>1, <1>2 DEF WPosts, Expected
<1>4. /\ Head(wQueue[n]) = msg /\ Tail(wQueue[n]) = << >>
      /\ msg.val = NameOf[t]
  <2> HIDE DEF msg
  <2>1. Head(<< msg >>) = msg /\ Tail(<< msg >>) = << >>
    OBVIOUS
  <2> QED BY <1>3, <2>1 DEF msg
<1>5. /\ pc'[t] = next /\ station_name'[t] = NameOf[t] /\ wQueue'[n] = << >>
      /\ \A u \in W!Task : u # t => /\ pc'[u] = pc[u]
                                    /\ station_name'[u] = station_name[u]
      /\ \A m \in W!ID : m # n => wQueue'[m] = wQueue[m]
  BY <1>1, <1>2, <1>4 DEF WTypes
<1>6. next \in {"set_name", "get_id"} /\ NameOf[t] \in Name
  BY TaskFacts
<1> HIDE DEF msg, n
<1>7. WTypes'
  <2>1. wQueue' \in [W!ID -> Seq(Post)]
    BY <1>1, <1>4, EmptySeq DEF WTypes
  <2>2. station_name' \in [W!Task -> Name \cup {"no name"}]
    BY <1>1, <1>4, <1>6 DEF WTypes
  <2>3. pc' \in [W!Task -> WeatherPlace]
    BY <1>1, <1>6 DEF WTypes, WeatherPlace
  <2>4. /\ \A s \in Station : pc'[s] \notin {"get_id", "sub", "undefined"}
        /\ \A c \in Listener : pc'[c] # "set_name"
    BY <1>5, TaskFacts DEF WTypes
  <2> QED BY <1>1, <2>1, <2>2, <2>3, <2>4 DEF WTypes
<1> HIDE DEF next
<1>8. Expected(t, pc'[t], wQueue'[n], station_id'[t], Subscribers(t))
  BY <1>5, <1>6 DEF Expected
<1>9. /\ WTurn'
      /\ \A s : Subscribers(s) \subseteq Subscribers(s)'
      /\ \A u \in W!Task : Started(u)' =>
           Expected(u, pc'[u], wQueue'[taskID'[u]], station_id'[u],
                    Subscribers(u)')
  <2>1. Started(t)'
    BY <1>5, <1>6 DEF Started
  <2> QED BY <1>1, <1>2, <1>5, <1>8, <2>1, OwnStep DEF n
<1>10. WNames'
  <2>1. \A u \in W!Task : pc'[u] \notin {"off", "name"} =>
          station_name'[u] = NameOf[u]
    BY <1>5 DEF WNames
  <2>2. \A u \in W!Task : pc'[u] = pc[u] \/ pc'[u] \in {"set_name", "get_id"}
    BY <1>5, <1>6
  <2>3. \A u \in W!Task : pc[u] = "while" => pc'[u] = "while"
    BY <1>1, <1>5
  <2>4. \A c \in Listener :
          pc'[c] \in {"sub", "while"} => pc'[c] = pc[c]
    BY <2>2, TaskFacts
  <2> QED BY <1>1, <2>1, <2>3, <2>4, NamesKept
<1>11. WPosts'
  <2>1. \A s \in Station : pc'[s] = "while" <=> pc[s] = "while"
    BY <1>1, <1>5, <1>6, TaskFacts
  <2>2. \A c \in Listener : pc[c] = "while" => pc'[c] = "while"
    BY <1>1, <1>5, TaskFacts
  <2>3. \A s \in Station :
          /\ Len(subs'[s]) <= MaxSub
          /\ \A i \in 1 .. Len(subs'[s]) : subs'[s][i] \in Subscribers(s)'
          /\ pc'[s] # "while" => subs'[s] = << >>
    BY <1>1, <1>9, <2>1 DEF WPosts
  <2> QED BY <1>1, <1>9, <2>2, <2>3 DEF WPosts
<1> QED BY <1>7, <1>9, <1>10, <1>11

(* A station registers its name.                                           *)
LEMMA WSetName ==
  ASSUME WInv, NEW s \in Station, W!repository_set_name(s)
  PROVE  WInv'
<1> DEFINE n == taskID[s]
<1> USE DEF WInv
<1>1. /\ pc[s] = "set_name" /\ s \in W!Task
      /\ wName' = [wName EXCEPT ![n] = station_name[s]]
      /\ pc' = [pc EXCEPT ![s] = "while"]
      /\ UNCHANGED <<wNext, wQueue, taskID, station_name, subs, station_id,
                     heard>>
  BY TaskFacts DEF W!repository_set_name, W!Goto, W!localVars
<1>2. n \in W!ID /\ Started(s) /\ station_name[s] = NameOf[s]
      /\ wQueue[n] = << >>
  BY <1>1 DEF Started, WTurn, WNames, WPosts, Expected
<1>3. /\ pc'[s] = "while" /\ wName'[n] = NameOf[s]
      /\ \A u \in W!Task : u # s => pc'[u] = pc[u]
      /\ \A m \in W!ID : m # n => wName'[m] = wName[m]
  BY <1>1, <1>2 DEF WTypes
<1>4. NameOf[s] \in Name /\ NameOf[s] # "no name" /\ s \notin Listener
  BY <1>1, TaskFacts
<1> HIDE DEF n
<1>5. WTypes'
  <2>1. pc' \in [W!Task -> WeatherPlace]
    BY <1>1 DEF WTypes, WeatherPlace
  <2>2. wName' \in [W!ID -> Name \cup {"no name"}]
    BY <1>1, <1>2, <1>4 DEF WTypes
  <2>3. /\ \A u \in Station : pc'[u] \notin {"get_id", "sub", "undefined"}
        /\ \A c \in Listener : pc'[c] # "set_name"
    BY <1>3, TaskFacts DEF WTypes
  <2> QED BY <1>1, <2>1, <2>2, <2>3 DEF WTypes
<1>6. Expected(s, "while", wQueue[n], station_id[s], Subscribers(s))
  BY <1>2, EmptySeq DEF Expected
<1>7. /\ WTurn'
      /\ \A u : Subscribers(u) \subseteq Subscribers(u)'
      /\ \A u \in W!Task : Started(u)' =>
           Expected(u, pc'[u], wQueue'[taskID'[u]], station_id'[u],
                    Subscribers(u)')
  <2>1. Started(s)'
    BY <1>3 DEF Started
  <2> QED BY <1>1, <1>2, <1>3, <1>6, <2>1, OwnStep DEF n
<1>8. WNames'
  <2>1. \A u \in W!Task : pc'[u] \notin {"off", "name"} =>
          station_name'[u] = NameOf[u]
    BY <1>1, <1>2, <1>3 DEF WNames
  <2>2. ASSUME NEW m \in W!ID, wName'[m] # "no name"
        PROVE  \E u \in Station : /\ pc'[u] = "while" /\ taskID'[u] = m
                                  /\ wName'[m] = NameOf[u]
    <3>1. CASE m = n
      BY <1>1, <1>3, <3>1 DEF n
    <3>2. CASE m # n
      <4>1. PICK u \in Station : /\ pc[u] = "while" /\ taskID[u] = m
                                /\ wName[m] = NameOf[u]
        BY <1>3, <2>2, <3>2 DEF WNames
      <4>2. u # s /\ u \in W!Task
        BY <1>1, <4>1, TaskFacts
      <4> QED BY <1>1, <1>3, <3>2, <4>1, <4>2
    <3> QED BY <3>1, <3>2
  <2>3. wName[n] = "no name"
    <3> SUFFICES ASSUME wName[n] # "no name" PROVE FALSE
      OBVIOUS
    <3>1. PICK u \in Station : pc[u] = "while" /\ taskID[u] = n
      BY <1>2 DEF WNames
    <3>2. u # s /\ u \in W!Task /\ Started(u)
      BY <1>1, <3>1, TaskFacts DEF Started
    <3> QED BY <1>1, <1>2, <3>1, <3>2 DEF WTurn, n
  <2>4. ASSUME NEW c \in Listener, pc'[c] \in {"sub", "while"}
        PROVE  \/ station_id'[c] = -1 /\ pc'[c] = "sub"
               \/ /\ station_id'[c] \in W!ID
                  /\ wName'[station_id'[c]] = NameOf[c]
    <3>1. c \in W!Task /\ c # s /\ pc'[c] = pc[c] /\ NameOf[c] # "no name"
      BY <1>3, <1>4, TaskFacts
    <3>2. \/ station_id[c] = -1 /\ pc[c] = "sub"
          \/ station_id[c] \in W!ID /\ wName[station_id[c]] = NameOf[c]
      BY <2>4, <3>1 DEF WNames
    <3> QED BY <1>1, <1>3, <2>3, <3>1, <3>2
  <2> QED BY <2>1, <2>2, <2>4 DEF WNames
<1>9. WPosts'
  <2>1. \A u \in Station :
          /\ Len(subs'[u]) <= MaxSub
          /\ \A i \in 1 .. Len(subs'[u]) : subs'[u][i] \in Subscribers(u)'
          /\ pc'[u] # "while" => subs'[u] = << >>
    BY <1>1, <1>3, <1>7, TaskFacts DEF WPosts
  <2>2. \A c \in Listener : pc'[c] = pc[c]
    BY <1>3, <1>4, TaskFacts
  <2> QED BY <1>1, <1>7, <2>1, <2>2 DEF WPosts
<1> QED BY <1>5, <1>7, <1>8, <1>9

(* A client looks its station up.                                          *)
LEMMA WLookup ==
  ASSUME WInv, NEW c \in Listener, W!Lookup(c)
  PROVE  WInv'
<1> DEFINE found == {n \in W!ID : wName[n] = NameOf[c]}
           got == W!repository_get_id(station_name[c])
<1> USE DEF WInv
<1>1. /\ pc[c] = "get_id" /\ c \in W!Task
      /\ station_id' = [station_id EXCEPT ![c] = got]
      /\ pc' = [pc EXCEPT ![c] = "sub"]
      /\ UNCHANGED <<wNext, wName, wQueue, taskID, station_name, subs, heard>>
  BY TaskFacts DEF W!Lookup, W!Goto
<1>2. /\ Started(c) /\ station_name[c] = NameOf[c] /\ taskID[c] \in W!ID
      /\ wQueue[taskID[c]] = << >>
  BY <1>1 DEF Started, WTurn, WNames, WPosts, Expected
<1>3. got = -1 \/ got \in found
  <2>1. found \in SUBSET Nat
    BY TaskFacts
  <2>2. got = IF found = {} THEN -1
              ELSE CHOOSE n \in found : \A m \in found : n <= m
    BY <1>2 DEF W!repository_get_id
  <2>3. found # {} => \E n \in found : \A m \in found : n <= m
    BY <2>1, Smallest
  <2> QED BY <2>2, <2>3
<1> HIDE DEF got
<1>4. /\ pc'[c] = "sub" /\ station_id'[c] = got
      /\ \A u \in W!Task : u # c => pc'[u] = pc[u]
      /\ \A d \in Listener : d # c => station_id'[d] = station_id[d]
  BY <1>1 DEF WTypes
<1>5. c \notin Station
  BY <1>1, TaskFacts
<1>6. WTypes'
  <2>1. pc' \in [W!Task -> WeatherPlace]
    BY <1>1 DEF WTypes, WeatherPlace
  <2>2. station_id' \in [Listener -> W!ID \cup {-1, 0}]
    BY <1>1, <1>3 DEF WTypes
  <2>3. /\ \A s \in Station : pc'[s] \notin {"get_id", "sub", "undefined"}
        /\ \A d \in Listener : pc'[d] # "set_name"
    BY <1>4, <1>5, TaskFacts DEF WTypes
  <2> QED BY <1>1, <2>1, <2>2, <2>3 DEF WTypes
<1>7. Expected(c, "sub", wQueue[taskID[c]], station_id'[c], Subscribers(c))
  BY <1>2 DEF Expected
<1>8. /\ WTurn'
      /\ \A u : Subscribers(u) \subseteq Subscribers(u)'
      /\ \A u \in W!Task : Started(u)' =>
           Expected(u, pc'[u], wQueue'[taskID'[u]], station_id'[u],
                    Subscribers(u)')
  <2>1. Started(c)'
    BY <1>4 DEF Started
  <2> QED BY <1>1, <1>2, <1>4, <1>7, <2>1, OwnStep
<1>9. WNames'
  <2>1. \A u \in W!Task : pc'[u] \notin {"off", "name"} =>
          station_name'[u] = NameOf[u]
    BY <1>1, <1>2, <1>4 DEF WNames
  <2>2. ASSUME NEW m \in W!ID, wName'[m] # "no name"
        PROVE  \E u \in Station : /\ pc'[u] = "while" /\ taskID'[u] = m
                                  /\ wName'[m] = NameOf[u]
    <3>1. PICK u \in Station : /\ pc[u] = "while" /\ taskID[u] = m
                              /\ wName[m] = NameOf[u]
      BY <1>1, <2>2 DEF WNames
    <3> QED BY <1>1, <1>4, <1>5, <3>1, TaskFacts
  <2>3. ASSUME NEW d \in Listener, pc'[d] \in {"sub", "while"}
        PROVE  \/ station_id'[d] = -1 /\ pc'[d] = "sub"
               \/ /\ station_id'[d] \in W!ID
                  /\ wName'[station_id'[d]] = NameOf[d]
    <3>1. CASE d = c
      BY <1>1, <1>3, <1>4, <3>1
    <3>2. CASE d # c
      BY <1>1, <1>4, <2>3, <3>2, TaskFacts DEF WNames
    <3> QED BY <3>1, <3>2
  <2> QED BY <2>1, <2>2, <2>3 DEF WNames
<1>10. WPosts'
  <2>1. \A s \in Station : pc'[s] = pc[s]
    BY <1>4, <1>5, TaskFacts
  <2>2. \A s \in Station :
          /\ Len(subs'[s]) <= MaxSub
          /\ \A i \in 1 .. Len(subs'[s]) : subs'[s][i] \in Subscribers(s)'
          /\ pc'[s] # "while" => subs'[s] = << >>
    BY <1>1, <1>8, <2>1 DEF WPosts
  <2>3. ASSUME NEW d \in Listener, heard'[d] # {}
        PROVE  heard'[d] = {station_id'[d]} /\ pc'[d] = "while"
    BY <1>1, <1>4, <2>3, TaskFacts DEF WPosts
  <2> QED BY <1>8, <2>2, <2>3 DEF WPosts
<1> QED BY <1>6, <1>8, <1>9, <1>10

(* A station takes a subscription.                                         *)
LEMMA WStationReceive ==
  ASSUME WInv, NEW s \in Station, W!StationReceive(s)
  PROVE  WInv'
<1> DEFINE n == taskID[s]
           q == wQueue[n]
           v == Head(q).val
<1> USE DEF WInv
<1>1. /\ pc[s] = "while" /\ s \in W!Task /\ q # << >>
      /\ wQueue' = [wQueue EXCEPT ![n] = Tail(q)]
      /\ subs' = [subs EXCEPT ![s] =
                    IF Len(@) < MaxSub THEN Append(@, v) ELSE @]
      /\ UNCHANGED <<wNext, wName, pc, taskID, station_name, station_id,
                     heard>>
  BY TaskFacts DEF W!StationReceive, W!handle_SubMsg
<1>2. n \in W!ID /\ Started(s) /\ q \in Seq(Post)
      /\ Expected(s, "while", q, station_id[s], Subscribers(s))
  BY <1>1 DEF Started, WTurn, WPosts, WTypes
<1> HIDE DEF q, n
<1>3. /\ wQueue'[n] = Tail(q) /\ Tail(q) \in Seq(Post)
      /\ \A m \in W!ID : m # n => wQueue'[m] = wQueue[m]
  BY <1>1, <1>2, HeadTailProperties DEF WTypes
<1>4. v \in Subscribers(s) /\ v \in Nat
  <2>1. 1 \in 1 .. Len(q) /\ Head(q) = q[1]
    BY <1>1, <1>2, HeadTailProperties, EmptySeq
  <2>2. v \in Subscribers(s)
    BY <1>1, <1>2, <2>1 DEF Expected
  <2> QED BY <2>2, TaskFacts DEF Subscribers
<1> HIDE DEF v
<1>5. Expected(s, "while", Tail(q), station_id[s], Subscribers(s))
  BY <1>1, <1>2, ExpectedTail
<1>6. /\ WTurn'
      /\ \A u : Subscribers(u) \subseteq Subscribers(u)'
      /\ \A u \in W!Task : Started(u)' =>
           Expected(u, pc'[u], wQueue'[taskID'[u]], station_id'[u],
                    Subscribers(u)')
  <2>1. Started(s)'
    BY <1>1 DEF Started
  <2> QED BY <1>1, <1>2, <1>3, <1>5, <2>1, OwnStep DEF n
<1>7. subs[s] \in Seq(Nat) /\ Append(subs[s], v) \in Seq(Nat)
      /\ MaxSub \in Nat
  <2>1. subs[s] \in Seq(Nat)
    BY DEF WTypes
  <2>2. MaxSub \in Nat
    BY TaskFacts
  <2> QED BY <1>4, <2>1, <2>2
<1>8. WTypes'
  <2>1. wQueue' \in [W!ID -> Seq(Post)]
    BY <1>1, <1>3 DEF WTypes
  <2>2. subs' \in [Station -> Seq(Nat)]
    BY <1>1, <1>7 DEF WTypes
  <2> QED BY <1>1, <2>1, <2>2 DEF WTypes
<1>9. WNames'
  BY <1>1 DEF WNames
<1>10. ASSUME NEW u \in Station
       PROVE  /\ Len(subs'[u]) <= MaxSub
              /\ \A i \in 1 .. Len(subs'[u]) : subs'[u][i] \in Subscribers(u)
              /\ pc[u] # "while" => subs'[u] = << >>
  <2>1. CASE u # s
    <3>1. subs'[u] = subs[u]
      BY <1>1, <2>1 DEF WTypes
    <3> QED BY <3>1 DEF WPosts
  <2>2. CASE u = s /\ Len(subs[s]) < MaxSub
    <3>1. subs'[u] = Append(subs[s], v)
      BY <1>1, <2>2 DEF WTypes
    <3>2. /\ Len(subs'[u]) = Len(subs[s]) + 1 /\ Len(subs[s]) \in Nat
          /\ \A i \in 1 .. Len(subs'[u]) :
               (i \in 1 .. Len(subs[s]) /\ subs'[u][i] = subs[s][i])
               \/ subs'[u][i] = v
      BY <1>4, <1>7, <3>1
    <3>3. Len(subs'[u]) <= MaxSub
      BY <1>7, <2>2, <3>2
    <3> QED BY <1>1, <1>4, <2>2, <3>2, <3>3 DEF WPosts
  <2>3. CASE u = s /\ ~(Len(subs[s]) < MaxSub)
    <3>1. subs'[u] = subs[u]
      BY <1>1, <2>3 DEF WTypes
    <3> QED BY <3>1 DEF WPosts
  <2> QED BY <2>1, <2>2, <2>3
<1>11. WPosts'
  <2>1. \A u \in Station :
          /\ Len(subs'[u]) <= MaxSub
          /\ \A i \in 1 .. Len(subs'[u]) : subs'[u][i] \in Subscribers(u)'
          /\ pc'[u] # "while" => subs'[u] = << >>
    BY <1>1, <1>6, <1>10
  <2>2. \A c \in Listener : heard'[c] # {} =>
          heard'[c] = {station_id'[c]} /\ pc'[c] = "while"
    BY <1>1 DEF WPosts
  <2> QED BY <1>6, <2>1, <2>2 DEF WPosts
<1> QED BY <1>6, <1>8, <1>9, <1>11

(* A client takes a post.                                                  *)
LEMMA WHandlePost ==
  ASSUME WInv, NEW c \in Listener, W!handle_PostWeatherMsg(c)
  PROVE  WInv'
<1> DEFINE n == taskID[c]
           q == wQueue[n]
           v == Head(q).val
<1> USE DEF WInv
<1>1. /\ pc[c] = "while" /\ c \in W!Task /\ q # << >>
      /\ wQueue' = [wQueue EXCEPT ![n] = Tail(q)]
      /\ heard' = [heard EXCEPT ![c] = @ \cup {v}]
      /\ UNCHANGED <<wNext, wName, pc, taskID, station_name, subs, station_id>>
  BY TaskFacts DEF W!handle_PostWeatherMsg
<1>2. n \in W!ID /\ Started(c) /\ q \in Seq(Post)
      /\ Expected(c, "while", q, station_id[c], Subscribers(c))
  BY <1>1 DEF Started, WTurn, WPosts, WTypes
<1> HIDE DEF q, n
<1>3. /\ wQueue'[n] = Tail(q) /\ Tail(q) \in Seq(Post)
      /\ \A m \in W!ID : m # n => wQueue'[m] = wQueue[m]
  BY <1>1, <1>2, HeadTailProperties DEF WTypes
<1>4. v = station_id[c]
  <2>1. 1 \in 1 .. Len(q) /\ Head(q) = q[1]
    BY <1>1, <1>2, HeadTailProperties, EmptySeq
  <2> QED BY <1>1, <1>2, <2>1 DEF Expected
<1>5. v \in Nat
  BY <1>1, <1>4, TaskFacts DEF WNames
<1> HIDE DEF v
<1>6. Expected(c, "while", Tail(q), station_id[c], Subscribers(c))
  BY <1>1, <1>2, ExpectedTail
<1>7. /\ WTurn'
      /\ \A u : Subscribers(u) \subseteq Subscribers(u)'
      /\ \A u \in W!Task : Started(u)' =>
           Expected(u, pc'[u], wQueue'[taskID'[u]], station_id'[u],
                    Subscribers(u)')
  <2>1. Started(c)'
    BY <1>1 DEF Started
  <2> QED BY <1>1, <1>2, <1>3, <1>6, <2>1, OwnStep DEF n
<1>8. WTypes'
  <2>1. wQueue' \in [W!ID -> Seq(Post)]
    BY <1>1, <1>3 DEF WTypes
  <2>2. heard' \in [Listener -> SUBSET Nat]
    BY <1>1, <1>5 DEF WTypes
  <2> QED BY <1>1, <2>1, <2>2 DEF WTypes
<1>9. WNames'
  BY <1>1 DEF WNames
<1>10. WPosts'
  <2>1. \A u \in Station :
          /\ Len(subs'[u]) <= MaxSub
          /\ \A i \in 1 .. Len(subs'[u]) : subs'[u][i] \in Subscribers(u)'
          /\ pc'[u] # "while" => subs'[u] = << >>
    BY <1>1, <1>7 DEF WPosts
  <2>2. ASSUME NEW d \in Listener, heard'[d] # {}
        PROVE  heard'[d] = {station_id'[d]} /\ pc'[d] = "while"
    <3>1. CASE d = c
      <4>1. heard'[c] = heard[c] \cup {v}
        BY <1>1 DEF WTypes
      <4>2. heard[c] = {} \/ heard[c] = {v}
        BY <1>4 DEF WPosts
      <4>3. heard'[c] = {v}
        BY <4>1, <4>2
      <4> QED BY <1>1, <1>4, <3>1, <4>3
    <3>2. CASE d # c
      <4>1. heard'[d] = heard[d]
        BY <1>1, <3>2 DEF WTypes
      <4> QED BY <1>1, <2>2, <4>1 DEF WPosts
    <3> QED BY <3>1, <3>2
  <2> QED BY <1>7, <2>1, <2>2 DEF WPosts
<1> QED BY <1>7, <1>8, <1>9, <1>10

(* The weather goes to every subscriber that has room for it.              *)
LEMMA WBroadcast ==
  ASSUME WInv, NEW s \in Station, W!Broadcast(s)
  PROVE  WInv'
<1> DEFINE to == {subs[s][i] : i \in DOMAIN subs[s]}
           post == [tag |-> "POST", val |-> taskID[s]]
<1> USE DEF WInv
<1>1. /\ pc[s] = "while" /\ s \in W!Task
      /\ wQueue' = [n \in W!ID |-> IF n \in to THEN W!Put(wQueue, n, post)[n]
                                             ELSE wQueue[n]]
      /\ UNCHANGED <<wNext, wName, pc, taskID, station_name, subs, station_id,
                     heard>>
  BY TaskFacts DEF W!Broadcast, W!localVars
<1>2. post \in Post /\ post.tag = "POST" /\ post.val = taskID[s]
  BY <1>1 DEF Post, WTypes
<1> HIDE DEF post
<1>3. \A n \in to : n \in Subscribers(s)
  <2>1. \A i \in 1 .. Len(subs[s]) : subs[s][i] \in Subscribers(s)
    BY DEF WPosts
  <2>2. subs[s] \in Seq(Nat)
    BY DEF WTypes
  <2>3. DOMAIN subs[s] = 1 .. Len(subs[s])
    BY <2>2
  <2> QED BY <2>1, <2>3
<1> HIDE DEF to
<1>4. ASSUME NEW n \in W!ID
      PROVE  \/ wQueue'[n] = wQueue[n]
             \/ n \in to /\ wQueue'[n] = Append(wQueue[n], post)
  BY <1>1 DEF W!Put, WTypes
<1>5. WTypes'
  <2>1. DOMAIN wQueue' = W!ID /\ wQueue' = [n \in W!ID |-> wQueue'[n]]
    BY <1>1
  <2>2. ASSUME NEW n \in W!ID PROVE wQueue'[n] \in Seq(Post)
    <3>1. wQueue[n] \in Seq(Post)
      BY DEF WTypes
    <3>2. Append(wQueue[n], post) \in Seq(Post)
      BY <1>2, <3>1
    <3> QED BY <1>4, <3>1, <3>2
  <2>3. wQueue' \in [W!ID -> Seq(Post)]
    BY <2>1, <2>2
  <2> QED BY <1>1, <2>3 DEF WTypes
<1>6. WTurn'
  BY <1>1, TurnKept DEF Started
<1>7. WNames'
  BY <1>1 DEF WNames
<1>8. ASSUME NEW u PROVE Subscribers(u)' = Subscribers(u)
  BY <1>1 DEF Subscribers
<1>9. ASSUME NEW u \in W!Task, Started(u)
      PROVE  Expected(u, pc[u], wQueue'[taskID[u]], station_id[u],
                      Subscribers(u))
  <2> DEFINE n == taskID[u]
  <2>1. n \in W!ID /\ wQueue[n] \in Seq(Post)
        /\ Expected(u, pc[u], wQueue[n], station_id[u], Subscribers(u))
    BY <1>9 DEF WTurn, WPosts, WTypes
  <2>2. CASE wQueue'[n] = wQueue[n]
    BY <2>1, <2>2
  <2>3. CASE n \in to /\ wQueue'[n] = Append(wQueue[n], post)
    <3>1. PICK c \in Listener : /\ pc[c] = "while" /\ taskID[c] = n
                               /\ station_id[c] = taskID[s]
      BY <1>3, <2>3 DEF Subscribers
    <3>2. u = c
      BY <1>9, <3>1, TaskFacts DEF WTurn, Started
    <3>3. u \notin Station /\ pc[u] = "while" /\ post.val = station_id[u]
      BY <1>2, <3>1, <3>2, TaskFacts
    <3> HIDE DEF n
    <3>4. Expected(u, "while", Append(wQueue[n], post), station_id[u],
                   Subscribers(u))
      BY <1>2, <2>1, <3>3, ExpectedAppend
    <3> QED BY <2>3, <3>3, <3>4 DEF n
  <2> QED BY <1>4, <2>1, <2>2, <2>3
<1>10. WPosts'
  <2>1. \A u \in W!Task : Started(u)' =>
          Expected(u, pc'[u], wQueue'[taskID'[u]], station_id'[u],
                   Subscribers(u)')
    BY <1>1, <1>8, <1>9 DEF Started
  <2>2. \A u \in Station :
          /\ Len(subs'[u]) <= MaxSub
          /\ \A i \in 1 .. Len(subs'[u]) : subs'[u][i] \in Subscribers(u)'
          /\ pc'[u] # "while" => subs'[u] = << >>
    BY <1>1, <1>8 DEF WPosts
  <2>3. \A c \in Listener : heard'[c] # {} =>
          heard'[c] = {station_id'[c]} /\ pc'[c] = "while"
    BY <1>1 DEF WPosts
  <2> QED BY <2>1, <2>2, <2>3 DEF WPosts
<1> QED BY <1>5, <1>6, <1>7, <1>10

(* A client sends its subscription.                                        *)
LEMMA WSubscribe ==
  ASSUME WInv, NEW c \in Listener, W!Subscribe(c)
  PROVE  WInv'
<1> DEFINE n == taskID[c]
           m == station_id[c]
           sub == [tag |-> "SUB", val |-> taskID[c]]
<1> USE DEF WInv
<1>1. /\ pc[c] = "sub" /\ c \in W!Task /\ c \notin Station
      /\ UNCHANGED <<wNext, wName, taskID, station_name, subs, station_id,
                     heard>>
  BY TaskFacts DEF W!Subscribe, W!localVars
<1>2. /\ Started(c) /\ n \in W!ID /\ n \in Nat /\ wQueue[n] = << >>
  BY <1>1, TaskFacts DEF Started, WTurn, WPosts, Expected
<1>3. \/ /\ m = -1 /\ pc' = [pc EXCEPT ![c] = "undefined"]
         /\ wQueue' = wQueue
      \/ /\ m # -1 /\ pc' = [pc EXCEPT ![c] = "while"]
         /\ wQueue' = W!Put(wQueue, m, sub)
  BY DEF W!Subscribe, W!Goto
<1>4. /\ pc'[c] \in {"undefined", "while"} /\ (pc'[c] = "while" => m # -1)
      /\ \A u \in W!Task : u # c => pc'[u] = pc[u]
  BY <1>1, <1>3 DEF WTypes
<1>5. sub \in Post /\ sub.tag = "SUB" /\ sub.val = n
  BY <1>2 DEF Post
<1> HIDE DEF sub, n
<1>6. wQueue' \in [W!ID -> Seq(Post)] /\
      \A k \in W!ID : wQueue'[k] # wQueue[k] =>
        m # -1 /\ k = m /\ wQueue'[k] = Append(wQueue[k], sub)
        /\ pc'[c] = "while"
  <2> HIDE DEF m
  <2>1. CASE wQueue' = wQueue
    BY <2>1 DEF WTypes
  <2>2. CASE wQueue' # wQueue
    <3>1. m # -1 /\ wQueue' = W!Put(wQueue, m, sub) /\ pc'[c] = "while"
      BY <1>1, <1>3, <2>2 DEF WTypes
    <3>2. m \in W!ID
      BY <1>1, <3>1 DEF WNames, m
    <3>3. wQueue' = [wQueue EXCEPT ![m] = Append(wQueue[m], sub)]
      BY <2>2, <3>1 DEF W!Put
    <3>4. wQueue[m] \in Seq(Post)
      BY <3>2 DEF WTypes
    <3>5. Append(wQueue[m], sub) \in Seq(Post)
      BY <1>5, <3>4
    <3> QED BY <3>1, <3>2, <3>3, <3>5 DEF WTypes
  <2> QED BY <2>1, <2>2
<1>7. WTypes'
  <2>1. pc' \in [W!Task -> WeatherPlace]
    BY <1>3 DEF WTypes, WeatherPlace
  <2>2. /\ \A s \in Station : pc'[s] \notin {"get_id", "sub", "undefined"}
        /\ \A d \in Listener : pc'[d] # "set_name"
    BY <1>1, <1>4, TaskFacts DEF WTypes
  <2> QED BY <1>1, <1>6, <2>1, <2>2 DEF WTypes
<1>8. WTurn'
  <2>1. \A u \in W!Task : Started(u)' <=> Started(u)
    BY <1>1, <1>4 DEF Started
  <2> QED BY <1>1, <2>1, TurnKept
<1>9. WNames'
  <2>1. \A u \in W!Task : pc'[u] \notin {"off", "name"} =>
          station_name'[u] = NameOf[u]
    BY <1>1, <1>4 DEF WNames
  <2>2. \A u \in W!Task : pc[u] = "while" => pc'[u] = "while"
    BY <1>1, <1>4
  <2>3. \A d \in Listener : pc'[d] \in {"sub", "while"} =>
          pc'[d] = pc[d] \/ (station_id[d] # -1 /\ pc[d] = "sub")
    BY <1>1, <1>4, TaskFacts
  <2> QED BY <1>1, <2>1, <2>2, <2>3, NamesKept
<1>10. ASSUME NEW u PROVE Subscribers(u) \subseteq Subscribers(u)'
  <2>1. \A d \in Listener : pc[d] = "while" =>
          pc'[d] = "while" /\ station_id'[d] = station_id[d]
    BY <1>1, <1>4, TaskFacts
  <2> QED BY <1>1, <2>1, SubscribersKept
<1>11. ASSUME NEW u \in W!Task, Started(u), u # c
       PROVE  Expected(u, pc[u], wQueue'[taskID[u]], station_id[u],
                       Subscribers(u)')
  <2> DEFINE k == taskID[u]
  <2>1. k \in W!ID /\ wQueue[k] \in Seq(Post)
        /\ Expected(u, pc[u], wQueue[k], station_id[u], Subscribers(u)')
    <3>1. k \in W!ID /\ wQueue[k] \in Seq(Post)
          /\ Expected(u, pc[u], wQueue[k], station_id[u], Subscribers(u))
      BY <1>11 DEF WTurn, WPosts, WTypes
    <3> QED BY <1>10, <3>1, ExpectedMore
  <2>2. CASE wQueue'[k] = wQueue[k]
    BY <2>1, <2>2
  <2>3. CASE wQueue'[k] # wQueue[k]
    <3>1. /\ m # -1 /\ k = m /\ wQueue'[k] = Append(wQueue[k], sub)
          /\ pc'[c] = "while"
      BY <1>6, <2>1, <2>3
    <3>2. m \in W!ID /\ wName[m] = NameOf[c] /\ NameOf[c] # "no name"
      BY <1>1, <3>1, TaskFacts DEF WNames
    <3>3. PICK s \in Station : pc[s] = "while" /\ taskID[s] = m
      BY <3>2 DEF WNames
    <3>4. u = s
      BY <1>11, <3>1, <3>3, TaskFacts DEF WTurn, Started
    <3>5. u \in Station /\ u \notin Listener /\ pc[u] = "while"
      BY <3>3, <3>4, TaskFacts
    <3>6. n \in Subscribers(u)'
      BY <1>1, <1>2, <3>1 DEF Subscribers, n
    <3> HIDE DEF k
    <3>7. Expected(u, "while", Append(wQueue[k], sub), station_id[u],
                   Subscribers(u)')
      BY <1>5, <2>1, <3>5, <3>6, ExpectedAppend
    <3> QED BY <3>1, <3>5, <3>7 DEF k
  <2> QED BY <2>2, <2>3
<1>12. Expected(c, pc'[c], wQueue'[n], station_id[c], Subscribers(c)')
  <2>1. wQueue'[n] = wQueue[n]
    <3> SUFFICES ASSUME wQueue'[n] # wQueue[n] PROVE FALSE
      OBVIOUS
    <3>1. m # -1 /\ n = m
      BY <1>2, <1>6
    <3>2. m \in W!ID /\ wName[m] = NameOf[c] /\ NameOf[c] # "no name"
      BY <1>1, <3>1, TaskFacts DEF WNames
    <3>3. PICK s \in Station : pc[s] = "while" /\ taskID[s] = m
      BY <3>2 DEF WNames
    <3> QED BY <1>1, <1>2, <3>1, <3>3, TaskFacts DEF WTurn, Started, n
  <2> QED BY <1>2, <1>4, <2>1, EmptySeq DEF Expected
<1>13. WPosts'
  <2>1. ASSUME NEW u \in W!Task, Started(u)'
        PROVE  Expected(u, pc'[u], wQueue'[taskID'[u]], station_id'[u],
                        Subscribers(u)')
    <3>1. CASE u = c
      BY <1>1, <1>12, <3>1 DEF n
    <3>2. CASE u # c
      <4>1. Started(u) /\ pc'[u] = pc[u]
        BY <1>4, <2>1, <3>2 DEF Started
      <4> QED BY <1>1, <1>11, <3>2, <4>1
    <3> QED BY <3>1, <3>2
  <2>2. \A s \in Station : pc'[s] = pc[s]
    BY <1>1, <1>4, TaskFacts
  <2>3. \A s \in Station :
          /\ Len(subs'[s]) <= MaxSub
          /\ \A i \in 1 .. Len(subs'[s]) : subs'[s][i] \in Subscribers(s)'
          /\ pc'[s] # "while" => subs'[s] = << >>
    BY <1>1, <1>10, <2>2 DEF WPosts
  <2>4. ASSUME NEW d \in Listener, heard'[d] # {}
        PROVE  heard'[d] = {station_id'[d]} /\ pc'[d] = "while"
    BY <1>1, <1>4, <2>4, TaskFacts DEF WPosts
  <2> QED BY <2>1, <2>3, <2>4 DEF WPosts
<1> QED BY <1>7, <1>8, <1>9, <1>13

(* Every step of the weather example keeps its invariant.                  *)
LEMMA WNext ==
  ASSUME WInv, [W!Next]_(W!vars)
  PROVE  WInv'
<1>1. CASE UNCHANGED W!vars
  <2>1. UNCHANGED <<wNext, wName, wQueue, pc, taskID, station_name, subs,
                    station_id, heard>>
    BY <1>1 DEF W!vars
  <2>2. ASSUME NEW u PROVE Subscribers(u)' = Subscribers(u)
    BY <2>1 DEF Subscribers
  <2>3. WTurn'
    BY <2>1, TurnKept DEF WInv, Started
  <2>4. WTypes'
    BY <2>1 DEF WInv, WTypes
  <2>5. WNames'
    BY <2>1 DEF WInv, WNames
  <2>6. WPosts'
    BY <2>1, <2>2 DEF WInv, WPosts, Started
  <2> QED BY <2>3, <2>4, <2>5, <2>6 DEF WInv
<1>2. ASSUME NEW s \in Station, W!StationStep(s) \/ W!Broadcast(s)
      PROVE  WInv'
  BY <1>2, TaskFacts, WReceiveName, WSetName, WStationReceive, WBroadcast
     DEF W!StationStep
<1>3. ASSUME NEW c \in Listener, W!ListenerStep(c)
      PROVE  WInv'
  BY <1>3, TaskFacts, WReceiveName, WLookup, WSubscribe, WHandlePost
     DEF W!ListenerStep
<1> QED BY <1>1, <1>2, <1>3, WCreate DEF W!Next

(* The invariant of the weather example holds throughout.                  *)
THEOREM WeatherInvariance == W!Spec => []WInv
BY WInit, WNext, PTL DEF W!Spec

(* TagsExpected: no task of the weather example is ever sent a tag that    *)
(* its receive ignores, which would stay at the head of its queue for      *)
(* ever; its name comes first, and a station keeps at most MaxSub clients. *)
THEOREM TagsAreExpected == W!Spec => []TagsExpected
<1>1. WInv => TagsExpected
  <2> SUFFICES ASSUME WInv PROVE W!TagsExpected
    BY DEF TagsExpected
  <2>1. \A s \in Station : Len(subs[s]) <= MaxSub
    BY DEF WInv, WPosts
  <2>2. ASSUME NEW t \in W!Task, pc[t] # "off",
               NEW i \in DOMAIN wQueue[taskID[t]]
        PROVE  LET m == wQueue[taskID[t]][i]
               IN  /\ (m.tag = "NAME") = (pc[t] = "name" /\ i = 1)
                   /\ m.tag = "SUB" => t \in Station
                   /\ m.tag = "POST" => t \in Listener
    <3> DEFINE q == wQueue[taskID[t]]
    <3>1. /\ Expected(t, pc[t], q, station_id[t], Subscribers(t))
          /\ q \in Seq(Post) /\ pc[t] \in WeatherPlace
      BY <2>2 DEF WInv, WPosts, WTypes, WTurn, Started
    <3> HIDE DEF q
    <3>2. i \in 1 .. Len(q)
      BY <2>2, <3>1 DEF q
    <3>3. CASE pc[t] = "name"
      <4> DEFINE msg == [tag |-> "NAME", val |-> NameOf[t]]
      <4>1. q = << msg >> /\ msg.tag = "NAME"
        BY <3>1, <3>3 DEF Expected
      <4> HIDE DEF msg
      <4>2. i = 1 /\ q[i] = msg
        BY <3>2, <4>1
      <4> QED BY <3>3, <4>1, <4>2 DEF q
    <3>4. CASE pc[t] = "while"
      <4>1. (t \in Station /\ q[i].tag = "SUB")
            \/ (t \in Listener /\ q[i].tag = "POST")
        BY <3>1, <3>2, <3>4, TaskFacts DEF Expected
      <4> QED BY <3>4, <4>1 DEF q
    <3>5. CASE pc[t] \notin {"name", "while"}
      <4>1. q = << >>
        BY <2>2, <3>1, <3>5 DEF Expected, WeatherPlace
      <4> QED BY <3>2, <4>1, EmptySeq
    <3> QED BY <3>3, <3>4, <3>5
  <2> QED BY <2>1, <2>2 DEF W!TagsExpected
<1> QED BY <1>1, WeatherInvariance, PTL

(* RightStation: a client of the weather example hears one station only,   *)
(* and that one has the name it asked for.                                 *)
THEOREM StationIsRight == W!Spec => []RightStation
<1>1. WInv => RightStation
  <2> SUFFICES ASSUME WInv, NEW c \in Listener, heard[c] # {}
               PROVE  /\ heard[c] = {station_id[c]}
                      /\ wName[station_id[c]] = NameOf[c]
    BY DEF RightStation, W!RightStation
  <2>1. heard[c] = {station_id[c]} /\ pc[c] = "while"
    BY DEF WInv, WPosts
  <2>2. wName[station_id[c]] = NameOf[c]
    BY <2>1 DEF WInv, WNames
  <2> QED BY <2>1, <2>2
<1> QED BY <1>1, WeatherInvariance, PTL

-----------------------------------------------------------------------------
(* The sample sort: which messages each task has been sent and has taken   *)

(* A sequence, whatever its elements are.                                  *)
IsSeq(s) == Len(s) \in Nat /\ s = [i \in 1 .. Len(s) |-> s[i]]

(* A sequence of SequenceTheorems.                                         *)
LEMMA IsSeqSeq ==
  ASSUME NEW s, IsSeq(s)
  PROVE  s \in Seq({s[i] : i \in 1 .. Len(s)})
BY DEF IsSeq

(* And back.                                                               *)
LEMMA SeqIsSeq ==
  ASSUME NEW T, NEW s \in Seq(T)
  PROVE  IsSeq(s)
<1>1. Len(s) \in Nat /\ s \in [1 .. Len(s) -> T]
  BY LenProperties
<1> QED BY <1>1 DEF IsSeq

(* A message is put at the end.                                            *)
LEMMA IsSeqAppend ==
  ASSUME NEW s, IsSeq(s), NEW m
  PROVE  /\ IsSeq(Append(s, m)) /\ Len(Append(s, m)) = Len(s) + 1
         /\ \A i \in 1 .. Len(s) : Append(s, m)[i] = s[i]
         /\ Append(s, m)[Len(s) + 1] = m
<1> DEFINE T == {s[i] : i \in 1 .. Len(s)} \cup {m}
<1>1. s \in Seq(T) /\ m \in T
  BY DEF IsSeq
<1> HIDE DEF T
<1>2. IsSeq(Append(s, m))
  BY <1>1, AppendProperties, SeqIsSeq
<1> QED BY <1>1, <1>2, AppendProperties

(* The first message is taken.                                             *)
LEMMA IsSeqTail ==
  ASSUME NEW s, IsSeq(s), s # << >>
  PROVE  /\ IsSeq(Tail(s)) /\ Len(s) >= 1 /\ Len(Tail(s)) = Len(s) - 1
         /\ Head(s) = s[1] /\ \A i \in 1 .. Len(s) - 1 : Tail(s)[i] = s[i + 1]
<1> DEFINE T == {s[i] : i \in 1 .. Len(s)}
<1>1. s \in Seq(T)
  BY IsSeqSeq
<1> HIDE DEF T
<1>2. Tail(s) \in Seq(T) /\ Len(Tail(s)) = Len(s) - 1 /\ Len(s) \in Nat \ {0}
  BY <1>1, HeadTailProperties, EmptySeq
<1>3. IsSeq(Tail(s))
  BY <1>2, SeqIsSeq
<1>4. Head(s) = s[1] /\ \A i \in 1 .. Len(s) - 1 : Tail(s)[i] = s[i + 1]
  BY <1>1, <1>2
<1> QED BY <1>2, <1>3, <1>4

(* An empty mailbox.                                                       *)
LEMMA IsSeqEmpty ==
  ASSUME NEW s, IsSeq(s)
  PROVE  s # << >> <=> Len(s) >= 1
BY IsSeqSeq, EmptySeq DEF IsSeq

(* No message at all.                                                      *)
LEMMA NoMessage == IsSeq(<< >>) /\ Len(<< >>) = 0
BY EmptySeq DEF IsSeq

-----------------------------------------------------------------------------
(* The invariant                                                           *)

Early == {"sample", "create", "topology", "dataRef", "splitters", "getSub",
          "recvSub"}
Late == {"setSub", "recvDone", "signal", "ended"}
Loop == {"topology", "dataRef", "splitters", "getSub", "setSub"}

(* The loops over the buckets that the root has finished, and with that    *)
(* the messages it has sent to b.                                          *)
Stage(p) ==
  IF p = "dataRef" THEN 1
  ELSE IF p = "splitters" THEN 2
  ELSE IF p = "getSub" THEN 3
  ELSE IF p \in {"recvSub", "setSub"} THEN 4
  ELSE IF p \in {"recvDone", "signal", "ended"} THEN 5 ELSE 0

SentTo(p, ki, b) == Stage(p) + IF p \in Loop /\ b < ki THEN 1 ELSE 0

(* The i-th message of a bucket.                                           *)
Tag(i) ==
  IF i = 1 THEN "TOPOLOGY_MSG"
  ELSE IF i = 2 THEN "DATA_REF_MSG"
  ELSE IF i = 3 THEN "SPLITTER_MSG"
  ELSE IF i = 4 THEN "GET_SUB_ARRAY_MSG" ELSE "SET_SUB_ARRAY_MSG"

(* What the main thread has sent.                                          *)
MainSent == IF main = "sendK" THEN 0 ELSE IF main = "sendData" THEN 1 ELSE 2

SortTypes ==
  /\ DOMAIN root = {"pc", "ki", "K", "size", "splitters"}
  /\ root.pc \in {"recvK", "recvData"} \cup Early \cup Late
  /\ root.ki \in 1 .. K
  /\ root.K = IF root.pc = "recvK" THEN 0 ELSE K
  /\ DOMAIN bucket = B!Bucket
  /\ \A b \in B!Bucket :
       /\ DOMAIN bucket[b] = {"pc", "got", "bucket_count", "first", "size",
                              "splitters"}
       /\ bucket[b].got \in 0 .. 5
       /\ bucket[b].pc \in {"none", "receive", "partition", "sort", "return",
                            "ended"}
       /\ bucket[b].pc \in {"none", "receive"} => bucket[b].got <= 4
       /\ bucket[b].pc = "partition" => bucket[b].got = 4
       /\ bucket[b].pc \in {"sort", "return", "ended"} => bucket[b].got = 5
  /\ DOMAIN box = B!Task /\ \A t \in B!Task : IsSeq(box[t])

(* A bucket has taken the first messages sent to it, the others wait.      *)
BucketMail ==
  \A b \in B!Bucket :
    /\ Len(box[b]) = SentTo(root.pc, root.ki, b) - bucket[b].got
    /\ \A i \in 1 .. Len(box[b]) : box[b][i].tag = Tag(bucket[b].got + i)

(* The buckets that have sent their partition.                             *)
Reported == {b \in B!Bucket : /\ bucket[b].got >= 4
                              /\ bucket[b].pc # "partition"}

(* The root first waits for main, then for the partitions, then for the    *)
(* reports of the sorted buckets.                                          *)
RootMail ==
  /\ root.pc \in {"recvK", "recvData"} =>
       /\ Len(box[0]) = MainSent - IF root.pc = "recvK" THEN 0 ELSE 1
       /\ \A i \in 1 .. Len(box[0]) :
            LET m == box[0][i]
                j == i + IF root.pc = "recvK" THEN 0 ELSE 1 IN
            /\ j = 1 => m.tag = "BAR_MSG" /\ m.value = K
            /\ j = 2 => m.tag = "REF_INTARRAY_MSG"
  /\ root.pc \notin {"recvK", "recvData"} => MainSent = 2
  /\ root.pc \in Early =>
       /\ Len(box[0]) + (IF root.pc = "recvSub" THEN root.ki - 1 ELSE 0)
            = Cardinality(Reported)
       /\ \A i \in 1 .. Len(box[0]) : box[0][i].tag = "SUB_ARRAT_MSG"
  /\ root.pc \in Late =>
       /\ Reported = B!Bucket
       /\ \A i \in 1 .. Len(box[0]) : box[0][i].tag = "DONE_MSG"

SortInv == SortTypes /\ BucketMail /\ RootMail

-----------------------------------------------------------------------------
(* The tasks of the sort.                                                  *)
LEMMA SortFacts ==
  /\ K \in Nat /\ K >= 1 /\ B!Bucket = 1 .. K /\ B!Root = 0
  /\ B!Task = {0} \cup B!Bucket /\ 0 \notin B!Bucket
  /\ IsFiniteSet(B!Bucket) /\ Cardinality(B!Bucket) = K
<1>1. K \in Nat /\ K >= 1 /\ B!Bucket = 1 .. K
  BY SortAssumption DEF B!Bucket
<1>2. IsFiniteSet(1 .. K) /\ Cardinality(1 .. K) = K
  BY <1>1, FS_Interval
<1> QED BY <1>1, <1>2 DEF B!Task, B!Root

(* A task is sent a message.                                               *)
LEMMA PutFacts ==
  ASSUME SortTypes, NEW t \in B!Task, NEW m, B!Put(t, m)
  PROVE  /\ DOMAIN box' = B!Task /\ \A u \in B!Task : IsSeq(box'[u])
         /\ \A u \in B!Task : u # t => box'[u] = box[u]
         /\ Len(box[t]) \in Nat /\ Len(box'[t]) = Len(box[t]) + 1
         /\ \A i \in 1 .. Len(box[t]) : box'[t][i] = box[t][i]
         /\ box'[t][Len(box[t]) + 1] = m
<1>1. /\ DOMAIN box' = B!Task /\ box'[t] = Append(box[t], m)
      /\ \A u \in B!Task : u # t => box'[u] = box[u]
  BY DEF B!Put, SortTypes
<1>2. /\ IsSeq(box[t]) /\ IsSeq(Append(box[t], m))
      /\ Len(Append(box[t], m)) = Len(box[t]) + 1
      /\ \A i \in 1 .. Len(box[t]) : Append(box[t], m)[i] = box[t][i]
      /\ Append(box[t], m)[Len(box[t]) + 1] = m
  BY IsSeqAppend DEF SortTypes
<1> QED BY <1>1, <1>2 DEF IsSeq, SortTypes

(* A task takes a message.                                                 *)
LEMMA TakeFacts ==
  ASSUME SortTypes, NEW t \in B!Task, box[t] # << >>,
         box' = [box EXCEPT ![t] = Tail(@)]
  PROVE  /\ DOMAIN box' = B!Task /\ \A u \in B!Task : IsSeq(box'[u])
         /\ \A u \in B!Task : u # t => box'[u] = box[u]
         /\ Len(box[t]) \in Nat /\ Len(box[t]) >= 1
         /\ Len(box'[t]) = Len(box[t]) - 1 /\ Head(box[t]) = box[t][1]
         /\ \A i \in 1 .. Len(box[t]) - 1 : box'[t][i] = box[t][i + 1]
<1>1. /\ DOMAIN box' = B!Task /\ box'[t] = Tail(box[t])
      /\ \A u \in B!Task : u # t => box'[u] = box[u]
  BY DEF SortTypes
<1>2. /\ IsSeq(box[t]) /\ IsSeq(Tail(box[t])) /\ Len(box[t]) >= 1
      /\ Len(Tail(box[t])) = Len(box[t]) - 1 /\ Head(box[t]) = box[t][1]
      /\ \A i \in 1 .. Len(box[t]) - 1 : Tail(box[t])[i] = box[t][i + 1]
  BY IsSeqTail DEF SortTypes
<1> QED BY <1>1, <1>2 DEF IsSeq, SortTypes

(* Nothing has been sent.                                                  *)
LEMMA SortInit == B!Init => SortInv
<1> SUFFICES ASSUME B!Init PROVE SortInv
  OBVIOUS
<1>1. /\ main = "sendK" /\ root.pc = "recvK" /\ root.ki = 1 /\ root.K = 0
      /\ DOMAIN root = {"pc", "ki", "K", "size", "splitters"}
  BY DEF B!Init
<1>2. /\ DOMAIN bucket = B!Bucket
      /\ \A b \in B!Bucket :
           /\ bucket[b].pc = "none" /\ bucket[b].got = 0
           /\ DOMAIN bucket[b] = {"pc", "got", "bucket_count", "first",
                                  "size", "splitters"}
  BY DEF B!Init
<1>3. /\ DOMAIN box = B!Task
      /\ \A t \in B!Task : box[t] = << >> /\ IsSeq(box[t]) /\ Len(box[t]) = 0
  BY NoMessage DEF B!Init
<1>4. SortTypes
  BY <1>1, <1>2, <1>3, SortFacts DEF SortTypes
<1>5. BucketMail
  BY <1>1, <1>2, <1>3, SortFacts DEF BucketMail, SentTo, Stage, Loop
<1>6. RootMail
  BY <1>1, <1>3, SortFacts DEF RootMail, MainSent, Early, Late
<1> QED BY <1>4, <1>5, <1>6 DEF SortInv

(* The main thread sends K and the data.                                   *)
LEMMA SMainSend ==
  ASSUME SortInv, B!MainSend
  PROVE  SortInv'
<1> USE DEF SortInv
<1>1. 0 \in B!Task /\ B!Root = 0 /\ UNCHANGED <<root, bucket>>
  BY SortFacts DEF B!MainSend
<1>2. PICK m : /\ B!Put(0, m)
               /\ \/ /\ main = "sendK" /\ main' = "sendData"
                     /\ m.tag = "BAR_MSG" /\ m.value = K
                  \/ /\ main = "sendData" /\ main' = "wait"
                     /\ m.tag = "REF_INTARRAY_MSG"
  BY <1>1 DEF B!MainSend
<1>3. /\ DOMAIN box' = B!Task /\ \A u \in B!Task : IsSeq(box'[u])
      /\ \A u \in B!Task : u # 0 => box'[u] = box[u]
      /\ Len(box[0]) \in Nat /\ Len(box'[0]) = Len(box[0]) + 1
      /\ \A i \in 1 .. Len(box[0]) : box'[0][i] = box[0][i]
      /\ box'[0][Len(box[0]) + 1] = m
  BY <1>1, <1>2, PutFacts
<1>4. SortTypes'
  BY <1>1, <1>3 DEF SortTypes
<1>5. BucketMail'
  BY <1>1, <1>3, SortFacts DEF BucketMail
<1>6. root.pc \in {"recvK", "recvData"}
  BY <1>2 DEF RootMail, MainSent, SortTypes
<1>7. RootMail'
  <2>1. root.pc \notin Early /\ root.pc \notin Late
    BY <1>6 DEF Early, Late
  <2> DEFINE x == IF root.pc = "recvK" THEN 0 ELSE 1
  <2>2. x \in {0, 1}
    OBVIOUS
  <2>3. /\ Len(box[0]) = MainSent - x
        /\ \A i \in 1 .. Len(box[0]) :
             /\ i + x = 1 => box[0][i].tag = "BAR_MSG" /\ box[0][i].value = K
             /\ i + x = 2 => box[0][i].tag = "REF_INTARRAY_MSG"
    BY <1>6 DEF RootMail
  <2>4. MainSent' = MainSent + 1 /\ MainSent \in {0, 1}
    BY <1>2 DEF MainSent
  <2> HIDE DEF x
  <2>5. Len(box'[0]) = MainSent' - x
    BY <1>3, <2>2, <2>3, <2>4
  <2>6. ASSUME NEW i \in 1 .. Len(box'[0])
        PROVE  /\ i + x = 1 => box'[0][i].tag = "BAR_MSG"
                               /\ box'[0][i].value = K
               /\ i + x = 2 => box'[0][i].tag = "REF_INTARRAY_MSG"
    <3>1. CASE i \in 1 .. Len(box[0])
      BY <1>3, <2>3, <3>1
    <3>2. CASE i = Len(box[0]) + 1
      <4>1. box'[0][i] = m /\ i + x = MainSent + 1
        BY <1>3, <2>2, <2>3, <2>4, <3>2
      <4> QED BY <1>2, <4>1 DEF MainSent
    <3> QED BY <1>3, <3>1, <3>2
  <2> QED BY <1>1, <1>6, <2>1, <2>5, <2>6 DEF RootMail, x
<1> QED BY <1>4, <1>5, <1>7

(* The main thread goes to sleep.                                          *)
LEMMA SMainWait ==
  ASSUME SortInv, B!MainWait
  PROVE  SortInv'
<1>1. MainSent' = MainSent /\ UNCHANGED <<root, bucket, box>>
  BY DEF B!MainWait, MainSent
<1>2. Reported' = Reported
  BY <1>1 DEF Reported
<1> QED BY <1>1, <1>2 DEF SortInv, SortTypes, BucketMail, RootMail

(* The root takes a message: K, the data, a partition or a report.         *)
LEMMA SRootReceive ==
  ASSUME SortInv, B!RootReceive
  PROVE  SortInv'
<1> DEFINE m == Head(box[0])
<1> USE DEF SortInv
<1>1. /\ 0 \in B!Task /\ B!Root = 0 /\ UNCHANGED <<main, bucket>>
      /\ root.pc \in {"recvK", "recvData", "recvSub", "recvDone"}
      /\ box[0] # << >> /\ box' = [box EXCEPT ![0] = Tail(@)]
  BY SortFacts DEF B!RootReceive
<1>2. /\ DOMAIN box' = B!Task /\ \A u \in B!Task : IsSeq(box'[u])
      /\ \A u \in B!Task : u # 0 => box'[u] = box[u]
      /\ Len(box[0]) \in Nat /\ Len(box[0]) >= 1
      /\ Len(box'[0]) = Len(box[0]) - 1 /\ m = box[0][1]
      /\ \A i \in 1 .. Len(box[0]) - 1 : box'[0][i] = box[0][i + 1]
  BY <1>1, TakeFacts
<1>3. /\ MainSent' = MainSent /\ Reported' = Reported
      /\ MainSent \in {0, 1, 2}
  BY <1>1 DEF MainSent, Reported
<1>4. ASSUME \A b \in B!Bucket : SentTo(root'.pc, root'.ki, b)
                                 = SentTo(root.pc, root.ki, b)
      PROVE  BucketMail'
  BY <1>1, <1>2, <1>4, SortFacts DEF BucketMail
<1>5. CASE root.pc = "recvK"
  <2>1. m.tag = "BAR_MSG" /\ m.value = K
    BY <1>2, <1>5 DEF RootMail
  <2>2. root' = [[root EXCEPT !.K = m.value] EXCEPT !.pc = "recvData"]
    BY <1>1, <1>5, <2>1 DEF B!RootReceive
  <2> HIDE DEF m
  <2>3. /\ DOMAIN root' = DOMAIN root /\ root'.pc = "recvData"
        /\ root'.ki = root.ki /\ root'.K = K
    BY <2>1, <2>2 DEF SortTypes
  <2>4. SortTypes'
    BY <1>1, <1>2, <2>3 DEF SortTypes
  <2>5. BucketMail'
    BY <1>4, <1>5, <2>3 DEF SentTo, Stage, Loop
  <2>6. RootMail'
    <3>1. /\ Len(box[0]) = MainSent
          /\ \A i \in 1 .. Len(box[0]) :
               i = 2 => box[0][i].tag = "REF_INTARRAY_MSG"
      BY <1>3, <1>5 DEF RootMail
    <3>2. Len(box'[0]) = MainSent' - 1
      BY <1>2, <1>3, <3>1
    <3>3. ASSUME NEW i \in 1 .. Len(box'[0])
          PROVE  /\ i + 1 = 1 => FALSE
                 /\ i + 1 = 2 => box'[0][i].tag = "REF_INTARRAY_MSG"
      <4>1. i + 1 \in 1 .. Len(box[0]) /\ box'[0][i] = box[0][i + 1]
        BY <1>2
      <4> QED BY <3>1, <4>1
    <3> QED BY <2>3, <3>2, <3>3 DEF RootMail, Early, Late
  <2> QED BY <2>4, <2>5, <2>6
<1>6. CASE root.pc = "recvData"
  <2>1. m.tag = "REF_INTARRAY_MSG" /\ MainSent = 2 /\ Len(box'[0]) = 0
    <3>1. Len(box[0]) = MainSent - 1
      BY <1>6 DEF RootMail
    <3>2. \A i \in 1 .. Len(box[0]) :
            i + 1 = 2 => box[0][i].tag = "REF_INTARRAY_MSG"
      BY <1>6 DEF RootMail
    <3>3. MainSent = 2 /\ Len(box'[0]) = 0
      BY <1>2, <1>3, <3>1
    <3>4. 1 \in 1 .. Len(box[0])
      BY <1>2
    <3>5. box[0][1].tag = "REF_INTARRAY_MSG"
      BY <3>2, <3>4
    <3> QED BY <1>2, <3>3, <3>5
  <2>2. root' = [[root EXCEPT !.size = m.size] EXCEPT !.pc = "sample"]
    BY <1>1, <1>6, <2>1 DEF B!RootReceive
  <2> HIDE DEF m
  <2>3. /\ DOMAIN root' = DOMAIN root /\ root'.pc = "sample"
        /\ root'.ki = root.ki /\ root'.K = K
    BY <1>6, <2>2 DEF SortTypes
  <2>4. SortTypes'
    BY <1>1, <1>2, <2>3 DEF SortTypes, Early
  <2>5. BucketMail'
    BY <1>4, <1>6, <2>3 DEF SentTo, Stage, Loop
  <2>6. Reported = {}
    <3>1. \A b \in B!Bucket : bucket[b].got = 0
      <4> SUFFICES ASSUME NEW b \in B!Bucket PROVE bucket[b].got = 0
        OBVIOUS
      <4>1. SentTo(root.pc, root.ki, b) = 0
        BY <1>6 DEF SentTo, Stage, Loop
      <4>2. Len(box[b]) \in Nat /\ bucket[b].got \in 0 .. 5
        BY SortFacts DEF SortTypes, IsSeq
      <4> QED BY <4>1, <4>2 DEF BucketMail
    <3> QED BY <3>1 DEF Reported
  <2>7. Cardinality(Reported) = 0
    BY <2>6, FS_EmptySet
  <2>8. RootMail'
    <3>1. Len(box'[0]) + 0 = Cardinality(Reported)
      BY <2>1, <2>7
    <3>2. \A i \in 1 .. Len(box'[0]) : FALSE
      BY <2>1
    <3> QED BY <1>3, <2>1, <2>3, <3>1, <3>2 DEF RootMail, Early, Late
  <2> QED BY <2>4, <2>5, <2>8
<1>7. CASE root.pc \in {"recvSub", "recvDone"} /\ root.ki # K
  <2>1. m.tag \in {"SUB_ARRAT_MSG", "DONE_MSG"} /\ root.K = K
    <3>1. 1 \in 1 .. Len(box[0])
      BY <1>2
    <3>2. CASE root.pc = "recvSub"
      BY <1>2, <3>1, <3>2 DEF RootMail, Early, SortTypes
    <3>3. CASE root.pc = "recvDone"
      BY <1>2, <3>1, <3>3 DEF RootMail, Late, SortTypes
    <3> QED BY <1>7, <3>2, <3>3
  <2>2. root' = [root EXCEPT !.ki = @ + 1]
    BY <1>1, <1>7, <2>1 DEF B!RootReceive
  <2> HIDE DEF m
  <2>3. /\ DOMAIN root' = DOMAIN root /\ root'.pc = root.pc
        /\ root'.ki = root.ki + 1 /\ root'.K = K /\ root'.ki \in 1 .. K
    <3>1. root.ki \in 1 .. K /\ root.ki + 1 \in 1 .. K
      BY <1>7, SortFacts DEF SortTypes
    <3> QED BY <1>7, <2>1, <2>2, <3>1 DEF SortTypes
  <2>4. SortTypes'
    BY <1>1, <1>2, <1>7, <2>3 DEF SortTypes
  <2>5. BucketMail'
    BY <1>4, <1>7, <2>3 DEF SentTo, Stage, Loop
  <2>6. RootMail'
    <3>1. \A i \in 1 .. Len(box'[0]) :
            i + 1 \in 1 .. Len(box[0]) /\ box'[0][i] = box[0][i + 1]
      BY <1>2
    <3>2. root.ki \in Int
      BY DEF SortTypes
    <3>3. CASE root.pc = "recvSub"
      <4>1. Len(box[0]) + (root.ki - 1) = Cardinality(Reported)
        BY <3>3 DEF RootMail, Early
      <4>2. Len(box'[0]) + (root'.ki - 1) = Cardinality(Reported)
        <5> DEFINE n == Len(box[0])
        <5>1. n \in Int /\ Len(box'[0]) = n - 1
          BY <1>2
        <5>2. n + (root.ki - 1) = Cardinality(Reported)
          BY <4>1
        <5> HIDE DEF n
        <5>3. (n - 1) + ((root.ki + 1) - 1) = n + (root.ki - 1)
          BY <3>2, <5>1
        <5> QED BY <2>3, <5>1, <5>2, <5>3
      <4> QED BY <1>3, <2>3, <3>1, <3>3, <4>2 DEF RootMail, Early, Late
    <3>4. CASE root.pc = "recvDone"
      BY <1>3, <2>3, <3>1, <3>4 DEF RootMail, Early, Late
    <3> QED BY <1>7, <3>3, <3>4
  <2> QED BY <2>4, <2>5, <2>6
<1>8. CASE root.pc = "recvSub" /\ root.ki = K
  <2>1. m.tag = "SUB_ARRAT_MSG" /\ root.K = K
    BY <1>2, <1>8 DEF RootMail, Early, SortTypes
  <2>2. root' = [root EXCEPT !.pc = "setSub", !.ki = 1]
    BY <1>1, <1>8, <2>1 DEF B!RootReceive
  <2> HIDE DEF m
  <2>3. /\ DOMAIN root' = DOMAIN root /\ root'.pc = "setSub"
        /\ root'.ki = 1 /\ root'.K = K
    BY <2>1, <2>2 DEF SortTypes
  <2>4. SortTypes'
    BY <1>1, <1>2, <2>3, SortFacts DEF SortTypes, Late
  <2>5. BucketMail'
    BY <1>4, <1>8, <2>3, SortFacts DEF SentTo, Stage, Loop
  <2>6. Reported \subseteq B!Bucket /\ IsFiniteSet(Reported)
        /\ Cardinality(Reported) \in Nat
        /\ Cardinality(Reported) <= Cardinality(B!Bucket)
    BY SortFacts, FS_Subset, FS_CardinalityType DEF Reported
  <2>7. Len(box[0]) + (K - 1) = Cardinality(Reported)
    BY <1>8 DEF RootMail, Early
  <2>8. Cardinality(Reported) = Cardinality(B!Bucket) /\ Len(box'[0]) = 0
    <3> DEFINE n == Len(box[0])
               c == Cardinality(Reported)
    <3>1. n \in Int /\ n >= 1 /\ Len(box'[0]) = n - 1
      BY <1>2
    <3>2. c \in Int /\ c <= K /\ K \in Int
      BY <2>6, SortFacts
    <3>3. n + (K - 1) = c
      BY <2>7
    <3> HIDE DEF n, c
    <3>4. n = 1 /\ c = K
      BY <3>1, <3>2, <3>3
    <3> QED BY <3>1, <3>4, SortFacts DEF c
  <2>9. Reported = B!Bucket
    BY <2>6, <2>8, SortFacts, FS_Subset
  <2>10. RootMail'
    BY <1>1, <1>3, <1>8, <2>3, <2>8, <2>9 DEF RootMail, Early, Late
  <2> QED BY <2>4, <2>5, <2>10
<1>9. CASE root.pc = "recvDone" /\ root.ki = K
  <2>1. m.tag = "DONE_MSG" /\ root.K = K
    BY <1>2, <1>9 DEF RootMail, Late, SortTypes
  <2>2. root' = [root EXCEPT !.pc = "signal"]
    BY <1>1, <1>9, <2>1 DEF B!RootReceive
  <2> HIDE DEF m
  <2>3. /\ DOMAIN root' = DOMAIN root /\ root'.pc = "signal"
        /\ root'.ki = root.ki /\ root'.K = K
    BY <2>1, <2>2 DEF SortTypes
  <2>4. SortTypes'
    BY <1>1, <1>2, <2>3 DEF SortTypes, Late
  <2>5. BucketMail'
    BY <1>4, <1>9, <2>3 DEF SentTo, Stage, Loop
  <2>6. \A i \in 1 .. Len(box'[0]) : box'[0][i].tag = "DONE_MSG"
    <3>1. \A i \in 1 .. Len(box'[0]) :
            i + 1 \in 1 .. Len(box[0]) /\ box'[0][i] = box[0][i + 1]
      BY <1>2
    <3> QED BY <1>9, <3>1 DEF RootMail, Late
  <2>7. RootMail'
    BY <1>1, <1>3, <1>9, <2>3, <2>6 DEF RootMail, Early, Late
  <2> QED BY <2>4, <2>5, <2>7
<1> QED BY <1>1, <1>5, <1>6, <1>7, <1>8, <1>9

(* What has been sent to a bucket bounds what it has taken.                *)
LEMMA SentFacts ==
  ASSUME SortInv, NEW b \in B!Bucket
  PROVE  /\ b \in Nat /\ b >= 1 /\ b <= K /\ b # 0 /\ b \in B!Task
         /\ SentTo(root.pc, root.ki, b) \in 0 .. 5 /\ Len(box[b]) \in Nat
         /\ bucket[b].got \in 0 .. 5
         /\ bucket[b].got <= SentTo(root.pc, root.ki, b)
<1>1. b \in Nat /\ b >= 1 /\ b <= K /\ b # 0 /\ b \in B!Task
  BY SortFacts
<1>2. Len(box[b]) \in Nat /\ bucket[b].got \in 0 .. 5
  BY <1>1 DEF SortInv, SortTypes, IsSeq
<1>3. SentTo(root.pc, root.ki, b) \in 0 .. 5
  BY DEF SortInv, SortTypes, SentTo, Stage, Loop, Early, Late
<1>4. Len(box[b]) = SentTo(root.pc, root.ki, b) - bucket[b].got
  BY DEF SortInv, BucketMail
<1> QED BY <1>1, <1>2, <1>3, <1>4

(* The root picks its splitters.                                           *)
LEMMA SSample ==
  ASSUME SortInv, B!Sample
  PROVE  SortInv'
<1> USE DEF SortInv
<1>1. PICK x : root' = [root EXCEPT !.pc = "create", !.splitters = x]
  BY DEF B!Sample
<1>2. root.pc = "sample" /\ UNCHANGED <<main, bucket, box>>
  BY DEF B!Sample
<1>3. /\ DOMAIN root' = DOMAIN root /\ root'.pc = "create"
      /\ root'.ki = root.ki /\ root'.K = root.K
  BY <1>1 DEF SortTypes
<1>4. MainSent' = MainSent /\ Reported' = Reported
  BY <1>2 DEF MainSent, Reported
<1>5. SortTypes'
  BY <1>2, <1>3 DEF SortTypes, Early
<1>6. BucketMail'
  BY <1>2, <1>3 DEF BucketMail, SentTo, Stage, Loop
<1>7. RootMail'
  BY <1>2, <1>3, <1>4 DEF RootMail, Early, Late
<1> QED BY <1>5, <1>6, <1>7

(* The root creates a bucket.                                              *)
LEMMA SCreateBucket ==
  ASSUME SortInv, B!CreateBucket
  PROVE  SortInv'
<1> USE DEF SortInv
<1>1. /\ root.pc = "create" /\ UNCHANGED <<main, box>>
      /\ bucket' = [bucket EXCEPT ![root.ki].pc = "receive"]
      /\ root' = IF root.ki < root.K THEN [root EXCEPT !.ki = @ + 1]
                 ELSE [root EXCEPT !.pc = "topology", !.ki = 1]
  BY DEF B!CreateBucket
<1>2. /\ DOMAIN root' = DOMAIN root /\ root'.K = root.K /\ root.K = K
      /\ \/ root'.pc = "create" /\ root'.ki \in 1 .. K
         \/ root'.pc = "topology" /\ root'.ki = 1
  <2>1. root.K = K /\ root.ki \in 1 .. K
    BY <1>1 DEF SortTypes
  <2>2. CASE root.ki < root.K
    <3>1. root.ki + 1 \in 1 .. K
      BY <2>1, <2>2, SortFacts
    <3> QED BY <1>1, <2>1, <2>2, <3>1 DEF SortTypes
  <2>3. CASE ~(root.ki < root.K)
    BY <1>1, <2>1, <2>3 DEF SortTypes
  <2> QED BY <2>2, <2>3
<1>3. ASSUME NEW b \in B!Bucket PROVE bucket[b].got = 0
  <2>1. SentTo(root.pc, root.ki, b) = 0
    BY <1>1 DEF SentTo, Stage, Loop
  <2> QED BY <2>1, SentFacts
<1>4. /\ DOMAIN bucket' = B!Bucket
      /\ \A b \in B!Bucket :
           /\ DOMAIN bucket'[b] = {"pc", "got", "bucket_count", "first",
                                   "size", "splitters"}
           /\ bucket'[b].got = 0
           /\ bucket'[b].pc \in {"receive", bucket[b].pc}
  BY <1>1, <1>3 DEF SortTypes
<1>5. ASSUME NEW b \in B!Bucket PROVE bucket[b].pc \in {"none", "receive"}
  BY <1>3 DEF SortTypes
<1>6. Reported = {} /\ Reported' = {} /\ MainSent' = MainSent
  BY <1>1, <1>3, <1>4 DEF Reported, MainSent
<1>7. SortTypes'
  <2>1. root'.ki \in 1 .. K /\ root'.pc \in Early /\ root'.pc # "recvK"
    BY <1>2, SortFacts DEF Early
  <2>2. \A b \in B!Bucket : bucket'[b].pc \in {"none", "receive"}
    BY <1>4, <1>5
  <2> QED BY <1>1, <1>2, <1>4, <2>1, <2>2 DEF SortTypes
<1>8. BucketMail'
  <2> SUFFICES ASSUME NEW b \in B!Bucket
               PROVE  /\ Len(box'[b]) = SentTo(root'.pc, root'.ki, b)
                                        - bucket'[b].got
                      /\ \A i \in 1 .. Len(box'[b]) :
                           box'[b][i].tag = Tag(bucket'[b].got + i)
    BY DEF BucketMail
  <2>1. SentTo(root.pc, root.ki, b) = 0
    BY <1>1 DEF SentTo, Stage, Loop
  <2>2. SentTo(root'.pc, root'.ki, b) = 0
    BY <1>2, SentFacts DEF SentTo, Stage, Loop
  <2> QED BY <1>1, <1>3, <1>4, <2>1, <2>2 DEF BucketMail
<1>9. RootMail'
  <2>1. /\ Len(box[0]) + 0 = Cardinality(Reported)
        /\ \A i \in 1 .. Len(box[0]) : box[0][i].tag = "SUB_ARRAT_MSG"
        /\ MainSent = 2
    BY <1>1 DEF RootMail, Early
  <2> QED BY <1>1, <1>2, <1>6, <2>1 DEF RootMail, Early, Late
<1> QED BY <1>7, <1>8, <1>9

(* The root's loops over the buckets: each pass sends the next message of  *)
(* one bucket, and the last pass starts the next stage.                    *)
LEMMA SLoop ==
  ASSUME SortInv, root.pc \in Loop, UNCHANGED <<main, bucket>>,
         NEW m, m.tag = Tag(Stage(root.pc) + 1), B!Put(root.ki, m),
         NEW q, Stage(q) = Stage(root.pc) + 1,
         q \in (Loop \ {"setSub"}) \cup {"recvSub", "recvDone"},
         root.pc = "setSub" <=> q = "recvDone",
         root' = IF root.ki < root.K THEN [root EXCEPT !.ki = @ + 1]
                 ELSE [root EXCEPT !.pc = q, !.ki = 1]
  PROVE  SortInv'
<1> USE DEF SortInv
<1> DEFINE k == root.ki
<1>1. k \in 1 .. K /\ k \in B!Bucket /\ k \in B!Task /\ k # 0 /\ root.K = K
  BY SortFacts DEF SortTypes, Loop
<1>2. /\ DOMAIN box' = B!Task /\ \A u \in B!Task : IsSeq(box'[u])
      /\ \A u \in B!Task : u # k => box'[u] = box[u]
      /\ Len(box[k]) \in Nat /\ Len(box'[k]) = Len(box[k]) + 1
      /\ \A i \in 1 .. Len(box[k]) : box'[k][i] = box[k][i]
      /\ box'[k][Len(box[k]) + 1] = m
  BY <1>1, PutFacts
<1>3. /\ DOMAIN root' = DOMAIN root /\ root'.K = K /\ root'.ki \in 1 .. K
      /\ \/ k < K /\ root'.pc = root.pc /\ root'.ki = k + 1
         \/ k = K /\ root'.pc = q /\ root'.ki = 1
  <2>1. CASE k < root.K
    <3>1. k + 1 \in 1 .. K
      BY <1>1, <2>1, SortFacts
    <3> QED BY <1>1, <2>1, <3>1 DEF SortTypes
  <2>2. CASE ~(k < root.K)
    <3>1. k = K /\ 1 \in 1 .. K
      BY <1>1, <2>2, SortFacts
    <3> QED BY <1>1, <2>2, <3>1 DEF SortTypes
  <2> QED BY <2>1, <2>2
<1>4. SortTypes'
  BY <1>2, <1>3 DEF SortTypes, Loop, Early, Late
<1>5. MainSent' = MainSent /\ Reported' = Reported
  BY DEF MainSent, Reported
<1>6. ASSUME NEW b \in B!Bucket
      PROVE  SentTo(root'.pc, root'.ki, b) = SentTo(root.pc, root.ki, b)
                                             + IF b = k THEN 1 ELSE 0
  <2>1. b \in Int /\ b >= 1 /\ b <= K /\ k \in Int /\ K \in Int
    BY <1>1, SentFacts, SortFacts
  <2>2. SentTo(root.pc, root.ki, b)
          = Stage(root.pc) + IF b < k THEN 1 ELSE 0
    BY DEF SentTo
  <2>3. Stage(root.pc) \in Int
    BY DEF Stage
  <2>4. CASE k < K /\ root'.pc = root.pc /\ root'.ki = k + 1
    <3>1. SentTo(root'.pc, root'.ki, b)
            = Stage(root.pc) + IF b < k + 1 THEN 1 ELSE 0
      BY <2>4 DEF SentTo
    <3> HIDE DEF k
    <3> QED BY <2>1, <2>2, <2>3, <3>1
  <2>5. CASE k = K /\ root'.pc = q /\ root'.ki = 1
    <3>1. SentTo(root'.pc, root'.ki, b) = Stage(root.pc) + 1
      <4>1. ~(b < 1)
        BY <2>1
      <4>2. SentTo(root'.pc, root'.ki, b) = Stage(q) + 0
        BY <2>5, <4>1 DEF SentTo
      <4> QED BY <2>3, <4>2
    <3> HIDE DEF k
    <3> QED BY <2>1, <2>2, <2>3, <2>5, <3>1
  <2> QED BY <1>3, <2>4, <2>5
<1>7. BucketMail'
  <2> SUFFICES ASSUME NEW b \in B!Bucket
               PROVE  /\ Len(box'[b]) = SentTo(root'.pc, root'.ki, b)
                                        - bucket[b].got
                      /\ \A i \in 1 .. Len(box'[b]) :
                           box'[b][i].tag = Tag(bucket[b].got + i)
    BY DEF BucketMail
  <2>1. /\ Len(box[b]) = SentTo(root.pc, root.ki, b) - bucket[b].got
        /\ \A i \in 1 .. Len(box[b]) :
             box[b][i].tag = Tag(bucket[b].got + i)
    BY DEF BucketMail
  <2>2. CASE b # k
    <3>1. SentTo(root'.pc, root'.ki, b) = SentTo(root.pc, root.ki, b)
      BY <1>6, <2>2, SentFacts
    <3> QED BY <1>2, <2>1, <2>2, <3>1, SentFacts
  <2>3. CASE b = k
    <3> DEFINE g == bucket[b].got
               n == Len(box[b])
               t == SentTo(root.pc, root.ki, b)
    <3>1. g \in Int /\ n \in Nat /\ t \in Int /\ n = t - g
      BY <2>1, SentFacts
    <3>2. SentTo(root'.pc, root'.ki, b) = t + 1 /\ Len(box'[b]) = n + 1
      BY <1>2, <1>6, <2>3
    <3>3. t = Stage(root.pc)
      <4>1. ~(b < root.ki)
        BY <2>3, SentFacts
      <4> QED BY <4>1 DEF SentTo, Stage
    <3>4. box'[b][n + 1] = m /\ \A i \in 1 .. n : box'[b][i] = box[b][i]
      BY <1>2, <2>3
    <3>5. \A i \in 1 .. n : box[b][i].tag = Tag(g + i)
      BY <2>1
    <3> HIDE DEF g, n, t
    <3>6. Len(box'[b]) = (t + 1) - g
      BY <3>1, <3>2
    <3>7. ASSUME NEW i \in 1 .. n + 1 PROVE box'[b][i].tag = Tag(g + i)
      <4>1. CASE i \in 1 .. n
        BY <3>4, <3>5, <4>1
      <4>2. CASE i = n + 1
        <5>1. g + i = t + 1
          BY <3>1, <4>2
        <5> QED BY <3>3, <3>4, <4>2, <5>1
      <4> QED BY <3>1, <4>1, <4>2
    <3> QED BY <3>2, <3>6, <3>7 DEF g
  <2> QED BY <2>2, <2>3
<1>8. RootMail'
  <2>1. box'[0] = box[0]
    BY <1>1, <1>2, SortFacts
  <2>2. CASE root.pc = "setSub"
    <3>1. root'.pc \in {"setSub", "recvDone"}
      BY <1>3, <2>2
    <3> QED BY <1>5, <2>1, <2>2, <3>1 DEF RootMail, Early, Late
  <2>3. CASE root.pc # "setSub"
    <3>1. root.pc \in Early /\ root.pc # "recvSub" /\ root'.pc \in Early
          /\ (root'.pc = "recvSub" => root'.ki = 1)
      BY <1>3, <2>3 DEF Loop, Early
    <3>2. /\ Len(box[0]) + 0 = Cardinality(Reported)
          /\ \A i \in 1 .. Len(box[0]) : box[0][i].tag = "SUB_ARRAT_MSG"
          /\ MainSent = 2
      BY <3>1 DEF RootMail, Early
    <3>3. root'.pc \notin Late /\ root'.pc \notin {"recvK", "recvData"}
      BY <3>1 DEF Early, Late
    <3>4. (IF root'.pc = "recvSub" THEN root'.ki - 1 ELSE 0) = 0
      BY <3>1
    <3> QED BY <1>5, <2>1, <3>2, <3>3, <3>4 DEF RootMail
  <2> QED BY <2>2, <2>3
<1> QED BY <1>4, <1>7, <1>8

(* Rounds 1 and 2.                                                         *)
LEMMA SRootSend ==
  ASSUME SortInv, B!RootSend
  PROVE  SortInv'
<1>1. /\ root.pc \in {"topology", "dataRef", "splitters", "getSub"}
      /\ UNCHANGED <<main, bucket>>
  BY DEF B!RootSend, B!NextLoop
<1>2. PICK m : B!Put(root.ki, m) /\ m.tag = Tag(Stage(root.pc) + 1)
  <2>1. CASE root.pc = "topology"
    BY <2>1 DEF B!RootSend, Tag, Stage
  <2>2. CASE root.pc = "dataRef"
    BY <2>2 DEF B!RootSend, Tag, Stage
  <2>3. CASE root.pc = "splitters"
    BY <2>3 DEF B!RootSend, Tag, Stage
  <2>4. CASE root.pc = "getSub"
    BY <2>4 DEF B!RootSend, Tag, Stage
  <2> QED BY <1>1, <2>1, <2>2, <2>3, <2>4
<1> DEFINE q == B!NextLoop[root.pc]
<1>3. /\ Stage(q) = Stage(root.pc) + 1 /\ q # "recvDone"
      /\ q \in (Loop \ {"setSub"}) \cup {"recvSub", "recvDone"}
  BY <1>1 DEF B!NextLoop, Stage, Loop
<1>4. root' = IF root.ki < root.K THEN [root EXCEPT !.ki = @ + 1]
              ELSE [root EXCEPT !.pc = q, !.ki = 1]
  BY DEF B!RootSend
<1>5. root.pc \in Loop /\ root.pc # "setSub"
  BY <1>1 DEF Loop
<1> HIDE DEF q
<1> QED BY <1>1, <1>2, <1>3, <1>4, <1>5, SLoop

(* Round 3.                                                                *)
LEMMA SSetSub ==
  ASSUME SortInv, B!SendSetSubArray
  PROVE  SortInv'
<1>1. root.pc = "setSub" /\ UNCHANGED <<main, bucket>> /\ root.pc \in Loop
  BY DEF B!SendSetSubArray, Loop
<1>2. PICK m : B!Put(root.ki, m) /\ m.tag = Tag(Stage(root.pc) + 1)
  BY <1>1 DEF B!SendSetSubArray, Tag, Stage
<1> DEFINE q == "recvDone"
<1>3. /\ Stage(q) = Stage(root.pc) + 1
      /\ q \in (Loop \ {"setSub"}) \cup {"recvSub", "recvDone"}
      /\ (root.pc = "setSub" <=> q = "recvDone")
  BY <1>1 DEF Stage, Loop
<1>4. root' = IF root.ki < root.K THEN [root EXCEPT !.ki = @ + 1]
              ELSE [root EXCEPT !.pc = q, !.ki = 1]
  BY DEF B!SendSetSubArray
<1> HIDE DEF q
<1> QED BY <1>1, <1>2, <1>3, <1>4, SLoop

(* The root ends.                                                          *)
LEMMA SSignal ==
  ASSUME SortInv, B!SignalMain
  PROVE  SortInv'
<1> USE DEF SortInv
<1>1. /\ root.pc = "signal" /\ UNCHANGED <<bucket, box>>
      /\ root' = [root EXCEPT !.pc = "ended"]
      /\ main' = IF main = "asleep" THEN "woken" ELSE main
  BY DEF B!SignalMain
<1>2. /\ DOMAIN root' = DOMAIN root /\ root'.pc = "ended"
      /\ root'.ki = root.ki /\ root'.K = root.K
  BY <1>1 DEF SortTypes
<1>3. MainSent' = MainSent /\ Reported' = Reported
  BY <1>1 DEF MainSent, Reported
<1>4. SortTypes'
  BY <1>1, <1>2 DEF SortTypes, Late
<1>5. BucketMail'
  BY <1>1, <1>2 DEF BucketMail, SentTo, Stage, Loop
<1>6. RootMail'
  BY <1>1, <1>2, <1>3 DEF RootMail, Early, Late
<1> QED BY <1>4, <1>5, <1>6

(* A bucket takes its next message.                                        *)
LEMMA SBucketReceive ==
  ASSUME SortInv, NEW b \in B!Bucket, B!BucketReceive(b)
  PROVE  SortInv'
<1> USE DEF SortInv
<1> DEFINE g == bucket[b].got
           p == CASE g + 1 = 4 -> "partition" [] g + 1 = 5 -> "sort"
                  [] OTHER -> "receive"
<1>1. /\ b \in B!Task /\ b # 0 /\ UNCHANGED <<main, root>>
      /\ bucket[b].pc = "receive" /\ g \in 0 .. 4
      /\ box[b] # << >> /\ box' = [box EXCEPT ![b] = Tail(@)]
  BY SentFacts DEF B!BucketReceive, SortTypes
<1>2. /\ DOMAIN box' = B!Task /\ \A u \in B!Task : IsSeq(box'[u])
      /\ \A u \in B!Task : u # b => box'[u] = box[u]
      /\ Len(box[b]) \in Nat /\ Len(box[b]) >= 1
      /\ Len(box'[b]) = Len(box[b]) - 1
      /\ \A i \in 1 .. Len(box[b]) - 1 : box'[b][i] = box[b][i + 1]
  BY <1>1, TakeFacts
<1>3. /\ DOMAIN bucket' = DOMAIN bucket
      /\ \A c \in B!Bucket : c # b => bucket'[c] = bucket[c]
      /\ DOMAIN bucket'[b] = DOMAIN bucket[b]
      /\ bucket'[b].got = g + 1 /\ bucket'[b].pc = p
  <2> DEFINE m == Head(box[b])
             at == [bucket[b] EXCEPT !.got = g + 1, !.pc = p]
             new == CASE m.tag = "TOPOLOGY_MSG" ->
                           [at EXCEPT !.bucket_count = m.bucket_count]
                      [] m.tag = "DATA_REF_MSG" ->
                           [at EXCEPT !.first = m.first, !.size = m.size]
                      [] m.tag = "SPLITTER_MSG" ->
                           [at EXCEPT !.splitters = m.splitters]
                      [] OTHER -> at
  <2>1. bucket' = [bucket EXCEPT ![b] = new]
    BY Zenon DEF B!BucketReceive
  <2>2. DOMAIN bucket = B!Bucket
    BY DEF SortTypes
  <2>3. /\ DOMAIN at = DOMAIN bucket[b] /\ at.got = g + 1 /\ at.pc = p
    <3> HIDE DEF p, g
    <3> QED BY DEF SortTypes
  <2> HIDE DEF at
  <2>4. DOMAIN new = DOMAIN at /\ new.got = at.got /\ new.pc = at.pc
    <3>1. CASE m.tag = "TOPOLOGY_MSG"
      <4>1. new = [at EXCEPT !.bucket_count = m.bucket_count]
        BY <3>1
      <4> HIDE DEF m, new
      <4> QED BY <4>1, <2>3 DEF SortTypes
    <3>2. CASE m.tag = "DATA_REF_MSG"
      <4>1. new = [at EXCEPT !.first = m.first, !.size = m.size]
        BY <3>2
      <4> HIDE DEF m, new
      <4> QED BY <4>1, <2>3 DEF SortTypes
    <3>3. CASE m.tag = "SPLITTER_MSG"
      <4>1. new = [at EXCEPT !.splitters = m.splitters]
        BY <3>3
      <4> HIDE DEF m, new
      <4> QED BY <4>1, <2>3 DEF SortTypes
    <3>4. CASE m.tag \notin {"TOPOLOGY_MSG", "DATA_REF_MSG", "SPLITTER_MSG"}
      BY <3>4
    <3> QED BY <3>1, <3>2, <3>3, <3>4
  <2> HIDE DEF new, p, g
  <2> QED BY <2>1, <2>2, <2>3, <2>4
<1>4. /\ p \in {"partition", "sort", "receive"}
      /\ (p = "partition" <=> g = 3) /\ (p = "sort" <=> g = 4)
  BY <1>1
<1>5. SortTypes'
  <2>1. g + 1 \in 0 .. 5
    BY <1>1
  <2>2. /\ p = "receive" => g + 1 <= 4
        /\ p = "partition" => g + 1 = 4
        /\ p = "sort" => g + 1 = 5
    BY <1>1, <1>4
  <2> HIDE DEF p, g
  <2>3. ASSUME NEW c \in B!Bucket
        PROVE
          /\ DOMAIN bucket'[c] = {"pc", "got", "bucket_count", "first",
                                  "size", "splitters"}
          /\ bucket'[c].got \in 0 .. 5
          /\ bucket'[c].pc \in {"none", "receive", "partition", "sort",
                                "return", "ended"}
          /\ bucket'[c].pc \in {"none", "receive"} => bucket'[c].got <= 4
          /\ bucket'[c].pc = "partition" => bucket'[c].got = 4
          /\ bucket'[c].pc \in {"sort", "return", "ended"}
               => bucket'[c].got = 5
    <3>1. CASE c = b
      BY <1>3, <1>4, <2>1, <2>2, <3>1 DEF SortTypes
    <3>2. CASE c # b
      BY <1>3, <3>2 DEF SortTypes
    <3> QED BY <3>1, <3>2
  <2> QED BY <1>1, <1>2, <1>3, <2>3 DEF SortTypes
<1>6. MainSent' = MainSent /\ Reported' = Reported
  <2>1. MainSent' = MainSent
    BY <1>1 DEF MainSent
  <2>2. ASSUME NEW c \in B!Bucket
        PROVE  (bucket'[c].got >= 4 /\ bucket'[c].pc # "partition")
                 <=> (bucket[c].got >= 4 /\ bucket[c].pc # "partition")
    <3>1. CASE c = b
      <4>1. bucket[b].got = g /\ bucket[b].pc # "partition"
        BY <1>1
      <4> HIDE DEF p, g
      <4> QED BY <1>1, <1>3, <1>4, <3>1, <4>1
    <3>2. CASE c # b
      BY <1>3, <3>2
    <3> QED BY <3>1, <3>2
  <2> QED BY <2>1, <2>2 DEF Reported
<1>7. BucketMail'
  <2> SUFFICES ASSUME NEW c \in B!Bucket
               PROVE  /\ Len(box'[c]) = SentTo(root.pc, root.ki, c)
                                        - bucket'[c].got
                      /\ \A i \in 1 .. Len(box'[c]) :
                           box'[c][i].tag = Tag(bucket'[c].got + i)
    BY <1>1 DEF BucketMail
  <2>1. /\ Len(box[c]) = SentTo(root.pc, root.ki, c) - bucket[c].got
        /\ \A i \in 1 .. Len(box[c]) :
             box[c][i].tag = Tag(bucket[c].got + i)
    BY DEF BucketMail
  <2>2. CASE c # b
    BY <1>2, <1>3, <2>1, <2>2, SentFacts
  <2>3. CASE c = b
    <3> DEFINE n == Len(box[b])
               t == SentTo(root.pc, root.ki, b)
    <3>1. g \in Int /\ n \in Nat /\ t \in Int /\ n = t - g
          /\ bucket'[b].got = g + 1 /\ Len(box'[b]) = n - 1
      BY <1>2, <1>3, <2>1, <2>3, SentFacts
    <3>2. /\ \A i \in 1 .. n : box[b][i].tag = Tag(g + i)
          /\ \A i \in 1 .. n - 1 : box'[b][i] = box[b][i + 1]
      BY <1>2, <2>1, <2>3
    <3> HIDE DEF p, g, n, t
    <3>3. Len(box'[b]) = t - bucket'[b].got
      BY <3>1
    <3>4. ASSUME NEW i \in 1 .. n - 1
          PROVE  box'[b][i].tag = Tag((g + 1) + i)
      <4>1. i + 1 \in 1 .. n /\ g + (i + 1) = (g + 1) + i
        BY <3>1
      <4> QED BY <3>2, <4>1
    <3> QED BY <2>3, <3>1, <3>3, <3>4 DEF t
  <2> QED BY <2>2, <2>3
<1>8. box'[0] = box[0]
  BY <1>1, <1>2, SortFacts
<1>9. RootMail'
  BY <1>1, <1>6, <1>8 DEF RootMail
<1> QED BY <1>5, <1>7, <1>9

(* The steps of a bucket that change its place alone.                      *)
LEMMA PcFacts ==
  ASSUME SortInv, NEW b \in B!Bucket, NEW p,
         bucket' = [bucket EXCEPT ![b].pc = p]
  PROVE  /\ DOMAIN bucket' = B!Bucket
         /\ \A c \in B!Bucket :
              /\ bucket'[c].got = bucket[c].got
              /\ bucket'[c].pc = IF c = b THEN p ELSE bucket[c].pc
              /\ DOMAIN bucket'[c] = {"pc", "got", "bucket_count", "first",
                                      "size", "splitters"}
BY DEF SortInv, SortTypes

(* A bucket keeps its mail while only the root gets some.                  *)
LEMMA SameMail ==
  ASSUME SortInv, UNCHANGED root,
         \A c \in B!Bucket : /\ bucket'[c].got = bucket[c].got
                             /\ box'[c] = box[c]
  PROVE  BucketMail'
BY DEF SortInv, BucketMail

(* A bucket sends its partition: the root still waits for it.              *)
LEMMA SPartition ==
  ASSUME SortInv, NEW b \in B!Bucket, B!Partition(b)
  PROVE  SortInv'
<1> USE DEF SortInv
<1>1. /\ bucket[b].pc = "partition" /\ UNCHANGED <<main, root>>
      /\ bucket' = [bucket EXCEPT ![b].pc = "receive"]
      /\ bucket[b].got = 4 /\ 0 \in B!Task
  BY SortFacts DEF B!Partition, SortTypes
<1>2. PICK m : B!Put(0, m) /\ m.tag = "SUB_ARRAT_MSG"
  BY SortFacts DEF B!Partition
<1>3. /\ DOMAIN box' = B!Task /\ \A u \in B!Task : IsSeq(box'[u])
      /\ \A u \in B!Task : u # 0 => box'[u] = box[u]
      /\ Len(box[0]) \in Nat /\ Len(box'[0]) = Len(box[0]) + 1
      /\ \A i \in 1 .. Len(box[0]) : box'[0][i] = box[0][i]
      /\ box'[0][Len(box[0]) + 1] = m
  BY <1>1, <1>2, PutFacts
<1>4. /\ DOMAIN bucket' = B!Bucket
      /\ \A c \in B!Bucket :
           /\ bucket'[c].got = bucket[c].got
           /\ bucket'[c].pc = IF c = b THEN "receive" ELSE bucket[c].pc
           /\ DOMAIN bucket'[c] = {"pc", "got", "bucket_count", "first",
                                   "size", "splitters"}
  BY <1>1, PcFacts
<1>5. SortTypes'
  BY <1>1, <1>3, <1>4 DEF SortTypes
<1>6. BucketMail'
  BY <1>1, <1>3, <1>4, SameMail, SentFacts
<1>7. root.pc \in Early
  <2>1. b \notin Reported
    BY <1>1 DEF Reported
  <2>2. root.pc \notin Late
    BY <2>1 DEF RootMail
  <2>3. SentTo(root.pc, root.ki, b) >= 4
    BY <1>1, SentFacts
  <2>4. root.pc \notin {"recvK", "recvData"}
    BY <2>3 DEF SentTo, Stage, Loop
  <2> QED BY <2>2, <2>4 DEF SortTypes
<1>8. Reported' = Reported \cup {b} /\ b \notin Reported
  <2>1. \A c \in B!Bucket :
          (bucket'[c].got >= 4 /\ bucket'[c].pc # "partition")
          <=> ((bucket[c].got >= 4 /\ bucket[c].pc # "partition") \/ c = b)
    BY <1>1, <1>4
  <2>2. Reported' = {c \in B!Bucket : bucket'[c].got >= 4
                                      /\ bucket'[c].pc # "partition"}
    BY DEF Reported
  <2> QED BY <1>1, <2>1, <2>2 DEF Reported
<1>9. Cardinality(Reported') = Cardinality(Reported) + 1
      /\ Cardinality(Reported) \in Nat
  <2>1. IsFiniteSet(Reported)
    BY SortFacts, FS_Subset DEF Reported
  <2> HIDE DEF Reported
  <2> QED BY <1>8, <2>1, FS_AddElement, FS_CardinalityType
<1>10. RootMail'
  <2>1. root.pc \notin Late /\ root.pc \notin {"recvK", "recvData"}
    BY <1>7 DEF Early, Late
  <2> DEFINE x == IF root.pc = "recvSub" THEN root.ki - 1 ELSE 0
             n == Len(box[0])
  <2>2. n + x = Cardinality(Reported) /\ x \in Int /\ n \in Nat
        /\ Len(box'[0]) = n + 1
    BY <1>3, <1>7 DEF RootMail, SortTypes
  <2>3. ASSUME NEW i \in 1 .. n + 1 PROVE box'[0][i].tag = "SUB_ARRAT_MSG"
    <3>1. CASE i \in 1 .. n
      BY <1>3, <1>7, <3>1 DEF RootMail
    <3>2. CASE i = n + 1
      BY <1>2, <1>3, <3>2
    <3> QED BY <2>2, <3>1, <3>2
  <2>4. MainSent = 2 /\ MainSent' = MainSent
    BY <1>1, <2>1 DEF RootMail, MainSent
  <2> HIDE DEF n, x
  <2>5. Len(box'[0]) + x = Cardinality(Reported')
    BY <1>9, <2>2
  <2> QED BY <1>1, <1>7, <2>1, <2>2, <2>3, <2>4, <2>5 DEF RootMail, x
<1> QED BY <1>5, <1>6, <1>10

(* A bucket reports that it has sorted: the root waits for that.           *)
LEMMA SFinalSort ==
  ASSUME SortInv, NEW b \in B!Bucket, B!FinalSort(b)
  PROVE  SortInv'
<1> USE DEF SortInv
<1>1. /\ bucket[b].pc = "sort" /\ UNCHANGED <<main, root>>
      /\ bucket' = [bucket EXCEPT ![b].pc = "return"]
      /\ bucket[b].got = 5 /\ 0 \in B!Task
  BY SortFacts DEF B!FinalSort, SortTypes
<1>2. PICK m : B!Put(0, m) /\ m.tag = "DONE_MSG"
  BY SortFacts DEF B!FinalSort
<1>3. /\ DOMAIN box' = B!Task /\ \A u \in B!Task : IsSeq(box'[u])
      /\ \A u \in B!Task : u # 0 => box'[u] = box[u]
      /\ Len(box[0]) \in Nat /\ Len(box'[0]) = Len(box[0]) + 1
      /\ \A i \in 1 .. Len(box[0]) : box'[0][i] = box[0][i]
      /\ box'[0][Len(box[0]) + 1] = m
  BY <1>1, <1>2, PutFacts
<1>4. /\ DOMAIN bucket' = B!Bucket
      /\ \A c \in B!Bucket :
           /\ bucket'[c].got = bucket[c].got
           /\ bucket'[c].pc = IF c = b THEN "return" ELSE bucket[c].pc
           /\ DOMAIN bucket'[c] = {"pc", "got", "bucket_count", "first",
                                   "size", "splitters"}
  BY <1>1, PcFacts
<1>5. SortTypes'
  BY <1>1, <1>3, <1>4 DEF SortTypes
<1>6. BucketMail'
  BY <1>1, <1>3, <1>4, SameMail, SentFacts
<1>7. root.pc \in Late
  <2>1. SentTo(root.pc, root.ki, b) >= 5
    BY <1>1, SentFacts
  <2> QED BY <2>1 DEF SentTo, Stage, Loop, Late
<1>8. Reported' = Reported /\ MainSent' = MainSent
  BY <1>1, <1>4 DEF Reported, MainSent
<1>9. RootMail'
  <2>1. root.pc \notin Early /\ root.pc \notin {"recvK", "recvData"}
    BY <1>7 DEF Early, Late
  <2>2. ASSUME NEW i \in 1 .. Len(box'[0])
        PROVE  box'[0][i].tag = "DONE_MSG"
    <3>1. CASE i \in 1 .. Len(box[0])
      BY <1>3, <1>7, <3>1 DEF RootMail
    <3>2. CASE i = Len(box[0]) + 1
      BY <1>2, <1>3, <3>2
    <3> QED BY <1>3, <3>1, <3>2
  <2> QED BY <1>1, <1>7, <1>8, <2>1, <2>2 DEF RootMail
<1> QED BY <1>5, <1>6, <1>9

(* A bucket's thread ends.                                                 *)
LEMMA SBucketEnd ==
  ASSUME SortInv, NEW b \in B!Bucket, B!BucketEnd(b)
  PROVE  SortInv'
<1> USE DEF SortInv
<1>1. /\ bucket[b].pc = "return" /\ UNCHANGED <<main, root, box>>
      /\ bucket' = [bucket EXCEPT ![b].pc = "ended"]
  BY DEF B!BucketEnd
<1>2. /\ DOMAIN bucket' = B!Bucket
      /\ \A c \in B!Bucket :
           /\ bucket'[c].got = bucket[c].got
           /\ bucket'[c].pc = IF c = b THEN "ended" ELSE bucket[c].pc
           /\ DOMAIN bucket'[c] = {"pc", "got", "bucket_count", "first",
                                   "size", "splitters"}
  BY <1>1, PcFacts
<1>3. SortTypes'
  BY <1>1, <1>2 DEF SortTypes
<1>4. BucketMail'
  BY <1>1, <1>2, SameMail
<1>5. Reported' = Reported /\ MainSent' = MainSent
  BY <1>1, <1>2 DEF Reported, MainSent
<1>6. RootMail'
  BY <1>1, <1>5 DEF RootMail
<1> QED BY <1>3, <1>4, <1>6

-----------------------------------------------------------------------------
(* What every task has been sent and has taken, at any moment of the sort. *)
THEOREM SortInvariance == B!Spec => []SortInv
<1>1. SortInv /\ [B!Next]_(B!vars) => SortInv'
  <2> SUFFICES ASSUME SortInv, [B!Next]_(B!vars) PROVE SortInv'
    OBVIOUS
  <2>1. CASE B!MainStep
    BY <2>1, SMainSend, SMainWait DEF B!MainStep
  <2>2. CASE B!RootStep
    BY <2>2, SRootReceive, SSample, SCreateBucket, SRootSend, SSetSub,
       SSignal DEF B!RootStep
  <2>3. ASSUME NEW b \in B!Bucket, B!BucketStep(b) PROVE SortInv'
    BY <2>3, SBucketReceive, SPartition, SFinalSort, SBucketEnd
       DEF B!BucketStep
  <2>4. CASE UNCHANGED B!vars
    <3>1. UNCHANGED <<main, root, bucket, box>>
      BY <2>4 DEF B!vars
    <3>2. MainSent' = MainSent /\ Reported' = Reported
      BY <3>1 DEF MainSent, Reported
    <3> QED BY <3>1, <3>2 DEF SortInv, SortTypes, BucketMail, RootMail
  <2> QED BY <2>1, <2>2, <2>3, <2>4 DEF B!Next
<1> QED BY <1>1, SortInit, PTL DEF B!Spec

(* Each receive of the root and of a bucket meets the message that its     *)
(* place in the program expects, for any number of buckets: no handler is  *)
(* chosen for a message that came out of turn.                             *)
THEOREM TagsAreInTurn == B!Spec => []ExpectedTag
<1>1. SortInv => ExpectedTag
  <2> SUFFICES ASSUME SortInv PROVE B!ExpectedTag
    BY DEF ExpectedTag
  <2> USE DEF SortInv
  <2>1. ASSUME box[0] # << >>
        PROVE  Head(box[0]).tag =
                 CASE root.pc = "recvK" -> "BAR_MSG"
                   [] root.pc = "recvData" -> "REF_INTARRAY_MSG"
                   [] root.pc \in {"sample", "create", "topology",
                                   "dataRef", "splitters", "getSub",
                                   "recvSub"} -> "SUB_ARRAT_MSG"
                   [] OTHER -> "DONE_MSG"
    <3>1. 0 \in B!Task /\ IsSeq(box[0])
      BY SortFacts DEF SortTypes
    <3>2. Head(box[0]) = box[0][1] /\ 1 \in 1 .. Len(box[0])
      BY <2>1, <3>1, IsSeqTail DEF IsSeq
    <3>3. CASE root.pc = "recvK"
      <4>1. \A i \in 1 .. Len(box[0]) :
              i + 0 = 1 => box[0][i].tag = "BAR_MSG"
        BY <3>3 DEF RootMail
      <4>2. box[0][1].tag = "BAR_MSG"
        BY <3>2, <4>1
      <4> QED BY <3>2, <3>3, <4>2
    <3>4. CASE root.pc = "recvData"
      <4>1. \A i \in 1 .. Len(box[0]) :
              i + 1 = 2 => box[0][i].tag = "REF_INTARRAY_MSG"
        BY <3>4 DEF RootMail
      <4>2. box[0][1].tag = "REF_INTARRAY_MSG"
        BY <3>2, <4>1
      <4> QED BY <3>2, <3>4, <4>2
    <3>5. CASE root.pc \in Early
      <4>1. box[0][1].tag = "SUB_ARRAT_MSG"
        BY <3>2, <3>5 DEF RootMail
      <4> QED BY <3>2, <3>5, <4>1 DEF Early
    <3>6. CASE root.pc \in Late
      <4>1. box[0][1].tag = "DONE_MSG"
        BY <3>2, <3>6 DEF RootMail
      <4> QED BY <3>2, <3>6, <4>1 DEF Late
    <3> QED BY <3>3, <3>4, <3>5, <3>6 DEF SortTypes
  <2>2. ASSUME NEW b \in B!Bucket, bucket[b].pc = "receive",
               box[b] # << >>
        PROVE  Head(box[b]).tag =
                 <<"TOPOLOGY_MSG", "DATA_REF_MSG", "SPLITTER_MSG",
                   "GET_SUB_ARRAY_MSG", "SET_SUB_ARRAY_MSG">>
                     [bucket[b].got + 1]
    <3>1. b \in B!Task /\ IsSeq(box[b]) /\ bucket[b].got \in 0 .. 4
      BY <2>2, SortFacts DEF SortTypes
    <3>2. Head(box[b]) = box[b][1] /\ 1 \in 1 .. Len(box[b])
      BY <2>2, <3>1, IsSeqTail DEF IsSeq
    <3>3. Head(box[b]).tag = Tag(bucket[b].got + 1)
      BY <3>2 DEF BucketMail
    <3>4. \A g \in 0 .. 4 : Tag(g + 1) =
            <<"TOPOLOGY_MSG", "DATA_REF_MSG", "SPLITTER_MSG",
              "GET_SUB_ARRAY_MSG", "SET_SUB_ARRAY_MSG">>[g + 1]
      BY DEF Tag
    <3> QED BY <3>1, <3>3, <3>4
  <2> QED BY <2>1, <2>2, SortFacts DEF B!ExpectedTag
<1> QED BY <1>1, SortInvariance, PTL

-----------------------------------------------------------------------------
(* The sample sort: what its operators compute                             *)

(* The places of s with a value in V, and their number.                    *)
At(s, V) == {i \in 1 .. Len(s) : s[i] \in V}
Tally(s, V) == Cardinality(At(s, V))

(* A sequence in order.                                                    *)
Ordered(s) == \A i, j \in 1 .. Len(s) : i < j => s[i] <= s[j]

(* Places are finitely many.                                               *)
LEMMA AtFinite ==
  ASSUME NEW s, Len(s) \in Nat, NEW V
  PROVE  IsFiniteSet(At(s, V)) /\ Tally(s, V) \in Nat
<1>1. IsFiniteSet(1 .. Len(s)) /\ At(s, V) \in SUBSET (1 .. Len(s))
  BY FS_Interval DEF At
<1> QED BY <1>1, FS_Subset, FS_CardinalityType DEF Tally

(* No place has a value of V if there are none to count.                   *)
LEMMA TallyNone ==
  ASSUME NEW s, Len(s) \in Nat, NEW V
  PROVE  Tally(s, V) = 0 <=> \A i \in 1 .. Len(s) : s[i] \notin V
<1>1. Tally(s, V) = 0 <=> At(s, V) = {}
  BY AtFinite, FS_EmptySet DEF Tally
<1> QED BY <1>1 DEF At

(* A bijection of finite sets.                                             *)
LEMMA SameSize ==
  ASSUME NEW X, NEW Y, IsFiniteSet(X), NEW f \in [X -> Y],
         \A x, y \in X : f[x] = f[y] => x = y,
         \A y \in Y : \E x \in X : f[x] = y
  PROVE  IsFiniteSet(Y) /\ Cardinality(Y) = Cardinality(X)
<1>1. f \in Bijection(X, Y)
  BY DEF Bijection, Injection, Surjection, IsInjective
<1>2. ExistsBijection(X, Y)
  BY <1>1 DEF ExistsBijection
<1> QED BY <1>2, FS_Bijection

(* Sets that share nothing.                                                *)
LEMMA Disjoint ==
  ASSUME NEW X, NEW Y, IsFiniteSet(X), IsFiniteSet(Y), X \cap Y = {}
  PROVE  /\ IsFiniteSet(X \cup Y)
         /\ Cardinality(X \cup Y) = Cardinality(X) + Cardinality(Y)
<1>1. Cardinality(X) \in Nat /\ Cardinality(Y) \in Nat
  BY FS_CardinalityType
<1> QED BY <1>1, FS_Union, FS_EmptySet

(* Values of one sequence and another.                                     *)
LEMMA TallyConcat ==
  ASSUME NEW s \in Seq(Int), NEW t \in Seq(Int), NEW V
  PROVE  /\ s \o t \in Seq(Int)
         /\ Tally(s \o t, V) = Tally(s, V) + Tally(t, V)
<1>1. /\ s \o t \in Seq(Int) /\ Len(s) \in Nat /\ Len(t) \in Nat
      /\ Len(s \o t) = Len(s) + Len(t)
      /\ \A i \in 1 .. Len(s) + Len(t) :
           (s \o t)[i] = IF i <= Len(s) THEN s[i] ELSE t[i - Len(s)]
  BY ConcatProperties, LenProperties
<1> DEFINE n == Len(s)
           X == At(s, V)
           Y == At(t, V)
           Z == {i \in n + 1 .. n + Len(t) : t[i - n] \in V}
           f == [j \in Y |-> n + j]
<1>2. At(s \o t, V) = X \cup Z
  <2>1. \A i : i \in 1 .. n + Len(t) <=>
                 i \in 1 .. n \/ i \in n + 1 .. n + Len(t)
    BY <1>1
  <2>2. \A i \in 1 .. n : (s \o t)[i] = s[i]
    BY <1>1
  <2>3. \A i \in n + 1 .. n + Len(t) : (s \o t)[i] = t[i - n]
    BY <1>1
  <2>4. At(s \o t, V) = {i \in 1 .. n + Len(t) : (s \o t)[i] \in V}
    BY <1>1 DEF At
  <2> HIDE DEF n
  <2> QED BY <2>1, <2>2, <2>3, <2>4 DEF At, n
<1>3. X \cap Z = {}
  BY <1>1 DEF At
<1>4. IsFiniteSet(X) /\ IsFiniteSet(Y)
  BY <1>1, AtFinite
<1>5. /\ f \in [Y -> Z] /\ \A x, y \in Y : f[x] = f[y] => x = y
      /\ \A y \in Z : \E x \in Y : f[x] = y
  <2>1. \A j \in Y : n + j \in Z
    BY <1>1 DEF At
  <2>2. \A x, y \in Y : n + x = n + y => x = y
    BY <1>1 DEF At
  <2>3. \A y \in Z : y - n \in Y /\ n + (y - n) = y
    BY <1>1 DEF At
  <2> HIDE DEF Y, Z, n
  <2> QED BY <2>1, <2>2, <2>3
<1>6. IsFiniteSet(Z) /\ Cardinality(Z) = Cardinality(Y)
  <2> HIDE DEF Y, Z, f
  <2> QED BY <1>4, <1>5, SameSize
<1>7. Cardinality(X \cup Z) = Cardinality(X) + Cardinality(Z)
  <2> HIDE DEF X, Z
  <2> QED BY <1>3, <1>4, <1>6, Disjoint
<1> QED BY <1>1, <1>2, <1>6, <1>7 DEF Tally

(* Values of one more element.                                             *)
LEMMA TallyAppend ==
  ASSUME NEW s \in Seq(Int), NEW x \in Int, NEW V
  PROVE  /\ Append(s, x) \in Seq(Int)
         /\ Tally(Append(s, x), V) = Tally(s, V) + IF x \in V THEN 1 ELSE 0
<1> DEFINE n == Len(s)
<1>1. /\ Append(s, x) \in Seq(Int) /\ n \in Nat
      /\ Len(Append(s, x)) = n + 1 /\ Append(s, x)[n + 1] = x
      /\ \A i \in 1 .. n : Append(s, x)[i] = s[i]
  BY AppendProperties, LenProperties
<1>2. At(Append(s, x), V) = At(s, V) \cup IF x \in V THEN {n + 1} ELSE {}
  <2>1. \A i : i \in 1 .. n + 1 <=> i \in 1 .. n \/ i = n + 1
    BY <1>1
  <2>2. At(Append(s, x), V) = {i \in 1 .. n + 1 : Append(s, x)[i] \in V}
    BY <1>1 DEF At
  <2>3. At(s, V) = {i \in 1 .. n : s[i] \in V}
    BY DEF At
  <2> HIDE DEF n
  <2> QED BY <1>1, <2>1, <2>2, <2>3
<1>3. n + 1 \notin At(s, V)
  BY <1>1 DEF At
<1>4. IsFiniteSet(At(s, V)) /\ Cardinality(At(s, V)) \in Nat
  BY <1>1, AtFinite DEF Tally
<1>5. CASE x \in V
  BY <1>1, <1>2, <1>3, <1>4, <1>5, FS_AddElement DEF Tally
<1>6. CASE x \notin V
  BY <1>1, <1>2, <1>4, <1>6 DEF Tally
<1> QED BY <1>5, <1>6

(* In a sequence in order the values up to v are the first ones.           *)
LEMMA OrderedRank ==
  ASSUME NEW u \in Seq(Int), Ordered(u), NEW i \in 1 .. Len(u), NEW v \in Int
  PROVE  u[i] <= v <=> i <= Tally(u, {x \in Int : x <= v})
<1> DEFINE V == {x \in Int : x <= v}
           c == Tally(u, V)
<1>1. /\ Len(u) \in Nat /\ u \in [1 .. Len(u) -> Int]
      /\ c \in Nat /\ IsFiniteSet(At(u, V))
  BY LenProperties, AtFinite
<1>2. CASE u[i] <= v
  <2>1. \A j \in 1 .. i : j \in At(u, V)
    <3> TAKE j \in 1 .. i
    <3>1. j \in 1 .. Len(u) /\ (j < i \/ j = i)
      BY <1>1
    <3>2. u[j] \in Int /\ u[i] \in Int /\ u[j] <= u[i]
      BY <1>1, <3>1 DEF Ordered
    <3> QED BY <1>2, <3>1, <3>2 DEF At
  <2>2. 1 .. i \in SUBSET At(u, V)
    BY <2>1
  <2>3. Cardinality(1 .. i) = i /\ i \in Nat
    BY FS_Interval
  <2>4. i <= c
    <3> HIDE DEF V
    <3> QED BY <1>1, <2>2, <2>3, FS_Subset DEF Tally
  <2> QED BY <1>2, <2>4
<1>3. CASE ~(u[i] <= v)
  <2>1. \A j \in 1 .. Len(u) : j \in At(u, V) => j \in 1 .. i - 1
    <3> TAKE j \in 1 .. Len(u)
    <3>1. CASE j >= i
      <4>1. u[j] \in Int /\ u[i] \in Int /\ u[i] <= u[j]
        BY <1>1, <3>1 DEF Ordered
      <4> QED BY <1>3, <4>1 DEF At
    <3>2. CASE ~(j >= i)
      BY <3>2
    <3> QED BY <3>1, <3>2
  <2>2. At(u, V) \in SUBSET (1 .. i - 1)
    BY <2>1 DEF At
  <2>3. Cardinality(1 .. i - 1) = i - 1 /\ IsFiniteSet(1 .. i - 1)
    BY FS_Interval
  <2>4. c <= i - 1
    <3> HIDE DEF V
    <3> QED BY <2>2, <2>3, FS_Subset DEF Tally
  <2> QED BY <1>1, <1>3, <2>4
<1> QED BY <1>2, <1>3

(* Sequences in order with as many values of every set are equal.          *)
LEMMA OrderedIsUnique ==
  ASSUME NEW s \in Seq(Int), NEW t \in Seq(Int), Ordered(s), Ordered(t),
         \A V \in SUBSET Int : Tally(s, V) = Tally(t, V)
  PROVE  s = t
<1>1. Len(s) \in Nat /\ Len(t) \in Nat
  BY LenProperties
<1>3. ASSUME NEW u \in Seq(Int)
      PROVE  Tally(u, Int) = Len(u)
  <2>1. u \in [1 .. Len(u) -> Int] /\ Len(u) \in Nat
    BY LenProperties
  <2>2. At(u, Int) = 1 .. Len(u)
    BY <2>1 DEF At
  <2> DEFINE n == Len(u)
  <2>3. n \in Nat
    BY <2>1
  <2> HIDE DEF n
  <2>4. Cardinality(1 .. n) = n
    BY <2>3, FS_Interval
  <2> QED BY Zenon, <2>2, <2>4 DEF Tally, n
<1>4. Len(s) = Len(t)
  BY <1>3
<1>5. ASSUME NEW i \in 1 .. Len(s), NEW v \in Int
      PROVE  s[i] <= v <=> t[i] <= v
  <2> DEFINE V == {x \in Int : x <= v}
  <2>1. Tally(s, V) = Tally(t, V)
    OBVIOUS
  <2>2. s[i] <= v <=> i <= Tally(s, V)
    BY OrderedRank
  <2>3. i \in 1 .. Len(t)
    BY <1>4
  <2>4. t[i] <= v <=> i <= Tally(t, V)
    BY <2>3, OrderedRank
  <2> HIDE DEF V
  <2> QED BY <2>1, <2>2, <2>4
<1>6. ASSUME NEW i \in 1 .. Len(s) PROVE s[i] = t[i]
  <2>1. s[i] \in Int /\ t[i] \in Int
    BY <1>4
  <2>2. (s[i] <= s[i] <=> t[i] <= s[i]) /\ (s[i] <= t[i] <=> t[i] <= t[i])
    BY <1>5, <2>1
  <2> QED BY <2>1, <2>2
<1> QED BY <1>1, <1>4, <1>6, SeqEqual

(* The step f, taken n times from x.                                       *)
Stepping(f, T) == \A i \in Nat : \A y \in T : f[i][y] \in T
Repeated(h, f, x, n, T) ==
  /\ h \in [0 .. n -> T] /\ h[0] = x
  /\ \A i \in 1 .. n : h[i] = f[i][h[i - 1]]

(* A function defined by recursion.                                        *)
LEMMA RecExists ==
  ASSUME NEW T, NEW x \in T, NEW f, Stepping(f, T), NEW n \in Nat
  PROVE  \E h : Repeated(h, f, x, n, T)
<1> DEFINE Upto(k) == \E h \in [0 .. k -> T] :
             h[0] = x /\ \A i \in 1 .. k : h[i] = f[i][h[i - 1]]
           Bad == {k \in Nat : ~Upto(k)}
<1>1. ASSUME Bad # {} PROVE FALSE
  <2>1. PICK k \in Bad : \A y \in Bad : k <= y
    <3>1. Bad \in SUBSET Nat
      OBVIOUS
    <3> HIDE DEF Bad
    <3> QED BY <1>1, <3>1, Smallest
  <2>2. k \in Nat /\ ~Upto(k)
    OBVIOUS
  <2>3. CASE k = 0
    <3> DEFINE h == [i \in 0 .. 0 |-> x]
    <3>1. h \in [0 .. 0 -> T] /\ h[0] = x /\ \A i \in 1 .. 0 : FALSE
      OBVIOUS
    <3>2. \A i \in 1 .. 0 : h[i] = f[i][h[i - 1]]
      BY <3>1
    <3> HIDE DEF h
    <3> QED BY <2>2, <2>3, <3>1, <3>2
  <2>4. CASE k # 0
    <3>1. k - 1 \in Nat /\ ~(k <= k - 1)
      BY <2>2, <2>4
    <3>2. k - 1 \notin Bad
      <4> HIDE DEF Bad
      <4> QED BY <2>1, <3>1
    <3>3. Upto(k - 1)
      BY <3>1, <3>2
    <3>4. PICK g \in [0 .. k - 1 -> T] :
            g[0] = x /\ \A i \in 1 .. k - 1 : g[i] = f[i][g[i - 1]]
      BY <3>3
    <3> DEFINE h == [i \in 0 .. k |-> IF i = k THEN f[k][g[k - 1]] ELSE g[i]]
    <3>5. /\ \A i \in 0 .. k - 1 : h[i] = g[i] /\ g[i] \in T
          /\ h[k] = f[k][g[k - 1]] /\ h[k] \in T
      <4>1. g[k - 1] \in T /\ f[k][g[k - 1]] \in T
        BY <2>2, <3>1 DEF Stepping
      <4> QED BY <2>2, <3>1, <4>1
    <3>6. h \in [0 .. k -> T]
      BY <2>2, <3>5
    <3> HIDE DEF h
    <3>7. h[0] = x
      BY <3>1, <3>4, <3>5
    <3>8. ASSUME NEW i \in 1 .. k PROVE h[i] = f[i][h[i - 1]]
      <4>1. CASE i = k
        BY <3>1, <3>5, <4>1
      <4>2. CASE i # k
        <5>1. i \in 1 .. k - 1 /\ i - 1 \in 0 .. k - 1 /\ i \in 0 .. k - 1
          BY <2>2, <4>2
        <5> QED BY <3>4, <3>5, <5>1
      <4> QED BY <4>1, <4>2
    <3> QED BY <2>2, <3>6, <3>7, <3>8
  <2> QED BY <2>3, <2>4
<1> HIDE DEF Bad
<1>2. Bad = {}
  BY <1>1
<1> USE DEF Bad
<1>3. Upto(n)
  BY <1>2
<1> QED BY <1>3 DEF Repeated

(* The first numbers.                                                      *)
LEMMA FirstN ==
  ASSUME NEW n \in Nat
  PROVE  IsFiniteSet(1 .. n) /\ Cardinality(1 .. n) = n
<1>1. /\ IsFiniteSet(1 .. n)
      /\ Cardinality(1 .. n) = IF 1 > n THEN 0 ELSE n - 1 + 1
  BY FS_Interval
<1> QED BY <1>1

(* A sequence can be put in order.                                         *)
LEMMA OrderExists ==
  ASSUME NEW s \in Seq(Int), NEW n, n = Len(s)
  PROVE  \E p \in [1 .. n -> 1 .. n] :
           /\ \A x, y \in 1 .. n : p[x] = p[y] => x = y
           /\ \A y \in 1 .. n : \E x \in 1 .. n : p[x] = y
           /\ \A i, j \in 1 .. n : i < j => s[p[i]] <= s[p[j]]
<1>1. n \in Nat /\ s \in [1 .. n -> Int]
  BY LenProperties
<1> DEFINE I == 1 .. n
           Before(i) == {j \in I : s[j] < s[i] \/ (s[j] = s[i] /\ j <= i)}
           rank == [i \in I |-> Cardinality(Before(i))]
           p == [k \in I |-> CHOOSE i \in I : rank[i] = k]
<1>2. IsFiniteSet(I) /\ Cardinality(I) = n
  BY <1>1, FirstN
<1>3. ASSUME NEW i \in I
      PROVE  IsFiniteSet(Before(i)) /\ Cardinality(Before(i)) \in I
  <2>1. Before(i) \in SUBSET I /\ i \in Before(i)
    BY <1>1
  <2>2. IsFiniteSet(Before(i)) /\ Cardinality(Before(i)) <= n
        /\ Cardinality(Before(i)) \in Nat
    <3> DEFINE Z == Before(i)
    <3>1. Z \in SUBSET I
      BY <2>1
    <3> HIDE DEF I, Z
    <3>2. IsFiniteSet(Z) /\ Cardinality(Z) <= n
      BY <1>2, <3>1, FS_Subset
    <3>3. Cardinality(Z) \in Nat
      BY <3>2, FS_CardinalityType
    <3> QED BY <3>2, <3>3 DEF Z
  <2>3. Cardinality(Before(i)) # 0
    <3> HIDE DEF Before
    <3> QED BY <2>1, <2>2, FS_EmptySet
  <2> QED BY <1>1, <2>2, <2>3
<1>4. ASSUME NEW i \in I, NEW j \in I, i # j,
             s[i] < s[j] \/ (s[i] = s[j] /\ i <= j)
      PROVE  rank[i] < rank[j]
  <2>1. /\ s[i] \in Int /\ s[j] \in Int /\ i \in Int /\ j \in Int
        /\ \A k \in I : s[k] \in Int /\ k \in Int
    BY <1>1
  <2>2. Before(i) \in SUBSET Before(j)
    BY <1>4, <2>1
  <2>3. j \in Before(j) /\ j \notin Before(i)
    BY <1>4, <2>1
  <2>4. /\ IsFiniteSet(Before(i)) /\ IsFiniteSet(Before(j))
        /\ Cardinality(Before(i)) \in Nat /\ Cardinality(Before(j)) \in Nat
    <3>1. \A c \in I : c \in Nat
      OBVIOUS
    <3> HIDE DEF Before, I
    <3> QED BY <1>3, <3>1
  <2>5. rank[i] = Cardinality(Before(i)) /\ rank[j] = Cardinality(Before(j))
    OBVIOUS
  <2> HIDE DEF Before, rank
  <2>6. /\ Cardinality(Before(i)) <= Cardinality(Before(j))
        /\ Cardinality(Before(i)) # Cardinality(Before(j))
    <3> DEFINE X == Before(i)
               Y == Before(j)
    <3>1. X \in SUBSET Y /\ X # Y /\ IsFiniteSet(Y)
      BY <2>2, <2>3, <2>4
    <3> HIDE DEF X, Y
    <3>2. Cardinality(X) <= Cardinality(Y) /\ Cardinality(X) # Cardinality(Y)
      BY <3>1, FS_Subset
    <3> QED BY <3>2 DEF X, Y
  <2> QED BY <2>4, <2>5, <2>6
<1>5. rank \in [I -> I]
  BY <1>3
<1>6. ASSUME NEW i \in I, NEW j \in I, rank[i] = rank[j] PROVE i = j
  <2>1. s[i] \in Int /\ s[j] \in Int /\ i \in Int /\ j \in Int
    BY <1>1
  <2>2. ~(rank[i] < rank[j]) /\ ~(rank[j] < rank[i])
    <3>1. rank[i] \in I /\ \A c \in I : c \in Int
      <4> HIDE DEF rank
      <4> QED BY <1>5
    <3> HIDE DEF rank, I
    <3> QED BY <1>6, <3>1
  <2> HIDE DEF rank, I
  <2> QED BY <1>4, <2>1, <2>2
<1> HIDE DEF rank, Before
<1>7. \A k \in I : \E i \in I : rank[i] = k
  <2>1. rank \in Injection(I, I)
    BY <1>5, <1>6 DEF Injection, IsInjective
  <2>2. rank \in Surjection(I, I)
    <3> HIDE DEF I
    <3> QED BY <1>2, <2>1, FS_Injection
  <2> QED BY <2>2 DEF Surjection
<1>8. \A k \in I : p[k] \in I /\ rank[p[k]] = k
  <2> HIDE DEF I
  <2> QED BY <1>7
<1>9. p \in [I -> I]
  BY <1>8
<1> HIDE DEF p
<1>10. \A x, y \in I : p[x] = p[y] => x = y
  BY <1>8
<1>11. \A i \in I : \E k \in I : p[k] = i
  <2> TAKE i \in I
  <2>1. rank[i] \in I
    BY <1>5
  <2>2. p[rank[i]] \in I /\ rank[p[rank[i]]] = rank[i]
    BY <1>8, <2>1
  <2>3. p[rank[i]] = i
    BY <1>6, <2>2
  <2> QED BY <2>1, <2>3
<1>12. ASSUME NEW i \in I, NEW j \in I, i < j PROVE s[p[i]] <= s[p[j]]
  <2>1. p[i] \in I /\ p[j] \in I /\ rank[p[i]] = i /\ rank[p[j]] = j
    BY <1>8
  <2>2. s[p[i]] \in Int /\ s[p[j]] \in Int /\ i \in Int /\ j \in Int
    BY <1>1, <2>1
  <2>3. ~(s[p[j]] < s[p[i]])
    <3>1. ASSUME s[p[j]] < s[p[i]] PROVE FALSE
      <4>1. p[j] # p[i]
        BY <2>2, <3>1
      <4> DEFINE a == p[j]
                 c == p[i]
      <4>2. a \in I /\ c \in I /\ a # c /\ s[a] < s[c]
        BY <2>1, <3>1, <4>1
      <4> HIDE DEF a, c, I
      <4>3. rank[a] < rank[c]
        BY <1>4, <4>2
      <4> QED BY <1>12, <2>1, <2>2, <4>3 DEF a, c
    <3> QED BY <3>1
  <2> QED BY <2>2, <2>3
<1> QED BY <1>9, <1>10, <1>11, <1>12

(* What qsort makes of a sequence: its values in order.                    *)
LEMMA SortedFacts ==
  ASSUME NEW s \in Seq(Int)
  PROVE  /\ B!Sorted(s) \in Seq(Int) /\ Ordered(B!Sorted(s))
         /\ Len(B!Sorted(s)) = Len(s)
         /\ \A V : Tally(B!Sorted(s), V) = Tally(s, V)
<1> DEFINE n == Len(s)
           Fits(p) == /\ \A x, y \in 1 .. n : p[x] = p[y] => x = y
                      /\ \A y \in 1 .. n : \E x \in 1 .. n : p[x] = y
           InOrder(p) == \A i, j \in 1 .. n : i < j => s[p[i]] <= s[p[j]]
           index == CHOOSE p \in B!Bijection(1 .. n, 1 .. n) : InOrder(p)
           t == [i \in 1 .. n |-> s[index[i]]]
<1>1. n \in Nat /\ s \in [1 .. n -> Int]
  BY LenProperties
<1>2. B!Sorted(s) = t
  BY DEF B!Sorted
<1>3. \A p : p \in B!Bijection(1 .. n, 1 .. n)
               <=> p \in [1 .. n -> 1 .. n] /\ Fits(p)
  <2> HIDE DEF n
  <2> QED BY DEF B!Bijection, B!Injection, B!Surjection, B!IsInjective
<1>4. \E p \in B!Bijection(1 .. n, 1 .. n) : InOrder(p)
  <2>1. \E p \in [1 .. n -> 1 .. n] : Fits(p) /\ InOrder(p)
    BY <1>1, OrderExists
  <2> HIDE DEF Fits, InOrder, n
  <2> QED BY <1>3, <2>1
<1>5. index \in [1 .. n -> 1 .. n] /\ Fits(index) /\ InOrder(index)
  <2> HIDE DEF Fits, InOrder, n
  <2> QED BY <1>3, <1>4
<1> HIDE DEF index
<1>6. t \in Seq(Int) /\ Len(t) = n
  <2>1. \A i \in 1 .. n : s[index[i]] \in Int
    BY <1>1, <1>5
  <2>2. t \in [1 .. n -> Int]
    BY <2>1
  <2> HIDE DEF t, n
  <2> QED BY <1>1, <2>2
<1>7. Ordered(t)
  BY <1>5, <1>6 DEF Ordered
<1>8. ASSUME NEW V PROVE Tally(t, V) = Tally(s, V)
  <2> DEFINE f == [i \in At(t, V) |-> index[i]]
  <2>1. /\ \A i \in At(t, V) : index[i] \in At(s, V)
        /\ \A j \in At(s, V) : \E i \in At(t, V) : index[i] = j
        /\ \A x, y \in At(t, V) : index[x] = index[y] => x = y
    BY <1>5, <1>6 DEF At
  <2>2. IsFiniteSet(At(t, V))
    BY <1>1, <1>6, AtFinite
  <2>3. /\ f \in [At(t, V) -> At(s, V)]
        /\ \A x, y \in At(t, V) : f[x] = f[y] => x = y
        /\ \A y \in At(s, V) : \E x \in At(t, V) : f[x] = y
    BY <2>1
  <2> HIDE DEF f, t
  <2> QED BY <2>2, <2>3, SameSize DEF Tally
<1> HIDE DEF t
<1> QED BY <1>2, <1>6, <1>7, <1>8

(* What holds of 0 and of each number after one that it holds of.          *)
LEMMA Upwards ==
  ASSUME NEW n \in Nat, NEW Q, 0 \in Q,
         \A i \in 1 .. n : i - 1 \in Q => i \in Q
  PROVE  \A i \in 0 .. n : i \in Q
<1> DEFINE Bad == {i \in 0 .. n : i \notin Q}
<1>1. ASSUME Bad # {} PROVE FALSE
  <2>1. Bad \in SUBSET Nat
    OBVIOUS
  <2>2. PICK i \in Bad : \A y \in Bad : i <= y
    <3> HIDE DEF Bad
    <3> QED BY <1>1, <2>1, Smallest
  <2>3. i \in 1 .. n /\ i \notin Q /\ i - 1 \in 0 .. n /\ ~(i <= i - 1)
    BY <2>2
  <2>4. i - 1 \in Q
    BY <2>2, <2>3
  <2> QED BY <2>3, <2>4
<1> QED BY <1>1

(* Sequences are put together one by one.                                  *)
Joined(g, c, n) ==
  /\ g \in [0 .. n -> Seq(Int)] /\ g[0] = << >>
  /\ \A i \in 1 .. n : g[i] = g[i - 1] \o c[i]

(* FlattenSeq does so.                                                     *)
LEMMA FlatSteps ==
  ASSUME NEW n \in Nat, n >= 1, NEW c \in [1 .. n -> Seq(Int)]
  PROVE  \E g : Joined(g, c, n) /\ B!FlattenSeq(c) = g[n]
<1> DEFINE f == [i \in Nat |-> [x \in Seq(Int) |->
                   IF i \in 1 .. n THEN x \o c[i] ELSE x]]
           flatten[i \in 1 .. n] ==
             IF i = 1 THEN c[i] ELSE flatten[i - 1] \o c[i]
           IsFlat(g) == g = [i \in 1 .. n |->
                              IF i = 1 THEN c[i] ELSE g[i - 1] \o c[i]]
<1>1. << >> \in Seq(Int) /\ \A i \in 1 .. n : << >> \o c[i] = c[i]
  BY EmptySeq, ConcatEmptySeq
<1>2. Stepping(f, Seq(Int))
  <2>1. \A i \in 1 .. n : \A x \in Seq(Int) : x \o c[i] \in Seq(Int)
    BY ConcatProperties
  <2> QED BY <2>1 DEF Stepping
<1>3. \A i \in 1 .. n : \A x \in Seq(Int) : f[i][x] = x \o c[i]
  OBVIOUS
<1> HIDE DEF f
<1>4. PICK g \in [0 .. n -> Seq(Int)] :
        g[0] = << >> /\ \A i \in 1 .. n : g[i] = f[i][g[i - 1]]
  <2>1. \E g : Repeated(g, f, << >>, n, Seq(Int))
    BY <1>1, <1>2, RecExists
  <2> QED BY <2>1 DEF Repeated
<1>5. \A i \in 1 .. n : g[i] = g[i - 1] \o c[i]
  <2> TAKE i \in 1 .. n
  <2>1. g[i - 1] \in Seq(Int)
    OBVIOUS
  <2> QED BY <1>3, <1>4, <2>1
<1> DEFINE k == [i \in 1 .. n |-> g[i]]
<1>6. IsFlat(k)
  <2>1. \A i \in 1 .. n : g[i] = IF i = 1 THEN c[i] ELSE k[i - 1] \o c[i]
    <3> TAKE i \in 1 .. n
    <3>1. CASE i = 1
      <4>0. i - 1 = 0
        BY <3>1
      <4>1. g[i] = g[i - 1] \o c[i] /\ i - 1 = 0
        BY Zenon, <1>5, <4>0
      <4>2. g[i - 1] = << >>
        BY <1>4, <4>1
      <4>3. g[i] = c[i]
        BY <1>1, <4>1, <4>2
      <4> QED BY <3>1, <4>3
    <3>2. CASE i # 1
      <4>1. i - 1 \in 1 .. n
        BY <3>2
      <4> QED BY <1>5, <3>2, <4>1
    <3> QED BY <3>1, <3>2
  <2> QED BY <2>1
<1>7. IsFlat(flatten)
  <2>1. \E u : IsFlat(u)
    BY <1>6
  <2> HIDE DEF k
  <2> QED BY <2>1
<1>8. B!FlattenSeq(c) = flatten[n]
  <2>1. Len(c) = n /\ n # 0
    OBVIOUS
  <2> QED BY <2>1 DEF B!FlattenSeq
<1> HIDE DEF flatten, k
<1>9. \A i \in 1 .. n :
        flatten[i] = IF i = 1 THEN c[i] ELSE flatten[i - 1] \o c[i]
  BY Zenon, <1>7
<1> DEFINE Q == {i \in 0 .. n : i # 0 => flatten[i] = g[i]}
<1>10. \A i \in 0 .. n : i \in Q
  <2>1. 0 \in Q
    OBVIOUS
  <2>2. ASSUME NEW i \in 1 .. n, i - 1 \in Q PROVE i \in Q
    <3>1. CASE i = 1
      <4>0. i - 1 = 0
        BY <3>1
      <4>1. g[i] = g[i - 1] \o c[i] /\ i - 1 = 0
        BY Zenon, <1>5, <4>0
      <4>2. g[i - 1] = << >>
        BY <1>4, <4>1
      <4>3. g[i] = c[i] /\ flatten[i] = c[i]
        BY <1>1, <1>9, <3>1, <4>1, <4>2
      <4> QED BY <4>3
    <3>2. CASE i # 1
      <4>1. flatten[i - 1] = g[i - 1] /\ i - 1 # 0
        BY <2>2, <3>2
      <4>2. flatten[i] = flatten[i - 1] \o c[i]
        BY <1>9, <3>2
      <4>3. flatten[i] = g[i]
        BY <1>5, <4>1, <4>2
      <4> QED BY <4>3
    <3> QED BY <3>1, <3>2
  <2> HIDE DEF Q
  <2> QED BY <2>1, <2>2, Upwards
<1>11. flatten[n] = g[n]
  BY <1>10
<1> QED BY <1>4, <1>5, <1>8, <1>11 DEF Joined

(* What a sequence of sequences holds.                                     *)
LEMMA FlatType ==
  ASSUME NEW n \in Nat, n >= 1, NEW c \in [1 .. n -> Seq(Int)]
  PROVE  B!FlattenSeq(c) \in Seq(Int)
<1>1. PICK g : Joined(g, c, n) /\ B!FlattenSeq(c) = g[n]
  BY FlatSteps
<1> QED BY <1>1 DEF Joined

(* The bucket of a value.                                                  *)
LEMMA DestFacts ==
  ASSUME NEW x \in Int, NEW k \in Nat, k >= 1, NEW sp \in [1 .. k -> Int]
  PROVE  /\ B!Dest(x, sp) \in 1 .. k
         /\ B!Dest(x, sp) # k => x <= sp[B!Dest(x, sp)]
         /\ \A i \in 1 .. k : i < B!Dest(x, sp) => sp[i] < x
<1> DEFINE fits == {i \in 1 .. k : x <= sp[i] \/ i = k}
           d == CHOOSE i \in fits : \A j \in fits : i <= j
<1>1. Len(sp) = k
  OBVIOUS
<1>2. B!Dest(x, sp) = d
  BY <1>1 DEF B!Dest
<1>3. fits \in SUBSET Nat /\ k \in fits
  OBVIOUS
<1>4. \E i \in fits : \A j \in fits : i <= j
  <2> HIDE DEF fits
  <2> QED BY <1>3, Smallest
<1>5. d \in fits /\ \A j \in fits : d <= j
  <2> HIDE DEF fits
  <2> QED BY <1>4
<1> HIDE DEF d
<1>6. d \in 1 .. k /\ (d # k => x <= sp[d])
  BY <1>5
<1>7. ASSUME NEW i \in 1 .. k, i < d PROVE sp[i] < x
  <2>1. i \notin fits
    <3> HIDE DEF fits
    <3> QED BY <1>5, <1>6, <1>7
  <2> QED BY <2>1
<1> QED BY <1>2, <1>6, <1>7

(* The values for bucket k are taken one by one from m values of the data, *)
(* beginning at u.                                                         *)
Taken(g, sp, k, u, m) ==
  /\ g \in [0 .. m -> Seq(Int)] /\ g[0] = << >>
  /\ \A i \in 1 .. m :
       g[i] = IF B!Dest(data[u + i - 1], sp) = k
                THEN Append(g[i - 1], data[u + i - 1]) ELSE g[i - 1]

(* A bucket does so with its slice.                                        *)
LEMMA PartSteps ==
  ASSUME NEW b, NEW k, NEW u \in Nat, u >= 1, NEW m \in Nat,
         bucket[b].first = u, bucket[b].size = m,
         data \in Seq(Int), u + m - 1 <= Len(data)
  PROVE  \E g : Taken(g, bucket[b].splitters, k, u, m) /\ B!Part(b, k) = g[m]
<1> DEFINE dest(i) == B!Dest(data[i], bucket[b].splitters)
           last == u + m - 1
           f == [i \in Nat |-> [x \in Seq(Int) |->
                   IF i \in 1 .. m /\ dest(u + i - 1) = k
                     THEN Append(x, data[u + i - 1]) ELSE x]]
           part[i \in u - 1 .. last] ==
             IF i < u THEN << >>
             ELSE IF dest(i) = k THEN Append(part[i - 1], data[i])
             ELSE part[i - 1]
           IsPart(g) == g = [i \in u - 1 .. last |->
             IF i < u THEN << >>
             ELSE IF dest(i) = k THEN Append(g[i - 1], data[i])
             ELSE g[i - 1]]
<1>1. \A i \in 1 .. m : data[u + i - 1] \in Int
  <2>1. Len(data) \in Nat /\ data \in [1 .. Len(data) -> Int]
    BY LenProperties
  <2> QED BY <2>1
<1>2. Stepping(f, Seq(Int))
  <2>1. \A i \in 1 .. m : \A x \in Seq(Int) :
          Append(x, data[u + i - 1]) \in Seq(Int)
    BY <1>1, AppendProperties
  <2> HIDE DEF dest
  <2> QED BY <2>1 DEF Stepping
<1>3. \A i \in 1 .. m : \A x \in Seq(Int) :
        f[i][x] = IF dest(u + i - 1) = k THEN Append(x, data[u + i - 1])
                                         ELSE x
  <2> HIDE DEF dest
  <2> QED OBVIOUS
<1> HIDE DEF f
<1>4. PICK g \in [0 .. m -> Seq(Int)] :
        g[0] = << >> /\ \A i \in 1 .. m : g[i] = f[i][g[i - 1]]
  <2>1. << >> \in Seq(Int)
    BY EmptySeq
  <2>2. \E g : Repeated(g, f, << >>, m, Seq(Int))
    BY <1>2, <2>1, RecExists
  <2> QED BY <2>2 DEF Repeated
<1>5. \A i \in 1 .. m :
        g[i] = IF dest(u + i - 1) = k THEN Append(g[i - 1], data[u + i - 1])
                                      ELSE g[i - 1]
  <2> TAKE i \in 1 .. m
  <2>1. g[i - 1] \in Seq(Int)
    OBVIOUS
  <2> HIDE DEF dest
  <2> QED BY <1>3, <1>4, <2>1
<1> DEFINE h == [i \in u - 1 .. last |-> g[i - (u - 1)]]
<1>6. IsPart(h)
  <2>1. \A i \in u - 1 .. last :
          h[i] = IF i < u THEN << >>
                 ELSE IF dest(i) = k THEN Append(h[i - 1], data[i])
                 ELSE h[i - 1]
    <3> TAKE i \in u - 1 .. last
    <3>1. CASE i < u
      <4>1. i - (u - 1) = 0
        BY <3>1
      <4> QED BY <1>4, <3>1, <4>1
    <3>2. CASE ~(i < u)
      <4> DEFINE j == i - (u - 1)
      <4>1. /\ j \in 1 .. m /\ u + j - 1 = i /\ i - 1 \in u - 1 .. last
            /\ (i - 1) - (u - 1) = j - 1
        BY <3>2
      <4>2. h[i] = g[j] /\ h[i - 1] = g[j - 1]
        BY <4>1
      <4> HIDE DEF h, j, dest
      <4> QED BY <1>5, <3>2, <4>1, <4>2
    <3> QED BY <3>1, <3>2
  <2>2. h = [i \in u - 1 .. last |-> h[i]]
    OBVIOUS
  <2> HIDE DEF h, dest
  <2> QED BY <2>1, <2>2
<1>7. IsPart(part)
  <2>1. \E x : IsPart(x)
    BY <1>6
  <2> HIDE DEF h
  <2> QED BY <2>1
<1>8. B!Part(b, k) = part[last]
  BY DEF B!Part
<1> HIDE DEF part, h, dest
<1>9. \A i \in u - 1 .. last :
        part[i] = IF i < u THEN << >>
                  ELSE IF dest(i) = k THEN Append(part[i - 1], data[i])
                  ELSE part[i - 1]
  BY Zenon, <1>7
<1> DEFINE Q == {i \in 0 .. m : part[u - 1 + i] = g[i]}
<1>10. \A i \in 0 .. m : i \in Q
  <2>1. 0 \in Q
    <3>1. u - 1 \in u - 1 .. last /\ u - 1 < u
      OBVIOUS
    <3>3. part[u - 1] = << >>
      BY <1>9, <3>1
    <3>2. 0 \in 0 .. m /\ u - 1 + 0 = u - 1
      OBVIOUS
    <3> QED BY <1>4, <3>2, <3>3
  <2>2. ASSUME NEW i \in 1 .. m, i - 1 \in Q PROVE i \in Q
    <3> DEFINE j == u - 1 + i
    <3>1. /\ j \in u - 1 .. last /\ ~(j < u) /\ j - 1 = u - 1 + (i - 1)
          /\ u + i - 1 = j /\ i \in 0 .. m
      OBVIOUS
    <3>2. part[j - 1] = g[i - 1]
      BY <2>2, <3>1
    <3> HIDE DEF j
    <3>3. part[j] = IF dest(j) = k THEN Append(part[j - 1], data[j])
                                   ELSE part[j - 1]
      BY <1>9, <3>1
    <3>4. part[j] = g[i]
      BY <1>5, <3>1, <3>2, <3>3
    <3> QED BY <3>1, <3>4 DEF j
  <2> HIDE DEF Q
  <2> QED BY <2>1, <2>2, Upwards
<1>11. part[last] = g[m]
  <2>1. m \in Q /\ u - 1 + m = last
    BY <1>10
  <2> QED BY <2>1
<1> QED BY <1>4, <1>5, <1>8, <1>11 DEF dest, Taken

(* An empty sequence has none.                                             *)
LEMMA TallyNothing ==
  ASSUME NEW V
  PROVE  Tally(<< >>, V) = 0 /\ IsFiniteSet({}) /\ Cardinality({}) = 0
<1>1. Len(<< >>) = 0
  OBVIOUS
<1>2. At(<< >>, V) = {}
  BY <1>1 DEF At
<1> QED BY <1>2, FS_EmptySet DEF Tally

(* How many values of V a bucket finds for bucket k in its slice.          *)
LEMMA PartTally ==
  ASSUME NEW b, NEW k, NEW u \in Nat, u >= 1, NEW m \in Nat,
         bucket[b].first = u, bucket[b].size = m,
         data \in Seq(Int), u + m - 1 <= Len(data)
  PROVE  /\ B!Part(b, k) \in Seq(Int)
         /\ \A V : Tally(B!Part(b, k), V) =
              Cardinality({j \in u .. u + m - 1 :
                             /\ data[j] \in V
                             /\ B!Dest(data[j], bucket[b].splitters) = k})
<1>0. PICK g : Taken(g, bucket[b].splitters, k, u, m) /\ B!Part(b, k) = g[m]
  BY PartSteps
<1>1. /\ g \in [0 .. m -> Seq(Int)] /\ g[0] = << >>
      /\ \A i \in 1 .. m :
           g[i] = IF B!Dest(data[u + i - 1], bucket[b].splitters) = k
                    THEN Append(g[i - 1], data[u + i - 1]) ELSE g[i - 1]
      /\ B!Part(b, k) = g[m]
  BY <1>0 DEF Taken
<1>2. B!Part(b, k) \in Seq(Int)
  BY <1>1
<1>3. ASSUME NEW V
      PROVE  Tally(g[m], V) =
               Cardinality({j \in u .. u + m - 1 :
                              /\ data[j] \in V
                              /\ B!Dest(data[j], bucket[b].splitters) = k})
  <2> DEFINE dest(j) == B!Dest(data[j], bucket[b].splitters)
             Z(i) == {j \in u .. u + i - 1 : data[j] \in V /\ dest(j) = k}
             Q == {i \in 0 .. m : Tally(g[i], V) = Cardinality(Z(i))}
  <2>1. 0 \in Q
    <3>1. Z(0) = {} /\ 0 \in 0 .. m
      OBVIOUS
    <3>2. Tally(g[0], V) = 0 /\ Cardinality(Z(0)) = 0
      <4> HIDE DEF Z
      <4> QED BY Zenon, <1>1, <3>1, TallyNothing
    <3> HIDE DEF Z
    <3> QED BY <3>1, <3>2
  <2>2. ASSUME NEW i \in 1 .. m, i - 1 \in Q PROVE i \in Q
    <3> DEFINE x == data[u + i - 1]
    <3>1. /\ g[i - 1] \in Seq(Int) /\ x \in Int
          /\ Tally(g[i - 1], V) = Cardinality(Z(i - 1))
      <4>1. Len(data) \in Nat /\ data \in [1 .. Len(data) -> Int]
        BY LenProperties
      <4>2. x \in Int
        BY <4>1
      <4>3. g[i - 1] \in Seq(Int)
        BY <1>1
      <4> QED BY <2>2, <4>2, <4>3
    <3>2. IsFiniteSet(Z(i - 1)) /\ Cardinality(Z(i - 1)) \in Nat
      <4>1. IsFiniteSet(u .. u + (i - 1) - 1)
        BY FS_Interval
      <4>2. Z(i - 1) \in SUBSET (u .. u + (i - 1) - 1)
        <5> HIDE DEF dest
        <5> QED BY Zenon
      <4> HIDE DEF Z
      <4> QED BY <4>1, <4>2, FS_Subset, FS_CardinalityType
    <3>3. /\ u + i - 1 \notin Z(i - 1)
          /\ Z(i) = Z(i - 1) \cup IF x \in V /\ dest(u + i - 1) = k
                                    THEN {u + i - 1} ELSE {}
      <4>1. \A j : j \in u .. u + i - 1 <=>
                     j \in u .. u + (i - 1) - 1 \/ j = u + i - 1
        <5> HIDE DEF dest, Z, Q, x
        <5>1. i \in Nat /\ i >= 1
          OBVIOUS
        <5> QED BY ONLY u \in Nat, <5>1
      <4>2. u + i - 1 \notin u .. u + (i - 1) - 1
        OBVIOUS
      <4> HIDE DEF dest
      <4> QED BY <4>1, <4>2
    <3>4. g[i] = IF dest(u + i - 1) = k THEN Append(g[i - 1], x) ELSE g[i - 1]
      BY <1>1
    <3>5. Tally(Append(g[i - 1], x), V)
            = Tally(g[i - 1], V) + IF x \in V THEN 1 ELSE 0
      <4> HIDE DEF x, Q, Z
      <4> QED BY <3>1, TallyAppend
    <3>6. Cardinality(Z(i - 1) \cup {u + i - 1}) = Cardinality(Z(i - 1)) + 1
      <4> HIDE DEF Z, Q
      <4> QED BY <3>2, <3>3, FS_AddElement
    <3>7. Tally(g[i], V) = Cardinality(Z(i))
      <4> HIDE DEF Z, Q, x, dest
      <4>1. CASE dest(u + i - 1) = k /\ x \in V
        BY <3>1, <3>2, <3>3, <3>4, <3>5, <3>6, <4>1
      <4>2. CASE dest(u + i - 1) = k /\ x \notin V
        BY <3>1, <3>2, <3>3, <3>4, <3>5, <4>2
      <4>3. CASE dest(u + i - 1) # k
        BY <3>1, <3>2, <3>3, <3>4, <4>3
      <4> QED BY <4>1, <4>2, <4>3
    <3> QED BY <3>7
  <2>3. \A i \in 0 .. m : i \in Q
    <3> HIDE DEF Q
    <3> QED BY <2>1, <2>2, Upwards
  <2>4. m \in Q
    <3>1. m \in 0 .. m
      OBVIOUS
    <3> HIDE DEF Q
    <3> QED BY <2>3, <3>1
  <2> QED BY <2>4
<1> QED BY <1>1, <1>2, <1>3

(* The values of V in each of n sequences are counted by sets that have no *)
(* element in common.                                                      *)
Counted(c, n, V, Z) ==
  /\ c \in [1 .. n -> Seq(Int)]
  /\ \A i \in 1 .. n : /\ IsFiniteSet(Z[i])
                       /\ Tally(c[i], V) = Cardinality(Z[i])
  /\ \A i, j \in 1 .. n : i < j => Z[i] \cap Z[j] = {}

(* The elements of n sets.                                                 *)
All(n, Z) == UNION {Z[i] : i \in 1 .. n}

(* The sequences put together are counted by all the sets.                 *)
LEMMA FlatTally ==
  ASSUME NEW n \in Nat, n >= 1, NEW c, NEW V, NEW Z, Counted(c, n, V, Z)
  PROVE  Tally(B!FlattenSeq(c), V) = Cardinality(All(n, Z))
<1> USE DEF Counted, All
<1>0. PICK g : Joined(g, c, n) /\ B!FlattenSeq(c) = g[n]
  BY FlatSteps
<1>1. /\ g \in [0 .. n -> Seq(Int)] /\ g[0] = << >>
      /\ \A i \in 1 .. n : g[i] = g[i - 1] \o c[i]
      /\ B!FlattenSeq(c) = g[n]
  BY <1>0 DEF Joined
<1> DEFINE U(i) == UNION {Z[j] : j \in 1 .. i}
           Q == {i \in 0 .. n : /\ IsFiniteSet(U(i))
                                /\ Tally(g[i], V) = Cardinality(U(i))}
<1>2. 0 \in Q
  <2>1. U(0) = {} /\ 0 \in 0 .. n
    OBVIOUS
  <2>2. /\ Tally(g[0], V) = 0 /\ Cardinality(U(0)) = 0
        /\ IsFiniteSet(U(0))
    <3> HIDE DEF U
    <3> QED BY Zenon, <1>1, <2>1, TallyNothing
  <2> HIDE DEF U
  <2> QED BY <2>1, <2>2
<1>3. ASSUME NEW i \in 1 .. n, i - 1 \in Q PROVE i \in Q
  <2>1. /\ IsFiniteSet(U(i - 1)) /\ Tally(g[i - 1], V) = Cardinality(U(i - 1))
        /\ g[i - 1] \in Seq(Int) /\ g[i] = g[i - 1] \o c[i]
        /\ c[i] \in Seq(Int)
    BY <1>1, <1>3
  <2>2. U(i) = U(i - 1) \cup Z[i]
    <3>1. \A j : j \in 1 .. i <=> j \in 1 .. i - 1 \/ j = i
      OBVIOUS
    <3> QED BY <3>1
  <2>3. U(i - 1) \cap Z[i] = {}
    <3>1. \A j \in 1 .. i - 1 : Z[j] \cap Z[i] = {}
      OBVIOUS
    <3> QED BY <3>1
  <2> HIDE DEF U, Q
  <2>4. /\ IsFiniteSet(U(i))
        /\ Cardinality(U(i)) = Cardinality(U(i - 1)) + Cardinality(Z[i])
    <3> DEFINE X == U(i - 1)
               Y == Z[i]
    <3>1. IsFiniteSet(X) /\ IsFiniteSet(Y) /\ X \cap Y = {}
      BY <2>1, <2>3
    <3> HIDE DEF X, Y
    <3>2. /\ IsFiniteSet(X \cup Y)
          /\ Cardinality(X \cup Y) = Cardinality(X) + Cardinality(Y)
      BY <3>1, Disjoint
    <3> QED BY <2>2, <3>2 DEF X, Y
  <2>5. Tally(g[i], V) = Tally(g[i - 1], V) + Tally(c[i], V)
    BY <2>1, TallyConcat
  <2>6. IsFiniteSet(U(i)) /\ Tally(g[i], V) = Cardinality(U(i)) /\ i \in 0 .. n
    BY <2>1, <2>4, <2>5
  <2> QED BY <2>6 DEF Q
<1>4. \A i \in 0 .. n : i \in Q
  <2> HIDE DEF Q
  <2> QED BY <1>2, <1>3, Upwards
<1>5. n \in Q
  <2>1. n \in 0 .. n
    OBVIOUS
  <2> HIDE DEF Q
  <2> QED BY <1>4, <2>1
<1> QED BY <1>1, <1>5

(* Multiplication distributes.                                             *)
LEMMA Distributes ==
  ASSUME NEW x \in Nat, NEW y \in Nat, NEW n \in Nat
  PROVE  (x + y) * n = x * n + y * n /\ x * n \in Nat /\ 1 * n = n
BY Z3

(* The slices of k buckets of n values each, and the rest.                 *)
LEMMA Slices ==
  ASSUME NEW k \in Nat, k >= 1, NEW l \in Nat, NEW n, n = l \div k
  PROVE  /\ n \in Nat
         /\ \A c \in 1 .. k : (c - 1) * n \in Nat /\ (c - 1) * n + n <= l
         /\ \A c, d \in 1 .. k : c < d => c * n <= (d - 1) * n
<1>1. n \in Nat /\ k * n <= l
  BY Z3
<1>2. ASSUME NEW c \in Nat, NEW d \in Nat, c <= d
      PROVE  c * n \in Nat /\ c * n <= d * n
  <2>1. PICK x \in Nat : d = c + x
    <3>1. d - c \in Nat /\ d = c + (d - c)
      BY <1>2
    <3> QED BY <3>1
  <2>2. c * n \in Nat /\ x * n \in Nat
    BY <1>1, Z3
  <2>3. d * n = c * n + x * n
    BY <1>1, <2>1, Z3
  <2> QED BY <2>2, <2>3
<1>3. ASSUME NEW c \in 1 .. k
      PROVE  (c - 1) * n \in Nat /\ (c - 1) * n + n <= l
  <2>1. c - 1 \in Nat /\ c \in Nat /\ c <= k
    OBVIOUS
  <2>2. (c - 1) * n + n = c * n
    <3> DEFINE e == c - 1
    <3>1. e \in Nat /\ c = e + 1
      BY <2>1
    <3> HIDE DEF e
    <3>2. \A y \in Nat : (e + y) * n = e * n + y * n /\ 1 * n = n
      BY Zenon, <1>1, <3>1, Distributes
    <3>3. 1 \in Nat
      OBVIOUS
    <3>4. (e + 1) * n = e * n + 1 * n /\ 1 * n = n
      BY Zenon, <3>2, <3>3
    <3>5. c * n = e * n + n
      BY Zenon, <3>1, <3>4
    <3> QED BY Zenon, <3>5 DEF e
  <2>3. (c - 1) * n \in Nat /\ c * n <= k * n /\ c * n \in Nat /\ k * n \in Nat
    BY <1>2, <2>1
  <2> QED BY <1>1, <2>2, <2>3
<1>4. ASSUME NEW c \in 1 .. k, NEW d \in 1 .. k, c < d
      PROVE  c * n <= (d - 1) * n
  BY <1>2, <1>4
<1> QED BY <1>1, <1>3, <1>4

(* What the root takes, and where that leads it.                           *)
LEMMA RootTakes ==
  ASSUME SortInv, B!RootReceive
  PROVE  /\ UNCHANGED <<data, main, bucket, final>>
         /\ \A b \in B!Bucket : box'[b] = box[b]
         /\ Len(box[0]) \in Nat /\ Len(box[0]) >= 1
         /\ Len(box'[0]) = Len(box[0]) - 1
         /\ \A i \in 1 .. Len(box[0]) - 1 : box'[0][i] = box[0][i + 1]
         /\ root'.splitters = root.splitters
         /\ root.pc \in {"recvSub", "recvDone"} => root'.size = root.size
         /\ root.pc = "recvSub" \/ arrived' = arrived
         /\ \/ root.pc = "recvK" /\ root'.pc = "recvData"
            \/ /\ root.pc = "recvData" /\ root'.pc = "sample"
               /\ box[0][1].tag = "REF_INTARRAY_MSG"
               /\ root'.size = box[0][1].size
            \/ /\ root.pc = "recvSub" /\ box[0][1].tag = "SUB_ARRAT_MSG"
               /\ arrived' = Append(arrived, box[0][1].bucket)
               /\ \/ /\ root.ki = K /\ root'.pc = "setSub" /\ root'.ki = 1
                  \/ /\ root.ki # K /\ root'.pc = "recvSub"
                     /\ root'.ki = root.ki + 1
            \/ /\ root.pc = "recvDone" /\ box[0][1].tag = "DONE_MSG"
               /\ \/ root.ki = K /\ root'.pc = "signal"
                  \/ /\ root.ki # K /\ root'.pc = "recvDone"
                     /\ root'.ki = root.ki + 1
<1> USE DEF SortInv
<1> DEFINE m == Head(box[0])
<1>1. /\ 0 \in B!Task /\ B!Root = 0 /\ UNCHANGED <<data, main, bucket, final>>
      /\ root.pc \in {"recvK", "recvData", "recvSub", "recvDone"}
      /\ box[0] # << >> /\ box' = [box EXCEPT ![0] = Tail(@)]
      /\ arrived' = IF m.tag = "SUB_ARRAT_MSG" THEN Append(arrived, m.bucket)
                    ELSE arrived
  BY SortFacts DEF B!RootReceive
<1>2. /\ \A u \in B!Task : u # 0 => box'[u] = box[u]
      /\ Len(box[0]) \in Nat /\ Len(box[0]) >= 1
      /\ Len(box'[0]) = Len(box[0]) - 1 /\ m = box[0][1]
      /\ \A i \in 1 .. Len(box[0]) - 1 : box'[0][i] = box[0][i + 1]
  BY <1>1, TakeFacts
<1>3. \A b \in B!Bucket : box'[b] = box[b]
  BY <1>2, SortFacts
<1>4. 1 \in 1 .. Len(box[0])
  BY <1>2
<1>5. CASE root.pc = "recvK"
  <2>1. m.tag = "BAR_MSG" /\ m.value = K
    BY <1>2, <1>4, <1>5 DEF RootMail
  <2>2. root' = [[root EXCEPT !.K = m.value] EXCEPT !.pc = "recvData"]
    BY <1>1, <1>5, <2>1 DEF B!RootReceive
  <2> HIDE DEF m
  <2>3. root'.pc = "recvData" /\ root'.splitters = root.splitters
    BY <2>2 DEF SortTypes
  <2> QED BY <1>1, <1>2, <1>3, <1>5, <2>1, <2>3
<1>6. CASE root.pc = "recvData"
  <2>1. m.tag = "REF_INTARRAY_MSG"
    <3>1. \A i \in 1 .. Len(box[0]) :
            i + 1 = 2 => box[0][i].tag = "REF_INTARRAY_MSG"
      BY <1>6 DEF RootMail
    <3>2. box[0][1].tag = "REF_INTARRAY_MSG"
      BY <1>4, <3>1
    <3> QED BY <1>2, <3>2
  <2>2. root' = [[root EXCEPT !.size = m.size] EXCEPT !.pc = "sample"]
    BY <1>1, <1>6, <2>1 DEF B!RootReceive
  <2> HIDE DEF m
  <2>3. /\ root'.pc = "sample" /\ root'.splitters = root.splitters
        /\ root'.size = m.size
    BY <2>2 DEF SortTypes
  <2> QED BY <1>1, <1>2, <1>3, <1>6, <2>1, <2>3
<1>7. CASE root.pc = "recvSub"
  <2>1. m.tag = "SUB_ARRAT_MSG" /\ root.K = K
    BY <1>2, <1>4, <1>7 DEF RootMail, Early, SortTypes
  <2>2. root' = IF root.ki = K THEN [root EXCEPT !.pc = "setSub", !.ki = 1]
                ELSE [root EXCEPT !.ki = @ + 1]
    BY <1>1, <1>7, <2>1 DEF B!RootReceive
  <2> HIDE DEF m
  <2>3. /\ root'.splitters = root.splitters /\ root'.size = root.size
        /\ root.ki = K => root'.pc = "setSub" /\ root'.ki = 1
        /\ root.ki # K => root'.pc = root.pc /\ root'.ki = root.ki + 1
    BY <2>2 DEF SortTypes
  <2> QED BY <1>1, <1>2, <1>3, <1>7, <2>1, <2>3
<1>8. CASE root.pc = "recvDone"
  <2>1. m.tag = "DONE_MSG" /\ root.K = K
    BY <1>2, <1>4, <1>8 DEF RootMail, Late, SortTypes
  <2>2. root' = IF root.ki = K THEN [root EXCEPT !.pc = "signal"]
                ELSE [root EXCEPT !.ki = @ + 1]
    BY <1>1, <1>8, <2>1 DEF B!RootReceive
  <2> HIDE DEF m
  <2>3. /\ root'.splitters = root.splitters /\ root'.size = root.size
        /\ root.ki = K => root'.pc = "signal"
        /\ root.ki # K => root'.pc = root.pc /\ root'.ki = root.ki + 1
    BY <2>2 DEF SortTypes
  <2> QED BY <1>1, <1>2, <1>3, <1>8, <2>1, <2>3
<1> QED BY <1>1, <1>5, <1>6, <1>7, <1>8

(* What the root sends in rounds 1 and 2.                                  *)
LEMMA RootSends ==
  ASSUME SortInv, B!RootSend
  PROVE  /\ UNCHANGED <<data, main, bucket, arrived, final>>
         /\ root.pc \in {"topology", "dataRef", "splitters", "getSub"}
         /\ root'.pc \in {"topology", "dataRef", "splitters", "getSub",
                          "recvSub"}
         /\ root'.pc = "recvSub" => root'.ki = 1
         /\ root'.size = root.size /\ root'.splitters = root.splitters
         /\ root.ki \in B!Bucket
         /\ \E m : /\ B!Put(root.ki, m)
                   /\ \/ m.tag = "TOPOLOGY_MSG"
                      \/ /\ m.tag = "DATA_REF_MSG"
                         /\ m.first = B!Slice(root.ki).first
                         /\ m.size = B!Slice(root.ki).size
                      \/ /\ m.tag = "SPLITTER_MSG"
                         /\ m.splitters = root.splitters
                      \/ m.tag = "GET_SUB_ARRAY_MSG"
<1>1. /\ root.pc \in {"topology", "dataRef", "splitters", "getSub"}
      /\ UNCHANGED <<data, main, bucket, arrived, final>>
  BY DEF B!RootSend, B!NextLoop
<1>2. PICK m : /\ B!Put(root.ki, m)
               /\ \/ m.tag = "TOPOLOGY_MSG"
                  \/ /\ m.tag = "DATA_REF_MSG"
                     /\ m.first = B!Slice(root.ki).first
                     /\ m.size = B!Slice(root.ki).size
                  \/ /\ m.tag = "SPLITTER_MSG"
                     /\ m.splitters = root.splitters
                  \/ m.tag = "GET_SUB_ARRAY_MSG"
  <2>1. CASE root.pc = "topology"
    BY <2>1 DEF B!RootSend
  <2>2. CASE root.pc = "dataRef"
    BY <2>2 DEF B!RootSend
  <2>3. CASE root.pc = "splitters"
    BY <2>3 DEF B!RootSend
  <2>4. CASE root.pc = "getSub"
    BY <2>4 DEF B!RootSend
  <2> QED BY <1>1, <2>1, <2>2, <2>3, <2>4
<1> DEFINE q == B!NextLoop[root.pc]
<1>3. q \in {"dataRef", "splitters", "getSub", "recvSub"}
  BY <1>1 DEF B!NextLoop
<1>4. root' = IF root.ki < root.K THEN [root EXCEPT !.ki = @ + 1]
              ELSE [root EXCEPT !.pc = q, !.ki = 1]
  BY DEF B!RootSend
<1> HIDE DEF q
<1>5. /\ root'.pc \in {root.pc, q} /\ (root'.pc = "recvSub" => root'.ki = 1)
      /\ root'.size = root.size /\ root'.splitters = root.splitters
  BY <1>1, <1>4 DEF SortInv, SortTypes
<1>6. root.ki \in B!Bucket
  BY SortFacts DEF SortInv, SortTypes
<1>7. root'.pc \in {"topology", "dataRef", "splitters", "getSub", "recvSub"}
  BY <1>1, <1>3, <1>5
<1> QED BY <1>1, <1>2, <1>5, <1>6, <1>7

(* What a bucket takes, and what it knows after that.                      *)
LEMMA BucketTakes ==
  ASSUME SortInv, NEW b \in B!Bucket, B!BucketReceive(b),
         DOMAIN final = B!Bucket
  PROVE  /\ UNCHANGED <<data, main, root, arrived>>
         /\ bucket[b].pc = "receive" /\ bucket[b].got \in 0 .. 4
         /\ \A u \in B!Task : u # b => box'[u] = box[u]
         /\ Len(box[b]) \in Nat /\ Len(box[b]) >= 1
         /\ Len(box'[b]) = Len(box[b]) - 1
         /\ \A i \in 1 .. Len(box[b]) - 1 : box'[b][i] = box[b][i + 1]
         /\ \A c \in B!Bucket : c # b =>
              bucket'[c] = bucket[c] /\ final'[c] = final[c]
         /\ bucket'[b].got = bucket[b].got + 1
         /\ bucket[b].got = 4 => bucket'[b].pc = "sort"
         /\ bucket[b].got = 3 => bucket'[b].pc = "partition"
         /\ bucket[b].got \notin {3, 4} => bucket'[b].pc = "receive"
         /\ box[b][1].tag = Tag(bucket[b].got + 1)
         /\ IF bucket[b].got = 1
              THEN /\ bucket'[b].first = box[b][1].first
                   /\ bucket'[b].size = box[b][1].size
              ELSE /\ bucket'[b].first = bucket[b].first
                   /\ bucket'[b].size = bucket[b].size
         /\ bucket'[b].splitters = IF bucket[b].got = 2
              THEN box[b][1].splitters ELSE bucket[b].splitters
         /\ DOMAIN final' = B!Bucket
         /\ bucket[b].got = 4 =>
              final'[b] = B!FlattenSeq(box[b][1].values)
<1> USE DEF SortInv
<1> DEFINE g == bucket[b].got
           p == CASE g + 1 = 4 -> "partition" [] g + 1 = 5 -> "sort"
                  [] OTHER -> "receive"
           m == Head(box[b])
<1>1. /\ b \in B!Task /\ b # 0 /\ UNCHANGED <<data, main, root, arrived>>
      /\ bucket[b].pc = "receive" /\ g \in 0 .. 4
      /\ box[b] # << >> /\ box' = [box EXCEPT ![b] = Tail(@)]
  BY SentFacts DEF B!BucketReceive, SortTypes
<1>2. /\ \A u \in B!Task : u # b => box'[u] = box[u]
      /\ Len(box[b]) \in Nat /\ Len(box[b]) >= 1 /\ m = box[b][1]
      /\ Len(box'[b]) = Len(box[b]) - 1
      /\ \A i \in 1 .. Len(box[b]) - 1 : box'[b][i] = box[b][i + 1]
  BY <1>1, TakeFacts
<1>3. m.tag = Tag(g + 1)
  <2>1. 1 \in 1 .. Len(box[b])
    BY <1>2
  <2> QED BY <1>2, <2>1 DEF BucketMail
<1>4. /\ p \in {"partition", "sort", "receive"}
      /\ (p = "partition" <=> g = 3) /\ (p = "sort" <=> g = 4)
  BY <1>1
<1> DEFINE at == [bucket[b] EXCEPT !.got = g + 1, !.pc = p]
           new == CASE m.tag = "TOPOLOGY_MSG" ->
                         [at EXCEPT !.bucket_count = m.bucket_count]
                    [] m.tag = "DATA_REF_MSG" ->
                         [at EXCEPT !.first = m.first, !.size = m.size]
                    [] m.tag = "SPLITTER_MSG" ->
                         [at EXCEPT !.splitters = m.splitters]
                    [] OTHER -> at
           last == IF m.tag = "SET_SUB_ARRAY_MSG" THEN B!FlattenSeq(m.values)
                                                  ELSE final[b]
<1>5. bucket' = [bucket EXCEPT ![b] = new]
  BY Zenon DEF B!BucketReceive
<1>6. final' = [final EXCEPT ![b] = last]
  BY Zenon DEF B!BucketReceive
<1>7. /\ DOMAIN at = DOMAIN bucket[b] /\ at.got = g + 1 /\ at.pc = p
      /\ at.first = bucket[b].first /\ at.size = bucket[b].size
      /\ at.splitters = bucket[b].splitters
  <2> HIDE DEF p, g
  <2> QED BY DEF SortTypes
<1>8. DOMAIN at = {"pc", "got", "bucket_count", "first", "size", "splitters"}
  <2> HIDE DEF at
  <2> QED BY <1>7 DEF SortTypes
<1> HIDE DEF at
<1>9. /\ new.got = g + 1 /\ new.pc = p
      /\ IF g = 1 THEN new.first = m.first /\ new.size = m.size
         ELSE new.first = bucket[b].first /\ new.size = bucket[b].size
      /\ new.splitters = IF g = 2 THEN m.splitters ELSE bucket[b].splitters
  <2>1. CASE g = 0
    <3>1. m.tag = "TOPOLOGY_MSG"
      BY <1>3, <2>1 DEF Tag
    <3>2. new = [at EXCEPT !.bucket_count = m.bucket_count]
      BY <3>1
    <3> HIDE DEF new, m, p, g
    <3> QED BY <1>7, <1>8, <2>1, <3>2
  <2>2. CASE g = 1
    <3>1. m.tag = "DATA_REF_MSG"
      BY <1>3, <2>2 DEF Tag
    <3>2. new = [at EXCEPT !.first = m.first, !.size = m.size]
      BY <3>1
    <3> HIDE DEF new, m, p, g
    <3> QED BY <1>7, <1>8, <2>2, <3>2
  <2>3. CASE g = 2
    <3>1. m.tag = "SPLITTER_MSG"
      BY <1>3, <2>3 DEF Tag
    <3>2. new = [at EXCEPT !.splitters = m.splitters]
      BY <3>1
    <3> HIDE DEF new, m, p, g
    <3> QED BY <1>7, <1>8, <2>3, <3>2
  <2>4. CASE g \in {3, 4}
    <3>1. m.tag \in {"GET_SUB_ARRAY_MSG", "SET_SUB_ARRAY_MSG"}
      BY <1>3, <2>4 DEF Tag
    <3>2. new = at
      BY <3>1
    <3> HIDE DEF new, m, p, g
    <3> QED BY <1>7, <2>4, <3>2
  <2> QED BY <1>1, <2>1, <2>2, <2>3, <2>4
<1>10. g = 4 => last = B!FlattenSeq(m.values)
  BY <1>3 DEF Tag
<1> HIDE DEF new, last, p, m
<1>11. /\ bucket'[b] = new
       /\ \A c \in B!Bucket : c # b => bucket'[c] = bucket[c]
  BY <1>5 DEF SortTypes
<1>12. /\ final'[b] = last /\ DOMAIN final' = B!Bucket
       /\ \A c \in B!Bucket : c # b => final'[c] = final[c]
  BY <1>6
<1>13. /\ bucket[b].got = 4 => bucket'[b].pc = "sort"
       /\ bucket[b].got = 3 => bucket'[b].pc = "partition"
       /\ bucket[b].got \notin {3, 4} => bucket'[b].pc = "receive"
  BY <1>4, <1>9, <1>11
<1> QED BY <1>1, <1>2, <1>3, <1>9, <1>10, <1>11, <1>12, <1>13

-----------------------------------------------------------------------------
(* The slice of a bucket, as the root cuts it.                             *)
First(b) == (b - 1) * (Len(data) \div K) + 1
Size(b) == IF b < K THEN Len(data) \div K
           ELSE Len(data) - (b - 1) * (Len(data) \div K)

(* What a message tells its bucket.                                        *)
Right(b, m) ==
  /\ m.tag = "DATA_REF_MSG" => m.first = First(b) /\ m.size = Size(b)
  /\ m.tag = "SPLITTER_MSG" => m.splitters = root.splitters

(* What a bucket knows.                                                    *)
Knows(b) ==
  /\ bucket[b].got >= 2 =>
       bucket[b].first = First(b) /\ bucket[b].size = Size(b)
  /\ bucket[b].got >= 3 => bucket[b].splitters = root.splitters

(* What the root knows.                                                    *)
RootKnows ==
  /\ data \in Seq(Int)
  /\ \A i \in 1 .. Len(box[0]) :
       box[0][i].tag = "REF_INTARRAY_MSG" => box[0][i].size = Len(data)
  /\ root.pc \notin {"recvK", "recvData"} => root.size = Len(data)
  /\ root.pc \notin {"recvK", "recvData", "sample"} =>
       root.splitters \in [1 .. K -> Int]

(* ... and all of them do, from the messages still in their mailboxes too. *)
BucketsKnow ==
  \A b \in B!Bucket :
    Knows(b) /\ \A i \in 1 .. Len(box[b]) : Right(b, box[b][i])

(* The data, the slices and the splitters are what they should be.         *)
SortData == DOMAIN final = B!Bucket /\ RootKnows /\ BucketsKnow

(* A step that changes neither the splitters, nor what a bucket has been   *)
(* sent and knows.                                                         *)
LEMMA SameKnowledge ==
  ASSUME SortData, UNCHANGED data, root'.splitters = root.splitters,
         NEW b \in B!Bucket, box'[b] = box[b],
         bucket'[b].got = bucket[b].got, bucket'[b].first = bucket[b].first,
         bucket'[b].size = bucket[b].size,
         bucket'[b].splitters = bucket[b].splitters
  PROVE  Knows(b)' /\ \A i \in 1 .. Len(box'[b]) : Right(b, box[b][i])'
<1>1. First(b)' = First(b) /\ Size(b)' = Size(b)
  BY DEF First, Size
<1> QED BY <1>1 DEF SortData, BucketsKnow, Knows, Right

(* Nothing has been sent to a bucket before the root's loops.              *)
LEMMA Unsent ==
  ASSUME SortInv, NEW b \in B!Bucket,
         root.pc \in {"recvK", "recvData", "sample", "create"}
  PROVE  bucket[b].got = 0 /\ Len(box[b]) = 0
<1>1. SentTo(root.pc, root.ki, b) = 0
  BY DEF SentTo, Stage, Loop
<1>2. bucket[b].got = 0
  BY <1>1, SentFacts
<1> QED BY <1>1, <1>2 DEF SortInv, BucketMail

(* The knowledge at the beginning.                                         *)
LEMMA DataInit == B!Init => SortData
<1> SUFFICES ASSUME B!Init PROVE SortData
  OBVIOUS
<1>1. data \in Seq(Int)
  BY SortAssumption DEF B!Init
<1>2. /\ root.pc = "recvK" /\ DOMAIN final = B!Bucket
      /\ \A b \in B!Bucket : bucket[b].got = 0
      /\ \A t \in B!Task : box[t] = << >> /\ Len(box[t]) = 0
  BY NoMessage DEF B!Init
<1> QED BY <1>1, <1>2, SortFacts DEF SortData, RootKnows, BucketsKnow, Knows

(* The splitters are values of the sample.                                 *)
LEMMA SplitterTypes ==
  ASSUME RootKnows, root.size = Len(data), root.K = K,
         NEW sample \in [1 .. SAMPLE_SIZE -> 1 .. root.size]
  PROVE  B!Splitters(sample) \in [1 .. K -> Int]
<1> DEFINE s == [i \in 1 .. SAMPLE_SIZE |-> data[sample[i]]]
           n == SAMPLE_SIZE \div K
           t == B!Sorted(s)
<1>1. SAMPLE_SIZE \in Nat /\ SAMPLE_SIZE >= 1 /\ LastSplitter \in Int
  BY SortAssumption
<1>2. s \in Seq(Int) /\ Len(s) = SAMPLE_SIZE
  <2>1. Len(data) \in Nat /\ data \in [1 .. Len(data) -> Int]
    BY LenProperties DEF RootKnows
  <2>2. \A i \in 1 .. SAMPLE_SIZE : data[sample[i]] \in Int
    BY <2>1
  <2>3. s \in [1 .. SAMPLE_SIZE -> Int]
    BY <2>2
  <2> HIDE DEF s
  <2> QED BY <1>1, <2>3
<1>3. t \in Seq(Int) /\ Len(t) = SAMPLE_SIZE
  <2> HIDE DEF s
  <2> QED BY <1>2, SortedFacts
<1> HIDE DEF t
<1>4. t \in [1 .. SAMPLE_SIZE -> Int]
  BY <1>3, LenProperties
<1>5. ASSUME NEW i \in 1 .. K, i < K PROVE i * n + 1 \in 1 .. SAMPLE_SIZE
  <2> DEFINE c == i + 1
  <2>1. c \in 1 .. K /\ c - 1 = i /\ i \in Nat
    BY <1>5, SortFacts
  <2> HIDE DEF c
  <2>2. n \in Nat /\ (c - 1) * n \in Nat /\ (c - 1) * n + n <= SAMPLE_SIZE
    BY <1>1, <2>1, SortFacts, Slices
  <2>3. i * n \in Nat /\ i * n + n <= SAMPLE_SIZE
    BY Zenon, <2>1, <2>2
  <2> HIDE DEF n
  <2>4. CASE n = 0
    <3>1. i * n = 0
      BY <2>1, <2>4, Z3
    <3> QED BY <1>1, <3>1
  <2>5. CASE n # 0
    <3> DEFINE x == i * n
    <3>1. x \in Nat /\ x + n <= SAMPLE_SIZE
      BY <2>3
    <3> HIDE DEF x
    <3>2. x + 1 \in 1 .. SAMPLE_SIZE
      BY <1>1, <2>2, <2>5, <3>1
    <3> QED BY <3>2 DEF x
  <2> QED BY <2>4, <2>5
<1>6. B!Splitters(sample)
        = [i \in 1 .. K |-> IF i < K THEN t[i * n + 1] ELSE LastSplitter]
  <2>1. B!Splitters(sample)
          = [i \in 1 .. root.K |-> IF i < root.K
               THEN t[i * (SAMPLE_SIZE \div root.K) + 1] ELSE LastSplitter]
    BY DEF B!Splitters, t
  <2> QED BY Zenon, <2>1 DEF n
<1>7. \A i \in 1 .. K : i < K => t[i * n + 1] \in Int
  <2> HIDE DEF n
  <2> QED BY <1>4, <1>5
<1> HIDE DEF n
<1> QED BY <1>1, <1>6, <1>7

(* The main thread tells the root the size of the data.                    *)
LEMMA DMainSend ==
  ASSUME SortInv, SortData, B!MainSend
  PROVE  SortData'
<1>1. 0 \in B!Task /\ B!Root = 0 /\ UNCHANGED <<data, root, bucket, final>>
  BY SortFacts DEF B!MainSend
<1>2. PICK m : /\ B!Put(0, m)
               /\ m.tag = "REF_INTARRAY_MSG" => m.size = Len(data)
  BY <1>1 DEF B!MainSend
<1>3. /\ \A u \in B!Task : u # 0 => box'[u] = box[u]
      /\ Len(box[0]) \in Nat /\ Len(box'[0]) = Len(box[0]) + 1
      /\ \A i \in 1 .. Len(box[0]) : box'[0][i] = box[0][i]
      /\ box'[0][Len(box[0]) + 1] = m
  BY <1>1, <1>2, PutFacts DEF SortInv
<1>4. \A b \in B!Bucket : box'[b] = box[b]
  BY <1>3, SortFacts
<1>5. BucketsKnow'
  BY <1>1, <1>4, SameKnowledge DEF BucketsKnow
<1>6. ASSUME NEW i \in 1 .. Len(box'[0]),
             box'[0][i].tag = "REF_INTARRAY_MSG"
      PROVE  box'[0][i].size = Len(data)
  <2>1. CASE i \in 1 .. Len(box[0])
    BY <1>3, <1>6, <2>1 DEF SortData, RootKnows
  <2>2. CASE i = Len(box[0]) + 1
    BY <1>2, <1>3, <1>6, <2>2
  <2> QED BY <1>3, <2>1, <2>2
<1> QED BY <1>1, <1>5, <1>6 DEF SortData, RootKnows

(* The root takes a message.                                               *)
LEMMA DRootReceive ==
  ASSUME SortInv, SortData, B!RootReceive
  PROVE  SortData'
<1>1. /\ UNCHANGED <<data, main, bucket, final>>
      /\ \A b \in B!Bucket : box'[b] = box[b]
      /\ Len(box[0]) \in Nat /\ Len(box[0]) >= 1
      /\ Len(box'[0]) = Len(box[0]) - 1
      /\ \A i \in 1 .. Len(box[0]) - 1 : box'[0][i] = box[0][i + 1]
      /\ root'.splitters = root.splitters
  BY RootTakes
<1>2. BucketsKnow'
  BY <1>1, SameKnowledge DEF BucketsKnow
<1>3. \A i \in 1 .. Len(box'[0]) :
        box'[0][i].tag = "REF_INTARRAY_MSG" => box'[0][i].size = Len(data)
  <2>1. \A i \in 1 .. Len(box'[0]) :
          i + 1 \in 1 .. Len(box[0]) /\ box'[0][i] = box[0][i + 1]
    BY <1>1
  <2> QED BY <2>1 DEF SortData, RootKnows
<1>4. \/ root'.pc = "recvData"
      \/ /\ root'.pc = "sample" /\ root'.size = box[0][1].size
         /\ box[0][1].tag = "REF_INTARRAY_MSG"
      \/ /\ root'.size = root.size
         /\ root.pc \notin {"recvK", "recvData", "sample"}
  BY RootTakes
<1>5. root'.pc \notin {"recvK", "recvData"} => root'.size = Len(data)
  <2>1. 1 \in 1 .. Len(box[0])
    BY <1>1
  <2> QED BY <1>4, <2>1 DEF SortData, RootKnows
<1>6. root'.pc \notin {"recvK", "recvData", "sample"} =>
        root'.splitters \in [1 .. K -> Int]
  BY <1>1, <1>4 DEF SortData, RootKnows
<1> QED BY <1>1, <1>2, <1>3, <1>5, <1>6 DEF SortData, RootKnows

(* The root picks its splitters.                                           *)
LEMMA DSample ==
  ASSUME SortInv, SortData, B!Sample
  PROVE  SortData'
<1>1. /\ root.pc = "sample"
      /\ UNCHANGED <<data, main, bucket, arrived, box, final>>
  BY DEF B!Sample
<1>2. root.size = Len(data) /\ root.K = K
  BY <1>1 DEF SortInv, SortTypes, SortData, RootKnows
<1>3. PICK sample \in [1 .. SAMPLE_SIZE -> 1 .. root.size] :
        root' = [root EXCEPT !.pc = "create",
                             !.splitters = B!Splitters(sample)]
  BY DEF B!Sample
<1> DEFINE x == B!Splitters(sample)
<1>4. x \in [1 .. K -> Int]
  BY <1>2, SplitterTypes DEF SortData
<1> HIDE DEF x
<1>5. root' = [root EXCEPT !.pc = "create", !.splitters = x]
  BY <1>3 DEF x
<1>6. root'.splitters = x /\ root'.size = root.size /\ root'.pc = "create"
  BY <1>5 DEF SortInv, SortTypes
<1>7. RootKnows'
  BY <1>1, <1>2, <1>4, <1>6 DEF SortData, RootKnows
<1>8. \A b \in B!Bucket : bucket[b].got = 0 /\ Len(box[b]) = 0
  BY <1>1, Unsent
<1>9. BucketsKnow'
  BY <1>1, <1>8 DEF BucketsKnow, Knows
<1> QED BY <1>1, <1>7, <1>9 DEF SortData

(* A step that changes a bucket's place alone keeps what it knows.         *)
LEMMA OnlyPlace ==
  ASSUME SortInv, NEW b \in B!Bucket, NEW p,
         bucket' = [bucket EXCEPT ![b].pc = p]
  PROVE  \A c \in B!Bucket :
           /\ bucket'[c].pc = IF c = b THEN p ELSE bucket[c].pc
           /\ bucket'[c].got = bucket[c].got
           /\ bucket'[c].first = bucket[c].first
           /\ bucket'[c].size = bucket[c].size
           /\ bucket'[c].splitters = bucket[c].splitters
BY DEF SortInv, SortTypes

(* A message to the root that is not its first one.                        *)
LEMMA RootIsTold ==
  ASSUME SortInv, SortData, UNCHANGED <<data, root>>, NEW m, B!Put(0, m),
         m.tag # "REF_INTARRAY_MSG"
  PROVE  RootKnows'
<1>1. /\ Len(box[0]) \in Nat /\ Len(box'[0]) = Len(box[0]) + 1
      /\ \A i \in 1 .. Len(box[0]) : box'[0][i] = box[0][i]
      /\ box'[0][Len(box[0]) + 1] = m
  <2>1. 0 \in B!Task
    BY SortFacts
  <2> QED BY <2>1, PutFacts DEF SortInv
<1>2. ASSUME NEW i \in 1 .. Len(box'[0]),
             box'[0][i].tag = "REF_INTARRAY_MSG"
      PROVE  box'[0][i].size = Len(data)
  <2>1. CASE i \in 1 .. Len(box[0])
    BY <1>1, <1>2, <2>1 DEF SortData, RootKnows
  <2>2. CASE i = Len(box[0]) + 1
    BY <1>1, <1>2, <2>2
  <2> QED BY <1>1, <2>1, <2>2
<1> QED BY <1>2 DEF SortData, RootKnows

(* A message to a bucket.                                                  *)
LEMMA BucketIsTold ==
  ASSUME SortInv, SortData, UNCHANGED <<data, bucket, final>>,
         root'.splitters = root.splitters, root'.size = root.size,
         root.pc \notin {"recvK", "recvData", "sample"},
         NEW b \in B!Bucket, NEW m, B!Put(b, m), Right(b, m)
  PROVE  SortData'
<1>1. /\ \A u \in B!Task : u # b => box'[u] = box[u]
      /\ Len(box[b]) \in Nat /\ Len(box'[b]) = Len(box[b]) + 1
      /\ \A i \in 1 .. Len(box[b]) : box'[b][i] = box[b][i]
      /\ box'[b][Len(box[b]) + 1] = m
  <2>1. b \in B!Task
    BY SortFacts
  <2> QED BY <2>1, PutFacts DEF SortInv
<1>2. box'[0] = box[0] /\ \A c \in B!Bucket : c # b => box'[c] = box[c]
  BY <1>1, SortFacts
<1>3. RootKnows'
  BY <1>2 DEF SortData, RootKnows
<1>4. ASSUME NEW c \in B!Bucket
      PROVE  Knows(c)' /\ \A i \in 1 .. Len(box'[c]) : Right(c, box[c][i])'
  <2>1. CASE c # b
    BY <1>2, <2>1, SameKnowledge
  <2>2. CASE c = b
    <3>1. First(b)' = First(b) /\ Size(b)' = Size(b)
      BY DEF First, Size
    <3>2. Knows(b)'
      BY <3>1 DEF SortData, BucketsKnow, Knows
    <3>3. ASSUME NEW i \in 1 .. Len(box'[b]) PROVE Right(b, box[b][i])'
      <4>1. Right(b, box'[b][i])
        <5>1. CASE i \in 1 .. Len(box[b])
          BY <1>1, <5>1 DEF SortData, BucketsKnow
        <5>2. CASE i = Len(box[b]) + 1
          BY <1>1, <5>2
        <5> QED BY <1>1, <5>1, <5>2
      <4> QED BY <3>1, <4>1 DEF Right
    <3> QED BY <2>2, <3>2, <3>3
  <2> QED BY <2>1, <2>2
<1>5. BucketsKnow'
  BY <1>4 DEF BucketsKnow
<1> QED BY <1>3, <1>5 DEF SortData

(* What the root reads of the partitions while the stacks survive.         *)
LEMMA RootReads ==
  ASSUME SortInv, B!SendSetSubArray
  PROVE  /\ UNCHANGED <<data, main, bucket, arrived, final>>
         /\ root.pc = "setSub" /\ root'.pc \in {"setSub", "recvDone"}
         /\ root'.pc = "recvDone" => root'.ki = 1
         /\ root'.size = root.size /\ root'.splitters = root.splitters
         /\ root.ki \in B!Bucket
         /\ \E m : /\ B!Put(root.ki, m) /\ m.tag = "SET_SUB_ARRAY_MSG"
                   /\ m.values = [j \in 1 .. K |->
                                    B!Part(arrived[j], root.ki)]
<1>1. /\ root.pc = "setSub"
      /\ UNCHANGED <<data, main, bucket, arrived, final>>
      /\ root' = IF root.ki < root.K THEN [root EXCEPT !.ki = @ + 1]
                 ELSE [root EXCEPT !.pc = "recvDone", !.ki = 1]
  BY DEF B!SendSetSubArray
<1>2. root.K = K /\ root.ki \in B!Bucket
  BY <1>1, SortFacts DEF SortInv, SortTypes
<1>3. /\ root'.pc \in {"setSub", "recvDone"}
      /\ root'.pc = "recvDone" => root'.ki = 1
      /\ root'.size = root.size /\ root'.splitters = root.splitters
  BY <1>1 DEF SortInv, SortTypes
<1>4. PICK values \in [1 .. root.K ->
                         UNION {B!ReadPart(b, root.ki) : b \in B!Bucket}] :
        /\ \A j \in 1 .. root.K :
             values[j] \in B!ReadPart(arrived[j], root.ki)
        /\ B!Put(root.ki, [tag |-> "SET_SUB_ARRAY_MSG", values |-> values])
  BY Zenon DEF B!SendSetSubArray
<1>5. \A b, k : B!ReadPart(b, k) = {B!Part(b, k)}
  BY DEF B!ReadPart
<1>6. values = [j \in 1 .. K |-> B!Part(arrived[j], root.ki)]
  <2>1. \A j \in 1 .. K : values[j] = B!Part(arrived[j], root.ki)
    BY <1>2, <1>4, <1>5
  <2>2. values = [j \in 1 .. K |-> values[j]]
    BY <1>2
  <2> QED BY Zenon, <2>1, <2>2
<1> DEFINE m == [tag |-> "SET_SUB_ARRAY_MSG", values |-> values]
<1>7. /\ B!Put(root.ki, m) /\ m.tag = "SET_SUB_ARRAY_MSG"
      /\ m.values = values
  BY <1>4
<1> HIDE DEF m
<1> QED BY <1>1, <1>2, <1>3, <1>6, <1>7

(* The root's steps that send the buckets something.                       *)
LEMMA DRootSends ==
  ASSUME SortInv, SortData, B!RootSend \/ B!SendSetSubArray
  PROVE  SortData'
<1>1. CASE B!RootSend
  <2>1. /\ UNCHANGED <<data, main, bucket, arrived, final>>
        /\ root.pc \in {"topology", "dataRef", "splitters", "getSub"}
        /\ root'.size = root.size /\ root'.splitters = root.splitters
        /\ root.ki \in B!Bucket
    BY <1>1, RootSends
  <2>2. PICK m : /\ B!Put(root.ki, m)
                 /\ \/ m.tag = "TOPOLOGY_MSG"
                    \/ /\ m.tag = "DATA_REF_MSG"
                       /\ m.first = B!Slice(root.ki).first
                       /\ m.size = B!Slice(root.ki).size
                    \/ /\ m.tag = "SPLITTER_MSG"
                       /\ m.splitters = root.splitters
                    \/ m.tag = "GET_SUB_ARRAY_MSG"
    BY <1>1, RootSends
  <2>3. root.size = Len(data) /\ root.K = K
    BY <2>1 DEF SortInv, SortTypes, SortData, RootKnows
  <2>4. /\ B!Slice(root.ki).first = First(root.ki)
        /\ B!Slice(root.ki).size = Size(root.ki)
    BY <2>3 DEF B!Slice, First, Size
  <2>5. Right(root.ki, m)
    BY <2>2, <2>4 DEF Right
  <2> QED BY <2>1, <2>2, <2>5, BucketIsTold
<1>2. CASE B!SendSetSubArray
  <2>1. /\ UNCHANGED <<data, main, bucket, arrived, final>>
        /\ root.pc = "setSub" /\ root.ki \in B!Bucket
        /\ root'.size = root.size /\ root'.splitters = root.splitters
    BY <1>2, RootReads
  <2>2. PICK m : B!Put(root.ki, m) /\ m.tag = "SET_SUB_ARRAY_MSG"
    BY <1>2, RootReads
  <2>3. Right(root.ki, m)
    BY <2>2 DEF Right
  <2> QED BY <2>1, <2>2, <2>3, BucketIsTold
<1> QED BY <1>1, <1>2

(* A bucket takes its next message.                                        *)
LEMMA DBucketReceive ==
  ASSUME SortInv, SortData, NEW b \in B!Bucket, B!BucketReceive(b)
  PROVE  SortData'
<1> DEFINE g == bucket[b].got
           m == box[b][1]
<1>1. DOMAIN final = B!Bucket
  BY DEF SortData
<1>2. /\ UNCHANGED <<data, main, root, arrived>> /\ g \in 0 .. 4
      /\ \A u \in B!Task : u # b => box'[u] = box[u]
      /\ Len(box[b]) \in Nat /\ Len(box[b]) >= 1
      /\ Len(box'[b]) = Len(box[b]) - 1
      /\ \A i \in 1 .. Len(box[b]) - 1 : box'[b][i] = box[b][i + 1]
      /\ \A c \in B!Bucket : c # b => bucket'[c] = bucket[c]
      /\ bucket'[b].got = g + 1 /\ m.tag = Tag(g + 1)
      /\ IF g = 1
           THEN bucket'[b].first = m.first /\ bucket'[b].size = m.size
           ELSE /\ bucket'[b].first = bucket[b].first
                /\ bucket'[b].size = bucket[b].size
      /\ bucket'[b].splitters = IF g = 2 THEN m.splitters
                                ELSE bucket[b].splitters
      /\ DOMAIN final' = B!Bucket
  BY <1>1, BucketTakes
<1>3. box'[0] = box[0] /\ \A c \in B!Bucket : c # b => box'[c] = box[c]
  BY <1>2, SortFacts
<1>4. RootKnows'
  BY <1>2, <1>3 DEF SortData, RootKnows
<1>5. First(b)' = First(b) /\ Size(b)' = Size(b)
  BY <1>2 DEF First, Size
<1>6. Right(b, m) /\ Knows(b) /\ \A i \in 1 .. Len(box[b]) : Right(b, box[b][i])
  <2>1. 1 \in 1 .. Len(box[b])
    BY <1>2
  <2> QED BY <2>1 DEF SortData, BucketsKnow
<1>7. Knows(b)'
  <2>1. /\ g = 1 => m.first = First(b) /\ m.size = Size(b)
        /\ g = 2 => m.splitters = root.splitters
    BY <1>2, <1>6 DEF Right, Tag
  <2>2. /\ g >= 2 => bucket[b].first = First(b) /\ bucket[b].size = Size(b)
        /\ g >= 3 => bucket[b].splitters = root.splitters
    BY <1>6 DEF Knows
  <2> HIDE DEF g, m
  <2>3. bucket'[b].got >= 2 =>
          bucket'[b].first = First(b) /\ bucket'[b].size = Size(b)
    BY <1>2, <2>1, <2>2
  <2>4. bucket'[b].got >= 3 => bucket'[b].splitters = root.splitters
    BY <1>2, <2>1, <2>2
  <2> QED BY <1>2, <1>5, <2>3, <2>4 DEF Knows
<1>8. ASSUME NEW i \in 1 .. Len(box'[b]) PROVE Right(b, box[b][i])'
  <2>1. i + 1 \in 1 .. Len(box[b]) /\ box'[b][i] = box[b][i + 1]
    BY <1>2
  <2>2. Right(b, box'[b][i])
    BY <1>6, <2>1
  <2> QED BY <1>2, <1>5, <2>2 DEF Right
<1>9. ASSUME NEW c \in B!Bucket, c # b
      PROVE  Knows(c)' /\ \A i \in 1 .. Len(box'[c]) : Right(c, box[c][i])'
  BY <1>2, <1>3, <1>9, SameKnowledge
<1>10. BucketsKnow'
  BY <1>7, <1>8, <1>9 DEF BucketsKnow
<1> QED BY <1>2, <1>4, <1>10 DEF SortData

(* The other steps of a bucket.                                            *)
LEMMA DBucketSteps ==
  ASSUME SortInv, SortData, NEW b \in B!Bucket,
         B!Partition(b) \/ B!FinalSort(b) \/ B!BucketEnd(b)
  PROVE  SortData'
<1>1. PICK p : bucket' = [bucket EXCEPT ![b].pc = p]
  BY DEF B!Partition, B!FinalSort, B!BucketEnd
<1>2. UNCHANGED <<data, main, root, arrived>> /\ DOMAIN final' = B!Bucket
  BY DEF B!Partition, B!FinalSort, B!BucketEnd, SortData
<1>3. \/ UNCHANGED box
      \/ \E m : B!Put(0, m) /\ m.tag # "REF_INTARRAY_MSG"
  <2>1. CASE B!Partition(b)
    BY <2>1, SortFacts DEF B!Partition
  <2>2. CASE B!FinalSort(b)
    BY <2>2, SortFacts DEF B!FinalSort
  <2>3. CASE B!BucketEnd(b)
    BY <2>3 DEF B!BucketEnd
  <2> QED BY <2>1, <2>2, <2>3
<1>4. RootKnows' /\ \A c \in B!Bucket : box'[c] = box[c]
  <2>1. CASE UNCHANGED box
    BY <1>2, <2>1 DEF SortData, RootKnows
  <2>2. CASE \E m : B!Put(0, m) /\ m.tag # "REF_INTARRAY_MSG"
    <3>1. PICK m : B!Put(0, m) /\ m.tag # "REF_INTARRAY_MSG"
      BY <2>2
    <3>2. \A u \in B!Task : u # 0 => box'[u] = box[u]
      <4>1. 0 \in B!Task
        BY SortFacts
      <4> QED BY <3>1, <4>1, PutFacts DEF SortInv
    <3>3. RootKnows'
      BY <1>2, <3>1, RootIsTold
    <3> QED BY <3>2, <3>3, SortFacts
  <2> QED BY <1>3, <2>1, <2>2
<1>5. \A c \in B!Bucket :
        /\ bucket'[c].got = bucket[c].got
        /\ bucket'[c].first = bucket[c].first
        /\ bucket'[c].size = bucket[c].size
        /\ bucket'[c].splitters = bucket[c].splitters
  BY <1>1, OnlyPlace
<1>6. BucketsKnow'
  BY <1>2, <1>4, <1>5, SameKnowledge DEF BucketsKnow
<1> QED BY <1>2, <1>4, <1>6 DEF SortData

(* The root creates a bucket, or ends; the main thread goes to sleep.      *)
LEMMA DOthers ==
  ASSUME SortInv, SortData,
         \/ B!CreateBucket \/ B!SignalMain \/ B!MainWait
         \/ UNCHANGED B!vars
  PROVE  SortData'
<1>1. UNCHANGED <<data, box, final>> /\ DOMAIN final' = B!Bucket
  BY DEF B!CreateBucket, B!SignalMain, B!MainWait, B!vars, SortData
<1>2. /\ root'.splitters = root.splitters /\ root'.size = root.size
      /\ \/ root'.pc = root.pc
         \/ root.pc \notin {"recvK", "recvData", "sample"}
  <2>1. CASE B!CreateBucket
    <3>1. /\ root.pc = "create"
          /\ root' = IF root.ki < root.K THEN [root EXCEPT !.ki = @ + 1]
                     ELSE [root EXCEPT !.pc = "topology", !.ki = 1]
      BY <2>1 DEF B!CreateBucket
    <3> QED BY <3>1 DEF SortInv, SortTypes
  <2>2. CASE B!SignalMain
    <3>1. root.pc = "signal" /\ root' = [root EXCEPT !.pc = "ended"]
      BY <2>2 DEF B!SignalMain
    <3> QED BY <3>1 DEF SortInv, SortTypes
  <2>3. CASE UNCHANGED root
    BY <2>3
  <2> QED BY <2>1, <2>2, <2>3 DEF B!MainWait, B!vars
<1>3. RootKnows'
  BY <1>1, <1>2 DEF SortData, RootKnows
<1>4. \A c \in B!Bucket :
        /\ bucket'[c].got = bucket[c].got
        /\ bucket'[c].first = bucket[c].first
        /\ bucket'[c].size = bucket[c].size
        /\ bucket'[c].splitters = bucket[c].splitters
  <2>1. CASE B!CreateBucket
    <3>1. bucket' = [bucket EXCEPT ![root.ki].pc = "receive"]
      BY <2>1 DEF B!CreateBucket
    <3>2. root.ki \in B!Bucket
      BY SortFacts DEF SortInv, SortTypes
    <3> QED BY <3>1, <3>2, OnlyPlace
  <2>2. CASE UNCHANGED bucket
    BY <2>2
  <2> QED BY <2>1, <2>2 DEF B!SignalMain, B!MainWait, B!vars
<1>5. BucketsKnow'
  BY <1>1, <1>2, <1>4, SameKnowledge DEF BucketsKnow
<1> QED BY <1>1, <1>3, <1>5 DEF SortData

(* What root and buckets know of the data.                                 *)
LEMMA DataStep ==
  ASSUME SortInv, SortData, [B!Next]_(B!vars)
  PROVE  SortData'
<1>1. CASE B!MainStep
  BY <1>1, DMainSend, DOthers DEF B!MainStep
<1>2. CASE B!RootStep
  BY <1>2, DRootReceive, DSample, DRootSends, DOthers DEF B!RootStep
<1>3. ASSUME NEW b \in B!Bucket, B!BucketStep(b) PROVE SortData'
  BY <1>3, DBucketReceive, DBucketSteps DEF B!BucketStep
<1> QED BY <1>1, <1>2, <1>3, DOthers DEF B!Next

(* The partitions that have arrived, one from each of some buckets.        *)
Came ==
  /\ arrived \in Seq(B!Bucket)
  /\ Len(arrived) = IF root.pc = "recvSub" THEN root.ki - 1
                    ELSE IF root.pc \in Late THEN K ELSE 0
  /\ \A i \in 1 .. Len(arrived) :
       /\ arrived[i] \in Reported
       /\ \A j \in 1 .. Len(arrived) : i # j => arrived[i] # arrived[j]

(* The partitions on their way, one from each of some other buckets.       *)
Coming ==
  \A i \in 1 .. Len(box[0]) :
    box[0][i].tag = "SUB_ARRAT_MSG" =>
      /\ box[0][i].bucket \in Reported
      /\ \A j \in 1 .. Len(arrived) : arrived[j] # box[0][i].bucket
      /\ \A j \in 1 .. Len(box[0]) :
           i # j /\ box[0][j].tag = "SUB_ARRAT_MSG" =>
             box[0][i].bucket # box[0][j].bucket

(* No partition is lost and none comes twice.                              *)
Arrivals == Came /\ Coming

(* The buckets that have sorted their values, and the reports of that.     *)
Finished == {b \in B!Bucket : bucket[b].pc \in {"return", "ended"}}

(* The root has counted them, or they wait in its mailbox.                 *)
Reports ==
  /\ root.pc \in {"setSub", "recvDone"} =>
       Len(box[0]) + (IF root.pc = "recvDone" THEN root.ki - 1 ELSE 0)
         = Cardinality(Finished)
  /\ root.pc \in {"signal", "ended"} => Finished = B!Bucket

(* Nothing has arrived and nothing is on its way.                          *)
LEMMA ArrivalsInit == B!Init => Arrivals /\ Reports
<1> SUFFICES ASSUME B!Init PROVE Arrivals /\ Reports
  OBVIOUS
<1>1. /\ root.pc = "recvK" /\ arrived = << >> /\ Len(arrived) = 0
      /\ arrived \in Seq(B!Bucket)
  BY NoMessage, EmptySeq DEF B!Init
<1>2. Len(box[0]) = 0
  BY NoMessage, SortFacts DEF B!Init
<1> QED BY <1>1, <1>2 DEF Arrivals, Came, Coming, Reports, Late

(* The main thread sends only before the root has all it needs.            *)
LEMMA MainEarly ==
  ASSUME SortInv, B!MainSend
  PROVE  root.pc \in {"recvK", "recvData"}
<1>1. main \in {"sendK", "sendData"}
  BY DEF B!MainSend
<1> QED BY <1>1 DEF SortInv, RootMail, MainSent

(* The root's place changes, and with it nothing that has arrived.         *)
LEMMA StillCame ==
  ASSUME Arrivals, UNCHANGED arrived, Reported \subseteq Reported',
         \/ /\ root.pc \notin Late \cup {"recvSub"}
            /\ root'.pc \notin Late
            /\ root'.pc = "recvSub" => root'.ki - 1 = 0
         \/ root.pc = "recvSub" /\ root'.pc = "recvSub" /\ root'.ki = root.ki
         \/ root.pc \in Late /\ root'.pc \in Late
  PROVE  Came'
<1>1. Len(arrived) = IF root'.pc = "recvSub" THEN root'.ki - 1
                     ELSE IF root'.pc \in Late THEN K ELSE 0
  BY DEF Arrivals, Came, Late
<1> QED BY <1>1 DEF Arrivals, Came

(* The steps in which no partition comes or is sent.                       *)
LEMMA StillComing ==
  ASSUME Arrivals, UNCHANGED arrived, Reported \subseteq Reported',
         IsSeq(box[0]),
         \/ box'[0] = box[0]
         \/ \E m : box'[0] = Append(box[0], m) /\ m.tag # "SUB_ARRAT_MSG"
         \/ box[0] # << >> /\ box'[0] = Tail(box[0])
  PROVE  Coming'
<1>1. CASE box'[0] = box[0]
  BY <1>1 DEF Arrivals, Coming
<1>2. CASE \E m : box'[0] = Append(box[0], m) /\ m.tag # "SUB_ARRAT_MSG"
  <2>1. PICK m : box'[0] = Append(box[0], m) /\ m.tag # "SUB_ARRAT_MSG"
    BY <1>2
  <2>2. /\ Len(box'[0]) = Len(box[0]) + 1 /\ Len(box[0]) \in Nat
        /\ \A i \in 1 .. Len(box[0]) : box'[0][i] = box[0][i]
        /\ box'[0][Len(box[0]) + 1] = m
    BY <2>1, IsSeqAppend DEF IsSeq
  <2>3. \A i \in 1 .. Len(box'[0]) :
          box'[0][i].tag = "SUB_ARRAT_MSG" =>
            i \in 1 .. Len(box[0]) /\ box'[0][i] = box[0][i]
    BY <2>1, <2>2
  <2> QED BY <2>3 DEF Arrivals, Coming
<1>3. CASE box[0] # << >> /\ box'[0] = Tail(box[0])
  <2>1. /\ Len(box'[0]) = Len(box[0]) - 1 /\ Len(box[0]) \in Nat
        /\ \A i \in 1 .. Len(box[0]) - 1 : box'[0][i] = box[0][i + 1]
    BY <1>3, IsSeqTail DEF IsSeq
  <2>2. \A i \in 1 .. Len(box'[0]) :
          i + 1 \in 1 .. Len(box[0]) /\ box'[0][i] = box[0][i + 1]
    BY <2>1
  <2>3. ASSUME NEW i \in 1 .. Len(box'[0]),
               box'[0][i].tag = "SUB_ARRAT_MSG"
        PROVE  /\ box'[0][i].bucket \in Reported
               /\ \A j \in 1 .. Len(arrived) : arrived[j] # box'[0][i].bucket
    BY <2>2, <2>3 DEF Arrivals, Coming
  <2>4. ASSUME NEW i \in 1 .. Len(box'[0]), NEW j \in 1 .. Len(box'[0]),
               i # j, box'[0][i].tag = "SUB_ARRAT_MSG",
               box'[0][j].tag = "SUB_ARRAT_MSG"
        PROVE  box'[0][i].bucket # box'[0][j].bucket
    <3>1. i + 1 # j + 1
      BY <2>1, <2>4
    <3> QED BY <2>2, <2>4, <3>1 DEF Arrivals, Coming
  <2> QED BY <2>3, <2>4 DEF Coming
<1> QED BY <1>1, <1>2, <1>3

(* The root is sent a message.                                             *)
LEMMA RootMailGrows ==
  ASSUME SortInv, NEW m, B!Put(0, m)
  PROVE  /\ IsSeq(box[0]) /\ box'[0] = Append(box[0], m)
         /\ \A b \in B!Bucket : box'[b] = box[b]
<1>1. DOMAIN box = B!Task /\ 0 \in B!Task /\ IsSeq(box[0])
  BY SortFacts DEF SortInv, SortTypes
<1> QED BY <1>1, SortFacts DEF B!Put

(* Who has reported stays so.                                              *)
LEMMA StillReported ==
  ASSUME SortInv, NEW b \in B!Bucket,
         \A c \in B!Bucket : c # b =>
           bucket'[c].got = bucket[c].got /\ bucket'[c].pc = bucket[c].pc,
         b \in Reported => bucket'[b].got >= 4 /\ bucket'[b].pc # "partition"
  PROVE  Reported \subseteq Reported'
BY DEF Reported

(* The root takes a message.                                               *)
LEMMA ARootReceive ==
  ASSUME SortInv, Arrivals, B!RootReceive
  PROVE  Arrivals'
<1>1. /\ UNCHANGED <<data, main, bucket, final>>
      /\ Len(box[0]) \in Nat /\ Len(box[0]) >= 1
      /\ Len(box'[0]) = Len(box[0]) - 1
      /\ \A i \in 1 .. Len(box[0]) - 1 : box'[0][i] = box[0][i + 1]
  BY RootTakes
<1>2. Reported' = Reported
  BY <1>1 DEF Reported
<1>3. CASE root.pc # "recvSub"
  <2>1. /\ UNCHANGED arrived
        /\ \/ root.pc = "recvK" /\ root'.pc = "recvData"
           \/ root.pc = "recvData" /\ root'.pc = "sample"
           \/ root.pc = "recvDone" /\ root'.pc \in {"recvDone", "signal"}
    BY <1>3, RootTakes
  <2>2. Came'
    BY <1>2, <2>1, StillCame DEF Late
  <2>3. IsSeq(box[0]) /\ box[0] # << >> /\ box'[0] = Tail(box[0])
    BY SortFacts DEF SortInv, SortTypes, B!RootReceive
  <2>4. Coming'
    BY <1>2, <2>1, <2>3, StillComing
  <2> QED BY <2>2, <2>4 DEF Arrivals
<1>4. CASE root.pc = "recvSub"
  <2> DEFINE x == box[0][1].bucket
             n == Len(arrived)
  <2>1. /\ box[0][1].tag = "SUB_ARRAT_MSG" /\ arrived' = Append(arrived, x)
        /\ \/ root.ki = K /\ root'.pc = "setSub"
           \/ root'.pc = "recvSub" /\ root'.ki = root.ki + 1
    BY <1>4, RootTakes
  <2>2. 1 \in 1 .. Len(box[0])
    BY <1>1
  <2>3. x \in Reported /\ \A j \in 1 .. n : arrived[j] # x
    BY <2>1, <2>2 DEF Arrivals, Coming
  <2>4. x \in B!Bucket
    BY <2>3 DEF Reported
  <2>5. n = root.ki - 1 /\ root.ki \in 1 .. K /\ n \in Nat
    BY <1>4, SortFacts DEF Arrivals, Came, SortInv, SortTypes
  <2>6. arrived \in Seq(B!Bucket)
    BY DEF Arrivals, Came
  <2> HIDE DEF x
  <2>7. /\ arrived' \in Seq(B!Bucket) /\ Len(arrived') = n + 1
        /\ \A j \in 1 .. n : arrived'[j] = arrived[j]
        /\ arrived'[n + 1] = x
    BY <2>1, <2>4, <2>6, AppendProperties
  <2>8. Came'
    <3>1. Len(arrived') = IF root'.pc = "recvSub" THEN root'.ki - 1
                          ELSE IF root'.pc \in Late THEN K ELSE 0
      BY <2>1, <2>5, <2>7, SortFacts DEF Late
    <3>2. ASSUME NEW i \in 1 .. n + 1
          PROVE  /\ arrived'[i] \in Reported
                 /\ \A j \in 1 .. n + 1 : i # j => arrived'[i] # arrived'[j]
      <4>1. \A j \in 1 .. n + 1 : j \in 1 .. n \/ j = n + 1
        BY <2>5
      <4> QED BY <2>3, <2>7, <4>1 DEF Arrivals, Came
    <3> QED BY <1>2, <2>7, <3>1, <3>2 DEF Came
  <2>9. Coming'
    <3>1. \A i \in 1 .. Len(box'[0]) :
            /\ i + 1 \in 1 .. Len(box[0]) /\ i + 1 # 1
            /\ box'[0][i] = box[0][i + 1]
      BY <1>1
    <3>2. \A i, j \in 1 .. Len(box'[0]) : i # j => i + 1 # j + 1
      BY <1>1
    <3>3. ASSUME NEW i \in 1 .. Len(box'[0]),
                 box'[0][i].tag = "SUB_ARRAT_MSG"
          PROVE  /\ box'[0][i].bucket \in Reported
                 /\ \A j \in 1 .. n : arrived[j] # box'[0][i].bucket
                 /\ x # box'[0][i].bucket
      <4>1. /\ i + 1 \in 1 .. Len(box[0]) /\ i + 1 # 1
            /\ box'[0][i] = box[0][i + 1]
        BY <3>1
      <4>2. x # box[0][i + 1].bucket
        BY <2>1, <2>2, <3>3, <4>1 DEF Arrivals, Coming, x
      <4>3. /\ box'[0][i].bucket \in Reported
            /\ \A j \in 1 .. n : arrived[j] # box'[0][i].bucket
        BY <3>3, <4>1 DEF Arrivals, Coming
      <4> QED BY <4>1, <4>2, <4>3
    <3>4. ASSUME NEW i \in 1 .. Len(box'[0]), NEW j \in 1 .. Len(box'[0]),
                 i # j, box'[0][i].tag = "SUB_ARRAT_MSG",
                 box'[0][j].tag = "SUB_ARRAT_MSG"
          PROVE  box'[0][i].bucket # box'[0][j].bucket
      BY <3>1, <3>2, <3>4 DEF Arrivals, Coming
    <3>5. \A j \in 1 .. n + 1 : j \in 1 .. n \/ j = n + 1
      BY <2>5
    <3>6. ASSUME NEW i \in 1 .. Len(box'[0]),
                 box'[0][i].tag = "SUB_ARRAT_MSG",
                 NEW j \in 1 .. Len(arrived')
          PROVE  arrived'[j] # box'[0][i].bucket
      BY <2>7, <3>3, <3>5, <3>6
    <3> QED BY <1>2, <3>3, <3>4, <3>6 DEF Coming
  <2> QED BY <2>8, <2>9 DEF Arrivals
<1> QED BY <1>3, <1>4

(* A bucket sends its partition.                                           *)
LEMMA APartition ==
  ASSUME SortInv, Arrivals, NEW b \in B!Bucket, B!Partition(b)
  PROVE  Arrivals'
<1>1. /\ bucket[b].pc = "partition" /\ UNCHANGED <<root, arrived>>
      /\ bucket' = [bucket EXCEPT ![b].pc = "receive"]
      /\ bucket[b].got = 4
  BY DEF B!Partition, SortInv, SortTypes
<1> DEFINE m == [tag |-> "SUB_ARRAT_MSG", bucket |-> b]
<1>2. B!Put(0, m) /\ m.tag = "SUB_ARRAT_MSG" /\ m.bucket = b
  BY SortFacts DEF B!Partition
<1> HIDE DEF m
<1>3. /\ IsSeq(box[0]) /\ box'[0] = Append(box[0], m)
  BY <1>2, RootMailGrows
<1>4. /\ Len(box[0]) \in Nat /\ Len(box'[0]) = Len(box[0]) + 1
      /\ \A i \in 1 .. Len(box[0]) : box'[0][i] = box[0][i]
      /\ box'[0][Len(box[0]) + 1] = m
  BY <1>3, IsSeqAppend DEF IsSeq
<1>5. \A c \in B!Bucket :
        /\ bucket'[c].pc = IF c = b THEN "receive" ELSE bucket[c].pc
        /\ bucket'[c].got = bucket[c].got
  BY <1>1 DEF SortInv, SortTypes
<1>6. Reported \subseteq Reported' /\ b \in Reported' /\ b \notin Reported
  BY <1>1, <1>5 DEF Reported
<1>7. Came'
  <2>1. Len(arrived') = IF root'.pc = "recvSub" THEN root'.ki - 1
                        ELSE IF root'.pc \in Late THEN K ELSE 0
    BY <1>1 DEF Arrivals, Came
  <2> QED BY <1>1, <1>6, <2>1 DEF Arrivals, Came
<1>8. Coming'
  <2>1. \A i \in 1 .. Len(box'[0]) :
          i \in 1 .. Len(box[0]) \/ (i = Len(box[0]) + 1 /\ box'[0][i] = m)
    BY <1>4
  <2>2. ASSUME NEW i \in 1 .. Len(box'[0]),
               box'[0][i].tag = "SUB_ARRAT_MSG"
        PROVE  /\ box'[0][i].bucket \in Reported'
               /\ \A j \in 1 .. Len(arrived) : arrived[j] # box'[0][i].bucket
    <3>1. \A j \in 1 .. Len(arrived) : arrived[j] # b
      BY <1>6 DEF Arrivals, Came
    <3>2. CASE i \in 1 .. Len(box[0])
      BY <1>4, <1>6, <2>2, <3>2 DEF Arrivals, Coming
    <3>3. CASE box'[0][i] = m
      BY <1>2, <1>6, <3>1, <3>3
    <3> QED BY <2>1, <3>2, <3>3
  <2>3. ASSUME NEW i \in 1 .. Len(box'[0]), NEW j \in 1 .. Len(box'[0]),
               i # j, box'[0][i].tag = "SUB_ARRAT_MSG",
               box'[0][j].tag = "SUB_ARRAT_MSG"
        PROVE  box'[0][i].bucket # box'[0][j].bucket
    <3>1. \A k \in 1 .. Len(box[0]) :
            box'[0][k].tag = "SUB_ARRAT_MSG" => box'[0][k].bucket # b
      BY <1>4, <1>6 DEF Arrivals, Coming
    <3>2. CASE i \in 1 .. Len(box[0]) /\ j \in 1 .. Len(box[0])
      BY <1>4, <2>3, <3>2 DEF Arrivals, Coming
    <3>3. CASE i \in 1 .. Len(box[0]) /\ box'[0][j] = m
      BY <1>2, <2>3, <3>1, <3>3
    <3>4. CASE j \in 1 .. Len(box[0]) /\ box'[0][i] = m
      BY <1>2, <2>3, <3>1, <3>4
    <3> QED BY <2>1, <2>3, <3>2, <3>3, <3>4
  <2> QED BY <1>1, <2>2, <2>3 DEF Coming
<1> QED BY <1>7, <1>8 DEF Arrivals

(* The other steps of a bucket.                                            *)
LEMMA ABucketSteps ==
  ASSUME SortInv, SortData, Arrivals, NEW b \in B!Bucket,
         B!BucketReceive(b) \/ B!FinalSort(b) \/ B!BucketEnd(b)
  PROVE  Arrivals'
<1>1. /\ UNCHANGED <<root, arrived>> /\ Reported \subseteq Reported'
      /\ \/ box'[0] = box[0]
         \/ \E m : box'[0] = Append(box[0], m) /\ m.tag # "SUB_ARRAT_MSG"
  <2>1. CASE B!BucketReceive(b)
    <3>1. DOMAIN final = B!Bucket /\ 0 \in B!Task /\ 0 # b
      BY SortFacts DEF SortData
    <3>2. /\ UNCHANGED <<root, arrived>> /\ box'[0] = box[0]
          /\ bucket[b].got \in 0 .. 4 /\ bucket'[b].got = bucket[b].got + 1
          /\ \A c \in B!Bucket : c # b => bucket'[c] = bucket[c]
          /\ bucket[b].got = 4 => bucket'[b].pc = "sort"
      BY <2>1, <3>1, BucketTakes
    <3>3. b \in Reported => bucket'[b].got >= 4 /\ bucket'[b].pc # "partition"
      <4>1. ASSUME bucket[b].got >= 4 PROVE bucket[b].got = 4
        BY <3>2, <4>1
      <4> QED BY <3>2, <4>1 DEF Reported
    <3> QED BY <3>2, <3>3, StillReported
  <2>2. CASE B!FinalSort(b)
    <3>1. PICK m : B!Put(0, m) /\ m.tag = "DONE_MSG"
      BY <2>2, SortFacts DEF B!FinalSort
    <3>2. /\ UNCHANGED <<root, arrived>>
          /\ bucket' = [bucket EXCEPT ![b].pc = "return"]
      BY <2>2 DEF B!FinalSort
    <3>3. Reported \subseteq Reported'
      BY <3>2, OnlyPlace DEF Reported
    <3> QED BY <3>1, <3>2, <3>3, RootMailGrows
  <2>3. CASE B!BucketEnd(b)
    <3>1. /\ UNCHANGED <<root, arrived, box>>
          /\ bucket' = [bucket EXCEPT ![b].pc = "ended"]
      BY <2>3 DEF B!BucketEnd
    <3>2. Reported \subseteq Reported'
      BY <3>1, OnlyPlace DEF Reported
    <3> QED BY <3>1, <3>2
  <2> QED BY <2>1, <2>2, <2>3
<1>2. IsSeq(box[0])
  BY SortFacts DEF SortInv, SortTypes
<1>3. Coming'
  BY <1>1, <1>2, StillComing
<1>4. Came'
  BY <1>1, StillCame DEF Late
<1> QED BY <1>3, <1>4 DEF Arrivals

(* The other steps of the root and of the main thread.                     *)
LEMMA AOthers ==
  ASSUME SortInv, Arrivals,
         \/ B!MainStep \/ B!Sample \/ B!CreateBucket \/ B!RootSend
         \/ B!SendSetSubArray \/ B!SignalMain \/ UNCHANGED B!vars
  PROVE  Arrivals'
<1>1. IsSeq(box[0]) /\ DOMAIN box = B!Task /\ 0 \in B!Task
  BY SortFacts DEF SortInv, SortTypes
<1>2. Came' /\ Reported \subseteq Reported' /\ UNCHANGED arrived
  <2>1. CASE B!MainStep \/ UNCHANGED B!vars
    <3>1. UNCHANGED <<root, bucket, arrived>>
      BY <2>1 DEF B!MainStep, B!MainSend, B!MainWait, B!vars
    <3> QED BY <3>1, StillCame DEF Reported, Late
  <2>2. CASE B!Sample
    <3>1. PICK x : root' = [root EXCEPT !.pc = "create", !.splitters = x]
      BY <2>2 DEF B!Sample
    <3>2. root.pc = "sample" /\ UNCHANGED <<bucket, arrived>>
      BY <2>2 DEF B!Sample
    <3>3. root'.pc = "create"
      BY <3>1 DEF SortInv, SortTypes
    <3> QED BY <3>2, <3>3, StillCame DEF Reported, Late
  <2>3. CASE B!CreateBucket
    <3>1. /\ root.pc = "create" /\ UNCHANGED arrived
          /\ bucket' = [bucket EXCEPT ![root.ki].pc = "receive"]
          /\ root' = IF root.ki < root.K THEN [root EXCEPT !.ki = @ + 1]
                     ELSE [root EXCEPT !.pc = "topology", !.ki = 1]
      BY <2>3 DEF B!CreateBucket
    <3>2. root.ki \in B!Bucket /\ root'.pc \in {"create", "topology"}
      BY <3>1, SortFacts DEF SortInv, SortTypes
    <3>3. Reported \subseteq Reported'
      BY <3>1, <3>2, OnlyPlace DEF Reported
    <3> QED BY <3>1, <3>2, <3>3, StillCame DEF Late
  <2>4. CASE B!RootSend
    <3>1. /\ UNCHANGED <<bucket, arrived>>
          /\ root.pc \in {"topology", "dataRef", "splitters", "getSub"}
          /\ root'.pc \in {"topology", "dataRef", "splitters", "getSub",
                           "recvSub"}
          /\ root'.pc = "recvSub" => root'.ki = 1
      BY <2>4, RootSends
    <3> QED BY <3>1, StillCame DEF Reported, Late
  <2>5. CASE B!SendSetSubArray
    <3>1. /\ UNCHANGED <<bucket, arrived>> /\ root.pc = "setSub"
          /\ root'.pc \in {"setSub", "recvDone"}
      BY <2>5, RootReads
    <3> QED BY <3>1, StillCame DEF Reported, Late
  <2>6. CASE B!SignalMain
    <3>1. /\ UNCHANGED <<bucket, arrived>> /\ root.pc = "signal"
          /\ root' = [root EXCEPT !.pc = "ended"]
      BY <2>6 DEF B!SignalMain
    <3>2. root'.pc = "ended"
      BY <3>1 DEF SortInv, SortTypes
    <3> QED BY <3>1, <3>2, StillCame DEF Reported, Late
  <2> QED BY <2>1, <2>2, <2>3, <2>4, <2>5, <2>6
<1>3. \/ box'[0] = box[0]
      \/ \E m : box'[0] = Append(box[0], m) /\ m.tag # "SUB_ARRAT_MSG"
  <2>1. CASE B!MainSend
    <3>1. PICK m : B!Put(0, m) /\ m.tag \in {"BAR_MSG", "REF_INTARRAY_MSG"}
      BY <2>1, SortFacts DEF B!MainSend
    <3> QED BY <3>1, RootMailGrows
  <2>2. CASE B!RootSend
    <3>1. PICK m : B!Put(root.ki, m)
      BY <2>2, RootSends
    <3>2. root.ki # 0
      BY <2>2, RootSends, SortFacts
    <3> QED BY <1>1, <3>1, <3>2 DEF B!Put
  <2>3. CASE B!SendSetSubArray
    <3>1. PICK m : B!Put(root.ki, m)
      BY <2>3, RootReads
    <3>2. root.ki # 0
      BY <2>3, RootReads, SortFacts
    <3> QED BY <1>1, <3>1, <3>2 DEF B!Put
  <2>4. CASE UNCHANGED box
    BY <2>4
  <2> QED BY <2>1, <2>2, <2>3, <2>4
          DEF B!MainStep, B!MainWait, B!Sample, B!CreateBucket,
              B!SignalMain, B!vars
<1>4. Coming'
  BY <1>1, <1>2, <1>3, StillComing
<1> QED BY <1>2, <1>4 DEF Arrivals

(* The partitions that come.                                               *)
LEMMA ArrivalsStep ==
  ASSUME SortInv, SortData, Arrivals, [B!Next]_(B!vars)
  PROVE  Arrivals'
<1>1. CASE B!RootStep
  BY <1>1, ARootReceive, AOthers DEF B!RootStep
<1>2. ASSUME NEW b \in B!Bucket, B!BucketStep(b) PROVE Arrivals'
  BY <1>2, APartition, ABucketSteps DEF B!BucketStep
<1> QED BY <1>1, <1>2, AOthers DEF B!Next

(* The reports are counted.                                                *)
LEMMA FinishedFacts ==
  /\ Finished \in SUBSET B!Bucket /\ IsFiniteSet(Finished)
  /\ Cardinality(Finished) \in Nat /\ Cardinality(Finished) <= K
  /\ (Cardinality(Finished) = K => Finished = B!Bucket)
<1>1. Finished \in SUBSET B!Bucket
  BY DEF Finished
<1> HIDE DEF Finished
<1>2. /\ IsFiniteSet(Finished) /\ Cardinality(Finished) <= K
      /\ (Cardinality(Finished) = K => Finished = B!Bucket)
  BY <1>1, SortFacts, FS_Subset
<1> QED BY <1>1, <1>2, FS_CardinalityType

(* The steps of the root before it has all partitions.                     *)
LEMMA ReportsEarly ==
  ASSUME root'.pc \notin {"setSub", "recvDone", "signal", "ended"}
  PROVE  Reports'
BY DEF Reports

(* The root takes a message.                                               *)
LEMMA RpRootReceive ==
  ASSUME SortInv, Reports, B!RootReceive
  PROVE  Reports'
<1> DEFINE n == Len(box[0])
           f == Cardinality(Finished)
<1>1. /\ UNCHANGED bucket /\ n \in Nat /\ n >= 1 /\ Len(box'[0]) = n - 1
  BY RootTakes
<1>2. Finished' = Finished /\ Cardinality(Finished') = f
  BY <1>1 DEF Finished
<1>3. /\ f \in Nat /\ f <= K /\ (f = K => Finished = B!Bucket)
  BY FinishedFacts
<1>4. root.ki \in 1 .. K /\ K \in Nat /\ K >= 1
  BY SortFacts DEF SortInv, SortTypes
<1>5. CASE root.pc \in {"recvK", "recvData"}
  BY <1>5, RootTakes, ReportsEarly
<1>6. CASE root.pc = "recvSub"
  <2>1. \/ root.ki = K /\ root'.pc = "setSub"
        \/ root'.pc = "recvSub"
    BY <1>6, RootTakes
  <2>2. CASE root.ki = K /\ root'.pc = "setSub"
    <3>1. /\ Reported \in SUBSET B!Bucket
          /\ n + (K - 1) = Cardinality(Reported)
      BY <1>6, <2>2 DEF SortInv, RootMail, Early, Reported
    <3>2. Cardinality(Reported) <= K /\ Cardinality(Reported) \in Nat
      <4> HIDE DEF Reported
      <4> QED BY <3>1, SortFacts, FS_Subset, FS_CardinalityType
    <3>3. n = 1
      <4> HIDE DEF n
      <4> QED BY <1>1, <1>4, <3>1, <3>2
    <3>4. Finished = {}
      <4>1. ASSUME NEW b \in B!Bucket PROVE b \notin Finished
        <5>1. SentTo(root.pc, root.ki, b) = 4
          BY <1>6 DEF SentTo, Stage, Loop
        <5>2. bucket[b].got <= 4 /\ bucket[b].got \in 0 .. 5
          BY <5>1, SentFacts
        <5> QED BY <5>2 DEF SortInv, SortTypes, Finished
      <4> QED BY <4>1 DEF Finished
    <3>5. f = 0
      BY <3>4, FS_EmptySet
    <3>6. Len(box'[0]) + 0 = Cardinality(Finished')
      BY <1>1, <1>2, <3>3, <3>5
    <3> HIDE DEF n, f
    <3> QED BY <2>2, <3>6 DEF Reports
  <2>3. CASE root'.pc = "recvSub"
    BY <2>3, ReportsEarly
  <2> QED BY <2>1, <2>2, <2>3
<1>7. CASE root.pc = "recvDone"
  <2>1. n + (root.ki - 1) = f
    BY <1>7 DEF Reports
  <2>2. \/ root.ki = K /\ root'.pc = "signal"
        \/ root'.pc = "recvDone" /\ root'.ki = root.ki + 1
    BY <1>7, RootTakes
  <2> HIDE DEF n, f
  <2>3. CASE root.ki = K /\ root'.pc = "signal"
    <3>1. f = K
      BY <1>1, <1>3, <1>4, <2>1, <2>3
    <3> QED BY <1>2, <1>3, <2>3, <3>1 DEF Reports
  <2>4. CASE root'.pc = "recvDone" /\ root'.ki = root.ki + 1
    <3>1. Len(box'[0]) + (root'.ki - 1) = Cardinality(Finished')
      BY <1>1, <1>2, <1>4, <2>1, <2>4
    <3> QED BY <2>4, <3>1 DEF Reports
  <2> QED BY <2>2, <2>3, <2>4
<1> QED BY <1>5, <1>6, <1>7 DEF B!RootReceive

(* A bucket reports that it has sorted its values.                         *)
LEMMA RpFinalSort ==
  ASSUME SortInv, Reports, NEW b \in B!Bucket, B!FinalSort(b)
  PROVE  Reports'
<1> DEFINE n == Len(box[0])
           f == Cardinality(Finished)
<1>1. /\ bucket[b].pc = "sort" /\ UNCHANGED root
      /\ bucket' = [bucket EXCEPT ![b].pc = "return"]
  BY DEF B!FinalSort
<1>2. \A c \in B!Bucket :
        bucket'[c].pc = IF c = b THEN "return" ELSE bucket[c].pc
  BY <1>1 DEF SortInv, SortTypes
<1>3. b \notin Finished /\ Finished' = Finished \cup {b}
  BY <1>1, <1>2 DEF Finished
<1>4. Cardinality(Finished') = f + 1 /\ f \in Nat
  <2> HIDE DEF Finished
  <2> QED BY <1>3, FinishedFacts, FS_AddElement
<1>5. PICK m : B!Put(0, m)
  BY SortFacts DEF B!FinalSort
<1>6. Len(box'[0]) = n + 1 /\ n \in Nat
  <2>1. 0 \in B!Task
    BY SortFacts
  <2> QED BY <1>5, <2>1, PutFacts DEF SortInv
<1>7. root.pc \notin {"signal", "ended"}
  BY <1>3 DEF Reports
<1>8. ASSUME root.pc \in {"setSub", "recvDone"}
      PROVE  Len(box'[0]) + (IF root.pc = "recvDone" THEN root.ki - 1 ELSE 0)
               = Cardinality(Finished')
  <2> DEFINE x == IF root.pc = "recvDone" THEN root.ki - 1 ELSE 0
  <2>1. x \in Int
    BY DEF SortInv, SortTypes
  <2>2. n + x = f
    BY <1>8 DEF Reports
  <2> HIDE DEF x, n, f
  <2>3. Len(box'[0]) + x = Cardinality(Finished')
    BY <1>4, <1>6, <2>1, <2>2
  <2> QED BY <2>3 DEF x
<1> HIDE DEF n, f
<1> QED BY <1>1, <1>7, <1>8 DEF Reports

(* The other steps of a bucket.                                            *)
LEMMA RpBucketSteps ==
  ASSUME SortInv, SortData, Reports, NEW b \in B!Bucket,
         B!BucketReceive(b) \/ B!Partition(b) \/ B!BucketEnd(b)
  PROVE  Reports'
<1>1. CASE B!BucketReceive(b)
  <2>1. DOMAIN final = B!Bucket /\ 0 \in B!Task /\ 0 # b
    BY SortFacts DEF SortData
  <2>2. /\ UNCHANGED root /\ box'[0] = box[0]
        /\ bucket[b].pc = "receive"
        /\ \A c \in B!Bucket : c # b => bucket'[c] = bucket[c]
        /\ bucket'[b].pc \in {"receive", "partition", "sort"}
    BY <1>1, <2>1, BucketTakes
  <2>3. \A c \in B!Bucket : bucket'[c].pc \in {"return", "ended"}
                              <=> bucket[c].pc \in {"return", "ended"}
    BY <2>2
  <2>4. Finished' = Finished
    BY <2>3 DEF Finished
  <2> QED BY <2>2, <2>4 DEF Reports
<1>2. CASE B!Partition(b)
  <2>1. bucket[b].pc = "partition" /\ UNCHANGED root
    BY <1>2 DEF B!Partition
  <2>2. b \notin Reported
    BY <2>1 DEF Reported
  <2>3. root.pc \notin Late
    BY <2>2 DEF SortInv, RootMail
  <2> QED BY <2>1, <2>3, ReportsEarly DEF Late
<1>3. CASE B!BucketEnd(b)
  <2>1. /\ UNCHANGED <<root, box>> /\ bucket[b].pc = "return"
        /\ bucket' = [bucket EXCEPT ![b].pc = "ended"]
    BY <1>3 DEF B!BucketEnd
  <2>2. \A c \in B!Bucket :
          bucket'[c].pc = IF c = b THEN "ended" ELSE bucket[c].pc
    BY <2>1 DEF SortInv, SortTypes
  <2>3. Finished' = Finished
    BY <2>1, <2>2 DEF Finished
  <2> QED BY <2>1, <2>3 DEF Reports
<1> QED BY <1>1, <1>2, <1>3

(* The other steps of the root and of the main thread.                     *)
LEMMA RpOthers ==
  ASSUME SortInv, Reports,
         \/ B!MainStep \/ B!Sample \/ B!CreateBucket \/ B!RootSend
         \/ B!SendSetSubArray \/ B!SignalMain \/ UNCHANGED B!vars
  PROVE  Reports'
<1>1. CASE B!MainSend
  <2>1. UNCHANGED root
    BY <1>1 DEF B!MainSend
  <2> QED BY <1>1, <2>1, MainEarly, ReportsEarly
<1>2. CASE B!MainWait \/ UNCHANGED B!vars
  <2>1. UNCHANGED <<root, bucket, box>>
    BY <1>2 DEF B!MainWait, B!vars
  <2>2. Finished' = Finished
    BY <2>1 DEF Finished
  <2> QED BY <2>1, <2>2 DEF Reports
<1>3. CASE B!Sample
  <2>1. PICK x : root' = [root EXCEPT !.pc = "create", !.splitters = x]
    BY <1>3 DEF B!Sample
  <2>2. root'.pc = "create"
    BY <2>1 DEF SortInv, SortTypes
  <2> QED BY <2>2, ReportsEarly
<1>4. CASE B!CreateBucket
  <2>1. /\ root.pc = "create"
        /\ root' = IF root.ki < root.K THEN [root EXCEPT !.ki = @ + 1]
                   ELSE [root EXCEPT !.pc = "topology", !.ki = 1]
    BY <1>4 DEF B!CreateBucket
  <2>2. root'.pc \in {"create", "topology"}
    BY <2>1 DEF SortInv, SortTypes
  <2> QED BY <2>2, ReportsEarly
<1>5. CASE B!RootSend
  BY <1>5, RootSends, ReportsEarly
<1>6. CASE B!SendSetSubArray
  <2>1. /\ UNCHANGED bucket /\ root.pc = "setSub"
        /\ root'.pc \in {"setSub", "recvDone"}
        /\ root'.pc = "recvDone" => root'.ki = 1
        /\ root.ki \in B!Bucket /\ \E m : B!Put(root.ki, m)
    BY <1>6, RootReads
  <2>2. PICK m : B!Put(root.ki, m)
    BY <2>1
  <2>3. box'[0] = box[0]
    BY <2>1, <2>2, SortFacts DEF B!Put, SortInv, SortTypes
  <2>4. Finished' = Finished
    BY <2>1 DEF Finished
  <2>5. Len(box'[0]) + 0 = Cardinality(Finished')
    BY <2>1, <2>3, <2>4 DEF Reports
  <2> QED BY <2>1, <2>5 DEF Reports
<1>7. CASE B!SignalMain
  <2>1. /\ UNCHANGED <<bucket, box>> /\ root.pc = "signal"
        /\ root' = [root EXCEPT !.pc = "ended"]
    BY <1>7 DEF B!SignalMain
  <2>2. root'.pc = "ended"
    BY <2>1 DEF SortInv, SortTypes
  <2>3. Finished' = Finished
    BY <2>1 DEF Finished
  <2> QED BY <2>1, <2>2, <2>3 DEF Reports
<1> QED BY <1>1, <1>2, <1>3, <1>4, <1>5, <1>6, <1>7 DEF B!MainStep

(* The reports of the sorted buckets.                                      *)
LEMMA ReportsStep ==
  ASSUME SortInv, SortData, Reports, [B!Next]_(B!vars)
  PROVE  Reports'
<1>1. CASE B!RootStep
  BY <1>1, RpRootReceive, RpOthers DEF B!RootStep
<1>2. ASSUME NEW b \in B!Bucket, B!BucketStep(b) PROVE Reports'
  BY <1>2, RpFinalSort, RpBucketSteps DEF B!BucketStep
<1> QED BY <1>1, <1>2, RpOthers DEF B!Next

(* The values for bucket k among m values of the data, beginning at u.     *)
PartOf(u, m, sp, k) ==
  LET last == u + m - 1
      part[i \in u - 1 .. last] ==
        IF i < u THEN << >>
        ELSE IF B!Dest(data[i], sp) = k
               THEN Append(part[i - 1], data[i]) ELSE part[i - 1]
  IN  part[last]

(* What bucket b gets, part by part.                                       *)
Values(b) == [j \in 1 .. K |-> PartOf(First(arrived[j]), Size(arrived[j]),
                                      root.splitters, b)]

(* ... which it has been sent, holds, or has sorted.                       *)
ValuesOf(b) ==
  /\ \A i \in 1 .. Len(box[b]) :
       box[b][i].tag = "SET_SUB_ARRAY_MSG" => box[b][i].values = Values(b)
  /\ bucket[b].pc = "sort" => final[b] = B!FlattenSeq(Values(b))
  /\ bucket[b].pc \in {"return", "ended"} =>
       final[b] = B!Sorted(B!FlattenSeq(Values(b)))

(* Each bucket gets its own values, and loses none.                        *)
SortValues == \A b \in B!Bucket : ValuesOf(b)

(* The part is what the root reads there.                                  *)
LEMMA PartIs ==
  ASSUME SortInv, SortData, NEW b \in B!Bucket, bucket[b].got >= 3, NEW k
  PROVE  /\ B!Part(b, k) = PartOf(First(b), Size(b), root.splitters, k)
         /\ bucket[b].first = First(b) /\ bucket[b].size = Size(b)
         /\ bucket[b].splitters = root.splitters
<1>1. B!Part(b, k) = PartOf(bucket[b].first, bucket[b].size,
                            bucket[b].splitters, k)
  BY DEF B!Part, PartOf
<1>2. bucket[b].got >= 2
  BY DEF SortInv, SortTypes
<1>3. /\ bucket[b].splitters = root.splitters
      /\ bucket[b].first = First(b) /\ bucket[b].size = Size(b)
  BY <1>2 DEF SortData, BucketsKnow, Knows
<1> QED BY Zenon, <1>1, <1>3

(* Nothing of round 3 has happened before it.                              *)
LEMMA NotYet ==
  ASSUME SortInv, NEW b \in B!Bucket, root.pc \notin Late
  PROVE  /\ \A i \in 1 .. Len(box[b]) : box[b][i].tag # "SET_SUB_ARRAY_MSG"
         /\ bucket[b].pc \notin {"sort", "return", "ended"}
<1> DEFINE g == bucket[b].got
           n == SentTo(root.pc, root.ki, b)
<1>1. n <= 4
  BY DEF SentTo, Stage, Loop, Late
<1>2. /\ n \in 0 .. 5 /\ g \in 0 .. 5 /\ g <= n /\ Len(box[b]) = n - g
      /\ \A i \in 1 .. Len(box[b]) : box[b][i].tag = Tag(g + i)
  BY SentFacts DEF SortInv, BucketMail
<1>3. g # 5
  <2> HIDE DEF g, n
  <2> QED BY <1>1, <1>2
<1>4. bucket[b].pc \notin {"sort", "return", "ended"}
  BY <1>3 DEF SortInv, SortTypes
<1>5. ASSUME NEW i \in 1 .. Len(box[b])
      PROVE  box[b][i].tag # "SET_SUB_ARRAY_MSG"
  <2> HIDE DEF g, n
  <2>1. g + i \in 1 .. 4
    BY <1>1, <1>2
  <2>2. box[b][i].tag = Tag(g + i)
    BY <1>2
  <2> QED BY <2>1, <2>2 DEF Tag
<1> QED BY <1>4, <1>5

(* The values of a bucket depend on the data, the splitters and the order  *)
(* of arrival.                                                             *)
LEMMA SameValues ==
  ASSUME UNCHANGED <<data, arrived>>, root'.splitters = root.splitters,
         NEW b
  PROVE  Values(b)' = Values(b)
<1>1. \A c : First(c)' = First(c) /\ Size(c)' = Size(c)
  BY DEF First, Size
<1>2. \A u, m, sp, k : PartOf(u, m, sp, k)' = PartOf(u, m, sp, k)
  BY DEF PartOf, B!Dest
<1> QED BY <1>1, <1>2 DEF Values

(* A step in which a bucket neither gets nor takes anything.               *)
LEMMA StillValues ==
  ASSUME SortInv, NEW b \in B!Bucket, ValuesOf(b), box'[b] = box[b],
         final'[b] = final[b],
         \/ bucket'[b].pc = bucket[b].pc
         \/ bucket'[b].pc \notin {"sort", "return", "ended"}
         \/ bucket[b].pc = "return" /\ bucket'[b].pc = "ended",
         \/ root.pc \notin Late
         \/ UNCHANGED <<data, arrived>> /\ root'.splitters = root.splitters
  PROVE  ValuesOf(b)'
<1>1. CASE root.pc \notin Late
  BY <1>1, NotYet DEF ValuesOf
<1>2. CASE UNCHANGED <<data, arrived>> /\ root'.splitters = root.splitters
  <2>1. Values(b)' = Values(b)
    BY <1>2, SameValues
  <2> QED BY <2>1 DEF ValuesOf
<1> QED BY <1>1, <1>2

(* No bucket has values at the beginning.                                  *)
LEMMA ValuesInit == B!Init => SortValues
<1> SUFFICES ASSUME B!Init, NEW b \in B!Bucket PROVE ValuesOf(b)
  BY DEF SortValues
<1>1. Len(box[b]) = 0 /\ bucket[b].pc = "none"
  BY NoMessage, SortFacts DEF B!Init
<1> QED BY <1>1 DEF ValuesOf

(* The root tells a bucket something in rounds 1 and 2.                    *)
LEMMA VRootSend ==
  ASSUME SortInv, SortValues, B!RootSend
  PROVE  SortValues'
<1>0. PICK b \in B!Bucket : b = root.ki
  BY RootSends, RootReads
<1>1. /\ UNCHANGED <<data, main, bucket, arrived, final>>
      /\ root.pc \notin Late /\ b \in B!Bucket
  BY <1>0, RootSends DEF Late
<1>2. PICK m : B!Put(b, m) /\ m.tag # "SET_SUB_ARRAY_MSG"
  BY <1>0, RootSends
<1>3. /\ \A u \in B!Task : u # b => box'[u] = box[u]
      /\ Len(box[b]) \in Nat /\ Len(box'[b]) = Len(box[b]) + 1
      /\ \A i \in 1 .. Len(box[b]) : box'[b][i] = box[b][i]
      /\ box'[b][Len(box[b]) + 1] = m
  <2>1. b \in B!Task
    BY <1>1, SortFacts
  <2> QED BY <1>2, <2>1, PutFacts DEF SortInv
<1>4. \A i \in 1 .. Len(box'[b]) : box'[b][i].tag # "SET_SUB_ARRAY_MSG"
  <2>1. \A i \in 1 .. Len(box'[b]) :
          i \in 1 .. Len(box[b]) \/ i = Len(box[b]) + 1
    BY <1>3
  <2>2. \A i \in 1 .. Len(box[b]) : box[b][i].tag # "SET_SUB_ARRAY_MSG"
    BY <1>1, NotYet
  <2> QED BY <1>2, <1>3, <2>1, <2>2
<1>5. ValuesOf(b)'
  <2>1. bucket[b].pc \notin {"sort", "return", "ended"}
    BY <1>1, NotYet
  <2> QED BY <1>1, <1>4, <2>1 DEF ValuesOf
<1>6. ASSUME NEW c \in B!Bucket, c # b PROVE ValuesOf(c)'
  <2>1. box'[c] = box[c]
    BY <1>3, <1>6, SortFacts
  <2> QED BY <1>1, <2>1, StillValues DEF SortValues
<1> QED BY <1>5, <1>6 DEF SortValues

(* The root hands a bucket its parts.                                      *)
LEMMA VSetSub ==
  ASSUME SortInv, SortData, Arrivals, SortValues, B!SendSetSubArray
  PROVE  SortValues'
<1>0. PICK b \in B!Bucket : b = root.ki
  BY RootSends, RootReads
<1>1. /\ UNCHANGED <<data, main, bucket, arrived, final>>
      /\ root.pc \in Late /\ b \in B!Bucket
      /\ root'.splitters = root.splitters
  BY <1>0, RootReads DEF Late
<1>2. PICK m : /\ B!Put(b, m) /\ m.tag = "SET_SUB_ARRAY_MSG"
               /\ m.values = [j \in 1 .. K |-> B!Part(arrived[j], b)]
  BY <1>0, RootReads
<1>3. /\ \A u \in B!Task : u # b => box'[u] = box[u]
      /\ Len(box[b]) \in Nat /\ Len(box'[b]) = Len(box[b]) + 1
      /\ \A i \in 1 .. Len(box[b]) : box'[b][i] = box[b][i]
      /\ box'[b][Len(box[b]) + 1] = m
  <2>1. b \in B!Task
    BY <1>1, SortFacts
  <2> QED BY <1>2, <2>1, PutFacts DEF SortInv
<1>4. m.values = Values(b)
  <2>1. ASSUME NEW j \in 1 .. K
        PROVE  B!Part(arrived[j], b)
                 = PartOf(First(arrived[j]), Size(arrived[j]),
                          root.splitters, b)
    <3>1. Len(arrived) = K
      BY <1>1 DEF Arrivals, Came, Late
    <3>2. arrived[j] \in Reported
      BY <3>1 DEF Arrivals, Came
    <3>3. arrived[j] \in B!Bucket /\ bucket[arrived[j]].got >= 3
      BY <3>2 DEF Reported, SortInv, SortTypes
    <3> QED BY <3>3, PartIs
  <2> QED BY <1>2, <2>1 DEF Values
<1>5. Values(b)' = Values(b)
  BY <1>1, SameValues
<1>6. ValuesOf(b)'
  <2>1. ValuesOf(b)
    BY <1>1 DEF SortValues
  <2>2. \A i \in 1 .. Len(box'[b]) :
          i \in 1 .. Len(box[b]) \/ i = Len(box[b]) + 1
    BY <1>3
  <2>3. \A i \in 1 .. Len(box'[b]) :
          box'[b][i].tag = "SET_SUB_ARRAY_MSG" =>
            box'[b][i].values = Values(b)
    BY <1>2, <1>3, <1>4, <2>1, <2>2 DEF ValuesOf
  <2> QED BY <1>1, <1>5, <2>1, <2>3 DEF ValuesOf
<1>7. ASSUME NEW c \in B!Bucket, c # b PROVE ValuesOf(c)'
  <2>1. box'[c] = box[c]
    BY <1>3, <1>7, SortFacts
  <2> QED BY <1>1, <2>1, StillValues DEF SortValues
<1> QED BY <1>6, <1>7 DEF SortValues

(* The other steps of the root and of the main thread.                     *)
LEMMA VOthers ==
  ASSUME SortInv, SortValues,
         \/ B!MainStep \/ B!RootReceive \/ B!Sample \/ B!CreateBucket
         \/ B!SignalMain \/ UNCHANGED B!vars
  PROVE  SortValues'
<1>1. UNCHANGED final /\ \A b \in B!Bucket : box'[b] = box[b]
  <2>1. CASE B!MainSend
    <3>1. PICK m : B!Put(0, m)
      BY <2>1, SortFacts DEF B!MainSend
    <3>2. \A b \in B!Bucket : box'[b] = box[b]
      BY <3>1, RootMailGrows
    <3> QED BY <2>1, <3>2 DEF B!MainSend
  <2>2. CASE B!RootReceive
    BY <2>2, RootTakes
  <2>3. CASE UNCHANGED <<box, final>>
    BY <2>3
  <2> QED BY <2>1, <2>2, <2>3
          DEF B!MainStep, B!MainWait, B!Sample, B!CreateBucket,
              B!SignalMain, B!vars
<1>2. \A b \in B!Bucket : bucket'[b].pc \in {bucket[b].pc, "receive"}
  <2>1. CASE B!CreateBucket
    <3>1. bucket' = [bucket EXCEPT ![root.ki].pc = "receive"]
      BY <2>1 DEF B!CreateBucket
    <3> QED BY <3>1 DEF SortInv, SortTypes
  <2>2. CASE UNCHANGED bucket
    BY <2>2
  <2> QED BY <2>1, <2>2
          DEF B!MainStep, B!MainSend, B!MainWait, B!RootReceive, B!Sample,
              B!SignalMain, B!vars
<1>3. \/ root.pc \notin Late
      \/ UNCHANGED <<data, arrived>> /\ root'.splitters = root.splitters
  <2>1. CASE B!MainStep \/ UNCHANGED B!vars
    BY <2>1 DEF B!MainStep, B!MainSend, B!MainWait, B!vars
  <2>2. CASE B!RootReceive
    <3>1. root.pc = "recvSub" \/ UNCHANGED <<data, arrived>>
      BY <2>2, RootTakes
    <3>2. root'.splitters = root.splitters
      BY <2>2, RootTakes
    <3> QED BY <3>1, <3>2 DEF Late
  <2>3. CASE B!Sample \/ B!CreateBucket
    BY <2>3 DEF B!Sample, B!CreateBucket, Late
  <2>4. CASE B!SignalMain
    <3>1. /\ UNCHANGED <<data, arrived>>
          /\ root' = [root EXCEPT !.pc = "ended"]
      BY <2>4 DEF B!SignalMain
    <3> QED BY <3>1 DEF SortInv, SortTypes
  <2> QED BY <2>1, <2>2, <2>3, <2>4
<1> SUFFICES ASSUME NEW b \in B!Bucket PROVE ValuesOf(b)'
  BY DEF SortValues
<1>4. ValuesOf(b)
  BY DEF SortValues
<1>5. bucket'[b].pc \in {bucket[b].pc, "receive"} /\ box'[b] = box[b]
      /\ final'[b] = final[b]
  BY <1>1, <1>2
<1> QED BY <1>3, <1>4, <1>5, StillValues

(* A bucket takes its values.                                              *)
LEMMA VBucketReceive ==
  ASSUME SortInv, SortData, SortValues, NEW b \in B!Bucket,
         B!BucketReceive(b)
  PROVE  SortValues'
<1>1. DOMAIN final = B!Bucket
  BY DEF SortData
<1>2. /\ UNCHANGED <<data, main, root, arrived>>
      /\ bucket[b].pc = "receive" /\ bucket[b].got \in 0 .. 4
      /\ \A u \in B!Task : u # b => box'[u] = box[u]
      /\ Len(box[b]) \in Nat /\ Len(box[b]) >= 1
      /\ Len(box'[b]) = Len(box[b]) - 1
      /\ \A i \in 1 .. Len(box[b]) - 1 : box'[b][i] = box[b][i + 1]
      /\ \A c \in B!Bucket : c # b =>
           bucket'[c] = bucket[c] /\ final'[c] = final[c]
      /\ bucket[b].got = 4 => bucket'[b].pc = "sort"
      /\ bucket[b].got = 3 => bucket'[b].pc = "partition"
      /\ bucket[b].got \notin {3, 4} => bucket'[b].pc = "receive"
      /\ box[b][1].tag = Tag(bucket[b].got + 1)
      /\ bucket[b].got = 4 => final'[b] = B!FlattenSeq(box[b][1].values)
  BY <1>1, BucketTakes
<1>3. Values(b)' = Values(b)
  BY <1>2, SameValues
<1>4. ValuesOf(b)
  BY DEF SortValues
<1>5. ValuesOf(b)'
  <2>1. \A i \in 1 .. Len(box'[b]) :
          i + 1 \in 1 .. Len(box[b]) /\ box'[b][i] = box[b][i + 1]
    BY <1>2
  <2>2. \A i \in 1 .. Len(box'[b]) :
          box'[b][i].tag = "SET_SUB_ARRAY_MSG" =>
            box'[b][i].values = Values(b)
    BY <1>4, <2>1 DEF ValuesOf
  <2>3. CASE bucket[b].got = 4
    <3>1. 1 \in 1 .. Len(box[b]) /\ box[b][1].tag = "SET_SUB_ARRAY_MSG"
      BY <1>2, <2>3 DEF Tag
    <3>2. box[b][1].values = Values(b)
      BY <1>4, <3>1 DEF ValuesOf
    <3>3. final'[b] = B!FlattenSeq(Values(b)) /\ bucket'[b].pc = "sort"
      BY <1>2, <2>3, <3>2
    <3> QED BY <1>3, <2>2, <3>3 DEF ValuesOf
  <2>4. CASE bucket[b].got # 4
    <3>1. bucket'[b].pc \in {"partition", "receive"}
      BY <1>2, <2>4
    <3> QED BY <1>3, <2>2, <3>1 DEF ValuesOf
  <2> QED BY <2>3, <2>4
<1>6. ASSUME NEW c \in B!Bucket, c # b PROVE ValuesOf(c)'
  <2>1. box'[c] = box[c] /\ ValuesOf(c)
    BY <1>2, <1>6, SortFacts DEF SortValues
  <2> QED BY <1>2, <1>6, <2>1, StillValues
<1> QED BY <1>5, <1>6 DEF SortValues

(* A bucket sends its partition, sorts its values or ends.                 *)
LEMMA VBucketSteps ==
  ASSUME SortInv, SortData, SortValues, NEW b \in B!Bucket,
         B!Partition(b) \/ B!FinalSort(b) \/ B!BucketEnd(b)
  PROVE  SortValues'
<1>1. UNCHANGED <<data, root, arrived>>
  BY DEF B!Partition, B!FinalSort, B!BucketEnd
<1>2. \A c \in B!Bucket : box'[c] = box[c]
  <2>1. CASE B!BucketEnd(b)
    BY <2>1 DEF B!BucketEnd
  <2>2. CASE B!Partition(b) \/ B!FinalSort(b)
    <3>1. PICK m : B!Put(0, m)
      BY <2>2, SortFacts DEF B!Partition, B!FinalSort
    <3> QED BY <3>1, RootMailGrows
  <2> QED BY <2>1, <2>2
<1>3. PICK p : /\ bucket' = [bucket EXCEPT ![b].pc = p]
               /\ \/ /\ p = "receive" /\ UNCHANGED final
                  \/ /\ p = "ended" /\ bucket[b].pc = "return"
                     /\ UNCHANGED final
                  \/ /\ p = "return" /\ bucket[b].pc = "sort"
                     /\ final' = [final EXCEPT ![b] = B!Sorted(@)]
  BY DEF B!Partition, B!FinalSort, B!BucketEnd
<1>4. \A c \in B!Bucket :
        bucket'[c].pc = IF c = b THEN p ELSE bucket[c].pc
  BY <1>3 DEF SortInv, SortTypes
<1>5. \A c \in B!Bucket : c # b => final'[c] = final[c]
  BY <1>3 DEF SortData
<1>6. ASSUME NEW c \in B!Bucket, c # b PROVE ValuesOf(c)'
  BY <1>1, <1>2, <1>4, <1>5, <1>6, StillValues DEF SortValues
<1>7. ValuesOf(b) /\ Values(b)' = Values(b)
  BY <1>1, SameValues DEF SortValues
<1>8. ValuesOf(b)'
  <2>1. CASE p = "return"
    <3>1. /\ bucket'[b].pc = "return" /\ bucket[b].pc = "sort"
          /\ final'[b] = B!Sorted(final[b])
      BY <1>3, <1>4, <2>1 DEF SortData
    <3> QED BY <1>2, <1>7, <3>1 DEF ValuesOf
  <2>2. CASE p # "return"
    BY <1>1, <1>2, <1>3, <1>4, <1>7, <2>2, StillValues
  <2> QED BY <2>1, <2>2
<1> QED BY <1>6, <1>8 DEF SortValues

(* What each bucket gets and makes of it.                                  *)
LEMMA ValuesStep ==
  ASSUME SortInv, SortData, Arrivals, SortValues, [B!Next]_(B!vars)
  PROVE  SortValues'
<1>1. CASE B!RootStep
  BY <1>1, VRootSend, VSetSub, VOthers DEF B!RootStep
<1>2. ASSUME NEW b \in B!Bucket, B!BucketStep(b) PROVE SortValues'
  BY <1>2, VBucketReceive, VBucketSteps DEF B!BucketStep
<1> QED BY <1>1, <1>2, VOthers DEF B!Next

(* The place of the last value of a bucket's slice.                        *)
End(c) == First(c) + Size(c) - 1

(* Every value of the data is in the slice of one bucket.                  *)
LEMMA SliceFacts ==
  ASSUME data \in Seq(Int)
  PROVE  /\ \A c \in B!Bucket :
              /\ First(c) \in Nat /\ First(c) >= 1 /\ Size(c) \in Nat
              /\ End(c) \in Int /\ End(c) <= Len(data)
         /\ \A c, d \in B!Bucket : c < d => End(c) < First(d)
         /\ \A j \in 1 .. Len(data) :
              \E c \in B!Bucket : First(c) <= j /\ j <= End(c)
<1> DEFINE l == Len(data)
           n == l \div K
<1>1. l \in Nat /\ K \in Nat /\ K >= 1 /\ B!Bucket = 1 .. K
  BY SortFacts, LenProperties
<1> HIDE DEF l
<1>2. /\ n \in Nat
      /\ \A c \in 1 .. K : (c - 1) * n \in Nat /\ (c - 1) * n + n <= l
      /\ \A c, d \in 1 .. K : c < d => c * n <= (d - 1) * n
  BY <1>1, Slices
<1> HIDE DEF n
<1>3. ASSUME NEW c \in 1 .. K
      PROVE  (c - 1) * n + n = c * n /\ c * n \in Nat
  <2>0. n \in Nat
    BY <1>2
  <2> DEFINE e == c - 1
  <2>1. e \in Nat /\ c = e + 1
    BY <1>1
  <2> HIDE DEF e
  <2>2. (e + 1) * n = e * n + 1 * n /\ 1 * n = n /\ e * n \in Nat
    <3>1. \A y \in Nat : (e + y) * n = e * n + y * n /\ 1 * n = n
      BY Zenon, <2>0, <2>1, Distributes
    <3>2. (e + 1) * n = e * n + 1 * n /\ 1 * n = n
      <4>1. 1 \in Nat
        OBVIOUS
      <4> QED BY Zenon, <3>1, <4>1
    <3>3. e * n \in Nat
      BY Zenon, <2>0, <2>1, Distributes
    <3> QED BY Zenon, <3>2, <3>3
  <2>3. c * n = e * n + n
    BY Zenon, <2>1, <2>2
  <2>4. c * n \in Nat
    BY <1>2, <2>2, <2>3
  <2> QED BY Zenon, <2>3, <2>4 DEF e
<1>4. \A c : /\ First(c) = (c - 1) * n + 1
             /\ Size(c) = IF c < K THEN n ELSE l - (c - 1) * n
  BY DEF First, Size, n, l
<1>5. ASSUME NEW c \in 1 .. K
      PROVE  /\ First(c) \in Nat /\ First(c) >= 1 /\ Size(c) \in Nat
             /\ End(c) \in Int /\ End(c) <= l
             /\ (c < K => End(c) = c * n) /\ (c = K => End(c) = l)
  <2> DEFINE x == (c - 1) * n
  <2>1. x \in Nat /\ x + n <= l /\ x + n = c * n
    BY <1>2, <1>3
  <2>2. First(c) = x + 1 /\ Size(c) = IF c < K THEN n ELSE l - x
    BY <1>4
  <2> HIDE DEF x
  <2> QED BY <1>1, <1>2, <2>1, <2>2 DEF End
<1>6. ASSUME NEW c \in 1 .. K, NEW d \in 1 .. K, c < d
      PROVE  End(c) < First(d)
  <2> DEFINE x == c * n
             y == (d - 1) * n
  <2>1. x <= y /\ x \in Nat /\ y \in Nat /\ c < K
    BY <1>1, <1>2, <1>3, <1>6
  <2>2. End(c) = x /\ First(d) = y + 1
    BY <1>4, <1>5, <2>1
  <2> HIDE DEF x, y
  <2> QED BY <2>1, <2>2
<1>7. ASSUME NEW j \in 1 .. l
      PROVE  \E c \in 1 .. K : First(c) <= j /\ j <= End(c)
  <2> DEFINE Fits == {c \in 1 .. K : j <= c * n \/ c = K}
  <2>1. Fits \in SUBSET Nat /\ K \in Fits
    BY <1>1
  <2>2. PICK c \in Fits : \A d \in Fits : c <= d
    <3> HIDE DEF Fits
    <3> QED BY <2>1, Smallest
  <2>3. c \in 1 .. K /\ (c < K => j <= c * n)
    BY <1>1, <2>2
  <2>4. j <= End(c)
    BY <1>1, <1>5, <2>3
  <2>5. First(c) <= j
    <3> DEFINE e == c - 1
    <3>1. First(c) = e * n + 1
      BY <1>4
    <3>2. CASE e = 0
      <4>1. 0 * n = 0
        BY <1>2, Z3
      <4>2. First(c) = 0 + 1
        BY Zenon, <3>1, <3>2, <4>1
      <4> QED BY <4>2
    <3>3. CASE e # 0
      <4>1. e \in 1 .. K /\ e < c /\ ~(c <= e)
        BY <1>1, <2>3, <3>3
      <4>2. e \notin Fits
        <5> HIDE DEF Fits, e
        <5> QED BY <2>2, <4>1
      <4> HIDE DEF e
      <4>3. ~(j <= e * n) /\ e * n \in Nat
        BY <1>3, <4>1, <4>2
      <4> DEFINE z == e * n
      <4>4. ~(j <= z) /\ z \in Nat /\ First(c) = z + 1
        BY <3>1, <4>3
      <4> HIDE DEF z
      <4> QED BY <4>4
    <3> QED BY <3>2, <3>3
  <2> QED BY <2>3, <2>4, <2>5
<1> QED BY <1>1, <1>5, <1>6, <1>7 DEF l

(* Ordered sequences, one not above the next, are ordered together.        *)
LEMMA ConcatOrdered ==
  ASSUME NEW s \in Seq(Int), NEW t \in Seq(Int), Ordered(s), Ordered(t),
         \A i \in 1 .. Len(s) : \A j \in 1 .. Len(t) : s[i] <= t[j]
  PROVE  Ordered(s \o t)
<1>1. /\ Len(s) \in Nat /\ Len(t) \in Nat /\ Len(s \o t) = Len(s) + Len(t)
      /\ \A i \in 1 .. Len(s) + Len(t) :
           (s \o t)[i] = IF i <= Len(s) THEN s[i] ELSE t[i - Len(s)]
  BY ConcatProperties, LenProperties
<1> DEFINE u == s \o t
           n == Len(s)
           m == Len(t)
<1> SUFFICES ASSUME NEW i \in 1 .. n + m, NEW j \in 1 .. n + m, i < j
             PROVE  u[i] <= u[j]
  BY <1>1 DEF Ordered
<1>2. CASE j <= n
  <2>1. i \in 1 .. n /\ j \in 1 .. n /\ i <= n
    BY <1>1, <1>2
  <2>2. s[i] <= s[j]
    BY <2>1 DEF Ordered
  <2> QED BY <1>1, <1>2, <2>1, <2>2
<1>3. CASE i <= n /\ ~(j <= n)
  <2>1. i \in 1 .. n /\ j - n \in 1 .. m
    BY <1>1, <1>3
  <2> QED BY <1>1, <1>3, <2>1
<1>4. CASE ~(i <= n)
  <2>1. i - n \in 1 .. m /\ j - n \in 1 .. m /\ i - n < j - n /\ ~(j <= n)
    BY <1>1, <1>4
  <2>2. t[i - n] <= t[j - n]
    BY <2>1 DEF Ordered
  <2> QED BY <1>1, <1>4, <2>1, <2>2
<1> QED BY <1>1, <1>2, <1>3, <1>4

(* The same for any number of sequences.                                   *)
LEMMA FlatOrdered ==
  ASSUME NEW n \in Nat, n >= 1, NEW c \in [1 .. n -> Seq(Int)],
         \A i \in 1 .. n : Ordered(c[i]),
         \A i, j \in 1 .. n : i < j =>
           \A x \in 1 .. Len(c[i]) : \A y \in 1 .. Len(c[j]) :
             c[i][x] <= c[j][y]
  PROVE  Ordered(B!FlattenSeq(c))
<1>0. PICK g : Joined(g, c, n) /\ B!FlattenSeq(c) = g[n]
  BY FlatSteps
<1>1. /\ g \in [0 .. n -> Seq(Int)] /\ g[0] = << >>
      /\ \A i \in 1 .. n : g[i] = g[i - 1] \o c[i]
      /\ B!FlattenSeq(c) = g[n]
  BY <1>0 DEF Joined
<1> DEFINE From(i, v) == \E k \in 1 .. i : \E y \in 1 .. Len(c[k]) : v = c[k][y]
           Q == {i \in 0 .. n : /\ Ordered(g[i])
                                /\ \A x \in 1 .. Len(g[i]) : From(i, g[i][x])}
<1>2. 0 \in Q
  <2>1. Len(g[0]) = 0 /\ 0 \in 0 .. n
    BY <1>1, NoMessage
  <2>2. Ordered(g[0])
    BY <2>1 DEF Ordered
  <2> HIDE DEF From
  <2> QED BY <2>1, <2>2
<1>3. ASSUME NEW i \in 1 .. n, i - 1 \in Q PROVE i \in Q
  <2> DEFINE s == g[i - 1]
             t == c[i]
  <2>1. /\ s \in Seq(Int) /\ t \in Seq(Int) /\ Ordered(s) /\ Ordered(t)
        /\ g[i] = s \o t /\ \A x \in 1 .. Len(s) : From(i - 1, s[x])
        /\ i \in 0 .. n
    <3>1. /\ i \in 0 .. n /\ i - 1 \in 0 .. n /\ c[i] \in Seq(Int)
          /\ Ordered(c[i])
      OBVIOUS
    <3>2. g[i - 1] \in Seq(Int)
      BY <1>1, <3>1
    <3>3. g[i] = s \o t
      BY <1>1
    <3>4. /\ Ordered(g[i - 1])
          /\ \A x \in 1 .. Len(g[i - 1]) : From(i - 1, g[i - 1][x])
      <4> HIDE DEF From
      <4> QED BY <1>3
    <3> HIDE DEF From
    <3> QED BY <3>1, <3>2, <3>3, <3>4
  <2>2. ASSUME NEW x \in 1 .. Len(s), NEW y \in 1 .. Len(t)
        PROVE  s[x] <= t[y]
    <3>1. PICK k \in 1 .. i - 1 : \E z \in 1 .. Len(c[k]) : s[x] = c[k][z]
      BY <2>1
    <3>2. k \in 1 .. n /\ k < i
      OBVIOUS
    <3> QED BY <3>1, <3>2
  <2> HIDE DEF s, t
  <2>3. Ordered(g[i])
    BY <2>1, <2>2, ConcatOrdered
  <2>4. ASSUME NEW x \in 1 .. Len(g[i]) PROVE From(i, g[i][x])
    <3>1. /\ Len(s) \in Nat /\ Len(t) \in Nat /\ Len(g[i]) = Len(s) + Len(t)
          /\ g[i][x] = IF x <= Len(s) THEN s[x] ELSE t[x - Len(s)]
      BY <2>1, <2>4, ConcatProperties, LenProperties
    <3>2. CASE x <= Len(s)
      <4>1. x \in 1 .. Len(s)
        BY <3>1, <3>2
      <4>2. PICK k \in 1 .. i - 1 : \E z \in 1 .. Len(c[k]) : s[x] = c[k][z]
        BY <2>1, <4>1
      <4>3. k \in 1 .. i
        OBVIOUS
      <4> QED BY <3>1, <3>2, <4>2, <4>3
    <3>3. CASE ~(x <= Len(s))
      <4>1. x - Len(s) \in 1 .. Len(t) /\ i \in 1 .. i
        BY <3>1, <3>3
      <4>2. g[i][x] = c[i][x - Len(s)] /\ x - Len(s) \in 1 .. Len(c[i])
        BY <3>1, <3>3, <4>1 DEF t
      <4> QED BY <4>1, <4>2
    <3> QED BY <3>2, <3>3
  <2> HIDE DEF From
  <2> QED BY <2>1, <2>3, <2>4
<1>4. \A i \in 0 .. n : i \in Q
  <2> HIDE DEF Q
  <2> QED BY <1>2, <1>3, Upwards
<1>5. n \in Q
  <2>1. n \in 0 .. n
    OBVIOUS
  <2> HIDE DEF Q
  <2> QED BY <1>4, <2>1
<1> HIDE DEF From
<1> QED BY <1>1, <1>5

(* The places of the values of V that belong to bucket b.                  *)
Mine(b, V) == {j \in 1 .. Len(data) :
                 data[j] \in V /\ B!Dest(data[j], root.splitters) = b}

(* The end of the sort: the reports have arrived.                          *)
Done == /\ SortInv /\ SortData /\ Arrivals /\ Reports /\ SortValues
        /\ root.pc \in {"signal", "ended"}

(* What is known then.                                                     *)
LEMMA DoneFacts ==
  ASSUME Done
  PROVE  /\ data \in Seq(Int) /\ root.splitters \in [1 .. K -> Int]
         /\ \A j \in 1 .. K : arrived[j] \in 1 .. K /\ bucket[arrived[j]].got = 5
         /\ \A i, j \in 1 .. K : i # j => arrived[i] # arrived[j]
         /\ \A c \in 1 .. K : \E j \in 1 .. K : arrived[j] = c
         /\ DOMAIN final = 1 .. K
         /\ \A b \in 1 .. K : final[b] = B!Sorted(B!FlattenSeq(Values(b)))
<1>1. /\ data \in Seq(Int) /\ root.splitters \in [1 .. K -> Int]
      /\ DOMAIN final = 1 .. K
  BY SortFacts DEF Done, SortData, RootKnows
<1>2. \A b \in B!Bucket : bucket[b].pc \in {"return", "ended"}
  BY DEF Done, Reports, Finished
<1>3. \A b \in B!Bucket : bucket[b].got = 5
  BY <1>2 DEF Done, SortInv, SortTypes
<1>4. \A b \in 1 .. K : final[b] = B!Sorted(B!FlattenSeq(Values(b)))
  BY <1>2, SortFacts DEF Done, SortValues, ValuesOf
<1>5. Len(arrived) = K
  BY DEF Done, Arrivals, Came, Late
<1>6. /\ \A j \in 1 .. K : arrived[j] \in B!Bucket
      /\ \A i, j \in 1 .. K : i # j => arrived[i] # arrived[j]
      /\ arrived \in Seq(B!Bucket)
  BY <1>5 DEF Done, Arrivals, Came, Reported
<1>7. arrived \in [1 .. K -> 1 .. K]
  BY <1>5, <1>6, LenProperties, SortFacts
<1>8. \A c \in 1 .. K : \E j \in 1 .. K : arrived[j] = c
  <2> DEFINE I == 1 .. K
  <2>1. arrived \in Injection(I, I)
    BY <1>6, <1>7 DEF Injection, IsInjective
  <2>2. IsFiniteSet(I) /\ Cardinality(I) = K
    BY SortFacts, FirstN
  <2>3. arrived \in Surjection(I, I)
    <3> HIDE DEF I
    <3> QED BY <2>1, <2>2, FS_Injection
  <2> QED BY <2>3 DEF Surjection
<1> QED BY <1>1, <1>3, <1>4, <1>6, <1>8, SortFacts

(* The parts of a bucket are the values that belong to it.                 *)
LEMMA BucketTally ==
  ASSUME Done, NEW b \in 1 .. K
  PROVE  /\ B!FlattenSeq(Values(b)) \in Seq(Int)
         /\ \A V : Tally(B!FlattenSeq(Values(b)), V) = Cardinality(Mine(b, V))
<1> DEFINE sp == root.splitters
           part(c) == PartOf(First(c), Size(c), sp, b)
           In(c, V) == {j \in First(c) .. End(c) :
                          data[j] \in V /\ B!Dest(data[j], sp) = b}
<1>0. K \in Nat /\ K >= 1 /\ B!Bucket = 1 .. K
  BY SortFacts
<1>1. data \in Seq(Int)
  BY DoneFacts
<1>2. /\ \A c \in B!Bucket :
           /\ First(c) \in Nat /\ First(c) >= 1 /\ Size(c) \in Nat
           /\ End(c) \in Int /\ End(c) <= Len(data)
      /\ \A c, d \in B!Bucket : c < d => End(c) < First(d)
      /\ \A j \in 1 .. Len(data) :
           \E c \in B!Bucket : First(c) <= j /\ j <= End(c)
  BY <1>1, SliceFacts
<1>3. ASSUME NEW c \in 1 .. K, bucket[c].got = 5
      PROVE  /\ part(c) \in Seq(Int)
             /\ \A V : Tally(part(c), V) = Cardinality(In(c, V))
  <2> DEFINE u == First(c)
             m == Size(c)
  <2>1. /\ B!Part(c, b) = part(c)
        /\ bucket[c].first = u /\ bucket[c].size = m
        /\ bucket[c].splitters = sp
    <3>1. c \in B!Bucket /\ bucket[c].got >= 3
      BY <1>0, <1>3
    <3> QED BY <3>1, PartIs DEF Done
  <2>2. u \in Nat /\ u >= 1 /\ m \in Nat /\ u + m - 1 <= Len(data)
    BY <1>0, <1>2 DEF End
  <2> HIDE DEF u, m
  <2>3. /\ B!Part(c, b) \in Seq(Int)
        /\ \A V : Tally(B!Part(c, b), V) =
             Cardinality({j \in u .. u + m - 1 :
                            /\ data[j] \in V
                            /\ B!Dest(data[j], bucket[c].splitters) = b})
    BY <1>1, <2>1, <2>2, PartTally
  <2>4. End(c) = u + m - 1
    BY DEF End, u, m
  <2>5. \A V : In(c, V) = {j \in u .. u + m - 1 :
                             /\ data[j] \in V
                             /\ B!Dest(data[j], bucket[c].splitters) = b}
    BY Zenon, <2>1, <2>4 DEF u
  <2> HIDE DEF part, In
  <2> QED BY Zenon, <2>1, <2>3, <2>5
<1>4. Values(b) = [j \in 1 .. K |-> part(arrived[j])]
  BY DEF Values
<1>5. /\ \A j \in 1 .. K : arrived[j] \in 1 .. K /\ bucket[arrived[j]].got = 5
      /\ \A i, j \in 1 .. K : i # j => arrived[i] # arrived[j]
      /\ \A c \in 1 .. K : \E j \in 1 .. K : arrived[j] = c
  BY DoneFacts
<1> HIDE DEF part
<1>6. Values(b) \in [1 .. K -> Seq(Int)]
  <2>1. \A j \in 1 .. K : part(arrived[j]) \in Seq(Int)
    BY <1>3, <1>5
  <2> QED BY <1>4, <2>1
<1>7. B!FlattenSeq(Values(b)) \in Seq(Int)
  BY <1>0, <1>6, FlatType
<1>8. ASSUME NEW V
      PROVE  Tally(B!FlattenSeq(Values(b)), V) = Cardinality(Mine(b, V))
  <2> DEFINE Z == [j \in 1 .. K |-> In(arrived[j], V)]
  <2>1. ASSUME NEW j \in 1 .. K
        PROVE  /\ IsFiniteSet(Z[j])
               /\ Tally(Values(b)[j], V) = Cardinality(Z[j])
    <3>1. Values(b)[j] = part(arrived[j]) /\ Z[j] = In(arrived[j], V)
      BY <1>4
    <3>2. Tally(part(arrived[j]), V) = Cardinality(In(arrived[j], V))
      <4> HIDE DEF In
      <4> QED BY <1>3, <1>5
    <3>3. IsFiniteSet(In(arrived[j], V))
      <4> DEFINE x == First(arrived[j])
                 y == End(arrived[j])
                 places == In(arrived[j], V)
      <4>1. x \in Int /\ y \in Int
        <5>1. arrived[j] \in B!Bucket
          BY <1>0, <1>5
        <5>2. \A c \in B!Bucket : First(c) \in Int /\ End(c) \in Int
          BY <1>2
        <5> QED BY <5>1, <5>2
      <4>2. places \in SUBSET (x .. y)
        OBVIOUS
      <4> HIDE DEF x, y, places
      <4>3. IsFiniteSet(places)
        BY <4>1, <4>2, FS_Interval, FS_Subset
      <4> QED BY <4>3 DEF places
    <3> HIDE DEF In, Z
    <3> QED BY <3>1, <3>2, <3>3
  <2>2. ASSUME NEW i \in 1 .. K, NEW j \in 1 .. K, i < j
        PROVE  Z[i] \cap Z[j] = {}
    <3> DEFINE c == arrived[i]
               d == arrived[j]
    <3>1. c \in 1 .. K /\ d \in 1 .. K /\ c # d
      BY <1>0, <1>5, <2>2
    <3> HIDE DEF c, d
    <3>2. End(c) < First(d) \/ End(d) < First(c)
      BY <1>0, <1>2, <3>1
    <3>3. /\ First(c) \in Int /\ End(c) \in Int
          /\ First(d) \in Int /\ End(d) \in Int
      BY <1>0, <1>2, <3>1
    <3>4. \A x : x \in In(c, V) => x \notin In(d, V)
      BY <3>2, <3>3
    <3>5. Z[i] = In(c, V) /\ Z[j] = In(d, V)
      BY DEF c, d
    <3> HIDE DEF In, Z
    <3> QED BY <3>4, <3>5
  <2>3. All(K, Z) = Mine(b, V)
    <3>1. ASSUME NEW x, NEW j \in 1 .. K, x \in Z[j] PROVE x \in Mine(b, V)
      <4> DEFINE c == arrived[j]
      <4>1. x \in In(c, V) /\ c \in B!Bucket
        BY <1>0, <1>5, <3>1
      <4> HIDE DEF c
      <4>2. First(c) >= 1 /\ First(c) \in Nat /\ End(c) \in Int
            /\ End(c) <= Len(data) /\ Len(data) \in Nat
        BY <1>1, <1>2, <4>1, LenProperties
      <4>3. x \in 1 .. Len(data)
        BY <4>1, <4>2
      <4> QED BY <4>1, <4>3 DEF Mine
    <3>2. ASSUME NEW x \in Mine(b, V) PROVE \E j \in 1 .. K : x \in Z[j]
      <4>1. x \in 1 .. Len(data)
        BY DEF Mine
      <4>2. PICK c \in B!Bucket : First(c) <= x /\ x <= End(c)
        BY <1>2, <4>1
      <4>3. First(c) \in Nat /\ End(c) \in Int
        BY <1>2
      <4>4. x \in In(c, V)
        BY <4>1, <4>2, <4>3 DEF Mine
      <4>5. PICK j \in 1 .. K : arrived[j] = c
        BY <1>0, <1>5
      <4>6. Z[j] = In(c, V)
        BY <4>5
      <4> HIDE DEF Z, In
      <4> QED BY <4>4, <4>6
    <3> HIDE DEF Z
    <3> QED BY <3>1, <3>2 DEF All
  <2> DEFINE val == Values(b)
             k == K
  <2>4. /\ k \in Nat /\ k >= 1 /\ val \in [1 .. k -> Seq(Int)]
        /\ \A j \in 1 .. k : IsFiniteSet(Z[j])
                             /\ Tally(val[j], V) = Cardinality(Z[j])
        /\ \A i, j \in 1 .. k : i < j => Z[i] \cap Z[j] = {}
    <3> HIDE DEF Z
    <3> QED BY <1>0, <1>6, <2>1, <2>2
  <2> HIDE DEF val, k, Z
  <2>5. Tally(B!FlattenSeq(val), V) = Cardinality(All(k, Z))
    <3>1. Counted(val, k, V, Z)
      BY <2>4 DEF Counted
    <3> QED BY <2>4, <3>1, FlatTally
  <2> QED BY Zenon, <2>3, <2>5 DEF val, k
<1> QED BY <1>7, <1>8

(* final_data_values is one array per bucket.                              *)
Arrays == final = [b \in DOMAIN final |-> final[b]]

(* Each bucket has an array at the start ...                               *)
LEMMA ArraysInit == B!Init => Arrays
BY DEF B!Init, Arrays

(* ... and after every step.                                               *)
LEMMA ArraysStep ==
  ASSUME Arrays, [B!Next]_(B!vars)
  PROVE  Arrays'
<1>1. CASE UNCHANGED final
  BY <1>1 DEF Arrays
<1>2. ASSUME NEW b, NEW x, final' = [final EXCEPT ![b] = x]
      PROVE  Arrays'
  BY <1>2 DEF Arrays
<1>3. ASSUME NEW b \in B!Bucket, B!BucketReceive(b) PROVE Arrays'
  <2> DEFINE x == LET m == Head(box[b])
                  IN  IF m.tag = "SET_SUB_ARRAY_MSG"
                        THEN B!FlattenSeq(m.values) ELSE final[b]
  <2>1. final' = [final EXCEPT ![b] = x]
    BY <1>3 DEF B!BucketReceive
  <2> HIDE DEF x
  <2> QED BY <1>2, <2>1
<1>4. ASSUME NEW b \in B!Bucket, B!FinalSort(b) PROVE Arrays'
  BY <1>2, <1>4 DEF B!FinalSort
<1> QED BY <1>1, <1>3, <1>4
        DEF B!Next, B!vars, B!MainStep, B!MainSend, B!MainWait, B!RootStep,
            B!RootReceive, B!Sample, B!CreateBucket, B!RootSend,
            B!SendSetSubArray, B!SignalMain, B!BucketStep, B!Partition,
            B!BucketEnd

(* What each bucket ends with: its values, in order and within its         *)
(* splitters.                                                              *)
LEMMA FinalFacts ==
  ASSUME Done, NEW b \in 1 .. K
  PROVE  /\ final[b] \in Seq(Int) /\ Ordered(final[b])
         /\ \A V : Tally(final[b], V) = Cardinality(Mine(b, V))
         /\ \A i \in 1 .. Len(final[b]) :
              /\ final[b][i] \in Int
              /\ B!Dest(final[b][i], root.splitters) = b
<1> DEFINE s == B!FlattenSeq(Values(b))
<1>1. s \in Seq(Int) /\ \A V : Tally(s, V) = Cardinality(Mine(b, V))
  BY BucketTally
<1>2. final[b] = B!Sorted(s)
  BY DoneFacts
<1> HIDE DEF s
<1>3. /\ final[b] \in Seq(Int) /\ Ordered(final[b])
      /\ \A V : Tally(final[b], V) = Tally(s, V)
  BY <1>1, <1>2, SortedFacts
<1>4. \A V : Tally(final[b], V) = Cardinality(Mine(b, V))
  BY <1>1, <1>3
<1>5. ASSUME NEW i \in 1 .. Len(final[b])
      PROVE  /\ final[b][i] \in Int
             /\ B!Dest(final[b][i], root.splitters) = b
  <2> DEFINE V == {x \in Int : B!Dest(x, root.splitters) # b}
             t == final[b]
  <2>1. Len(t) \in Nat /\ t \in [1 .. Len(t) -> Int]
    BY <1>3, LenProperties
  <2>2. Mine(b, V) = {}
    BY DEF Mine
  <2>3. Tally(t, V) = 0
    <3> HIDE DEF V, t
    <3>1. Tally(t, V) = Cardinality(Mine(b, V))
      BY <1>4 DEF t
    <3> QED BY <2>2, <3>1, FS_EmptySet
  <2>4. t[i] \notin V
    <3> HIDE DEF V
    <3>1. Len(t) \in Nat /\ i \in 1 .. Len(t)
      BY <2>1
    <3> HIDE DEF t
    <3> QED BY <2>3, <3>1, TallyNone
  <2> QED BY <2>1, <2>4
<1> QED BY <1>3, <1>4, <1>5

(* What the buckets end with, one after the other.                         *)
LEMMA OutputFacts ==
  ASSUME Done, Arrays
  PROVE  /\ final \in [1 .. K -> Seq(Int)] /\ B!FlattenSeq(final) \in Seq(Int)
         /\ Ordered(B!FlattenSeq(final))
         /\ \A V : Tally(B!FlattenSeq(final), V) = Tally(data, V)
<1> DEFINE sp == root.splitters
<1>0. /\ K \in Nat /\ K >= 1 /\ sp \in [1 .. K -> Int]
      /\ data \in Seq(Int) /\ DOMAIN final = 1 .. K
  BY DoneFacts, SortFacts
<1>1. final \in [1 .. K -> Seq(Int)]
  <2>1. final = [b \in 1 .. K |-> final[b]]
    BY <1>0 DEF Arrays
  <2> QED BY <2>1, FinalFacts
<1>2. \A b \in 1 .. K :
        /\ Ordered(final[b])
        /\ \A i \in 1 .. Len(final[b]) :
             final[b][i] \in Int /\ B!Dest(final[b][i], sp) = b
  BY FinalFacts
<1>3. B!FlattenSeq(final) \in Seq(Int)
  BY <1>0, <1>1, FlatType
<1>4. ASSUME NEW i \in 1 .. K, NEW j \in 1 .. K, i < j,
             NEW x \in 1 .. Len(final[i]), NEW y \in 1 .. Len(final[j])
      PROVE  final[i][x] <= final[j][y]
  <2> DEFINE v == final[i][x]
             w == final[j][y]
  <2>1. v \in Int /\ w \in Int /\ B!Dest(v, sp) = i /\ B!Dest(w, sp) = j
    BY <1>2
  <2>2. i # K /\ sp[i] \in Int
    BY <1>0, <1>4
  <2> HIDE DEF v, w, sp
  <2>3. v <= sp[i]
    BY <1>0, <2>1, <2>2, DestFacts
  <2>4. sp[i] < w
    BY <1>0, <1>4, <2>1, DestFacts
  <2>5. v <= w
    BY <2>1, <2>2, <2>3, <2>4
  <2> QED BY <2>5 DEF v, w
<1>5. Ordered(B!FlattenSeq(final))
  BY <1>0, <1>1, <1>2, <1>4, FlatOrdered
<1>6. ASSUME NEW V
      PROVE  Tally(B!FlattenSeq(final), V) = Tally(data, V)
  <2> DEFINE Z == [b \in 1 .. K |-> Mine(b, V)]
  <2>1. ASSUME NEW b \in 1 .. K
        PROVE  /\ IsFiniteSet(Z[b])
               /\ Tally(final[b], V) = Cardinality(Z[b])
    <3>1. IsFiniteSet(1 .. Len(data)) /\ Mine(b, V) \in SUBSET (1 .. Len(data))
      BY <1>0, LenProperties, FirstN DEF Mine
    <3>2. IsFiniteSet(Mine(b, V))
      BY <3>1, FS_Subset
    <3>3. Tally(final[b], V) = Cardinality(Mine(b, V))
      BY FinalFacts
    <3> QED BY <3>2, <3>3
  <2>2. ASSUME NEW i \in 1 .. K, NEW j \in 1 .. K, i < j
        PROVE  Z[i] \cap Z[j] = {}
    BY <1>0, <2>2 DEF Mine
  <2>3. All(K, Z) = At(data, V)
    <3>1. ASSUME NEW x \in 1 .. Len(data)
          PROVE  B!Dest(data[x], sp) \in 1 .. K
      <4>1. data[x] \in Int
        BY <1>0, LenProperties
      <4> HIDE DEF sp
      <4> QED BY <1>0, <4>1, DestFacts
    <3> QED BY <3>1 DEF All, Mine, At
  <2> HIDE DEF Z
  <2>4. Counted(final, K, V, Z)
    BY <1>1, <2>1, <2>2 DEF Counted
  <2>5. Tally(B!FlattenSeq(final), V) = Cardinality(All(K, Z))
    BY <1>0, <2>4, FlatTally
  <2> QED BY <2>3, <2>5 DEF Tally
<1> QED BY <1>1, <1>3, <1>5, <1>6

(* When the sort is reported done, what the buckets hold, one after the    *)
(* other, is the input in order, and no value exceeds its bucket's         *)
(* splitter: for any input, any number of buckets and any sample, and in   *)
(* whatever order the partitions and the reports arrive.  The stack of a   *)
(* bucket that has ended is taken to be as the bucket left it.             *)
THEOREM SortIsRight == B!Spec => []SortedOutput
<1> DEFINE Inv == SortInv /\ SortData /\ Arrivals /\ Reports /\ SortValues
                  /\ Arrays
<1>1. B!Init => Inv
  BY SortInit, DataInit, ArrivalsInit, ValuesInit, ArraysInit
<1>2. SortInv /\ Inv /\ [B!Next]_(B!vars) =>
        SortData' /\ Arrivals' /\ Reports' /\ SortValues' /\ Arrays'
  BY DataStep, ArrivalsStep, ReportsStep, ValuesStep, ArraysStep
<1>3. Inv => SortedOutput
  <2> SUFFICES ASSUME Done, Arrays PROVE B!SortedOutput
    BY DEF SortedOutput, B!SortedOutput, Done
  <2>1. /\ final \in [1 .. K -> Seq(Int)] /\ B!FlattenSeq(final) \in Seq(Int)
        /\ Ordered(B!FlattenSeq(final))
        /\ \A V : Tally(B!FlattenSeq(final), V) = Tally(data, V)
    BY OutputFacts
  <2>2. data \in Seq(Int) /\ root.splitters \in [1 .. K -> Int]
    BY DoneFacts
  <2> DEFINE s == B!FlattenSeq(final)
             t == B!Sorted(data)
  <2>3. /\ t \in Seq(Int) /\ Ordered(t)
        /\ \A V : Tally(t, V) = Tally(data, V)
    BY <2>2, SortedFacts
  <2>4. s = t
    <3>1. /\ s \in Seq(Int) /\ Ordered(s)
          /\ \A V \in SUBSET Int : Tally(s, V) = Tally(t, V)
      BY <2>1, <2>3
    <3> HIDE DEF s, t
    <3> QED BY <2>3, <3>1, OrderedIsUnique
  <2>5. ASSUME NEW b \in 1 .. K - 1, NEW i \in 1 .. Len(final[b])
        PROVE  final[b][i] <= root.splitters[b]
    <3> DEFINE v == final[b][i]
               sp == root.splitters
    <3>1. b \in 1 .. K /\ b # K /\ K \in Nat /\ K >= 1
      BY SortFacts
    <3>2. v \in Int /\ B!Dest(v, sp) = b
      BY <3>1, FinalFacts
    <3> HIDE DEF v
    <3>3. v <= sp[b]
      BY <2>2, <3>1, <3>2, DestFacts
    <3> QED BY <3>3 DEF v
  <2> QED BY <2>4, <2>5 DEF B!SortedOutput
<1>4. B!Spec => []SortInv
  BY SortInvariance
<1> QED BY <1>1, <1>2, <1>3, <1>4, PTL DEF B!Spec

=============================================================================
