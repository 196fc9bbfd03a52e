------------------------------ MODULE Database ------------------------------
(***************************************************************************)
(* The database example of TaskSystem: DatabaseTask answers the requests   *)
(* of ClientTasks in other processes, which find it through the name       *)
(* repository of System.c.  A queue is a sequence of messages here (see    *)
(* TaskMailbox).  A record is only its id, a response its code, with the   *)
(* request it answers as a history field that no code reads.               *)
(*                                                                         *)
(* The server process may crash and be started again.  System_create and   *)
(* CreateQueue open their segments without O_EXCL, so the names left       *)
(* behind are taken over and initialised again under the clients' feet.    *)
(***************************************************************************)
EXTENDS Integers, Sequences, FiniteSets

CONSTANTS
  Client,
  MAX_STUDENT,
  nb_request,    \* requests of each client, with the ids 0, 1, 2...
  max_request,   \* requests the server answers before it ends, -1: no limit
  MaxCrash       \* bound on the crashes of the server

Kind == {"select", "insert", "delete", "ping"}
(* Every ID that can be given out. *)
ID == 1 .. Cardinality(Client) + 1

VARIABLES
  nextTaskID, task_name,  \* SystemData: task_name is the IDs named "database"
  linked,                 \* is "/TS_System" in /dev/shm?
  queue,                  \* queue[n]: the messages in "/TS_T<n>"
  db,                     \* the DatabaseTask
  cl,                     \* the ClientTasks
  log,                    \* history: requests handled, with their codes
  crashes

vars == <<nextTaskID, task_name, linked, queue, db, cl, log, crashes>>

Init ==
  /\ nextTaskID = 0 /\ task_name = {} /\ linked = FALSE
  /\ queue = [n \in ID |-> << >>]
  /\ db = [pc |-> "off", id |-> 0, count |-> 0, students |-> << >>,
           code |-> "ERROR", requester |-> 0, answers |-> << >>]
  /\ \E kind \in [Client -> Kind] :
       cl = [c \in Client |-> [pc |-> "off", id |-> 0, db |-> 0, i |-> 0,
                               kind |-> kind[c], mapped |-> FALSE,
                               got |-> << >>]]
  /\ log = << >>
  /\ crashes = 0

-----------------------------------------------------------------------------
(* The name repository                                                     *)

(* repository_get_id: the first ID with the name, -1 when there is none.   *)
repository_get_id ==
  IF task_name = {} THEN -1
  ELSE CHOOSE n \in task_name : \A m \in task_name : n <= m

-----------------------------------------------------------------------------
(* The server process                                                      *)

(* main: System_create and DatabaseTask_create.  The segments of a crashed *)
(* server are opened and initialised again, queue[1] too.                  *)
ServerStart ==
  /\ db.pc = "off"
  /\ linked' = TRUE
  /\ nextTaskID' = 2
  /\ task_name' = {}
  /\ queue' = [queue EXCEPT ![1] = << >>]
  /\ db' = [pc |-> "set_name", id |-> 1, count |-> 0, students |-> << >>,
            code |-> "ERROR", requester |-> 0, answers |-> << >>]
  /\ log' = << >>
  /\ UNCHANGED <<cl, crashes>>

repository_set_name ==
  /\ db.pc = "set_name"
  /\ task_name' = task_name \cup {db.id}
  /\ db' = [db EXCEPT !.pc = "while"]
  /\ UNCHANGED <<nextTaskID, linked, queue, cl, log, crashes>>

While ==
  /\ db.pc = "while"
  /\ db' = IF db.count < max_request \/ max_request = -1
             THEN [db EXCEPT !.pc = "receive",
                             !.count = IF max_request = -1 THEN 0 ELSE @ + 1]
             ELSE [db EXCEPT !.pc = "done"]
  /\ UNCHANGED <<nextTaskID, task_name, linked, queue, cl, log, crashes>>

(* A variant with a slip: the search starts at the last row.               *)
FoundLast(id) ==
  IF \E i \in DOMAIN db.students : db.students[i] = id
    THEN Len(db.students)
    ELSE -1

(* The loop over the rows: the first one with the id, or -1.               *)
Found(id) ==
  LET rows == {i \in DOMAIN db.students : db.students[i] = id} IN
  IF rows = {} THEN -1 ELSE CHOOSE i \in rows : \A j \in rows : i <= j

(* handle_RequestMsg: the new rows and the response code.  A deleted row   *)
(* keeps its place with the id -1; student_count is never lowered.         *)
Students(req) ==
  CASE req.kind = "insert" /\ Len(db.students) < MAX_STUDENT ->
         Append(db.students, req.id)
    [] req.kind = "delete" /\ Found(req.id) > 0 ->
         [db.students EXCEPT ![Found(req.id)] = -1]
    [] OTHER -> db.students

Code(req) ==
  CASE req.kind \in {"select", "delete"} ->
         IF Found(req.id) > 0 THEN "OK" ELSE "ERROR"
    [] req.kind = "insert" ->
         IF Len(db.students) < MAX_STUDENT THEN "OK" ELSE "ERROR"
    [] req.kind = "ping" -> "OK"

(* receive spins on getMsgTag until there is a message; no task sends the  *)
(* database anything but requests.                                         *)
Handle ==
  /\ db.pc = "receive" /\ queue[db.id] # << >>
  /\ LET req == Head(queue[db.id]) IN
     /\ queue' = [queue EXCEPT ![db.id] = Tail(@)]
     /\ db' = [db EXCEPT !.pc = "send", !.requester = req.sender,
                         !.students = Students(req), !.code = Code(req),
                         !.answers = req.from]
     /\ log' = Append(log, [kind |-> req.kind, id |-> req.id,
                            code |-> Code(req)])
  /\ UNCHANGED <<nextTaskID, task_name, linked, cl, crashes>>

(* A variant with a slip: an error is not reported.                        *)
SendResponseOkOnly ==
  /\ db.pc = "send"
  /\ queue' = [queue EXCEPT ![db.requester] =
                 IF db.code = "ERROR" THEN @
                 ELSE Append(@, [code |-> db.code, answers |-> db.answers])]
  /\ db' = [db EXCEPT !.pc = "while"]
  /\ UNCHANGED <<nextTaskID, task_name, linked, cl, log, crashes>>

SendResponse ==
  /\ db.pc = "send"
  /\ queue' = [queue EXCEPT ![db.requester] =
                 Append(@, [code |-> db.code, answers |-> db.answers])]
  /\ db' = [db EXCEPT !.pc = "while"]
  /\ UNCHANGED <<nextTaskID, task_name, linked, cl, log, crashes>>

(* main sees done and destroys the system: the names go, the memory stays  *)
(* with the processes that have mapped it.                                 *)
ServerEnd ==
  /\ db.pc = "done"
  /\ linked' = FALSE
  /\ db' = [db EXCEPT !.pc = "ended"]
  /\ UNCHANGED <<nextTaskID, task_name, queue, cl, log, crashes>>

ServerCrash ==
  /\ db.pc \notin {"off", "ended"} /\ crashes < MaxCrash
  /\ crashes' = crashes + 1
  /\ db' = [db EXCEPT !.pc = "off"]
  /\ UNCHANGED <<nextTaskID, task_name, linked, queue, cl, log>>

Server == repository_set_name \/ While \/ Handle \/ SendResponse \/ ServerEnd

-----------------------------------------------------------------------------
(* The client processes                                                    *)

Step(c, r) == cl' = [cl EXCEPT ![c] = r]

(* main: System_acquire (which exits without a segment), ClientTask_create. *)
ClientStart(c) ==
  /\ cl[c].pc = "off" /\ linked /\ nextTaskID \in ID
  /\ nextTaskID' = nextTaskID + 1
  /\ queue' = [queue EXCEPT ![nextTaskID] = << >>]
  /\ Step(c, [cl[c] EXCEPT !.pc = "get_id", !.id = nextTaskID])
  /\ UNCHANGED <<task_name, linked, db, log, crashes>>

Lookup(c) ==
  /\ cl[c].pc = "get_id"
  /\ Step(c, [cl[c] EXCEPT !.pc = "for", !.db = repository_get_id])
  /\ UNCHANGED <<nextTaskID, task_name, linked, queue, db, log, crashes>>

Request(c) ==
  [kind |-> cl[c].kind, id |-> cl[c].i, sender |-> cl[c].id,
   from |-> <<c, cl[c].i>>]

(* The first send maps the queue of the database; without its name the     *)
(* entry stays NULL and Enqueue loses the request.                         *)
SendRequest(c) ==
  /\ cl[c].pc = "for" /\ cl[c].i < nb_request /\ cl[c].db # -1
  /\ LET ok == linked \/ cl[c].mapped IN
     /\ queue' = [queue EXCEPT ![cl[c].db] =
                    IF ok THEN Append(@, Request(c)) ELSE @]
     /\ Step(c, [cl[c] EXCEPT !.pc = "receive", !.mapped = ok])
  /\ UNCHANGED <<nextTaskID, task_name, linked, db, log, crashes>>

(* The name was not found: the send reads TaskTable[-1], which is outside  *)
(* the table.  Nothing more is said of this process.                       *)
SendNowhere(c) ==
  /\ cl[c].pc = "for" /\ cl[c].i < nb_request /\ cl[c].db = -1
  /\ Step(c, [cl[c] EXCEPT !.pc = "undefined"])
  /\ UNCHANGED <<nextTaskID, task_name, linked, queue, db, log, crashes>>

(* A variant with a slip: the response is read but not taken off.         *)
ReceiveTwice(c) ==
  /\ cl[c].pc = "receive" /\ queue[cl[c].id] # << >>
  /\ Step(c, [cl[c] EXCEPT !.pc = "for", !.i = @ + 1,
                           !.got = Head(queue[cl[c].id])])
  /\ UNCHANGED <<nextTaskID, task_name, linked, queue, db, log, crashes>>

(* message_wait yields, receive spins until there is a message.            *)
ReceiveResponse(c) ==
  /\ cl[c].pc = "receive" /\ queue[cl[c].id] # << >>
  /\ queue' = [queue EXCEPT ![cl[c].id] = Tail(@)]
  /\ Step(c, [cl[c] EXCEPT !.pc = "for", !.i = @ + 1,
                           !.got = Head(queue[cl[c].id])])
  /\ UNCHANGED <<nextTaskID, task_name, linked, db, log, crashes>>

ClientDone(c) ==
  /\ cl[c].pc = "for" /\ cl[c].i >= nb_request
  /\ Step(c, [cl[c] EXCEPT !.pc = "done"])
  /\ UNCHANGED <<nextTaskID, task_name, linked, queue, db, log, crashes>>

ClientStep(c) ==
  Lookup(c) \/ SendRequest(c) \/ SendNowhere(c) \/ ReceiveResponse(c)
  \/ ClientDone(c)

-----------------------------------------------------------------------------
Next ==
  \/ ServerStart \/ Server \/ ServerCrash
  \/ \E c \in Client : ClientStart(c) \/ ClientStep(c)

Spec == Init /\ [][Next]_vars

(* The threads that have been started are scheduled.                       *)
Fairness ==
  WF_vars(Server) /\ \A c \in Client : WF_vars(ClientStep(c))

FairSpec == Spec /\ Fairness

-----------------------------------------------------------------------------
Rows(l, k, id) ==
  Cardinality({j \in DOMAIN l : l[j] = [kind |-> k, id |-> id,
                                        code |-> "OK"]})

(* What a store of records would have answered to r after the requests l:  *)
(* a record is there when it was inserted more often than deleted; a row   *)
(* once used is not used again, so that MAX_STUDENT bounds the insertions  *)
(* ever made, not the records present.                                     *)
Promised(l, r) ==
  CASE r.kind = "ping" -> TRUE
    [] r.kind = "insert" ->
         Cardinality({j \in DOMAIN l : l[j].kind = "insert"
                                       /\ l[j].code = "OK"}) < MAX_STUDENT
    [] OTHER -> Rows(l, "insert", r.id) > Rows(l, "delete", r.id)

(* Every request handled since the server was started was answered as the  *)
(* store of records promises, through insertions, deletions and a full     *)
(* table (handle_RequestMsg).                                              *)
AnswersRight ==
  \A j \in DOMAIN log :
    (log[j].code = "OK") = Promised(SubSeq(log, 1, j - 1), log[j])

(* The response a client takes answers its own last request: responses     *)
(* carry no number, the client relies on the order of messages alone, and  *)
(* that is enough until the server is restarted (start of ClientTask).     *)
OwnAnswer ==
  crashes = 0 =>
    \A c \in Client :
      cl[c].pc \in {"for", "receive", "done"} /\ cl[c].i > 0
        => cl[c].got.answers = <<c, cl[c].i - 1>>

(* Two clients that run never have the same ID, so neither takes messages  *)
(* from the other's queue.                                                 *)
OwnQueue ==
  \A c, d \in Client :
    c # d /\ cl[c].pc \notin {"off", "done"} /\ cl[d].pc \notin {"off", "done"}
      => cl[c].id # cl[d].id

(* A client that found the database and sent its request goes on to its    *)
(* next request, as long as the server neither ends nor crashes.           *)
RequestAnswered ==
  \A c \in Client :
    cl[c].pc = "receive" ~>
      cl[c].pc # "receive" \/ db.pc = "ended" \/ crashes > 0

=============================================================================
