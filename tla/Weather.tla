------------------------------- MODULE Weather ------------------------------
(***************************************************************************)
(* The weather example of TaskSystem: stations register a name they get    *)
(* from their main thread, clients look the name up, subscribe and receive *)
(* what the station broadcasts.  Messages are records whose tag is that of *)
(* the enum in the sources; a queue takes at most Capacity messages, and   *)
(* nobody looks whether a send was refused.                                *)
(***************************************************************************)
EXTENDS Integers, Sequences, FiniteSets

CONSTANTS
  Station, Listener,  \* processes of wt_start_test and of wt_client_test
  Name,
  NameOf,             \* the name each of them is given as an argument
  MaxSub,             \* subscriptions a station keeps, 50 in the code
  Capacity            \* bound on the messages in one queue

Task == Station \cup Listener
ID == 1 .. Cardinality(Task)
NoName == "no name"

VARIABLES
  nextTaskID, task_name,   \* task_name[n]: NoName while task_has_name is 0
  queue,
  pc, taskID,              \* per task
  station_name,            \* per task: the name its main thread sent
  subs,                    \* per station: the IDs that have subscribed
  station_id,              \* per client: what the lookup returned
  heard                    \* per client: the stations whose posts it handled

vars == <<nextTaskID, task_name, queue, pc, taskID, station_name, subs,
          station_id, heard>>
localVars == <<taskID, station_name, subs, station_id, heard>>

Init ==
  /\ nextTaskID = 1
  /\ task_name = [n \in ID |-> NoName]
  /\ queue = [n \in ID |-> << >>]
  /\ pc = [t \in Task |-> "off"]
  /\ taskID = [t \in Task |-> 0]
  /\ station_name = [t \in Task |-> NoName]
  /\ subs = [s \in Station |-> << >>]
  /\ station_id = [c \in Listener |-> 0]
  /\ heard = [c \in Listener |-> {}]

Goto(t, l) == pc' = [pc EXCEPT ![t] = l]

(* Enqueue: a message that does not fit is refused.                        *)
Put(q, n, m) == IF Len(q[n]) < Capacity THEN [q EXCEPT ![n] = Append(@, m)]
                                        ELSE q

-----------------------------------------------------------------------------
(* main of both programs: X_create, then the name is sent to the task.     *)
Create(t) ==
  /\ pc[t] = "off"
  /\ taskID' = [taskID EXCEPT ![t] = nextTaskID]
  /\ nextTaskID' = nextTaskID + 1
  /\ queue' = [queue EXCEPT ![nextTaskID] =
                 << [tag |-> "NAME", val |-> NameOf[t]] >>]
  /\ Goto(t, "name")
  /\ UNCHANGED <<task_name, station_name, subs, station_id, heard>>

(* The first receive of start.  Whatever its tag the message is handled as *)
(* receive does; a name is copied.                                         *)
ReceiveName(t) ==
  /\ pc[t] = "name" /\ queue[taskID[t]] # << >>
  /\ Head(queue[taskID[t]]).tag = "NAME"
  /\ station_name' = [station_name EXCEPT ![t] = Head(queue[taskID[t]]).val]
  /\ queue' = [queue EXCEPT ![taskID[t]] = Tail(@)]
  /\ Goto(t, IF t \in Station THEN "set_name" ELSE "get_id")
  /\ UNCHANGED <<nextTaskID, task_name, taskID, subs, station_id, heard>>

-----------------------------------------------------------------------------
(* WeatherStationTask                                                      *)

repository_set_name(s) ==
  /\ pc[s] = "set_name"
  /\ task_name' = [task_name EXCEPT ![taskID[s]] = station_name[s]]
  /\ Goto(s, "while")
  /\ UNCHANGED <<nextTaskID, queue, localVars>>

(* A variant with a slip: a subscriber too many is written after the array. *)
handle_SubMsgUnchecked(s, n) == [subs EXCEPT ![s] = Append(@, n)]

(* A client beyond MaxSub is told nothing.                                 *)
handle_SubMsg(s, n) ==
  [subs EXCEPT ![s] = IF Len(@) < MaxSub THEN Append(@, n) ELSE @]

(* One pass of the loop with a message: no task sends a station anything   *)
(* but subscriptions once it has its name.                                 *)
StationReceive(s) ==
  /\ pc[s] = "while" /\ queue[taskID[s]] # << >>
  /\ subs' = handle_SubMsg(s, Head(queue[taskID[s]]).val)
  /\ queue' = [queue EXCEPT ![taskID[s]] = Tail(@)]
  /\ UNCHANGED <<nextTaskID, task_name, pc, taskID, station_name, station_id,
                 heard>>

(* A variant with a slip: the last subscriber is left out.                 *)
BroadcastShort(s) ==
  /\ pc[s] = "while"
  /\ LET to == {subs[s][i] : i \in 1 .. Len(subs[s]) - 1}
         post == [tag |-> "POST", val |-> taskID[s]] IN
     queue' = [n \in ID |-> IF n \in to THEN Put(queue, n, post)[n]
                                        ELSE queue[n]]
  /\ UNCHANGED <<nextTaskID, task_name, pc, localVars>>

(* Every so many passes the weather goes to every subscriber.              *)
Broadcast(s) ==
  /\ pc[s] = "while"
  /\ LET to == {subs[s][i] : i \in DOMAIN subs[s]}
         post == [tag |-> "POST", val |-> taskID[s]] IN
     queue' = [n \in ID |-> IF n \in to THEN Put(queue, n, post)[n]
                                        ELSE queue[n]]
  /\ UNCHANGED <<nextTaskID, task_name, pc, localVars>>

-----------------------------------------------------------------------------
(* WeatherClientTask                                                       *)

(* A variant with a slip: the name is not compared.                        *)
repository_get_idAny(name) ==
  LET found == {n \in ID : task_name[n] # NoName} IN
  IF found = {} THEN -1 ELSE CHOOSE n \in found : \A m \in found : n <= m

repository_get_id(name) ==
  LET found == {n \in ID : task_name[n] = name} IN
  IF found = {} THEN -1 ELSE CHOOSE n \in found : \A m \in found : n <= m

Lookup(c) ==
  /\ pc[c] = "get_id"
  /\ station_id' = [station_id EXCEPT ![c] =
                      repository_get_id(station_name[c])]
  /\ Goto(c, "sub")
  /\ UNCHANGED <<nextTaskID, task_name, queue, taskID, station_name, subs,
                 heard>>

(* The subscription is sent to TaskTable[station_id]; with -1 that is      *)
(* outside the table and nothing more is said of the process.              *)
Subscribe(c) ==
  /\ pc[c] = "sub"
  /\ \/ /\ station_id[c] = -1
        /\ Goto(c, "undefined")
        /\ UNCHANGED queue
     \/ /\ station_id[c] # -1
        /\ Goto(c, "while")
        /\ queue' = Put(queue, station_id[c],
                        [tag |-> "SUB", val |-> taskID[c]])
  /\ UNCHANGED <<nextTaskID, task_name, localVars>>

handle_PostWeatherMsg(c) ==
  /\ pc[c] = "while" /\ queue[taskID[c]] # << >>
  /\ heard' = [heard EXCEPT ![c] = @ \cup {Head(queue[taskID[c]]).val}]
  /\ queue' = [queue EXCEPT ![taskID[c]] = Tail(@)]
  /\ UNCHANGED <<nextTaskID, task_name, pc, taskID, station_name, subs,
                 station_id>>

-----------------------------------------------------------------------------
StationStep(s) ==
  ReceiveName(s) \/ repository_set_name(s) \/ StationReceive(s)

ListenerStep(c) ==
  ReceiveName(c) \/ Lookup(c) \/ Subscribe(c) \/ handle_PostWeatherMsg(c)

Next ==
  \/ \E t \in Task : Create(t)
  \/ \E s \in Station : StationStep(s) \/ Broadcast(s)
  \/ \E c \in Listener : ListenerStep(c)

(* Started threads run; the loop counter makes a station broadcast again   *)
(* and again.                                                              *)
Fairness ==
  /\ \A s \in Station : WF_vars(StationStep(s)) /\ WF_vars(Broadcast(s))
  /\ \A c \in Listener : WF_vars(ListenerStep(c))

Spec == Init /\ [][Next]_vars
FairSpec == Spec /\ Fairness

-----------------------------------------------------------------------------
(* Tags that a task ignores would stay at the head of its queue for ever   *)
(* (receive of both tasks): none is ever sent to it.  The name comes       *)
(* first, and a station keeps at most MaxSub subscriptions.                *)
TagsExpected ==
  /\ \A s \in Station : Len(subs[s]) <= MaxSub
  /\ \A t \in Task :
       pc[t] # "off" =>
         \A i \in DOMAIN queue[taskID[t]] :
           (queue[taskID[t]][i].tag = "NAME") = (pc[t] = "name" /\ i = 1)
           /\ (queue[taskID[t]][i].tag = "SUB" => t \in Station)
           /\ (queue[taskID[t]][i].tag = "POST" => t \in Listener)

(* A client hears only the station it asked for: the one with the smallest *)
(* ID that had the name when it looked it up.                              *)
RightStation ==
  \A c \in Listener : heard[c] # {} =>
    heard[c] = {station_id[c]} /\ task_name[station_id[c]] = NameOf[c]

Sent(c, s) ==
  /\ pc[s] # "off" /\ pc[c] = "while"
  /\ [tag |-> "SUB", val |-> taskID[c]]
       \in {queue[taskID[s]][i] : i \in DOMAIN queue[taskID[s]]}

Full(c, s) ==
  Len(subs[s]) = MaxSub /\ taskID[c] \notin {subs[s][i] : i \in 1 .. MaxSub}

HearsFrom(c, s) ==
  handle_PostWeatherMsg(c) /\ Head(queue[taskID[c]]).val = taskID[s]

(* A client whose subscription entered the queue of a station handles the  *)
(* weather of this station again and again, for ever, unless the station   *)
(* had MaxSub subscribers before it: handle_SubMsg stores it, and no later *)
(* broadcast that finds the client's queue full is the last one.           *)
WeatherArrives ==
  \A c \in Listener :
    \A s \in Station :
      <>Sent(c, s) => <>Full(c, s) \/ []<><<HearsFrom(c, s)>>_vars

=============================================================================
