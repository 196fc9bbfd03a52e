------------------------------- MODULE System -------------------------------
(***************************************************************************)
(* The System object of TaskSystem/src/System/System.c: the shared segment *)
(* "/TS_System" with the task ID generator and the sleepers, a table of    *)
(* queues in each process, the thread that wakes sleeping tasks, and       *)
(* destroy.  A queue is only the number of its messages here; TaskMailbox  *)
(* says what is in it.                                                     *)
(*                                                                         *)
(* One process creates the system and later destroys it, the others        *)
(* acquire it.  Every task runs the loop of message_notify and receive.    *)
(***************************************************************************)
EXTENDS Integers, FiniteSets

CONSTANTS
  Process,
  Creator,       \* the process that calls System_create and destroy
  Task,          \* the tasks that are ever created
  Home,          \* Home[t]: the process whose thread t is
  MAX_TASK,      \* length of TaskTable and of sleepers
  MaxMsg,        \* bound on the messages in one queue
  EarlyAcquire   \* may a process acquire a system that is being created?

ASSUME SystemAssumption ==
  /\ Creator \in Process
  /\ Home \in [Task -> Process]
  /\ IsFiniteSet(Task)
  /\ MAX_TASK \in Nat \ {0}
  /\ MaxMsg \in Nat \ {0}
  /\ EarlyAcquire \in BOOLEAN

VARIABLES
  linked,           \* names in /dev/shm: 0 is "/TS_System", n is "/TS_T<n>"
  nextTaskID, shutdown_signal,   \* fields of SystemData
  queue,            \* queue[n]: number of messages in the queue of ID n
  TaskTable,        \* per process, the IDs whose entry is not NULL
  up,               \* per process, has it a System?  ("no" while creating)
  place, taskID,    \* per task: its place and its ID
  loop,             \* the wait/signal thread: place, index, current_max_id
  main,             \* the creator's main thread: place, index in destroy
  early             \* history: the queues linked when destroy was called

systemVars == <<linked, nextTaskID, shutdown_signal, queue, TaskTable, up,
                place, taskID, loop, main, early>>
sharedVars == <<linked, nextTaskID, shutdown_signal, queue>>
taskVars == <<place, taskID>>

(* MAX_TASK does not bound the IDs: more tasks get larger ones, for which  *)
(* no array has room.                                                      *)
AnyID == 0 .. MAX_TASK + Cardinality(Task)

SystemInit ==
  /\ linked = {}
  /\ nextTaskID = 0
  /\ shutdown_signal = 0
  /\ queue = [n \in AnyID |-> 0]
  /\ TaskTable = [p \in Process |-> {}]
  /\ up = [p \in Process |-> FALSE]
  /\ place = [t \in Task |-> "none"]
  /\ taskID = [t \in Task |-> -1]
  /\ loop = [pc |-> "off", i |-> 0, max |-> 0]
  /\ main = [pc |-> "start", i |-> 0]
  /\ early = {}

-----------------------------------------------------------------------------
(* Create and acquire                                                      *)

(* System_create, first part: shm_open with O_CREAT and ftruncate leave a  *)
(* segment of zeros that other processes can already open.                 *)
OpenSegment ==
  /\ main.pc = "start"
  /\ linked' = linked \cup {0}
  /\ main' = [main EXCEPT !.pc = "init"]
  /\ UNCHANGED <<nextTaskID, shutdown_signal, queue, TaskTable, up, taskVars,
                 loop, early>>

(* System_create, second part: the fields are set and the wait/signal      *)
(* thread is started.                                                      *)
InitializeData ==
  /\ main.pc = "init"
  /\ nextTaskID' = 1
  /\ shutdown_signal' = 0
  /\ TaskTable' = [TaskTable EXCEPT ![Creator] = {}]
  /\ up' = [up EXCEPT ![Creator] = TRUE]
  /\ loop' = [loop EXCEPT !.pc = "while"]
  /\ main' = [main EXCEPT !.pc = "running"]
  /\ UNCHANGED <<linked, queue, taskVars, early>>

(* A variant with a slip: the process that acquires sets the fields too.   *)
System_acquireResetting(p) ==
  /\ p # Creator /\ ~up[p]
  /\ 0 \in linked
  /\ EarlyAcquire \/ main.pc # "init"
  /\ nextTaskID' = 1
  /\ up' = [up EXCEPT ![p] = TRUE]
  /\ TaskTable' = [TaskTable EXCEPT ![p] = {}]
  /\ UNCHANGED <<linked, shutdown_signal, queue, taskVars, loop, main, early>>

(* A process that finds no segment exits; it may be started again.         *)
System_acquire(p) ==
  /\ p # Creator /\ ~up[p]
  /\ 0 \in linked
  /\ EarlyAcquire \/ main.pc # "init"
  /\ up' = [up EXCEPT ![p] = TRUE]
  /\ TaskTable' = [TaskTable EXCEPT ![p] = {}]
  /\ UNCHANGED <<sharedVars, taskVars, loop, main, early>>

-----------------------------------------------------------------------------
(* Tasks                                                                   *)

(* X_create: getNextTaskID under TaskIDLock, then createMsgQ, then         *)
(* pthread_create.                                                         *)
getNextTaskID(t) ==
  /\ place[t] = "none" /\ up[Home[t]]
  /\ taskID' = [taskID EXCEPT ![t] = nextTaskID]
  /\ nextTaskID' = nextTaskID + 1
  /\ place' = [place EXCEPT ![t] = "createMsgQ"]
  /\ UNCHANGED <<linked, shutdown_signal, queue, TaskTable, up, loop, main,
                 early>>

createMsgQ(t) ==
  /\ place[t] = "createMsgQ"
  /\ linked' = linked \cup {taskID[t]}
  /\ queue' = [queue EXCEPT ![taskID[t]] = 0]
  /\ TaskTable' = [TaskTable EXCEPT ![Home[t]] = @ \cup {taskID[t]}]
  /\ place' = [place EXCEPT ![t] = "notify"]
  /\ UNCHANGED <<nextTaskID, shutdown_signal, up, taskID, loop, main, early>>

(* message_notify: the test of the queue is made outside sleepers_lock.    *)
message_immediate(t) ==
  /\ place[t] = "notify"
  /\ place' = [place EXCEPT ![t] = IF queue[taskID[t]] = 0
                                      THEN "wait" ELSE "receive"]
  /\ UNCHANGED <<sharedVars, TaskTable, up, taskID, loop, main, early>>

(* pthread_cond_wait on sleepers[taskID], without a loop around it.        *)
cond_wait(t) ==
  /\ place[t] = "wait"
  /\ place' = [place EXCEPT ![t] = "asleep"]
  /\ UNCHANGED <<sharedVars, TaskTable, up, taskID, loop, main, early>>

(* A variant with a slip: Dequeue does not look whether the queue is empty. *)
receiveUnchecked(t) ==
  /\ place[t] = "receive"
  /\ queue' = [queue EXCEPT ![taskID[t]] = @ - 1]
  /\ place' = [place EXCEPT ![t] = "notify"]
  /\ UNCHANGED <<linked, nextTaskID, shutdown_signal, TaskTable, up, taskID,
                 loop, main, early>>

(* The task's receive, which spins on getMsgTag while the queue is empty.  *)
receive(t) ==
  /\ place[t] = "receive"
  /\ queue[taskID[t]] > 0
  /\ queue' = [queue EXCEPT ![taskID[t]] = @ - 1]
  /\ place' = [place EXCEPT ![t] = "notify"]
  /\ UNCHANGED <<linked, nextTaskID, shutdown_signal, TaskTable, up, taskID,
                 loop, main, early>>

-----------------------------------------------------------------------------
(* A thread of process p sends to a task that has been created.  If p has  *)
(* not mapped the queue yet it acquires it; if the name is gone, Enqueue   *)
(* gets NULL and returns 0.                                                *)
send(p, t) ==
  LET n == taskID[t] IN
  /\ up[p]
  /\ place[t] \notin {"none", "createMsgQ"}
  /\ n \in TaskTable[p] \cup linked
  /\ TaskTable' = [TaskTable EXCEPT ![p] = @ \cup {n}]
  /\ queue[n] < MaxMsg
  /\ queue' = [queue EXCEPT ![n] = @ + 1]
  /\ UNCHANGED <<linked, nextTaskID, shutdown_signal, up, taskVars, loop, main,
                 early>>

-----------------------------------------------------------------------------
(* loop_wait_signal, in the creator's process                              *)

(* A variant with a slip: the signal to stop is not read.                  *)
LoopForever ==
  /\ loop.pc = "while"
  /\ loop' = [loop EXCEPT !.pc = "max"]
  /\ UNCHANGED <<sharedVars, TaskTable, up, taskVars, main, early>>

LoopWhile ==
  /\ loop.pc = "while"
  /\ loop' = [loop EXCEPT !.pc = IF shutdown_signal <= 0 THEN "max"
                                                         ELSE "exit"]
  /\ UNCHANGED <<sharedVars, TaskTable, up, taskVars, main, early>>

(* A variant with a slip: the task with the largest ID is left out.        *)
LoopMaxOffByOne ==
  /\ loop.pc = "max"
  /\ loop' = [pc |-> "for", i |-> 0, max |-> nextTaskID - 1]
  /\ UNCHANGED <<sharedVars, TaskTable, up, taskVars, main, early>>

LoopMax ==
  /\ loop.pc = "max"
  /\ loop' = [pc |-> "for", i |-> 0, max |-> nextTaskID]
  /\ UNCHANGED <<sharedVars, TaskTable, up, taskVars, main, early>>

(* IsEmpty(TaskTable[i]): a NULL entry is not empty.                       *)
LooksEmpty(i) == i \in TaskTable[Creator] /\ queue[i] = 0

LoopCheck ==
  /\ loop.pc = "for" /\ loop.i < loop.max
  /\ loop' = IF LooksEmpty(loop.i)
               THEN [loop EXCEPT !.i = @ + 1]
               ELSE [loop EXCEPT !.pc = "signal"]
  /\ UNCHANGED <<sharedVars, TaskTable, up, taskVars, main, early>>

(* pthread_cond_signal(&sleepers[i]): wakes a task that waits, if any.     *)
LoopSignal ==
  /\ loop.pc = "signal"
  /\ place' = [t \in Task |->
                 IF place[t] = "asleep" /\ taskID[t] = loop.i THEN "receive"
                                                              ELSE place[t]]
  /\ loop' = [loop EXCEPT !.pc = "for", !.i = @ + 1]
  /\ UNCHANGED <<sharedVars, TaskTable, up, taskID, main, early>>

(* The end of the pass and the usleep.                                     *)
LoopSleep ==
  /\ loop.pc = "for" /\ loop.i >= loop.max
  /\ loop' = [loop EXCEPT !.pc = "while"]
  /\ UNCHANGED <<sharedVars, TaskTable, up, taskVars, main, early>>

Loop == LoopWhile \/ LoopMax \/ LoopCheck \/ LoopSignal \/ LoopSleep

-----------------------------------------------------------------------------
(* destroy                                                                 *)

DestroySignal ==
  /\ main.pc = "running"
  /\ shutdown_signal' = 1
  /\ early' = linked \ {0}
  /\ main' = [main EXCEPT !.pc = "join"]
  /\ UNCHANGED <<linked, nextTaskID, queue, TaskTable, up, taskVars, loop>>

(* A variant with a slip: the names are removed from the second on.        *)
DestroyJoinOffByOne ==
  /\ main.pc = "join"
  /\ loop.pc = "exit"
  /\ main' = [pc |-> "unlink", i |-> 2]
  /\ UNCHANGED <<sharedVars, TaskTable, up, taskVars, loop, early>>

DestroyJoin ==
  /\ main.pc = "join"
  /\ loop.pc = "exit"
  /\ main' = [pc |-> "unlink", i |-> 1]
  /\ UNCHANGED <<sharedVars, TaskTable, up, taskVars, loop, early>>

DestroyUnlink ==
  /\ main.pc = "unlink" /\ main.i < nextTaskID
  /\ linked' = linked \ {main.i}
  /\ main' = [main EXCEPT !.i = @ + 1]
  /\ UNCHANGED <<nextTaskID, shutdown_signal, queue, TaskTable, up, taskVars,
                 loop, early>>

DestroyEnd ==
  /\ main.pc = "unlink" /\ main.i >= nextTaskID
  /\ linked' = linked \ {0}
  /\ main' = [main EXCEPT !.pc = "done"]
  /\ UNCHANGED <<nextTaskID, shutdown_signal, queue, TaskTable, up, taskVars,
                 loop, early>>

Destroy == DestroyJoin \/ DestroyUnlink \/ DestroyEnd

-----------------------------------------------------------------------------
TaskStep(t) == message_immediate(t) \/ cond_wait(t) \/ receive(t)

SystemNext ==
  \/ OpenSegment \/ InitializeData
  \/ \E p \in Process : System_acquire(p)
  \/ \E t \in Task : getNextTaskID(t) \/ createMsgQ(t) \/ TaskStep(t)
  \/ \E p \in Process, t \in Task : send(p, t)
  \/ Loop
  \/ DestroySignal \/ Destroy

SystemSpec == SystemInit /\ [][SystemNext]_systemVars

(* Threads that can run are scheduled.  Nobody has to create tasks, to     *)
(* send or to call destroy.                                                *)
SystemFairSpec ==
  /\ SystemSpec
  /\ WF_systemVars(Loop)
  /\ WF_systemVars(Destroy)
  /\ \A t \in Task : WF_systemVars(TaskStep(t))

-----------------------------------------------------------------------------
SystemTypeOK ==
  /\ linked \subseteq AnyID
  /\ nextTaskID \in AnyID
  /\ shutdown_signal \in {0, 1}
  /\ queue \in [AnyID -> 0 .. MaxMsg]
  /\ TaskTable \in [Process -> SUBSET AnyID]
  /\ up \in [Process -> BOOLEAN]
  /\ place \in [Task -> {"none", "createMsgQ", "notify", "wait", "asleep",
                         "receive"}]
  /\ taskID \in [Task -> AnyID \cup {-1}]
  /\ loop \in [pc : {"off", "while", "max", "for", "signal", "exit"},
               i : AnyID, max : AnyID]
  /\ main \in [pc : {"start", "init", "running", "join", "unlink", "done"},
               i : AnyID]
  /\ early \subseteq AnyID

HasID(t) == taskID[t] # -1

(* The generator gives no ID twice.                                        *)
UniqueTaskIDs ==
  \A t, u \in Task : t # u /\ HasID(t) /\ HasID(u) => taskID[t] # taskID[u]

(* When the system is destroyed, the segment of every task that had its    *)
(* queue when destroy was called is gone, whatever the other processes did *)
(* meanwhile.  (A queue created later can stay behind.)                    *)
DestroyCleans == main.pc = "done" => linked \cap (early \cup {0}) = {}

(* A message is noticed: the test and the wait are not one atomic step, so *)
(* a task can fall asleep on a queue that is not empty, but the wait/signal *)
(* thread finds it, for tasks of every process, until the shutdown.        *)
MessageNoticed ==
  \A t \in Task :
    HasID(t) /\ queue[taskID[t]] > 0
      ~> shutdown_signal = 1 \/ (HasID(t) /\ place[t] = "receive")

(* destroy comes to its end: the wait/signal thread sees the signal.       *)
DestroyEnds == main.pc = "join" ~> main.pc = "done"

=============================================================================
