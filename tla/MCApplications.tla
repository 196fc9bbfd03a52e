--------------------------- MODULE MCApplications ---------------------------
(***************************************************************************)
(* The programs of TaskSystem for TLC: the database, the weather stations, *)
(* Papa with his children, and the sample sort.  Each runs on a system of  *)
(* its own; a behaviour is a behaviour of the one that was started.        *)
(***************************************************************************)
EXTENDS Integers, Sequences, FiniteSets

CONSTANTS Client, MAX_STUDENT, nb_request, max_request, MaxCrash,
          Station, Listener, Name, NameOf, MaxSub, Capacity,
          K, Inputs, SAMPLE_SIZE, LastSplitter

(* Finite sets of processes; limits are numbers.                           *)
ASSUME DatabaseAssumption ==
  /\ IsFiniteSet(Client)
  /\ MAX_STUDENT \in Nat /\ nb_request \in Nat /\ MaxCrash \in Nat
  /\ max_request \in Nat \cup {-1}

(* Stations and clients are different processes, each given a name.        *)
ASSUME WeatherAssumption ==
  /\ IsFiniteSet(Station) /\ IsFiniteSet(Listener)
  /\ Station \cap Listener = {}
  /\ NameOf \in [Station \cup Listener -> Name] /\ "no name" \notin Name
  /\ MaxSub \in Nat /\ Capacity \in Nat

(* There is a bucket and a sample; inputs and splitters are integers.      *)
ASSUME SortAssumption ==
  /\ K \in Nat \ {0} /\ SAMPLE_SIZE \in Nat \ {0}
  /\ Inputs \subseteq Seq(Int) /\ LastSplitter \in Int

VARIABLES
  started,
  nextTaskID, task_name, linked, queue, db, cl, log, crashes,
  wNext, wName, wQueue, pc, taskID, station_name, subs, station_id, heard,
  spawned, sent, mail, turn, handled, dropped,
  data, main, root, bucket, arrived, box, final

D == INSTANCE Database
W == INSTANCE Weather WITH nextTaskID <- wNext, task_name <- wName,
                           queue <- wQueue
S == INSTANCE SimpleTask

B == INSTANCE SampleSort WITH
       Garbage <- 0, StackSurvives <- TRUE, subs <- arrived

database == <<nextTaskID, task_name, linked, queue, db, cl, log, crashes>>
weather == <<wNext, wName, wQueue, pc, taskID, station_name, subs, station_id,
             heard>>
simple == <<spawned, sent, mail, turn, handled, dropped>>
sort == <<data, main, root, bucket, arrived, box, final>>
vars == <<started, database, weather, simple, sort>>

Init ==
  /\ started \in {"database", "weather", "simple", "sort"}
  /\ D!Init /\ W!Init /\ S!Init /\ B!Init
  /\ cl["c1"].kind = "insert"   \* a bound: the first client inserts
  /\ started # "database" => cl["c2"].kind = "ping"
  /\ started # "sort" => data = CHOOSE d \in Inputs : TRUE

Database(step) ==
  started = "database" /\ step /\ UNCHANGED <<started, weather, simple, sort>>
Weather(step) ==
  started = "weather" /\ step /\ UNCHANGED <<started, database, simple, sort>>
Simple(step) ==
  started = "simple" /\ step /\ UNCHANGED <<started, database, weather, sort>>
Sort(step) ==
  started = "sort" /\ step /\ UNCHANGED <<started, database, weather, simple>>

Next ==
  Database(D!Next) \/ Weather(W!Next) \/ Simple(S!Next) \/ Sort(B!Next)

Spec == Init /\ [][Next]_vars

(* The fairness of the program that was started.                           *)
FairSpec ==
  /\ Spec
  /\ WF_vars(Database(D!Server))
  /\ \A c \in Client : WF_vars(Database(D!ClientStep(c)))
  /\ \A s \in Station : /\ WF_vars(Weather(W!StationStep(s)))
                         /\ WF_vars(Weather(W!Broadcast(s)))
  /\ \A l \in Listener : WF_vars(Weather(W!ListenerStep(l)))
  /\ WF_vars(Sort(B!MainStep)) /\ WF_vars(Sort(B!RootStep))
  /\ \A b \in B!Bucket : WF_vars(Sort(B!BucketStep(b)))

(* Inputs with equal values, with a value beyond the last splitter, and    *)
(* with fewer values than buckets.                                         *)
MCInputs == {<<3, 1, 3, 2>>, <<9, 1>>}

(* The clients ask for the same station.                                   *)
MCNameOf == [t \in Station \cup Listener |->
               IF t = "s2" THEN "other" ELSE "city"]

-----------------------------------------------------------------------------
(* Database.AnswersRight: handle_RequestMsg answers as a store of records. *)
AnswersRight == D!AnswersRight

(* Database.OwnAnswer: a client takes the answer to its own last request.  *)
OwnAnswer == D!OwnAnswer

(* Database.OwnQueue: two running clients have different IDs.              *)
OwnQueue == D!OwnQueue

(* Database.RequestAnswered: a request sent is answered.                   *)
RequestAnswered == D!RequestAnswered

(* Weather.TagsExpected: no task is sent a tag that would block it.        *)
TagsExpected == W!TagsExpected

(* Weather.RightStation: a client hears the station it asked for.          *)
RightStation == W!RightStation

(* Weather.WeatherArrives: a subscriber hears the weather again and again. *)
WeatherArrives == W!WeatherArrives

(* SimpleTask.NothingLost: a message sent waits, or was taken once.        *)
NothingLost == S!NothingLost

(* SampleSort.SortedOutput: the output is the sorted input.                *)
SortedOutput == B!SortedOutput

(* SampleSort.ExpectedTag: each receive meets the message it expects.      *)
ExpectedTag == started = "sort" => B!ExpectedTag

(* SampleSort.SortEnds: the sort comes to its end.                         *)
SortEnds == started = "sort" => B!SortEnds

=============================================================================
