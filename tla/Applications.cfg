\* A database that ends after four requests and may crash once; two stations and
\* two clients that ask for the same one, which has room for one of them;
\* a sort with three buckets.
CONSTANTS
  Client = {"c1", "c2"}
  MAX_STUDENT = 2
  nb_request = 2
  max_request = 4
  MaxCrash = 1
  Station = {"s1", "s2"}
  Listener = {"l1", "l2"}
  Name = {"city", "other"}
  NameOf <- MCNameOf
  MaxSub = 1
  Capacity = 1
  K = 3
  Inputs <- MCInputs
  SAMPLE_SIZE = 3
  LastSplitter = 5
SPECIFICATION FairSpec
INVARIANTS
  AnswersRight
  OwnAnswer
  TagsExpected
  RightStation
  NothingLost
  SortedOutput
  ExpectedTag
PROPERTIES
  RequestAnswered
  WeatherArrives
  SortEnds
CHECK_DEADLOCK FALSE
