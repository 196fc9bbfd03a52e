---------------------------- MODULE MCProtocols ----------------------------
(***************************************************************************)
(* The sockets of nanomsg for TLC: the core with two threads, and the      *)
(* protocols: request/reply in two topologies, surveys, the patterns       *)
(* without a dialogue, the subscriptions of a SUB socket, a device, and    *)
(* the memory of messages.  A behaviour is a behaviour of the one that was *)
(* started.                                                                *)
(***************************************************************************)
EXTENDS Naturals, FiniteSets

CONSTANTS
  Systems,   \* what may be started
  Thread, Main, MAX_SOCKETS, MaxSock, MaxEp, Lazy, Beside,
  SLOTS, NoPipe, Cap, MaxFault, MaxReq, MaxSurvey,
  PREFIX_MAX, SPARSE_MAX, MaxSubs

VARIABLES
  started,
  glob, sock, thr, calls,
  req, lb, up, outkey, outflag, toRep, toReq, inpipes, rep, faults,
  surveyor, sOut, sIn, sUp, toResp, toSurv, resp, responses, sFaults,
  net, pUp, chan, dist, pLb, fq, excl, hold, sent, got, skipped, pFaults,
  trie, aborted, subs, lost, stray,
  kind, came, taken, out, fwd, open,
  mem, at, steps

ASSUME CoreAssumption ==
         MAX_SOCKETS \in Nat /\ MaxSock \in Nat /\ IsFiniteSet(Thread)

(* A thread that makes four calls, and one that makes one, which may stay  *)
(* blocked or close what the first one uses.                               *)
C == INSTANCE Core WITH
       MaxCall <- [t \in Thread |-> IF t = Main THEN 4 ELSE 1]

(* One REQ socket and two REP sockets, and two REQ sockets and one REP.    *)
OnePipes == {<<"a", "p">>, <<"a", "q">>}
TwoPipes == {<<"a", "p">>, <<"b", "p">>}

ASSUME PipeAssumption ==
         /\ SLOTS \in Nat \ {0} /\ Cap \in Nat \ {0}
         /\ NoPipe \notin OnePipes \cup TwoPipes
         /\ NoPipe \notin {"r", "s"}

R1 == INSTANCE ReqRep WITH
        Req <- {"a"}, Rep <- {"p", "q"}, Pipe <- OnePipes,
        SndPrio <- [x \in OnePipes |-> 1]
R2 == INSTANCE ReqRep WITH
        Req <- {"a", "b"}, Rep <- {"p"}, Pipe <- TwoPipes,
        SndPrio <- [x \in TwoPipes |-> 1], MaxReq <- 1, MaxFault <- 0

(* Two respondents, and one whose pipe breaks.                             *)
S2 == INSTANCE Survey WITH
        Respondent <- {"r", "s"}, MaxFault <- 0, outpipes <- sOut,
        inpipes <- sIn, up <- sUp, got <- responses, faults <- sFaults
S1 == INSTANCE Survey WITH
        Respondent <- {"r"}, outpipes <- sOut,
        inpipes <- sIn, up <- sUp, got <- responses, faults <- sFaults

Kinds ==
  [p |-> "PUB", q |-> "PUB", s |-> "SUB", b |-> "BUS", c |-> "BUS",
   d |-> "DEV", h |-> "PUSH", g |-> "PUSH", l |-> "PULL", m |-> "PULL",
   n |-> "PULL", x |-> "PAIR", y |-> "PAIR", z |-> "PAIR"]
AllNets ==
  {{{"p", "s"}, {"q", "s"}}, {{"b", "d"}, {"c", "d"}},
   {{"h", "l"}, {"h", "m"}}, {{"g", "l"}, {"g", "n"}},
   {{"x", "y"}, {"x", "z"}}}
Prios ==
  [x \in {y \in (DOMAIN Kinds) \X (DOMAIN Kinds) :
            {y[1], y[2]} \in UNION AllNets} |-> IF x = <<"g", "n">> THEN 2 ELSE 1]

(* There are two priorities, and a NULL pointer is none of the pipes.      *)
ASSUME PatternAssumption ==
         SLOTS > 1 /\ NoPipe \notin DOMAIN Prios /\ NoPipe \notin UNION AllNets

Sends ==
  [a \in DOMAIN Kinds |->
     CASE a = "h" -> 3 [] a \in {"p", "b", "x", "g"} -> 2
       [] a \in {"q", "c", "y"} -> 1 [] OTHER -> 0]

P == INSTANCE Patterns WITH
       Kind <- Kinds, Nets <- AllNets, PipePrio <- Prios,
       Topics <- {"t", "u"}, Wanted <- {"t"}, MaxMsg <- Sends,
       Cap <- 2,
       up <- pUp, lb <- pLb, faults <- pFaults

(* Subscriptions that share their beginnings; a sparse table has room for  *)
(* two children.                                                           *)
Strings == {<< >>, <<1>>, <<1, 1>>, <<1, 2>>, <<1, 3>>, <<1, 5>>,
            <<1, 1, 1>>, <<3, 1, 2, 1>>}
ASSUME TrieAssumption ==
         PREFIX_MAX \in Nat /\ SPARSE_MAX \in Nat /\ SPARSE_MAX >= 2

T == INSTANCE Trie WITH Topic <- Strings

Typed(raw, family, rcv, snd) ==
  [raw |-> raw, family |-> family, rcv |-> rcv, snd |-> snd]
D == INSTANCE Device WITH
       Kinds <- {Typed(TRUE, "REQREP", TRUE, TRUE),
                 Typed(FALSE, "REQREP", TRUE, TRUE),
                 Typed(TRUE, "BUS", TRUE, TRUE),
                 Typed(TRUE, "PUBSUB", TRUE, FALSE),
                 Typed(TRUE, "PUBSUB", FALSE, TRUE)},
       MaxMsg <- 2

M == INSTANCE Chunks WITH Chunk <- {"c", "d"}, Pipe <- {"p", "q"}, MaxStep <- 6

core == <<glob, sock, thr, calls>>
reqrep == <<req, lb, up, outkey, outflag, toRep, toReq, inpipes, rep, faults>>
survey == <<surveyor, sOut, sIn, sUp, toResp, toSurv, resp, responses,
            sFaults>>
patterns == <<net, pUp, chan, dist, pLb, fq, excl, hold, sent, got, skipped,
              pFaults>>
subscriptions == <<trie, aborted, subs, lost, stray>>
device == <<kind, came, taken, out, fwd, open>>
memory == <<mem, at, steps>>
rest == <<subscriptions, device, memory>>
vars == <<started, core, reqrep, survey, patterns, rest>>

Init ==
  /\ started \in Systems
  /\ C!Init
  /\ IF started = "two" THEN R2!Init ELSE R1!Init
  /\ IF started = "survey2" THEN S2!Init ELSE S1!Init
  /\ P!Init /\ T!Init /\ M!Init
  /\ IF started = "device" THEN D!Init
     ELSE /\ kind = << >> /\ came = << >> /\ taken = << >> /\ out = << >>
          /\ fwd = << >> /\ open = {}
  /\ started # "patterns" => net = {{"x", "y"}, {"x", "z"}}

Core(step) ==
  /\ started = "core" /\ step
  /\ UNCHANGED <<started, reqrep, survey, patterns, rest>>
One(step) ==
  /\ started = "one" /\ step
  /\ UNCHANGED <<started, core, survey, patterns, rest>>
Two(step) ==
  /\ started = "two" /\ step
  /\ UNCHANGED <<started, core, survey, patterns, rest>>
Survey(step, n) ==
  /\ started = n /\ step
  /\ UNCHANGED <<started, core, reqrep, patterns, rest>>
Patterns(step) ==
  /\ started = "patterns" /\ step
  /\ UNCHANGED <<started, core, reqrep, survey, rest>>
Subscriptions(step) ==
  /\ started = "trie" /\ step
  /\ UNCHANGED <<started, core, reqrep, survey, patterns, device, memory>>
Device(step) ==
  /\ started = "device" /\ step
  /\ UNCHANGED <<started, core, reqrep, survey, patterns, subscriptions,
                 memory>>
Memory(step) ==
  /\ started = "memory" /\ step
  /\ UNCHANGED <<started, core, reqrep, survey, patterns, subscriptions,
                 device>>

Next ==
  \/ Core(C!Next)
  \/ One(R1!Next) \/ Two(R2!Next) \/ Survey(S1!Next, "survey1")
  \/ Survey(S2!Next, "survey2") \/ Patterns(P!Next)
  \/ Subscriptions(T!Next) \/ Device(D!Next) \/ Memory(M!Next)

Spec == Init /\ [][Next]_vars

(* The fairness of what was started.                                       *)
FairSpec ==
  /\ Spec
  /\ \A t \in Thread :
       WF_vars(Core(C!InCall(t))) /\ WF_vars(Core(C!Closing(t)))
  /\ \A o \in C!Obj :
       WF_vars(Core(C!EpStopped(o))) /\ WF_vars(Core(C!ProtocolStopped(o)))
  /\ WF_vars(One(R1!Timeout("a"))) /\ WF_vars(One(R1!TimerStopped("a")))
  /\ WF_vars(One(R1!nn_req_stop("a")))
  /\ \A x \in OnePipes :
       /\ WF_vars(One(R1!nn_req_in(x))) /\ WF_vars(One(R1!PipeUp(x)))
       /\ WF_vars(One(R1!nn_xrep_in(x))) /\ WF_vars(One(R1!PipeClosed(x)))
  /\ \A p \in {"p", "q"} : WF_vars(One(R1!Answer(p)))
  /\ WF_vars(Survey(S1!Deadline, "survey1"))
  /\ WF_vars(Survey(S1!TimerStopped, "survey1"))
  /\ WF_vars(Survey(S1!nn_surveyor_stop, "survey1"))
  /\ WF_vars(Survey(S1!PipeClosed("r"), "survey1"))
  /\ \A d \in (1 .. 2) \X (1 .. 2) :
       WF_vars(Device(d \in DOMAIN fwd /\ D!nn_device_mvmsg(d)))

-----------------------------------------------------------------------------
(* Core.NoBadEvent, ReqRep.NoBadAction, Survey.SurveyorStates,             *)
(* Device.EveryDirection and Chunks.RefsRight: no state machine meets an   *)
(* event it has no case for, no assertion fails, and no call uses a socket *)
(* or a chunk that is gone (sock.c, req.c, surveyor.c, chunk.c).           *)
NoBadAction ==
  /\ started = "core" => C!NoBadEvent
  /\ started = "one" => R1!NoBadAction
  /\ started = "two" => R2!NoBadAction
  /\ started = "survey1" => S1!SurveyorStates
  /\ started = "survey2" => S2!SurveyorStates
  /\ started = "device" => D!EveryDirection
  /\ started = "memory" => M!RefsRight

(* Core.SlotsRight: no descriptor is given twice, none is lost (global.c). *)
SlotsRight == C!SlotsRight

(* Core.WakeupKept: a blocked call is woken when it can go on (sock.c,     *)
(* efd.c).                                                                 *)
WakeupKept == C!WakeupKept

(* ReqRep.OwnReply: the user gets the reply to its last request only.      *)
OwnReply ==
  (started = "one" => R1!OwnReply) /\ (started = "two" => R2!OwnReply)

(* ReqRep.ReplyStored: a request that is done has its reply (req.c:224).   *)
ReplyStored == started = "one" => R1!ReplyStored

(* Survey.OwnResponses: the user gets one response of each respondent to   *)
(* its last survey (nn_surveyor_recv).                                     *)
OwnResponses ==
  /\ started = "survey1" => S1!OwnResponses
  /\ started = "survey2" => S2!OwnResponses

(* Patterns.OnceInOrder and Device.Forwarded: messages of a socket arrive  *)
(* once and in order, through a device as well (dist.c, device.c).         *)
OnceInOrder ==
  /\ started = "patterns" => P!OnceInOrder
  /\ started = "device" => D!Forwarded

(* Patterns.Balanced: the lists of pipes are right and two pipes are       *)
(* served in turn (priolist.c, dist.c).                                    *)
Balanced == started = "patterns" => P!Balanced

(* Trie.CountsRight and Trie.MatchRight: the trie of a SUB socket counts   *)
(* the subscriptions that were not lost, matches what they match and       *)
(* nothing the user is not subscribed to (trie.c).                         *)
MatchRight == started = "trie" => T!CountsRight /\ T!MatchRight

(* ReqRep.RequestCompletes, Survey.SurveyEnds and Device.DeviceEnds: a     *)
(* request is answered and a survey ends (the timers of req.c and          *)
(* surveyor.c), and a device whose sockets are closed returns.             *)
DialogueEnds ==
  /\ started = "one" => R1!RequestCompletes
  /\ started = "survey1" => S1!SurveyEnds
  /\ started = "device" => D!DeviceEnds

(* Core.CloseReturns: nn_close and nn_term return (sock.c, global.c).      *)
CloseReturns == started = "core" => C!CloseReturns

=============================================================================
