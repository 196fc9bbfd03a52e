---------------------------- MODULE SurveyProofs ----------------------------
(***************************************************************************)
(* The survey protocol for any number of respondents: the surveyor meets   *)
(* no event it has no case for, and the user gets at most one response of  *)
(* each respondent, to the last survey.  Along the way of a pipe the       *)
(* numbers of surveys rise: the responses that wait, then the survey being *)
(* answered, then the surveys that wait.  So a response that is taken is   *)
(* the last trace of its survey on that pipe.                              *)
(***************************************************************************)
EXTENDS Survey, PrioListProofs, FiniteSetTheorems

(* What the constants must be.                                             *)
Fit ==
  /\ SLOTS \in Nat \ {0} /\ Cap \in Nat \ {0}
  /\ IsFiniteSet(Respondent) /\ NoPipe \notin Respondent

States ==
  {"IDLE", "PASSIVE", "ACTIVE", "CANCELLING", "STOPPING_TIMER", "STOPPING"}
Timers == {"idle", "active", "stopping"}

(* The state of the surveyor and its timer go together.                    *)
SurvOK(s) ==
  /\ s \in [state : States, id : Nat, timer : Timers, timedout : BOOLEAN,
            closing : BOOLEAN]
  /\ (s.timer = "active") <=> (s.state = "ACTIVE")
  /\ (s.timer = "stopping") <=>
       (s.state \in {"CANCELLING", "STOPPING_TIMER", "STOPPING"})

(* The number of the last survey that was sent; one that waits for the     *)
(* timer is not.                                                           *)
Limit(s) == IF s.state = "CANCELLING" THEN s.id - 1 ELSE s.id

RespOK(p) ==
  /\ p \in [key : Nat, next_key : Nat, out : BOOLEAN, in : BOOLEAN,
            inprogress : BOOLEAN, from : Nat, survey : Nat]
  /\ p.key < p.next_key /\ p.from < p.next_key
  /\ p.inprogress => p.from >= 1
  /\ p.in => p.key >= 1

(* The survey in progress can still be answered over the pipe.             *)
Live(p) == p.inprogress /\ p.from = p.key

Response(r) == [survey : Nat, by : {r}]

(* The way of one pipe: surveys a that wait, respondent p, responses b.    *)
Line(r, p, a, b, n) ==
  /\ a \in Seq(Nat) /\ b \in Seq(Response(r))
  /\ \A i, j \in 1 .. Len(a) : i < j => a[i] < a[j]
  /\ \A i, j \in 1 .. Len(b) : i < j => b[i].survey < b[j].survey
  /\ \A i \in 1 .. Len(b), j \in 1 .. Len(a) : b[i].survey < a[j]
  /\ \A i \in 1 .. Len(a) : a[i] <= n
  /\ \A i \in 1 .. Len(b) : b[i].survey <= n
  /\ Live(p) => /\ p.survey <= n
                /\ \A i \in 1 .. Len(b) : b[i].survey < p.survey
                /\ \A i \in 1 .. Len(a) : p.survey < a[i]

(* No trace of survey n is left on the way.                                *)
Absent(p, a, b, n) ==
  /\ \A i \in 1 .. Len(a) : a[i] # n
  /\ \A i \in 1 .. Len(b) : b[i].survey # n
  /\ Live(p) => p.survey # n

(* A pipe in the fair queue has a response.                                *)
FqOK(q, c) ==
  /\ ListOK(q, Respondent)
  /\ \A i \in Prio : \A r \in Elements(q.pipes[i]) : i = 1 /\ c[r] # << >>

WaysOK(s, p, a, b) ==
  /\ DOMAIN p = Respondent /\ DOMAIN a = Respondent /\ DOMAIN b = Respondent
  /\ \A r \in Respondent :
       /\ RespOK(p[r]) /\ (p[r].in => a[r] # << >>)
       /\ Line(r, p[r], a[r], b[r], Limit(s))

UpOK(u, p) == \A r \in Respondent : r \in u => p[r].key >= 1

(* What the user has got, one response of each respondent, left no trace.  *)
GotOK(g, s, p, a, b) ==
  /\ g \in Seq([survey : Nat, by : Respondent])
  /\ s.state = "CANCELLING" => g = << >>
  /\ \A j \in 1 .. Len(g) :
       /\ g[j].survey = s.id
       /\ Absent(p[g[j].by], a[g[j].by], b[g[j].by], s.id)
       /\ \A i \in 1 .. j - 1 : g[i].by # g[j].by

SurveyInv ==
  /\ SurvOK(surveyor)
  /\ WaysOK(surveyor, resp, toResp, toSurv)
  /\ UpOK(up, resp)
  /\ FqOK(inpipes, toSurv)
  /\ GotOK(got, surveyor, resp, toResp, toSurv)
-----------------------------------------------------------------------------
(* One way                                                                 *)

(* The numbers of the responses that wait.                                 *)
LEMMA ResponsesOf ==
  ASSUME NEW r, NEW b \in Seq(Response(r))
  PROVE  \A i \in 1 .. Len(b) : b[i] \in Response(r) /\ b[i].survey \in Nat
<1>1. \A i \in 1 .. Len(b) : b[i] \in Response(r)
  BY ElementOfSeq
<1> QED BY <1>1 DEF Response

(* A new survey, with a number above all that were sent.                   *)
LEMMA LineSurvey ==
  ASSUME NEW r, NEW p, NEW a, NEW b, NEW n \in Int, NEW m \in Nat, n < m,
         Line(r, p, a, b, n), Live(p) => p.survey \in Nat
  PROVE  Line(r, p, a, b, m) /\ Line(r, p, Append(a, m), b, m)
<1>1. a \in Seq(Nat) /\ b \in Seq(Response(r)) /\ Len(a) \in Nat
      /\ Len(b) \in Nat
  BY DEF Line
<1>2. Append(a, m) \in Seq(Nat) /\ Len(Append(a, m)) = Len(a) + 1
      /\ \A i \in 1 .. Len(a) : Append(a, m)[i] = a[i] /\ a[i] \in Nat
      /\ Append(a, m)[Len(a) + 1] = m
  BY <1>1
<1>3. \A i \in 1 .. Len(b) : b[i].survey \in Nat
  BY <1>1, ResponsesOf
<1> DEFINE c == Append(a, m)
<1> HIDE DEF c
<1>4. /\ c \in Seq(Nat) /\ Len(c) = Len(a) + 1 /\ c[Len(a) + 1] = m
      /\ \A i \in 1 .. Len(a) : c[i] = a[i] /\ a[i] \in Nat
  BY <1>2 DEF c
<1>5. \A i \in 1 .. Len(c) : i \in 1 .. Len(a) \/ i = Len(a) + 1
  BY <1>1, <1>4
<1>6. /\ \A i, j \in 1 .. Len(a) : i < j => a[i] < a[j]
      /\ \A i, j \in 1 .. Len(b) : i < j => b[i].survey < b[j].survey
      /\ \A i \in 1 .. Len(b), j \in 1 .. Len(a) : b[i].survey < a[j]
      /\ \A i \in 1 .. Len(a) : a[i] <= n
      /\ \A i \in 1 .. Len(b) : b[i].survey <= n
      /\ Live(p) => /\ p.survey <= n
                    /\ \A i \in 1 .. Len(b) : b[i].survey < p.survey
                    /\ \A i \in 1 .. Len(a) : p.survey < a[i]
  BY DEF Line
<1>7. Line(r, p, a, b, m)
  BY <1>1, <1>3, <1>4, <1>6 DEF Line
<1>8. \A i, j \in 1 .. Len(c) : i < j => c[i] < c[j]
  <2> SUFFICES ASSUME NEW i \in 1 .. Len(c), NEW j \in 1 .. Len(c), i < j
               PROVE  c[i] < c[j]
    OBVIOUS
  <2>1. i \in 1 .. Len(a)
    BY <1>1, <1>4
  <2>2. CASE j \in 1 .. Len(a)
    BY <2>1, <2>2, <1>4, <1>6
  <2>3. CASE j = Len(a) + 1
    <3>1. c[i] <= n /\ c[j] = m /\ c[i] \in Nat
      BY <2>1, <2>3, <1>4, <1>6
    <3> QED BY <3>1
  <2> QED BY <1>5, <2>2, <2>3
<1>9. \A i \in 1 .. Len(b), j \in 1 .. Len(c) : b[i].survey < c[j]
  <2> SUFFICES ASSUME NEW i \in 1 .. Len(b), NEW j \in 1 .. Len(c)
               PROVE  b[i].survey < c[j]
    OBVIOUS
  <2>1. b[i].survey <= n /\ b[i].survey \in Nat
    BY <1>3, <1>6
  <2>2. CASE j \in 1 .. Len(a)
    BY <2>2, <1>4, <1>6
  <2>3. CASE j = Len(a) + 1
    BY <2>1, <2>3, <1>4
  <2> QED BY <1>5, <2>2, <2>3
<1>10. \A i \in 1 .. Len(c) : c[i] <= m
  <2> SUFFICES ASSUME NEW i \in 1 .. Len(c) PROVE c[i] <= m
    OBVIOUS
  <2>1. CASE i \in 1 .. Len(a)
    <3>1. c[i] \in Nat /\ c[i] <= n
      BY <1>1, <1>4, <1>6, <2>1
    <3> QED BY <3>1
  <2>2. CASE i = Len(a) + 1
    BY <2>2, <1>4
  <2> QED BY <1>5, <2>1, <2>2
<1>11. Live(p) => \A i \in 1 .. Len(c) : p.survey < c[i]
  <2> SUFFICES ASSUME Live(p), NEW i \in 1 .. Len(c) PROVE p.survey < c[i]
    OBVIOUS
  <2>1. CASE i \in 1 .. Len(a)
    BY <2>1, <1>4, <1>6
  <2>2. CASE i = Len(a) + 1
    <3>1. p.survey \in Nat /\ p.survey <= n /\ c[i] = m
      BY <2>2, <1>4, <1>6
    <3> QED BY <3>1
  <2> QED BY <1>5, <2>1, <2>2
<1>12. Line(r, p, c, b, m)
  BY <1>1, <1>4, <1>7, <1>8, <1>9, <1>10, <1>11 DEF Line
<1> QED BY <1>7, <1>12 DEF c

(* The tail of a sequence.                                                 *)
LEMMA TailOf ==
  ASSUME NEW S, NEW s \in Seq(S), s # << >>
  PROVE  /\ Len(s) \in Nat /\ Len(s) >= 1 /\ Head(s) = s[1]
         /\ Head(s) \in S
         /\ Tail(s) \in Seq(S) /\ Len(Tail(s)) = Len(s) - 1
         /\ \A i \in 1 .. Len(Tail(s)) :
              Tail(s)[i] = s[i + 1] /\ i + 1 \in 1 .. Len(s)
         /\ 1 \in 1 .. Len(s)
BY HeadTailProperties, EmptySeq

(* A survey is taken by the respondent.                                    *)
LEMMA LineTaken ==
  ASSUME NEW r, NEW p, NEW q, NEW a, NEW b, NEW n \in Int,
         Line(r, p, a, b, n), a # << >>, Live(q) => q.survey = Head(a)
  PROVE  Line(r, q, Tail(a), b, n)
<1>1. a \in Seq(Nat) /\ b \in Seq(Response(r)) /\ Len(b) \in Nat
  BY DEF Line
<1> DEFINE c == Tail(a)
           h == Head(a)
<1>2. /\ Len(a) \in Nat /\ h = a[1] /\ h \in Nat /\ 1 \in 1 .. Len(a)
      /\ c \in Seq(Nat) /\ Len(c) = Len(a) - 1
      /\ \A i \in 1 .. Len(c) : c[i] = a[i + 1] /\ i + 1 \in 1 .. Len(a)
  BY <1>1, TailOf
<1> HIDE DEF c, h
<1>3. \A i \in 1 .. Len(a) : a[i] \in Nat
  BY <1>1
<1>4. /\ \A i, j \in 1 .. Len(a) : i < j => a[i] < a[j]
      /\ \A i, j \in 1 .. Len(b) : i < j => b[i].survey < b[j].survey
      /\ \A i \in 1 .. Len(b), j \in 1 .. Len(a) : b[i].survey < a[j]
      /\ \A i \in 1 .. Len(a) : a[i] <= n
      /\ \A i \in 1 .. Len(b) : b[i].survey <= n
  BY DEF Line
<1>5. \A i, j \in 1 .. Len(c) : i < j => c[i] < c[j]
  <2> SUFFICES ASSUME NEW i \in 1 .. Len(c), NEW j \in 1 .. Len(c), i < j
               PROVE  c[i] < c[j]
    OBVIOUS
  <2>1. i + 1 < j + 1
    OBVIOUS
  <2> QED BY <2>1, <1>2, <1>4
<1>6. \A i \in 1 .. Len(b), j \in 1 .. Len(c) : b[i].survey < c[j]
  BY <1>2, <1>4
<1>7. \A i \in 1 .. Len(c) : c[i] <= n /\ h < c[i]
  <2> TAKE i \in 1 .. Len(c)
  <2>1. c[i] = a[i + 1] /\ i + 1 \in 1 .. Len(a) /\ 1 < i + 1
    BY <1>2
  <2> QED BY <2>1, <1>2, <1>4
<1>8. h <= n /\ \A i \in 1 .. Len(b) : b[i].survey < h
  BY <1>2, <1>4
<1>9. Live(q) => q.survey = h
  BY DEF h
<1>10. Line(r, q, c, b, n)
  BY <1>1, <1>2, <1>4, <1>5, <1>6, <1>7, <1>8, <1>9 DEF Line
<1> QED BY <1>10 DEF c

(* The survey in progress is answered.                                     *)
LEMMA LineAnswered ==
  ASSUME NEW r, NEW p, NEW q, NEW a, NEW b, NEW n \in Int,
         Line(r, p, a, b, n), Live(p), p.survey \in Nat, ~Live(q),
         NEW m \in Response(r), m.survey = p.survey
  PROVE  Line(r, q, a, Append(b, m), n)
<1> DEFINE c == Append(b, m)
<1>1. /\ a \in Seq(Nat) /\ b \in Seq(Response(r)) /\ Len(b) \in Nat
      /\ Len(a) \in Nat
  BY DEF Line
<1>2. /\ c \in Seq(Response(r)) /\ Len(c) = Len(b) + 1
      /\ \A i \in 1 .. Len(b) : c[i] = b[i]
      /\ c[Len(b) + 1] = m
  BY <1>1
<1> HIDE DEF c
<1>3. \A i \in 1 .. Len(c) : i \in 1 .. Len(b) \/ i = Len(b) + 1
  BY <1>1, <1>2
<1>4. /\ \A i, j \in 1 .. Len(a) : i < j => a[i] < a[j]
      /\ \A i, j \in 1 .. Len(b) : i < j => b[i].survey < b[j].survey
      /\ \A i \in 1 .. Len(b), j \in 1 .. Len(a) : b[i].survey < a[j]
      /\ \A i \in 1 .. Len(a) : a[i] <= n
      /\ \A i \in 1 .. Len(b) : b[i].survey <= n
      /\ m.survey <= n
      /\ \A i \in 1 .. Len(b) : b[i].survey < m.survey
      /\ \A i \in 1 .. Len(a) : m.survey < a[i]
  BY DEF Line
<1>5. \A i, j \in 1 .. Len(c) : i < j => c[i].survey < c[j].survey
  <2> SUFFICES ASSUME NEW i \in 1 .. Len(c), NEW j \in 1 .. Len(c), i < j
               PROVE  c[i].survey < c[j].survey
    OBVIOUS
  <2>1. i \in 1 .. Len(b)
    BY <1>1, <1>2
  <2>2. CASE j \in 1 .. Len(b)
    BY <2>1, <2>2, <1>2, <1>4
  <2>3. CASE j = Len(b) + 1
    BY <2>1, <2>3, <1>2, <1>4
  <2> QED BY <1>3, <2>2, <2>3
<1>6. \A i \in 1 .. Len(c), j \in 1 .. Len(a) : c[i].survey < a[j]
  BY <1>2, <1>3, <1>4
<1>7. \A i \in 1 .. Len(c) : c[i].survey <= n
  BY <1>2, <1>3, <1>4
<1>8. Line(r, q, a, c, n)
  BY <1>1, <1>2, <1>4, <1>5, <1>6, <1>7 DEF Line
<1> QED BY <1>8 DEF c

(* A response is taken by the surveyor: nothing of its survey is left.     *)
LEMMA LineHeard ==
  ASSUME NEW r, NEW p, NEW a, NEW b, NEW n \in Int,
         Line(r, p, a, b, n), Live(p) => p.survey \in Nat, b # << >>
  PROVE  /\ Line(r, p, a, Tail(b), n)
         /\ Head(b) \in Response(r) /\ Head(b).survey <= n
         /\ Absent(p, a, Tail(b), Head(b).survey)
<1> DEFINE c == Tail(b)
           h == Head(b)
<1>1. a \in Seq(Nat) /\ b \in Seq(Response(r)) /\ Len(a) \in Nat
  BY DEF Line
<1>2. /\ Len(b) \in Nat /\ h = b[1] /\ h \in Response(r) /\ 1 \in 1 .. Len(b)
      /\ c \in Seq(Response(r)) /\ Len(c) = Len(b) - 1
      /\ \A i \in 1 .. Len(c) : c[i] = b[i + 1] /\ i + 1 \in 1 .. Len(b)
  BY <1>1, TailOf
<1> HIDE DEF c, h
<1>3. /\ \A i \in 1 .. Len(b) : b[i].survey \in Nat
      /\ \A i \in 1 .. Len(a) : a[i] \in Nat
  BY <1>1, ResponsesOf
<1>4. /\ \A i, j \in 1 .. Len(a) : i < j => a[i] < a[j]
      /\ \A i, j \in 1 .. Len(b) : i < j => b[i].survey < b[j].survey
      /\ \A i \in 1 .. Len(b), j \in 1 .. Len(a) : b[i].survey < a[j]
      /\ \A i \in 1 .. Len(a) : a[i] <= n
      /\ \A i \in 1 .. Len(b) : b[i].survey <= n
      /\ Live(p) => /\ p.survey <= n
                    /\ \A i \in 1 .. Len(b) : b[i].survey < p.survey
                    /\ \A i \in 1 .. Len(a) : p.survey < a[i]
  BY DEF Line
<1>5. \A i, j \in 1 .. Len(c) : i < j => c[i].survey < c[j].survey
  <2> SUFFICES ASSUME NEW i \in 1 .. Len(c), NEW j \in 1 .. Len(c), i < j
               PROVE  c[i].survey < c[j].survey
    OBVIOUS
  <2>1. i + 1 < j + 1
    OBVIOUS
  <2> QED BY <2>1, <1>2, <1>4
<1>6. \A i \in 1 .. Len(c), j \in 1 .. Len(a) : c[i].survey < a[j]
  BY <1>2, <1>4
<1>7. \A i \in 1 .. Len(c) : /\ c[i].survey <= n /\ h.survey < c[i].survey
                             /\ c[i].survey \in Nat
                             /\ Live(p) => c[i].survey < p.survey
  <2> TAKE i \in 1 .. Len(c)
  <2>1. c[i] = b[i + 1] /\ i + 1 \in 1 .. Len(b) /\ 1 < i + 1
    BY <1>2
  <2> QED BY <2>1, <1>2, <1>3, <1>4
<1>8. h.survey \in Nat /\ h.survey <= n
  BY <1>2, <1>3, <1>4
<1>9. Line(r, p, a, c, n)
  BY <1>1, <1>2, <1>4, <1>5, <1>6, <1>7 DEF Line
<1>10. \A i \in 1 .. Len(a) : a[i] # h.survey
  BY <1>2, <1>3, <1>4
<1>11. \A i \in 1 .. Len(c) : c[i].survey # h.survey
  BY <1>7, <1>8
<1>12. Live(p) => p.survey # h.survey
  BY <1>2, <1>4, <1>8
<1>13. Absent(p, a, c, h.survey)
  BY <1>10, <1>11, <1>12 DEF Absent
<1> QED BY <1>2, <1>8, <1>9, <1>13 DEF c, h

(* The survey in progress stays, or cannot be answered any more.           *)
LEMMA LineSame ==
  ASSUME NEW r, NEW p, NEW q, NEW a, NEW b, NEW n,
         Line(r, p, a, b, n), Live(q) => Live(p) /\ q.survey = p.survey
  PROVE  Line(r, q, a, b, n)
BY DEF Line

(* A pipe without messages.                                                *)
LEMMA LineEmpty ==
  ASSUME NEW r, NEW q, NEW n, ~Live(q)
  PROVE  Line(r, q, << >>, << >>, n)
BY DEF Line
-----------------------------------------------------------------------------
(* The fair queue of the surveyor                                          *)

Msg == [survey : Nat, by : Respondent]

(* What holds after a response was taken: nothing else is left of it, and  *)
(* the user has no other of its respondent if it is to the last survey.    *)
TakeOK(t, g, s, p, a) ==
  /\ FqOK(t.q, t.c) /\ WaysOK(s, p, a, t.c) /\ GotOK(g, s, p, a, t.c)
  /\ t.msg \in Msg /\ t.msg.survey <= Limit(s)
  /\ Absent(p[t.msg.by], a[t.msg.by], t.c[t.msg.by], t.msg.survey)
  /\ t.msg.survey = s.id => \A j \in 1 .. Len(g) : g[j].by # t.msg.by

(* A response leaves its pipe: the queue stays in step.                    *)
LEMMA FqStep ==
  ASSUME Fit, NEW q, NEW c, NEW e, FqOK(q, c), nn_priolist_is_active(q),
         \A x \in Respondent : x # nn_priolist_getpipe(q) => e[x] = c[x]
  PROVE  /\ FqOK(nn_priolist_advance(q, TRUE), e)
         /\ e[nn_priolist_getpipe(q)] # << >> =>
              FqOK(nn_priolist_advance(q, FALSE), e)
<1> DEFINE r == nn_priolist_getpipe(q)
           f(b) == nn_priolist_advance(q, b)
<1>1. SLOTS \in Nat /\ NoPipe \notin Respondent /\ ListOK(q, Respondent)
      /\ 1 \in Prio
  BY DEF Fit, FqOK, Prio
<1>2. /\ ListOK(f(TRUE), Respondent)
      /\ \A j \in Prio : Elements(f(TRUE).pipes[j])
           = IF TRUE /\ j = q.current
             THEN Elements(q.pipes[j]) \ {q.turn[q.current]}
             ELSE Elements(q.pipes[j])
  BY <1>1, AdvanceOK
<1>3. /\ ListOK(f(FALSE), Respondent)
      /\ \A j \in Prio : Elements(f(FALSE).pipes[j])
           = IF FALSE /\ j = q.current
             THEN Elements(q.pipes[j]) \ {q.turn[q.current]}
             ELSE Elements(q.pipes[j])
  BY <1>1, AdvanceOK
<1>4. /\ q.current \in Prio /\ r = q.turn[q.current]
      /\ r \in Elements(q.pipes[q.current])
  BY <1>1, TurnOK
<1>5. q.current = 1
  BY <1>4 DEF FqOK
<1>6. \A i \in Prio : \A x \in Elements(q.pipes[i]) :
        i = 1 /\ c[x] # << >> /\ x \in Respondent
  BY <1>1, MemberOf DEF FqOK
<1>7. ASSUME NEW i \in Prio, NEW x \in Elements(f(TRUE).pipes[i])
      PROVE  i = 1 /\ e[x] # << >>
  <2> HIDE DEF f
  <2>1. x \in Elements(q.pipes[i]) /\ ~(i = q.current /\ x = r)
    BY <1>2, <1>4
  <2>2. i = 1 /\ c[x] # << >> /\ x \in Respondent
    BY <2>1, <1>6
  <2> QED BY <2>1, <2>2, <1>5
<1>8. ASSUME NEW i \in Prio, NEW x \in Elements(f(FALSE).pipes[i]),
             e[r] # << >>
      PROVE  i = 1 /\ e[x] # << >>
  <2> HIDE DEF f
  <2>1. x \in Elements(q.pipes[i])
    BY <1>3
  <2>2. i = 1 /\ c[x] # << >> /\ x \in Respondent
    BY <2>1, <1>6
  <2> QED BY <2>2, <1>8
<1> HIDE DEF f
<1>9. FqOK(f(TRUE), e)
  BY <1>2, <1>7 DEF FqOK
<1>10. e[r] # << >> => FqOK(f(FALSE), e)
  BY <1>3, <1>8 DEF FqOK
<1> QED BY <1>9, <1>10 DEF f

(* What is absent from a pipe is absent from its tail.                     *)
LEMMA AbsentTail ==
  ASSUME NEW p, NEW a, NEW S, NEW b \in Seq(S), b # << >>, NEW n,
         Absent(p, a, b, n)
  PROVE  Absent(p, a, Tail(b), n) /\ Head(b).survey # n
<1>1. /\ Head(b) = b[1] /\ 1 \in 1 .. Len(b)
      /\ \A i \in 1 .. Len(Tail(b)) :
           Tail(b)[i] = b[i + 1] /\ i + 1 \in 1 .. Len(b)
  BY TailOf
<1> QED BY <1>1 DEF Absent

(* FqTake.                                                                 *)
LEMMA FqTakeOK ==
  ASSUME Fit, NEW q, NEW c, NEW g, NEW s, NEW p, NEW a,
         FqOK(q, c), WaysOK(s, p, a, c), GotOK(g, s, p, a, c),
         SurvOK(s), nn_priolist_is_active(q)
  PROVE  TakeOK(FqTake(q, c), g, s, p, a)
<1> DEFINE r == nn_priolist_getpipe(q)
           e == [c EXCEPT ![r] = Tail(@)]
           m == Head(c[r])
           full == Len(c[r]) = 1
           f == nn_priolist_advance(q, full)
           t == FqTake(q, c)
<1>1. t = [q |-> f, c |-> e, msg |-> m]
  BY DEF FqTake
<1>2. t.q = f /\ t.c = e /\ t.msg = m
  BY <1>1
<1>3. SLOTS \in Nat /\ ListOK(q, Respondent)
  BY DEF Fit, FqOK
<1>4. /\ q.current \in Prio /\ r \in Elements(q.pipes[q.current])
      /\ r \in Respondent
  BY <1>3, TurnOK
<1>5. c[r] # << >>
  BY <1>4 DEF FqOK
<1>6. DOMAIN c = Respondent /\ Line(r, p[r], a[r], c[r], Limit(s))
      /\ RespOK(p[r]) /\ c[r] \in Seq(Response(r))
  BY <1>4 DEF WaysOK, Line
<1>7. /\ DOMAIN e = Respondent /\ e[r] = Tail(c[r])
      /\ \A x \in Respondent : x # r => e[x] = c[x]
  BY <1>4, <1>6
<1>8. full \in BOOLEAN /\ (~full => e[r] # << >>)
  <2>1. Len(c[r]) \in Nat /\ Len(c[r]) >= 1 /\ Len(e[r]) = Len(c[r]) - 1
    BY <1>5, <1>6, <1>7, TailOf
  <2>2. full <=> Len(c[r]) = 1
    OBVIOUS
  <2>3. \A x : x = << >> => Len(x) = 0
    OBVIOUS
  <2> HIDE DEF full, e
  <2>4. ~full => Len(e[r]) # 0
    BY <2>1, <2>2
  <2> QED BY <2>3, <2>4 DEF full
<1>9. FqOK(f, e)
  <2>1. /\ full => f = nn_priolist_advance(q, TRUE)
        /\ ~full => f = nn_priolist_advance(q, FALSE)
    <3>1. full => full = TRUE
      OBVIOUS
    <3>2. ~full => full = FALSE
      OBVIOUS
    <3> HIDE DEF full
    <3> QED BY <3>1, <3>2
  <2>2. r = nn_priolist_getpipe(q)
    OBVIOUS
  <2> HIDE DEF full, e, f, r
  <2>3. full => FqOK(nn_priolist_advance(q, TRUE), e)
    BY <2>2, <1>7, FqStep
  <2>4. ~full => FqOK(nn_priolist_advance(q, FALSE), e)
    BY <2>2, <1>7, <1>8, FqStep
  <2> QED BY <2>1, <2>3, <2>4
<1> HIDE DEF e, f, full, t
<1>10. Limit(s) \in Int /\ (Live(p[r]) => p[r].survey \in Nat)
  BY <1>6 DEF Limit, SurvOK, RespOK
<1>11. /\ Line(r, p[r], a[r], e[r], Limit(s))
       /\ m \in Response(r) /\ m.survey <= Limit(s)
       /\ Absent(p[r], a[r], e[r], m.survey)
  BY <1>5, <1>6, <1>7, <1>10, LineHeard
<1>12. WaysOK(s, p, a, e)
  BY <1>7, <1>11 DEF WaysOK
<1>13. m \in Msg /\ m.by = r
  BY <1>4, <1>11 DEF Msg, Response
<1>14. ASSUME NEW j \in 1 .. Len(g)
       PROVE  /\ Absent(p[g[j].by], a[g[j].by], e[g[j].by], s.id)
              /\ g[j].by = r => m.survey # s.id
  <2>1. Absent(p[g[j].by], a[g[j].by], c[g[j].by], s.id)
        /\ g[j].by \in Respondent
    <3>1. g \in Seq(Msg)
      BY DEF GotOK, Msg
    <3>2. g[j] \in Msg
      BY <3>1, ElementOfSeq
    <3> QED BY <3>2 DEF GotOK, Msg
  <2>2. CASE g[j].by = r
    <3>1. Absent(p[r], a[r], c[r], s.id)
      BY <2>1, <2>2
    <3>2. Absent(p[r], a[r], Tail(c[r]), s.id) /\ Head(c[r]).survey # s.id
      BY <3>1, <1>5, <1>6, AbsentTail
    <3> QED BY <3>2, <2>2, <1>7
  <2>3. CASE g[j].by # r
    BY <2>1, <2>3, <1>7
  <2> QED BY <2>2, <2>3
<1>15. GotOK(g, s, p, a, e)
  BY <1>14 DEF GotOK
<1> QED
  BY <1>2, <1>9, <1>11, <1>12, <1>13, <1>14, <1>15 DEF TakeOK, t

(* The response goes to the user.                                          *)
LEMMA GotMore ==
  ASSUME NEW t, NEW g, NEW s, NEW p, NEW a, TakeOK(t, g, s, p, a),
         SurvOK(s), t.msg.survey = s.id
  PROVE  GotOK(Append(g, t.msg), s, p, a, t.c)
<1> DEFINE m == t.msg
           h == Append(g, m)
<1>1. g \in Seq(Msg) /\ m \in Msg /\ Len(g) \in Nat
  BY DEF TakeOK, GotOK, Msg
<1>2. /\ h \in Seq(Msg) /\ Len(h) = Len(g) + 1 /\ h[Len(g) + 1] = m
      /\ \A i \in 1 .. Len(g) : h[i] = g[i]
  BY <1>1
<1>3. s.state # "CANCELLING"
  <2>1. s.id \in Nat /\ m.survey <= Limit(s) /\ m.survey = s.id
    BY DEF SurvOK, TakeOK
  <2> QED BY <2>1 DEF Limit
<1>4. /\ Absent(p[m.by], a[m.by], t.c[m.by], s.id)
      /\ \A j \in 1 .. Len(g) : g[j].by # m.by
  BY DEF TakeOK
<1>5. \A j \in 1 .. Len(g) :
        /\ g[j].survey = s.id
        /\ Absent(p[g[j].by], a[g[j].by], t.c[g[j].by], s.id)
        /\ \A i \in 1 .. j - 1 : g[i].by # g[j].by
  BY DEF TakeOK, GotOK
<1>6. m.survey = s.id
  OBVIOUS
<1> HIDE DEF h, m
<1>7. ASSUME NEW j \in 1 .. Len(h)
      PROVE  /\ h[j].survey = s.id
             /\ Absent(p[h[j].by], a[h[j].by], t.c[h[j].by], s.id)
             /\ \A i \in 1 .. j - 1 : h[i].by # h[j].by
  <2>1. j \in 1 .. Len(g) \/ j = Len(g) + 1
    BY <1>1, <1>2
  <2>2. \A i \in 1 .. j - 1 : i \in 1 .. Len(g)
    BY <1>1, <1>2
  <2>3. CASE j \in 1 .. Len(g)
    BY <2>2, <2>3, <1>2, <1>5
  <2>4. CASE j = Len(g) + 1
    <3>1. h[j] = m /\ \A i \in 1 .. j - 1 : h[i] = g[i]
      BY <2>2, <2>4, <1>2
    <3> QED BY <3>1, <2>2, <1>4, <1>6
  <2> QED BY <2>1, <2>3, <2>4
<1> QED BY <1>2, <1>3, <1>7 DEF GotOK, Msg, h, m
-----------------------------------------------------------------------------
(* nn_surveyor_recv: the loop that drops stale responses                   *)

TakeNext(t) ==
  IF ~Stale(t.msg) \/ ~nn_priolist_is_active(t.q) THEN t ELSE FqTake(t.q, t.c)

Waiting ==
  Cardinality({w \in Respondent \X (1 .. Cap) : w[2] <= Len(toSurv[w[1]])})

(* The first n rounds of the loop.                                         *)
IsTake(g, n) ==
  g = [k \in 1 .. n |-> IF k = 1 THEN FqTake(inpipes, toSurv)
                                 ELSE TakeNext(g[k - 1])]

(* There are as many rounds as one likes.                                  *)
LEMMA RoundsExist == \A n \in Nat : \E g : IsTake(g, n)
<1> SUFFICES ASSUME ~ \A n \in Nat : \E g : IsTake(g, n) PROVE FALSE
  OBVIOUS
<1> DEFINE T == {n \in Nat : ~ \E g : IsTake(g, n)}
<1>1. T \subseteq Nat /\ T # {}
  OBVIOUS
<1>2. PICK n \in T : \A y \in T : n <= y
  <2> HIDE DEF T
  <2> QED BY <1>1, LeastNat
<1>3. n \in Nat /\ ~ \E g : IsTake(g, n)
  OBVIOUS
<1>4. CASE n = 0
  <2> DEFINE g == [k \in 1 .. 0 |-> FqTake(inpipes, toSurv)]
  <2>1. IsTake(g, 0)
    BY DEF IsTake
  <2> QED BY <1>3, <1>4, <2>1
<1>5. CASE n # 0
  <2>1. n - 1 \in Nat /\ ~(n - 1 \in T)
    BY <1>2, <1>3, <1>5
  <2>2. PICK g : IsTake(g, n - 1)
    BY <2>1
  <2> DEFINE h == [k \in 1 .. n |-> IF k = 1 THEN FqTake(inpipes, toSurv)
                                             ELSE TakeNext(g[k - 1])]
  <2>3. g = [k \in 1 .. n - 1 |-> IF k = 1 THEN FqTake(inpipes, toSurv)
                                            ELSE TakeNext(g[k - 1])]
    BY <2>2 DEF IsTake
  <2>4. \A k \in 1 .. n - 1 : g[k] = h[k]
    BY <1>3, <2>3
  <2>5. \A k \in 1 .. n : h[k] = IF k = 1 THEN FqTake(inpipes, toSurv)
                                          ELSE TakeNext(h[k - 1])
    <3> TAKE k \in 1 .. n
    <3>1. CASE k = 1
      BY <3>1
    <3>2. CASE k # 1
      <4>1. k - 1 \in 1 .. n - 1
        BY <1>3, <3>2
      <4>2. h[k] = TakeNext(g[k - 1])
        BY <3>2
      <4> QED BY <4>1, <4>2, <2>4, <3>2
    <3> QED BY <3>1, <3>2
  <2>6. DOMAIN h = 1 .. n /\ h = [k \in DOMAIN h |-> h[k]]
    OBVIOUS
  <2> HIDE DEF h
  <2>7. IsTake(h, n)
    BY <2>5, <2>6 DEF IsTake
  <2> QED BY <1>3, <2>7
<1> QED BY <1>4, <1>5

(* A pipe in the queue has a response, so at least one waits.              *)
LEMMA SomeWaits ==
  ASSUME Fit, SurveyInv, nn_priolist_is_active(inpipes)
  PROVE  Waiting \in Nat /\ Waiting >= 1
<1> DEFINE W == {w \in Respondent \X (1 .. Cap) : w[2] <= Len(toSurv[w[1]])}
           r == nn_priolist_getpipe(inpipes)
<1>1. IsFiniteSet(Respondent) /\ Cap \in Nat /\ Cap >= 1 /\ SLOTS \in Nat
  BY DEF Fit
<1>2. IsFiniteSet(1 .. Cap)
  BY <1>1, FS_Interval
<1>3. IsFiniteSet(Respondent \X (1 .. Cap))
  BY <1>1, <1>2, FS_Product
<1>4. IsFiniteSet(W)
  BY <1>3, FS_Subset
<1>5. ListOK(inpipes, Respondent)
  BY DEF SurveyInv, FqOK
<1>6. /\ inpipes.current \in Prio
      /\ r \in Elements(inpipes.pipes[inpipes.current]) /\ r \in Respondent
  BY <1>1, <1>5, TurnOK
<1>7. toSurv[r] # << >>
  BY <1>6 DEF SurveyInv, FqOK
<1>8. toSurv[r] \in Seq(Response(r))
  BY <1>6 DEF SurveyInv, WaysOK, Line
<1>9. Len(toSurv[r]) >= 1
  BY <1>7, <1>8, TailOf
<1>10. <<r, 1>> \in W
  BY <1>1, <1>6, <1>9
<1> HIDE DEF W
<1>11. Cardinality(W) \in Nat /\ Cardinality(W) # 0
  BY <1>4, <1>10, FS_CardinalityType, FS_EmptySet
<1>12. Waiting = Cardinality(W)
  BY DEF Waiting, W
<1> QED BY <1>11, <1>12

(* Every round keeps what a taken response promises.                       *)
LEMMA RoundsOK ==
  ASSUME Fit, SurveyInv, nn_priolist_is_active(inpipes),
         NEW n \in Nat, n >= 1, NEW g, IsTake(g, n)
  PROVE  TakeOK(g[n], got, surveyor, resp, toResp)
<1> DEFINE Good(k) == TakeOK(g[k], got, surveyor, resp, toResp)
           T == {k \in 1 .. n : ~Good(k)}
<1>1. \A k \in 1 .. n : g[k] = IF k = 1 THEN FqTake(inpipes, toSurv)
                                        ELSE TakeNext(g[k - 1])
  BY DEF IsTake
<1>2. SUFFICES ASSUME ~Good(n) PROVE FALSE
  OBVIOUS
<1>3. T \subseteq Nat /\ n \in T
  BY <1>2
<1>4. PICK k \in T : \A y \in T : k <= y
  <2> HIDE DEF T
  <2> QED BY <1>3, LeastNat
<1>5. k \in 1 .. n /\ ~Good(k)
  OBVIOUS
<1>6. CASE k = 1
  <2>1. g[k] = FqTake(inpipes, toSurv)
    BY <1>1, <1>5, <1>6
  <2>2. Good(k)
    BY <2>1, FqTakeOK DEF SurveyInv
  <2> QED BY <1>5, <2>2
<1>7. CASE k # 1
  <2>1. k - 1 \in 1 .. n
    BY <1>5, <1>7
  <2>2. Good(k - 1)
    BY <1>4, <1>5, <2>1
  <2> DEFINE t == g[k - 1]
  <2>3. g[k] = TakeNext(t)
    BY <1>1, <1>5, <1>7
  <2>4. TakeOK(t, got, surveyor, resp, toResp)
    BY <2>2
  <2> HIDE DEF t
  <2>5. CASE ~Stale(t.msg) \/ ~nn_priolist_is_active(t.q)
    BY <2>3, <2>4, <2>5, <1>5 DEF TakeNext
  <2>6. CASE ~(~Stale(t.msg) \/ ~nn_priolist_is_active(t.q))
    <3>1. g[k] = FqTake(t.q, t.c)
      BY <2>3, <2>6 DEF TakeNext
    <3>2. /\ FqOK(t.q, t.c) /\ WaysOK(surveyor, resp, toResp, t.c)
          /\ GotOK(got, surveyor, resp, toResp, t.c) /\ SurvOK(surveyor)
      BY <2>4 DEF TakeOK, SurveyInv
    <3>3. Good(k)
      BY <2>6, <3>1, <3>2, FqTakeOK
    <3> QED BY <1>5, <3>3
  <2> QED BY <2>5, <2>6
<1> QED BY <1>6, <1>7

(* nn_surveyor_recv.                                                       *)
LEMMA RecvStep ==
  ASSUME Fit, SurveyInv, nn_surveyor_recv
  PROVE  SurveyInv'
<1> DEFINE take[k \in 1 .. Waiting] ==
             IF k = 1 THEN FqTake(inpipes, toSurv) ELSE TakeNext(take[k - 1])
           last == take[Waiting]
<1>1. /\ inpipes' = last.q /\ toSurv' = last.c
      /\ got' = IF Stale(last.msg) THEN got ELSE Append(got, last.msg)
      /\ surveyor' = surveyor /\ toResp' = toResp /\ resp' = resp
      /\ up' = up
  BY DEF nn_surveyor_recv, TakeNext, Waiting
<1>2. nn_priolist_is_active(inpipes)
  BY DEF nn_surveyor_recv
<1>3. Waiting \in Nat /\ Waiting >= 1
  BY <1>2, SomeWaits
<1>4. \E g : IsTake(g, Waiting)
  BY <1>3, RoundsExist
<1>5. IsTake(take, Waiting)
  BY <1>4 DEF IsTake
<1> HIDE DEF take
<1>6. TakeOK(last, got, surveyor, resp, toResp)
  BY <1>2, <1>3, <1>5, RoundsOK
<1> HIDE DEF last
<1>7. SurvOK(surveyor)
  BY DEF SurveyInv
<1>8. /\ FqOK(last.q, last.c) /\ WaysOK(surveyor, resp, toResp, last.c)
      /\ GotOK(got, surveyor, resp, toResp, last.c)
  BY <1>6 DEF TakeOK
<1>9. ~Stale(last.msg) =>
        GotOK(Append(got, last.msg), surveyor, resp, toResp, last.c)
  BY <1>6, <1>7, GotMore DEF Stale
<1>10. UpOK(up, resp)
  BY DEF SurveyInv
<1>11. GotOK(got', surveyor, resp, toResp, last.c)
  BY <1>1, <1>8, <1>9
<1> QED BY <1>1, <1>7, <1>8, <1>10, <1>11 DEF SurveyInv
-----------------------------------------------------------------------------
(* The surveyor                                                            *)

(* The last survey has a higher number, or the same.                       *)
LEMMA LineWeaker ==
  ASSUME NEW r, NEW p, NEW a, NEW b, NEW n \in Int, NEW m \in Nat, n <= m,
         Line(r, p, a, b, n), Live(p) => p.survey \in Nat
  PROVE  Line(r, p, a, b, m)
<1>1. CASE n = m
  BY <1>1
<1>2. CASE n < m
  BY <1>2, LineSurvey
<1> QED BY <1>1, <1>2

(* What the numbers of the surveyor say.                                   *)
LEMMA LimitIs ==
  ASSUME NEW s, SurvOK(s)
  PROVE  Limit(s) \in Int /\ s.id \in Nat /\ Limit(s) <= s.id
         /\ (s.state # "CANCELLING" => Limit(s) = s.id)
         /\ (s.state = "CANCELLING" => Limit(s) = s.id - 1)
<1>1. s.id \in Nat
  BY DEF SurvOK
<1> QED BY <1>1 DEF Limit

(* The ways when the surveyor goes on and nothing is sent.                 *)
LEMMA WaysLater ==
  ASSUME NEW s, NEW z, NEW p, NEW a, NEW b, SurvOK(s), SurvOK(z),
         Limit(s) <= Limit(z), Limit(z) >= 0, WaysOK(s, p, a, b)
  PROVE  WaysOK(z, p, a, b)
<1>1. Limit(s) \in Int /\ Limit(z) \in Nat
  BY LimitIs
<1>2. ASSUME NEW r \in Respondent
      PROVE  Line(r, p[r], a[r], b[r], Limit(z))
  <2>1. Line(r, p[r], a[r], b[r], Limit(s))
        /\ (Live(p[r]) => p[r].survey \in Nat)
    BY DEF WaysOK, RespOK
  <2> HIDE DEF Limit
  <2> QED BY <1>1, <2>1, LineWeaker
<1> QED BY <1>2 DEF WaysOK

(* The same survey: what the user got stays right.                         *)
LEMMA SameSurvey ==
  ASSUME NEW s, NEW z, NEW p, NEW a, NEW b, NEW g, SurvOK(s), SurvOK(z),
         z.id = s.id, z.state = "CANCELLING" => s.state = "CANCELLING",
         WaysOK(s, p, a, b), GotOK(g, s, p, a, b)
  PROVE  WaysOK(z, p, a, b) /\ GotOK(g, z, p, a, b)
<1>1. Limit(s) \in Int /\ Limit(z) \in Int /\ Limit(s) <= Limit(z)
  BY LimitIs
<1>2. GotOK(g, z, p, a, b)
  BY DEF GotOK
<1>3. CASE Limit(z) >= 0
  BY <1>1, <1>2, <1>3, WaysLater
<1>4. CASE Limit(z) < 0
  <2>1. Limit(z) = Limit(s)
    <3>1. z.state = "CANCELLING"
      BY <1>4, LimitIs
    <3> QED BY <3>1, LimitIs
  <2> QED BY <2>1, <1>2 DEF WaysOK
<1> QED BY <1>1, <1>3, <1>4

(* Nothing but the surveyor moves, within the survey.                      *)
LEMMA SurveyorMoves ==
  ASSUME SurveyInv, SurvOK(surveyor'), surveyor'.id = surveyor.id,
         surveyor'.state = "CANCELLING" => surveyor.state = "CANCELLING",
         UNCHANGED <<inpipes, up, toResp, toSurv, resp, got>>
  PROVE  SurveyInv'
<1>1. /\ SurvOK(surveyor) /\ WaysOK(surveyor, resp, toResp, toSurv)
      /\ GotOK(got, surveyor, resp, toResp, toSurv)
      /\ UpOK(up, resp) /\ FqOK(inpipes, toSurv)
  BY DEF SurveyInv
<1> DEFINE z == surveyor'
<1>2. SurvOK(z) /\ z.id = surveyor.id
      /\ (z.state = "CANCELLING" => surveyor.state = "CANCELLING")
  OBVIOUS
<1>3. UNCHANGED <<inpipes, up, toResp, toSurv, resp, got>>
  OBVIOUS
<1> HIDE DEF z
<1>4. WaysOK(z, resp, toResp, toSurv) /\ GotOK(got, z, resp, toResp, toSurv)
  BY <1>1, <1>2, SameSurvey
<1> QED BY <1>1, <1>2, <1>3, <1>4 DEF SurveyInv, z

(* nn_surveyor_resend, with a number above all that were sent.             *)
LEMMA ResendStep ==
  ASSUME SurveyInv, NEW n \in Nat, Limit(surveyor) < n,
         nn_surveyor_resend(n), got' = << >>,
         UNCHANGED <<inpipes, up, toSurv, resp>>
  PROVE  SurveyInv'
<1>1. /\ SurvOK(surveyor) /\ WaysOK(surveyor, resp, toResp, toSurv)
      /\ UpOK(up, resp) /\ FqOK(inpipes, toSurv)
  BY DEF SurveyInv
<1>2. /\ surveyor' = [surveyor EXCEPT !.id = n, !.state = "ACTIVE",
                                      !.timer = "active"]
      /\ toResp' = [r \in Respondent |->
           IF r \in outpipes THEN Append(toResp[r], n) ELSE toResp[r]]
      /\ UNCHANGED <<inpipes, up, toSurv, resp>>
  BY DEF nn_surveyor_resend
<1>3. SurvOK(surveyor') /\ surveyor'.id = n /\ surveyor'.state = "ACTIVE"
  BY <1>1, <1>2 DEF SurvOK, States, Timers
<1>4. Limit(surveyor') = n
  BY <1>3 DEF Limit
<1>5. Limit(surveyor) \in Int
  BY <1>1, LimitIs
<1>6. ASSUME NEW r \in Respondent
      PROVE  /\ RespOK(resp[r]) /\ (resp[r].in => toResp'[r] # << >>)
             /\ Line(r, resp[r], toResp'[r], toSurv[r], n)
  <2>1. /\ Line(r, resp[r], toResp[r], toSurv[r], Limit(surveyor))
        /\ (Live(resp[r]) => resp[r].survey \in Nat)
        /\ toResp[r] \in Seq(Nat)
        /\ RespOK(resp[r]) /\ (resp[r].in => toResp[r] # << >>)
    BY <1>1 DEF WaysOK, RespOK, Line
  <2>2. /\ Line(r, resp[r], toResp[r], toSurv[r], n)
        /\ Line(r, resp[r], Append(toResp[r], n), toSurv[r], n)
    BY <2>1, <1>5, LineSurvey
  <2>3. Append(toResp[r], n) # << >>
    <3> DEFINE c == Append(toResp[r], n)
    <3>1. Len(c) = Len(toResp[r]) + 1 /\ Len(toResp[r]) \in Nat
      BY <2>1
    <3>2. \A x : x = << >> => Len(x) = 0
      OBVIOUS
    <3> HIDE DEF c
    <3>3. c # << >>
      BY <3>1, <3>2
    <3> QED BY <3>3 DEF c
  <2>4. toResp'[r] = IF r \in outpipes THEN Append(toResp[r], n)
                                       ELSE toResp[r]
    BY <1>2
  <2> QED BY <2>1, <2>2, <2>3, <2>4
<1>7. WaysOK(surveyor', resp, toResp', toSurv)
  <2>1. /\ DOMAIN resp = Respondent /\ DOMAIN toSurv = Respondent
        /\ DOMAIN toResp' = Respondent
    BY <1>1, <1>2 DEF WaysOK
  <2> QED BY <2>1, <1>4, <1>6 DEF WaysOK
<1>8. GotOK(<< >>, surveyor', resp, toResp', toSurv)
  <2>1. << >> \in Seq(Msg) /\ Len(<< >>) = 0
    OBVIOUS
  <2> QED BY <2>1 DEF GotOK, Msg
<1> QED BY <1>1, <1>2, <1>3, <1>7, <1>8 DEF SurveyInv

(* nn_surveyor_send.                                                       *)
LEMMA SendStep ==
  ASSUME SurveyInv, nn_surveyor_send
  PROVE  SurveyInv'
<1>1. SurvOK(surveyor) /\ surveyor.id \in Nat
      /\ Limit(surveyor) <= surveyor.id /\ Limit(surveyor) \in Int
  BY LimitIs DEF SurveyInv
<1>2. got' = << >> /\ UNCHANGED <<inpipes, up, toSurv, resp>>
  BY DEF nn_surveyor_send
<1>3. CASE nn_surveyor_resend(surveyor.id + 1)
  <2>1. surveyor.id + 1 \in Nat /\ Limit(surveyor) < surveyor.id + 1
    BY <1>1
  <2> QED BY <1>2, <1>3, <2>1, ResendStep
<1>4. CASE /\ nn_surveyor_inprogress
           /\ surveyor' = [Stopping(surveyor) EXCEPT !.id = @ + 1,
                                                     !.state = "CANCELLING"]
           /\ UNCHANGED <<toResp, outpipes>>
  <2>1. /\ surveyor'.id = surveyor.id + 1 /\ surveyor'.state = "CANCELLING"
        /\ SurvOK(surveyor')
    <3> DEFINE y == [surveyor EXCEPT !.timer = "stopping"]
    <3>1. surveyor.state \in {"ACTIVE", "CANCELLING", "STOPPING_TIMER"}
      BY <1>1, <1>4 DEF SurvOK, nn_surveyor_inprogress, States
    <3>2. surveyor.timer \in {"active", "stopping"}
      BY <1>1, <3>1 DEF SurvOK
    <3>3. Stopping(surveyor) = y
      BY <1>1, <3>2 DEF Stopping, SurvOK
    <3>4. surveyor' = [y EXCEPT !.id = y.id + 1, !.state = "CANCELLING"]
      BY <1>4, <3>3
    <3>5. /\ y \in [state : States, id : Nat, timer : Timers,
                   timedout : BOOLEAN, closing : BOOLEAN]
          /\ y.timer = "stopping" /\ y.id = surveyor.id
      BY <1>1 DEF SurvOK, Timers
    <3> HIDE DEF y
    <3>6. y.id + 1 \in Nat /\ "CANCELLING" \in States
      BY <1>1, <3>5 DEF States
    <3>7. /\ surveyor' \in [state : States, id : Nat, timer : Timers,
                            timedout : BOOLEAN, closing : BOOLEAN]
          /\ surveyor'.timer = "stopping" /\ surveyor'.id = y.id + 1
          /\ surveyor'.state = "CANCELLING"
      BY <3>4, <3>5, <3>6
    <3> QED BY <3>5, <3>7 DEF SurvOK
  <2>2. Limit(surveyor') = surveyor.id
    BY <2>1, <1>1 DEF Limit
  <2> DEFINE z == surveyor'
  <2>3. SurvOK(z) /\ Limit(z) = surveyor.id
    BY <2>1, <2>2
  <2> HIDE DEF z
  <2>4. WaysOK(z, resp, toResp, toSurv)
    <3>1. WaysOK(surveyor, resp, toResp, toSurv)
      BY DEF SurveyInv
    <3>2. Limit(surveyor) <= Limit(z) /\ Limit(z) >= 0
      BY <2>3, <1>1
    <3> QED BY <3>1, <3>2, <2>3, <1>1, WaysLater
  <2>5. GotOK(<< >>, z, resp, toResp, toSurv)
    <3>1. << >> \in Seq(Msg) /\ Len(<< >>) = 0
      OBVIOUS
    <3> QED BY <3>1 DEF GotOK, Msg
  <2> QED BY <1>2, <1>4, <2>1, <2>4, <2>5 DEF SurveyInv, z
<1> QED BY <1>3, <1>4 DEF nn_surveyor_send

(* The user and the timer.                                                 *)
LEMMA TimerSteps ==
  ASSUME SurveyInv,
         RecvTimedOut \/ Deadline \/ TimerStopped \/ Close \/ nn_surveyor_stop
  PROVE  SurveyInv'
<1>1. SurvOK(surveyor)
  BY DEF SurveyInv
<1>2. CASE RecvTimedOut
  <2>1. surveyor' = [surveyor EXCEPT !.timedout = FALSE]
        /\ UNCHANGED <<inpipes, up, toResp, toSurv, resp, got>>
    BY <1>2 DEF RecvTimedOut
  <2>2. SurvOK(surveyor') /\ surveyor'.id = surveyor.id
        /\ surveyor'.state = surveyor.state
    BY <1>1, <2>1 DEF SurvOK
  <2> QED BY <2>1, <2>2, SurveyorMoves
<1>3. CASE Deadline
  <2>1. surveyor.timer = "active"
        /\ UNCHANGED <<inpipes, up, toResp, toSurv, resp, got>>
    BY <1>3 DEF Deadline
  <2>2. surveyor.state = "ACTIVE"
    BY <2>1, <1>1 DEF SurvOK
  <2>3. surveyor' = [Stopping(surveyor) EXCEPT !.state = "STOPPING_TIMER",
                                               !.timedout = TRUE]
    BY <1>3, <2>2 DEF Deadline
  <2>4. SurvOK(surveyor') /\ surveyor'.id = surveyor.id
        /\ surveyor'.state = "STOPPING_TIMER"
    BY <1>1, <2>1, <2>3 DEF SurvOK, Stopping, States, Timers
  <2> QED BY <2>1, <2>4, SurveyorMoves
<1>4. CASE TimerStopped
  <2>1. surveyor.timer = "stopping"
        /\ UNCHANGED <<inpipes, up, toSurv, resp, got>>
    BY <1>4 DEF TimerStopped
  <2>2. CASE surveyor.state = "CANCELLING" /\ nn_surveyor_resend(surveyor.id)
    <3>1. got = << >>
      BY <2>2 DEF SurveyInv, GotOK
    <3>2. surveyor.id \in Nat /\ Limit(surveyor) < surveyor.id
      BY <2>2, <1>1, LimitIs
    <3> QED BY <2>1, <2>2, <3>1, <3>2, ResendStep
  <2>3. CASE /\ surveyor.state = "STOPPING_TIMER"
             /\ surveyor' = [surveyor EXCEPT !.state = "PASSIVE",
                                             !.timer = "idle"]
             /\ UNCHANGED <<toResp, outpipes>>
    <3>1. SurvOK(surveyor') /\ surveyor'.id = surveyor.id
          /\ surveyor'.state = "PASSIVE"
      BY <1>1, <2>3 DEF SurvOK, States, Timers
    <3> QED BY <2>1, <2>3, <3>1, SurveyorMoves
  <2>4. CASE /\ surveyor.state = "STOPPING"
             /\ surveyor' = nn_surveyor_shutdown(
                              [surveyor EXCEPT !.timer = "idle"])
             /\ UNCHANGED <<toResp, outpipes>>
    <3>1. SurvOK(surveyor') /\ surveyor'.id = surveyor.id
          /\ surveyor'.state = "IDLE"
      BY <1>1, <2>4 DEF SurvOK, States, Timers, nn_surveyor_shutdown
    <3> QED BY <2>1, <2>4, <3>1, SurveyorMoves
  <2> QED BY <1>4, <2>2, <2>3, <2>4 DEF TimerStopped
<1>5. CASE Close
  <2>1. surveyor' = [surveyor EXCEPT !.closing = TRUE]
        /\ UNCHANGED <<inpipes, up, toResp, toSurv, resp, got>>
    BY <1>5 DEF Close
  <2>2. SurvOK(surveyor') /\ surveyor'.id = surveyor.id
        /\ surveyor'.state = surveyor.state
    BY <1>1, <2>1 DEF SurvOK
  <2> QED BY <2>1, <2>2, SurveyorMoves
<1>6. CASE nn_surveyor_stop
  <2>1. /\ surveyor' = nn_surveyor_shutdown(Stopping(surveyor))
        /\ UNCHANGED <<inpipes, up, toResp, toSurv, resp, got>>
        /\ surveyor.state \notin {"STOPPING", "IDLE"}
    BY <1>6 DEF nn_surveyor_stop
  <2>2. SurvOK(surveyor') /\ surveyor'.id = surveyor.id
        /\ surveyor'.state # "CANCELLING"
    BY <1>1, <2>1 DEF SurvOK, States, Timers, nn_surveyor_shutdown, Stopping
  <2> QED BY <2>1, <2>2, SurveyorMoves
<1> QED BY <1>2, <1>3, <1>4, <1>5, <1>6
-----------------------------------------------------------------------------
(* Pipes and respondents: steps on one way                                 *)

(* One way changes, and what was absent from it stays absent.              *)
LEMMA OneWay ==
  ASSUME NEW s, NEW g, NEW p, NEW a, NEW b, NEW q, NEW c, NEW d,
         WaysOK(s, p, a, b), GotOK(g, s, p, a, b),
         NEW r \in Respondent,
         DOMAIN q = Respondent, DOMAIN c = Respondent, DOMAIN d = Respondent,
         \A x \in Respondent : x # r => /\ q[x] = p[x] /\ c[x] = a[x]
                                        /\ d[x] = b[x],
         RespOK(q[r]), q[r].in => c[r] # << >>,
         Line(r, q[r], c[r], d[r], Limit(s)),
         Absent(p[r], a[r], b[r], s.id) => Absent(q[r], c[r], d[r], s.id)
  PROVE  WaysOK(s, q, c, d) /\ GotOK(g, s, q, c, d)
<1>1. WaysOK(s, q, c, d)
  BY DEF WaysOK
<1>2. ASSUME NEW j \in 1 .. Len(g)
      PROVE  Absent(q[g[j].by], c[g[j].by], d[g[j].by], s.id)
  <2>1. g[j] \in Msg
    <3>1. g \in Seq(Msg)
      BY DEF GotOK, Msg
    <3> QED BY <3>1, ElementOfSeq
  <2>2. g[j].by \in Respondent
        /\ Absent(p[g[j].by], a[g[j].by], b[g[j].by], s.id)
    BY <2>1 DEF GotOK, Msg
  <2> QED BY <2>2
<1>3. GotOK(g, s, q, c, d)
  BY <1>2 DEF GotOK
<1> QED BY <1>1, <1>3

(* Only the respondent of one way changes.                                 *)
LEMMA OnlyResp ==
  ASSUME SurveyInv, NEW r \in Respondent, DOMAIN resp' = Respondent,
         \A x \in Respondent : x # r => resp'[x] = resp[x],
         RespOK(resp'[r]), resp'[r].in => toResp[r] # << >>,
         Live(resp'[r]) => Live(resp[r]) /\ resp'[r].survey = resp[r].survey
  PROVE  /\ WaysOK(surveyor, resp', toResp, toSurv)
         /\ GotOK(got, surveyor, resp', toResp, toSurv)
<1>1. /\ WaysOK(surveyor, resp, toResp, toSurv)
      /\ GotOK(got, surveyor, resp, toResp, toSurv)
  BY DEF SurveyInv
<1>2. Line(r, resp[r], toResp[r], toSurv[r], Limit(surveyor))
      /\ DOMAIN toResp = Respondent /\ DOMAIN toSurv = Respondent
  BY <1>1 DEF WaysOK
<1>3. Line(r, resp'[r], toResp[r], toSurv[r], Limit(surveyor))
  BY <1>2, LineSame
<1>4. Absent(resp[r], toResp[r], toSurv[r], surveyor.id)
        => Absent(resp'[r], toResp[r], toSurv[r], surveyor.id)
  BY DEF Absent
<1> DEFINE q == resp'
<1>5. /\ DOMAIN q = Respondent /\ RespOK(q[r])
      /\ q[r].in => toResp[r] # << >>
      /\ \A x \in Respondent : x # r => q[x] = resp[x]
      /\ Line(r, q[r], toResp[r], toSurv[r], Limit(surveyor))
      /\ Absent(resp[r], toResp[r], toSurv[r], surveyor.id)
           => Absent(q[r], toResp[r], toSurv[r], surveyor.id)
  BY <1>3, <1>4
<1> HIDE DEF q
<1>6. /\ WaysOK(surveyor, q, toResp, toSurv)
      /\ GotOK(got, surveyor, q, toResp, toSurv)
  BY <1>1, <1>2, <1>5, OneWay
<1> QED BY <1>6 DEF q

(* The events of the pipes.                                                *)
LEMMA EventSteps ==
  ASSUME Fit, SurveyInv, NEW r \in Respondent,
         \/ nn_xsurveyor_in(r) \/ nn_xsurveyor_out(r)
         \/ nn_xrespondent_in(r) \/ nn_xrespondent_out(r)
  PROVE  SurveyInv'
<1>1. /\ SurvOK(surveyor) /\ WaysOK(surveyor, resp, toResp, toSurv)
      /\ GotOK(got, surveyor, resp, toResp, toSurv)
      /\ UpOK(up, resp) /\ FqOK(inpipes, toSurv)
  BY DEF SurveyInv
<1>2. RespOK(resp[r]) /\ DOMAIN resp = Respondent
      /\ (resp[r].in => toResp[r] # << >>)
      /\ (r \in up => resp[r].key >= 1)
  BY <1>1 DEF WaysOK, UpOK
<1>3. CASE nn_xsurveyor_in(r)
  <2>1. /\ toSurv[r] # << >> /\ ~IsActive(inpipes, r, 1)
        /\ inpipes' = nn_priolist_activate(inpipes, r, 1)
        /\ UNCHANGED <<surveyor, up, toResp, toSurv, resp, got>>
    BY <1>3 DEF nn_xsurveyor_in
  <2> DEFINE o == 1
             f == nn_priolist_activate(inpipes, r, o)
  <2>2. /\ SLOTS \in Nat /\ o \in Prio /\ r # NoPipe
        /\ ListOK(inpipes, Respondent) /\ ~IsActive(inpipes, r, o)
    BY <1>1, <2>1 DEF Fit, Prio, FqOK
  <2>3. inpipes' = f /\ o = 1
    BY <2>1
  <2> HIDE DEF o
  <2>4. /\ ListOK(f, Respondent)
        /\ \A j \in Prio : Elements(f.pipes[j])
             = IF j = o THEN Elements(inpipes.pipes[j]) \cup {r}
                        ELSE Elements(inpipes.pipes[j])
    BY <2>2, ActivateOK
  <2> HIDE DEF f
  <2>5. FqOK(f, toSurv)
    BY <2>1, <2>3, <2>4, <1>1 DEF FqOK
  <2> QED BY <1>1, <2>1, <2>3, <2>5 DEF SurveyInv
<1>4. CASE nn_xsurveyor_out(r)
  BY <1>1, <1>4 DEF nn_xsurveyor_out, SurveyInv
<1>5. CASE nn_xrespondent_in(r)
  <2>1. /\ toResp[r] # << >> /\ resp' = [resp EXCEPT ![r].in = TRUE]
        /\ UNCHANGED <<surveyor, inpipes, up, toResp, toSurv, got>>
        /\ r \in up
    BY <1>5 DEF nn_xrespondent_in
  <2>2. /\ DOMAIN resp' = Respondent
        /\ \A x \in Respondent : x # r => resp'[x] = resp[x]
        /\ resp'[r] = [resp[r] EXCEPT !.in = TRUE]
    BY <1>2, <2>1
  <2>3. RespOK(resp'[r]) /\ resp'[r].key = resp[r].key
        /\ resp'[r].survey = resp[r].survey
    BY <1>2, <2>1, <2>2 DEF RespOK
  <2>4. Live(resp'[r]) => Live(resp[r])
    BY <1>2, <2>2 DEF RespOK, Live
  <2>5. /\ WaysOK(surveyor, resp', toResp, toSurv)
        /\ GotOK(got, surveyor, resp', toResp, toSurv)
    BY <2>1, <2>2, <2>3, <2>4, OnlyResp
  <2>6. UpOK(up, resp')
    BY <1>1, <2>2, <2>3 DEF UpOK
  <2> QED BY <1>1, <2>1, <2>5, <2>6 DEF SurveyInv
<1>6. CASE nn_xrespondent_out(r)
  <2>1. /\ resp' = [resp EXCEPT ![r].out = TRUE]
        /\ UNCHANGED <<surveyor, inpipes, up, toResp, toSurv, got>>
    BY <1>6 DEF nn_xrespondent_out
  <2>2. /\ DOMAIN resp' = Respondent
        /\ \A x \in Respondent : x # r => resp'[x] = resp[x]
        /\ resp'[r] = [resp[r] EXCEPT !.out = TRUE]
    BY <1>2, <2>1
  <2>3. RespOK(resp'[r]) /\ resp'[r].key = resp[r].key
        /\ resp'[r].survey = resp[r].survey /\ resp'[r].in = resp[r].in
    BY <1>2, <2>2 DEF RespOK
  <2>4. Live(resp'[r]) => Live(resp[r])
    BY <1>2, <2>2 DEF RespOK, Live
  <2>5. /\ WaysOK(surveyor, resp', toResp, toSurv)
        /\ GotOK(got, surveyor, resp', toResp, toSurv)
    BY <1>2, <2>2, <2>3, <2>4, OnlyResp
  <2>6. UpOK(up, resp')
    BY <1>1, <2>2, <2>3 DEF UpOK
  <2> QED BY <1>1, <2>1, <2>5, <2>6 DEF SurveyInv
<1> QED BY <1>3, <1>4, <1>5, <1>6
(* PipeUp: what was to be answered over an earlier pipe is not any more.   *)
LEMMA UpStep ==
  ASSUME SurveyInv, NEW r \in Respondent, PipeUp(r)
  PROVE  SurveyInv'
<1>1. /\ SurvOK(surveyor) /\ WaysOK(surveyor, resp, toResp, toSurv)
      /\ UpOK(up, resp) /\ FqOK(inpipes, toSurv)
  BY DEF SurveyInv
<1>2. RespOK(resp[r]) /\ DOMAIN resp = Respondent
      /\ (resp[r].in => toResp[r] # << >>)
  BY <1>1 DEF WaysOK
<1>3. /\ resp' = [resp EXCEPT ![r].key = resp[r].next_key,
                              ![r].next_key = @ + 1, ![r].out = TRUE]
      /\ up' = up \cup {r}
      /\ UNCHANGED <<surveyor, inpipes, toResp, toSurv, got>>
  BY DEF PipeUp, nn_xrespondent_add
<1> DEFINE y == resp[r]
           z == [y EXCEPT !.key = y.next_key, !.next_key = y.next_key + 1,
                          !.out = TRUE]
<1>4. /\ DOMAIN resp' = Respondent
      /\ \A x \in Respondent : x # r => resp'[x] = resp[x]
      /\ resp'[r] = z
  BY <1>2, <1>3
<1>5. y \in [key : Nat, next_key : Nat, out : BOOLEAN, in : BOOLEAN,
             inprogress : BOOLEAN, from : Nat, survey : Nat]
      /\ y.key < y.next_key /\ y.from < y.next_key
      /\ (y.inprogress => y.from >= 1)
  BY <1>2 DEF RespOK
<1> HIDE DEF y
<1>6. y.next_key + 1 \in Nat /\ y.next_key \in Nat /\ y.next_key >= 1
      /\ y.key \in Nat /\ y.from \in Nat
  BY <1>5
<1>7. /\ z \in [key : Nat, next_key : Nat, out : BOOLEAN, in : BOOLEAN,
                inprogress : BOOLEAN, from : Nat, survey : Nat]
      /\ z.key = y.next_key /\ z.next_key = y.next_key + 1
      /\ z.from = y.from /\ z.inprogress = y.inprogress /\ z.in = y.in
  BY <1>5, <1>6
<1> HIDE DEF z
<1>8. RespOK(z) /\ z.key >= 1 /\ ~Live(z)
  BY <1>5, <1>6, <1>7 DEF RespOK, Live
<1>9. /\ WaysOK(surveyor, resp', toResp, toSurv)
      /\ GotOK(got, surveyor, resp', toResp, toSurv)
  <2>1. /\ RespOK(resp'[r]) /\ ~Live(resp'[r])
        /\ resp'[r].in => toResp[r] # << >>
    BY <1>2, <1>4, <1>7, <1>8 DEF y
  <2> QED BY <2>1, <1>4, OnlyResp
<1>10. UpOK(up', resp')
  BY <1>1, <1>3, <1>4, <1>8 DEF UpOK
<1> QED BY <1>1, <1>3, <1>9, <1>10 DEF SurveyInv

(* PipeDown: the way is empty.                                             *)
LEMMA DownStep ==
  ASSUME Fit, SurveyInv, NEW r \in Respondent, PipeDown(r)
  PROVE  SurveyInv'
<1>1. /\ SurvOK(surveyor) /\ WaysOK(surveyor, resp, toResp, toSurv)
      /\ GotOK(got, surveyor, resp, toResp, toSurv)
      /\ UpOK(up, resp) /\ FqOK(inpipes, toSurv)
  BY DEF SurveyInv
<1>2. RespOK(resp[r]) /\ DOMAIN resp = Respondent
      /\ DOMAIN toResp = Respondent /\ DOMAIN toSurv = Respondent
  BY <1>1 DEF WaysOK
<1>3. /\ resp' = [resp EXCEPT ![r].key = 0, ![r].out = FALSE,
                              ![r].in = FALSE]
      /\ up' = up \ {r} /\ UNCHANGED <<surveyor, got>>
      /\ inpipes' = nn_priolist_rm(inpipes, r, 1)
      /\ toResp' = [toResp EXCEPT ![r] = << >>]
      /\ toSurv' = [toSurv EXCEPT ![r] = << >>]
  BY DEF PipeDown, nn_xrespondent_rm, nn_xsurveyor_rm
<1> DEFINE y == resp[r]
           z == [y EXCEPT !.key = 0, !.out = FALSE, !.in = FALSE]
           q == resp'
           c == toResp'
           d == toSurv'
<1>4. /\ DOMAIN q = Respondent /\ DOMAIN c = Respondent
      /\ DOMAIN d = Respondent
      /\ \A x \in Respondent :
           x # r => q[x] = resp[x] /\ c[x] = toResp[x] /\ d[x] = toSurv[x]
      /\ q[r] = z /\ c[r] = << >> /\ d[r] = << >>
  BY <1>2, <1>3
<1>5. y \in [key : Nat, next_key : Nat, out : BOOLEAN, in : BOOLEAN,
             inprogress : BOOLEAN, from : Nat, survey : Nat]
      /\ y.key < y.next_key /\ y.from < y.next_key
      /\ (y.inprogress => y.from >= 1)
  BY <1>2 DEF RespOK
<1> HIDE DEF y
<1>6. /\ z \in [key : Nat, next_key : Nat, out : BOOLEAN, in : BOOLEAN,
                inprogress : BOOLEAN, from : Nat, survey : Nat]
      /\ z.key = 0 /\ z.next_key = y.next_key
      /\ z.from = y.from /\ z.inprogress = y.inprogress /\ ~z.in
  BY <1>5
<1> HIDE DEF z
<1>7. RespOK(z) /\ ~Live(z)
  BY <1>5, <1>6 DEF RespOK, Live
<1> HIDE DEF q, c, d
<1>8. Line(r, q[r], c[r], d[r], Limit(surveyor))
      /\ Absent(q[r], c[r], d[r], surveyor.id)
  <2>1. Line(r, z, << >>, << >>, Limit(surveyor))
    BY <1>7, LineEmpty
  <2>2. Len(<< >>) = 0
    OBVIOUS
  <2> QED BY <2>1, <2>2, <1>4, <1>7 DEF Absent
<1>9. WaysOK(surveyor, q, c, d) /\ GotOK(got, surveyor, q, c, d)
  <2>1. RespOK(q[r]) /\ ~q[r].in
    BY <1>4, <1>6, <1>7
  <2>2. q[r].in => c[r] # << >>
    BY <2>1
  <2>3. Absent(resp[r], toResp[r], toSurv[r], surveyor.id)
          => Absent(q[r], c[r], d[r], surveyor.id)
    BY <1>8
  <2>4. Line(r, q[r], c[r], d[r], Limit(surveyor))
    BY <1>8
  <2>5. /\ DOMAIN q = Respondent /\ DOMAIN c = Respondent
        /\ DOMAIN d = Respondent
        /\ \A x \in Respondent :
             x # r => q[x] = resp[x] /\ c[x] = toResp[x] /\ d[x] = toSurv[x]
    BY <1>4
  <2> QED BY <2>1, <2>2, <2>3, <2>4, <2>5, <1>1, OneWay
<1>10. FqOK(inpipes', d)
  <2> DEFINE o == 1
             f == nn_priolist_rm(inpipes, r, o)
  <2>1. /\ SLOTS \in Nat /\ o \in Prio /\ NoPipe \notin Respondent
        /\ ListOK(inpipes, Respondent)
    BY <1>1 DEF Fit, Prio, FqOK
  <2>2. inpipes' = f /\ o = 1
    BY <1>3
  <2> HIDE DEF o
  <2>3. /\ ListOK(f, Respondent)
        /\ \A j \in Prio : Elements(f.pipes[j])
             = IF j = o THEN Elements(inpipes.pipes[j]) \ {r}
                        ELSE Elements(inpipes.pipes[j])
    BY <2>1, RmOK
  <2> HIDE DEF f
  <2>4. \A i \in Prio : \A x \in Elements(inpipes.pipes[i]) :
          i = 1 /\ toSurv[x] # << >> /\ x \in Respondent
    BY <1>1, <2>1, MemberOf DEF FqOK
  <2>5. \A i \in Prio : \A x \in Elements(f.pipes[i]) :
          i = 1 /\ d[x] # << >>
    BY <2>2, <2>3, <2>4, <1>4
  <2> QED BY <2>2, <2>3, <2>5 DEF FqOK
<1>11. UpOK(up', q)
  BY <1>1, <1>3, <1>4 DEF UpOK
<1> QED BY <1>1, <1>3, <1>9, <1>10, <1>11 DEF SurveyInv, q, c, d
(* nn_respondent_recv: the survey taken is the one being answered now.     *)
LEMMA RespondentRecv ==
  ASSUME SurveyInv, NEW r \in Respondent, nn_respondent_recv(r)
  PROVE  SurveyInv'
<1>1. /\ SurvOK(surveyor) /\ WaysOK(surveyor, resp, toResp, toSurv)
      /\ GotOK(got, surveyor, resp, toResp, toSurv)
      /\ UpOK(up, resp) /\ FqOK(inpipes, toSurv)
  BY DEF SurveyInv
<1>2. RespOK(resp[r]) /\ DOMAIN resp = Respondent
      /\ DOMAIN toResp = Respondent /\ DOMAIN toSurv = Respondent
      /\ (resp[r].in => toResp[r] # << >>)
      /\ Line(r, resp[r], toResp[r], toSurv[r], Limit(surveyor))
      /\ toResp[r] \in Seq(Nat)
  BY <1>1 DEF WaysOK, Line
<1>3. /\ resp[r].in /\ toResp' = [toResp EXCEPT ![r] = Tail(@)]
      /\ resp' = [resp EXCEPT ![r].inprogress = TRUE, ![r].from = resp[r].key,
                              ![r].survey = Head(toResp[r]),
                              ![r].in = Len(toResp[r]) > 1]
      /\ UNCHANGED <<surveyor, inpipes, up, toSurv, got>>
  BY DEF nn_respondent_recv, nn_xrespondent_recv
<1> DEFINE y == resp[r]
           n == Head(toResp[r])
           more == Len(toResp[r]) > 1
           z == [y EXCEPT !.inprogress = TRUE, !.from = y.key,
                          !.survey = n, !.in = more]
           q == resp'
           c == toResp'
<1>4. /\ DOMAIN q = Respondent /\ DOMAIN c = Respondent
      /\ \A x \in Respondent : x # r => q[x] = resp[x] /\ c[x] = toResp[x]
      /\ q[r] = z /\ c[r] = Tail(toResp[r])
  BY <1>2, <1>3
<1>5. y \in [key : Nat, next_key : Nat, out : BOOLEAN, in : BOOLEAN,
             inprogress : BOOLEAN, from : Nat, survey : Nat]
      /\ y.key < y.next_key /\ y.key >= 1
  BY <1>2, <1>3 DEF RespOK
<1>6. toResp[r] # << >>
  BY <1>2, <1>3
<1>7. /\ n \in Nat /\ more \in BOOLEAN
      /\ Len(toResp[r]) \in Nat /\ Len(c[r]) = Len(toResp[r]) - 1
  BY <1>2, <1>4, <1>6, TailOf
<1> HIDE DEF y, n
<1>8. more => c[r] # << >>
  <2>1. \A x : x = << >> => Len(x) = 0
    OBVIOUS
  <2> HIDE DEF q, c
  <2> QED BY <2>1, <1>7
<1> HIDE DEF more
<1>9. /\ z \in [key : Nat, next_key : Nat, out : BOOLEAN, in : BOOLEAN,
                inprogress : BOOLEAN, from : Nat, survey : Nat]
      /\ z.key = y.key /\ z.next_key = y.next_key
      /\ z.from = y.key /\ z.survey = n /\ z.in = more
  BY <1>5, <1>7
<1> HIDE DEF z
<1>10. RespOK(z)
  BY <1>5, <1>9 DEF RespOK
<1> HIDE DEF q, c
<1>11. Line(r, q[r], c[r], toSurv[r], Limit(surveyor))
  <2>1. Limit(surveyor) \in Int
    BY <1>1, LimitIs
  <2>2. Live(z) => z.survey = Head(toResp[r])
    BY <1>9 DEF n
  <2>3. Line(r, z, Tail(toResp[r]), toSurv[r], Limit(surveyor))
    BY <2>1, <2>2, <1>2, <1>6, LineTaken
  <2> QED BY <2>3, <1>4
<1>12. Absent(resp[r], toResp[r], toSurv[r], surveyor.id)
         => Absent(q[r], c[r], toSurv[r], surveyor.id)
  <2> SUFFICES ASSUME Absent(resp[r], toResp[r], toSurv[r], surveyor.id)
               PROVE  Absent(q[r], c[r], toSurv[r], surveyor.id)
    OBVIOUS
  <2>1. /\ n = toResp[r][1] /\ 1 \in 1 .. Len(toResp[r])
        /\ \A i \in 1 .. Len(c[r]) : /\ c[r][i] = toResp[r][i + 1]
                                     /\ i + 1 \in 1 .. Len(toResp[r])
    BY <1>2, <1>4, <1>6, TailOf DEF n
  <2>2. \A i \in 1 .. Len(toResp[r]) : toResp[r][i] # surveyor.id
    BY DEF Absent
  <2>3. \A i \in 1 .. Len(c[r]) : c[r][i] # surveyor.id
    BY <2>1, <2>2
  <2>4. q[r].survey # surveyor.id
    BY <2>1, <2>2, <1>4, <1>9
  <2> QED BY <2>3, <2>4 DEF Absent
<1>13. /\ WaysOK(surveyor, q, c, toSurv)
       /\ GotOK(got, surveyor, q, c, toSurv)
  <2>1. RespOK(q[r]) /\ (q[r].in => c[r] # << >>)
    BY <1>4, <1>8, <1>9, <1>10
  <2>2. /\ DOMAIN q = Respondent /\ DOMAIN c = Respondent
        /\ DOMAIN toSurv = Respondent
        /\ \A x \in Respondent :
             x # r => /\ q[x] = resp[x] /\ c[x] = toResp[x]
                      /\ toSurv[x] = toSurv[x]
    BY <1>2, <1>4
  <2> QED BY <2>1, <2>2, <1>1, <1>11, <1>12, OneWay
<1>14. UpOK(up, q)
  <2>1. q[r].key = resp[r].key
    BY <1>4, <1>9 DEF y
  <2> QED BY <2>1, <1>1, <1>4 DEF UpOK
<1> QED BY <1>1, <1>3, <1>13, <1>14 DEF SurveyInv, q, c

(* nn_respondent_send: the response is the last of the ones that wait.     *)
(* The survey may be given up instead.                                     *)
LEMMA RespondentSend ==
  ASSUME SurveyInv, NEW r \in Respondent,
         nn_respondent_send(r) \/ nn_respondent_recv_again(r)
  PROVE  SurveyInv'
<1>1. /\ SurvOK(surveyor) /\ WaysOK(surveyor, resp, toResp, toSurv)
      /\ GotOK(got, surveyor, resp, toResp, toSurv)
      /\ UpOK(up, resp) /\ FqOK(inpipes, toSurv)
  BY DEF SurveyInv
<1>2. RespOK(resp[r]) /\ DOMAIN resp = Respondent
      /\ DOMAIN toResp = Respondent /\ DOMAIN toSurv = Respondent
      /\ (resp[r].in => toResp[r] # << >>)
      /\ Line(r, resp[r], toResp[r], toSurv[r], Limit(surveyor))
      /\ toSurv[r] \in Seq(Response(r))
  BY <1>1 DEF WaysOK, Line
<1>3. /\ resp[r].inprogress
      /\ UNCHANGED <<surveyor, inpipes, up, toResp, got>>
  BY DEF nn_respondent_send, nn_respondent_recv_again
<1> DEFINE y == resp[r]
           m == [survey |-> y.survey, by |-> r]
           more == Len(toSurv[r]) + 1 < Cap
<1>4. y \in [key : Nat, next_key : Nat, out : BOOLEAN, in : BOOLEAN,
             inprogress : BOOLEAN, from : Nat, survey : Nat]
      /\ y.key < y.next_key /\ y.from < y.next_key /\ y.inprogress
      /\ (y.in => y.key >= 1)
  BY <1>2, <1>3 DEF RespOK
<1>5. CASE /\ resp[r].from = resp[r].key /\ resp[r].out
           /\ toSurv' = [toSurv EXCEPT ![r] =
                           Append(@, [survey |-> resp[r].survey, by |-> r])]
           /\ resp' = [resp EXCEPT ![r].inprogress = FALSE,
                                   ![r].out = Len(toSurv[r]) + 1 < Cap]
  <2> DEFINE z == [y EXCEPT !.inprogress = FALSE, !.out = more]
             q == resp'
             d == toSurv'
  <2>1. /\ DOMAIN q = Respondent /\ DOMAIN d = Respondent
        /\ \A x \in Respondent : x # r => q[x] = resp[x] /\ d[x] = toSurv[x]
        /\ q[r] = z /\ d[r] = Append(toSurv[r], m)
    BY <1>2, <1>5
  <2>2. y.from = y.key /\ more \in BOOLEAN /\ m.survey = y.survey
        /\ m \in Response(r)
    BY <1>4, <1>5 DEF Response
  <2> HIDE DEF y, m, more
  <2>3. /\ z \in [key : Nat, next_key : Nat, out : BOOLEAN, in : BOOLEAN,
                  inprogress : BOOLEAN, from : Nat, survey : Nat]
        /\ z.key = y.key /\ z.next_key = y.next_key /\ z.from = y.from
        /\ ~z.inprogress /\ z.in = y.in
    BY <1>4, <2>2
  <2> HIDE DEF z
  <2>4. RespOK(z) /\ ~Live(z) /\ Live(y)
    BY <1>4, <2>2, <2>3 DEF RespOK, Live
  <2> HIDE DEF q, d
  <2>5. Line(r, q[r], toResp[r], d[r], Limit(surveyor))
    <3>1. Limit(surveyor) \in Int /\ y.survey \in Nat
      BY <1>1, <1>4, LimitIs
    <3>2. Line(r, y, toResp[r], toSurv[r], Limit(surveyor))
      BY <1>2 DEF y
    <3>3. Line(r, z, toResp[r], Append(toSurv[r], m), Limit(surveyor))
      BY <3>1, <3>2, <2>2, <2>4, LineAnswered
    <3> QED BY <3>3, <2>1
  <2>6. Absent(resp[r], toResp[r], toSurv[r], surveyor.id)
          => Absent(q[r], toResp[r], d[r], surveyor.id)
    <3> SUFFICES ASSUME Absent(resp[r], toResp[r], toSurv[r], surveyor.id)
                 PROVE  Absent(q[r], toResp[r], d[r], surveyor.id)
      OBVIOUS
    <3>1. /\ Len(toSurv[r]) \in Nat /\ Len(d[r]) = Len(toSurv[r]) + 1
          /\ \A i \in 1 .. Len(toSurv[r]) : d[r][i] = toSurv[r][i]
          /\ d[r][Len(toSurv[r]) + 1] = m
      BY <1>2, <2>1, <2>2
    <3>2. m.survey # surveyor.id
      BY <2>2, <2>4 DEF Absent, y
    <3>3. \A i \in 1 .. Len(toSurv[r]) : toSurv[r][i].survey # surveyor.id
      BY DEF Absent
    <3>4. \A i \in 1 .. Len(d[r]) : d[r][i].survey # surveyor.id
      <4> TAKE i \in 1 .. Len(d[r])
      <4>1. i \in 1 .. Len(toSurv[r]) \/ i = Len(toSurv[r]) + 1
        BY <3>1
      <4> QED BY <4>1, <3>1, <3>2, <3>3
    <3> QED BY <3>4, <2>1, <2>4 DEF Absent
  <2>7. /\ WaysOK(surveyor, q, toResp, d)
        /\ GotOK(got, surveyor, q, toResp, d)
    <3>1. RespOK(q[r]) /\ (q[r].in => toResp[r] # << >>)
      BY <1>2, <2>1, <2>3, <2>4 DEF y
    <3>2. /\ DOMAIN q = Respondent /\ DOMAIN toResp = Respondent
          /\ DOMAIN d = Respondent
          /\ \A x \in Respondent :
               x # r => /\ q[x] = resp[x] /\ toResp[x] = toResp[x]
                        /\ d[x] = toSurv[x]
      BY <1>2, <2>1
    <3> QED BY <3>1, <3>2, <1>1, <2>5, <2>6, OneWay
  <2>8. UpOK(up, q)
    <3>1. q[r].key = resp[r].key
      BY <2>1, <2>3 DEF y
    <3> QED BY <3>1, <1>1, <2>1 DEF UpOK
  <2>9. FqOK(inpipes, d)
    <3>1. d[r] # << >>
      <4> DEFINE e == Append(toSurv[r], m)
      <4>1. Len(e) = Len(toSurv[r]) + 1 /\ Len(toSurv[r]) \in Nat
        BY <1>2, <2>2
      <4>2. \A x : x = << >> => Len(x) = 0
        OBVIOUS
      <4>3. d[r] = e
        BY <2>1
      <4> HIDE DEF e
      <4> QED BY <4>1, <4>2, <4>3
    <3>2. \A i \in Prio : \A x \in Elements(inpipes.pipes[i]) :
            i = 1 /\ toSurv[x] # << >> /\ x \in Respondent
      BY <1>1, MemberOf DEF FqOK
    <3> QED BY <3>1, <3>2, <1>1, <2>1 DEF FqOK
  <2> QED BY <1>1, <1>3, <2>7, <2>8, <2>9 DEF SurveyInv, q, d
<1>6. CASE /\ resp' = [resp EXCEPT ![r].inprogress = FALSE]
           /\ UNCHANGED toSurv
  <2> DEFINE z == [y EXCEPT !.inprogress = FALSE]
  <2>1. /\ DOMAIN resp' = Respondent
        /\ \A x \in Respondent : x # r => resp'[x] = resp[x]
        /\ resp'[r] = z
    BY <1>2, <1>6
  <2>2. /\ z \in [key : Nat, next_key : Nat, out : BOOLEAN, in : BOOLEAN,
                  inprogress : BOOLEAN, from : Nat, survey : Nat]
        /\ z.key = y.key /\ z.next_key = y.next_key /\ z.from = y.from
        /\ ~z.inprogress /\ z.in = y.in
    BY <1>4
  <2> HIDE DEF z
  <2>3. RespOK(z) /\ ~Live(z)
    BY <1>4, <2>2 DEF RespOK, Live
  <2>4. /\ WaysOK(surveyor, resp', toResp, toSurv)
        /\ GotOK(got, surveyor, resp', toResp, toSurv)
    <3>1. RespOK(resp'[r]) /\ ~Live(resp'[r])
          /\ (resp'[r].in => toResp[r] # << >>)
      BY <1>2, <2>1, <2>2, <2>3
    <3> QED BY <3>1, <2>1, OnlyResp
  <2>5. UpOK(up, resp')
    BY <1>1, <2>1, <2>2 DEF UpOK
  <2> QED BY <1>1, <1>3, <1>6, <2>4, <2>5 DEF SurveyInv
<1> QED BY <1>5, <1>6 DEF nn_respondent_send, nn_xrespondent_send,
                          nn_respondent_recv_again

-----------------------------------------------------------------------------
(* The invariant at the start.                                             *)
LEMMA SurveyInit ==
  ASSUME Fit, Init PROVE SurveyInv
<1>1. SurvOK(surveyor) /\ surveyor.state = "PASSIVE"
  BY DEF Init, SurvOK, States, Timers
<1>2. /\ DOMAIN resp = Respondent /\ DOMAIN toResp = Respondent
      /\ DOMAIN toSurv = Respondent
      /\ \A r \in Respondent :
           /\ resp[r] = [key |-> 0, next_key |-> 1, out |-> FALSE,
                         in |-> FALSE, inprogress |-> FALSE, from |-> 0,
                         survey |-> 0]
           /\ toResp[r] = << >> /\ toSurv[r] = << >>
      /\ up = {} /\ got = << >> /\ inpipes = EmptyList
  BY DEF Init
<1>3. ASSUME NEW r \in Respondent
      PROVE  /\ RespOK(resp[r]) /\ ~resp[r].in
             /\ Line(r, resp[r], toResp[r], toSurv[r], Limit(surveyor))
  <2>1. RespOK(resp[r]) /\ ~resp[r].in /\ ~resp[r].inprogress
    <3> DEFINE z == [key |-> 0, next_key |-> 1, out |-> FALSE, in |-> FALSE,
                     inprogress |-> FALSE, from |-> 0, survey |-> 0]
    <3>1. /\ z \in [key : Nat, next_key : Nat, out : BOOLEAN, in : BOOLEAN,
                    inprogress : BOOLEAN, from : Nat, survey : Nat]
          /\ z.key = 0 /\ z.next_key = 1 /\ z.from = 0
      OBVIOUS
    <3>2. ~z.in /\ ~z.inprogress
      OBVIOUS
    <3>3. resp[r] = z
      BY <1>2
    <3> HIDE DEF z
    <3>4. RespOK(z)
      BY <3>1, <3>2 DEF RespOK
    <3> QED BY <3>2, <3>3, <3>4
  <2>2. ~Live(resp[r])
    BY <2>1 DEF Live
  <2> QED BY <2>1, <2>2, <1>2, LineEmpty
<1>4. WaysOK(surveyor, resp, toResp, toSurv)
  BY <1>2, <1>3 DEF WaysOK
<1>5. GotOK(got, surveyor, resp, toResp, toSurv)
  <2>1. << >> \in Seq(Msg) /\ Len(<< >>) = 0
    OBVIOUS
  <2> QED BY <1>2, <2>1 DEF GotOK, Msg
<1>6. FqOK(inpipes, toSurv)
  <2>1. SLOTS \in Nat
    BY DEF Fit
  <2>2. ListOK(EmptyList, Respondent)
        /\ \A i \in Prio : Elements(EmptyList.pipes[i]) = {}
    BY <2>1, EmptyOK
  <2> QED BY <1>2, <2>2 DEF FqOK
<1>7. UpOK(up, resp)
  BY <1>2 DEF UpOK
<1> QED BY <1>1, <1>4, <1>5, <1>6, <1>7 DEF SurveyInv

(* Every step keeps the invariant.                                         *)
LEMMA SurveyStep ==
  ASSUME Fit, SurveyInv, [Next]_vars PROVE SurveyInv'
<1>1. CASE nn_surveyor_send
  BY <1>1, SendStep
<1>2. CASE nn_surveyor_recv
  BY <1>2, RecvStep
<1>3. CASE RecvTimedOut \/ Deadline \/ TimerStopped \/ Close
           \/ nn_surveyor_stop
  BY <1>3, TimerSteps
<1>4. ASSUME NEW r \in Respondent,
             \/ nn_xsurveyor_in(r) \/ nn_xsurveyor_out(r)
             \/ nn_xrespondent_in(r) \/ nn_xrespondent_out(r)
      PROVE  SurveyInv'
  BY <1>4, EventSteps
<1>5. ASSUME NEW r \in Respondent, PipeUp(r) PROVE SurveyInv'
  BY <1>5, UpStep
<1>6. ASSUME NEW r \in Respondent, PipeDown(r) PROVE SurveyInv'
  BY <1>6, DownStep
<1>7. ASSUME NEW r \in Respondent, nn_respondent_recv(r) PROVE SurveyInv'
  BY <1>7, RespondentRecv
<1>8. ASSUME NEW r \in Respondent,
             nn_respondent_send(r) \/ nn_respondent_recv_again(r)
      PROVE  SurveyInv'
  BY <1>8, RespondentSend
<1>9. CASE UNCHANGED vars
  BY <1>9 DEF vars, SurveyInv
<1> QED
  BY <1>1, <1>2, <1>3, <1>4, <1>5, <1>6, <1>7, <1>8, <1>9 DEF Next

(* What the invariant says of the surveyor and of its user.                *)
LEMMA SurveyMeans ==
  ASSUME SurveyInv PROVE SurveyorStates /\ OwnResponses
<1>1. SurvOK(surveyor) /\ GotOK(got, surveyor, resp, toResp, toSurv)
  BY DEF SurveyInv
<1>2. SurveyorStates
  BY <1>1 DEF SurvOK, States, SurveyorStates
<1>3. got \in Seq(Msg)
  BY <1>1 DEF GotOK, Msg
<1>4. DOMAIN got = 1 .. Len(got)
  BY <1>3
<1>5. OwnResponses
  BY <1>1, <1>4 DEF GotOK, OwnResponses
<1> QED BY <1>2, <1>5

(* However deadlines, calls and a close interleave, the state machine of   *)
(* nn_surveyor meets no event it has no case for (surveyor.c).             *)
THEOREM StatesAreRight == Fit => (Spec => []SurveyorStates)
<1> SUFFICES ASSUME Fit PROVE Spec => []SurveyorStates
  OBVIOUS
<1>1. Init => SurveyInv
  BY SurveyInit
<1>2. SurveyInv /\ [Next]_vars => SurveyInv'
  BY SurveyStep
<1>3. SurveyInv => SurveyorStates
  BY SurveyMeans
<1> QED BY <1>1, <1>2, <1>3, PTL DEF Spec

(* The user gets responses to the last survey only, at most one from each  *)
(* respondent, whatever was cancelled, late, or sent over a pipe that has  *)
(* since been replaced (nn_surveyor_recv).                                 *)
THEOREM ResponsesAreOwn == Fit => (Spec => []OwnResponses)
<1> SUFFICES ASSUME Fit PROVE Spec => []OwnResponses
  OBVIOUS
<1>1. Init => SurveyInv
  BY SurveyInit
<1>2. SurveyInv /\ [Next]_vars => SurveyInv'
  BY SurveyStep
<1>3. SurveyInv => OwnResponses
  BY SurveyMeans
<1> QED BY <1>1, <1>2, <1>3, PTL DEF Spec

=============================================================================
