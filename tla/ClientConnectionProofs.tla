----------------------- MODULE ClientConnectionProofs -----------------------
(***************************************************************************)
(* What is proved of ClientConnection, for any number of starts of the      *)
(* server, any names seen and any bounds.                                  *)
(***************************************************************************)
EXTENDS ClientConnection, SequenceTheorems, TLAPS

(* UNCHANGED vars is that of each variable.                                *)
USE DEF vars

-----------------------------------------------------------------------------
(* What is kept of the data.  A call that has a context, or asks for one,   *)
(* is to a server that was started.                                        *)
GoodCall == {c \in Call : c.stage # "improxy" => c.server \in Start}

GoodApp(s) == s \in App /\ s.calls \in Seq(GoodCall)

GoodServer(v) == v \in Server /\ (Up(v) => v.start \in Start)

(* The element that is removed is one, and the others are those of before.  *)
LEMMA RemoveAtSeq ==
  ASSUME NEW S, NEW s \in Seq(S), NEW i \in DOMAIN s
  PROVE  RemoveAt(s, i) \in Seq(S)
BY DEF RemoveAt

LEMMA ElementOf ==
  ASSUME NEW S, NEW s \in Seq(S), NEW i \in DOMAIN s
  PROVE  s[i] \in S
OBVIOUS

(* Whatever is not removed was there before.                                *)
LEMMA RemovedFrom ==
  ASSUME NEW S, NEW s \in Seq(S), NEW i \in DOMAIN s, NEW j \in DOMAIN RemoveAt(s, i)
  PROVE  \E k \in DOMAIN s : RemoveAt(s, i)[j] = s[k]
<1> DEFINE a == SubSeq(s, 1, i - 1)
           b == SubSeq(s, i + 1, Len(s))
<1>1. i \in 1 .. Len(s) /\ Len(s) \in Nat /\ DOMAIN s = 1 .. Len(s) OBVIOUS
<1>2. /\ a \in Seq(S) /\ Len(a) = i - 1
      /\ \A k \in 1 .. Len(a) : a[k] = s[k]
  BY <1>1
<1>3. /\ b \in Seq(S) /\ Len(b) = Len(s) - i
      /\ \A k \in 1 .. Len(b) : b[k] = s[i + k]
  BY <1>1
<1>4. RemoveAt(s, i) = a \o b BY DEF RemoveAt
<1> HIDE DEF a, b
<1>5. j \in 1 .. Len(a) + Len(b) BY <1>2, <1>3, <1>4, ConcatProperties
<1>6. (a \o b)[j] = IF j <= Len(a) THEN a[j] ELSE b[j - Len(a)]
  BY <1>2, <1>3, <1>5, ConcatProperties
<1>7. CASE j <= Len(a)
  <2>1. j \in DOMAIN s /\ (a \o b)[j] = s[j] BY <1>1, <1>2, <1>5, <1>6, <1>7
  <2> QED BY <1>4, <2>1
<1>8. CASE j > Len(a)
  <2> DEFINE k == j - Len(a)
  <2>1. k \in 1 .. Len(b) /\ i + k \in 1 .. Len(s) BY <1>1, <1>2, <1>3, <1>5, <1>8
  <2>2. (a \o b)[j] = b[k] BY <1>2, <1>5, <1>6, <1>8
  <2>3. (a \o b)[j] = s[i + k] BY <1>3, <2>1, <2>2
  <2> QED BY <1>1, <1>4, <2>1, <2>3
<1> QED BY <1>2, <1>5, <1>7, <1>8

(* The calls with some of them cancelled and none held.                    *)
CancelledCall(c) == [c EXCEPT !.fails = @ \/ c.held, !.held = FALSE]
NotHeld(c) == [c EXCEPT !.held = FALSE]
ClosedCall(c, via) == [c EXCEPT !.fails = @ \/ (via # Bus /\ c.via = via)]

Cancelled(calls)   == [i \in DOMAIN calls |-> CancelledCall(calls[i])]
NoneHeld(calls)    == [i \in DOMAIN calls |-> NotHeld(calls[i])]
Closed(calls, via) == [i \in DOMAIN calls |-> ClosedCall(calls[i], via)]

LEMMA GoodCalls ==
  ASSUME NEW calls \in Seq(GoodCall), NEW via
  PROVE  /\ Cancelled(calls) \in Seq(GoodCall)
         /\ NoneHeld(calls) \in Seq(GoodCall)
         /\ Closed(calls, via) \in Seq(GoodCall)
<1>1. \A i \in DOMAIN calls : calls[i] \in GoodCall OBVIOUS
<1>2. \A c \in GoodCall : NotHeld(c) \in GoodCall BY DEF GoodCall, Call, NotHeld
<1>3. \A c \in GoodCall : CancelledCall(c) \in GoodCall BY DEF GoodCall, Call, CancelledCall
<1>4. \A c \in GoodCall : ClosedCall(c, via) \in GoodCall BY DEF GoodCall, Call, ClosedCall
<1>5. Cancelled(calls) \in Seq(GoodCall) BY <1>1, <1>3 DEF Cancelled
<1>6. NoneHeld(calls) \in Seq(GoodCall) BY <1>1, <1>2 DEF NoneHeld
<1>7. Closed(calls, via) \in Seq(GoodCall) BY <1>1, <1>4 DEF Closed
<1> QED BY <1>5, <1>6, <1>7

-----------------------------------------------------------------------------
(* What the operations leave alone, and what they make of the rest.        *)

SameConnection(s, t) == t.connection = s.connection /\ t.overtaken = s.overtaken

Asked == [via : 0 .. MaxStarts, late : BOOLEAN]

Kept(s, t) == /\ t.watching = s.watching /\ t.asked = s.asked
              /\ t.news = s.news /\ t.timers = s.timers

LEMMA ClientCleanUpGood ==
  ASSUME NEW s, GoodApp(s)
  PROVE  LET t == ClientCleanUp(s)
         IN  GoodApp(t) /\ Kept(s, t) /\ SameConnection(s, t)
<1> DEFINE t == ClientCleanUp(s)
<1>1. t = [s EXCEPT !.is_portal = FALSE, !.calls = Cancelled(s.calls), !.icproxy = NoProxy]
  BY DEF ClientCleanUp, Cancelled, CancelledCall
<1>2. Cancelled(s.calls) \in Seq(GoodCall) BY GoodCalls DEF GoodApp
<1>3. Cancelled(s.calls) \in Seq(Call) BY <1>2 DEF GoodCall
<1>4. s \in App BY DEF GoodApp
<1>5. t \in App /\ t.calls = Cancelled(s.calls) BY <1>1, <1>3, <1>4 DEF App
<1>6. Kept(s, t) /\ SameConnection(s, t) BY <1>1, <1>4 DEF App, Kept, SameConnection
<1> QED BY <1>2, <1>5, <1>6 DEF GoodApp

LEMMA CleanUpGood ==
  ASSUME NEW s, GoodApp(s)
  PROVE  LET t == CleanUp(s) IN GoodApp(t) /\ Kept(s, t) /\ t.connection = None
<1>1. CASE s.connection = None BY <1>1 DEF CleanUp, Kept
<1>2. CASE s.connection # None
  <2> DEFINE r == [s EXCEPT !.connection = None, !.overtaken = FALSE,
                            !.calls = Closed(s.calls, s.connection)]
  <2>1. CleanUp(s) = ClientCleanUp(r) BY <1>2 DEF CleanUp, Closed, ClosedCall
  <2>2. Closed(s.calls, s.connection) \in Seq(GoodCall) BY GoodCalls DEF GoodApp
  <2>3. Closed(s.calls, s.connection) \in Seq(Call) BY <2>2 DEF GoodCall
  <2>4. s \in App /\ None \in 0 .. MaxStarts + 1 BY BoundsAssumption DEF GoodApp, None
  <2>5. r \in App /\ r.calls = Closed(s.calls, s.connection) BY <2>3, <2>4 DEF App
  <2>6. Kept(s, r) /\ r.connection = None BY <2>4 DEF App, Kept
  <2>7. GoodApp(r) BY <2>2, <2>5 DEF GoodApp
  <2> HIDE DEF r
  <2> QED BY <2>1, <2>6, <2>7, ClientCleanUpGood DEF Kept, SameConnection
<1> QED BY <1>1, <1>2

LEMMA AskGood ==
  ASSUME NEW s, GoodApp(s), NEW stage \in {"improxy", "create", "icproxy"},
         NEW name \in Name, NEW via \in 0 .. MaxStarts, NEW start \in 0 .. MaxStarts,
         stage # "improxy" => start \in Start
  PROVE  LET t == Ask(s, stage, name, via, start)
         IN  GoodApp(t) /\ Kept(s, t) /\ SameConnection(s, t)
<1> DEFINE c == [stage |-> stage, name |-> name, via |-> via,
                 server |-> start, held |-> TRUE, fails |-> FALSE]
           t == Ask(s, stage, name, via, start)
<1>1. c \in GoodCall BY DEF GoodCall, Call
<1>2. t = [s EXCEPT !.calls = Append(@, c)] BY DEF Ask
<1> HIDE DEF c
<1>3. Append(s.calls, c) \in Seq(GoodCall) BY <1>1 DEF GoodApp
<1>4. Append(s.calls, c) \in Seq(Call) BY <1>3 DEF GoodCall
<1>5. s \in App BY DEF GoodApp
<1>6. t \in App /\ t.calls = Append(s.calls, c) BY <1>2, <1>4, <1>5 DEF App
<1>7. Kept(s, t) /\ SameConnection(s, t) BY <1>2, <1>5 DEF App, Kept, SameConnection
<1> QED BY <1>3, <1>6, <1>7 DEF GoodApp

LEMMA AnsweredGood ==
  ASSUME NEW s, GoodApp(s), NEW i \in DOMAIN s.calls
  PROVE  LET t == Answered(s, i)
         IN  GoodApp(t) /\ Kept(s, t) /\ SameConnection(s, t)
<1> DEFINE t == Answered(s, i)
           calls == RemoveAt(NoneHeld(s.calls), i)
<1>1. t = [s EXCEPT !.calls = calls] BY DEF Answered, NoneHeld, NotHeld
<1>2. NoneHeld(s.calls) \in Seq(GoodCall) BY GoodCalls DEF GoodApp
<1>3. i \in DOMAIN NoneHeld(s.calls) BY DEF NoneHeld
<1>4. calls \in Seq(GoodCall) BY <1>2, <1>3, RemoveAtSeq
<1>5. calls \in Seq(Call) BY <1>4 DEF GoodCall
<1> HIDE DEF calls
<1>6. s \in App BY DEF GoodApp
<1>7. t \in App /\ t.calls = calls BY <1>1, <1>5, <1>6 DEF App
<1>8. Kept(s, t) /\ SameConnection(s, t) BY <1>1, <1>6 DEF App, Kept, SameConnection
<1> QED BY <1>4, <1>7, <1>8 DEF GoodApp

LEMMA ConnectedGood ==
  ASSUME NEW s, GoodApp(s), NEW a \in Asked
  PROVE  LET t == Connected(s, a)
         IN  /\ GoodApp(t) /\ Kept(s, t)
             /\ t.connection = a.via /\ t.overtaken = a.late
<1> DEFINE r == CleanUp(s)
           q == [r EXCEPT !.connection = a.via, !.overtaken = a.late]
<1>0. a.via \in 0 .. MaxStarts /\ a.via \in 0 .. MaxStarts + 1 /\ a.late \in BOOLEAN
  BY BoundsAssumption DEF Asked
<1>1. GoodApp(r) /\ Kept(s, r) BY CleanUpGood
<1>2. GoodApp(q) /\ Kept(s, q) /\ q.connection = a.via /\ q.overtaken = a.late
  <2> HIDE DEF r
  <2>1. r \in App BY <1>1 DEF GoodApp
  <2>2. q \in App /\ q.calls = r.calls BY <1>0, <2>1 DEF App
  <2>3. Kept(s, q) BY <1>1, <2>1 DEF App, Kept
  <2>4. q.connection = a.via /\ q.overtaken = a.late BY <2>1 DEF App
  <2> QED BY <1>1, <2>2, <2>3, <2>4 DEF GoodApp
<1>3. Connected(s, a) = Ask(ClientCleanUp(q), "improxy", "main", a.via, 0)
  BY <1>2 DEF Connected, ClientCreateIC
<1> HIDE DEF q
<1>4. GoodApp(ClientCleanUp(q)) /\ Kept(q, ClientCleanUp(q)) /\ SameConnection(q, ClientCleanUp(q))
  BY <1>2, ClientCleanUpGood
<1>5. 0 \in 0 .. MaxStarts /\ "main" \in Name BY BoundsAssumption DEF Name
<1> QED BY <1>0, <1>2, <1>3, <1>4, <1>5, AskGood DEF Kept, SameConnection

LEMMA UnwatchGood ==
  ASSUME NEW s, GoodApp(s)
  PROVE  LET t == Unwatch(s)
         IN  /\ GoodApp(t) /\ ~t.watching /\ t.news = <<>>
             /\ t.asked = s.asked /\ SameConnection(s, t)
<1>1. s \in App BY DEF GoodApp
<1>2. Unwatch(s) \in App /\ Unwatch(s).calls = s.calls
  <2>1. <<>> \in Seq([name : Name, owned : BOOLEAN]) OBVIOUS
  <2> QED BY <1>1, <2>1 DEF Unwatch, App
<1>3. /\ ~Unwatch(s).watching /\ Unwatch(s).news = <<>>
      /\ Unwatch(s).asked = s.asked /\ SameConnection(s, Unwatch(s))
  BY <1>1 DEF Unwatch, App, SameConnection
<1> QED BY <1>1, <1>2, <1>3 DEF GoodApp

LEMMA WatchGood ==
  ASSUME NEW v, NEW s, GoodApp(s)
  PROVE  LET t == Watch(v, s)
         IN  /\ GoodApp(t) /\ t.watching
             /\ t.asked = s.asked /\ SameConnection(s, t)
<1>1. CASE s.watching BY <1>1 DEF Watch, SameConnection
<1>2. CASE ~s.watching
  <2> DEFINE news == <<[name |-> "main", owned |-> Owned(v, "main", Bus)],
                       [name |-> "portal", owned |-> Owned(v, "portal", Bus)]>>
             status == [n \in Name |-> "unknown"]
             t == Watch(v, s)
  <2>1. news \in Seq([name : Name, owned : BOOLEAN])
    <3>1. Owned(v, "main", Bus) \in BOOLEAN /\ Owned(v, "portal", Bus) \in BOOLEAN
      BY DEF Owned
    <3> QED BY <3>1 DEF Name
  <2>2. status \in [Name -> {"unknown", "present", "gone"}] OBVIOUS
  <2>3. t = [s EXCEPT !.watching = TRUE, !.status = status, !.news = news]
    BY <1>2 DEF Watch
  <2> HIDE DEF news, status
  <2>4. s \in App BY DEF GoodApp
  <2>5. t \in App /\ t.calls = s.calls BY <2>1, <2>2, <2>3, <2>4 DEF App
  <2>6. t.watching /\ t.asked = s.asked /\ SameConnection(s, t)
    BY <2>3, <2>4 DEF App, SameConnection
  <2> QED BY <2>5, <2>6 DEF GoodApp
<1> QED BY <1>1, <1>2

MadeLate(a) == [a EXCEPT !.late = TRUE]

(* One more connection is asked for: it alone is not late.                 *)
LEMMA AskForGood ==
  ASSUME NEW s, GoodApp(s), NEW via \in 0 .. MaxStarts
  PROVE  LET t == AskFor(s, via)
         IN  /\ GoodApp(t) /\ t.watching = s.watching /\ t.news = s.news
             /\ SameConnection(s, t) /\ t.asked # <<>>
             /\ \A k \in DOMAIN t.asked : ~t.asked[k].late => t.asked[k].via = via
<1> DEFINE old == [k \in DOMAIN s.asked |-> MadeLate(s.asked[k])]
           new == [via |-> via, late |-> FALSE]
           asked == Append(old, new)
           t == AskFor(s, via)
<1>1. s \in App BY DEF GoodApp
<1>2. s.asked \in Seq(Asked) BY <1>1 DEF App, Asked
<1>3. old \in Seq(Asked) /\ \A k \in DOMAIN old : old[k].late
  <2>1. \A k \in DOMAIN s.asked : s.asked[k] \in Asked BY <1>2
  <2>2. \A a \in Asked : MadeLate(a) \in Asked /\ MadeLate(a).late BY DEF Asked, MadeLate
  <2>3. old \in Seq(Asked) BY <1>2, <2>1, <2>2
  <2> QED BY <2>1, <2>2, <2>3
<1>4. new \in Asked /\ new.via = via BY DEF Asked
<1>5. t = [s EXCEPT !.asked = asked] BY DEF AskFor, MadeLate
<1> HIDE DEF old, new
<1>6. asked \in Seq(Asked) /\ asked # <<>> BY <1>3, <1>4
<1>7. \A k \in DOMAIN asked : asked[k] = new \/ (k \in DOMAIN old /\ asked[k] = old[k])
  BY <1>3, <1>4
<1>8. \A k \in DOMAIN asked : ~asked[k].late => asked[k].via = via BY <1>3, <1>4, <1>7
<1> HIDE DEF asked, t
<1>9. t \in App /\ t.calls = s.calls /\ t.asked = asked BY <1>1, <1>5, <1>6 DEF App, Asked
<1>10. t.watching = s.watching /\ t.news = s.news /\ SameConnection(s, t)
  BY <1>1, <1>5 DEF App, SameConnection
<1> QED BY <1>6, <1>8, <1>9, <1>10 DEF GoodApp, t

(* The heart of Attentive: who has the session bus, or awaits it, watches,  *)
(* unless another connection was asked for since; so does who has nothing   *)
(* and awaits nothing; and only who watches has news.                      *)
Watchful(s) ==
    /\ s.news # <<>> => s.watching
    /\ \A k \in DOMAIN s.asked : s.asked[k].via = Bus /\ ~s.asked[k].late => s.watching
    /\ s.connection = Bus /\ ~s.overtaken => s.watching
    /\ s.connection = None /\ s.asked = <<>> => s.watching

LEMMA ConnectGood ==
  ASSUME NEW v, GoodServer(v), NEW s, GoodApp(s), NEW useSessionBus \in BOOLEAN
  PROVE  LET t == Connect(v, s, useSessionBus) IN GoodApp(t) /\ Watchful(t)
<1> DEFINE r == CleanUp(Unwatch(s))
<1>1. GoodApp(r) /\ ~r.watching /\ r.news = <<>> /\ r.connection = None
  BY UnwatchGood, CleanUpGood DEF Kept
<1>2. None # Bus BY BoundsAssumption DEF None, Bus
<1>3. CASE ~useSessionBus /\ AddressValid(v)
  <2>1. v.file \in 0 .. MaxStarts /\ v.file # Bus
    BY <1>3 DEF AddressValid, GoodServer, Server, Bus
  <2>2. Connect(v, s, useSessionBus) = AskFor(r, v.file) BY <1>3 DEF Connect
  <2> HIDE DEF r
  <2> QED BY <1>1, <1>2, <2>1, <2>2, AskForGood DEF Watchful, SameConnection
<1>4. CASE ~(~useSessionBus /\ AddressValid(v))
  <2>1. Bus \in 0 .. MaxStarts BY BoundsAssumption DEF Bus
  <2>2. Connect(v, s, useSessionBus) = AskFor(Watch(v, r), Bus) BY <1>4 DEF Connect
  <2> HIDE DEF r
  <2>3. GoodApp(Watch(v, r)) /\ Watch(v, r).watching BY <1>1, WatchGood
  <2> QED BY <2>1, <2>2, <2>3, AskForGood DEF Watchful
<1> QED BY <1>3, <1>4

(* Any of the connections that were asked for is answered.                 *)
LEMMA ConnectDoneGood ==
  ASSUME NEW v, GoodServer(v), NEW s, GoodApp(s), NEW i \in DOMAIN s.asked
  PROVE  LET t == ConnectDone(v, s, i) IN GoodApp(t) /\ (Watchful(s) => Watchful(t))
<1> DEFINE a == s.asked[i]
           asked == RemoveAt(s.asked, i)
           r == [s EXCEPT !.asked = asked]
<1>1. s \in App /\ s.asked \in Seq(Asked) BY DEF GoodApp, App, Asked
<1>2. asked \in Seq(Asked) BY <1>1, RemoveAtSeq
<1>3. \A j \in DOMAIN asked : \E k \in DOMAIN s.asked : asked[j] = s.asked[k]
  BY <1>1, RemovedFrom
<1>4. a \in Asked BY <1>1, ElementOf, Zenon
<1>5. ConnectDone(v, s, i) = IF Alive(v, a.via) THEN Connected(r, a) ELSE Connect(v, r, TRUE)
  BY DEF ConnectDone
<1> HIDE DEF asked
<1>6. r \in App /\ r.calls = s.calls BY <1>1, <1>2 DEF App, Asked
<1>7. r.asked = asked /\ r.watching = s.watching /\ r.news = s.news BY <1>1 DEF App
<1>8. GoodApp(r) BY <1>6 DEF GoodApp
<1> HIDE DEF r
<1>9. CASE ~Alive(v, a.via) BY <1>5, <1>8, <1>9, ConnectGood
<1>10. CASE Alive(v, a.via)
  <2> DEFINE t == Connected(r, a)
  <2>1. GoodApp(t) /\ Kept(r, t) /\ t.connection = a.via /\ t.overtaken = a.late
    BY <1>4, <1>8, ConnectedGood
  <2> HIDE DEF t
  <2>2. ASSUME Watchful(s) PROVE Watchful(t)
    <3>1. t.asked = asked /\ t.watching = s.watching /\ t.news = s.news
      BY <1>7, <2>1 DEF Kept
    <3>2. \A j \in DOMAIN t.asked :
             t.asked[j].via = Bus /\ ~t.asked[j].late => t.watching
      BY <1>3, <2>2, <3>1 DEF Watchful
    <3>3. t.connection = Bus /\ ~t.overtaken => t.watching
      BY <2>1, <2>2, <3>1 DEF Watchful
    <3>4. t.connection # None BY <1>4, <2>1, BoundsAssumption DEF Asked, None
    <3>5. t.news # <<>> => t.watching BY <2>2, <3>1 DEF Watchful
    <3> QED BY <3>2, <3>3, <3>4, <3>5 DEF Watchful
  <2> QED BY <1>5, <1>10, <2>1, <2>2 DEF t
<1> QED BY <1>9, <1>10

(* The end of the connection, a name's news, and a timer.                  *)
LEMMA ClosedGood ==
  ASSUME NEW v, NEW s, GoodApp(s)
  PROVE  LET t == ConnectionClosed(v, s) IN GoodApp(t) /\ Watchful(t)
<1>1. GoodApp(CleanUp(s)) BY CleanUpGood
<1>2. ConnectionClosed(v, s) = Watch(v, CleanUp(s)) BY DEF ConnectionClosed
<1> QED BY <1>1, <1>2, WatchGood DEF Watchful

HeardOf(s, name, status, timers) ==
    [s EXCEPT !.news = Tail(@), !.timers = timers, !.status[name] = status]

LEMMA HeardGood ==
  ASSUME NEW s, GoodApp(s), s.news # <<>>, NEW name \in Name,
         NEW status \in {"present", "gone"}, NEW timers \in 0 .. 2
  PROVE  LET t == HeardOf(s, name, status, timers)
         IN  /\ GoodApp(t) /\ t.watching = s.watching
             /\ t.asked = s.asked /\ SameConnection(s, t)
<1> DEFINE t == HeardOf(s, name, status, timers)
           known == [s.status EXCEPT ![name] = status]
<1>1. s \in App BY DEF GoodApp
<1>2. Tail(s.news) \in Seq([name : Name, owned : BOOLEAN])
  BY <1>1, HeadTailProperties DEF App
<1>3. known \in [Name -> {"unknown", "present", "gone"}] BY <1>1 DEF App
<1>4. t = [s EXCEPT !.news = Tail(s.news), !.timers = timers, !.status = known]
  BY <1>1 DEF HeardOf, App
<1> HIDE DEF known
<1>5. t \in App /\ t.calls = s.calls BY <1>1, <1>2, <1>3, <1>4 DEF App
<1>6. t.watching = s.watching /\ t.asked = s.asked /\ SameConnection(s, t)
  BY <1>1, <1>4 DEF App, SameConnection
<1> QED BY <1>5, <1>6 DEF GoodApp

LEMMA NameNewsGood ==
  ASSUME NEW s, GoodApp(s), s.news # <<>>, NEW name \in Name
  PROVE  /\ s.timers < 2 => GoodApp(Appear(s, name))
                            /\ (Watchful(s) => Watchful(Appear(s, name)))
         /\ GoodApp(Vanish(s, name)) /\ (Watchful(s) => Watchful(Vanish(s, name)))
<1>1. s \in App /\ s.timers \in 0 .. 2 BY DEF GoodApp, App
<1>2. ASSUME s.timers < 2
      PROVE  GoodApp(Appear(s, name)) /\ (Watchful(s) => Watchful(Appear(s, name)))
  <2>1. s.timers + 1 \in 0 .. 2 BY <1>1, <1>2
  <2>2. Appear(s, name) = HeardOf(s, name, "present", s.timers + 1) BY DEF Appear, HeardOf
  <2> QED BY <2>1, <2>2, HeardGood DEF Watchful
<1>3. GoodApp(Vanish(s, name)) /\ (Watchful(s) => Watchful(Vanish(s, name)))
  <2> DEFINE r == HeardOf(s, name, "gone", s.timers)
  <2>1. r = [s EXCEPT !.news = Tail(@), !.status[name] = "gone"] BY <1>1 DEF HeardOf, App
  <2>2. Vanish(s, name) \in {r, CleanUp(r)} BY <2>1 DEF Vanish
  <2>3. GoodApp(r) /\ r.watching = s.watching /\ r.asked = s.asked BY <1>1, HeardGood
  <2>4. GoodApp(CleanUp(r)) /\ Kept(r, CleanUp(r)) BY <2>3, CleanUpGood
  <2>5. Vanish(s, name).watching = s.watching /\ Vanish(s, name).asked = s.asked
    BY <2>2, <2>3, <2>4 DEF Kept
  <2> QED BY <2>2, <2>3, <2>4, <2>5 DEF Watchful
<1> QED BY <1>2, <1>3

LEMMA TimerGood ==
  ASSUME NEW v, GoodServer(v), NEW s, GoodApp(s), s.timers > 0
  PROVE  LET t == NewServiceAppear(v, s) IN GoodApp(t) /\ (Watchful(s) => Watchful(t))
<1> DEFINE r == [s EXCEPT !.timers = @ - 1]
<1>1. s \in App /\ s.timers - 1 \in 0 .. 2 BY DEF GoodApp, App
<1>2. r \in App /\ r.calls = s.calls BY <1>1 DEF App
<1>3. /\ r.watching = s.watching /\ r.asked = s.asked /\ r.news = s.news
      /\ SameConnection(s, r)
  BY <1>1 DEF App, SameConnection
<1>4. GoodApp(r) /\ (Watchful(s) => Watchful(r)) BY <1>2, <1>3 DEF GoodApp, Watchful, SameConnection
<1>5. NewServiceAppear(v, s) \in {r, Connect(v, r, FALSE)} BY DEF NewServiceAppear
<1> HIDE DEF r
<1> QED BY <1>4, <1>5, ConnectGood

-----------------------------------------------------------------------------
(* The answers to the calls.                                               *)

Same(s, t) == Kept(s, t) /\ SameConnection(s, t)

LEMMA IMProxyGood ==
  ASSUME NEW v, GoodServer(v), NEW s, GoodApp(s), NEW i \in DOMAIN s.calls
  PROVE  LET t == IMProxyDone(v, s, i) IN GoodApp(t) /\ Same(s, t)
<1> DEFINE c == s.calls[i]
           r == Answered(s, i)
<1>1. c \in GoodCall BY DEF GoodApp
<1>2. c.name \in Name /\ c.via \in 0 .. MaxStarts BY <1>1 DEF GoodCall, Call
<1>3. GoodApp(r) /\ Same(s, r) BY AnsweredGood DEF Same
<1>4. v.start \in 0 .. MaxStarts BY DEF GoodServer, Server
<1>5. CASE ~c.fails /\ Alive(v, c.via) /\ Owned(v, c.name, c.via)
  <2>1. Up(v) BY <1>5 DEF Owned, Up
  <2>2. v.start \in Start BY <2>1 DEF GoodServer
  <2>3. IMProxyDone(v, s, i) = Ask(r, "create", c.name, c.via, v.start)
    BY <1>5 DEF IMProxyDone
  <2> HIDE DEF c, r
  <2> QED BY <1>2, <1>3, <1>4, <2>2, <2>3, AskGood DEF Same, SameConnection, Kept
<1>6. CASE ~(~c.fails /\ Alive(v, c.via) /\ Owned(v, c.name, c.via))
  <2>1. IMProxyDone(v, s, i) \in {r, Ask(r, "improxy", "portal", r.connection, 0)}
    BY <1>6 DEF IMProxyDone, AskConnection
  <2>2. IMProxyDone(v, s, i) # r => r.connection # None
    BY <1>6 DEF IMProxyDone, AskConnection
  <2> HIDE DEF c, r
  <2>3. r.connection # None => r.connection \in 0 .. MaxStarts
    BY <1>3, BoundsAssumption DEF GoodApp, App, None
  <2>4. "portal" \in Name /\ 0 \in 0 .. MaxStarts BY BoundsAssumption DEF Name
  <2> QED BY <1>3, <2>1, <2>2, <2>3, <2>4, AskGood DEF Same, SameConnection, Kept
<1> QED BY <1>5, <1>6

LEMMA CreateGood ==
  ASSUME NEW v, NEW s, GoodApp(s), NEW i \in DOMAIN s.calls, s.calls[i].stage # "improxy"
  PROVE  LET t == CreateDone(v, s, i) IN GoodApp(t) /\ Same(s, t)
<1> DEFINE c == s.calls[i]
           r == Answered(s, i)
<1>1. c \in GoodCall BY DEF GoodApp
<1>2. c.name \in Name /\ c.server \in Start /\ c.server \in 0 .. MaxStarts
  BY <1>1 DEF GoodCall, Call
<1>3. GoodApp(r) /\ Same(s, r) BY AnsweredGood DEF Same
<1>4. /\ CreateDone(v, s, i) \in {r, Ask(r, "icproxy", c.name, r.connection, c.server)}
      /\ CreateDone(v, s, i) # r => r.connection # None
  BY DEF CreateDone, AskConnection
<1> HIDE DEF c, r
<1>5. r.connection # None => r.connection \in 0 .. MaxStarts
  BY <1>3, BoundsAssumption DEF GoodApp, App, None
<1>6. ASSUME r.connection # None
      PROVE  LET t == Ask(r, "icproxy", c.name, r.connection, c.server)
             IN  GoodApp(t) /\ Same(r, t)
  BY <1>2, <1>3, <1>5, <1>6, AskGood DEF Same
<1> QED BY <1>3, <1>4, <1>6 DEF Same, SameConnection, Kept

LEMMA ICProxyGood ==
  ASSUME NEW v, NEW s, GoodApp(s), NEW i \in DOMAIN s.calls, s.calls[i].stage # "improxy"
  PROVE  LET t == ICProxyDone(v, s, i) IN GoodApp(t) /\ Same(s, t)
<1> DEFINE c == s.calls[i]
           r == Answered(s, i)
           proxy == [name |-> c.name, via |-> c.via, server |-> c.server]
           ok == ~c.fails /\ Alive(v, c.via) /\ Owned(v, c.name, c.via)
           portal == r.is_portal \/ (ok /\ c.name = "portal")
           t == ICProxyDone(v, s, i)
<1>1. c \in GoodCall BY DEF GoodApp
<1>2. proxy \in [name : Name, via : 0 .. MaxStarts, server : Start]
  BY <1>1 DEF GoodCall, Call
<1>3. GoodApp(r) /\ Same(s, r) BY AnsweredGood DEF Same
<1>4. t = [r EXCEPT !.icproxy = IF ok THEN proxy ELSE NoProxy, !.is_portal = portal]
  BY DEF ICProxyDone
<1>5. portal \in BOOLEAN BY <1>3 DEF GoodApp, App
<1> HIDE DEF r, proxy, ok, portal, t
<1>6. r \in App BY <1>3 DEF GoodApp
<1>7. t \in App /\ t.calls = r.calls BY <1>2, <1>4, <1>5, <1>6 DEF App
<1>8. Same(r, t) BY <1>4, <1>6 DEF App, Same, SameConnection, Kept
<1> QED BY <1>3, <1>7, <1>8 DEF GoodApp, Same, SameConnection, Kept, t

-----------------------------------------------------------------------------
(* The steps of the server, and what the client will hear of them.         *)

ServerStep == TakeName \/ OpenFile \/ WriteFile \/ Run \/ Quit \/ Crash \/ Reap

LEMMA TellGood ==
  ASSUME NEW v, NEW w, NEW touched \in BOOLEAN, GoodApp(app)
  PROVE  LET t == Tell(v, w, touched) IN GoodApp(t) /\ (Watchful(app) => Watchful(t))
<1> DEFINE News(n) == IF Owned(v, n, Bus) # Owned(w, n, Bus)
                      THEN <<[name |-> n, owned |-> Owned(w, n, Bus)]>> ELSE <<>>
           N == [name : Name, owned : BOOLEAN]
           news == IF app.watching THEN app.news \o News("main") \o News("portal") ELSE app.news
           t == Tell(v, w, touched)
<1>1. app \in App /\ app.news \in Seq(N) /\ app.fileNews \in BOOLEAN BY DEF GoodApp, App
<1>2. \A n \in Name : News(n) \in Seq(N)
  <2> SUFFICES ASSUME NEW n \in Name PROVE News(n) \in Seq(N)
    OBVIOUS
  <2>1. [name |-> n, owned |-> Owned(w, n, Bus)] \in N BY DEF Owned
  <2> HIDE DEF N
  <2>2. <<>> \in Seq(N) /\ <<[name |-> n, owned |-> Owned(w, n, Bus)]>> \in Seq(N) BY <2>1
  <2> QED BY <2>2
<1>3. "main" \in Name /\ "portal" \in Name BY DEF Name
<1>4. t = [app EXCEPT !.news = news, !.fileNews = app.fileNews \/ touched]
  BY <1>1 DEF Tell, App
<1> HIDE DEF News
<1>5. news \in Seq(N)
  <2>1. News("main") \in Seq(N) /\ News("portal") \in Seq(N) BY <1>2, <1>3
  <2> HIDE DEF N
  <2>2. app.news \o News("main") \in Seq(N) BY <1>1, <2>1, ConcatProperties
  <2>3. app.news \o News("main") \o News("portal") \in Seq(N)
    BY <2>1, <2>2, ConcatProperties
  <2> QED BY <1>1, <2>3
<1>6. news # app.news => app.watching OBVIOUS
<1> HIDE DEF news, t
<1>7. t \in App /\ t.calls = app.calls /\ t.news = news BY <1>1, <1>4, <1>5 DEF App
<1>8. t.watching = app.watching /\ t.asked = app.asked /\ SameConnection(app, t)
  BY <1>1, <1>4 DEF App, SameConnection
<1> QED BY <1>6, <1>7, <1>8 DEF GoodApp, Watchful, SameConnection, t

LEMMA ServerGood ==
  ASSUME GoodServer(server), GoodApp(app), ServerStep
  PROVE  GoodServer(server') /\ GoodApp(app') /\ (Watchful(app) => Watchful(app'))
<1>1. server \in Server /\ MaxStarts \in Nat BY BoundsAssumption DEF GoodServer
<1>2. /\ server.start \in 0 .. MaxStarts /\ server.daemons \subseteq Start
      /\ Up(server) => server.start \in Start
  BY <1>1 DEF GoodServer, Server
<1>a. 0 \in 0 .. MaxStarts BY <1>1
<1>3. ASSUME NEW w, NEW touched \in BOOLEAN, Becomes(w, touched), GoodServer(w)
      PROVE  GoodServer(server') /\ GoodApp(app') /\ (Watchful(app) => Watchful(app'))
  BY <1>3, TellGood DEF Becomes
<1>4. CASE TakeName
  <2> DEFINE w == [server EXCEPT !.phase = "named", !.start = @ + 1]
  <2>1. server.start + 1 \in Start /\ server.start + 1 \in 0 .. MaxStarts
    BY <1>1, <1>2, <1>4 DEF TakeName, Start
  <2>2. w \in Server /\ w.start = server.start + 1 BY <1>1, <2>1 DEF Server
  <2>3. GoodServer(w) BY <2>1, <2>2 DEF GoodServer
  <2> QED BY <1>3, <1>4, <2>3 DEF TakeName
<1>5. CASE OpenFile
  <2>1. server.start \in Start BY <1>2, <1>5 DEF OpenFile, Up
  <2>2. server.daemons \cup {server.start} \in SUBSET Start BY <1>2, <2>1
  <2> DEFINE w == [server EXCEPT !.phase = "opened", !.daemons = @ \cup {server.start},
                                 !.file = 0]
  <2>3. w \in Server BY <1>1, <1>a, <2>2 DEF Server
  <2>4. w.start = server.start BY <1>1 DEF Server
  <2>5. GoodServer(w) BY <2>1, <2>3, <2>4 DEF GoodServer
  <2> QED BY <1>3, <1>5, <2>5 DEF OpenFile
<1>6. CASE WriteFile
  <2>1. server.start \in Start BY <1>2, <1>6 DEF WriteFile, Up
  <2>2. GoodServer([server EXCEPT !.phase = "written", !.file = server.start])
    BY <1>1, <1>2, <2>1 DEF GoodServer, Server
  <2> QED BY <1>3, <1>6, <2>2 DEF WriteFile
<1>7. CASE Run
  <2>1. server.start \in Start BY <1>2, <1>7 DEF Run, Up
  <2>2. GoodServer([server EXCEPT !.phase = "running"])
    BY <1>1, <2>1 DEF GoodServer, Server, Start
  <2> QED BY <1>3, <1>7, <2>2 DEF Run
<1>8. CASE Quit
  <2>1. GoodServer([server EXCEPT !.phase = "down", !.daemons = @ \ {server.start}])
    BY <1>1, <1>2 DEF GoodServer, Server, Up
  <2> QED BY <1>3, <1>8, <2>1 DEF Quit
<1>9. CASE Crash
  <2>1. GoodServer([server EXCEPT !.phase = "down"]) BY <1>1 DEF GoodServer, Server, Up
  <2> QED BY <1>3, <1>9, <2>1 DEF Crash
<1>10. CASE Reap
  <2>1. PICK e \in server.daemons : Becomes([server EXCEPT !.daemons = @ \ {e}], FALSE)
    BY <1>10 DEF Reap
  <2>2. GoodServer([server EXCEPT !.daemons = @ \ {e}])
    BY <1>1, <1>2 DEF GoodServer, Server, Up
  <2> QED BY <1>3, <2>1, <2>2
<1> QED BY <1>4, <1>5, <1>6, <1>7, <1>8, <1>9, <1>10 DEF ServerStep

-----------------------------------------------------------------------------
(* The steps of the client.                                                *)

ClientStep == OnFileChanged \/ OnTimer \/ OnNameNews \/ OnConnectDone \/ OnClosed \/ OnCallDone

LEMMA ClientGood ==
  ASSUME GoodServer(server), GoodApp(app), ClientStep
  PROVE  server' = server /\ GoodApp(app') /\ (Watchful(app) => Watchful(app'))
<1>0. app \in App BY DEF GoodApp
<1>1. CASE OnFileChanged
  <2> DEFINE r == [app EXCEPT !.fileNews = FALSE]
  <2>1. r \in App /\ r.calls = app.calls BY <1>0 DEF App
  <2>2. GoodApp(r) BY <2>1 DEF GoodApp
  <2>3. server' = server /\ app' = Connect(server, r, FALSE) BY <1>1 DEF OnFileChanged
  <2> HIDE DEF r
  <2> QED BY <2>2, <2>3, ConnectGood
<1>2. CASE OnTimer BY <1>2, TimerGood DEF OnTimer
<1>3. CASE OnNameNews
  <2> DEFINE m == Head(app.news)
  <2>1. app.news # <<>> /\ app.news \in Seq([name : Name, owned : BOOLEAN])
    BY <1>0, <1>3 DEF OnNameNews, App
  <2>2. m \in [name : Name, owned : BOOLEAN] BY <2>1, HeadTailProperties
  <2>3. m.name \in Name BY <2>2
  <2>4. /\ server' = server /\ (m.owned => app.timers < 2)
        /\ app' = IF m.owned THEN Appear(app, m.name) ELSE Vanish(app, m.name)
    BY <1>3 DEF OnNameNews
  <2> HIDE DEF m
  <2> QED BY <2>1, <2>3, <2>4, NameNewsGood
<1>4. CASE OnConnectDone
  <2>1. PICK k \in DOMAIN app.asked : app' = ConnectDone(server, app, k)
    BY <1>4 DEF OnConnectDone
  <2> QED BY <1>4, <2>1, ConnectDoneGood DEF OnConnectDone
<1>5. CASE OnClosed BY <1>5, ClosedGood DEF OnClosed
<1>6. CASE OnCallDone
  <2>1. PICK i \in DOMAIN app.calls :
           app' = CASE app.calls[i].stage = "improxy" -> IMProxyDone(server, app, i)
                    [] app.calls[i].stage = "create"  -> CreateDone(server, app, i)
                    [] app.calls[i].stage = "icproxy" -> ICProxyDone(server, app, i)
    BY <1>6 DEF OnCallDone
  <2>2. app.calls[i] \in Call BY <1>0, ElementOf DEF App
  <2>3. app.calls[i].stage \in {"improxy", "create", "icproxy"} BY <2>2 DEF Call
  <2>4. GoodApp(app') /\ Same(app, app')
    BY <2>1, <2>3, IMProxyGood, CreateGood, ICProxyGood
  <2> QED BY <1>6, <2>4 DEF OnCallDone, Same, SameConnection, Kept, Watchful
<1> QED BY <1>1, <1>2, <1>3, <1>4, <1>5, <1>6 DEF ClientStep

-----------------------------------------------------------------------------
Good == GoodServer(server) /\ GoodApp(app)

LEMMA InitGood == Init => Good /\ Watchful(app)
<1> SUFFICES ASSUME Init PROVE Good /\ Watchful(app)
  OBVIOUS
<1>1. MaxStarts \in Nat /\ 0 \in 0 .. MaxStarts /\ None \in 0 .. MaxStarts + 1
  BY BoundsAssumption DEF None
<1>2. GoodServer(server)
  <2>1. PICK private \in BOOLEAN, seen \in Sights, runs \in BOOLEAN :
           server = IF runs
                    THEN [phase |-> "running", start |-> 1, private |-> private, seen |-> seen,
                          daemons |-> IF private THEN {1} ELSE {},
                          file |-> IF private THEN 1 ELSE 0]
                    ELSE [phase |-> "down", start |-> 0, private |-> private, seen |-> seen,
                          daemons |-> {}, file |-> 0]
    BY DEF Init
  <2>2. seen \in SUBSET Name BY SightsAssumption
  <2>3. 1 \in Start /\ 1 \in 0 .. MaxStarts BY <1>1, BoundsAssumption DEF Start
  <2> QED BY <1>1, <2>1, <2>2, <2>3 DEF GoodServer, Server, Up
<1>3. GoodApp(Blank)
  <2>1. NoProxy \in [name : Name, via : 0 .. MaxStarts, server : Start] \cup {NoProxy} OBVIOUS
  <2>2. [n \in Name |-> "unknown"] \in [Name -> {"unknown", "present", "gone"}] OBVIOUS
  <2>3. /\ <<>> \in Seq([name : Name, owned : BOOLEAN]) /\ <<>> \in Seq(Asked)
        /\ <<>> \in Seq(Call) /\ <<>> \in Seq(GoodCall)
    OBVIOUS
  <2> DEFINE status == [n \in Name |-> "unknown"]
             proxies == [name : Name, via : 0 .. MaxStarts, server : Start] \cup {NoProxy}
  <2> HIDE DEF status, proxies
  <2>4. Blank = [connection |-> None, overtaken |-> FALSE, watching |-> FALSE, status |-> status,
                 news |-> <<>>, fileNews |-> FALSE, timers |-> 0, asked |-> <<>>,
                 calls |-> <<>>, icproxy |-> NoProxy, is_portal |-> FALSE]
    BY DEF Blank, status
  <2>5. Blank \in App BY <1>1, <2>1, <2>2, <2>3, <2>4 DEF App, Asked, status, proxies
  <2> QED BY <2>3, <2>4, <2>5 DEF GoodApp
<1>4. app = Connect(server, Blank, FALSE) BY DEF Init
<1> QED BY <1>2, <1>3, <1>4, ConnectGood DEF Good

THEOREM AlwaysGood == Spec => []Good
<1>1. Good /\ [Next]_vars => Good'
  BY ServerGood, ClientGood DEF Good, Next, ServerStep, ClientStep, GoodServer
<1> QED BY <1>1, InitGood, PTL DEF Spec

(* TypeOK, for any number of starts of the server, calls and connections.  *)
THEOREM TypeCorrect == Spec => []TypeOK
<1>1. Good => TypeOK BY DEF Good, GoodServer, GoodApp, TypeOK
<1> QED BY <1>1, AlwaysGood, PTL

(* Attentive: in whatever order connections are given, succeed and end, a   *)
(* client that is not connected to a server hears of the next one, but for  *)
(* one on a session bus that came after a connection asked for later.       *)
THEOREM ClientIsAttentive == Spec => []Attentive
<1>1. Good /\ Watchful(app) /\ [Next]_vars => Watchful(app')
  <2> SUFFICES ASSUME Good, Watchful(app), [Next]_vars PROVE Watchful(app')
    OBVIOUS
  <2>1. CASE ServerStep BY <2>1, ServerGood DEF Good
  <2>2. CASE ClientStep BY <2>2, ClientGood DEF Good
  <2>3. CASE UNCHANGED vars BY <2>3
  <2> QED BY <2>1, <2>2, <2>3 DEF Next, ServerStep, ClientStep
<1> DEFINE W == Watchful(app)
<1>2. Good /\ W => Attentive
  <2> SUFFICES ASSUME Good, W, app.asked = <<>>, app.connection \notin Start, ~app.overtaken
               PROVE  app.watching
    BY DEF Attentive
  <2>1. app.connection \in {Bus, None}
    BY BoundsAssumption DEF Good, GoodApp, App, Start, Bus, None
  <2> QED BY <2>1 DEF Watchful
<1>3. Init => W BY InitGood
<1>4. Good /\ W /\ [Next]_vars => W' BY <1>1
<1> HIDE DEF W
<1> QED BY <1>2, <1>3, <1>4, AlwaysGood, PTL DEF Spec
=============================================================================
