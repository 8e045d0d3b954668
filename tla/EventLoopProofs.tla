--------------------------- MODULE EventLoopProofs ---------------------------
(* Invariants of EventLoop, proved for any modules, any number of timers    *)
(* and of events, and any time the loop takes.                             *)
EXTENDS EventLoop, NaturalLemmas, TLAPS

-----------------------------------------------------------------------------
(* The array of timers.                                                    *)

LEMMA ModulesType == X11 \in ModuleSet /\ Len(Modules) \in Nat
                     /\ \E i \in 1 .. Len(Modules) : Modules[i] = X11
BY ModulesAssumption DEF ModuleSet

(* What is common to the timers of T: they are near, or ahead of the clock. *)
Near(T, n)  == T \in Seq(Pending) /\ \A i \in DOMAIN T : T[i].left + n < Forever
Ahead(T, n) == \A i \in DOMAIN T : T[i].left + n >= 1

LEMMA AddTimeoutNear ==
    ASSUME NEW T, NEW n \in 0 .. MaxLag, Near(T, n), NEW id \in Timer, NEW d \in Delays
    PROVE  LET U == AddTimeout(T, id, d)
           IN  /\ Near(U, n)
               /\ Len(U) = Len(T) + 1
               /\ \A i \in DOMAIN T : U[i] = T[i]
               /\ U[Len(U)].left = d
<1> DEFINE e == [id |-> id, left |-> d]
           U == AddTimeout(T, id, d)
<1>1. e \in Pending /\ e.left = d /\ d + n < Forever
  BY BoundAssumption, ForeverAssumption DEF Pending
<1>2. U = Append(T, e)
  BY DEF AddTimeout
<1>3. T \in Seq(Pending)
  BY DEF Near
<1> HIDE DEF e, U
<1>4. U \in Seq(Pending) /\ Len(U) = Len(T) + 1 /\ U[Len(U)] = e
      /\ \A i \in DOMAIN T : U[i] = T[i]
  BY <1>1, <1>2, <1>3
<1>5. \A i \in DOMAIN U : U[i].left + n < Forever
  BY <1>1, <1>3, <1>4 DEF Near
<1> QED BY <1>1, <1>4, <1>5 DEF Near, U

LEMMA RemoveQuickNear ==
    ASSUME NEW T, NEW n \in Nat, Near(T, n), NEW i \in DOMAIN T
    PROVE  LET U == RemoveQuick(T, i)
           IN  /\ Near(U, n)
               /\ Len(U) = Len(T) - 1
               /\ \A k \in DOMAIN U : U[k] = T[k] \/ (k = i /\ U[k] = T[Len(T)])
<1>1. T \in Seq(Pending) /\ Len(T) \in Nat /\ DOMAIN T = 1 .. Len(T) /\ Len(T) >= 1
  BY DEF Near
<1>2. \A k \in 1 .. Len(T) : T[k] \in Pending
  BY <1>1
<1>3. RemoveQuick(T, i) \in Seq(Pending)
  BY <1>1, <1>2 DEF RemoveQuick
<1>4. Len(RemoveQuick(T, i)) = Len(T) - 1
  BY <1>1 DEF RemoveQuick
<1>5. \A k \in 1 .. Len(T) - 1 :
          RemoveQuick(T, i)[k] = IF k = i THEN T[Len(T)] ELSE T[k]
  BY DEF RemoveQuick
<1> QED BY <1>1, <1>3, <1>4, <1>5 DEF Near

LEMMA RemoveTimeoutByIdNear ==
    ASSUME NEW T, NEW n \in Nat, Near(T, n), NEW id
    PROVE  Near(RemoveTimeoutById(T, id), n)
<1>1. CASE id \in Ids(T)
  <2>1. \E i \in DOMAIN T : T[i].id = id
    BY <1>1 DEF Ids
  <2> DEFINE j == CHOOSE i \in DOMAIN T : T[i].id = id
  <2>2. j \in DOMAIN T
    BY <2>1
  <2>3. RemoveTimeoutById(T, id) = RemoveQuick(T, j)
    BY <1>1 DEF RemoveTimeoutById
  <2> HIDE DEF j
  <2> QED BY <2>2, <2>3, RemoveQuickNear
<1>2. CASE id \notin Ids(T)
  BY <1>2 DEF RemoveTimeoutById
<1> QED BY <1>1, <1>2

(* When no timer is past, select sleeps no longer than the first needs.     *)
LEMMA MinTimeLeast ==
    ASSUME Near(timeout, lag), Ahead(timeout, lag), lag \in Nat
    PROVE  /\ MinTime(timeout) \in 0 .. Forever
           /\ \A i \in DOMAIN timeout : MinTime(timeout) <= timeout[i].left + lag
<1> DEFINE ahead == {timeout[i].left + lag :
                         i \in {k \in DOMAIN timeout : timeout[k].left + lag >= 0}}
<1>1. \A i \in DOMAIN timeout :
          timeout[i].left \in Int /\ timeout[i].left + lag \in 0 .. Forever
  <2> TAKE i \in DOMAIN timeout
  <2>1. timeout[i] \in Pending
    BY DEF Near
  <2> QED BY <2>1, ForeverAssumption DEF Near, Ahead, Pending
<1>2. ahead \subseteq 0 .. Forever /\ \A i \in DOMAIN timeout : timeout[i].left + lag \in ahead
  BY <1>1
<1>3. MinTime(timeout) = IF ahead = {} THEN Forever
                         ELSE CHOOSE m \in ahead : \A o \in ahead : m <= o
  BY DEF MinTime
<1> HIDE DEF ahead
<1>4. CASE ahead = {}
  <2>1. MinTime(timeout) = Forever
    BY <1>3, <1>4
  <2> QED BY <1>2, <1>4, <2>1, ForeverAssumption
<1>5. CASE ahead # {}
  <2>1. \E m \in ahead : \A o \in ahead : m <= o
    BY <1>2, <1>5, LeastNatural, ForeverAssumption
  <2> DEFINE m == CHOOSE x \in ahead : \A o \in ahead : x <= o
  <2>2. m \in ahead /\ \A o \in ahead : m <= o
    BY <2>1
  <2>3. MinTime(timeout) = m
    BY <1>3, <1>5 DEF m
  <2> HIDE DEF m
  <2> QED BY <1>2, <2>2, <2>3
<1> QED BY <1>4, <1>5

-----------------------------------------------------------------------------
(* Timers: what has been scanned is ahead of the clock that was read, and   *)
(* stays so until the loop sleeps or reads the clock again.                 *)

Types ==
    /\ TypeOK
    /\ Near(timeout, lag)

Scanned ==
    /\ pc = "timers" => \A i \in DOMAIN timeout : i < idx => timeout[i].left + lag >= 1
    /\ pc = "paint" => Ahead(timeout, lag)
    /\ pc = "check" /\ ending = {} => Ahead(timeout, lag)

Timers == Types /\ Scanned /\ NeverOversleeps

LEMMA HandleTimers ==
    ASSUME Types, Handle
    PROVE  /\ Near(timeout', lag)
           /\ eventflag' \subseteq Flag /\ asked' \subseteq {"request", "reload"}
           /\ ending' \subseteq {"destroy", "restart"} /\ ximQueue' \in BOOLEAN
<1>1. lag \in 0 .. MaxLag /\ lag \in Nat /\ Near(timeout, lag)
  BY BoundAssumption DEF Types, TypeOK
<1>2. CASE UNCHANGED <<eventflag, asked, ending, timeout, ximQueue>>
  BY <1>1, <1>2 DEF Types, TypeOK
<1>3. CASE /\ \E flag \in {"UI_UPDATE", "UI_MOVE", "RELOAD_ADDON"} : Ask(flag, "request")
           /\ UNCHANGED <<ending, timeout, ximQueue>>
  BY <1>1, <1>3 DEF Types, TypeOK, Ask, Flag
<1>4. CASE /\ \E e \in {"destroy", "restart"} : ending' = ending \cup {e}
           /\ UNCHANGED <<eventflag, asked, timeout, ximQueue>>
  BY <1>1, <1>4 DEF Types, TypeOK
<1>5. CASE /\ \/ \E id \in Timer \ Ids(timeout), d \in Delays :
                     timeout' = AddTimeout(timeout, id, d)
              \/ \E id \in Ids(timeout) : timeout' = RemoveTimeoutById(timeout, id)
           /\ UNCHANGED <<eventflag, asked, ending, ximQueue>>
  <2>1. Near(timeout', lag)
    BY <1>1, <1>5, AddTimeoutNear, RemoveTimeoutByIdNear
  <2> QED BY <1>5, <2>1 DEF Types, TypeOK
<1>6. CASE /\ ximQueue' = TRUE
           /\ IF \E i \in 1 .. idx - 1 : Modules[i] = X11 THEN Ask("UI_UPDATE", "request")
                                                          ELSE UNCHANGED <<eventflag, asked>>
           /\ UNCHANGED <<ending, timeout>>
  BY <1>1, <1>6 DEF Types, TypeOK, Ask, Flag
<1> QED BY <1>2, <1>3, <1>4, <1>5, <1>6 DEF Handle

(* The scan's own step: a due timer leaves the array, with whatever timers   *)
(* its callback has added behind it, and the next one takes its place.       *)
LEMMA CallTimerTimers ==
    ASSUME Types, Scanned, CallTimer
    PROVE  Types' /\ Scanned' /\ NeverOversleeps'
<1>1. /\ lag \in 0 .. MaxLag /\ lag \in Nat /\ Near(timeout, lag)
      /\ idx \in Nat \ {0} /\ idx <= Len(timeout) /\ pc = "timers" /\ pc' = "timers"
      /\ lag' = lag /\ timeout \in Seq(Pending)
  BY BoundAssumption DEF Types, TypeOK, CallTimer
<1>2. idx \in DOMAIN timeout /\ DOMAIN timeout = 1 .. Len(timeout) /\ Len(timeout) \in Nat
      /\ \A i \in DOMAIN timeout : timeout[i] \in Pending
  BY <1>1
<1>3. CASE Due(timeout[idx])
  <2>1. PICK T \in {timeout} \cup {AddTimeout(timeout, id, d) :
                                     id \in Timer \ Ids(timeout), d \in Delays \ {0}} :
            /\ Callback(timeout, T)
            /\ timeout' = AfterRemoval(T, idx, timeout[idx].id)[1]
            /\ idx' = AfterRemoval(T, idx, timeout[idx].id)[2]
    BY <1>3 DEF CallTimer
  <2>2. /\ Near(T, lag) /\ Len(T) \in Nat /\ Len(T) >= Len(timeout)
        /\ \A i \in DOMAIN timeout : T[i] = timeout[i]
        /\ \A i \in DOMAIN T : i > Len(timeout) => T[i].left >= 1
    <3>1. CASE T = timeout
      BY <1>1, <1>2, <3>1
    <3>2. CASE T # timeout
      <4>1. PICK id \in Timer, d \in Delays \ {0} : T = AddTimeout(timeout, id, d)
        BY <2>1, <3>2
      <4>2. d \in Delays /\ d >= 1
        BY BoundAssumption
      <4>3. /\ Near(T, lag) /\ Len(T) = Len(timeout) + 1
            /\ \A i \in DOMAIN timeout : T[i] = timeout[i]
            /\ T[Len(T)].left = d
        <5> DEFINE U == AddTimeout(timeout, id, d)
        <5>1. /\ Near(U, lag) /\ Len(U) = Len(timeout) + 1
              /\ \A i \in DOMAIN timeout : U[i] = timeout[i]
              /\ U[Len(U)].left = d
          BY <1>1, <4>2, AddTimeoutNear
        <5> HIDE DEF U
        <5> QED BY <4>1, <5>1 DEF U
      <4>4. T \in Seq(Pending)
        BY <4>3 DEF Near
      <4> QED BY <1>2, <4>2, <4>3, <4>4
    <3> QED BY <3>1, <3>2
  <2>3. idx \in DOMAIN T /\ T[idx].id = timeout[idx].id /\ T \in Seq(Pending)
    BY <1>2, <2>2 DEF Near
  <2>4. timeout' = RemoveQuick(T, idx) /\ idx' = idx
    BY <2>1, <2>3 DEF AfterRemoval
  <2>5. /\ Near(timeout', lag) /\ Len(timeout') = Len(T) - 1
        /\ \A k \in DOMAIN timeout' :
               timeout'[k] = T[k] \/ (k = idx /\ timeout'[k] = T[Len(T)])
    BY <1>1, <2>2, <2>3, <2>4, RemoveQuickNear
  <2>6. timeout' \in Seq(Pending) /\ DOMAIN timeout' = 1 .. Len(T) - 1
    BY <2>5 DEF Near
  <2>7. \A i \in DOMAIN timeout' : i < idx' => timeout'[i].left + lag >= 1
    <3> SUFFICES ASSUME NEW i \in DOMAIN timeout', i < idx
                 PROVE  timeout'[i].left + lag >= 1
      BY <2>4
    <3>1. i \in DOMAIN timeout /\ timeout'[i] = timeout[i]
      BY <1>2, <2>2, <2>5, <2>6
    <3> QED BY <1>1, <3>1 DEF Scanned
  <2>8. Callback(timeout, T) => /\ eventflag' \subseteq Flag /\ asked' \subseteq {"request", "reload"}
                                /\ fds' \subseteq ModuleSet /\ buffered' \subseteq ModuleSet
    BY DEF Callback, Ask, RoundTrip, Types, TypeOK, Flag
  <2>9. TypeOK'
    BY <1>1, <2>1, <2>4, <2>6, <2>8 DEF CallTimer, Types, TypeOK
  <2> QED BY <1>1, <2>5, <2>7, <2>9 DEF Types, Scanned, NeverOversleeps
<1>4. CASE ~ Due(timeout[idx])
  <2>1. idx' = idx + 1 /\ UNCHANGED <<timeout, eventflag, asked, fds, buffered>>
    BY <1>4 DEF CallTimer
  <2>2. timeout[idx].left + lag >= 1
    BY <1>1, <1>2, <1>4 DEF Due, Pending
  <2>3. \A i \in DOMAIN timeout' : i < idx' => timeout'[i].left + lag >= 1
    BY <1>1, <1>2, <2>1, <2>2 DEF Scanned
  <2>4. TypeOK'
    BY <1>1, <2>1 DEF CallTimer, Types, TypeOK
  <2> QED BY <1>1, <2>1, <2>3, <2>4 DEF Types, Scanned, NeverOversleeps
<1> QED BY <1>3, <1>4

LEMMA TickTimers ==
    ASSUME Types, Scanned, NeverOversleeps, Tick
    PROVE  Types' /\ Scanned' /\ NeverOversleeps'
<1>1. /\ lag \in 0 .. MaxLag /\ lag' \in 0 .. MaxLag
      /\ wait \in 0 .. Forever /\ wait' \in 0 .. Forever
      /\ MaxLag \in Nat /\ Forever \in Nat /\ idx \in Nat \ {0}
  BY BoundAssumption, ForeverAssumption DEF Types, TypeOK, Tick
<1>2. timeout \in Seq(Pending) /\ Len(timeout) \in Nat /\ DOMAIN timeout = 1 .. Len(timeout)
      /\ \A i \in DOMAIN timeout : timeout[i] \in Pending
  BY DEF Types, TypeOK
<1>3. \A e \in Pending : [e EXCEPT !.left = @ - 1] \in Pending
                         /\ [e EXCEPT !.left = @ - 1].left = e.left - 1
  BY DEF Pending
<1>4. /\ timeout' \in Seq(Pending) /\ DOMAIN timeout' = DOMAIN timeout
      /\ \A i \in DOMAIN timeout : timeout'[i].left = timeout[i].left - 1
  <2>1. timeout' = [i \in 1 .. Len(timeout) |-> [timeout[i] EXCEPT !.left = @ - 1]]
    BY <1>2 DEF Tick
  <2>2. \A i \in 1 .. Len(timeout) : timeout'[i] = [timeout[i] EXCEPT !.left = @ - 1]
    BY <2>1
  <2>3. timeout' \in Seq(Pending) /\ DOMAIN timeout' = 1 .. Len(timeout)
    <3>1. \A i \in 1 .. Len(timeout) : [timeout[i] EXCEPT !.left = @ - 1] \in Pending
      BY <1>2, <1>3
    <3> QED BY <1>2, <2>1, <3>1
  <2> QED BY <1>2, <1>3, <2>2, <2>3
<1>5. \A i \in DOMAIN timeout :
          timeout[i].left \in Int /\ timeout[i].left + lag < Forever
  BY <1>2 DEF Types, Near, Pending
<1>6. CASE pc = "sleep"
  <2>1. lag' = lag /\ wait' = wait - 1 /\ pc' = "sleep"
    BY <1>6 DEF Tick
  <2>2. \A i \in DOMAIN timeout' : wait' <= timeout'[i].left + lag'
    BY <1>1, <1>4, <1>5, <1>6, <2>1 DEF NeverOversleeps
  <2>3. Near(timeout', lag')
    BY <1>1, <1>4, <1>5, <2>1 DEF Near
  <2> QED BY <1>1, <1>4, <2>1, <2>2, <2>3 DEF Types, TypeOK, Scanned, NeverOversleeps, Tick
<1>7. CASE pc # "sleep"
  <2>1. lag' = lag + 1 /\ wait' = wait /\ pc' = pc
    BY <1>7 DEF Tick
  <2>2. \A i \in DOMAIN timeout : timeout'[i].left + lag' = timeout[i].left + lag
    BY <1>1, <1>4, <1>5, <2>1
  <2>3. Near(timeout', lag')
    BY <1>4, <1>5, <2>2 DEF Near
  <2>4. Ahead(timeout, lag) => Ahead(timeout', lag')
    BY <1>4, <2>2 DEF Ahead
  <2>5. Types'
    BY <1>1, <1>4, <2>1, <2>3 DEF Types, TypeOK, Tick
  <2>6. Scanned'
    BY <1>4, <2>1, <2>2, <2>4 DEF Scanned, Tick
  <2> QED BY <1>7, <2>1, <2>5, <2>6 DEF NeverOversleeps
<1> QED BY <1>6, <1>7

LEMMA LoopTimers ==
    ASSUME Types, Scanned, Loop
    PROVE  Types' /\ Scanned' /\ NeverOversleeps'
<1>1. /\ lag \in 0 .. MaxLag /\ lag \in Nat /\ Near(timeout, lag) /\ MaxLag \in Nat
      /\ idx \in Nat \ {0} /\ timeout \in Seq(Pending) /\ Len(timeout) \in Nat
      /\ DOMAIN timeout = 1 .. Len(timeout) /\ Forever \in Nat
  BY BoundAssumption, ForeverAssumption DEF Types, TypeOK
<1>2. \A n \in 0 .. lag : Near(timeout, n)
  <2>1. \A i \in DOMAIN timeout :
            timeout[i].left \in Int /\ timeout[i].left + lag < Forever
    <3>1. \A i \in DOMAIN timeout : timeout[i] \in Pending
      BY <1>1
    <3> QED BY <1>1, <3>1 DEF Near, Pending
  <2> QED BY <1>1, <2>1 DEF Near
<1>3. CASE ReadSignals
  <2>1. Types'
    BY <1>1, <1>3 DEF ReadSignals, StartRound, Types, TypeOK, Mask, Flag, PC, Signal
  <2> QED BY <1>3, <2>1 DEF ReadSignals, StartRound, Scanned, NeverOversleeps
<1>4. CASE ProcessEvent
  <2>1. /\ Near(timeout', lag)
        /\ eventflag' \subseteq Flag /\ asked' \subseteq {"request", "reload"}
        /\ ending' \subseteq {"destroy", "restart"} /\ ximQueue' \in BOOLEAN
    <3>1. CASE Handle
      BY <3>1, HandleTimers
    <3>2. CASE UNCHANGED <<eventflag, asked, ending, timeout, ximQueue>>
      BY <1>1, <3>2 DEF Types, TypeOK
    <3> QED BY <1>4, <3>1, <3>2 DEF ProcessEvent
  <2>2. /\ pc' \in {"dispatch", "xim"} /\ idx' \in Nat \ {0} /\ lag' = lag
        /\ fds' \subseteq ModuleSet /\ buffered' \subseteq ModuleSet
        /\ UNCHANGED <<wait, pipe, burst>>
    BY <1>1, <1>4 DEF ProcessEvent, NextModule, Types, TypeOK
  <2>3. timeout' \in Seq(Pending)
    BY <2>1 DEF Near
  <2>4. Types'
    BY <2>1, <2>2, <2>3 DEF Types, TypeOK, PC
  <2> QED BY <2>2, <2>4 DEF Scanned, NeverOversleeps
<1>5. CASE ConsumeQueue
  <2>1. /\ eventflag' \subseteq Flag /\ fds' \subseteq ModuleSet
        /\ buffered' \subseteq ModuleSet /\ idx' \in Nat \ {0}
    BY <1>1, <1>5 DEF ConsumeQueue, RoundTrip, Types, TypeOK, Flag
  <2>2. UNCHANGED <<timeout, lag, wait, ending, pipe, asked, burst>>
    BY <1>5 DEF ConsumeQueue
  <2>3. Types'
    BY <1>1, <1>5, <2>1, <2>2 DEF ConsumeQueue, Types, TypeOK, PC
  <2> QED BY <1>5, <2>3 DEF ConsumeQueue, Scanned, NeverOversleeps
<1>6. CASE ReadClock
  <2>1. Near(timeout', lag')
    BY <1>1, <1>2, <1>6 DEF ReadClock
  <2>2. Types'
    BY <1>1, <1>6, <2>1 DEF ReadClock, Types, TypeOK, PC
  <2> QED BY <1>1, <1>6, <2>2 DEF ReadClock, Scanned, NeverOversleeps
<1>7. CASE CallTimer
  BY <1>7, CallTimerTimers
<1>8. CASE TimersDone
  <2>1. Types'
    BY <1>1, <1>8 DEF TimersDone, Types, TypeOK, PC
  <2>2. Ahead(timeout, lag)
    BY <1>1, <1>8 DEF TimersDone, Scanned, Ahead
  <2> QED BY <1>8, <2>1, <2>2 DEF TimersDone, Scanned, NeverOversleeps, Ahead
<1>9. CASE Paint
  <2>1. /\ eventflag' \subseteq Flag /\ idx' \in Nat \ {0} /\ pc' \in {"dispatch", "check"}
    BY <1>1, <1>9 DEF Paint, StartRound, Types, TypeOK
  <2>2. /\ fds' \subseteq ModuleSet /\ buffered' \subseteq ModuleSet
        /\ ximQueue' \in BOOLEAN /\ asked' \subseteq {"request", "reload"}
    BY <1>9 DEF Paint, RoundTrip, Types, TypeOK
  <2>3. UNCHANGED <<timeout, lag, wait, ending, pipe, burst>>
    BY <1>9 DEF Paint
  <2>4. Types'
    BY <1>1, <2>1, <2>2, <2>3 DEF Types, TypeOK, PC
  <2> QED BY <1>9, <2>4 DEF Paint, StartRound, Scanned, NeverOversleeps, Ahead
<1>10. CASE Stop
  <2>1. Types'
    BY <1>1, <1>10 DEF Stop, Types, TypeOK, PC
  <2> QED BY <1>10, <2>1 DEF Stop, Scanned, NeverOversleeps
<1>11. CASE Sleep
  <2>1. Ahead(timeout, lag)
    BY <1>11 DEF Sleep, Scanned
  <2>2. wait' \in 0 .. Forever /\ \A i \in DOMAIN timeout : wait' <= timeout[i].left + lag
    BY <1>1, <1>11, <2>1, MinTimeLeast DEF Sleep
  <2>3. eventflag' \subseteq Flag /\ asked' \subseteq {"request", "reload"}
    BY <1>11 DEF Sleep, Types, TypeOK, Flag
  <2>4. /\ pc' = "sleep" /\ burst' = 0
        /\ UNCHANGED <<idx, timeout, lag, ending, pipe, fds, buffered, ximQueue>>
    BY <1>11 DEF Sleep
  <2>5. Types'
    BY <1>1, <2>2, <2>3, <2>4, BoundAssumption DEF Types, TypeOK, PC
  <2> QED BY <1>11, <2>2, <2>5 DEF Sleep, Scanned, NeverOversleeps
<1>12. CASE Wake
  <2>1. Near(timeout', lag')
    BY <1>1, <1>2, <1>12 DEF Wake
  <2>2. Types'
    BY <1>1, <1>12, <2>1 DEF Wake, Types, TypeOK, PC
  <2> QED BY <1>12, <2>2 DEF Wake, Scanned, NeverOversleeps
<1> QED BY <1>3, <1>4, <1>5, <1>6, <1>7, <1>8, <1>9, <1>10, <1>11, <1>12 DEF Loop

LEMMA NextTimers ==
    ASSUME Types, Scanned, NeverOversleeps, [Next]_vars
    PROVE  Types' /\ Scanned' /\ NeverOversleeps'
<1>1. CASE Loop
  BY <1>1, LoopTimers
<1>2. CASE XIOError
  BY <1>2 DEF XIOError, Types, TypeOK, PC, Scanned, NeverOversleeps
<1>3. CASE Tick
  BY <1>3, TickTimers
<1>4. ASSUME NEW m \in ModuleSet, Arrive(m)
      PROVE  Types' /\ Scanned' /\ NeverOversleeps'
  <2>1. burst' \in 0 .. Burst /\ fds' \subseteq ModuleSet
    BY <1>4, BoundAssumption DEF Arrive, Types, TypeOK
  <2> QED BY <1>4, <2>1 DEF Arrive, Types, TypeOK, Scanned, NeverOversleeps, Ahead
<1>5. ASSUME NEW signo \in Signal, OnException(signo)
      PROVE  Types' /\ Scanned' /\ NeverOversleeps'
  <2>1. burst' \in 0 .. Burst /\ pipe' \subseteq Signal
    BY <1>5, BoundAssumption DEF OnException, Types, TypeOK
  <2> QED BY <1>5, <2>1 DEF OnException, Types, TypeOK, Scanned, NeverOversleeps, Ahead
<1>6. CASE UNCHANGED vars
  BY <1>6 DEF vars, Types, TypeOK, Scanned, NeverOversleeps, Ahead
<1> QED BY <1>1, <1>2, <1>3, <1>4, <1>5, <1>6 DEF Next

THEOREM TimersInvariant == Spec => [](Types /\ Scanned /\ NeverOversleeps)
<1>1. Init => Types /\ Scanned /\ NeverOversleeps
  <2> SUFFICES ASSUME Init PROVE Types /\ Scanned /\ NeverOversleeps
    OBVIOUS
  <2>1. timeout = <<>> /\ <<>> \in Seq(Pending) /\ DOMAIN timeout = {}
    BY DEF Init
  <2>2. 0 \in 0 .. MaxLag /\ 0 \in 0 .. Burst /\ 0 \in 0 .. Forever
    BY BoundAssumption, ForeverAssumption
  <2>3. Near(timeout, lag)
    BY <2>1 DEF Near
  <2>4. TypeOK
    <3>1. /\ pc \in PC /\ ximQueue \in BOOLEAN /\ eventflag \subseteq Flag
          /\ ending \subseteq {"destroy", "restart"}
      BY DEF Init, PC
    <3>2. /\ pipe \subseteq Signal /\ fds \subseteq ModuleSet
          /\ buffered \subseteq ModuleSet /\ asked \subseteq {"request", "reload"}
      BY DEF Init
    <3>3. /\ idx \in Nat \ {0} /\ lag \in 0 .. MaxLag
          /\ wait \in 0 .. Forever /\ burst \in 0 .. Burst
      BY <2>2 DEF Init
    <3>4. timeout \in Seq(Pending)
      BY <2>1
    <3> QED BY <3>1, <3>2, <3>3, <3>4 DEF TypeOK
  <2> QED BY <2>3, <2>4 DEF Init, Types, Scanned, NeverOversleeps
<1> QED BY <1>1, NextTimers, PTL DEF Spec

(* The state of the loop keeps its types for every array of timers; what    *)
(* select is given as a timeout is a time, never a negative one.            *)
THEOREM TypeCorrect == Spec => []TypeOK
<1>1. Types => TypeOK
  BY DEF Types
<1> QED BY <1>1, TimersInvariant, PTL

(* The loop never sleeps past a timer by more than the time it worked, for  *)
(* any number of timers added, called and removed in any order.             *)
THEOREM SleepsUntilTheFirstTimer == Spec => []NeverOversleeps
BY TimersInvariant, PTL

-----------------------------------------------------------------------------
(* What is left in the XIM queue after X11's turn, and every update asked    *)
(* for, is held by a flag that keeps the inner loop going.                   *)

PastX11 == \/ pc = "dispatch" /\ \E i \in 1 .. idx - 1 : Modules[i] = X11
           \/ pc \in {"timers", "paint"}

Sent ==
    /\ PastX11 /\ ximQueue => "UI_UPDATE" \in eventflag
    /\ pc = "check" /\ ending = {} => ~ ximQueue
    /\ XIMQueueSent

Marked ==
    /\ pc \in {"dispatch", "xim", "timers", "paint"} /\ "request" \in asked
           => "UI_UPDATE" \in eventflag
    /\ pc = "signals" \/ (pc = "check" /\ ending = {}) => "request" \notin asked
    /\ RequestedUpdateMade

LEMMA HandleFlags ==
    ASSUME Sent, Marked, ProcessEvent, idx \in Nat \ {0}
    PROVE  Sent' /\ Marked'
<1> DEFINE m == Modules[idx]
           past == \E i \in 1 .. idx - 1 : Modules[i] = X11
<1>1. /\ pc = "dispatch" /\ (m = X11 => pc' = "xim") /\ (m # X11 => pc' = pc /\ idx' = idx + 1)
      /\ pc' \in {"dispatch", "xim"}
  BY DEF ProcessEvent, NextModule
<1>2. PastX11 <=> past
  BY <1>1 DEF PastX11
<1>3. PastX11' => past /\ m # X11
  <2>1. CASE m = X11
    BY <1>1, <2>1 DEF PastX11
  <2>2. CASE m # X11
    <3>1. pc' = "dispatch" /\ idx' - 1 = idx
      BY <1>1, <2>2
    <3>2. PastX11' => \E i \in 1 .. idx : Modules[i] = X11
      BY <3>1 DEF PastX11
    <3>3. \A i \in 1 .. idx : i = idx \/ i \in 1 .. idx - 1
      OBVIOUS
    <3> QED BY <2>2, <3>2, <3>3
  <2> QED BY <2>1, <2>2
<1>4. /\ eventflag \subseteq eventflag'
      /\ "request" \in asked' => "request" \in asked \/ "UI_UPDATE" \in eventflag'
      /\ past /\ ximQueue' => ximQueue \/ "UI_UPDATE" \in eventflag'
  BY DEF ProcessEvent, Handle, Ask
<1> HIDE DEF past, m
<1> QED BY <1>1, <1>2, <1>3, <1>4 DEF Sent, Marked, XIMQueueSent, RequestedUpdateMade

LEMMA NextFlags ==
    ASSUME Types, Sent, Marked, [Next]_vars
    PROVE  Sent' /\ Marked'
<1> USE DEF Sent, Marked, XIMQueueSent, RequestedUpdateMade
<1>1. idx \in Nat \ {0}
  BY DEF Types, TypeOK
<1>2. CASE ReadSignals
  BY <1>2 DEF ReadSignals, StartRound, PastX11
<1>3. CASE ProcessEvent
  BY <1>1, <1>3, HandleFlags
<1>4. CASE ConsumeQueue
  BY <1>4 DEF ConsumeQueue
<1>5. CASE ReadClock
  <2>1. PastX11
    BY <1>5, ModulesType, <1>1 DEF ReadClock, PastX11
  <2> QED BY <1>5, <2>1 DEF ReadClock
<1>6. CASE CallTimer
  <2>1. /\ pc = "timers" /\ pc' = "timers" /\ ximQueue' = ximQueue
        /\ eventflag \subseteq eventflag'
        /\ "request" \in asked' => "request" \in asked \/ "UI_UPDATE" \in eventflag'
    BY <1>6 DEF CallTimer, Callback, Ask
  <2> QED BY <2>1 DEF PastX11
<1>7. CASE TimersDone
  BY <1>7 DEF TimersDone, PastX11
<1>8. CASE Paint
  <2>1. CASE Again
    BY <1>8, <2>1 DEF Paint, Updates, StartRound, PastX11
  <2>2. CASE ~ Again
    <3>1. "UI_UPDATE" \notin eventflag
      BY <2>2 DEF Again, Mask
    <3> QED BY <1>8, <2>2, <3>1 DEF Paint, Updates, PastX11
  <2> QED BY <2>1, <2>2
<1>9. CASE Stop
  BY <1>9 DEF Stop, PastX11
<1>10. CASE Sleep
  BY <1>10 DEF Sleep, PastX11
<1>11. CASE Wake
  BY <1>11 DEF Wake, PastX11
<1>12. CASE XIOError
  BY <1>12 DEF XIOError, PastX11
<1>13. CASE Tick
  BY <1>13 DEF Tick, PastX11
<1>14. ASSUME NEW m \in ModuleSet, Arrive(m)
       PROVE  Sent' /\ Marked'
  BY <1>14 DEF Arrive, PastX11
<1>15. ASSUME NEW signo \in Signal, OnException(signo)
       PROVE  Sent' /\ Marked'
  BY <1>15 DEF OnException, PastX11
<1>16. CASE UNCHANGED vars
  BY <1>16 DEF vars, PastX11
<1> QED BY <1>2, <1>3, <1>4, <1>5, <1>6, <1>7, <1>8, <1>9, <1>10, <1>11, <1>12, <1>13,
           <1>14, <1>15, <1>16 DEF Next, Loop

THEOREM FlagsInvariant == Spec => [](Sent /\ Marked)
<1>1. Init => Sent /\ Marked
  BY DEF Init, Sent, Marked, XIMQueueSent, RequestedUpdateMade, PastX11
<1>2. Types /\ Sent /\ Marked /\ [Next]_vars => Sent' /\ Marked'
  BY NextFlags
<1>3. Spec => []Types
  BY TimersInvariant, PTL
<1> QED BY <1>1, <1>2, <1>3, PTL DEF Spec

(* No call to an XIM client waits in the queue while the loop sleeps, for    *)
(* any order of modules and any point of the round it was queued at.         *)
THEOREM QueueIsSent == Spec => []XIMQueueSent
<1>1. Sent => XIMQueueSent
  BY DEF Sent
<1> QED BY <1>1, FlagsInvariant, PTL

(* No update a request or a timer asked for is forgotten.                    *)
THEOREM UpdatesAreMade == Spec => []RequestedUpdateMade
<1>1. Marked => RequestedUpdateMade
  BY DEF Marked
<1> QED BY <1>1, FlagsInvariant, PTL
=============================================================================
