------------------------------ MODULE EventLoop ------------------------------
(***************************************************************************)
(* The main loop of an instance (RunInstance): signals from the self-pipe,  *)
(* rounds of event processing, timers and window updates for as long as a   *)
(* flag asks for another one, then the decision to stop, the addon reload   *)
(* and the sleep in select.                                                *)
(*                                                                         *)
(* Time is kept relative to now, in ticks: a timer holds the ticks left to  *)
(* its time + milli.  The code compares with the clock it last read, lag    *)
(* ticks ago, so left + lag is what it computes.                           *)
(***************************************************************************)
EXTENDS Integers, Sequences

CONSTANTS
    Timer,         \* values of timeoutIdx: one per timer pending at a time
    Modules,       \* eventmodules, in order
    X11,           \* the one of them that consumes the XIM queue
    Delays,        \* values of milli, in ticks
    MaxLag,        \* ticks one pass of the loop may take
    Burst,         \* events that may arrive before the loop sleeps again
    Forever        \* the timeout of a select that waits for events only

ModuleSet == {Modules[i] : i \in DOMAIN Modules}

ASSUME ModulesAssumption == Modules \in Seq(ModuleSet) /\ X11 \in ModuleSet
ASSUME BoundAssumption   == /\ Delays \subseteq Nat
                            /\ MaxLag \in Nat /\ Burst \in Nat
ASSUME ForeverAssumption == /\ Forever \in Nat
                            /\ \A d \in Delays : d + MaxLag < Forever

VARIABLES
    pc,            \* where the loop is
    idx,           \* the module, or the timer, it looks at
    timeout,       \* instance->timeout
    lag,           \* ticks since the clock was read, or the loop woke up
    wait,          \* ticks left of the select's timeout
    eventflag,     \* instance->eventflag
    ending,        \* instance->destroy and instance->restart
    pipe,          \* signals in the self-pipe
    fds,           \* modules with events on their connection
    buffered,      \* modules with events already read by their library
    ximQueue,      \* xim->queue is not empty
    asked,         \* who asked for a window update that was not made yet
    burst          \* events arrived since the loop slept

vars == <<pc, idx, timeout, lag, wait, eventflag, ending, pipe, fds, buffered,
          ximQueue, asked, burst>>

Flag   == {"UI_UPDATE", "UI_MOVE", "EVENT_CHECK", "RELOAD_ADDON"}
Mask   == {"UI_UPDATE", "UI_MOVE", "EVENT_CHECK"}     \* FEF_PROCESS_EVENT_MASK
Signal == {"INT", "HUP", "USR1"}
PC     == {"signals", "dispatch", "xim", "timers", "paint", "check", "sleep", "stopped"}

Init ==
    /\ pc = "signals" /\ idx = 1
    /\ timeout = <<>> /\ lag = 0 /\ wait = 0
    /\ eventflag = {} /\ ending = {}
    /\ pipe = {} /\ fds = {} /\ buffered = {} /\ ximQueue = FALSE
    /\ asked = {} /\ burst = 0

-----------------------------------------------------------------------------
(* The array of timers.                                                    *)

Ids(T) == {T[i].id : i \in DOMAIN T}

AddTimeout(T, id, milli) == Append(T, [id |-> id, left |-> milli])

(* The last element takes the place of the removed one.                     *)
RemoveQuick(T, i) ==
    [k \in 1 .. Len(T) - 1 |-> IF k = i THEN T[Len(T)] ELSE T[k]]

RemoveTimeoutById(T, id) ==
    IF id \in Ids(T) THEN RemoveQuick(T, CHOOSE i \in DOMAIN T : T[i].id = id)
                     ELSE T

Due(ti) == ti.left + lag <= 0

(* The timeout of select: that of the first timer to come.  The difference  *)
(* is unsigned, so a timer already past would count as one far away.        *)
MinTime(T) ==
    LET ahead == {T[i].left + lag : i \in {k \in DOMAIN T : T[k].left + lag >= 0}}
    IN  IF ahead = {} THEN Forever
        ELSE CHOOSE m \in ahead : \A o \in ahead : m <= o

-----------------------------------------------------------------------------
(* What addons do when the loop calls them.                                *)

(* Ask for a window update, or for the input window to be moved.           *)
Ask(flag, by) ==
    /\ eventflag' = eventflag \cup {flag}
    /\ asked' = IF flag = "UI_UPDATE" THEN asked \cup {by} ELSE asked

(* A round trip on the connection of module m: its library reads what has  *)
(* arrived into its own queue.                                             *)
RoundTrip(m) ==
    /\ fds' = fds \ {m}
    /\ buffered' = buffered \cup (fds \cap {m})

(* The effects a timer's callback may have on the array T; those of the     *)
(* addons in the tree only add timers, with a delay.                       *)
Callback(T, U) ==
    \/ U = T /\ UNCHANGED <<eventflag, asked, fds, buffered>>
    \/ U = T /\ Ask("UI_UPDATE", "request") /\ UNCHANGED <<fds, buffered>>
    \/ U = T /\ (\E m \in ModuleSet : RoundTrip(m)) /\ UNCHANGED <<eventflag, asked>>
    \/ /\ \E id \in Timer \ Ids(T), d \in Delays \ {0} : U = AddTimeout(T, id, d)
       /\ UNCHANGED <<eventflag, asked, fds, buffered>>

-----------------------------------------------------------------------------
(* One iteration of the loop.                                              *)

(* The head of the inner loop forgets what the last round was asked for.    *)
StartRound(flags) ==
    /\ pc' = "dispatch" /\ idx' = 1
    /\ eventflag' = flags \ Mask

(* SIGUSR1 reloads every configuration; an input method engine reloading    *)
(* its own may refresh the list, which asks for a window update.           *)
ReadSignals ==
    /\ pc = "signals"
    /\ pipe' = {}
    /\ ending' = ending \cup (IF "INT" \in pipe THEN {"destroy"} ELSE {})
                        \cup (IF "HUP" \in pipe THEN {"restart"} ELSE {})
    /\ StartRound(IF "USR1" \in pipe THEN eventflag \cup {"RELOAD_ADDON"} ELSE eventflag)
    /\ asked' \in {asked, IF "USR1" \in pipe THEN asked \cup {"reload"} ELSE asked}
    /\ UNCHANGED <<timeout, lag, wait, fds, buffered, ximQueue, burst>>

(* What handling a module's events leads to: nothing, an update, a move or  *)
(* a reload asked for, the end, a timer more or less, a call to an XIM      *)
(* client left in the queue.  A module that comes after X11, fcitx-remote's, *)
(* leaves one there only by a change of state or of input method, and those *)
(* ask for an update.                                                      *)
Handle ==
    \/ UNCHANGED <<eventflag, asked, ending, timeout, ximQueue>>
    \/ /\ \E flag \in {"UI_UPDATE", "UI_MOVE", "RELOAD_ADDON"} : Ask(flag, "request")
       /\ UNCHANGED <<ending, timeout, ximQueue>>
    \/ /\ \E e \in {"destroy", "restart"} : ending' = ending \cup {e}
       /\ UNCHANGED <<eventflag, asked, timeout, ximQueue>>
    \/ /\ \/ \E id \in Timer \ Ids(timeout), d \in Delays :
                 timeout' = AddTimeout(timeout, id, d)
          \/ \E id \in Ids(timeout) : timeout' = RemoveTimeoutById(timeout, id)
       /\ UNCHANGED <<eventflag, asked, ending, ximQueue>>
    \/ /\ ximQueue' = TRUE
       /\ IF \E i \in 1 .. idx - 1 : Modules[i] = X11 THEN Ask("UI_UPDATE", "request")
                                                      ELSE UNCHANGED <<eventflag, asked>>
       /\ UNCHANGED <<ending, timeout>>

NextModule(m) == IF m = X11 THEN pc' = "xim" /\ UNCHANGED idx
                            ELSE idx' = idx + 1 /\ UNCHANGED pc

ProcessEvent ==
    /\ pc = "dispatch" /\ idx <= Len(Modules)
    /\ LET m == Modules[idx]
       IN  /\ IF m \in fds \cup buffered THEN Handle
              ELSE UNCHANGED <<eventflag, asked, ending, timeout, ximQueue>>
           /\ fds' = fds \ {m} /\ buffered' = buffered \ {m}
           /\ NextModule(m)
    /\ UNCHANGED <<lag, wait, pipe, burst>>

(* The X11 module ends with the calls the XIM frontend has queued.  Sending *)
(* them may have read events, so another round is asked for.               *)
ConsumeQueue ==
    /\ pc = "xim"
    /\ ximQueue' = FALSE
    /\ eventflag' = IF ximQueue THEN eventflag \cup {"EVENT_CHECK"} ELSE eventflag
    /\ pc' = "dispatch" /\ idx' = idx + 1
    /\ IF ximQueue /\ X11 \in fds THEN RoundTrip(X11) ELSE UNCHANGED <<fds, buffered>>
    /\ UNCHANGED <<timeout, lag, wait, ending, pipe, asked, burst>>

(* gettimeofday, then the scan of the timers.                              *)
ReadClock ==
    /\ pc = "dispatch" /\ idx > Len(Modules)
    /\ pc' = "timers" /\ idx' = 1 /\ lag' = 0
    /\ UNCHANGED <<timeout, wait, eventflag, ending, pipe, fds, buffered, ximQueue,
                   asked, burst>>

AfterRemovalSkips(T, i, id) ==                          \* mutant of AfterRemoval
    IF i \in DOMAIN T /\ T[i].id = id THEN <<RemoveQuick(T, i), i + 1>>
                                      ELSE <<RemoveTimeoutById(T, id), 1>>

AfterRemovalStepsBack(T, i, id) ==                      \* mutant of AfterRemoval
    IF i \in DOMAIN T /\ T[i].id = id THEN <<RemoveQuick(T, i), i - 1>>
                                      ELSE <<RemoveTimeoutById(T, id), 1>>

(* The array and the position after the timer id, called at position i, is  *)
(* taken out of what its callback has left.                                *)
AfterRemoval(T, i, id) ==
    IF i \in DOMAIN T /\ T[i].id = id THEN <<RemoveQuick(T, i), i>>
                                      ELSE <<RemoveTimeoutById(T, id), 1>>

CallTimer ==
    /\ pc = "timers" /\ idx <= Len(timeout)
    /\ IF Due(timeout[idx])
       THEN \E T \in {timeout} \cup {AddTimeout(timeout, id, d) :
                                         id \in Timer \ Ids(timeout), d \in Delays \ {0}} :
                /\ Callback(timeout, T)
                /\ LET after == AfterRemoval(T, idx, timeout[idx].id)
                   IN  timeout' = after[1] /\ idx' = after[2]
       ELSE /\ idx' = idx + 1
            /\ UNCHANGED <<timeout, eventflag, asked, fds, buffered>>
    /\ UNCHANGED <<pc, lag, wait, ending, pipe, ximQueue, burst>>

TimersDone ==
    /\ pc = "timers" /\ idx > Len(timeout)
    /\ pc' = "paint"
    /\ UNCHANGED <<idx, timeout, lag, wait, eventflag, ending, pipe, fds, buffered,
                   ximQueue, asked, burst>>

UpdatesUnlessMoved == "UI_UPDATE" \in eventflag /\ "UI_MOVE" \notin eventflag
                                                        \* mutant of Updates
Updates == "UI_UPDATE" \in eventflag

AgainForEvents == "EVENT_CHECK" \in eventflag           \* mutant of Again

(* The condition of the inner loop.                                        *)
Again == eventflag \cap Mask # {}

(* The window is moved and updated; drawing makes round trips to the X      *)
(* server and shows the preedit text of an XIM client through the queue.    *)
Paint ==
    /\ pc = "paint"
    /\ asked' = IF Updates THEN {} ELSE asked
    /\ IF Updates THEN /\ ximQueue' \in {ximQueue, TRUE}
                       /\ RoundTrip(X11) \/ UNCHANGED <<fds, buffered>>
                  ELSE UNCHANGED <<ximQueue, fds, buffered>>
    /\ IF Again THEN StartRound(eventflag)
                ELSE pc' = "check" /\ UNCHANGED <<idx, eventflag>>
    /\ UNCHANGED <<timeout, lag, wait, ending, pipe, burst>>

Stop ==
    /\ pc = "check" /\ ending # {}
    /\ pc' = "stopped"
    /\ UNCHANGED <<idx, timeout, lag, wait, eventflag, ending, pipe, fds, buffered,
                   ximQueue, asked, burst>>

(* The reload ends with the input method switched again, which asks for a   *)
(* window update; then the loop sleeps.                                    *)
Sleep ==
    /\ pc = "check" /\ ending = {}
    /\ IF "RELOAD_ADDON" \in eventflag
       THEN /\ eventflag' = (eventflag \ {"RELOAD_ADDON"}) \cup {"UI_UPDATE"}
            /\ asked' = asked \cup {"reload"}
       ELSE UNCHANGED <<eventflag, asked>>
    /\ pc' = "sleep"
    /\ wait' = MinTime(timeout)
    /\ burst' = 0
    /\ UNCHANGED <<idx, timeout, lag, ending, pipe, fds, buffered, ximQueue>>

AwakeForEvents == wait = 0 \/ fds # {}                  \* mutant of Awake

(* select returns: the time has come or a descriptor is ready, the self-    *)
(* pipe among them.                                                        *)
Awake == wait = 0 \/ fds # {} \/ pipe # {}

Wake ==
    /\ pc = "sleep" /\ Awake
    /\ pc' = "signals" /\ lag' = 0 /\ wait' = 0
    /\ UNCHANGED <<idx, timeout, eventflag, ending, pipe, fds, buffered, ximQueue,
                   asked, burst>>

Loop == \/ ReadSignals \/ ProcessEvent \/ ConsumeQueue \/ ReadClock \/ CallTimer
        \/ TimersDone \/ Paint \/ Stop \/ Sleep \/ Wake

-----------------------------------------------------------------------------
(* What happens beside the loop.                                           *)

(* The X server is gone: from wherever events, timers or windows are being  *)
(* handled the loop jumps to where it decides to stop.                     *)
XIOError ==
    /\ pc \in {"dispatch", "xim", "timers", "paint"}
    /\ "destroy" \notin ending
    /\ ending' = ending \cup {"destroy"}
    /\ pc' = "check"
    /\ UNCHANGED <<idx, timeout, lag, wait, eventflag, pipe, fds, buffered, ximQueue,
                   asked, burst>>

(* Time passes while the loop works, up to MaxLag, and while it sleeps.     *)
Tick ==
    /\ pc # "stopped"
    /\ timeout' = [i \in DOMAIN timeout |-> [timeout[i] EXCEPT !.left = @ - 1]]
    /\ IF pc = "sleep" THEN wait \in 1 .. Forever - 1 /\ wait' = wait - 1 /\ UNCHANGED lag
                       ELSE lag < MaxLag /\ lag' = lag + 1 /\ UNCHANGED wait
    /\ UNCHANGED <<pc, idx, eventflag, ending, pipe, fds, buffered, ximQueue, asked, burst>>

Arrive(m) ==
    /\ pc # "stopped"
    /\ m \notin fds /\ burst < Burst
    /\ fds' = fds \cup {m} /\ burst' = burst + 1
    /\ UNCHANGED <<pc, idx, timeout, lag, wait, eventflag, ending, pipe, buffered,
                   ximQueue, asked>>

OnException(signo) ==
    /\ pc # "stopped"
    /\ signo \notin pipe /\ burst < Burst
    /\ pipe' = pipe \cup {signo} /\ burst' = burst + 1
    /\ UNCHANGED <<pc, idx, timeout, lag, wait, eventflag, ending, fds, buffered,
                   ximQueue, asked>>

Next == \/ Loop \/ XIOError \/ Tick
        \/ \E m \in ModuleSet : Arrive(m)
        \/ \E signo \in Signal : OnException(signo)

Spec == Init /\ [][Next]_vars

(* The loop is a running thread, and time passes.                          *)
Fairness == WF_vars(Loop) /\ WF_vars(Tick)
FairSpec == Spec /\ Fairness

-----------------------------------------------------------------------------
Pending == [id : Timer, left : Int]

TypeOK ==
    /\ pc \in PC /\ idx \in Nat \ {0}
    /\ timeout \in Seq(Pending)
    /\ lag \in 0 .. MaxLag /\ wait \in 0 .. Forever
    /\ eventflag \subseteq Flag /\ ending \subseteq {"destroy", "restart"}
    /\ pipe \subseteq Signal /\ fds \subseteq ModuleSet /\ buffered \subseteq ModuleSet
    /\ ximQueue \in BOOLEAN /\ asked \subseteq {"request", "reload"}
    /\ burst \in 0 .. Burst

(* However timers are added, called and removed, the loop never sleeps past *)
(* one by more than the time it worked since it read the clock: none due is *)
(* left behind by the scan for the unsigned difference to make far away.    *)
NeverOversleeps ==
    pc = "sleep" => \A i \in DOMAIN timeout : wait <= timeout[i].left + lag

(* Whatever an addon leaves in the XIM queue, at whatever point of a round, *)
(* is sent before the loop sleeps.                                         *)
XIMQueueSent == pc = "sleep" => ~ ximQueue

(* A window update asked for by a request or a timer is made before the     *)
(* loop sleeps, and before the head of a round forgets it.                 *)
RequestedUpdateMade == pc = "sleep" => "request" \notin asked

(* Every timer is called or removed, unless the loop ends.                  *)
TimersCalled ==
    \A id \in Timer : id \in Ids(timeout) ~> (id \notin Ids(timeout) \/ pc = "stopped")

(* A signal to terminate ends the loop.                                    *)
SignalEnds == "INT" \in pipe ~> pc = "stopped"

-----------------------------------------------------------------------------
(* "mark input window should update" (FcitxUIUpdateInputWindow): whoever    *)
(* marks it, the loop does not go to sleep on it.                          *)
MarkedIsUpdated == pc = "sleep" => asked = {}

(* "some event maybe sync to the buffer, set this flag to force recheck"    *)
(* (FcitxInstanceSetRecheckEvent): the loop does not sleep while events     *)
(* wait in the buffer of a library, where select does not see them.        *)
BufferedIsChecked == pc = "sleep" => buffered = {}
=============================================================================
