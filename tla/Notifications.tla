---------------------------- MODULE Notifications ----------------------------
(***************************************************************************)
(* The notifications the freedesktop-notify module has asked the daemon    *)
(* for: an item is referred to by the pending call that will answer with   *)
(* its id, and by the table of intern ids the callers know it by, until    *)
(* the notification is closed, replaced or withdrawn, or is too old.       *)
(*                                                                         *)
(* timeout_added is never set, so every check that leaves an item adds a   *)
(* timer.  The timers are the set of the ticks left to them: two that go   *)
(* off at once do together what one would.                                 *)
(***************************************************************************)
EXTENDS Integers

CONSTANTS
    Item,          \* memory cells an item can occupy
    Id,            \* ids the daemon gives; never 0
    NoItem,        \* replaceId is 0 or names an item that is gone
    RealTime,      \* TIMEOUT_REAL_TIME, in ticks
    AddTime,       \* TIMEOUT_ADD_TIME, in ticks
    MaxReply       \* the longest the answer to a call takes, in ticks

ASSUME IdAssumption   == Id \subseteq Nat \ {0} /\ NoItem \notin Item
ASSUME TimeAssumption == /\ RealTime \in Nat /\ AddTime \in Nat /\ MaxReply \in Nat
                         /\ RealTime < AddTime

VARIABLES
    item,          \* the items, by cell
    timers         \* ticks left to the timers of FcitxNotifyTimeoutCb

vars == <<item, timers>>

State == {"SENT", "TO_BE_REMOVE"}

FcitxNotifyItem ==
    [live : BOOLEAN,                   \* allocated
     intern : BOOLEAN,                 \* in intern_table
     global_id : Id \cup {0},          \* in global_table when it is not 0
     ref_count : Int, state : State,
     age : Nat,                        \* ticks since item->time
     call : BOOLEAN]                   \* a pending call has the item as its data

Unused == [live |-> FALSE, intern |-> FALSE, global_id |-> 0, ref_count |-> 0,
           state |-> "SENT", age |-> 0, call |-> FALSE]

Init == item = [c \in Item |-> Unused] /\ timers = {}

-----------------------------------------------------------------------------
(* References.  The functions take an item, or the items, and change them.  *)

UnrefKeepsLast(it) == [it EXCEPT !.ref_count = @ - 1]   \* mutant of Unref

Unref(it) ==
    IF it.ref_count > 1 THEN [it EXCEPT !.ref_count = @ - 1]
    ELSE [it EXCEPT !.ref_count = @ - 1, !.live = FALSE, !.intern = FALSE,
                    !.global_id = 0]

(* RemoveGlobal and Unref, as when the daemon has closed the notification.  *)
DropGlobal(it) == Unref([it EXCEPT !.global_id = 0])

AddGlobalBeside(items, c, id) ==                        \* mutant of AddGlobal
    [items EXCEPT ![c].global_id = id]

(* An older item that has the id, from before the daemon was restarted or   *)
(* by an answer that was an error, loses it.                               *)
AddGlobal(items, c, id) ==
    [d \in Item |-> IF d = c THEN [items[d] EXCEPT !.global_id = id]
                    ELSE IF id # 0 /\ items[d].global_id = id
                         THEN [items[d] EXCEPT !.global_id = 0]
                    ELSE items[d]]

WithdrawnAtOnce(it) == DropGlobal(it)                   \* mutant of Withdrawn

(* A notification without an id yet can only be marked.                     *)
Withdrawn(it) ==
    IF it.global_id = 0 THEN [it EXCEPT !.state = "TO_BE_REMOVE"] ELSE DropGlobal(it)

-----------------------------------------------------------------------------
(* Age.                                                                    *)

TooOld(it) == it.intern /\ it.age > RealTime

CheckTimeout(items) ==
    [c \in Item |-> IF TooOld(items[c]) THEN Unref([items[c] EXCEPT !.intern = FALSE])
                                        ELSE items[c]]

TimerTooFar(items) ==                                   \* mutant of NextTimer
    LET left == {c \in Item : items[c].intern /\ ~ TooOld(items[c])}
    IN  {AddTime + items[c].age : c \in {d \in left : \A e \in left :
                                             items[d].age >= items[e].age}}

(* The timer a check adds, if an item is left: for the earliest of them.    *)
NextTimer(items) ==
    LET left == {c \in Item : items[c].intern /\ ~ TooOld(items[c])}
    IN  {AddTime - items[c].age : c \in {d \in left : \A e \in left :
                                             items[d].age >= items[e].age}}

-----------------------------------------------------------------------------
New == [live |-> TRUE, intern |-> TRUE, global_id |-> 0, ref_count |-> 2,
        state |-> "SENT", age |-> 0, call |-> TRUE]

(* The items after the one replaced is closed as far as it can be.          *)
Replaced(replace) ==
    IF replace = NoItem THEN item ELSE [item EXCEPT ![replace] = Withdrawn(@)]

SendNotificationUnchecked(c, replace) ==                \* mutant of SendNotification
    /\ replace # NoItem => item[replace].intern
    /\ ~ Replaced(replace)[c].live /\ ~ Replaced(replace)[c].call
    /\ item' = [Replaced(replace) EXCEPT ![c] = New]
    /\ UNCHANGED timers

(* The new notification is sent, and the table checked.                     *)
SendNotification(c, replace) ==
    /\ replace # NoItem => item[replace].intern
    /\ ~ Replaced(replace)[c].live /\ ~ Replaced(replace)[c].call
    /\ LET sent == [Replaced(replace) EXCEPT ![c] = New]
       IN  /\ item' = CheckTimeout(sent)
           /\ timers' = timers \cup NextTimer(sent)

CloseNotification(c) ==
    /\ item[c].intern
    /\ item' = [item EXCEPT ![c] = Withdrawn(@)]
    /\ UNCHANGED timers

(* FcitxNotifyCallback: the id is recorded, and a notification withdrawn     *)
(* meanwhile is closed.                                                    *)
Answer(items, c, id) ==
    IF items[c].global_id # 0 THEN items
    ELSE LET found == AddGlobal(items, c, id)
         IN  IF found[c].state = "TO_BE_REMOVE"
             THEN [found EXCEPT ![c] = DropGlobal(@)] ELSE found

(* The answer to the call, and the unref of the item that was its data.  An *)
(* error has no id: what is read is whatever was on the stack.             *)
NotifyCallback(c, id) ==
    /\ item[c].call
    /\ item' = [Answer(item, c, id) EXCEPT ![c] = Unref([@ EXCEPT !.call = FALSE])]
    /\ UNCHANGED timers

(* The daemon's signal.                                                    *)
NotificationClosed(id) ==
    \E c \in Item :
        /\ item[c].global_id = id
        /\ item' = [item EXCEPT ![c] = DropGlobal(@)]
        /\ UNCHANGED timers

TimeoutCb ==
    /\ 0 \in timers
    /\ item' = CheckTimeout(item)
    /\ timers' = (timers \ {0}) \cup NextTimer(item)

(* The loop calls a timer that is due before time goes on, and the daemon   *)
(* takes no longer than MaxReply.  Ages past AddTime are all the same.       *)
Tick ==
    /\ 0 \notin timers
    /\ \A c \in Item : item[c].call => item[c].age < MaxReply
    /\ item' = [c \in Item |->
                   IF item[c].live /\ (item[c].age <= AddTime \/ item[c].age < MaxReply)
                   THEN [item[c] EXCEPT !.age = @ + 1] ELSE item[c]]
    /\ timers' = {t - 1 : t \in timers}

Next ==
    \/ \E c \in Item :
           \/ \E replace \in Item \cup {NoItem} : SendNotification(c, replace)
           \/ CloseNotification(c)
           \/ \E id \in Id \cup {0} : NotifyCallback(c, id)
    \/ \E id \in Id : NotificationClosed(id)
    \/ TimeoutCb
    \/ Tick

Spec == Init /\ [][Next]_vars

(* Every call is answered, by the bus with an error if not by the daemon;   *)
(* the loop calls its timers, and time passes.                             *)
Answered(c) == \E id \in Id \cup {0} : NotifyCallback(c, id)
Fairness == /\ \A c \in Item : WF_vars(Answered(c))
            /\ WF_vars(TimeoutCb) /\ WF_vars(Tick)
FairSpec == Spec /\ Fairness

-----------------------------------------------------------------------------
TypeOK == /\ item \in [Item -> FcitxNotifyItem]
          /\ timers \subseteq 0 .. AddTime

(* "One for pending notify callback, one for table": whatever order the     *)
(* answer, the daemon's signal, a withdrawal, a replacement and the check   *)
(* of ages come in, an item has exactly these references and is freed with  *)
(* the last, once.                                                         *)
One(b) == IF b THEN 1 ELSE 0
Referred(it) == it.ref_count = One(it.call) + One(it.intern)
Counted == \A c \in Item : /\ Referred(item[c])
                           /\ item[c].live <=> item[c].ref_count > 0

(* A signal of the daemon finds at most one item, whatever ids the answers  *)
(* have brought.                                                           *)
OneItemPerId ==
    \A c, d \in Item : item[c].global_id = item[d].global_id /\ c # d
                           => item[c].global_id = 0

(* No item stays in the table longer than AddTime: a timer is pending for   *)
(* the earliest, whatever was sent, closed and checked since it was added.  *)
ItemsExpire == \A c \in Item : item[c].intern => item[c].age <= AddTime

(* Every item is freed in the end, withdrawn or not (and its cell may be a  *)
(* new item's at once, of age 0).                                          *)
ItemsFreed ==
    \A c \in Item : item[c].live /\ item[c].age > 0
                      ~> ~ item[c].live \/ item[c].age = 0
=============================================================================
