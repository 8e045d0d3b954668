---------------------------- MODULE UserInterface ----------------------------
(***************************************************************************)
(* Which of the two user interfaces is used, kimpanel (drawn by a panel in *)
(* another process) or the classic one, and the tray icon of the classic   *)
(* one.  The panel, the watcher of tray items and the X11 tray come and go *)
(* as they please; what the bus and the X server say of it is read later,  *)
(* in the order it was said.                                               *)
(***************************************************************************)
EXTENDS Tray, FiniteSets

CONSTANTS
    MaxQueue,      \* messages of the bus unread, calls unanswered included
    FailsCalls,    \* whether a watcher may end with a call unanswered
    EndsUnseen,    \* whether a dock may end whose events were not selected
    Named          \* the user interfaces an engine asks for by name

UI == {"kimpanel", "classic"}
NoUI == "none"

ASSUME UIAssumption ==
    /\ MaxQueue \in Nat /\ FailsCalls \in BOOLEAN /\ EndsUnseen \in BOOLEAN
    /\ Named \subseteq UI

VARIABLES
    process,       \* fcitx
    panel,         \* somebody owns org.kde.impanel
    watcher,       \* somebody owns org.kde.StatusNotifierWatcher
    dock,          \* the owner of the X11 tray's selection
    queue,         \* messages on the connection to the bus
    xevents        \* events on the connection to the X server

vars == <<process, panel, watcher, dock, queue, xevents>>
environment == <<panel, watcher, dock>>

Message == {"PanelCreated", "PanelGone", "WatcherCame", "WatcherGone", "Registered"}
XEvent == [type : {"Manager", "Destroyed", "Visual"}, dock : Dock]

Loaded(s) == {a \in UI : s.addon[a] = "loaded"}

Process ==
    [ui : UI \cup {NoUI}, uinormal : UI \cup {NoUI}, uifallback : UI \cup {NoUI},
     fallbackuiName : BOOLEAN,           \* set, to the classic one
     addon : [UI -> {"loaded", "failed", "disabled"}],
     classic : Classic, item : Item]

-----------------------------------------------------------------------------
(* The user interface core.                                                *)

Suspend(s, a) == IF a = "classic" THEN ClassicUISuspend(s) ELSE s
Resume(s, a) == IF a = "classic" THEN ClassicUIResume(s) ELSE s

(* The fallback is enabled, and loaded or can be loaded now.               *)
Usable(s, loads) == s.addon["classic"] \in {"loaded"} \cup (IF loads THEN {"failed"} ELSE {})

(* The fallback has been loaded at last: it is created, then suspended.     *)
LoadFallbackUnmarked(s, selection) ==            \* mutant of LoadFallback
    Suspend([s EXCEPT !.classic = Created(selection), !.uifallback = "classic"], "classic")

LoadFallback(s, selection) ==
    LET s1 == IF s.addon["classic"] = "loaded" THEN s
              ELSE [s EXCEPT !.addon["classic"] = "loaded",
                             !.classic = Created(selection)]
    IN  Suspend([s1 EXCEPT !.uifallback = "classic"], "classic")

SwitchWithoutSuspend(s, loads, selection) ==     \* mutant of SwitchToFallback
    IF ~s.fallbackuiName \/ s.ui # s.uinormal THEN s
    ELSE IF s.uifallback = NoUI /\ ~Usable(s, loads)
    THEN [s EXCEPT !.fallbackuiName = FALSE]
    ELSE LET s1 == IF s.uifallback = NoUI THEN LoadFallback(s, selection) ELSE s
         IN  [s1 EXCEPT !.ui = s1.uifallback]

SwitchToFallback(s, loads, selection) ==
    IF ~s.fallbackuiName \/ s.ui # s.uinormal THEN s
    ELSE IF s.uifallback = NoUI /\ ~Usable(s, loads)
    THEN [s EXCEPT !.fallbackuiName = FALSE]
    ELSE LET s1 == IF s.uifallback = NoUI THEN LoadFallback(s, selection) ELSE s
             s2 == Resume(Suspend(s1, s1.uinormal), s1.uifallback)
         IN  [s2 EXCEPT !.ui = s1.uifallback]

ResumeFromFallback(s) ==
    IF s.uifallback = NoUI \/ s.ui # s.uifallback THEN s
    ELSE [Resume(Suspend(s, s.uifallback), s.uinormal) EXCEPT !.ui = s.uinormal]

ResumeFromFallbackWithUIName(s, a) ==
    ResumeFromFallback(IF s.addon[a] = "disabled" THEN s ELSE [s EXCEPT !.uinormal = a])

(* FcitxUILoad: in the order of priority kimpanel, then the classic one,    *)
(* and the last that can be created is used.                               *)
UILoaded(addon, item, selection) ==
    LET ui == IF addon["classic"] = "loaded" THEN "classic"
              ELSE IF addon["kimpanel"] = "loaded" THEN "kimpanel" ELSE NoUI
    IN  [ui |-> ui, uinormal |-> ui, uifallback |-> NoUI,
         fallbackuiName |-> addon["kimpanel"] = "loaded",
         addon |-> addon, classic |-> Created(selection),
         item |-> [loaded |-> item, callback |-> FALSE, available |-> FALSE,
                   calls |-> <<>>, registered |-> FALSE, replaced |-> FALSE]]

-----------------------------------------------------------------------------
(* What the process hears of the others.                                   *)

HearWatcher == process.item.loaded
HearPanel == "kimpanel" \in Loaded(process)

(* Both modules ask at their creation whether the other one is there, and   *)
(* watch its name; the answer comes before any later change.               *)
Init ==
    /\ panel \in BOOLEAN /\ watcher \in BOOLEAN /\ dock \in Dock \cup {NoDock}
    /\ \E addon \in [UI -> {"loaded", "failed", "disabled"}], item \in BOOLEAN :
          process = UILoaded(addon, item, dock)
    /\ queue = (IF HearWatcher THEN <<IF watcher THEN "WatcherCame" ELSE "WatcherGone">>
                ELSE <<>>)
               \o (IF HearPanel /\ ~panel THEN <<"PanelGone">> ELSE <<>>)
    /\ xevents = <<>>

Room == Len(queue) + Len(process.item.calls) < MaxQueue

Tell(heard, m) == queue' = IF heard THEN Append(queue, m) ELSE queue

(* A panel says so when it starts, also when it takes the name from another. *)
PanelStarts ==
    /\ Room
    /\ panel' = TRUE
    /\ Tell(HearPanel, "PanelCreated")
    /\ UNCHANGED <<process, watcher, dock, xevents>>

PanelEnds ==
    /\ panel /\ Room
    /\ panel' = FALSE
    /\ Tell(HearPanel, "PanelGone")
    /\ UNCHANGED <<process, watcher, dock, xevents>>

(* Of itself, or started by the bus for a call.                            *)
WatcherStarts ==
    /\ ~watcher /\ Room
    /\ watcher' = TRUE
    /\ Tell(HearWatcher, "WatcherCame")
    /\ UNCHANGED <<process, panel, dock, xevents>>

WatcherEnds ==
    /\ watcher /\ Room
    /\ FailsCalls \/ process.item.calls = <<>>
    /\ watcher' = FALSE
    /\ process' = [process EXCEPT !.item.registered = FALSE, !.item.replaced = FALSE]
    /\ Tell(HearWatcher, "WatcherGone")
    /\ UNCHANGED <<panel, dock, xevents>>

AsksNow(item) == \E i \in DOMAIN item.calls : item.calls[i] = "current"

(* The new watcher knows nothing of what the old one took, nor of the calls  *)
(* that were with the old one when it lost the name.                       *)
Forgotten(item, delivered) ==
    [item EXCEPT
       !.registered = FALSE,
       !.replaced = @ \/ item.registered \/ (delivered /\ AsksNow(item)),
       !.calls = IF delivered THEN [i \in DOMAIN item.calls |-> "stale"] ELSE @]

(* A watcher takes the name from another: the owner of it changes at once,  *)
(* and the bus tells so in one message.                                    *)
WatcherReplaced ==
    /\ watcher /\ Room
    /\ \E delivered \in BOOLEAN :
          process' = [process EXCEPT !.item = Forgotten(@, delivered)]
    /\ Tell(HearWatcher, "WatcherCame")
    /\ UNCHANGED <<environment, xevents>>

(* The watcher takes the service name, or the bus answers with an error.    *)
Answer ==
    /\ process.item.calls # <<>>
    /\ watcher \/ FailsCalls
    /\ LET taken == watcher /\ Head(process.item.calls) = "current"
       IN  process' = [process EXCEPT !.item.calls = Tail(@),
                                      !.item.registered = @ \/ taken,
                                      !.item.replaced = @ /\ ~taken]
    /\ queue' = Append(queue, "Registered")
    /\ UNCHANGED <<environment, xevents>>

DockStarts(d) ==
    /\ dock = NoDock /\ d # process.classic.dockWindow     \* a new window
    /\ d \notin {xevents[i].dock : i \in DOMAIN xevents}
    /\ Len(xevents) < MaxQueue
    /\ dock' = d
    /\ xevents' = Append(xevents, [type |-> "Manager", dock |-> d])
    /\ process' = [process EXCEPT !.classic.selected = @ \ {d}]
    /\ UNCHANGED <<panel, watcher, queue>>

DockEnds ==
    /\ dock # NoDock /\ Len(xevents) < MaxQueue
    /\ EndsUnseen \/ dock \in process.classic.selected
    /\ dock' = NoDock
    /\ xevents' = IF dock \in process.classic.selected
                  THEN Append(xevents, [type |-> "Destroyed", dock |-> dock]) ELSE xevents
    /\ process' = [process EXCEPT !.classic.selected = @ \ {dock}]
    /\ UNCHANGED <<panel, watcher, queue>>

VisualChanges ==
    /\ dock \in process.classic.selected /\ Len(xevents) < MaxQueue
    /\ xevents' = Append(xevents, [type |-> "Visual", dock |-> dock])
    /\ UNCHANGED <<process, environment, queue>>

-----------------------------------------------------------------------------
(* What the process does.                                                  *)

(* The first message of the queue is handled by the module it is for.      *)
Receive(m) ==
    /\ queue # <<>> /\ Head(queue) = m
    /\ queue' = Tail(queue)
    /\ UNCHANGED <<environment, xevents>>

KimpanelOwnerChanged ==
    /\ Receive("PanelGone")
    /\ \E loads \in BOOLEAN : process' = SwitchToFallback(process, loads, dock)

PanelCreated ==
    /\ Receive("PanelCreated")
    /\ process' = ResumeFromFallback(process)

OwnerChanged ==
    \/ Receive("WatcherCame") /\ process' = SetAvailable(process, TRUE)
    \/ Receive("WatcherGone") /\ process' = SetAvailable(process, FALSE)

Registered ==
    /\ Receive("Registered")
    /\ process' = RegisterSuccess(process)

(* An engine outside this repository chooses the user interface.           *)
AskForUI(a) ==
    /\ Room
    /\ process' = ResumeFromFallbackWithUIName(process, a)
    /\ UNCHANGED <<environment, queue, xevents>>

TrayEventHandler ==
    /\ xevents # <<>>
    /\ xevents' = Tail(xevents)
    /\ LET e == Head(xevents)
       IN  process' =
             IF "classic" \notin Loaded(process) THEN process
             ELSE CASE e.type = "Manager" -> DockAnnounced(process, e.dock)
                    [] e.type = "Destroyed" -> DockEnded(process, e.dock, dock)
                    [] e.type = "Visual" /\ e.dock = process.classic.dockWindow ->
                          ShowTray(process)
                    [] OTHER -> process
    /\ UNCHANGED <<environment, queue>>

InitTimer ==
    /\ "classic" \in Loaded(process) /\ process.classic.waitDelayed
    /\ process' = DelayedInitTray(process)
    /\ UNCHANGED <<environment, queue, xevents>>

ShowTimer ==
    /\ process.classic.trayTimeout
    /\ process' = DelayedShowTray(process)
    /\ UNCHANGED <<environment, queue, xevents>>

Others ==
    \/ PanelStarts \/ PanelEnds \/ WatcherStarts \/ WatcherEnds \/ WatcherReplaced
    \/ Answer \/ DockEnds \/ VisualChanges \/ \E d \in Dock : DockStarts(d)

Timers == InitTimer \/ ShowTimer

Handle ==
    \/ KimpanelOwnerChanged \/ PanelCreated \/ OwnerChanged \/ Registered
    \/ TrayEventHandler \/ \E a \in Named : AskForUI(a)

Next == Others \/ Handle \/ Timers

Spec == Init /\ [][Next]_vars

(* The loop calls every timer in the end (EventLoop, TimersCalled).         *)
FairSpec == Spec /\ WF_vars(InitTimer) /\ WF_vars(ShowTimer)

-----------------------------------------------------------------------------
(* Properties.                                                             *)

TypeOK ==
    /\ process \in Process
    /\ {process.ui, process.uifallback} \subseteq Loaded(process) \cup {NoUI}
    /\ panel \in BOOLEAN /\ watcher \in BOOLEAN /\ dock \in Dock \cup {NoDock}
    /\ queue \in Seq(Message) /\ xevents \in Seq(XEvent)

InUse == "classic" \in Loaded(process) /\ ~process.classic.isSuspend

(* Exactly one user interface draws: the classic one is suspended whenever  *)
(* another is used, and never while it is used, whoever asked for the       *)
(* change, in whatever order, also when it is its own fallback.            *)
OnlyOneDraws ==
    "classic" \in Loaded(process) => (process.classic.isSuspend <=> process.ui # "classic")

(* The icon is never in two places, and a suspended user interface has      *)
(* neither a window nor an item, and owns no service name: an answer that   *)
(* comes late must not bring it back.                                      *)
OneIcon ==
    LET c == process.classic
    IN  /\ c.notificationItemAvailable => c.window = NoDock /\ process.item.callback
        /\ c.isSuspend => c.window = NoDock /\ ~process.item.callback
                          /\ ~c.notificationItemAvailable

Quiet ==
    /\ queue = <<>> /\ xevents = <<>> /\ process.item.calls = <<>>
    /\ ~process.classic.waitDelayed /\ ~process.classic.trayTimeout

(* "Use System Tray Icon": when every message has been read, call answered  *)
(* and timer called, the icon is an item of the watcher there is, or else a *)
(* window in the X11 tray there is.  Except where the watcher took the name *)
(* from one that had the item: the process goes on believing that it is     *)
(* registered, and the icon is nowhere until it asks again.                 *)
IconIsSomewhere ==
    Quiet /\ InUse =>
        /\ watcher /\ process.item.loaded /\ ~process.item.replaced =>
              process.item.registered /\ process.classic.notificationItemAvailable
        /\ ~(watcher /\ process.item.loaded) /\ dock # NoDock => process.classic.window = dock

(* The same without the exception: violated, see trayreplaced.cfg.           *)
WatcherHasItem ==
    Quiet /\ InUse /\ watcher /\ process.item.loaded => process.item.registered

(* What the user sees, if the watcher has the item the process believes in. *)
Place ==
    LET c == process.classic
    IN  IF ~InUse THEN "hidden"
        ELSE IF c.notificationItemAvailable THEN "item"
        ELSE IF c.window # NoDock THEN "window" ELSE "due"

Icon == INSTANCE TrayIcon WITH place <- Place, room <- process.classic.dockWindow # NoDock

(* The user interface implements TrayIcon: a hidden icon comes back only    *)
(* after it was due, and a due one does not stay out of a tray for ever.    *)
ImplementsTrayIcon == Icon!FairSpec
=============================================================================
