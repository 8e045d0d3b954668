-------------------------------- MODULE Tray --------------------------------
(***************************************************************************)
(* The tray icon of the classic user interface: an item registered over    *)
(* D-Bus with a watcher (module/notificationitem), or, when there is no    *)
(* watcher or no answer, a window docked in the X11 tray.  The operators   *)
(* are from the process before a function to the process after it.         *)
(***************************************************************************)
EXTENDS Integers, Sequences

CONSTANTS
    Dock,        \* windows of X11 tray managers
    NoDock       \* None

ASSUME DockAssumption == NoDock \notin Dock

(* What the process holds: the fields of FcitxClassicUI and its TrayWindow, *)
(* those of FcitxNotificationItem, and those of FcitxInstance that say      *)
(* which user interface is used.                                           *)
Classic ==
    [isSuspend : BOOLEAN, notificationItemAvailable : BOOLEAN,
     waitDelayed : BOOLEAN,              \* the timer of 0 ms is pending
     trayTimeout : BOOLEAN,              \* the timer of 100 ms is pending
     window : Dock \cup {NoDock},        \* where the window is docked, if there is one
     dockWindow : Dock \cup {NoDock},
     selected : SUBSET Dock]             \* docks whose end X11 will tell

(* A callback is set and a service name owned together.  Calls are those to *)
(* RegisterStatusNotifierItem without an answer; a stale one is for a       *)
(* service name given back since, or is with a watcher replaced since.      *)
(* registered says the watcher there is has taken the name owned now,       *)
(* replaced that only one which it replaced was given that name.           *)
Item ==
    [loaded : BOOLEAN, callback : BOOLEAN, available : BOOLEAN,
     calls : Seq({"current", "stale"}), registered : BOOLEAN, replaced : BOOLEAN]

-----------------------------------------------------------------------------
(* The window in the X11 tray.                                             *)

TrayWindowRelease(s) == [s EXCEPT !.classic.window = NoDock]

TrayWindowInitUnasked(s) ==                      \* mutant of TrayWindowInit
    LET c == s.classic
    IN  IF c.isSuspend \/ c.window # NoDock \/ c.dockWindow = NoDock THEN s
        ELSE [s EXCEPT !.classic.window = c.dockWindow,
                       !.classic.selected = @ \cup {c.dockWindow}]

TrayWindowInit(s) ==
    LET c == s.classic
    IN  IF c.isSuspend \/ c.notificationItemAvailable \/ c.window # NoDock
           \/ c.dockWindow = NoDock
        THEN s
        ELSE [s EXCEPT !.classic.window = c.dockWindow,
                       !.classic.selected = @ \cup {c.dockWindow}]

ShowTray(s) == TrayWindowInit(TrayWindowRelease(s))

(* A tray manager announces itself; with one known, nothing is done.       *)
DockAnnounced(s, d) ==
    IF s.classic.dockWindow # NoDock THEN s
    ELSE ShowTray([s EXCEPT !.classic.dockWindow = d])

(* The one that is used has ended; now is the one there is since, if any.   *)
DockEnded(s, d, now) ==
    IF s.classic.dockWindow # d THEN s
    ELSE IF now = NoDock
    THEN TrayWindowRelease([s EXCEPT !.classic.dockWindow = NoDock])
    ELSE ShowTray([s EXCEPT !.classic.dockWindow = now])

-----------------------------------------------------------------------------
(* The classic user interface is told whether the item is in the tray.      *)

NotificationItemAvailable(s, available) ==
    IF s.classic.isSuspend THEN s
    ELSE IF available
    THEN TrayWindowRelease([s EXCEPT !.classic.notificationItemAvailable = TRUE,
                                     !.classic.trayTimeout = FALSE])
    ELSE ShowTray([s EXCEPT !.classic.notificationItemAvailable = FALSE])

-----------------------------------------------------------------------------
(* The notification item.                                                  *)

Register(s) == [s EXCEPT !.item.calls = Append(@, "current")]

EnableUnregistered(s) == [s EXCEPT !.item.callback = TRUE]    \* mutant of Enable

Enable(s) ==
    IF s.item.callback THEN s
    ELSE LET s1 == [s EXCEPT !.item.callback = TRUE]
         IN  IF s.item.available THEN Register(s1) ELSE s1

(* The service name is given back: the watcher forgets it.                 *)
Disable(s) ==
    [s EXCEPT !.item.callback = FALSE, !.item.registered = FALSE, !.item.replaced = FALSE,
              !.item.calls = [i \in DOMAIN @ |-> "stale"]]

(* The answer is not looked at: an error counts as success.                *)
RegisterSuccess(s) ==
    IF s.item.callback THEN NotificationItemAvailable(s, TRUE) ELSE s

(* A watcher has come or gone, or the bus has said whether there is one.    *)
(* One that has taken the place of another is not registered with.         *)
SetAvailable(s, available) ==
    LET s1 == [s EXCEPT !.item.available = available]
    IN  IF s.item.available = available \/ ~s.item.callback THEN s1
        ELSE IF available THEN Register(s1)
        ELSE NotificationItemAvailable(s1, FALSE)

-----------------------------------------------------------------------------
(* The classic user interface's timers, and its part in a change of user    *)
(* interface.                                                              *)

InitTray(s) ==
    IF s.classic.isSuspend THEN s
    ELSE IF s.item.loaded THEN [Enable(s) EXCEPT !.classic.trayTimeout = TRUE]
    ELSE ShowTray(s)

DelayedInitTray(s) == InitTray([s EXCEPT !.classic.waitDelayed = FALSE])

DelayedShowTrayLater(s) ==                       \* mutant of DelayedShowTray
    IF s.classic.isSuspend \/ s.classic.window # NoDock
    THEN [s EXCEPT !.classic.trayTimeout = FALSE] ELSE s

DelayedShowTray(s) ==
    LET s1 == [s EXCEPT !.classic.trayTimeout = FALSE]
    IN  IF s.classic.isSuspend \/ s.classic.window # NoDock THEN s1 ELSE ShowTray(s1)

ClassicUISuspend(s) ==
    Disable(TrayWindowRelease([s EXCEPT !.classic.isSuspend = TRUE,
                                        !.classic.notificationItemAvailable = FALSE]))

ClassicUIResume(s) == InitTray([s EXCEPT !.classic.isSuspend = FALSE])

(* ClassicUICreate: nothing is shown before the timer of 0 ms.             *)
Created(dock) ==
    [isSuspend |-> FALSE, notificationItemAvailable |-> FALSE, waitDelayed |-> TRUE,
     trayTimeout |-> FALSE, window |-> NoDock, dockWindow |-> dock, selected |-> {}]
=============================================================================
