------------------------ MODULE UserInterfaceProofs ------------------------
(***************************************************************************)
(* Proofs about UserInterface, for any X11 trays and any messages on the   *)
(* way, whatever ends unseen or unanswered: one user interface draws, and  *)
(* its icon is in one place; and where it is in the end, when the ends are  *)
(* seen and the calls answered.                                            *)
(***************************************************************************)
EXTENDS UserInterface, TLAPS

(* The icon of a process is in one place, and nowhere while suspended.      *)
OnePlace(s) ==
    /\ s.classic.notificationItemAvailable =>
          s.classic.window = NoDock /\ s.item.callback
    /\ s.classic.isSuspend =>
          /\ s.classic.window = NoDock /\ s.item.callback = FALSE
          /\ s.classic.notificationItemAvailable = FALSE

Sane(s) == s \in Process /\ OnePlace(s)

(* What the tray does is no concern of the core's.                          *)
SameUI(s, t) ==
    /\ t.ui = s.ui /\ t.uinormal = s.uinormal /\ t.uifallback = s.uifallback
    /\ t.fallbackuiName = s.fallbackuiName /\ t.addon = s.addon

Kept(s, t) == SameUI(s, t) /\ t.classic.isSuspend = s.classic.isSuspend

(* A fallback is there only with both interfaces loaded, so an interface an *)
(* engine names can always be resumed.                                     *)
Coherent(s) ==
    /\ s.ui \in Loaded(s) \cup {NoUI}
    /\ s.uifallback \in {NoUI, "classic"}
    /\ s.uifallback = "classic" => s.addon["classic"] = "loaded" /\ s.addon["kimpanel"] = "loaded"
    /\ s.fallbackuiName => s.addon["kimpanel"] = "loaded"
    /\ s.uifallback = "classic" => s.uinormal \in UI
    /\ s.addon["kimpanel"] = "loaded" => s.ui # NoUI
    /\ s.addon["classic"] = "loaded" => (s.classic.isSuspend <=> s.ui # "classic")

-----------------------------------------------------------------------------
LEMMA ReleaseSane ==
    ASSUME NEW s, Sane(s)
    PROVE  /\ Sane(TrayWindowRelease(s)) /\ Kept(s, TrayWindowRelease(s))
           /\ TrayWindowRelease(s).classic.window = NoDock
           /\ TrayWindowRelease(s).item = s.item
BY DEF Sane, OnePlace, Kept, SameUI, TrayWindowRelease, Process, Classic, Item

LEMMA TrayInitSane ==
    ASSUME NEW s, Sane(s)
    PROVE  Sane(TrayWindowInit(s)) /\ Kept(s, TrayWindowInit(s))
<1> DEFINE c == s.classic
           t == [s EXCEPT !.classic.window = c.dockWindow,
                          !.classic.selected = @ \cup {c.dockWindow}]
<1>1. CASE c.isSuspend \/ c.notificationItemAvailable \/ c.window # NoDock
           \/ c.dockWindow = NoDock
  BY <1>1 DEF TrayWindowInit, Kept, SameUI
<1>2. CASE ~(c.isSuspend \/ c.notificationItemAvailable \/ c.window # NoDock
             \/ c.dockWindow = NoDock)
  <2>1. TrayWindowInit(s) = t
    BY <1>2 DEF TrayWindowInit
  <2>2. c.dockWindow \in Dock /\ c.selected \cup {c.dockWindow} \in SUBSET Dock
    BY <1>2 DEF Sane, Process, Classic
  <2>3. t \in Process /\ Kept(s, t)
    BY <2>2 DEF Sane, Process, Classic, Kept, SameUI
  <2>4. OnePlace(t)
    BY <1>2 DEF OnePlace, Sane, Process, Classic
  <2> QED BY <2>1, <2>3, <2>4 DEF Sane
<1> QED BY <1>1, <1>2

LEMMA ShowSane ==
    ASSUME NEW s, Sane(s)
    PROVE  Sane(ShowTray(s)) /\ Kept(s, ShowTray(s))
<1> DEFINE r == TrayWindowRelease(s)
<1>1. Sane(r) /\ Kept(s, r)
  BY ReleaseSane
<1>2. Sane(TrayWindowInit(r)) /\ Kept(r, TrayWindowInit(r))
  BY <1>1, TrayInitSane
<1> QED BY <1>1, <1>2 DEF ShowTray, Kept, SameUI

(* The events of the X11 tray.                                             *)
LEMMA AnnouncedSane ==
    ASSUME NEW s, Sane(s), NEW d \in Dock
    PROVE  Sane(DockAnnounced(s, d)) /\ Kept(s, DockAnnounced(s, d))
<1> DEFINE t == [s EXCEPT !.classic.dockWindow = d]
<1>1. Sane(t) /\ Kept(s, t)
  BY DEF Sane, OnePlace, Kept, SameUI, Process, Classic
<1>2. Sane(ShowTray(t)) /\ Kept(t, ShowTray(t))
  BY <1>1, ShowSane
<1> QED BY <1>1, <1>2 DEF DockAnnounced, Kept, SameUI

LEMMA EndedSane ==
    ASSUME NEW s, Sane(s), NEW d \in Dock, NEW now \in Dock \cup {NoDock}
    PROVE  Sane(DockEnded(s, d, now)) /\ Kept(s, DockEnded(s, d, now))
<1> DEFINE t == [s EXCEPT !.classic.dockWindow = now]
<1>1. Sane(t) /\ Kept(s, t)
  BY DEF Sane, OnePlace, Kept, SameUI, Process, Classic
<1>2. Sane(ShowTray(t)) /\ Kept(t, ShowTray(t))
  BY <1>1, ShowSane
<1>3. Sane(TrayWindowRelease(t)) /\ Kept(t, TrayWindowRelease(t))
  BY <1>1, ReleaseSane
<1> QED BY <1>1, <1>2, <1>3 DEF DockEnded, Kept, SameUI

-----------------------------------------------------------------------------
(* The item.  A callback stays set while it is told of an answer.           *)
LEMMA AvailableSane ==
    ASSUME NEW s, Sane(s), NEW available \in BOOLEAN, available => s.item.callback
    PROVE  Sane(NotificationItemAvailable(s, available))
           /\ Kept(s, NotificationItemAvailable(s, available))
<1>1. CASE s.classic.isSuspend
  BY <1>1 DEF NotificationItemAvailable, Kept, SameUI
<1>2. CASE ~s.classic.isSuspend /\ available
  <2> DEFINE r == [s EXCEPT !.classic.window = NoDock]
             t == [s EXCEPT !.classic.notificationItemAvailable = TRUE,
                            !.classic.trayTimeout = FALSE]
             u == TrayWindowRelease(t)
  <2>1. NotificationItemAvailable(s, available) = u
    BY <1>2 DEF NotificationItemAvailable
  <2>2. t \in Process /\ Kept(s, t) /\ t.item = s.item
    BY DEF Sane, Process, Classic, Kept, SameUI
  <2>3. u \in Process /\ Kept(t, u) /\ u.item = t.item /\ u.classic.window = NoDock
    BY <2>2 DEF TrayWindowRelease, Process, Classic, Kept, SameUI
  <2>4. OnePlace(u)
    BY <1>2, <2>2, <2>3 DEF OnePlace, Kept
  <2> QED BY <2>1, <2>2, <2>3, <2>4 DEF Sane, Kept, SameUI
<1>3. CASE ~s.classic.isSuspend /\ ~available
  <2> DEFINE t == [s EXCEPT !.classic.notificationItemAvailable = FALSE]
  <2>1. Sane(t) /\ Kept(s, t)
    BY DEF Sane, OnePlace, Kept, SameUI, Process, Classic
  <2>2. Sane(ShowTray(t)) /\ Kept(t, ShowTray(t))
    BY <2>1, ShowSane
  <2>3. NotificationItemAvailable(s, available) = ShowTray(t)
    BY <1>3 DEF NotificationItemAvailable
  <2> QED BY <2>1, <2>2, <2>3 DEF Kept, SameUI
<1> QED BY <1>1, <1>2, <1>3

LEMMA RegisterSane ==
    ASSUME NEW s, Sane(s)
    PROVE  Sane(Register(s)) /\ Kept(s, Register(s)) /\ Register(s).item.callback = s.item.callback
<1>1. s.item.calls \in Seq({"current", "stale"})
  BY DEF Sane, Process, Item
<1>2. Append(s.item.calls, "current") \in Seq({"current", "stale"})
  BY <1>1
<1> QED BY <1>2 DEF Sane, OnePlace, Register, Kept, SameUI, Process, Item

LEMMA EnableSane ==
    ASSUME NEW s, Sane(s), s.classic.isSuspend = FALSE
    PROVE  Sane(Enable(s)) /\ Kept(s, Enable(s))
<1> DEFINE t == [s EXCEPT !.item.callback = TRUE]
<1>1. Sane(t) /\ Kept(s, t)
  BY DEF Sane, OnePlace, Kept, SameUI, Process, Item
<1>2. Sane(Register(t)) /\ Kept(t, Register(t))
  BY <1>1, RegisterSane
<1>3. Kept(s, s)
  BY DEF Kept, SameUI
<1> QED BY <1>1, <1>2, <1>3 DEF Enable, Kept, SameUI

LEMMA SetAvailableSane ==
    ASSUME NEW s, Sane(s), NEW available \in BOOLEAN
    PROVE  Sane(SetAvailable(s, available)) /\ Kept(s, SetAvailable(s, available))
<1> DEFINE t == [s EXCEPT !.item.available = available]
<1>1. Sane(t) /\ Kept(s, t)
  BY DEF Sane, OnePlace, Kept, SameUI, Process, Item
<1>2. Sane(Register(t)) /\ Kept(t, Register(t))
  BY <1>1, RegisterSane
<1>3. Sane(NotificationItemAvailable(t, FALSE)) /\ Kept(t, NotificationItemAvailable(t, FALSE))
  BY <1>1, AvailableSane
<1> QED BY <1>1, <1>2, <1>3 DEF SetAvailable, Kept, SameUI

LEMMA SuccessSane ==
    ASSUME NEW s, Sane(s)
    PROVE  Sane(RegisterSuccess(s)) /\ Kept(s, RegisterSuccess(s))
<1>1. CASE s.item.callback
  BY <1>1, AvailableSane DEF RegisterSuccess
<1>2. CASE ~s.item.callback
  BY <1>2 DEF RegisterSuccess, Kept, SameUI
<1> QED BY <1>1, <1>2

-----------------------------------------------------------------------------
(* The timers, and a change of user interface.                             *)
LEMMA TimeoutSane ==
    ASSUME NEW s, Sane(s)
    PROVE  Sane([s EXCEPT !.classic.trayTimeout = TRUE])
           /\ Kept(s, [s EXCEPT !.classic.trayTimeout = TRUE])
BY DEF Sane, OnePlace, Kept, SameUI, Process, Classic

LEMMA InitTraySane ==
    ASSUME NEW s, Sane(s)
    PROVE  Sane(InitTray(s)) /\ Kept(s, InitTray(s))
<1>1. CASE s.classic.isSuspend
  BY <1>1 DEF InitTray, Kept, SameUI
<1>2. CASE ~s.classic.isSuspend /\ s.item.loaded
  <2>1. s.classic.isSuspend = FALSE
    BY <1>2 DEF Sane, Process, Classic
  <2>2. Sane(Enable(s)) /\ Kept(s, Enable(s))
    BY <2>1, EnableSane
  <2> DEFINE t == [Enable(s) EXCEPT !.classic.trayTimeout = TRUE]
  <2>3. Sane(t) /\ Kept(Enable(s), t)
    BY <2>2, TimeoutSane
  <2>4. InitTray(s) = t
    BY <1>2 DEF InitTray
  <2> QED BY <2>2, <2>3, <2>4 DEF Kept, SameUI
<1>3. CASE ~s.classic.isSuspend /\ ~s.item.loaded
  BY <1>3, ShowSane DEF InitTray
<1> QED BY <1>1, <1>2, <1>3

LEMMA InitTimerSane ==
    ASSUME NEW s, Sane(s)
    PROVE  Sane(DelayedInitTray(s)) /\ Kept(s, DelayedInitTray(s))
<1> DEFINE t == [s EXCEPT !.classic.waitDelayed = FALSE]
<1>1. Sane(t) /\ Kept(s, t)
  BY DEF Sane, OnePlace, Kept, SameUI, Process, Classic
<1>2. Sane(InitTray(t)) /\ Kept(t, InitTray(t))
  BY <1>1, InitTraySane
<1> QED BY <1>1, <1>2 DEF DelayedInitTray, Kept, SameUI

LEMMA ShowTimerSane ==
    ASSUME NEW s, Sane(s)
    PROVE  Sane(DelayedShowTray(s)) /\ Kept(s, DelayedShowTray(s))
<1> DEFINE t == [s EXCEPT !.classic.trayTimeout = FALSE]
<1>1. Sane(t) /\ Kept(s, t)
  BY DEF Sane, OnePlace, Kept, SameUI, Process, Classic
<1>2. Sane(ShowTray(t)) /\ Kept(t, ShowTray(t))
  BY <1>1, ShowSane
<1> QED BY <1>1, <1>2 DEF DelayedShowTray, Kept, SameUI

LEMMA DisableTyped ==
    ASSUME NEW s \in Process
    PROVE  /\ Disable(s) \in Process /\ SameUI(s, Disable(s))
           /\ Disable(s).classic = s.classic /\ Disable(s).item.callback = FALSE
<1> DEFINE calls == [i \in DOMAIN s.item.calls |-> "stale"]
<1>1. calls \in Seq({"current", "stale"})
  <2>1. s.item.calls \in Seq({"current", "stale"})
    BY DEF Process, Item
  <2> QED BY <2>1
<1>2. Disable(s) = [s EXCEPT !.item.callback = FALSE, !.item.registered = FALSE,
                             !.item.replaced = FALSE, !.item.calls = calls]
  BY DEF Disable
<1>3. \A q \in Seq({"current", "stale"}) :
         LET t == [s EXCEPT !.item.callback = FALSE, !.item.registered = FALSE,
                            !.item.replaced = FALSE, !.item.calls = q]
         IN  t \in Process
  BY DEF Process, Item
<1>4. \A q : LET t == [s EXCEPT !.item.callback = FALSE, !.item.registered = FALSE,
                                !.item.replaced = FALSE, !.item.calls = q]
            IN  SameUI(s, t) /\ t.classic = s.classic /\ t.item.callback = FALSE
  BY DEF SameUI, Process, Item
<1> HIDE DEF calls
<1> QED BY <1>1, <1>2, <1>3, <1>4

LEMMA SuspendSane ==
    ASSUME NEW s \in Process
    PROVE  /\ Sane(ClassicUISuspend(s)) /\ SameUI(s, ClassicUISuspend(s))
           /\ ClassicUISuspend(s).classic.isSuspend = TRUE
<1> DEFINE t == [s EXCEPT !.classic.isSuspend = TRUE,
                          !.classic.notificationItemAvailable = FALSE]
           r == TrayWindowRelease(t)
<1>1. t \in Process /\ SameUI(s, t) /\ t.classic.isSuspend = TRUE
      /\ t.classic.notificationItemAvailable = FALSE
  BY DEF Process, Classic, SameUI
<1> HIDE DEF t
<1>a. r \in Process /\ SameUI(t, r)
  BY <1>1 DEF TrayWindowRelease, Process, Classic, SameUI
<1>b. /\ r.classic.isSuspend = TRUE /\ r.classic.notificationItemAvailable = FALSE
      /\ r.classic.window = NoDock
  BY <1>1 DEF TrayWindowRelease, Process, Classic
<1>2. r \in Process /\ SameUI(s, r) /\ r.classic.isSuspend = TRUE
      /\ r.classic.notificationItemAvailable = FALSE /\ r.classic.window = NoDock
  BY <1>1, <1>a, <1>b DEF SameUI
<1>3. ClassicUISuspend(s) = Disable(r)
  BY DEF ClassicUISuspend, t
<1> HIDE DEF r
<1>4. /\ Disable(r) \in Process /\ SameUI(r, Disable(r))
      /\ Disable(r).classic = r.classic /\ Disable(r).item.callback = FALSE
  BY <1>2, DisableTyped
<1> QED BY <1>2, <1>3, <1>4 DEF Sane, OnePlace, SameUI

LEMMA ResumeSane ==
    ASSUME NEW s, Sane(s)
    PROVE  /\ Sane(ClassicUIResume(s)) /\ SameUI(s, ClassicUIResume(s))
           /\ ClassicUIResume(s).classic.isSuspend = FALSE
<1> DEFINE t == [s EXCEPT !.classic.isSuspend = FALSE]
<1>1. Sane(t) /\ SameUI(s, t) /\ t.classic.isSuspend = FALSE
  BY DEF Sane, OnePlace, SameUI, Process, Classic
<1>2. Sane(InitTray(t)) /\ Kept(t, InitTray(t))
  BY <1>1, InitTraySane
<1> QED BY <1>1, <1>2 DEF ClassicUIResume, Kept, SameUI

-----------------------------------------------------------------------------
(* The user interface core.                                                *)
Good(s) == Sane(s) /\ Coherent(s)

LEMMA OneSuspended ==
    ASSUME NEW s, Sane(s), NEW a
    PROVE  /\ Sane(Suspend(s, a)) /\ SameUI(s, Suspend(s, a))
           /\ Suspend(s, a).classic.isSuspend = (a = "classic" \/ s.classic.isSuspend)
<1>1. CASE a = "classic"
  BY <1>1, SuspendSane DEF Suspend, Sane
<1>2. CASE a # "classic"
  BY <1>2 DEF Suspend, SameUI, Sane, Process, Classic
<1> QED BY <1>1, <1>2

LEMMA OneResumed ==
    ASSUME NEW s, Sane(s), NEW a
    PROVE  /\ Sane(Resume(s, a)) /\ SameUI(s, Resume(s, a))
           /\ Resume(s, a).classic.isSuspend = (a # "classic" /\ s.classic.isSuspend)
<1>1. CASE a = "classic"
  BY <1>1, ResumeSane DEF Resume
<1>2. CASE a # "classic"
  BY <1>2 DEF Resume, SameUI, Sane, Process, Classic
<1> QED BY <1>1, <1>2

(* The interface used is set last.                                         *)
LEMMA UseSane ==
    ASSUME NEW s, Sane(s), NEW a \in UI \cup {NoUI}
    PROVE  LET t == [s EXCEPT !.ui = a]
           IN  /\ Sane(t) /\ t.ui = a /\ t.uinormal = s.uinormal /\ t.addon = s.addon
               /\ t.uifallback = s.uifallback /\ t.fallbackuiName = s.fallbackuiName
               /\ t.classic = s.classic
BY DEF Sane, OnePlace, Process

LEMMA FallbackLoaded ==
    ASSUME NEW s, Sane(s), NEW selection \in Dock \cup {NoDock}
    PROVE  LET t == LoadFallback(s, selection)
           IN  /\ Sane(t) /\ t.ui = s.ui /\ t.uinormal = s.uinormal
               /\ t.fallbackuiName = s.fallbackuiName /\ t.uifallback = "classic"
               /\ t.addon["classic"] = "loaded" /\ t.addon["kimpanel"] = s.addon["kimpanel"]
               /\ t.classic.isSuspend = TRUE
<1> DEFINE s1 == IF s.addon["classic"] = "loaded" THEN s
                 ELSE [s EXCEPT !.addon["classic"] = "loaded",
                                !.classic = Created(selection)]
           s2 == [s1 EXCEPT !.uifallback = "classic"]
<1>1. Created(selection) \in Classic
  BY DEF Created, Classic
<1>2. s1 \in Process /\ s1.ui = s.ui /\ s1.uinormal = s.uinormal
      /\ s1.fallbackuiName = s.fallbackuiName
      /\ s1.addon["classic"] = "loaded" /\ s1.addon["kimpanel"] = s.addon["kimpanel"]
  <2>1. CASE s.addon["classic"] = "loaded"
    BY <2>1 DEF Sane
  <2>2. CASE s.addon["classic"] # "loaded"
    BY <1>1, <2>2 DEF Sane, Process, UI
  <2> QED BY <2>1, <2>2
<1> HIDE DEF s1
<1>3. s2 \in Process /\ s2.ui = s1.ui /\ s2.uinormal = s1.uinormal
      /\ s2.fallbackuiName = s1.fallbackuiName /\ s2.uifallback = "classic"
      /\ s2.addon = s1.addon
  BY <1>2 DEF Process, UI
<1>4. Sane(ClassicUISuspend(s2)) /\ SameUI(s2, ClassicUISuspend(s2))
      /\ ClassicUISuspend(s2).classic.isSuspend = TRUE
  BY <1>3, SuspendSane
<1>5. LoadFallback(s, selection) = ClassicUISuspend(s2)
  BY DEF LoadFallback, Suspend, s1
<1> QED BY <1>2, <1>3, <1>4, <1>5 DEF SameUI

LEMMA SwitchGood ==
    ASSUME NEW s, Good(s), NEW loads \in BOOLEAN, NEW selection \in Dock \cup {NoDock}
    PROVE  Good(SwitchToFallback(s, loads, selection))
<1>1. CASE ~s.fallbackuiName \/ s.ui # s.uinormal
  BY <1>1 DEF SwitchToFallback
<1>2. CASE /\ ~(~s.fallbackuiName \/ s.ui # s.uinormal)
           /\ s.uifallback = NoUI /\ ~Usable(s, loads)
  <2> DEFINE t == [s EXCEPT !.fallbackuiName = FALSE]
  <2>1. SwitchToFallback(s, loads, selection) = t
    BY <1>2 DEF SwitchToFallback
  <2>2. Good(t)
    BY DEF Good, Sane, OnePlace, Coherent, Process, Loaded
  <2> QED BY <2>1, <2>2
<1>3. CASE /\ ~(~s.fallbackuiName \/ s.ui # s.uinormal)
           /\ ~(s.uifallback = NoUI /\ ~Usable(s, loads))
  <2> DEFINE s1 == IF s.uifallback = NoUI THEN LoadFallback(s, selection) ELSE s
             s2 == Suspend(s1, s1.uinormal)
             s3 == Resume(s2, "classic")
             t == [s3 EXCEPT !.ui = "classic"]
  <2>1. /\ Sane(s1) /\ s1.ui = s.ui /\ s1.uinormal = s.uinormal
        /\ s1.uifallback = "classic" /\ s1.addon["classic"] = "loaded"
        /\ s1.addon["kimpanel"] = "loaded"
    BY <1>3, FallbackLoaded DEF Good, Coherent
  <2>2. SwitchToFallback(s, loads, selection) = t
    BY <1>3, <2>1 DEF SwitchToFallback
  <2> HIDE DEF s1
  <2>3. Sane(s2) /\ SameUI(s1, s2)
    BY <2>1, OneSuspended
  <2>4. Sane(s3) /\ SameUI(s2, s3) /\ s3.classic.isSuspend = FALSE
    BY <2>3, OneResumed
  <2> HIDE DEF s2, s3
  <2>a. Sane(t)
    BY <2>4, UseSane DEF UI
  <2>b. s3 \in Process
    BY <2>4 DEF Sane
  <2>5. /\ Sane(t) /\ t.ui = "classic" /\ t.uinormal = s3.uinormal /\ t.addon = s3.addon
        /\ t.uifallback = s3.uifallback /\ t.classic = s3.classic
    BY <2>a, <2>b DEF Process
  <2> HIDE DEF t
  <2>6. s.uinormal \in UI
    BY <1>3 DEF Good, Coherent, Loaded
  <2> QED BY <2>1, <2>2, <2>3, <2>4, <2>5, <2>6 DEF Good, Coherent, SameUI, Loaded, UI, NoUI
<1> QED BY <1>1, <1>2, <1>3

LEMMA ResumeGood ==
    ASSUME NEW s, Good(s)
    PROVE  Good(ResumeFromFallback(s))
<1>1. CASE s.uifallback = NoUI \/ s.ui # s.uifallback
  BY <1>1 DEF ResumeFromFallback
<1>2. CASE ~(s.uifallback = NoUI \/ s.ui # s.uifallback)
  <2> DEFINE s1 == Suspend(s, "classic")
             s2 == Resume(s1, s.uinormal)
             t == [s2 EXCEPT !.ui = s.uinormal]
  <2>1. s.uifallback = "classic" /\ s.uinormal \in UI
    BY <1>2 DEF Good, Coherent
  <2>2. ResumeFromFallback(s) = t
    BY <1>2, <2>1 DEF ResumeFromFallback
  <2>3. Sane(s1) /\ SameUI(s, s1) /\ s1.classic.isSuspend = TRUE
    BY OneSuspended DEF Good
  <2>4. Sane(s2) /\ SameUI(s1, s2) /\ s2.classic.isSuspend = (s.uinormal # "classic")
    BY <2>3, OneResumed
  <2> HIDE DEF s1, s2
  <2>5. /\ Sane(t) /\ t.ui = s.uinormal /\ t.uinormal = s2.uinormal /\ t.addon = s2.addon
        /\ t.uifallback = s2.uifallback /\ t.fallbackuiName = s2.fallbackuiName
        /\ t.classic = s2.classic
    BY <2>1, <2>4, UseSane
  <2> HIDE DEF t
  <2>6. t.addon = s.addon /\ s.addon["classic"] = "loaded" /\ s.addon["kimpanel"] = "loaded"
    BY <2>1, <2>3, <2>4, <2>5 DEF Good, Coherent, SameUI
  <2>7. t.ui \in UI /\ t.uinormal = s.uinormal /\ t.uifallback = "classic"
    BY <2>1, <2>3, <2>4, <2>5 DEF SameUI
  <2>8. t.classic.isSuspend <=> t.ui # "classic"
    BY <2>4, <2>5
  <2>9. Coherent(t)
    BY <2>1, <2>6, <2>7, <2>8 DEF Coherent, Loaded, UI, NoUI
  <2> QED BY <2>2, <2>5, <2>9 DEF Good
<1> QED BY <1>1, <1>2

LEMMA NamedGood ==
    ASSUME NEW s, Good(s), NEW a \in UI
    PROVE  Good(ResumeFromFallbackWithUIName(s, a))
<1> DEFINE t == [s EXCEPT !.uinormal = a]
<1>1. Good(t)
  BY DEF Good, Sane, OnePlace, Coherent, Process, Loaded
<1> QED BY <1>1, ResumeGood DEF ResumeFromFallbackWithUIName

-----------------------------------------------------------------------------
(* The inductive invariant: the process is good, whoever says what when.    *)
IInv ==
    /\ Good(process)
    /\ panel \in BOOLEAN /\ watcher \in BOOLEAN /\ dock \in Dock \cup {NoDock}
    /\ queue \in Seq(Message) /\ xevents \in Seq(XEvent)

LEMMA KeptGood ==
    ASSUME NEW s, NEW t, Good(s), Sane(t), Kept(s, t)
    PROVE  Good(t)
BY DEF Good, Coherent, Kept, SameUI, Loaded

LEMMA InitIInv == Init => IInv
<1> SUFFICES ASSUME Init PROVE IInv
  OBVIOUS
<1>1. PICK addon \in [UI -> {"loaded", "failed", "disabled"}], item \in BOOLEAN :
          process = UILoaded(addon, item, dock)
  BY DEF Init
<1>2. dock \in Dock \cup {NoDock} /\ panel \in BOOLEAN /\ watcher \in BOOLEAN
  BY DEF Init
<1>3. Created(dock) \in Classic /\ Created(dock).isSuspend = FALSE
      /\ Created(dock).notificationItemAvailable = FALSE
  BY <1>2 DEF Created, Classic
<1>4. [loaded |-> item, callback |-> FALSE, available |-> FALSE,
       calls |-> <<>>, registered |-> FALSE, replaced |-> FALSE] \in Item
  BY DEF Item
<1>5. process \in Process
  BY <1>1, <1>3, <1>4 DEF UILoaded, Process, UI
<1>6. /\ process.classic = Created(dock) /\ process.addon = addon
      /\ process.uifallback = NoUI /\ process.uinormal = process.ui
      /\ process.fallbackuiName = (addon["kimpanel"] = "loaded")
      /\ process.ui = (IF addon["classic"] = "loaded" THEN "classic"
                       ELSE IF addon["kimpanel"] = "loaded" THEN "kimpanel" ELSE NoUI)
  BY <1>1 DEF UILoaded
<1>7. OnePlace(process)
  BY <1>3, <1>6 DEF OnePlace
<1>8. Coherent(process)
  BY <1>3, <1>6 DEF Coherent, Loaded, UI, NoUI
<1>9. queue \in Seq(Message) /\ xevents \in Seq(XEvent)
  <2>1. /\ <<IF watcher THEN "WatcherCame" ELSE "WatcherGone">> \in Seq(Message)
        /\ <<"PanelGone">> \in Seq(Message) /\ <<>> \in Seq(Message) /\ <<>> \in Seq(XEvent)
    BY DEF Message
  <2>2. PICK p \in Seq(Message), q \in Seq(Message) : queue = p \o q /\ xevents = <<>>
    BY <2>1 DEF Init
  <2> QED BY <2>1, <2>2
<1> QED BY <1>2, <1>5, <1>7, <1>8, <1>9 DEF IInv, Good, Sane

(* What others do to the process: the watcher forgets or takes the item and *)
(* a call is answered, or the X server stops telling of a window.           *)
LEMMA ItemGood ==
    ASSUME NEW s, Good(s), NEW q \in Seq({"current", "stale"}),
           NEW r \in BOOLEAN, NEW p \in BOOLEAN
    PROVE  Good([s EXCEPT !.item.calls = q, !.item.registered = r, !.item.replaced = p])
<1> DEFINE t == [s EXCEPT !.item.calls = q, !.item.registered = r, !.item.replaced = p]
<1>1. Sane(t) /\ Kept(s, t)
  BY DEF Good, Sane, OnePlace, Kept, SameUI, Process, Item
<1> QED BY <1>1, KeptGood

LEMMA SelectedGood ==
    ASSUME NEW s, Good(s), NEW D \in SUBSET Dock
    PROVE  Good([s EXCEPT !.classic.selected = D])
<1> DEFINE t == [s EXCEPT !.classic.selected = D]
<1>1. Sane(t) /\ Kept(s, t)
  BY DEF Good, Sane, OnePlace, Kept, SameUI, Process, Classic
<1> QED BY <1>1, KeptGood

(* A new watcher: the item and its calls, and what stays of them.           *)
LEMMA ForgottenFields ==
    ASSUME NEW item \in Item, NEW delivered \in BOOLEAN
    PROVE  LET t == Forgotten(item, delivered)
           IN  /\ t \in Item /\ t.loaded = item.loaded /\ t.callback = item.callback
               /\ t.available = item.available /\ t.registered = FALSE
               /\ t.replaced = (\/ item.replaced \/ item.registered
                                \/ delivered /\ AsksNow(item))
               /\ t.calls = IF delivered THEN [i \in DOMAIN item.calls |-> "stale"]
                            ELSE item.calls
<1> DEFINE q == IF delivered THEN [i \in DOMAIN item.calls |-> "stale"] ELSE item.calls
           p == item.replaced \/ item.registered \/ (delivered /\ AsksNow(item))
           t == [item EXCEPT !.registered = FALSE, !.replaced = p, !.calls = q]
<1>1. item.calls \in Seq({"current", "stale"})
  BY DEF Item
<1>2. q \in Seq({"current", "stale"}) /\ p \in BOOLEAN
  BY <1>1 DEF Item, AsksNow
<1>3. Forgotten(item, delivered) = t
  BY DEF Forgotten
<1> HIDE DEF q, p
<1>4. /\ t \in Item /\ t.loaded = item.loaded /\ t.callback = item.callback
      /\ t.available = item.available /\ t.registered = FALSE /\ t.replaced = p
      /\ t.calls = q
  BY <1>2 DEF Item
<1> HIDE DEF t
<1> QED BY <1>3, <1>4 DEF p, q

LEMMA NextIInv == IInv /\ [Next]_vars => IInv'
<1> SUFFICES ASSUME IInv, [Next]_vars PROVE IInv'
  OBVIOUS
<1> USE UIAssumption
<1>0. /\ Good(process) /\ Sane(process)
      /\ queue \in Seq(Message) /\ xevents \in Seq(XEvent)
      /\ dock \in Dock \cup {NoDock}
  BY DEF IInv, Good
<1>tell. ASSUME NEW h \in BOOLEAN, NEW m \in Message, Tell(h, m)
         PROVE  queue' \in Seq(Message)
  BY <1>0, <1>tell DEF Tell
<1>hear. HearPanel \in BOOLEAN /\ HearWatcher \in BOOLEAN
  BY <1>0 DEF HearPanel, HearWatcher, Sane, Process, Item
<1>event. ASSUME NEW e \in XEvent, xevents' = Append(xevents, e)
          PROVE  xevents' \in Seq(XEvent)
  BY <1>0, <1>event
<1>1. CASE PanelStarts
  <2>1. queue' \in Seq(Message)
    BY <1>1, <1>tell, <1>hear DEF PanelStarts, Message
  <2> QED BY <1>1, <2>1 DEF PanelStarts, IInv
<1>2. CASE PanelEnds
  <2>1. queue' \in Seq(Message)
    BY <1>2, <1>tell, <1>hear DEF PanelEnds, Message
  <2> QED BY <1>2, <2>1 DEF PanelEnds, IInv
<1>3. CASE WatcherStarts
  <2>1. queue' \in Seq(Message)
    BY <1>3, <1>tell, <1>hear DEF WatcherStarts, Message
  <2> QED BY <1>3, <2>1 DEF WatcherStarts, IInv
<1>4. CASE WatcherEnds
  <2>1. queue' \in Seq(Message)
    BY <1>4, <1>tell, <1>hear DEF WatcherEnds, Message
  <2>2. process.item.calls \in Seq({"current", "stale"})
    BY <1>0 DEF Sane, Process, Item
  <2>3. process' = [process EXCEPT !.item.calls = process.item.calls,
                                   !.item.registered = FALSE, !.item.replaced = FALSE]
    BY <1>0, <1>4 DEF WatcherEnds, Sane, Process, Item
  <2>4. Good(process')
    BY <1>0, <2>2, <2>3, ItemGood
  <2> QED BY <1>4, <2>1, <2>4 DEF WatcherEnds, IInv
<1>5. CASE Answer
  <2>1. queue' \in Seq(Message)
    BY <1>0, <1>5 DEF Answer, Message
  <2> DEFINE taken == watcher /\ Head(process.item.calls) = "current"
             r == process.item.registered \/ taken
             p == process.item.replaced /\ ~ taken
             q == Tail(process.item.calls)
  <2>2. r \in BOOLEAN /\ p \in BOOLEAN
    OBVIOUS
  <2>3. process' = [process EXCEPT !.item.calls = q, !.item.registered = r,
                                   !.item.replaced = p]
    BY <1>5 DEF Answer
  <2>a. q \in Seq({"current", "stale"})
    BY <1>0, <1>5 DEF Answer, Sane, Process, Item
  <2> HIDE DEF r, p, q
  <2>4. Good(process')
    BY <1>0, <2>2, <2>3, <2>a, ItemGood
  <2> QED BY <1>5, <2>1, <2>4 DEF Answer, IInv, environment
<1>5a. CASE WatcherReplaced
  <2>1. queue' \in Seq(Message)
    BY <1>5a, <1>tell, <1>hear DEF WatcherReplaced, Message
  <2>2. PICK delivered \in BOOLEAN :
           process' = [process EXCEPT !.item = Forgotten(process.item, delivered)]
    BY <1>5a DEF WatcherReplaced
  <2> DEFINE i == Forgotten(process.item, delivered)
  <2>a. process.item \in Item
    BY <1>0 DEF Sane, Process
  <2>3. i \in Item /\ i.callback = process.item.callback
    BY <2>a, ForgottenFields
  <2> HIDE DEF i
  <2>4. Sane(process') /\ Kept(process, process')
    BY <1>0, <2>2, <2>3 DEF Sane, OnePlace, Kept, SameUI, Process, i
  <2> QED BY <1>0, <1>5a, <2>1, <2>4, KeptGood DEF WatcherReplaced, IInv, environment
<1>6. CASE \E d \in Dock : DockStarts(d)
  <2>1. PICK d \in Dock : DockStarts(d)
    BY <1>6
  <2>2. process.classic.selected \ {d} \in SUBSET Dock
    BY <1>0 DEF Sane, Process, Classic
  <2>3. Good(process')
    BY <1>0, <2>1, <2>2, SelectedGood DEF DockStarts
  <2>4. [type |-> "Manager", dock |-> d] \in XEvent
    BY DEF XEvent
  <2>5. xevents' \in Seq(XEvent)
    BY <2>1, <2>4, <1>event DEF DockStarts
  <2> QED BY <2>1, <2>3, <2>5 DEF DockStarts, IInv
<1>7. CASE DockEnds
  <2>1. process.classic.selected \ {dock} \in SUBSET Dock
    BY <1>0 DEF Sane, Process, Classic
  <2>2. Good(process')
    BY <1>0, <1>7, <2>1, SelectedGood DEF DockEnds
  <2>3. dock \in Dock
    BY <1>0, <1>7 DEF DockEnds
  <2>4. [type |-> "Destroyed", dock |-> dock] \in XEvent
    BY <2>3 DEF XEvent
  <2>5. xevents' \in Seq(XEvent)
    BY <1>0, <1>7, <2>4, <1>event DEF DockEnds
  <2> QED BY <1>7, <2>2, <2>5 DEF DockEnds, IInv
<1>8. CASE VisualChanges
  <2>1. [type |-> "Visual", dock |-> dock] \in XEvent
    BY <1>0, <1>8 DEF VisualChanges, XEvent, Sane, Process, Classic
  <2>2. xevents' \in Seq(XEvent)
    BY <1>8, <2>1, <1>event DEF VisualChanges
  <2> QED BY <1>8, <2>2 DEF VisualChanges, IInv, environment
<1>receive. ASSUME NEW m, Receive(m), Good(process') PROVE IInv'
  <2>1. queue' \in Seq(Message)
    BY <1>0, <1>receive DEF Receive
  <2> QED BY <2>1, <1>receive DEF Receive, IInv, environment
<1>9. CASE KimpanelOwnerChanged
  <2>1. Good(process')
    BY <1>0, <1>9, SwitchGood DEF KimpanelOwnerChanged
  <2> QED BY <1>9, <2>1, <1>receive DEF KimpanelOwnerChanged
<1>10. CASE PanelCreated
  <2>1. Good(process')
    BY <1>0, <1>10, ResumeGood DEF PanelCreated
  <2> QED BY <1>10, <2>1, <1>receive DEF PanelCreated
<1>11. CASE OwnerChanged
  <2>1. \A b \in BOOLEAN : Good(SetAvailable(process, b))
    BY <1>0, SetAvailableSane, KeptGood
  <2>2. Good(process')
    BY <1>11, <2>1 DEF OwnerChanged
  <2> QED BY <1>11, <2>2, <1>receive DEF OwnerChanged
<1>12. CASE Registered
  <2>1. Good(process')
    BY <1>0, <1>12, SuccessSane, KeptGood DEF Registered
  <2> QED BY <1>12, <2>1, <1>receive DEF Registered
<1>13. CASE TrayEventHandler
  <2>1. xevents' \in Seq(XEvent) /\ Head(xevents).dock \in Dock
    <3>1. xevents # <<>> /\ xevents' = Tail(xevents)
      BY <1>13 DEF TrayEventHandler
    <3>2. Head(xevents) \in XEvent /\ Tail(xevents) \in Seq(XEvent)
      BY <1>0, <3>1
    <3> QED BY <3>1, <3>2 DEF XEvent
  <2> DEFINE e == Head(xevents)
  <2>2. /\ Good(DockAnnounced(process, e.dock)) /\ Good(DockEnded(process, e.dock, dock))
        /\ Good(ShowTray(process))
    BY <1>0, <2>1, AnnouncedSane, EndedSane, ShowSane, KeptGood
  <2>3. process' \in {process, DockAnnounced(process, e.dock),
                      DockEnded(process, e.dock, dock), ShowTray(process)}
    BY <1>13 DEF TrayEventHandler
  <2>4. Good(process')
    BY <1>0, <2>2, <2>3
  <2> QED BY <1>13, <2>1, <2>4 DEF TrayEventHandler, IInv, environment
<1>14. CASE \E a \in Named : AskForUI(a)
  <2>1. PICK a \in Named : AskForUI(a)
    BY <1>14
  <2>2. Good(process')
    BY <1>0, <2>1, NamedGood DEF AskForUI
  <2> QED BY <2>1, <2>2 DEF AskForUI, IInv, environment
<1>15. CASE InitTimer
  <2>1. Good(process')
    BY <1>0, <1>15, InitTimerSane, KeptGood DEF InitTimer
  <2> QED BY <1>15, <2>1 DEF InitTimer, IInv, environment
<1>16. CASE ShowTimer
  <2>1. Good(process')
    BY <1>0, <1>16, ShowTimerSane, KeptGood DEF ShowTimer
  <2> QED BY <1>16, <2>1 DEF ShowTimer, IInv, environment
<1>17. CASE UNCHANGED vars
  BY <1>17 DEF vars, IInv
<1> QED BY <1>1, <1>2, <1>3, <1>4, <1>5, <1>5a, <1>6, <1>7, <1>8, <1>9, <1>10, <1>11, <1>12,
           <1>13, <1>14, <1>15, <1>16, <1>17 DEF Next, Others, Handle, Timers

-----------------------------------------------------------------------------
(* The variables keep their types, and the interfaces named as used and as  *)
(* the fallback are always loaded: the core never calls one that is not.    *)
THEOREM TypeCorrect == Spec => []TypeOK
<1>1. IInv => TypeOK
  BY DEF IInv, Good, Sane, Coherent, TypeOK, Loaded, UI
<1> QED BY <1>1, InitIInv, NextIInv, PTL DEF Spec

(* Whichever interface asks, in whatever order, exactly one draws.          *)
THEOREM OneInterfaceDraws == Spec => []OnlyOneDraws
<1>1. IInv => OnlyOneDraws
  BY DEF IInv, Good, Coherent, OnlyOneDraws, Loaded, UI
<1> QED BY <1>1, InitIInv, NextIInv, PTL DEF Spec

(* The icon is never in two places, and nowhere while suspended, for any    *)
(* trays, any delay of the messages and any failure of the watcher.         *)
THEOREM IconInOnePlace == Spec => []OneIcon
<1>1. IInv => OneIcon
  BY DEF IInv, Good, Sane, OnePlace, OneIcon
<1> QED BY <1>1, InitIInv, NextIInv, PTL DEF Spec

-----------------------------------------------------------------------------
(* The steps of UserInterface are steps of TrayIcon: what comes back is     *)
(* never an item at once, since neither the timers nor the core set         *)
(* notificationItemAvailable, and the answer to a call comes later.         *)
Drawn(s) == "classic" \in Loaded(s) /\ ~s.classic.isSuspend

NotAtOnce(s, t) ==
    Drawn(t) /\ ~Drawn(s) => t.classic.notificationItemAvailable = FALSE

LEMMA KeptNotAtOnce ==
    ASSUME NEW s, NEW t, Kept(s, t)
    PROVE  NotAtOnce(s, t)
BY DEF Kept, SameUI, NotAtOnce, Drawn, Loaded

LEMMA ShowKeepsAvailable ==
    ASSUME NEW s \in Process
    PROVE  ShowTray(s).classic.notificationItemAvailable = s.classic.notificationItemAvailable
<1> DEFINE r == TrayWindowRelease(s)
<1>1. r \in Process
      /\ r.classic.notificationItemAvailable = s.classic.notificationItemAvailable
  BY DEF TrayWindowRelease, Process, Classic
<1> HIDE DEF r
<1>2. TrayWindowInit(r).classic.notificationItemAvailable = r.classic.notificationItemAvailable
  BY <1>1 DEF TrayWindowInit, Process, Classic
<1> QED BY <1>1, <1>2 DEF ShowTray, r

LEMMA EnableKeepsClassic ==
    ASSUME NEW s \in Process
    PROVE  Enable(s) \in Process => Enable(s).classic = s.classic
BY DEF Enable, Register, Process, Item

LEMMA ResumedUnavailable ==
    ASSUME NEW s, Sane(s), s.classic.notificationItemAvailable = FALSE, NEW a
    PROVE  Resume(s, a).classic.notificationItemAvailable = FALSE
<1> DEFINE t == [s EXCEPT !.classic.isSuspend = FALSE]
<1>1. Sane(t) /\ t.classic.isSuspend = FALSE /\ t.classic.notificationItemAvailable = FALSE
  BY DEF Sane, OnePlace, Process, Classic
<1> HIDE DEF t
<1>2. CASE t.item.loaded
  <2>1. Sane(Enable(t)) /\ Enable(t).classic = t.classic
    BY <1>1, EnableSane, EnableKeepsClassic DEF Sane
  <2> DEFINE e == Enable(t)
  <2>2. InitTray(t) = [e EXCEPT !.classic.trayTimeout = TRUE]
    BY <1>1, <1>2 DEF InitTray
  <2> HIDE DEF e
  <2>3. e \in Process /\ e.classic.notificationItemAvailable = FALSE
    BY <1>1, <2>1 DEF Sane, e
  <2> QED BY <2>2, <2>3 DEF Resume, ClassicUIResume, Process, Classic, t
<1>3. CASE ~t.item.loaded
  <2>1. InitTray(t) = ShowTray(t)
    BY <1>1, <1>3 DEF InitTray
  <2>2. ShowTray(t).classic.notificationItemAvailable = FALSE
    BY <1>1, ShowKeepsAvailable DEF Sane
  <2> QED BY <2>1, <2>2 DEF Resume, ClassicUIResume, t
<1> QED BY <1>2, <1>3

LEMMA SwitchNotAtOnce ==
    ASSUME NEW s, Good(s), NEW loads \in BOOLEAN, NEW selection \in Dock \cup {NoDock}
    PROVE  NotAtOnce(s, SwitchToFallback(s, loads, selection))
<1>1. CASE ~s.fallbackuiName \/ s.ui # s.uinormal
  BY <1>1 DEF SwitchToFallback, NotAtOnce
<1>2. CASE /\ ~(~s.fallbackuiName \/ s.ui # s.uinormal)
           /\ s.uifallback = NoUI /\ ~Usable(s, loads)
  BY <1>2 DEF SwitchToFallback, NotAtOnce, Drawn, Loaded, Good, Sane, Process
<1>3. CASE /\ ~(~s.fallbackuiName \/ s.ui # s.uinormal)
           /\ ~(s.uifallback = NoUI /\ ~Usable(s, loads)) /\ ~Drawn(s)
  <2> DEFINE s1 == IF s.uifallback = NoUI THEN LoadFallback(s, selection) ELSE s
             s2 == Suspend(s1, s1.uinormal)
             s3 == Resume(s2, "classic")
             t == [s3 EXCEPT !.ui = "classic"]
  <2>1. Sane(s1) /\ s1.uifallback = "classic" /\ s1.classic.isSuspend = TRUE
    <3>1. CASE s.uifallback = NoUI
      BY <3>1, FallbackLoaded DEF Good
    <3>2. CASE s.uifallback # NoUI
      <4>1. s.uifallback = "classic" /\ s.addon["classic"] = "loaded" /\ Sane(s)
        BY <3>2 DEF Good, Coherent
      <4>2. s.classic.isSuspend = TRUE
        BY <1>3, <4>1 DEF Drawn, Loaded, UI, Sane, Process, Classic
      <4> QED BY <3>2, <4>1, <4>2
    <3> QED BY <3>1, <3>2
  <2>2. SwitchToFallback(s, loads, selection) = t
    BY <1>3, <2>1 DEF SwitchToFallback
  <2> HIDE DEF s1
  <2>3. Sane(s2) /\ s2.classic.isSuspend = TRUE
    BY <2>1, OneSuspended
  <2>4. s2.classic.notificationItemAvailable = FALSE
    BY <2>3 DEF Sane, OnePlace
  <2> HIDE DEF s2
  <2>5. s3.classic.notificationItemAvailable = FALSE /\ Sane(s3)
    BY <2>3, <2>4, ResumedUnavailable, OneResumed
  <2> HIDE DEF s3
  <2>6. t.classic = s3.classic
    BY <2>5, UseSane DEF UI
  <2> HIDE DEF t
  <2> QED BY <2>2, <2>5, <2>6 DEF NotAtOnce
<1> QED BY <1>1, <1>2, <1>3 DEF NotAtOnce

LEMMA ResumeNotAtOnce ==
    ASSUME NEW s, Good(s)
    PROVE  NotAtOnce(s, ResumeFromFallback(s))
<1>1. CASE s.uifallback = NoUI \/ s.ui # s.uifallback
  BY <1>1 DEF ResumeFromFallback, NotAtOnce
<1>2. CASE ~(s.uifallback = NoUI \/ s.ui # s.uifallback)
  <2> DEFINE s1 == Suspend(s, "classic")
             s2 == Resume(s1, s.uinormal)
             t == [s2 EXCEPT !.ui = s.uinormal]
  <2>1. s.uifallback = "classic" /\ s.uinormal \in UI
    BY <1>2 DEF Good, Coherent
  <2>2. ResumeFromFallback(s) = t
    BY <1>2, <2>1 DEF ResumeFromFallback
  <2>3. Sane(s1) /\ s1.classic.notificationItemAvailable = FALSE
    BY OneSuspended DEF Good, Sane, OnePlace
  <2> HIDE DEF s1
  <2>4. s2.classic.notificationItemAvailable = FALSE /\ Sane(s2)
    BY <2>3, ResumedUnavailable, OneResumed
  <2> HIDE DEF s2
  <2>5. t.classic = s2.classic
    BY <2>1, <2>4, UseSane
  <2> HIDE DEF t
  <2> QED BY <2>2, <2>4, <2>5 DEF NotAtOnce
<1> QED BY <1>1, <1>2

LEMMA NamedNotAtOnce ==
    ASSUME NEW s, Good(s), NEW a \in UI
    PROVE  NotAtOnce(s, ResumeFromFallbackWithUIName(s, a))
<1> DEFINE t == [s EXCEPT !.uinormal = a]
<1>1. Good(t)
  BY DEF Good, Sane, OnePlace, Coherent, Process, Loaded
<1>2. Drawn(t) = Drawn(s)
  BY DEF Drawn, Loaded, Good, Sane, Process
<1>3. NotAtOnce(t, ResumeFromFallback(t))
  BY <1>1, ResumeNotAtOnce
<1> QED BY <1>2, <1>3, ResumeNotAtOnce DEF ResumeFromFallbackWithUIName, NotAtOnce

LEMMA StepNotAtOnce == IInv /\ [Next]_vars => NotAtOnce(process, process')
<1> SUFFICES ASSUME IInv, [Next]_vars PROVE NotAtOnce(process, process')
  OBVIOUS
<1> USE UIAssumption
<1>0. Good(process) /\ Sane(process) /\ process \in Process /\ dock \in Dock \cup {NoDock}
      /\ xevents \in Seq(XEvent)
  BY DEF IInv, Good, Sane
<1>1. CASE Others
  <2>1. \A i : Kept(process, [process EXCEPT !.item = i])
    BY <1>0 DEF Kept, SameUI, Process
  <2>2. \A D : Kept(process, [process EXCEPT !.classic.selected = D])
    BY <1>0 DEF Kept, SameUI, Process, Classic
  <2>3. Kept(process, process)
    BY DEF Kept, SameUI
  <2>4. CASE WatcherEnds \/ WatcherReplaced
    <3>1. \E i : process' = [process EXCEPT !.item = i]
      <4>1. CASE WatcherEnds
        <5>1. process' = [process EXCEPT !.item = [process.item EXCEPT !.registered = FALSE,
                                                                     !.replaced = FALSE]]
          BY <1>0, <4>1 DEF WatcherEnds, Process
        <5> QED BY <5>1
      <4>2. CASE WatcherReplaced BY <4>2 DEF WatcherReplaced
      <4> QED BY <2>4, <4>1, <4>2
    <3>2. Kept(process, process') BY <2>1, <3>1
    <3> QED BY <3>2, KeptNotAtOnce
  <2>5. CASE Answer
    <3>1. Kept(process, process')
      BY <2>1, <2>5 DEF Answer
    <3> QED BY <3>1, KeptNotAtOnce
  <2>6. CASE DockEnds \/ \E d \in Dock : DockStarts(d)
    BY <2>2, <2>6, KeptNotAtOnce DEF DockEnds, DockStarts
  <2>7. CASE PanelStarts \/ PanelEnds \/ WatcherStarts \/ VisualChanges
    BY <2>3, <2>7, KeptNotAtOnce DEF PanelStarts, PanelEnds, WatcherStarts, VisualChanges
  <2> QED BY <1>1, <2>4, <2>5, <2>6, <2>7 DEF Others
<1>2. CASE Timers
  <2>1. Kept(process, process')
    BY <1>0, <1>2, InitTimerSane, ShowTimerSane DEF Timers, InitTimer, ShowTimer
  <2> QED BY <2>1, KeptNotAtOnce
<1>3. CASE KimpanelOwnerChanged
  BY <1>0, <1>3, SwitchNotAtOnce DEF KimpanelOwnerChanged
<1>4. CASE PanelCreated
  BY <1>0, <1>4, ResumeNotAtOnce DEF PanelCreated
<1>5. CASE OwnerChanged
  <2>1. \A b \in BOOLEAN : NotAtOnce(process, SetAvailable(process, b))
    BY <1>0, SetAvailableSane, KeptNotAtOnce
  <2> QED BY <1>5, <2>1 DEF OwnerChanged
<1>6. CASE Registered
  BY <1>0, <1>6, SuccessSane, KeptNotAtOnce DEF Registered
<1>7. CASE TrayEventHandler
  <2>1. xevents # <<>>
    BY <1>7 DEF TrayEventHandler
  <2>2. Head(xevents) \in XEvent
    BY <1>0, <2>1
  <2> DEFINE e == Head(xevents)
  <2>3. e.dock \in Dock
    BY <2>2 DEF XEvent
  <2>4. process' \in {process, DockAnnounced(process, e.dock),
                      DockEnded(process, e.dock, dock), ShowTray(process)}
    BY <1>7 DEF TrayEventHandler
  <2> HIDE DEF e
  <2>5. /\ Kept(process, DockAnnounced(process, e.dock))
        /\ Kept(process, DockEnded(process, e.dock, dock))
        /\ Kept(process, ShowTray(process)) /\ Kept(process, process)
    <3>1. Kept(process, DockAnnounced(process, e.dock)) BY <1>0, <2>3, AnnouncedSane
    <3>2. Kept(process, DockEnded(process, e.dock, dock)) BY <1>0, <2>3, EndedSane
    <3>3. Kept(process, ShowTray(process)) BY <1>0, ShowSane
    <3>4. Kept(process, process) BY DEF Kept, SameUI
    <3> QED BY <3>1, <3>2, <3>3, <3>4
  <2> QED BY <2>4, <2>5, KeptNotAtOnce
<1>8. CASE \E a \in Named : AskForUI(a)
  BY <1>0, <1>8, NamedNotAtOnce DEF AskForUI
<1>9. CASE UNCHANGED vars
  BY <1>9 DEF vars, NotAtOnce
<1> QED BY <1>1, <1>2, <1>3, <1>4, <1>5, <1>6, <1>7, <1>8, <1>9 DEF Next, Handle

(* The user interface implements the safety part of TrayIcon, for any trays *)
(* and any loss: the icon that comes back was due before it was an item.    *)
THEOREM RefinesTrayIcon == Spec => Icon!Spec
<1>1. Init => Icon!Init
  <2>1. Init => process.classic.notificationItemAvailable = FALSE
                /\ process.classic.window = NoDock
    BY DEF Init, UILoaded, Created
  <2> QED BY <2>1 DEF Icon!Init, Place
<1>2. IInv /\ [Next]_vars => [Icon!Next]_(Icon!vars)
  <2> SUFFICES ASSUME IInv, [Next]_vars PROVE Icon!Next
    OBVIOUS
  <2>1. NotAtOnce(process, process')
    BY StepNotAtOnce
  <2>2. CASE Place' = "hidden"
    BY <2>2 DEF Icon!Next, Icon!Hide
  <2>3. CASE Place' # "hidden" /\ Place # "hidden"
    BY <2>3 DEF Icon!Next, Icon!Move, Icon!Shown, Place
  <2>4. CASE Place' # "hidden" /\ Place = "hidden"
    <3>1. Drawn(process') /\ ~Drawn(process)
      BY <2>4 DEF Place, InUse, Drawn
    <3>2. process'.classic.notificationItemAvailable = FALSE
      BY <2>1, <3>1 DEF NotAtOnce
    <3> QED BY <2>4, <3>2 DEF Icon!Next, Icon!Show, Place
  <2> QED BY <2>2, <2>3, <2>4
<1> QED BY <1>1, <1>2, InitIInv, NextIInv, PTL DEF Spec, Icon!Spec

-----------------------------------------------------------------------------
(* Where the icon is in the end, when every call is answered and the end of *)
(* every dock is told.  First what holds of the process alone.             *)

Took(s) == \E i \in DOMAIN s.item.calls : s.item.calls[i] = "current"

ClassicLoaded(s) == s.addon["classic"] = "loaded"

(* An interface that is not loaded has done nothing, and an item without a  *)
(* callback has not asked.                                                 *)
Calm(s) ==
    /\ ~ ClassicLoaded(s) => /\ s.classic.selected = {}
                             /\ s.classic.trayTimeout = FALSE /\ s.item.callback = FALSE
    /\ s.item.loaded = FALSE => s.item.callback = FALSE
    /\ s.item.callback = FALSE => s.item.registered = FALSE /\ ~ Took(s)

Asked(s) ==
    s.classic.isSuspend = FALSE /\ s.item.loaded = TRUE
       => s.item.callback = TRUE \/ s.classic.waitDelayed = TRUE

Truthful(s) == s.classic.notificationItemAvailable = TRUE => s.item.available = TRUE

Placed(s) == s.classic.window \in {NoDock, s.classic.dockWindow}

(* Without an item the window is where it can be, or a timer is to put it.  *)
Shown(s) ==
    LET c == s.classic
    IN  \/ c.isSuspend = TRUE \/ c.notificationItemAvailable = TRUE
        \/ c.trayTimeout = TRUE \/ c.waitDelayed = TRUE
        \/ c.window = c.dockWindow

AtRest(s) == Calm(s) /\ Asked(s) /\ Truthful(s) /\ Placed(s) /\ Shown(s)

(* A step from s to t that loses no answer: who is registered after it was  *)
(* before it, and who waits for an answer asked before it or in it.         *)
Answering(s, t) ==
    /\ t.item.loaded = s.item.loaded /\ t.item.available = s.item.available
    /\ t.item.callback = TRUE /\ t.item.registered = TRUE =>
          /\ s.item.callback = TRUE /\ s.item.registered = TRUE
          /\ s.classic.notificationItemAvailable = TRUE
                => t.classic.notificationItemAvailable = TRUE
    /\ t.item.callback = TRUE =>
          \/ s.item.available = TRUE /\ Took(t)
          \/ s.item.available = FALSE
          \/ /\ s.item.callback = TRUE /\ t.item.registered = s.item.registered
             /\ t.item.replaced = s.item.replaced /\ (Took(s) => Took(t))

LEMMA AnsweringTwice ==
    ASSUME NEW s, NEW t, NEW u, Answering(s, t), Answering(t, u)
    PROVE  Answering(s, u)
BY DEF Answering

LEMMA AnsweringSame ==
    ASSUME NEW s, NEW t, t.item = s.item,
           t.classic.notificationItemAvailable = s.classic.notificationItemAvailable,
           s.item.available \in BOOLEAN
    PROVE  Answering(s, t)
BY DEF Answering, Took

(* What changes neither the tray nor which interfaces are loaded.           *)
LEMMA SameTrayRest ==
    ASSUME NEW s \in Process, NEW t, AtRest(s), t.classic = s.classic, t.item = s.item,
           t.addon = s.addon
    PROVE  AtRest(t) /\ Answering(s, t) /\ t.classic.dockWindow = s.classic.dockWindow
<1>1. s.item.available \in BOOLEAN
  BY DEF Process, Item
<1> QED
  BY <1>1, AnsweringSame DEF AtRest, Calm, Took, ClassicLoaded, Asked, Truthful, Placed, Shown

LEMMA ReleaseFields ==
    ASSUME NEW s \in Process
    PROVE  LET r == TrayWindowRelease(s)
           IN  /\ r \in Process /\ r.item = s.item /\ r.addon = s.addon
               /\ r.classic = [s.classic EXCEPT !.window = NoDock]
BY DEF TrayWindowRelease, Process, Classic

LEMMA TrayInitFields ==
    ASSUME NEW s \in Process
    PROVE  LET c == s.classic
               t == TrayWindowInit(s)
           IN  /\ t \in Process /\ t.item = s.item /\ t.addon = s.addon
               /\ t.classic = IF \/ c.isSuspend \/ c.notificationItemAvailable
                                 \/ c.window # NoDock \/ c.dockWindow = NoDock
                              THEN c
                              ELSE [c EXCEPT !.window = c.dockWindow,
                                             !.selected = @ \cup {c.dockWindow}]
<1> DEFINE c == s.classic
           d == [c EXCEPT !.window = c.dockWindow, !.selected = @ \cup {c.dockWindow}]
<1>1. CASE c.isSuspend \/ c.notificationItemAvailable \/ c.window # NoDock
           \/ c.dockWindow = NoDock
  BY <1>1 DEF TrayWindowInit
<1>2. CASE ~(c.isSuspend \/ c.notificationItemAvailable \/ c.window # NoDock
             \/ c.dockWindow = NoDock)
  <2>1. c \in Classic /\ c.dockWindow \in Dock /\ c.selected \cup {c.dockWindow} \in SUBSET Dock
    BY <1>2 DEF Process, Classic
  <2>2. d \in Classic
    BY <2>1 DEF Classic
  <2>3. TrayWindowInit(s) = [s EXCEPT !.classic = d]
    BY <1>2 DEF TrayWindowInit, Process
  <2> HIDE DEF d
  <2>4. /\ TrayWindowInit(s) \in Process /\ TrayWindowInit(s).item = s.item
        /\ TrayWindowInit(s).addon = s.addon /\ TrayWindowInit(s).classic = d
    BY <2>2, <2>3 DEF Process
  <2> QED BY <1>2, <2>4 DEF d
<1> QED BY <1>1, <1>2

(* The window is put where it can be: its place is right whatever was before.*)
LEMMA ShowRest ==
    ASSUME NEW s, s \in Process, Calm(s), Asked(s), Truthful(s), ClassicLoaded(s)
    PROVE  LET t == ShowTray(s)
           IN  /\ t \in Process /\ AtRest(t) /\ t.item = s.item /\ t.addon = s.addon
               /\ t.classic.notificationItemAvailable = s.classic.notificationItemAvailable
               /\ t.classic.isSuspend = s.classic.isSuspend
               /\ t.classic.dockWindow = s.classic.dockWindow
               /\ Answering(s, t)
<1> DEFINE r == TrayWindowRelease(s)
           t == ShowTray(s)
           c == s.classic
<1>1. /\ r \in Process /\ r.item = s.item /\ r.addon = s.addon
      /\ r.classic = [c EXCEPT !.window = NoDock] /\ c \in Classic
  BY ReleaseFields DEF Process
<1>2. t = TrayWindowInit(r)
  BY DEF ShowTray
<1> HIDE DEF r, t
<1>3. /\ r.classic.isSuspend = c.isSuspend /\ r.classic.window = NoDock
      /\ r.classic.notificationItemAvailable = c.notificationItemAvailable
      /\ r.classic.dockWindow = c.dockWindow /\ r.classic.waitDelayed = c.waitDelayed
      /\ r.classic.trayTimeout = c.trayTimeout /\ r.classic \in Classic
  BY <1>1 DEF Classic
<1>4. /\ t \in Process /\ t.item = s.item /\ t.addon = s.addon
      /\ t.classic = IF \/ c.isSuspend \/ c.notificationItemAvailable
                        \/ c.dockWindow = NoDock
                     THEN r.classic
                     ELSE [r.classic EXCEPT !.window = c.dockWindow,
                                            !.selected = @ \cup {c.dockWindow}]
  <2>1. /\ t \in Process /\ t.item = r.item /\ t.addon = r.addon
        /\ t.classic = IF \/ r.classic.isSuspend \/ r.classic.notificationItemAvailable
                          \/ r.classic.window # NoDock \/ r.classic.dockWindow = NoDock
                       THEN r.classic
                       ELSE [r.classic EXCEPT !.window = r.classic.dockWindow,
                                              !.selected = @ \cup {r.classic.dockWindow}]
    BY <1>1, <1>2, TrayInitFields
  <2> QED BY <1>1, <1>3, <2>1
<1>5. /\ t.classic.notificationItemAvailable = c.notificationItemAvailable
      /\ t.classic.isSuspend = c.isSuspend /\ t.classic.dockWindow = c.dockWindow
      /\ t.classic.waitDelayed = c.waitDelayed /\ t.classic.trayTimeout = c.trayTimeout
      /\ t.classic.window = IF \/ c.isSuspend \/ c.notificationItemAvailable
                               \/ c.dockWindow = NoDock
                            THEN NoDock ELSE c.dockWindow
  BY <1>3, <1>4 DEF Classic
<1>6. /\ c.isSuspend \in BOOLEAN /\ c.notificationItemAvailable \in BOOLEAN
      /\ s.item.available \in BOOLEAN
  BY DEF Process, Classic, Item
<1>7. Calm(t) /\ Asked(t) /\ Truthful(t)
  BY <1>4, <1>5 DEF Calm, Took, ClassicLoaded, Asked, Truthful
<1>8. Placed(t) /\ Shown(t)
  BY <1>5, <1>6 DEF Placed, Shown
<1>9. Answering(s, t)
  BY <1>4, <1>5, <1>6, AnsweringSame
<1> QED BY <1>4, <1>5, <1>7, <1>8, <1>9 DEF AtRest, t

LEMMA AnnouncedRest ==
    ASSUME NEW s, s \in Process, AtRest(s), ClassicLoaded(s), NEW d \in Dock
    PROVE  LET t == DockAnnounced(s, d)
           IN  /\ AtRest(t) /\ Answering(s, t) /\ t.addon = s.addon /\ t.item = s.item
               /\ t.classic.notificationItemAvailable = s.classic.notificationItemAvailable
               /\ t.classic.dockWindow = IF s.classic.dockWindow # NoDock
                                         THEN s.classic.dockWindow ELSE d
<1>0. s.item.available \in BOOLEAN
  BY DEF Process, Item
<1>1. CASE s.classic.dockWindow # NoDock
  BY <1>0, <1>1, AnsweringSame DEF DockAnnounced
<1>2. CASE s.classic.dockWindow = NoDock
  <2> DEFINE t == [s EXCEPT !.classic.dockWindow = d]
  <2>1. /\ t \in Process /\ t.item = s.item /\ t.addon = s.addon
        /\ t.classic = [s.classic EXCEPT !.dockWindow = d] /\ s.classic \in Classic
    BY DEF Process, Classic
  <2>2. DockAnnounced(s, d) = ShowTray(t)
    BY <1>2 DEF DockAnnounced
  <2> HIDE DEF t
  <2>3. Calm(t) /\ Asked(t) /\ Truthful(t) /\ ClassicLoaded(t)
    BY <2>1 DEF AtRest, Calm, Took, ClassicLoaded, Asked, Truthful, Classic
  <2>4. /\ t.classic.dockWindow = d
        /\ t.classic.notificationItemAvailable = s.classic.notificationItemAvailable
    BY <2>1 DEF Classic
  <2>5. Answering(s, t)
    BY <1>0, <2>1, <2>4, AnsweringSame
  <2> DEFINE u == ShowTray(t)
  <2>6. /\ AtRest(u) /\ u.item = t.item /\ u.addon = t.addon
        /\ u.classic.notificationItemAvailable = t.classic.notificationItemAvailable
        /\ u.classic.dockWindow = t.classic.dockWindow /\ Answering(t, u)
    BY <2>1, <2>3, ShowRest
  <2> HIDE DEF u
  <2>7. Answering(s, u)
    BY <2>5, <2>6, AnsweringTwice
  <2> QED BY <1>2, <2>1, <2>2, <2>4, <2>6, <2>7 DEF u
<1> QED BY <1>1, <1>2

LEMMA EndedRest ==
    ASSUME NEW s, s \in Process, AtRest(s), ClassicLoaded(s), NEW d \in Dock,
           NEW now \in Dock \cup {NoDock}
    PROVE  LET t == DockEnded(s, d, now)
           IN  /\ AtRest(t) /\ Answering(s, t) /\ t.addon = s.addon /\ t.item = s.item
               /\ t.classic.notificationItemAvailable = s.classic.notificationItemAvailable
               /\ t.classic.dockWindow = IF s.classic.dockWindow # d
                                         THEN s.classic.dockWindow ELSE now
<1> DEFINE t == [s EXCEPT !.classic.dockWindow = now]
           r == TrayWindowRelease(t)
           u == ShowTray(t)
<1>0. s.item.available \in BOOLEAN
  BY DEF Process, Item
<1>1. /\ t \in Process /\ t.item = s.item /\ t.addon = s.addon
      /\ t.classic = [s.classic EXCEPT !.dockWindow = now] /\ s.classic \in Classic
  BY DEF Process, Classic
<1>2. DockEnded(s, d, now) = IF s.classic.dockWindow # d THEN s
                             ELSE IF now = NoDock THEN r ELSE u
  BY DEF DockEnded
<1> HIDE DEF t, r, u
<1>3. Calm(t) /\ Asked(t) /\ Truthful(t) /\ ClassicLoaded(t)
  BY <1>1 DEF AtRest, Calm, Took, ClassicLoaded, Asked, Truthful, Classic
<1>4. /\ t.classic.dockWindow = now
      /\ t.classic.notificationItemAvailable = s.classic.notificationItemAvailable
  BY <1>1 DEF Classic
<1>5. Answering(s, t)
  BY <1>0, <1>1, <1>4, AnsweringSame
<1>6. CASE s.classic.dockWindow # d
  BY <1>0, <1>2, <1>6, AnsweringSame
<1>7. CASE s.classic.dockWindow = d /\ now = NoDock
  <2>1. /\ r.item = t.item /\ r.addon = t.addon
        /\ r.classic = [t.classic EXCEPT !.window = NoDock] /\ t.classic \in Classic
    BY <1>1, ReleaseFields DEF r, Process
  <2>2. /\ r.classic.window = NoDock /\ r.classic.dockWindow = NoDock
        /\ r.classic.notificationItemAvailable = t.classic.notificationItemAvailable
    BY <1>4, <1>7, <2>1 DEF Classic
  <2>3. Calm(r) /\ Asked(r) /\ Truthful(r) /\ ClassicLoaded(r)
    BY <1>3, <2>1 DEF Calm, Took, ClassicLoaded, Asked, Truthful, Classic
  <2>4. AtRest(r)
    BY <2>2, <2>3 DEF AtRest, Placed, Shown
  <2>5. Answering(s, r)
    BY <1>0, <1>1, <1>4, <2>1, <2>2, AnsweringSame
  <2> QED BY <1>1, <1>2, <1>4, <1>7, <2>1, <2>2, <2>4, <2>5
<1>8. CASE s.classic.dockWindow = d /\ now # NoDock
  <2>1. /\ AtRest(u) /\ u.item = t.item /\ u.addon = t.addon
        /\ u.classic.notificationItemAvailable = t.classic.notificationItemAvailable
        /\ u.classic.dockWindow = t.classic.dockWindow /\ Answering(t, u)
    BY <1>1, <1>3, ShowRest DEF u
  <2>2. Answering(s, u)
    BY <1>5, <2>1, AnsweringTwice
  <2> QED BY <1>1, <1>2, <1>4, <1>8, <2>1, <2>2
<1> QED BY <1>6, <1>7, <1>8

(* The item tells: then nothing else is due.                               *)
LEMMA AvailableRest ==
    ASSUME NEW s, Sane(s), Calm(s), Asked(s), ClassicLoaded(s), NEW b \in BOOLEAN,
           b = TRUE => s.item.available = TRUE
    PROVE  LET t == NotificationItemAvailable(s, b)
           IN  /\ AtRest(t) /\ t.item = s.item /\ t.addon = s.addon
               /\ t.classic.dockWindow = s.classic.dockWindow
               /\ s.classic.isSuspend = FALSE
                     => t.classic.notificationItemAvailable = b
<1>0. s \in Process /\ s.classic \in Classic /\ OnePlace(s)
  BY DEF Sane, Process
<1>1. CASE s.classic.isSuspend = TRUE
  BY <1>0, <1>1 DEF NotificationItemAvailable, OnePlace, AtRest, Truthful, Placed, Shown
<1>2. CASE s.classic.isSuspend = FALSE /\ b = TRUE
  <2> DEFINE t == [s EXCEPT !.classic.notificationItemAvailable = TRUE,
                            !.classic.trayTimeout = FALSE]
             u == TrayWindowRelease(t)
  <2>1. NotificationItemAvailable(s, b) = u
    BY <1>2 DEF NotificationItemAvailable
  <2>2. /\ t \in Process /\ t.item = s.item /\ t.addon = s.addon
        /\ t.classic = [s.classic EXCEPT !.notificationItemAvailable = TRUE,
                                         !.trayTimeout = FALSE]
    BY <1>0 DEF Process, Classic
  <2> HIDE DEF t
  <2>3. /\ u.item = t.item /\ u.addon = t.addon
        /\ u.classic = [t.classic EXCEPT !.window = NoDock]
    BY <2>2, ReleaseFields
  <2> HIDE DEF u
  <2>4. /\ u.classic.notificationItemAvailable = TRUE /\ u.classic.window = NoDock
        /\ u.classic.dockWindow = s.classic.dockWindow
        /\ u.classic.waitDelayed = s.classic.waitDelayed
        /\ u.classic.selected = s.classic.selected
        /\ u.classic.isSuspend = s.classic.isSuspend
    BY <1>0, <2>2, <2>3 DEF Classic
  <2>5. AtRest(u)
    BY <1>2, <2>2, <2>3, <2>4
       DEF AtRest, Calm, Took, ClassicLoaded, Asked, Truthful, Placed, Shown
  <2> QED BY <1>2, <2>1, <2>2, <2>3, <2>4, <2>5
<1>3. CASE s.classic.isSuspend = FALSE /\ b = FALSE
  <2> DEFINE t == [s EXCEPT !.classic.notificationItemAvailable = FALSE]
             u == ShowTray(t)
  <2>1. NotificationItemAvailable(s, b) = u
    BY <1>3 DEF NotificationItemAvailable
  <2>2. /\ t \in Process /\ t.item = s.item /\ t.addon = s.addon
        /\ t.classic = [s.classic EXCEPT !.notificationItemAvailable = FALSE]
    BY <1>0 DEF Process, Classic
  <2> HIDE DEF t
  <2>3. /\ t.classic.notificationItemAvailable = FALSE
        /\ t.classic.dockWindow = s.classic.dockWindow
    BY <1>0, <2>2 DEF Classic
  <2>4. Calm(t) /\ Asked(t) /\ Truthful(t) /\ ClassicLoaded(t)
    BY <1>0, <2>2, <2>3 DEF Calm, Took, ClassicLoaded, Asked, Truthful, Classic
  <2>5. /\ AtRest(u) /\ u.item = t.item /\ u.addon = t.addon
        /\ u.classic.notificationItemAvailable = t.classic.notificationItemAvailable
        /\ u.classic.dockWindow = t.classic.dockWindow
    BY <2>2, <2>4, ShowRest
  <2> HIDE DEF u
  <2> QED BY <1>3, <2>1, <2>2, <2>3, <2>5
<1>4. s.classic.isSuspend \in BOOLEAN
  BY <1>0 DEF Classic
<1> QED BY <1>1, <1>2, <1>3, <1>4

-----------------------------------------------------------------------------
(* The item asks.                                                          *)
LEMMA RegisterFields ==
    ASSUME NEW s \in Process
    PROVE  LET t == Register(s)
           IN  /\ t \in Process /\ t.classic = s.classic /\ t.addon = s.addon /\ Took(t)
               /\ t.item.loaded = s.item.loaded /\ t.item.callback = s.item.callback
               /\ t.item.available = s.item.available
               /\ t.item.registered = s.item.registered
               /\ t.item.replaced = s.item.replaced
<1> DEFINE q == Append(s.item.calls, "current")
           t == [s EXCEPT !.item.calls = q]
<1>1. s.item.calls \in Seq({"current", "stale"}) /\ s.item \in Item
  BY DEF Process, Item
<1>2. /\ q \in Seq({"current", "stale"}) /\ Len(q) \in DOMAIN q
      /\ q[Len(q)] = "current"
  BY <1>1
<1>3. Register(s) = t
  BY DEF Register
<1> HIDE DEF q
<1>4. /\ t \in Process /\ t.classic = s.classic /\ t.addon = s.addon /\ t.item.calls = q
      /\ t.item.loaded = s.item.loaded /\ t.item.callback = s.item.callback
      /\ t.item.available = s.item.available
      /\ t.item.registered = s.item.registered /\ t.item.replaced = s.item.replaced
  BY <1>1, <1>2 DEF Process, Item
<1> HIDE DEF t
<1>5. Took(t)
  BY <1>2, <1>4 DEF Took
<1> QED BY <1>3, <1>4, <1>5

LEMMA EnableFields ==
    ASSUME NEW s \in Process, Calm(s), s.item.loaded = TRUE
    PROVE  LET t == Enable(s)
           IN  /\ t \in Process /\ t.classic = s.classic /\ t.addon = s.addon
               /\ t.item.callback = TRUE /\ t.item.loaded = TRUE
               /\ t.item.available = s.item.available
               /\ Answering(s, t)
<1>0. s.item \in Item /\ s.item.callback \in BOOLEAN /\ s.item.available \in BOOLEAN
  BY DEF Process, Item
<1>1. CASE s.item.callback = TRUE
  BY <1>0, <1>1, AnsweringSame DEF Enable
<1>2. CASE s.item.callback = FALSE
  <2> DEFINE t == [s EXCEPT !.item.callback = TRUE]
             u == Register(t)
  <2>1. /\ t \in Process /\ t.classic = s.classic /\ t.addon = s.addon
        /\ t.item = [s.item EXCEPT !.callback = TRUE]
    BY DEF Process, Item
  <2>2. Enable(s) = IF s.item.available THEN u ELSE t
    BY <1>2 DEF Enable
  <2> HIDE DEF t
  <2>3. /\ t.item.callback = TRUE /\ t.item.loaded = TRUE /\ t.item.registered = FALSE
        /\ t.item.available = s.item.available
    BY <1>0, <1>2, <2>1 DEF Item, Calm
  <2>4. /\ u \in Process /\ u.classic = t.classic /\ u.addon = t.addon /\ Took(u)
        /\ u.item.loaded = TRUE /\ u.item.callback = TRUE
        /\ u.item.available = s.item.available /\ u.item.registered = FALSE
    BY <2>1, <2>3, RegisterFields
  <2> HIDE DEF u
  <2>5. CASE s.item.available = TRUE
    <3>1. Answering(s, u)
      BY <2>4, <2>5 DEF Answering
    <3> QED BY <2>1, <2>2, <2>4, <2>5, <3>1
  <2>6. CASE s.item.available = FALSE
    <3>1. Answering(s, t)
      BY <2>3, <2>6 DEF Answering
    <3> QED BY <2>1, <2>2, <2>3, <2>6, <3>1
  <2> QED BY <1>0, <2>5, <2>6
<1> QED BY <1>0, <1>1, <1>2

LEMMA InitTrayRest ==
    ASSUME NEW s, Sane(s), Calm(s), Truthful(s), Placed(s), ClassicLoaded(s)
    PROVE  LET t == InitTray(s)
           IN  /\ AtRest(t) /\ Answering(s, t) /\ t.addon = s.addon
               /\ t.classic.dockWindow = s.classic.dockWindow
<1>0. /\ s \in Process /\ s.classic \in Classic /\ s.item \in Item
      /\ s.classic.isSuspend \in BOOLEAN /\ s.item.loaded \in BOOLEAN
      /\ s.item.available \in BOOLEAN
  BY DEF Sane, Process, Classic, Item
<1>1. CASE s.classic.isSuspend = TRUE
  <2>1. AtRest(s)
    BY <1>1 DEF AtRest, Asked, Shown
  <2> QED BY <1>0, <1>1, <2>1, AnsweringSame DEF InitTray
<1>2. CASE s.classic.isSuspend = FALSE /\ s.item.loaded = TRUE
  <2> DEFINE e == Enable(s)
             t == [e EXCEPT !.classic.trayTimeout = TRUE]
  <2>1. /\ e \in Process /\ e.classic = s.classic /\ e.addon = s.addon
        /\ e.item.callback = TRUE /\ e.item.loaded = TRUE
        /\ e.item.available = s.item.available /\ Answering(s, e)
        /\ e.item.available \in BOOLEAN
    BY <1>0, <1>2, EnableFields
  <2>2. InitTray(s) = t
    BY <1>2 DEF InitTray
  <2> HIDE DEF e
  <2>3. /\ t.item = e.item /\ t.addon = e.addon
        /\ t.classic = [e.classic EXCEPT !.trayTimeout = TRUE]
    BY <2>1 DEF Process, Classic
  <2> HIDE DEF t
  <2>4. /\ t.classic.trayTimeout = TRUE /\ t.classic.window = s.classic.window
        /\ t.classic.dockWindow = s.classic.dockWindow
        /\ t.classic.notificationItemAvailable = s.classic.notificationItemAvailable
    BY <1>0, <2>1, <2>3 DEF Classic
  <2>5. AtRest(t)
    BY <2>1, <2>3, <2>4
       DEF AtRest, Calm, Took, ClassicLoaded, Asked, Truthful, Placed, Shown
  <2>6. Answering(e, t)
    BY <2>1, <2>3, <2>4, AnsweringSame
  <2>7. Answering(s, t)
    BY <2>1, <2>6, AnsweringTwice
  <2> QED BY <2>1, <2>2, <2>3, <2>4, <2>5, <2>7
<1>3. CASE s.classic.isSuspend = FALSE /\ s.item.loaded = FALSE
  <2>1. InitTray(s) = ShowTray(s) /\ Asked(s)
    BY <1>3 DEF InitTray, Asked
  <2> QED BY <1>0, <2>1, ShowRest
<1> QED BY <1>0, <1>1, <1>2, <1>3

LEMMA InitTimerRest ==
    ASSUME NEW s, Sane(s), AtRest(s), ClassicLoaded(s)
    PROVE  LET t == DelayedInitTray(s)
           IN  /\ AtRest(t) /\ Answering(s, t) /\ t.addon = s.addon
               /\ t.classic.dockWindow = s.classic.dockWindow
<1> DEFINE w == [s EXCEPT !.classic.waitDelayed = FALSE]
           t == InitTray(w)
<1>0. s \in Process /\ s.classic \in Classic /\ s.item.available \in BOOLEAN
  BY DEF Sane, Process, Item
<1>1. /\ w \in Process /\ w.item = s.item /\ w.addon = s.addon
      /\ w.classic = [s.classic EXCEPT !.waitDelayed = FALSE]
  BY <1>0 DEF Process, Classic
<1>2. DelayedInitTray(s) = t
  BY DEF DelayedInitTray
<1> HIDE DEF w
<1>3. /\ w.classic.window = s.classic.window /\ w.classic.dockWindow = s.classic.dockWindow
      /\ w.classic.notificationItemAvailable = s.classic.notificationItemAvailable
      /\ w.classic.isSuspend = s.classic.isSuspend
      /\ w.classic.selected = s.classic.selected
      /\ w.classic.trayTimeout = s.classic.trayTimeout
  BY <1>0, <1>1 DEF Classic
<1>4. Sane(w)
  BY <1>1, <1>3 DEF Sane, OnePlace
<1>5. Calm(w) /\ Truthful(w) /\ Placed(w) /\ ClassicLoaded(w)
  BY <1>1, <1>3 DEF AtRest, Calm, Took, ClassicLoaded, Truthful, Placed
<1>6. Answering(s, w)
  BY <1>0, <1>1, <1>3, AnsweringSame
<1>7. /\ AtRest(t) /\ Answering(w, t) /\ t.addon = w.addon
      /\ t.classic.dockWindow = w.classic.dockWindow
  BY <1>4, <1>5, InitTrayRest
<1> HIDE DEF t
<1>8. Answering(s, t)
  BY <1>6, <1>7, AnsweringTwice
<1> QED BY <1>1, <1>2, <1>3, <1>7, <1>8

LEMMA ShowTimerRest ==
    ASSUME NEW s, Sane(s), AtRest(s), ClassicLoaded(s)
    PROVE  LET t == DelayedShowTray(s)
           IN  /\ AtRest(t) /\ Answering(s, t) /\ t.addon = s.addon
               /\ t.classic.dockWindow = s.classic.dockWindow
<1> DEFINE w == [s EXCEPT !.classic.trayTimeout = FALSE]
           t == ShowTray(w)
<1>0. /\ s \in Process /\ s.classic \in Classic /\ s.item.available \in BOOLEAN
      /\ s.classic.isSuspend \in BOOLEAN
  BY DEF Sane, Process, Classic, Item
<1>1. /\ w \in Process /\ w.item = s.item /\ w.addon = s.addon
      /\ w.classic = [s.classic EXCEPT !.trayTimeout = FALSE]
  BY <1>0 DEF Process, Classic
<1>2. DelayedShowTray(s) = IF s.classic.isSuspend \/ s.classic.window # NoDock
                           THEN w ELSE t
  BY DEF DelayedShowTray
<1> HIDE DEF w
<1>3. /\ w.classic.window = s.classic.window /\ w.classic.dockWindow = s.classic.dockWindow
      /\ w.classic.notificationItemAvailable = s.classic.notificationItemAvailable
      /\ w.classic.isSuspend = s.classic.isSuspend
      /\ w.classic.selected = s.classic.selected
      /\ w.classic.waitDelayed = s.classic.waitDelayed /\ w.classic.trayTimeout = FALSE
  BY <1>0, <1>1 DEF Classic
<1>4. /\ Calm(w) /\ Asked(w) /\ Truthful(w) /\ Placed(w) /\ ClassicLoaded(w)
  BY <1>1, <1>3 DEF AtRest, Calm, Took, ClassicLoaded, Asked, Truthful, Placed
<1>5. Answering(s, w)
  BY <1>0, <1>1, <1>3, AnsweringSame
<1>6. CASE s.classic.isSuspend = TRUE \/ s.classic.window # NoDock
  <2>1. Shown(w)
    BY <1>3, <1>4, <1>6 DEF Shown, Placed
  <2> QED BY <1>1, <1>2, <1>3, <1>4, <1>5, <1>6, <2>1 DEF AtRest
<1>7. CASE s.classic.isSuspend = FALSE /\ s.classic.window = NoDock
  <2>1. /\ AtRest(t) /\ Answering(w, t) /\ t.addon = w.addon
        /\ t.classic.dockWindow = w.classic.dockWindow
    BY <1>1, <1>4, ShowRest
  <2> HIDE DEF t
  <2>2. Answering(s, t)
    BY <1>5, <2>1, AnsweringTwice
  <2> QED BY <1>1, <1>2, <1>3, <1>7, <2>1, <2>2
<1> QED BY <1>0, <1>6, <1>7

(* Suspended, it has no answer to wait for.                                *)
LEMMA ClassicSuspendRest ==
    ASSUME NEW s \in Process, ClassicLoaded(s)
    PROVE  LET t == ClassicUISuspend(s)
           IN  /\ AtRest(t) /\ Answering(s, t) /\ t.addon = s.addon
               /\ t.classic.dockWindow = s.classic.dockWindow
<1> DEFINE w == [s EXCEPT !.classic.isSuspend = TRUE,
                          !.classic.notificationItemAvailable = FALSE]
           r == TrayWindowRelease(w)
           q == [i \in DOMAIN r.item.calls |-> "stale"]
           t == Disable(r)
<1>0. s.classic \in Classic /\ s.item \in Item
  BY DEF Process
<1>1. /\ w \in Process /\ w.item = s.item /\ w.addon = s.addon
      /\ w.classic = [s.classic EXCEPT !.isSuspend = TRUE,
                                       !.notificationItemAvailable = FALSE]
  BY <1>0 DEF Process, Classic
<1> HIDE DEF w
<1>2. /\ r \in Process /\ r.item = s.item /\ r.addon = s.addon
      /\ r.classic = [w.classic EXCEPT !.window = NoDock]
  BY <1>1, ReleaseFields
<1>3. ClassicUISuspend(s) = t
  BY DEF ClassicUISuspend, w
<1> HIDE DEF r
<1>4. /\ r.classic.isSuspend = TRUE /\ r.classic.notificationItemAvailable = FALSE
      /\ r.classic.window = NoDock /\ r.classic.dockWindow = s.classic.dockWindow
  BY <1>0, <1>1, <1>2 DEF Classic
<1>5. t = [r EXCEPT !.item.callback = FALSE, !.item.registered = FALSE,
                    !.item.replaced = FALSE, !.item.calls = q]
  BY DEF Disable
<1>6. \A i \in DOMAIN q : q[i] = "stale"
  OBVIOUS
<1> HIDE DEF q, t
<1>a. /\ t.classic = r.classic /\ t.addon = r.addon
      /\ t.item = [r.item EXCEPT !.callback = FALSE, !.registered = FALSE,
                                 !.replaced = FALSE, !.calls = q]
  BY <1>2, <1>5 DEF Process
<1>7. /\ t.classic = r.classic /\ t.addon = s.addon /\ t.item.callback = FALSE
      /\ t.item.registered = FALSE /\ t.item.calls = q
      /\ t.item.loaded = s.item.loaded /\ t.item.available = s.item.available
  BY <1>0, <1>2, <1>a DEF Item
<1>8. ~ Took(t)
  BY <1>6, <1>7 DEF Took
<1>9. AtRest(t)
  BY <1>4, <1>7, <1>8 DEF AtRest, Calm, ClassicLoaded, Asked, Truthful, Placed, Shown
<1>10. Answering(s, t)
  BY <1>7 DEF Answering
<1> QED BY <1>3, <1>4, <1>7, <1>9, <1>10 DEF t

LEMMA ClassicResumeRest ==
    ASSUME NEW s, Sane(s), AtRest(s), ClassicLoaded(s)
    PROVE  LET t == ClassicUIResume(s)
           IN  /\ AtRest(t) /\ Answering(s, t) /\ t.addon = s.addon
               /\ t.classic.dockWindow = s.classic.dockWindow
<1> DEFINE w == [s EXCEPT !.classic.isSuspend = FALSE]
           t == InitTray(w)
<1>0. s \in Process /\ s.classic \in Classic /\ s.item.available \in BOOLEAN
  BY DEF Sane, Process, Item
<1>1. /\ w \in Process /\ w.item = s.item /\ w.addon = s.addon
      /\ w.classic = [s.classic EXCEPT !.isSuspend = FALSE]
  BY <1>0 DEF Process, Classic
<1>2. ClassicUIResume(s) = t
  BY DEF ClassicUIResume
<1> HIDE DEF w
<1>3. /\ w.classic.window = s.classic.window /\ w.classic.dockWindow = s.classic.dockWindow
      /\ w.classic.notificationItemAvailable = s.classic.notificationItemAvailable
      /\ w.classic.selected = s.classic.selected /\ w.classic.isSuspend = FALSE
      /\ w.classic.trayTimeout = s.classic.trayTimeout
  BY <1>0, <1>1 DEF Classic
<1>4. Sane(w)
  BY <1>1, <1>3 DEF Sane, OnePlace
<1>5. Calm(w) /\ Truthful(w) /\ Placed(w) /\ ClassicLoaded(w)
  BY <1>1, <1>3 DEF AtRest, Calm, Took, ClassicLoaded, Truthful, Placed
<1>6. Answering(s, w)
  BY <1>0, <1>1, <1>3, AnsweringSame
<1>7. /\ AtRest(t) /\ Answering(w, t) /\ t.addon = w.addon
      /\ t.classic.dockWindow = w.classic.dockWindow
  BY <1>4, <1>5, InitTrayRest
<1> HIDE DEF t
<1>8. Answering(s, t)
  BY <1>6, <1>7, AnsweringTwice
<1> QED BY <1>1, <1>2, <1>3, <1>7, <1>8

LEMMA OneSuspendedRest ==
    ASSUME NEW s, Sane(s), AtRest(s), ClassicLoaded(s), NEW a
    PROVE  /\ LET t == Suspend(s, a)
              IN  /\ AtRest(t) /\ Answering(s, t) /\ t.addon = s.addon
                  /\ t.classic.dockWindow = s.classic.dockWindow
           /\ LET t == Resume(s, a)
              IN  /\ AtRest(t) /\ Answering(s, t) /\ t.addon = s.addon
                  /\ t.classic.dockWindow = s.classic.dockWindow
<1>1. s \in Process /\ s.item.available \in BOOLEAN
  BY DEF Sane, Process, Item
<1>2. CASE a = "classic"
  <2>1. Suspend(s, a) = ClassicUISuspend(s) /\ Resume(s, a) = ClassicUIResume(s)
    BY <1>2 DEF Suspend, Resume
  <2> QED BY <1>1, <2>1, ClassicSuspendRest, ClassicResumeRest
<1>3. CASE a # "classic"
  <2>1. Suspend(s, a) = s /\ Resume(s, a) = s
    BY <1>3 DEF Suspend, Resume
  <2> QED BY <1>1, <2>1, AnsweringSame
<1> QED BY <1>2, <1>3

(* A classic interface that is loaded now sees the dock there is.           *)
Docked(s, t, selection) ==
    /\ ClassicLoaded(s) => ClassicLoaded(t) /\ t.classic.dockWindow = s.classic.dockWindow
    /\ ~ ClassicLoaded(s) /\ ClassicLoaded(t) => t.classic.dockWindow = selection

LEMMA FallbackRest ==
    ASSUME NEW s, Sane(s), AtRest(s), NEW selection \in Dock \cup {NoDock}
    PROVE  LET t == LoadFallback(s, selection)
           IN  AtRest(t) /\ Answering(s, t) /\ ClassicLoaded(t) /\ Docked(s, t, selection)
<1> DEFINE s1 == IF ClassicLoaded(s) THEN s
                 ELSE [s EXCEPT !.addon["classic"] = "loaded",
                                !.classic = Created(selection)]
           s2 == [s1 EXCEPT !.uifallback = "classic"]
           t == ClassicUISuspend(s2)
<1>1. s \in Process /\ Created(selection) \in Classic /\ Created(selection).dockWindow = selection
  BY DEF Sane, Created, Classic
<1>2. /\ s1 \in Process /\ ClassicLoaded(s1) /\ s1.item = s.item
      /\ s1.classic.dockWindow = IF ClassicLoaded(s) THEN s.classic.dockWindow
                                 ELSE selection
  BY <1>1 DEF Process, UI, ClassicLoaded
<1>3. LoadFallback(s, selection) = t
  BY DEF LoadFallback, Suspend, ClassicLoaded
<1> HIDE DEF s1
<1>4. s2 \in Process /\ s2.addon = s1.addon /\ s2.item = s1.item /\ s2.classic = s1.classic
  BY <1>2 DEF Process, UI
<1> HIDE DEF s2
<1>5. /\ AtRest(t) /\ Answering(s2, t) /\ t.addon = s2.addon
      /\ t.classic.dockWindow = s2.classic.dockWindow
  BY <1>2, <1>4, ClassicSuspendRest DEF ClassicLoaded
<1>6. t.item.callback = FALSE
  BY <1>4, SuspendSane DEF Sane, OnePlace
<1> HIDE DEF t
<1>7. Answering(s, t)
  BY <1>2, <1>4, <1>5, <1>6 DEF Answering
<1>8. ClassicLoaded(t) /\ Docked(s, t, selection)
  BY <1>2, <1>4, <1>5 DEF Docked, ClassicLoaded
<1> QED BY <1>3, <1>5, <1>7, <1>8

LEMMA SwitchRest ==
    ASSUME NEW s, Good(s), AtRest(s), NEW loads \in BOOLEAN, NEW selection \in Dock \cup {NoDock}
    PROVE  LET t == SwitchToFallback(s, loads, selection)
           IN  AtRest(t) /\ Answering(s, t) /\ Docked(s, t, selection)
<1>0. Sane(s) /\ s \in Process /\ s.item.available \in BOOLEAN
  BY DEF Good, Sane, Process, Item
<1>1. CASE ~s.fallbackuiName \/ s.ui # s.uinormal
  <2>1. SwitchToFallback(s, loads, selection) = s
    BY <1>1 DEF SwitchToFallback
  <2> QED BY <1>0, <2>1, AnsweringSame DEF Docked
<1>2. CASE /\ ~(~s.fallbackuiName \/ s.ui # s.uinormal)
           /\ s.uifallback = NoUI /\ ~Usable(s, loads)
  <2> DEFINE t == [s EXCEPT !.fallbackuiName = FALSE]
  <2>1. SwitchToFallback(s, loads, selection) = t
    BY <1>2 DEF SwitchToFallback
  <2>2. t.classic = s.classic /\ t.item = s.item /\ t.addon = s.addon
    BY <1>0 DEF Process
  <2> HIDE DEF t
  <2> QED BY <1>0, <2>1, <2>2, SameTrayRest DEF Docked, ClassicLoaded
<1>3. CASE /\ ~(~s.fallbackuiName \/ s.ui # s.uinormal)
           /\ ~(s.uifallback = NoUI /\ ~Usable(s, loads))
  <2> DEFINE s1 == IF s.uifallback = NoUI THEN LoadFallback(s, selection) ELSE s
             s2 == Suspend(s1, s1.uinormal)
             s3 == Resume(s2, "classic")
             t == [s3 EXCEPT !.ui = "classic"]
  <2>1. Sane(s1) /\ s1.uifallback = "classic"
    BY <1>0, <1>3, FallbackLoaded DEF Good, Coherent
  <2>2. SwitchToFallback(s, loads, selection) = t
    BY <1>3, <2>1 DEF SwitchToFallback
  <2>3. AtRest(s1) /\ Answering(s, s1) /\ ClassicLoaded(s1) /\ Docked(s, s1, selection)
    <3>1. CASE s.uifallback = NoUI
      BY <1>0, <3>1, FallbackRest
    <3>2. CASE s.uifallback # NoUI
      BY <1>0, <3>2, AnsweringSame DEF Docked, Good, Coherent, ClassicLoaded
    <3> QED BY <3>1, <3>2
  <2> HIDE DEF s1
  <2>4. /\ AtRest(s2) /\ Answering(s1, s2) /\ s2.addon = s1.addon
        /\ s2.classic.dockWindow = s1.classic.dockWindow /\ Sane(s2) /\ ClassicLoaded(s2)
    BY <2>1, <2>3, OneSuspendedRest, OneSuspended DEF ClassicLoaded
  <2> HIDE DEF s2
  <2>5. /\ AtRest(s3) /\ Answering(s2, s3) /\ s3.addon = s2.addon
        /\ s3.classic.dockWindow = s2.classic.dockWindow /\ Sane(s3)
    BY <2>4, OneSuspendedRest, OneResumed
  <2> HIDE DEF s3
  <2>6. /\ s3 \in Process /\ t.classic = s3.classic /\ t.item = s3.item
        /\ t.addon = s3.addon
    BY <2>5 DEF Sane, Process
  <2> HIDE DEF t
  <2>7. AtRest(t) /\ Answering(s3, t) /\ t.classic.dockWindow = s3.classic.dockWindow
    BY <2>5, <2>6, SameTrayRest
  <2>8. Answering(s, t)
    BY <2>3, <2>4, <2>5, <2>7, AnsweringTwice
  <2>9. Docked(s, t, selection)
    BY <2>3, <2>4, <2>5, <2>6, <2>7 DEF Docked, ClassicLoaded
  <2> QED BY <2>2, <2>7, <2>8, <2>9
<1> QED BY <1>1, <1>2, <1>3

LEMMA ResumeRest ==
    ASSUME NEW s, Good(s), AtRest(s)
    PROVE  LET t == ResumeFromFallback(s)
           IN  AtRest(t) /\ Answering(s, t) /\ \A d : Docked(s, t, d)
<1>0. Sane(s) /\ s \in Process /\ s.item.available \in BOOLEAN
  BY DEF Good, Sane, Process, Item
<1>1. CASE s.uifallback = NoUI \/ s.ui # s.uifallback
  <2>1. ResumeFromFallback(s) = s
    BY <1>1 DEF ResumeFromFallback
  <2> QED BY <1>0, <2>1, AnsweringSame DEF Docked
<1>2. CASE ~(s.uifallback = NoUI \/ s.ui # s.uifallback)
  <2> DEFINE s1 == Suspend(s, "classic")
             s2 == Resume(s1, s.uinormal)
             t == [s2 EXCEPT !.ui = s.uinormal]
  <2>1. s.uifallback = "classic" /\ ClassicLoaded(s)
    BY <1>2 DEF Good, Coherent, ClassicLoaded
  <2>2. ResumeFromFallback(s) = t
    BY <1>2, <2>1 DEF ResumeFromFallback
  <2>3. /\ AtRest(s1) /\ Answering(s, s1) /\ s1.addon = s.addon
        /\ s1.classic.dockWindow = s.classic.dockWindow /\ Sane(s1) /\ ClassicLoaded(s1)
    BY <1>0, <2>1, OneSuspendedRest, OneSuspended DEF ClassicLoaded
  <2> HIDE DEF s1
  <2>4. /\ AtRest(s2) /\ Answering(s1, s2) /\ s2.addon = s1.addon
        /\ s2.classic.dockWindow = s1.classic.dockWindow /\ Sane(s2)
    BY <2>3, OneSuspendedRest, OneResumed
  <2> HIDE DEF s2
  <2>5. /\ s2 \in Process /\ t.classic = s2.classic /\ t.item = s2.item
        /\ t.addon = s2.addon
    BY <2>4 DEF Sane, Process
  <2> HIDE DEF t
  <2>6. AtRest(t) /\ Answering(s2, t) /\ t.classic.dockWindow = s2.classic.dockWindow
    BY <2>4, <2>5, SameTrayRest
  <2>7. Answering(s, t)
    BY <2>3, <2>4, <2>6, AnsweringTwice
  <2>8. \A d : Docked(s, t, d)
    BY <2>1, <2>3, <2>4, <2>5, <2>6 DEF Docked, ClassicLoaded
  <2> QED BY <2>2, <2>6, <2>7, <2>8
<1> QED BY <1>1, <1>2

LEMMA NamedRest ==
    ASSUME NEW s, Good(s), AtRest(s), NEW a \in UI
    PROVE  LET t == ResumeFromFallbackWithUIName(s, a)
           IN  AtRest(t) /\ Answering(s, t) /\ \A d : Docked(s, t, d)
<1> DEFINE w == [s EXCEPT !.uinormal = a]
           t == ResumeFromFallback(w)
<1>1. /\ s \in Process /\ w.classic = s.classic /\ w.item = s.item /\ w.addon = s.addon
      /\ Good(w)
  BY DEF Good, Sane, OnePlace, Coherent, Process, Loaded
<1>2. ResumeFromFallbackWithUIName(s, a) =
         IF s.addon[a] = "disabled" THEN ResumeFromFallback(s) ELSE t
  BY DEF ResumeFromFallbackWithUIName
<1> HIDE DEF w
<1>3. AtRest(w) /\ Answering(s, w) /\ w.classic.dockWindow = s.classic.dockWindow
  BY <1>1, SameTrayRest
<1>4. AtRest(t) /\ Answering(w, t) /\ \A d : Docked(w, t, d)
  BY <1>1, <1>3, ResumeRest
<1> HIDE DEF t
<1>5. Answering(s, t) /\ \A d : Docked(s, t, d)
  BY <1>1, <1>3, <1>4, AnsweringTwice DEF Docked, ClassicLoaded
<1> QED BY <1>2, <1>4, <1>5, ResumeRest

(* The watcher has come or gone.                                           *)
LEMMA SetAvailableRest ==
    ASSUME NEW s, Sane(s), AtRest(s), NEW b \in BOOLEAN
    PROVE  LET t == SetAvailable(s, b)
           IN  /\ AtRest(t) /\ t.addon = s.addon
               /\ t.classic.dockWindow = s.classic.dockWindow
               /\ t.item.loaded = s.item.loaded /\ t.item.available = b
               /\ t.item.callback = s.item.callback
               /\ t.item.registered = s.item.registered
               /\ t.item.replaced = s.item.replaced
               /\ b = TRUE => /\ t.classic = s.classic
                              /\ s.item.available = FALSE /\ s.item.callback = TRUE => Took(t)
                              /\ Took(s) => Took(t)
<1> DEFINE w == [s EXCEPT !.item.available = b]
           r == Register(w)
           u == NotificationItemAvailable(w, FALSE)
<1>0. /\ s \in Process /\ s.item \in Item /\ OnePlace(s) /\ s.item.callback \in BOOLEAN
      /\ s.item.available \in BOOLEAN
  BY DEF Sane, Process, Item
<1>1. /\ w \in Process /\ w.classic = s.classic /\ w.addon = s.addon
      /\ w.item = [s.item EXCEPT !.available = b]
  BY <1>0 DEF Process, Item
<1>2. SetAvailable(s, b) = IF s.item.available = b \/ ~s.item.callback THEN w
                           ELSE IF b THEN r ELSE u
  BY DEF SetAvailable
<1> HIDE DEF w
<1>3. /\ w.item.available = b /\ w.item.loaded = s.item.loaded
      /\ w.item.callback = s.item.callback /\ w.item.registered = s.item.registered
      /\ w.item.replaced = s.item.replaced /\ w.item.calls = s.item.calls
  BY <1>0, <1>1 DEF Item
<1>4. Sane(w) /\ Calm(w) /\ Asked(w) /\ Placed(w) /\ Shown(w)
  BY <1>0, <1>1, <1>3
     DEF Sane, OnePlace, AtRest, Calm, Took, ClassicLoaded, Asked, Placed, Shown
<1>5. CASE s.item.available = b \/ s.item.callback = FALSE
  <2>1. Truthful(w)
    BY <1>0, <1>1, <1>3, <1>5 DEF AtRest, Truthful, OnePlace
  <2>2. SetAvailable(s, b) = w
    BY <1>2, <1>5
  <2>3. AtRest(w) /\ (Took(s) => Took(w))
    BY <1>3, <1>4, <2>1 DEF AtRest, Took
  <2>4. ~ (b = TRUE /\ s.item.available = FALSE /\ s.item.callback = TRUE)
    BY <1>5
  <2> QED BY <1>1, <1>3, <2>2, <2>3, <2>4
<1>6. CASE s.item.available # b /\ s.item.callback = TRUE /\ b = TRUE
  <2>1. /\ r.classic = w.classic /\ r.addon = w.addon /\ Took(r)
        /\ r.item.loaded = w.item.loaded /\ r.item.callback = w.item.callback
        /\ r.item.available = w.item.available
        /\ r.item.registered = w.item.registered /\ r.item.replaced = w.item.replaced
    BY <1>1, RegisterFields
  <2> HIDE DEF r
  <2>2. AtRest(r)
    BY <1>1, <1>3, <1>4, <1>6, <2>1
       DEF AtRest, Calm, ClassicLoaded, Asked, Truthful, Placed, Shown
  <2> QED BY <1>1, <1>2, <1>3, <1>6, <2>1, <2>2
<1>7. CASE s.item.available # b /\ s.item.callback = TRUE /\ b = FALSE
  <2>1. ClassicLoaded(w)
    BY <1>1, <1>7 DEF AtRest, Calm, ClassicLoaded
  <2>2. /\ AtRest(u) /\ u.item = w.item /\ u.addon = w.addon
        /\ u.classic.dockWindow = w.classic.dockWindow
    BY <1>4, <2>1, AvailableRest
  <2> HIDE DEF u
  <2> QED BY <1>1, <1>2, <1>3, <1>7, <2>2
<1> QED BY <1>0, <1>5, <1>6, <1>7

(* The watcher has answered.                                               *)
LEMMA SuccessRest ==
    ASSUME NEW s, Sane(s), AtRest(s), s.item.callback = TRUE => s.item.available = TRUE
    PROVE  LET t == RegisterSuccess(s)
           IN  /\ AtRest(t) /\ t.addon = s.addon /\ t.item = s.item
               /\ t.classic.dockWindow = s.classic.dockWindow
               /\ s.item.callback = TRUE => t.classic.notificationItemAvailable = TRUE
<1>1. CASE s.item.callback = TRUE
  <2>1. ClassicLoaded(s) /\ s.classic.isSuspend = FALSE
    BY <1>1 DEF AtRest, Calm, ClassicLoaded, Sane, OnePlace, Process, Classic
  <2>2. RegisterSuccess(s) = NotificationItemAvailable(s, TRUE)
    BY <1>1 DEF RegisterSuccess
  <2> QED BY <1>1, <2>1, <2>2, AvailableRest DEF AtRest
<1>2. CASE s.item.callback = FALSE
  BY <1>2 DEF RegisterSuccess
<1>3. s.item.callback \in BOOLEAN
  BY DEF Sane, Process, Item
<1> QED BY <1>1, <1>2, <1>3

-----------------------------------------------------------------------------
(* What the bus has said.                                                  *)

(* After the first i messages of q a process that thought available thinks  *)
(* there is a watcher.                                                     *)
SaysThere(q, i, available) ==
    \/ \E j \in 1 .. i : q[j] = "WatcherCame" /\ \A k \in j .. i : q[k] # "WatcherGone"
    \/ available = TRUE /\ \A k \in 1 .. i : q[k] # "WatcherGone"

(* All that was said is true at its end, and an answer is read only by one  *)
(* who knows of the watcher that gave it.                                  *)
NewsTrue(item, w, q) ==
    item.loaded = TRUE =>
       /\ w <=> SaysThere(q, Len(q), item.available)
       /\ \A i \in 1 .. Len(q) : q[i] = "Registered" => SaysThere(q, i, item.available)

LossAhead(q) == \E i \in 1 .. Len(q) : q[i] = "WatcherGone"

NoLoss(q) == \A k \in 1 .. Len(q) : q[k] # "WatcherGone"

(* An answer is on its way, and no loss of the watcher after it.            *)
AnswerAhead(q) ==
    \E i \in 1 .. Len(q) : /\ q[i] = "Registered"
                           /\ \A k \in i .. Len(q) : q[k] # "WatcherGone"

(* Who knows of a watcher and is not registered waits for an answer, or for *)
(* the news that the watcher has gone, or was with one that this watcher    *)
(* has replaced; who is registered knows it or will.                       *)
Answered(s, q) ==
    /\ s.item.callback = TRUE /\ s.item.available = TRUE =>
          \/ s.item.registered = TRUE \/ Took(s) \/ LossAhead(q)
          \/ s.item.replaced = TRUE
    /\ s.item.callback = TRUE /\ s.item.registered = TRUE =>
          \/ s.classic.notificationItemAvailable = TRUE /\ NoLoss(q)
          \/ AnswerAhead(q)

LEMMA AppendFacts ==
    ASSUME NEW S, NEW q \in Seq(S), NEW m \in S, NEW r, r = Append(q, m)
    PROVE  /\ r \in Seq(S) /\ Len(r) = Len(q) + 1 /\ r[Len(r)] = m /\ Len(q) \in Nat
           /\ \A i \in 1 .. Len(q) : r[i] = q[i]
OBVIOUS

LEMMA TailFacts ==
    ASSUME NEW S, NEW q \in Seq(S), q # <<>>, NEW r, r = Tail(q)
    PROVE  /\ r \in Seq(S) /\ Len(q) = Len(r) + 1 /\ Head(q) = q[1] /\ Len(r) \in Nat
           /\ \A i \in 1 .. Len(r) : r[i] = q[i + 1]
           /\ \A i \in 2 .. Len(q) : i - 1 \in 1 .. Len(r) /\ r[i - 1] = q[i]
OBVIOUS

LEMMA SaysAppend ==
    ASSUME NEW q \in Seq(Message), NEW m \in Message, NEW a, NEW r, r = Append(q, m)
    PROVE  /\ \A i \in 0 .. Len(q) : SaysThere(r, i, a) <=> SaysThere(q, i, a)
           /\ m = "WatcherCame" => SaysThere(r, Len(r), a)
           /\ m = "WatcherGone" => ~ SaysThere(r, Len(r), a)
           /\ m \notin {"WatcherCame", "WatcherGone"}
                 => (SaysThere(r, Len(r), a) <=> SaysThere(q, Len(q), a))
<1>1. /\ Len(r) = Len(q) + 1 /\ r[Len(r)] = m /\ Len(q) \in Nat
      /\ \A i \in 1 .. Len(q) : r[i] = q[i]
  BY AppendFacts
<1>2. ASSUME NEW i \in 0 .. Len(q) PROVE SaysThere(r, i, a) <=> SaysThere(q, i, a)
  <2>1. \A j \in 1 .. i : r[j] = q[j]
    BY <1>1
  <2>2. \A j \in 1 .. i : \A k \in j .. i : k \in 1 .. i
    BY <1>1
  <2> QED BY <2>1, <2>2 DEF SaysThere
<1>3. CASE m = "WatcherCame"
  <2>1. Len(r) \in 1 .. Len(r) /\ \A k \in Len(r) .. Len(r) : r[k] # "WatcherGone"
    BY <1>1, <1>3
  <2>2. SaysThere(r, Len(r), a)
    BY <1>1, <1>3, <2>1 DEF SaysThere
  <2> QED BY <1>2, <1>3, <2>2
<1>4. CASE m = "WatcherGone"
  <2>1. Len(r) \in 1 .. Len(r) /\ \A j \in 1 .. Len(r) : Len(r) \in j .. Len(r)
    BY <1>1
  <2>2. ~ SaysThere(r, Len(r), a)
    BY <1>1, <1>4, <2>1 DEF SaysThere
  <2> QED BY <1>2, <1>4, <2>2
<1>5. CASE m \notin {"WatcherCame", "WatcherGone"}
  <2> DEFINE n == Len(q)
  <2>1. n \in Nat /\ Len(r) = n + 1 /\ r[n + 1] = m
    BY <1>1
  <2> HIDE DEF n
  <2>2. SaysThere(r, n, a) => SaysThere(r, n + 1, a)
    <3>1. \A j \in 1 .. n : j \in 1 .. n + 1 /\ \A k \in j .. n + 1 : k \in j .. n \/ k = n + 1
      BY <2>1
    <3>2. \A k \in 1 .. n + 1 : k \in 1 .. n \/ k = n + 1
      BY <2>1
    <3> QED BY <1>5, <2>1, <3>1, <3>2 DEF SaysThere
  <2>3. SaysThere(r, n + 1, a) => SaysThere(r, n, a)
    <3>1. \A j \in 1 .. n : \A k \in j .. n : k \in j .. n + 1
      BY <2>1
    <3>2. \A k \in 1 .. n : k \in 1 .. n + 1
      BY <2>1
    <3>3. \A j \in 1 .. n + 1 : j \in 1 .. n \/ j = n + 1
      BY <2>1
    <3> QED BY <1>5, <2>1, <3>1, <3>2, <3>3 DEF SaysThere
  <2>4. SaysThere(r, n, a) <=> SaysThere(q, n, a)
    BY <1>2, <2>1 DEF n
  <2> QED BY <1>2, <1>5, <2>1, <2>2, <2>3, <2>4 DEF n
<1> QED BY <1>3, <1>4, <1>5

LEMMA SaysTail ==
    ASSUME NEW q \in Seq(Message), q # <<>>, NEW a, NEW b, NEW r, r = Tail(q),
           Head(q) = "WatcherCame" => b = TRUE,
           Head(q) = "WatcherGone" => b = FALSE,
           Head(q) \notin {"WatcherCame", "WatcherGone"} => b = a
    PROVE  \A i \in 0 .. Len(r) : SaysThere(r, i, b) <=> SaysThere(q, i + 1, a)
<1>1. /\ Len(q) = Len(r) + 1 /\ Head(q) = q[1] /\ Len(r) \in Nat
      /\ \A i \in 1 .. Len(r) : r[i] = q[i + 1]
  BY TailFacts
<1> SUFFICES ASSUME NEW i \in 0 .. Len(r)
             PROVE  SaysThere(r, i, b) <=> SaysThere(q, i + 1, a)
  OBVIOUS
<1>2. /\ \A j \in 1 .. i : r[j] = q[j + 1] /\ j + 1 \in 1 .. i + 1
      /\ \A j \in 2 .. i + 1 : j - 1 \in 1 .. i /\ r[j - 1] = q[j]
      /\ \A j \in 1 .. i + 1 : j = 1 \/ j \in 2 .. i + 1
      /\ 1 \in 1 .. i + 1
  BY <1>1
<1>3. \A j \in 2 .. i + 1 :
         (\A k \in j .. i + 1 : q[k] # "WatcherGone")
            <=> (\A k \in j - 1 .. i : r[k] # "WatcherGone")
  <2> TAKE j \in 2 .. i + 1
  <2>1. \A k \in j .. i + 1 : k - 1 \in j - 1 .. i /\ r[k - 1] = q[k]
    BY <1>1
  <2>2. \A k \in j - 1 .. i : k + 1 \in j .. i + 1 /\ r[k] = q[k + 1]
    BY <1>1
  <2> QED BY <2>1, <2>2
<1>4. (\A k \in 1 .. i + 1 : q[k] # "WatcherGone")
         <=> q[1] # "WatcherGone" /\ \A k \in 1 .. i : r[k] # "WatcherGone"
  BY <1>2
<1>5. (\E j \in 1 .. i + 1 : q[j] = "WatcherCame" /\ \A k \in j .. i + 1 : q[k] # "WatcherGone")
         <=> \/ q[1] = "WatcherCame" /\ \A k \in 1 .. i : r[k] # "WatcherGone"
             \/ \E j \in 1 .. i : r[j] = "WatcherCame" /\ \A k \in j .. i : r[k] # "WatcherGone"
  <2>1. ASSUME NEW j \in 1 .. i, r[j] = "WatcherCame", \A k \in j .. i : r[k] # "WatcherGone"
        PROVE  \E l \in 1 .. i + 1 : /\ q[l] = "WatcherCame"
                                     /\ \A k \in l .. i + 1 : q[k] # "WatcherGone"
    <3>1. j + 1 \in 2 .. i + 1 /\ (j + 1) - 1 = j /\ q[j + 1] = "WatcherCame"
          /\ j + 1 \in 1 .. i + 1
      BY <1>2, <2>1
    <3>2. \A k \in j + 1 .. i + 1 : q[k] # "WatcherGone"
      BY <1>3, <2>1, <3>1
    <3> QED BY <3>1, <3>2
  <2>2. ASSUME NEW j \in 2 .. i + 1, q[j] = "WatcherCame",
               \A k \in j .. i + 1 : q[k] # "WatcherGone"
        PROVE  \E l \in 1 .. i : r[l] = "WatcherCame" /\ \A k \in l .. i : r[k] # "WatcherGone"
    <3>1. j - 1 \in 1 .. i /\ r[j - 1] = "WatcherCame"
      BY <1>2, <2>2
    <3>2. \A k \in j - 1 .. i : r[k] # "WatcherGone"
      BY <1>3, <2>2
    <3> QED BY <3>1, <3>2
  <2>3. q[1] = "WatcherCame" => q[1] # "WatcherGone"
    OBVIOUS
  <2> QED BY <1>2, <1>4, <2>1, <2>2, <2>3
<1>6. CASE q[1] = "WatcherCame"
  BY <1>1, <1>4, <1>5, <1>6 DEF SaysThere
<1>7. CASE q[1] = "WatcherGone"
  BY <1>1, <1>4, <1>5, <1>7 DEF SaysThere
<1>8. CASE q[1] \notin {"WatcherCame", "WatcherGone"}
  BY <1>1, <1>4, <1>5, <1>8 DEF SaysThere
<1> QED BY <1>6, <1>7, <1>8

LEMMA NewsAppend ==
    ASSUME NEW item, NEW w, NEW x, NEW q \in Seq(Message), NEW m \in Message,
           NewsTrue(item, w, q), NEW r, r = Append(q, m),
           item.loaded = TRUE =>
              /\ m = "WatcherCame" => x = TRUE
              /\ m = "WatcherGone" => x = FALSE
              /\ m \notin {"WatcherCame", "WatcherGone"} => x = w
              /\ m = "Registered" => w = TRUE,
           w \in BOOLEAN
    PROVE  NewsTrue(item, x, r)
<1> SUFFICES ASSUME item.loaded = TRUE PROVE NewsTrue(item, x, r)
  BY DEF NewsTrue
<1> DEFINE a == item.available
<1>1. /\ Len(r) = Len(q) + 1 /\ r[Len(r)] = m /\ Len(q) \in Nat
      /\ \A i \in 1 .. Len(q) : r[i] = q[i]
  BY AppendFacts
<1>2. /\ \A i \in 0 .. Len(q) : SaysThere(r, i, a) <=> SaysThere(q, i, a)
      /\ m = "WatcherCame" => SaysThere(r, Len(r), a)
      /\ m = "WatcherGone" => ~ SaysThere(r, Len(r), a)
      /\ m \notin {"WatcherCame", "WatcherGone"}
            => (SaysThere(r, Len(r), a) <=> SaysThere(q, Len(q), a))
  BY SaysAppend
<1> HIDE DEF a
<1>3. /\ w <=> SaysThere(q, Len(q), a)
      /\ \A i \in 1 .. Len(q) : q[i] = "Registered" => SaysThere(q, i, a)
  BY DEF NewsTrue, a
<1>4. x <=> SaysThere(r, Len(r), a)
  BY <1>2, <1>3
<1>5. ASSUME NEW i \in 1 .. Len(r), r[i] = "Registered" PROVE SaysThere(r, i, a)
  <2>1. CASE i \in 1 .. Len(q)
    BY <1>1, <1>2, <1>3, <1>5, <2>1
  <2>2. CASE i = Len(r)
    BY <1>1, <1>2, <1>3, <1>5, <2>2
  <2> QED BY <1>1, <2>1, <2>2
<1> QED BY <1>4, <1>5 DEF NewsTrue, a

LEMMA NewsTail ==
    ASSUME NEW item, NEW old, NEW w, NEW q \in Seq(Message), q # <<>>,
           NewsTrue(old, w, q), NEW r, r = Tail(q), item.loaded = old.loaded,
           Head(q) = "WatcherCame" => item.available = TRUE,
           Head(q) = "WatcherGone" => item.available = FALSE,
           Head(q) \notin {"WatcherCame", "WatcherGone"} => item.available = old.available
    PROVE  NewsTrue(item, w, r)
<1> SUFFICES ASSUME item.loaded = TRUE PROVE NewsTrue(item, w, r)
  BY DEF NewsTrue
<1> DEFINE a == old.available
           b == item.available
<1>1. /\ Len(q) = Len(r) + 1 /\ Len(r) \in Nat
      /\ \A i \in 1 .. Len(r) : r[i] = q[i + 1]
  BY TailFacts
<1>2. \A i \in 0 .. Len(r) : SaysThere(r, i, b) <=> SaysThere(q, i + 1, a)
  BY SaysTail
<1>3. /\ w <=> SaysThere(q, Len(q), a)
      /\ \A i \in 1 .. Len(q) : q[i] = "Registered" => SaysThere(q, i, a)
  BY DEF NewsTrue
<1> HIDE DEF a, b
<1>4. w <=> SaysThere(r, Len(r), b)
  BY <1>1, <1>2, <1>3
<1>5. ASSUME NEW i \in 1 .. Len(r), r[i] = "Registered" PROVE SaysThere(r, i, b)
  <2>1. i \in 0 .. Len(r) /\ i + 1 \in 1 .. Len(q) /\ q[i + 1] = "Registered"
    BY <1>1, <1>5
  <2> QED BY <1>2, <1>3, <2>1
<1> QED BY <1>4, <1>5 DEF NewsTrue, b

LEMMA AnsweringKeeps ==
    ASSUME NEW s, NEW t, NEW q, Answered(s, q), Answering(s, t), s.item.available \in BOOLEAN
    PROVE  Answered(t, q)
BY DEF Answered, Answering

LEMMA AnsweredAppend ==
    ASSUME NEW s, NEW q \in Seq(Message), NEW m \in Message, m # "WatcherGone",
           Answered(s, q), NEW r, r = Append(q, m)
    PROVE  Answered(s, r)
<1>1. /\ Len(r) = Len(q) + 1 /\ r[Len(r)] = m /\ Len(q) \in Nat
      /\ \A i \in 1 .. Len(q) : r[i] = q[i] /\ i \in 1 .. Len(r)
      /\ \A i \in 1 .. Len(r) : i \in 1 .. Len(q) \/ i = Len(r)
  BY AppendFacts
<1>2. LossAhead(q) => LossAhead(r)
  BY <1>1 DEF LossAhead
<1>3. NoLoss(q) => NoLoss(r)
  BY <1>1 DEF NoLoss
<1>4. ASSUME NEW i \in 1 .. Len(q), q[i] = "Registered",
             \A k \in i .. Len(q) : q[k] # "WatcherGone"
      PROVE  AnswerAhead(r)
  <2>1. \A k \in i .. Len(r) : k \in i .. Len(q) \/ k = Len(r)
    BY <1>1
  <2>2. \A k \in i .. Len(q) : r[k] = q[k]
    BY <1>1
  <2>3. \A k \in i .. Len(r) : r[k] # "WatcherGone"
    BY <1>1, <1>4, <2>1, <2>2
  <2> QED BY <1>1, <1>4, <2>3 DEF AnswerAhead
<1>5. AnswerAhead(q) => AnswerAhead(r)
  BY <1>4 DEF AnswerAhead
<1> QED BY <1>2, <1>3, <1>5 DEF Answered

(* A message is read.                                                      *)
LEMMA ReadFacts ==
    ASSUME NEW q \in Seq(Message), q # <<>>, NEW r, r = Tail(q)
    PROVE  /\ Head(q) # "WatcherGone" /\ LossAhead(q) => LossAhead(r)
           /\ NoLoss(q) => Head(q) # "WatcherGone" /\ NoLoss(r)
           /\ AnswerAhead(q) => (Head(q) = "Registered" /\ NoLoss(r)) \/ AnswerAhead(r)
<1>1. /\ Len(q) = Len(r) + 1 /\ Len(r) \in Nat
      /\ \A i \in 1 .. Len(r) : r[i] = q[i + 1] /\ i + 1 \in 1 .. Len(q)
      /\ \A i \in 2 .. Len(q) : i - 1 \in 1 .. Len(r) /\ r[i - 1] = q[i]
      /\ \A i \in 1 .. Len(q) : i = 1 \/ i \in 2 .. Len(q)
      /\ 1 \in 1 .. Len(q)
  BY TailFacts
<1>a. Head(q) = q[1]
  OBVIOUS
<1>2. ASSUME Head(q) # "WatcherGone", LossAhead(q) PROVE LossAhead(r)
  <2>1. PICK i \in 1 .. Len(q) : q[i] = "WatcherGone"
    BY <1>2 DEF LossAhead
  <2>2. i \in 2 .. Len(q)
    BY <1>1, <1>a, <1>2, <2>1
  <2> DEFINE j == i - 1
  <2>3. j \in 1 .. Len(r) /\ r[j] = q[i]
    BY <1>1, <2>2
  <2> HIDE DEF j
  <2> QED BY <2>1, <2>3 DEF LossAhead
<1>3. NoLoss(q) => Head(q) # "WatcherGone" /\ NoLoss(r)
  BY <1>1, <1>a DEF NoLoss
<1>4. ASSUME NEW i \in 1 .. Len(q), q[i] = "Registered",
             \A k \in i .. Len(q) : q[k] # "WatcherGone"
      PROVE  (Head(q) = "Registered" /\ NoLoss(r)) \/ AnswerAhead(r)
  <2>1. CASE i = 1
    BY <1>3, <1>4, <1>a, <2>1 DEF NoLoss
  <2>2. CASE i \in 2 .. Len(q)
    <3>1. i - 1 \in 1 .. Len(r) /\ r[i - 1] = "Registered"
      BY <1>1, <1>4, <2>2
    <3>2. \A k \in i - 1 .. Len(r) : k + 1 \in i .. Len(q) /\ r[k] = q[k + 1]
      BY <1>1, <2>2
    <3>3. \A k \in i - 1 .. Len(r) : r[k] # "WatcherGone"
      BY <1>4, <3>2
    <3> QED BY <3>1, <3>3 DEF AnswerAhead
  <2> QED BY <1>1, <2>1, <2>2
<1>5. AnswerAhead(q) => (Head(q) = "Registered" /\ NoLoss(r)) \/ AnswerAhead(r)
  BY <1>4 DEF AnswerAhead
<1> QED BY <1>2, <1>3, <1>5

LEMMA AnsweredRead ==
    ASSUME NEW s, NEW t, NEW q \in Seq(Message), q # <<>>, Answered(s, q),
           NEW r, r = Tail(q),
           s.item.available \in BOOLEAN,
           t.item.callback = s.item.callback, t.item.registered = s.item.registered,
           t.item.replaced = s.item.replaced,
           \/ /\ Head(q) = "WatcherCame" /\ t.item.available = TRUE /\ t.classic = s.classic
              /\ Took(s) => Took(t)
              /\ s.item.available = FALSE /\ s.item.callback = TRUE => Took(t)
           \/ /\ Head(q) = "WatcherGone" /\ t.item.available = FALSE
           \/ /\ Head(q) = "Registered" /\ t.item = s.item
              /\ s.item.callback = TRUE => t.classic.notificationItemAvailable = TRUE
           \/ /\ Head(q) \notin {"WatcherCame", "WatcherGone", "Registered"}
              /\ t.item = s.item /\ t.classic = s.classic
    PROVE  Answered(t, r)
<1>1. /\ Head(q) # "WatcherGone" /\ LossAhead(q) => LossAhead(r)
      /\ NoLoss(q) => Head(q) # "WatcherGone" /\ NoLoss(r)
      /\ AnswerAhead(q) => (Head(q) = "Registered" /\ NoLoss(r)) \/ AnswerAhead(r)
  BY ReadFacts
<1>2. t.item = s.item => (Took(s) => Took(t))
  BY DEF Took
<1> QED BY <1>1, <1>2 DEF Answered

-----------------------------------------------------------------------------
(* What the X server has said.                                             *)
EndAhead(xe, d) == \E i \in 1 .. Len(xe) : xe[i].type = "Destroyed" /\ xe[i].dock = d

StartAhead(xe, d) == \E i \in 1 .. Len(xe) : xe[i].type = "Manager" /\ xe[i].dock = d

(* A dock whose start is told and that is no more is told to have ended.    *)
EndsTold(xe, d) ==
    \A i \in 1 .. Len(xe) :
        xe[i].type = "Manager" /\ xe[i].dock # d =>
            \E k \in i .. Len(xe) : xe[k].type = "Destroyed" /\ xe[k].dock = xe[i].dock

(* Whoever has another dock than the one there is will be told.             *)
DocksTold(s, d, xe) ==
    /\ EndsTold(xe, d)
    /\ ClassicLoaded(s) =>
          /\ s.classic.dockWindow \notin {NoDock, d} => EndAhead(xe, s.classic.dockWindow)
          /\ s.classic.dockWindow = NoDock /\ d # NoDock => StartAhead(xe, d)

LEMMA DockedTold ==
    ASSUME NEW s, NEW t, NEW d, NEW xe, DocksTold(s, d, xe), Docked(s, t, d)
    PROVE  DocksTold(t, d, xe)
BY DEF DocksTold, Docked

LEMMA EventAppend ==
    ASSUME NEW xe \in Seq(XEvent), NEW e \in XEvent, NEW r, r = Append(xe, e)
    PROVE  /\ \A w : EndAhead(xe, w) => EndAhead(r, w)
           /\ \A w : StartAhead(xe, w) => StartAhead(r, w)
           /\ e.type = "Destroyed" => EndAhead(r, e.dock)
           /\ e.type = "Manager" => StartAhead(r, e.dock)
           /\ \A d : EndsTold(xe, d) /\ e.type # "Manager" => EndsTold(r, d)
           /\ e.type = "Manager" /\ EndsTold(xe, NoDock) /\ NoDock \notin Dock
                 => EndsTold(r, e.dock)
           /\ \A d : EndsTold(xe, d) /\ e.type = "Destroyed" /\ e.dock = d
                        => EndsTold(r, NoDock)
<1>1. /\ r \in Seq(XEvent) /\ Len(r) = Len(xe) + 1 /\ r[Len(r)] = e /\ Len(xe) \in Nat
      /\ \A i \in 1 .. Len(xe) : r[i] = xe[i] /\ i \in 1 .. Len(r)
      /\ \A i \in 1 .. Len(r) : i \in 1 .. Len(xe) \/ i = Len(r)
      /\ Len(r) \in 1 .. Len(r)
  <2>1. /\ r \in Seq(XEvent) /\ Len(r) = Len(xe) + 1 /\ r[Len(r)] = e /\ Len(xe) \in Nat
        /\ \A i \in 1 .. Len(xe) : r[i] = xe[i]
    BY AppendFacts
  <2> QED BY <2>1
<1>2. \A i \in 1 .. Len(xe) : /\ \A k \in i .. Len(xe) : k \in i .. Len(r) /\ r[k] = xe[k]
                              /\ Len(r) \in i .. Len(r)
                              /\ xe[i].dock \in Dock
  <2> TAKE i \in 1 .. Len(xe)
  <2>0. \A x \in XEvent : x.dock \in Dock
    BY DEF XEvent
  <2>1. xe[i].dock \in Dock
    BY <2>0
  <2> QED BY <1>1, <2>1
<1>3. /\ \A w : EndAhead(xe, w) => EndAhead(r, w)
      /\ \A w : StartAhead(xe, w) => StartAhead(r, w)
      /\ e.type = "Destroyed" => EndAhead(r, e.dock)
      /\ e.type = "Manager" => StartAhead(r, e.dock)
  BY <1>1 DEF EndAhead, StartAhead
<1>4. ASSUME NEW d, EndsTold(xe, d), NEW i \in 1 .. Len(xe), r[i].type = "Manager",
             r[i].dock # d
      PROVE  \E k \in i .. Len(r) : r[k].type = "Destroyed" /\ r[k].dock = r[i].dock
  <2>1. PICK k \in i .. Len(xe) : xe[k].type = "Destroyed" /\ xe[k].dock = xe[i].dock
    BY <1>1, <1>4 DEF EndsTold
  <2> QED BY <1>1, <1>2, <2>1
<1>5. ASSUME NEW d, EndsTold(xe, d), e.type # "Manager" PROVE EndsTold(r, d)
  BY <1>1, <1>4, <1>5 DEF EndsTold
<1>6. ASSUME e.type = "Manager", EndsTold(xe, NoDock), NoDock \notin Dock
      PROVE  EndsTold(r, e.dock)
  <2> SUFFICES ASSUME NEW i \in 1 .. Len(r), r[i].type = "Manager", r[i].dock # e.dock
               PROVE  \E k \in i .. Len(r) : r[k].type = "Destroyed" /\ r[k].dock = r[i].dock
    BY DEF EndsTold
  <2>1. i \in 1 .. Len(xe)
    BY <1>1
  <2>2. r[i].dock # NoDock
    BY <1>1, <1>2, <1>6, <2>1
  <2> DEFINE n == NoDock
  <2>3. EndsTold(xe, n) /\ r[i].type = "Manager" /\ r[i].dock # n
    BY <1>6, <2>2
  <2> HIDE DEF n
  <2> QED BY <1>4, <2>1, <2>3
<1>7. ASSUME NEW d, EndsTold(xe, d), e.type = "Destroyed", e.dock = d
      PROVE  EndsTold(r, NoDock)
  <2> SUFFICES ASSUME NEW i \in 1 .. Len(r), r[i].type = "Manager"
               PROVE  \E k \in i .. Len(r) : r[k].type = "Destroyed" /\ r[k].dock = r[i].dock
    BY DEF EndsTold
  <2>1. i \in 1 .. Len(xe)
    BY <1>1, <1>7
  <2>2. CASE r[i].dock = d
    BY <1>1, <1>2, <1>7, <2>1, <2>2
  <2>3. CASE r[i].dock # d
    BY <1>4, <1>7, <2>1, <2>3
  <2> QED BY <2>2, <2>3
<1> QED BY <1>3, <1>5, <1>6, <1>7

LEMMA EventRead ==
    ASSUME NEW xe \in Seq(XEvent), xe # <<>>, NEW r, r = Tail(xe), NEW d, EndsTold(xe, d)
    PROVE  LET e == Head(xe)
           IN  /\ EndsTold(r, d)
               /\ \A w : EndAhead(xe, w) /\ ~ (e.type = "Destroyed" /\ e.dock = w)
                            => EndAhead(r, w)
               /\ \A w : StartAhead(xe, w) /\ ~ (e.type = "Manager" /\ e.dock = w)
                            => StartAhead(r, w)
               /\ e.type = "Manager" /\ e.dock # d => EndAhead(r, e.dock)
<1> DEFINE e == Head(xe)
<1>1. /\ Len(xe) = Len(r) + 1 /\ Len(r) \in Nat
      /\ \A i \in 1 .. Len(r) : r[i] = xe[i + 1] /\ i + 1 \in 1 .. Len(xe)
      /\ \A i \in 2 .. Len(xe) : i - 1 \in 1 .. Len(r) /\ r[i - 1] = xe[i]
      /\ \A i \in 1 .. Len(xe) : i = 1 \/ i \in 2 .. Len(xe)
      /\ 1 \in 1 .. Len(xe)
  BY TailFacts
<1>2. e = xe[1]
  OBVIOUS
<1> HIDE DEF e
<1>3. ASSUME NEW w, EndAhead(xe, w), ~ (e.type = "Destroyed" /\ e.dock = w)
      PROVE  EndAhead(r, w)
  <2>1. PICK i \in 1 .. Len(xe) : xe[i].type = "Destroyed" /\ xe[i].dock = w
    BY <1>3 DEF EndAhead
  <2>2. i \in 2 .. Len(xe)
    BY <1>1, <1>2, <1>3, <2>1
  <2> DEFINE j == i - 1
  <2>3. j \in 1 .. Len(r) /\ r[j] = xe[i]
    BY <1>1, <2>2
  <2> HIDE DEF j
  <2> QED BY <2>1, <2>3 DEF EndAhead
<1>4. ASSUME NEW w, StartAhead(xe, w), ~ (e.type = "Manager" /\ e.dock = w)
      PROVE  StartAhead(r, w)
  <2>1. PICK i \in 1 .. Len(xe) : xe[i].type = "Manager" /\ xe[i].dock = w
    BY <1>4 DEF StartAhead
  <2>2. i \in 2 .. Len(xe)
    BY <1>1, <1>2, <1>4, <2>1
  <2> DEFINE j == i - 1
  <2>3. j \in 1 .. Len(r) /\ r[j] = xe[i]
    BY <1>1, <2>2
  <2> HIDE DEF j
  <2> QED BY <2>1, <2>3 DEF StartAhead
<1>5. ASSUME e.type = "Manager", e.dock # d PROVE EndAhead(r, e.dock)
  <2>1. PICK k \in 1 .. Len(xe) : xe[k].type = "Destroyed" /\ xe[k].dock = e.dock
    BY <1>1, <1>2, <1>5 DEF EndsTold
  <2>2. k \in 2 .. Len(xe)
    BY <1>1, <1>2, <1>5, <2>1
  <2> DEFINE j == k - 1
  <2>3. j \in 1 .. Len(r) /\ r[j] = xe[k]
    BY <1>1, <2>2
  <2> HIDE DEF j
  <2> QED BY <2>1, <2>3 DEF EndAhead
<1>6. ASSUME NEW i \in 1 .. Len(r), r[i].type = "Manager", r[i].dock # d
      PROVE  \E k \in i .. Len(r) : r[k].type = "Destroyed" /\ r[k].dock = r[i].dock
  <2> DEFINE j == i + 1
  <2>a. j \in 1 .. Len(xe) /\ r[i] = xe[j]
    BY <1>1
  <2>b. j \in Int
    OBVIOUS
  <2> HIDE DEF j
  <2>1. PICK k \in j .. Len(xe) : xe[k].type = "Destroyed" /\ xe[k].dock = r[i].dock
    BY <1>6, <2>a DEF EndsTold
  <2>c. k \in i + 1 .. Len(xe)
    BY <2>1 DEF j
  <2>2. k - 1 \in i .. Len(r) /\ k \in 2 .. Len(xe)
    BY <1>1, <2>c
  <2> QED BY <1>1, <2>1, <2>2
<1>7. EndsTold(r, d)
  BY <1>6 DEF EndsTold
<1> QED BY <1>3, <1>4, <1>5, <1>7 DEF e

-----------------------------------------------------------------------------
(* All together, for the steps of the others and those of the process.      *)
RInv ==
    /\ AtRest(process)
    /\ NewsTrue(process.item, watcher, queue)
    /\ Answered(process, queue)
    /\ DocksTold(process, dock, xevents)

LEMMA NewsSame ==
    ASSUME NEW item, NEW old, NEW w, NEW q, NewsTrue(old, w, q),
           item.loaded = old.loaded, item.available = old.available
    PROVE  NewsTrue(item, w, q)
BY DEF NewsTrue

LEMMA DocksSame ==
    ASSUME NEW s, NEW t, NEW d, NEW xe, DocksTold(s, d, xe), t.addon = s.addon,
           t.classic.dockWindow = s.classic.dockWindow
    PROVE  DocksTold(t, d, xe)
BY DEF DocksTold, ClassicLoaded

(* What others change of the item.                                         *)
LEMMA ItemRest ==
    ASSUME NEW s, NEW t, AtRest(s), t.classic = s.classic, t.addon = s.addon,
           t.item.loaded = s.item.loaded, t.item.callback = s.item.callback,
           t.item.available = s.item.available,
           s.item.callback = FALSE => t.item.registered = FALSE /\ ~ Took(t)
    PROVE  AtRest(t)
BY DEF AtRest, Calm, ClassicLoaded, Asked, Truthful, Placed, Shown

(* What others change of the tray: the X server tells less.                 *)
LEMMA SelectedRest ==
    ASSUME NEW s \in Process, AtRest(s), NEW D \in SUBSET s.classic.selected
    PROVE  LET t == [s EXCEPT !.classic.selected = D]
           IN  /\ AtRest(t) /\ Answering(s, t) /\ t.addon = s.addon
               /\ t.classic.dockWindow = s.classic.dockWindow
<1> DEFINE t == [s EXCEPT !.classic.selected = D]
<1>1. /\ t.item = s.item /\ t.addon = s.addon
      /\ t.classic = [s.classic EXCEPT !.selected = D] /\ s.classic \in Classic
      /\ s.item.available \in BOOLEAN
  BY DEF Process, Item
<1> HIDE DEF t
<1>2. /\ t.classic.dockWindow = s.classic.dockWindow /\ t.classic.window = s.classic.window
      /\ t.classic.notificationItemAvailable = s.classic.notificationItemAvailable
      /\ t.classic.isSuspend = s.classic.isSuspend
      /\ t.classic.trayTimeout = s.classic.trayTimeout
      /\ t.classic.waitDelayed = s.classic.waitDelayed /\ t.classic.selected = D
  BY <1>1 DEF Classic
<1>3. s.classic.selected = {} => D = {}
  OBVIOUS
<1>4. AtRest(t)
  BY <1>1, <1>2, <1>3
     DEF AtRest, Calm, Took, ClassicLoaded, Asked, Truthful, Placed, Shown
<1>5. Answering(s, t)
  BY <1>1, <1>2, AnsweringSame
<1> QED BY <1>1, <1>2, <1>4, <1>5 DEF t

LEMMA InitRInv == Init => RInv
<1> SUFFICES ASSUME Init PROVE RInv
  OBVIOUS
<1>1. PICK addon \in [UI -> {"loaded", "failed", "disabled"}], item \in BOOLEAN :
          process = UILoaded(addon, item, dock)
  BY DEF Init
<1>2. /\ process.classic = Created(dock) /\ process.item.loaded = item
      /\ process.item.callback = FALSE /\ process.item.available = FALSE
      /\ process.item.calls = <<>> /\ process.item.registered = FALSE
  BY <1>1 DEF UILoaded
<1>3. /\ process.classic.selected = {} /\ process.classic.trayTimeout = FALSE
      /\ process.classic.waitDelayed = TRUE /\ process.classic.window = NoDock
      /\ process.classic.dockWindow = dock
      /\ process.classic.notificationItemAvailable = FALSE
  BY <1>2 DEF Created
<1>4. AtRest(process)
  <2>1. ~ Took(process)
    BY <1>2 DEF Took
  <2> QED BY <1>2, <1>3, <2>1
             DEF AtRest, Calm, ClassicLoaded, Asked, Truthful, Placed, Shown
<1>5. NewsTrue(process.item, watcher, queue)
  <2> SUFFICES ASSUME item = TRUE PROVE NewsTrue(process.item, watcher, queue)
    BY <1>2 DEF NewsTrue
  <2> DEFINE m == IF watcher THEN "WatcherCame" ELSE "WatcherGone"
  <2>1. \/ queue = <<m>>
        \/ Len(queue) = 2 /\ queue[1] = m /\ queue[2] = "PanelGone"
    <3>1. queue = <<m>> \o (IF HearPanel /\ ~panel THEN <<"PanelGone">> ELSE <<>>)
      BY <1>2 DEF Init, HearWatcher
    <3> HIDE DEF m
    <3>2. <<m>> \o <<>> = <<m>>
      OBVIOUS
    <3>3. Len(<<m>> \o <<"PanelGone">>) = 2
      OBVIOUS
    <3>4. (<<m>> \o <<"PanelGone">>)[1] = m
      OBVIOUS
    <3>5. (<<m>> \o <<"PanelGone">>)[2] = "PanelGone"
      OBVIOUS
    <3> QED BY <3>1, <3>2, <3>3, <3>4, <3>5
  <2>2. watcher \in BOOLEAN
    BY DEF Init
  <2>3. CASE queue = <<m>>
    <3>1. Len(queue) = 1 /\ queue[1] = m /\ 1 \in 1 .. 1 /\ \A i \in 1 .. 1 : i = 1
      BY <2>3
    <3>2. watcher <=> SaysThere(queue, 1, FALSE)
      BY <2>2, <3>1 DEF SaysThere
    <3> QED BY <1>2, <3>1, <3>2 DEF NewsTrue
  <2>4. CASE Len(queue) = 2 /\ queue[1] = m /\ queue[2] = "PanelGone"
    <3>1. /\ Len(queue) = 2 /\ queue[1] = m /\ queue[2] = "PanelGone"
          /\ 1 \in 1 .. 2 /\ \A i \in 1 .. 2 : i = 1 \/ i = 2
      BY <2>4
    <3>2. watcher <=> SaysThere(queue, 2, FALSE)
      <4>1. \A i \in 1 .. 2 : \A k \in i .. 2 : k \in 1 .. 2
        OBVIOUS
      <4>2. ASSUME watcher = TRUE PROVE \A k \in 1 .. 2 : queue[k] # "WatcherGone"
        BY <3>1, <4>2
      <4> QED BY <2>2, <3>1, <4>1, <4>2 DEF SaysThere
    <3> QED BY <1>2, <3>1, <3>2 DEF NewsTrue
  <2> QED BY <2>1, <2>3, <2>4
<1>6. Answered(process, queue)
  BY <1>2 DEF Answered
<1>7. DocksTold(process, dock, xevents)
  <2>1. xevents = <<>> /\ Len(xevents) = 0 /\ 1 .. 0 = {}
    BY DEF Init
  <2> QED BY <1>3, <2>1 DEF DocksTold, EndsTold
<1> QED BY <1>4, <1>5, <1>6, <1>7 DEF RInv

(* A message of the panel, or one for a module that is not loaded.          *)
LEMMA PanelSays ==
    ASSUME FailsCalls = FALSE, IInv, RInv, NEW h \in BOOLEAN, NEW m \in Message,
           m \in {"PanelCreated", "PanelGone"}, Tell(h, m), UNCHANGED <<process, watcher>>
    PROVE  NewsTrue(process'.item, watcher', queue') /\ Answered(process', queue')
<1>1. queue \in Seq(Message) /\ watcher \in BOOLEAN
  BY DEF IInv
<1>2. CASE h = TRUE
  <2>1. queue' = Append(queue, m)
    BY <1>2 DEF Tell
  <2>2. NewsTrue(process.item, watcher, queue') /\ Answered(process, queue')
    BY <1>1, <2>1, NewsAppend, AnsweredAppend DEF RInv
  <2> QED BY <2>2
<1>3. CASE h = FALSE
  BY <1>3 DEF Tell, RInv
<1> QED BY <1>2, <1>3

LEMMA WatcherStartsRInv ==
    ASSUME IInv, RInv, WatcherStarts
    PROVE  RInv'
<1>1. /\ queue \in Seq(Message) /\ watcher = FALSE /\ watcher' = TRUE
      /\ process.item.loaded \in BOOLEAN
  BY DEF IInv, WatcherStarts, Good, Sane, Process, Item
<1>2. CASE process.item.loaded = TRUE
  <2>1. queue' = Append(queue, "WatcherCame") /\ "WatcherCame" \in Message
    BY <1>2 DEF WatcherStarts, Tell, HearWatcher, Message
  <2>2. NewsTrue(process.item, TRUE, queue') /\ Answered(process, queue')
    BY <1>1, <2>1, NewsAppend, AnsweredAppend DEF RInv
  <2> QED BY <1>1, <2>2 DEF RInv, WatcherStarts
<1>3. CASE process.item.loaded = FALSE
  BY <1>3 DEF RInv, WatcherStarts, NewsTrue, Tell, HearWatcher
<1> QED BY <1>1, <1>2, <1>3

LEMMA WatcherEndsRInv ==
    ASSUME FailsCalls = FALSE, IInv, RInv, WatcherEnds
    PROVE  RInv'
<1> DEFINE s == process
           t == [s EXCEPT !.item.registered = FALSE, !.item.replaced = FALSE]
<1>1. /\ queue \in Seq(Message) /\ watcher = TRUE /\ watcher' = FALSE /\ s \in Process
      /\ s.item \in Item /\ s.item.loaded \in BOOLEAN /\ s.item.calls = <<>>
      /\ process' = t /\ dock' = dock /\ xevents' = xevents
  BY DEF IInv, WatcherEnds, Good, Sane, Process, Item
<1>2. /\ t.classic = s.classic /\ t.addon = s.addon
      /\ t.item = [s.item EXCEPT !.registered = FALSE, !.replaced = FALSE]
  BY <1>1 DEF Process
<1> HIDE DEF t
<1>3. /\ t.item.loaded = s.item.loaded /\ t.item.callback = s.item.callback
      /\ t.item.available = s.item.available /\ t.item.registered = FALSE
      /\ t.item.calls = <<>>
  BY <1>1, <1>2 DEF Item
<1>4. AtRest(t) /\ DocksTold(t, dock, xevents)
  <2>1. ~ Took(t)
    BY <1>3 DEF Took
  <2> QED BY <1>2, <1>3, <2>1, ItemRest, DocksSame DEF RInv
<1>5. CASE s.item.loaded = TRUE
  <2>1. queue' = Append(queue, "WatcherGone") /\ "WatcherGone" \in Message
    BY <1>5 DEF WatcherEnds, Tell, HearWatcher, Message
  <2>2. NewsTrue(s.item, FALSE, queue')
    BY <1>1, <2>1, NewsAppend DEF RInv
  <2>3. NewsTrue(t.item, FALSE, queue')
    BY <1>3, <2>2, NewsSame
  <2>4. LossAhead(queue')
    <3>1. queue'[Len(queue')] = "WatcherGone" /\ Len(queue') = Len(queue) + 1 /\ Len(queue) \in Nat
      BY <1>1, <2>1, AppendFacts
    <3>2. Len(queue') \in 1 .. Len(queue')
      BY <3>1
    <3> QED BY <3>1, <3>2 DEF LossAhead
  <2>5. Answered(t, queue')
    BY <1>3, <2>4 DEF Answered
  <2> QED BY <1>1, <1>4, <2>3, <2>5 DEF RInv
<1>6. CASE s.item.loaded = FALSE
  <2>1. t.item.callback = FALSE
    BY <1>1, <1>3, <1>6 DEF RInv, AtRest, Calm
  <2>2. NewsTrue(t.item, FALSE, queue') /\ Answered(t, queue')
    BY <1>3, <1>6, <2>1 DEF NewsTrue, Answered
  <2> QED BY <1>1, <1>4, <2>2 DEF RInv
<1> QED BY <1>1, <1>5, <1>6

(* The process goes on as before, and what it had is replaced.              *)
LEMMA WatcherReplacedRInv ==
    ASSUME IInv, RInv, WatcherReplaced
    PROVE  RInv'
<1> DEFINE s == process
<1>1. PICK delivered \in BOOLEAN :
         process' = [s EXCEPT !.item = Forgotten(s.item, delivered)]
  BY DEF WatcherReplaced
<1>2. /\ queue \in Seq(Message) /\ watcher = TRUE /\ watcher' = watcher /\ dock' = dock
      /\ xevents' = xevents /\ s \in Process /\ s.item \in Item
      /\ s.item.loaded \in BOOLEAN
  BY DEF IInv, WatcherReplaced, environment, Good, Sane, Process, Item
<1> DEFINE i == Forgotten(s.item, delivered)
           t == process'
<1>3. /\ i \in Item /\ i.loaded = s.item.loaded /\ i.callback = s.item.callback
      /\ i.available = s.item.available /\ i.registered = FALSE
      /\ i.replaced = (\/ s.item.replaced \/ s.item.registered
                       \/ delivered /\ AsksNow(s.item))
      /\ i.calls = IF delivered THEN [k \in DOMAIN s.item.calls |-> "stale"]
                   ELSE s.item.calls
  BY <1>2, ForgottenFields
<1> HIDE DEF i
<1>4. t.classic = s.classic /\ t.addon = s.addon /\ t.item = i
  BY <1>1, <1>2 DEF Process, i
<1>5. /\ Took(s) <=> AsksNow(s.item)
      /\ Took(t) <=> AsksNow(i)
      /\ delivered = TRUE => ~ AsksNow(i)
      /\ delivered = FALSE => (AsksNow(i) <=> AsksNow(s.item))
  BY <1>3, <1>4 DEF Took, AsksNow
<1>6. AtRest(t) /\ DocksTold(t, dock, xevents)
  <2>1. s.item.callback = FALSE => t.item.registered = FALSE /\ ~ Took(t)
    BY <1>3, <1>4, <1>5 DEF RInv, AtRest, Calm
  <2> QED BY <1>3, <1>4, <2>1, ItemRest, DocksSame DEF RInv
<1>7. Answered(t, queue)
  <2>1. i.replaced \in BOOLEAN /\ s.item.replaced \in BOOLEAN /\ s.item.registered \in BOOLEAN
    BY <1>2, <1>3 DEF Item
  <2> QED BY <1>3, <1>4, <1>5, <2>1 DEF RInv, Answered
<1>8. NewsTrue(t.item, watcher, queue)
  BY <1>3, <1>4, NewsSame DEF RInv
<1>9. CASE s.item.loaded = TRUE
  <2>1. queue' = Append(queue, "WatcherCame") /\ "WatcherCame" \in Message
    BY <1>9 DEF WatcherReplaced, Tell, HearWatcher, Message
  <2>2. NewsTrue(t.item, watcher, queue') /\ Answered(t, queue')
    BY <1>2, <1>7, <1>8, <2>1, NewsAppend, AnsweredAppend
  <2> QED BY <1>2, <1>6, <2>2 DEF RInv
<1>10. CASE s.item.loaded = FALSE
  BY <1>2, <1>6, <1>7, <1>8, <1>10 DEF RInv, WatcherReplaced, Tell, HearWatcher
<1> QED BY <1>2, <1>9, <1>10

LEMMA AnswerRInv ==
    ASSUME FailsCalls = FALSE, IInv, RInv, Answer
    PROVE  RInv'
<1> DEFINE s == process
           taken == watcher /\ Head(s.item.calls) = "current"
           r == s.item.registered \/ taken
           p == s.item.replaced /\ ~ taken
           t == [s EXCEPT !.item.calls = Tail(@), !.item.registered = r, !.item.replaced = p]
<1>1. /\ queue \in Seq(Message) /\ watcher = TRUE /\ watcher' = watcher /\ s \in Process
      /\ s.item \in Item /\ s.item.callback \in BOOLEAN
      /\ s.item.calls # <<>> /\ s.item.calls \in Seq({"current", "stale"})
      /\ queue' = Append(queue, "Registered") /\ "Registered" \in Message
      /\ process' = t /\ dock' = dock /\ xevents' = xevents
  BY DEF IInv, Answer, Good, Sane, Process, Item, environment, Message
<1>2. /\ r = (s.item.registered \/ s.item.calls[1] = "current") /\ r \in BOOLEAN
      /\ s.item.replaced => p \/ r
      /\ p \in BOOLEAN
  BY <1>1
<1>a. s.item.replaced \in BOOLEAN
  BY <1>1 DEF Item
<1> HIDE DEF r, p
<1>3. /\ t.classic = s.classic /\ t.addon = s.addon
      /\ t.item = [s.item EXCEPT !.calls = Tail(@), !.registered = r, !.replaced = p]
  BY <1>1 DEF Process
<1> HIDE DEF t
<1>4. /\ t.item.loaded = s.item.loaded /\ t.item.callback = s.item.callback
      /\ t.item.available = s.item.available /\ t.item.registered = r
      /\ t.item.replaced = p /\ t.item.calls = Tail(s.item.calls)
  BY <1>1, <1>3 DEF Item
<1>5. /\ Took(s) => s.item.calls[1] = "current" \/ Took(t)
      /\ Took(t) => Took(s)
      /\ s.item.calls[1] = "current" => Took(s)
  <2> DEFINE q == s.item.calls
             rest == t.item.calls
  <2>1. rest = Tail(q) /\ q # <<>> /\ q \in Seq({"current", "stale"})
    BY <1>1, <1>4
  <2> HIDE DEF q, rest
  <2>2. /\ Len(q) = Len(rest) + 1 /\ Len(rest) \in Nat /\ rest \in Seq({"current", "stale"})
        /\ \A i \in 1 .. Len(rest) : rest[i] = q[i + 1]
        /\ \A i \in 2 .. Len(q) : i - 1 \in 1 .. Len(rest) /\ rest[i - 1] = q[i]
    BY <2>1, TailFacts
  <2>3. /\ DOMAIN q = 1 .. Len(q) /\ DOMAIN rest = 1 .. Len(rest) /\ 1 \in 1 .. Len(q)
        /\ \A i \in 1 .. Len(q) : i = 1 \/ i \in 2 .. Len(q)
        /\ \A i \in 1 .. Len(rest) : i + 1 \in 1 .. Len(q)
    BY <2>1, <2>2
  <2>4. Took(s) = \E i \in DOMAIN q : q[i] = "current"
    BY DEF Took, q
  <2>5. Took(t) = \E i \in DOMAIN rest : rest[i] = "current"
    BY DEF Took, rest
  <2>6. /\ Took(s) => q[1] = "current" \/ Took(t)
        /\ Took(t) => Took(s)
        /\ q[1] = "current" => Took(s)
    BY <2>2, <2>3, <2>4, <2>5
  <2> QED BY <2>6 DEF q
<1>6. AtRest(t) /\ DocksTold(t, dock, xevents)
  <2>1. s.item.callback = FALSE => t.item.registered = FALSE /\ ~ Took(t)
    BY <1>2, <1>4, <1>5 DEF RInv, AtRest, Calm
  <2> QED BY <1>3, <1>4, <2>1, ItemRest, DocksSame DEF RInv
<1>7. NewsTrue(t.item, watcher', queue')
  <2>1. NewsTrue(s.item, watcher, queue')
    BY <1>1, NewsAppend DEF RInv
  <2> QED BY <1>1, <1>4, <2>1, NewsSame
<1>8. LossAhead(queue) => LossAhead(queue')
  <2>1. /\ Len(queue') = Len(queue) + 1 /\ Len(queue) \in Nat
        /\ \A i \in 1 .. Len(queue) : queue'[i] = queue[i]
    BY <1>1, AppendFacts
  <2>2. \A i \in 1 .. Len(queue) : i \in 1 .. Len(queue')
    BY <2>1
  <2> QED BY <2>1, <2>2 DEF LossAhead
<1>9. AnswerAhead(queue')
  <2>1. /\ queue'[Len(queue')] = "Registered" /\ Len(queue') = Len(queue) + 1
        /\ Len(queue) \in Nat
    BY <1>1, AppendFacts
  <2>2. /\ Len(queue') \in 1 .. Len(queue')
        /\ \A k \in Len(queue') .. Len(queue') : k = Len(queue')
    BY <2>1
  <2> QED BY <2>1, <2>2 DEF AnswerAhead
<1>10. Answered(t, queue')
  BY <1>2, <1>a, <1>4, <1>5, <1>8, <1>9 DEF RInv, Answered
<1> QED BY <1>1, <1>6, <1>7, <1>10 DEF RInv

(* A step of the process that takes nothing from the bus, and one of others  *)
(* that changes only the tray.                                             *)
LEMMA QuietStep ==
    ASSUME IInv, RInv, AtRest(process'), Answering(process, process'),
           UNCHANGED <<watcher, queue>>, DocksTold(process', dock', xevents')
    PROVE  RInv'
<1>1. process.item.available \in BOOLEAN
  BY DEF IInv, Good, Sane, Process, Item
<1>2. NewsTrue(process'.item, watcher, queue)
  BY NewsSame DEF RInv, Answering
<1>3. Answered(process', queue)
  BY <1>1, AnsweringKeeps DEF RInv
<1> QED BY <1>2, <1>3 DEF RInv

LEMMA DockStartsRInv ==
    ASSUME IInv, RInv, NEW d \in Dock, DockStarts(d)
    PROVE  RInv'
<1> DEFINE e == [type |-> "Manager", dock |-> d]
<1>1. /\ process \in Process /\ xevents \in Seq(XEvent) /\ e \in XEvent
      /\ xevents' = Append(xevents, e) /\ dock = NoDock /\ dock' = d
      /\ process' = [process EXCEPT !.classic.selected = @ \ {d}]
      /\ process' = [process EXCEPT !.classic.selected = process.classic.selected \ {d}]
      /\ UNCHANGED <<watcher, queue>> /\ e.type = "Manager" /\ e.dock = d
  BY DEF IInv, Good, Sane, DockStarts, XEvent
<1>2. /\ AtRest(process') /\ Answering(process, process')
      /\ process'.addon = process.addon
      /\ process'.classic.dockWindow = process.classic.dockWindow
  <2>1. process.classic.selected \ {d} \in SUBSET process.classic.selected
    OBVIOUS
  <2> QED BY <1>1, <2>1, SelectedRest DEF RInv
<1> HIDE DEF e
<1>3. /\ \A w : EndAhead(xevents, w) => EndAhead(xevents', w)
      /\ StartAhead(xevents', d)
      /\ EndsTold(xevents, NoDock) => EndsTold(xevents', d)
  BY <1>1, EventAppend, DockAssumption
<1>4. DocksTold(process', d, xevents')
  BY <1>1, <1>2, <1>3 DEF RInv, DocksTold, ClassicLoaded
<1> QED BY <1>1, <1>2, <1>4, QuietStep

LEMMA DockEndsRInv ==
    ASSUME EndsUnseen = FALSE, IInv, RInv, DockEnds
    PROVE  RInv'
<1> DEFINE e == [type |-> "Destroyed", dock |-> dock]
<1>1. /\ process \in Process /\ xevents \in Seq(XEvent) /\ e \in XEvent
      /\ xevents' = Append(xevents, e) /\ dock' = NoDock
      /\ process' = [process EXCEPT !.classic.selected = process.classic.selected \ {dock}]
      /\ UNCHANGED <<watcher, queue>> /\ e.type = "Destroyed" /\ e.dock = dock
  BY DEF IInv, Good, Sane, DockEnds, XEvent
<1>2. /\ AtRest(process') /\ Answering(process, process')
      /\ process'.addon = process.addon
      /\ process'.classic.dockWindow = process.classic.dockWindow
  <2>1. process.classic.selected \ {dock} \in SUBSET process.classic.selected
    OBVIOUS
  <2> QED BY <1>1, <2>1, SelectedRest DEF RInv
<1> HIDE DEF e
<1>3. /\ \A w : EndAhead(xevents, w) => EndAhead(xevents', w)
      /\ EndAhead(xevents', dock)
      /\ EndsTold(xevents, dock) => EndsTold(xevents', NoDock)
  BY <1>1, EventAppend
<1>4. DocksTold(process', NoDock, xevents')
  BY <1>1, <1>2, <1>3 DEF RInv, DocksTold, ClassicLoaded
<1> QED BY <1>1, <1>2, <1>4, QuietStep

LEMMA VisualChangesRInv ==
    ASSUME IInv, RInv, VisualChanges
    PROVE  RInv'
<1> DEFINE e == [type |-> "Visual", dock |-> dock]
<1>1. /\ process \in Process /\ xevents \in Seq(XEvent) /\ e \in XEvent
      /\ xevents' = Append(xevents, e) /\ process.item.available \in BOOLEAN
      /\ UNCHANGED <<process, dock, watcher, queue>> /\ e.type = "Visual"
  BY DEF IInv, Good, Sane, VisualChanges, XEvent, Process, Classic, Item, environment
<1> HIDE DEF e
<1>2. /\ \A w : EndAhead(xevents, w) => EndAhead(xevents', w)
      /\ \A w : StartAhead(xevents, w) => StartAhead(xevents', w)
      /\ EndsTold(xevents, dock) => EndsTold(xevents', dock)
  BY <1>1, EventAppend
<1>3. DocksTold(process, dock, xevents')
  BY <1>2 DEF RInv, DocksTold
<1>4. Answering(process, process)
  BY <1>1, AnsweringSame
<1> QED BY <1>1, <1>3, <1>4, QuietStep DEF RInv

(* An event is read: what it says is done, what it does not say stays told. *)
LEMMA TrayEventRInv ==
    ASSUME IInv, RInv, TrayEventHandler
    PROVE  RInv'
<1> DEFINE s == process
           t == process'
           e == Head(xevents)
<1>1. /\ s \in Process /\ Sane(s) /\ xevents \in Seq(XEvent) /\ xevents # <<>>
      /\ xevents' = Tail(xevents) /\ UNCHANGED <<dock, watcher, queue>>
      /\ dock \in Dock \cup {NoDock} /\ s.item.available \in BOOLEAN
  BY DEF IInv, Good, Sane, TrayEventHandler, environment, Process, Item
<1>2. e \in XEvent /\ e.dock \in Dock /\ e.type \in {"Manager", "Destroyed", "Visual"}
  <2>1. \A x \in XEvent : x.dock \in Dock /\ x.type \in {"Manager", "Destroyed", "Visual"}
    BY DEF XEvent
  <2>2. e \in XEvent
    BY <1>1
  <2> QED BY <2>1, <2>2
<1>3. /\ ~ ClassicLoaded(s) => t = s
      /\ ClassicLoaded(s) =>
            /\ e.type = "Manager" => t = DockAnnounced(s, e.dock)
            /\ e.type = "Destroyed" => t = DockEnded(s, e.dock, dock)
            /\ e.type = "Visual" => t = s \/ t = ShowTray(s)
  BY DEF TrayEventHandler, ClassicLoaded, Loaded, UI
<1>4. /\ EndsTold(xevents, dock)
      /\ ClassicLoaded(s) =>
            /\ s.classic.dockWindow \notin {NoDock, dock} => EndAhead(xevents, s.classic.dockWindow)
            /\ s.classic.dockWindow = NoDock /\ dock # NoDock => StartAhead(xevents, dock)
  BY DEF RInv, DocksTold
<1> HIDE DEF e
<1>5. /\ EndsTold(xevents', dock)
      /\ \A w : EndAhead(xevents, w) /\ ~ (e.type = "Destroyed" /\ e.dock = w)
                   => EndAhead(xevents', w)
      /\ \A w : StartAhead(xevents, w) /\ ~ (e.type = "Manager" /\ e.dock = w)
                   => StartAhead(xevents', w)
      /\ e.type = "Manager" /\ e.dock # dock => EndAhead(xevents', e.dock)
  BY <1>1, <1>4, EventRead DEF e
<1>6. CASE ~ ClassicLoaded(s)
  <2>1. DocksTold(t, dock, xevents')
    BY <1>3, <1>5, <1>6 DEF DocksTold
  <2>2. AtRest(t) /\ Answering(s, t)
    BY <1>1, <1>3, <1>6, AnsweringSame DEF RInv
  <2> QED BY <1>1, <2>1, <2>2, QuietStep
<1>7. CASE ClassicLoaded(s) /\ e.type = "Manager"
  <2>1. /\ AtRest(t) /\ Answering(s, t) /\ t.addon = s.addon
        /\ t.classic.dockWindow = IF s.classic.dockWindow # NoDock
                                  THEN s.classic.dockWindow ELSE e.dock
    BY <1>1, <1>2, <1>3, <1>7, AnnouncedRest DEF RInv
  <2>2. DocksTold(t, dock, xevents')
    BY <1>4, <1>5, <1>7, <2>1 DEF DocksTold, ClassicLoaded
  <2> QED BY <1>1, <2>1, <2>2, QuietStep
<1>8. CASE ClassicLoaded(s) /\ e.type = "Destroyed"
  <2>1. /\ AtRest(t) /\ Answering(s, t) /\ t.addon = s.addon
        /\ t.classic.dockWindow = IF s.classic.dockWindow # e.dock
                                  THEN s.classic.dockWindow ELSE dock
    BY <1>1, <1>2, <1>3, <1>8, EndedRest DEF RInv
  <2>2. DocksTold(t, dock, xevents')
    BY <1>4, <1>5, <1>8, <2>1 DEF DocksTold, ClassicLoaded
  <2> QED BY <1>1, <2>1, <2>2, QuietStep
<1>9. CASE ClassicLoaded(s) /\ e.type = "Visual"
  <2>1. /\ AtRest(t) /\ Answering(s, t) /\ t.addon = s.addon
        /\ t.classic.dockWindow = s.classic.dockWindow
    <3>1. CASE t = s
      BY <1>1, <3>1, AnsweringSame DEF RInv
    <3>2. CASE t = ShowTray(s)
      BY <1>1, <1>9, <3>2, ShowRest DEF RInv, AtRest
    <3> QED BY <1>3, <1>9, <3>1, <3>2
  <2>2. DocksTold(t, dock, xevents')
    BY <1>4, <1>5, <1>9, <2>1 DEF DocksTold, ClassicLoaded
  <2> QED BY <1>1, <2>1, <2>2, QuietStep
<1> QED BY <1>2, <1>6, <1>7, <1>8, <1>9

(* A message of the panel is read: the interface changes.                   *)
LEMMA PanelReadRInv ==
    ASSUME IInv, RInv, NEW m, m \in {"PanelCreated", "PanelGone"}, Receive(m),
           AtRest(process'), Answering(process, process'), Docked(process, process', dock)
    PROVE  RInv'
<1>1. /\ queue \in Seq(Message) /\ queue # <<>> /\ Head(queue) = m
      /\ queue' = Tail(queue) /\ UNCHANGED <<watcher, dock, xevents>>
      /\ process.item.available \in BOOLEAN
  BY DEF IInv, Receive, environment, Good, Sane, Process, Item
<1>2. NewsTrue(process'.item, watcher, queue')
  <2>1. process'.item.loaded = process.item.loaded
        /\ process'.item.available = process.item.available
    BY DEF Answering
  <2> QED BY <1>1, <2>1, NewsTail DEF RInv
<1>3. Answered(process', queue')
  <2>1. Answered(process', queue) /\ process'.item.available \in BOOLEAN
    BY <1>1, AnsweringKeeps DEF RInv, Answering
  <2> QED BY <1>1, <2>1, AnsweredRead
<1>4. DocksTold(process', dock, xevents)
  BY DockedTold DEF RInv
<1> QED BY <1>1, <1>2, <1>3, <1>4 DEF RInv

LEMMA OwnerChangedRInv ==
    ASSUME IInv, RInv, OwnerChanged
    PROVE  RInv'
<1> DEFINE s == process
           t == process'
<1>1. PICK b \in BOOLEAN : /\ t = SetAvailable(s, b)
                           /\ Receive(IF b THEN "WatcherCame" ELSE "WatcherGone")
  BY DEF OwnerChanged
<1>2. /\ queue \in Seq(Message) /\ queue # <<>>
      /\ b = TRUE => Head(queue) = "WatcherCame"
      /\ b = FALSE => Head(queue) = "WatcherGone"
      /\ queue' = Tail(queue) /\ UNCHANGED <<watcher, dock, xevents>>
      /\ s.item.available \in BOOLEAN /\ Sane(s)
  BY <1>1 DEF IInv, Receive, environment, Good, Sane, Process, Item
<1>3. /\ AtRest(t) /\ t.addon = s.addon
      /\ t.classic.dockWindow = s.classic.dockWindow
      /\ t.item.loaded = s.item.loaded /\ t.item.available = b
      /\ t.item.callback = s.item.callback /\ t.item.registered = s.item.registered
      /\ t.item.replaced = s.item.replaced
      /\ b = TRUE => /\ t.classic = s.classic
                     /\ s.item.available = FALSE /\ s.item.callback = TRUE => Took(t)
                     /\ Took(s) => Took(t)
  BY <1>1, <1>2, SetAvailableRest DEF RInv
<1>4. NewsTrue(t.item, watcher, queue')
  BY <1>1, <1>2, <1>3, NewsTail DEF RInv
<1>5. Answered(t, queue')
  BY <1>1, <1>2, <1>3, AnsweredRead DEF RInv
<1>6. DocksTold(t, dock, xevents)
  BY <1>3, DocksSame DEF RInv
<1> QED BY <1>2, <1>3, <1>4, <1>5, <1>6 DEF RInv

LEMMA RegisteredRInv ==
    ASSUME IInv, RInv, Registered
    PROVE  RInv'
<1> DEFINE s == process
           t == process'
<1>1. /\ queue \in Seq(Message) /\ queue # <<>> /\ Head(queue) = "Registered"
      /\ queue' = Tail(queue) /\ UNCHANGED <<watcher, dock, xevents>>
      /\ s.item.available \in BOOLEAN /\ s.item.loaded \in BOOLEAN /\ Sane(s)
      /\ t = RegisterSuccess(s)
  BY DEF IInv, Registered, Receive, environment, Good, Sane, Process, Item
<1>2. ASSUME s.item.callback = TRUE PROVE s.item.available = TRUE
  <2>1. s.item.loaded = TRUE
    BY <1>1, <1>2 DEF RInv, AtRest, Calm
  <2>2. /\ 1 \in 1 .. Len(queue) /\ queue[1] = "Registered"
        /\ \A i \in 1 .. 1 : i = 1
    BY <1>1
  <2>3. SaysThere(queue, 1, s.item.available)
    BY <2>1, <2>2 DEF RInv, NewsTrue
  <2> QED BY <2>2, <2>3 DEF SaysThere
<1>3. /\ AtRest(t) /\ t.addon = s.addon /\ t.item = s.item
      /\ t.classic.dockWindow = s.classic.dockWindow
      /\ s.item.callback = TRUE => t.classic.notificationItemAvailable = TRUE
  BY <1>1, <1>2, SuccessRest DEF RInv
<1>4. NewsTrue(t.item, watcher, queue')
  BY <1>1, <1>3, NewsTail DEF RInv
<1>5. Answered(t, queue')
  BY <1>1, <1>3, AnsweredRead DEF RInv
<1>6. DocksTold(t, dock, xevents)
  BY <1>3, DocksSame DEF RInv
<1> QED BY <1>1, <1>3, <1>4, <1>5, <1>6 DEF RInv

LEMMA NextRInv ==
    ASSUME FailsCalls = FALSE, EndsUnseen = FALSE, IInv, RInv, [Next]_vars
    PROVE  RInv'
<1> USE UIAssumption
<1>0. /\ Good(process) /\ Sane(process) /\ AtRest(process)
      /\ dock \in Dock \cup {NoDock} /\ DocksTold(process, dock, xevents)
      /\ HearPanel \in BOOLEAN /\ {"PanelCreated", "PanelGone"} \subseteq Message
  BY DEF IInv, RInv, Good, HearPanel, Message
<1>1. CASE PanelStarts
  <2>1. Tell(HearPanel, "PanelCreated") /\ UNCHANGED <<process, watcher, dock, xevents>>
    BY <1>1 DEF PanelStarts
  <2>2. NewsTrue(process'.item, watcher', queue') /\ Answered(process', queue')
    BY <1>0, <2>1, PanelSays
  <2> QED BY <2>1, <2>2 DEF RInv
<1>2. CASE PanelEnds
  <2>1. Tell(HearPanel, "PanelGone") /\ UNCHANGED <<process, watcher, dock, xevents>>
    BY <1>2 DEF PanelEnds
  <2>2. NewsTrue(process'.item, watcher', queue') /\ Answered(process', queue')
    BY <1>0, <2>1, PanelSays
  <2> QED BY <2>1, <2>2 DEF RInv
<1>3. CASE WatcherStarts
  BY <1>3, WatcherStartsRInv
<1>4. CASE WatcherEnds
  BY <1>4, WatcherEndsRInv
<1>5. CASE Answer
  BY <1>5, AnswerRInv
<1>5a. CASE WatcherReplaced
  BY <1>5a, WatcherReplacedRInv
<1>6. CASE \E d \in Dock : DockStarts(d)
  BY <1>6, DockStartsRInv
<1>7. CASE DockEnds
  BY <1>7, DockEndsRInv
<1>8. CASE VisualChanges
  BY <1>8, VisualChangesRInv
<1>9. CASE KimpanelOwnerChanged
  <2>1. Receive("PanelGone")
    BY <1>9 DEF KimpanelOwnerChanged
  <2>2. PICK loads \in BOOLEAN : process' = SwitchToFallback(process, loads, dock)
    BY <1>9 DEF KimpanelOwnerChanged
  <2>3. AtRest(process') /\ Answering(process, process') /\ Docked(process, process', dock)
    BY <1>0, <2>2, SwitchRest
  <2> QED BY <2>1, <2>3, PanelReadRInv
<1>10. CASE PanelCreated
  <2>1. Receive("PanelCreated") /\ process' = ResumeFromFallback(process)
    BY <1>10 DEF PanelCreated
  <2>2. AtRest(process') /\ Answering(process, process') /\ Docked(process, process', dock)
    BY <1>0, <2>1, ResumeRest
  <2> QED BY <2>1, <2>2, PanelReadRInv
<1>11. CASE OwnerChanged
  BY <1>11, OwnerChangedRInv
<1>12. CASE Registered
  BY <1>12, RegisteredRInv
<1>13. CASE TrayEventHandler
  BY <1>13, TrayEventRInv
<1>14. CASE \E a \in Named : AskForUI(a)
  <2>1. PICK a \in UI : process' = ResumeFromFallbackWithUIName(process, a)
    BY <1>14 DEF AskForUI
  <2>2. AtRest(process') /\ Answering(process, process') /\ Docked(process, process', dock)
    BY <1>0, <2>1, NamedRest
  <2>3. UNCHANGED <<watcher, queue, dock, xevents>>
    BY <1>14 DEF AskForUI, environment
  <2>4. DocksTold(process', dock, xevents)
    BY <1>0, <2>2, DockedTold
  <2> QED BY <2>2, <2>3, <2>4, QuietStep
<1>15. CASE InitTimer
  <2>1. /\ ClassicLoaded(process) /\ process' = DelayedInitTray(process)
        /\ UNCHANGED <<watcher, queue, dock, xevents>>
    BY <1>15 DEF InitTimer, ClassicLoaded, Loaded, environment
  <2>2. /\ AtRest(process') /\ Answering(process, process')
        /\ process'.addon = process.addon
        /\ process'.classic.dockWindow = process.classic.dockWindow
    BY <1>0, <2>1, InitTimerRest
  <2>3. DocksTold(process', dock, xevents)
    BY <1>0, <2>2, DocksSame
  <2> QED BY <2>1, <2>2, <2>3, QuietStep
<1>16. CASE ShowTimer
  <2>1. /\ process.classic.trayTimeout /\ process' = DelayedShowTray(process)
        /\ UNCHANGED <<watcher, queue, dock, xevents>>
    BY <1>16 DEF ShowTimer, environment
  <2>2. ClassicLoaded(process)
    BY <1>0, <2>1 DEF AtRest, Calm
  <2>3. /\ AtRest(process') /\ Answering(process, process')
        /\ process'.addon = process.addon
        /\ process'.classic.dockWindow = process.classic.dockWindow
    BY <1>0, <2>1, <2>2, ShowTimerRest
  <2>4. DocksTold(process', dock, xevents)
    BY <1>0, <2>3, DocksSame
  <2> QED BY <2>1, <2>3, <2>4, QuietStep
<1>17. CASE UNCHANGED vars
  BY <1>17 DEF vars, RInv
<1> QED BY <1>1, <1>2, <1>3, <1>4, <1>5, <1>5a, <1>6, <1>7, <1>8, <1>9, <1>10, <1>11, <1>12,
           <1>13, <1>14, <1>15, <1>16, <1>17 DEF Next, Others, Handle, Timers

(* "Use System Tray Icon": with nothing left to read, to answer or to call,  *)
(* the icon is an item of the watcher there is, or else a window in the     *)
(* tray there is, whatever came and went before and in whatever order it    *)
(* was told, as long as calls are answered and the X server is asked in     *)
(* time of the end of a tray; but for a watcher that took the name from one *)
(* which had the item, as IconIsSomewhere says.                            *)
THEOREM IconEndsSomewhere ==
    ASSUME FailsCalls = FALSE, EndsUnseen = FALSE
    PROVE  Spec => []IconIsSomewhere
<1>1. IInv /\ RInv => IconIsSomewhere
  <2> SUFFICES ASSUME IInv, RInv, Quiet, InUse PROVE
         /\ watcher /\ process.item.loaded /\ ~ process.item.replaced =>
               process.item.registered /\ process.classic.notificationItemAvailable
         /\ ~(watcher /\ process.item.loaded) /\ dock # NoDock => process.classic.window = dock
    BY DEF IconIsSomewhere
  <2> DEFINE s == process
             c == process.classic
  <2>1. /\ s \in Process /\ c \in Classic /\ s.item \in Item /\ s.item.available \in BOOLEAN
        /\ s.item.loaded \in BOOLEAN /\ s.item.registered \in BOOLEAN
        /\ s.item.callback \in BOOLEAN /\ s.item.replaced \in BOOLEAN
        /\ c.isSuspend = FALSE /\ c.waitDelayed = FALSE /\ c.trayTimeout = FALSE
        /\ c.notificationItemAvailable \in BOOLEAN /\ watcher \in BOOLEAN
        /\ ClassicLoaded(s)
    BY DEF IInv, Good, Sane, Process, Classic, Item, Quiet, InUse, ClassicLoaded, Loaded
  <2>2. /\ Len(queue) = 0 /\ Len(xevents) = 0 /\ 1 .. 0 = {} /\ ~ Took(s)
    BY DEF Quiet, Took
  <2>3. s.item.loaded = TRUE => (watcher <=> s.item.available = TRUE)
    BY <2>2 DEF RInv, NewsTrue, SaysThere
  <2>4. ASSUME watcher, s.item.loaded, ~ s.item.replaced
        PROVE  s.item.registered /\ c.notificationItemAvailable
    <3>1. s.item.callback = TRUE /\ s.item.available = TRUE
      BY <2>1, <2>3, <2>4 DEF RInv, AtRest, Asked
    <3>2. ~ LossAhead(queue) /\ ~ AnswerAhead(queue)
      BY <2>2 DEF LossAhead, AnswerAhead
    <3> QED BY <2>1, <2>2, <2>4, <3>1, <3>2 DEF RInv, Answered
  <2>5. ASSUME ~(watcher /\ s.item.loaded), dock # NoDock PROVE c.window = dock
    <3>1. c.notificationItemAvailable = FALSE
      <4>1. CASE s.item.loaded = TRUE
        BY <2>1, <2>3, <2>5, <4>1 DEF RInv, AtRest, Truthful
      <4>2. CASE s.item.loaded = FALSE
        BY <2>1, <4>2 DEF RInv, AtRest, Calm, IInv, Good, Sane, OnePlace
      <4> QED BY <2>1, <4>1, <4>2
    <3>2. c.window = c.dockWindow
      BY <2>1, <3>1 DEF RInv, AtRest, Shown
    <3>3. c.dockWindow = dock
      BY <2>1, <2>2, <2>5 DEF RInv, DocksTold, EndAhead, StartAhead
    <3> QED BY <3>2, <3>3
  <2> QED BY <2>4, <2>5
<1>2. IInv /\ RInv /\ [Next]_vars => RInv'
  BY NextRInv
<1> QED BY <1>1, <1>2, InitIInv, InitRInv, NextIInv, PTL DEF Spec

=============================================================================
