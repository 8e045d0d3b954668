-------------------------- MODULE ClientConnection --------------------------
(***************************************************************************)
(* A client of fcitx: the FcitxConnection and the FcitxClient of            *)
(* fcitx-gclient in one application, which find the server, connect to its  *)
(* private bus or to the session bus, and make an input context there; and  *)
(* the server, as far as the client can see it: its names on the buses, its *)
(* private bus and the file with the address of it.                        *)
(*                                                                         *)
(* Everything of the client runs in the GLib main loop.  What it asks is    *)
(* answered later, and what it asked before may be answered after: the      *)
(* pending questions are part of its state.  `late' and `overtaken' are its *)
(* history, which the code does not keep and nothing of the client reads.   *)
(***************************************************************************)
EXTENDS Naturals, Sequences, SequencesExt, FiniteSets

CONSTANTS
    MaxStarts,     \* bound on the starts of the server
    MaxAsked,      \* bound on the connections asked for at one time
    MaxCalls,      \* bound on the calls of the client pending at one time
    Sights,        \* sets of the server's names the client may see
    InOrder        \* lost calls are answered first: see Prompt

Name  == {"main", "portal"}    \* org.fcitx.Fcitx-0, org.freedesktop.portal.Fcitx
Start == 1 .. MaxStarts
Bus   == 0                     \* the session bus; the private one is of a start
None  == MaxStarts + 1         \* no connection
NoProxy == [name |-> "none", via |-> None, server |-> 0]

ASSUME BoundsAssumption == /\ MaxStarts \in Nat \ {0} /\ MaxAsked \in Nat /\ MaxCalls \in Nat
                           /\ InOrder \in BOOLEAN
ASSUME SightsAssumption == Sights \subseteq (SUBSET Name) \ {{}}

VARIABLES
    server,        \* the server's processes and its address file
    app            \* the client's process

vars == <<server, app>>

Server ==
    [phase : {"down", "named", "opened", "written", "running"},
     start : 0 .. MaxStarts,        \* which start of the server it is
     daemons : SUBSET Start,        \* private buses that run
     file : 0 .. MaxStarts,         \* whose address it has, 0 if it has none
     private : BOOLEAN,             \* FCITX_NO_PRIVATE_DBUS is not set
     seen : SUBSET Name]            \* the names this client can see

(* A call of the client: the creation of a proxy of the input method        *)
(* object, the creation of a context, or the creation of its proxy.  A held *)
(* one is that of self->cancellable.                                       *)
Call == [stage : {"improxy", "create", "icproxy"}, name : Name,
         via : 0 .. MaxStarts, server : 0 .. MaxStarts,
         held : BOOLEAN, fails : BOOLEAN]

App ==
    [connection : 0 .. MaxStarts + 1,
     overtaken : BOOLEAN,           \* another was asked for after this connection
     watching : BOOLEAN,            \* watch_id and portal_watch_id
     status : [Name -> {"unknown", "present", "gone"}],
     news : Seq([name : Name, owned : BOOLEAN]),  \* of the watched names, to be heard
     fileNews : BOOLEAN,            \* the file monitor has a change to tell
     timers : 0 .. 2,               \* timers of 100 ms
     asked : Seq([via : 0 .. MaxStarts, late : BOOLEAN]),
                                    \* connections asked for; late: another was since
     calls : Seq(Call),
     icproxy : [name : Name, via : 0 .. MaxStarts, server : Start] \cup {NoProxy},
     is_portal : BOOLEAN]

-----------------------------------------------------------------------------
(* What the client can see of the server.                                  *)

Up(v) == v.phase # "down"

Owned(v, name, via) ==
    IF via = Bus
    THEN name \in v.seen /\ (IF name = "main" THEN Up(v) ELSE v.phase = "running")
    ELSE /\ name = "main" /\ via \in v.daemons
         /\ via = v.start /\ v.phase \in {"opened", "written", "running"}

Alive(v, via) == via = Bus \/ via \in v.daemons

(* The file is whole, and both processes it names run.                     *)
AddressValid(v) ==
    /\ v.file # 0 /\ v.file \in v.daemons
    /\ v.file = v.start /\ Up(v)
    /\ "main" \in v.seen

-----------------------------------------------------------------------------
(* The client (fcitxclient.c).                                             *)

CleanUpKeepsProxy(s) ==                          \* mutant of ClientCleanUp
    [s EXCEPT !.is_portal = FALSE,
              !.calls = [i \in DOMAIN s.calls |->
                           [s.calls[i] EXCEPT !.fails = @ \/ s.calls[i].held,
                                              !.held = FALSE]]]

ClientCleanUp(s) ==
    [s EXCEPT !.is_portal = FALSE,
              !.calls = [i \in DOMAIN s.calls |->
                           [s.calls[i] EXCEPT !.fails = @ \/ s.calls[i].held,
                                              !.held = FALSE]],
              !.icproxy = NoProxy]

Ask(s, stage, name, via, start) ==
    [s EXCEPT !.calls = Append(@, [stage |-> stage, name |-> name, via |-> via,
                                   server |-> start, held |-> TRUE, fails |-> FALSE])]

ClientCreateIC(s) == Ask(ClientCleanUp(s), "improxy", "main", s.connection, 0)

(* The callback of a call first drops self->cancellable, whatever call it   *)
(* is of.                                                                  *)
Answered(s, i) ==
    [s EXCEPT !.calls = RemoveAt([j \in DOMAIN s.calls |->
                                    [s.calls[j] EXCEPT !.held = FALSE]], i)]

(* A proxy cannot be made on no connection: nothing is asked then.         *)
AskConnection(s, stage, name, start) ==
    IF s.connection = None THEN s ELSE Ask(s, stage, name, s.connection, start)

(* Without an owner of the name, or with the call cancelled, the portal is  *)
(* tried next.                                                             *)
IMProxyDone(v, s, i) ==
    LET c == s.calls[i]
        t == Answered(s, i)
    IN  IF ~c.fails /\ Alive(v, c.via) /\ Owned(v, c.name, c.via)
        THEN Ask(t, "create", c.name, c.via, v.start)
        ELSE IF c.name = "main" THEN AskConnection(t, "improxy", "portal", 0)
        ELSE t

(* The call was cancelled, or its connection or its server is gone.         *)
Lost(v, c) ==
    \/ c.fails \/ ~Alive(v, c.via)
    \/ c.server # 0 /\ ~(Up(v) /\ v.start = c.server)

(* CreateICv3, or CreateInputContext of the portal.                        *)
CreateDone(v, s, i) ==
    LET c == s.calls[i]
    IN  IF Lost(v, c) THEN Answered(s, i)
        ELSE AskConnection(Answered(s, i), "icproxy", c.name, c.server)

ICProxyDone(v, s, i) ==
    LET c  == s.calls[i]
        ok == ~c.fails /\ Alive(v, c.via) /\ Owned(v, c.name, c.via)
    IN  [Answered(s, i) EXCEPT
           !.icproxy = IF ok THEN [name |-> c.name, via |-> c.via, server |-> c.server]
                       ELSE NoProxy,
           !.is_portal = @ \/ (ok /\ c.name = "portal")]

-----------------------------------------------------------------------------
(* The connection (fcitxconnection.c).                                     *)

Unwatch(s) == [s EXCEPT !.watching = FALSE, !.news = <<>>]

(* The bus first answers who owns each of the names.                       *)
Watch(v, s) ==
    IF s.watching THEN s
    ELSE [s EXCEPT !.watching = TRUE, !.status = [n \in Name |-> "unknown"],
                   !.news = <<[name |-> "main", owned |-> Owned(v, "main", Bus)],
                              [name |-> "portal", owned |-> Owned(v, "portal", Bus)]>>]

(* A private connection is closed, with the calls on it; the client hears   *)
(* of the end at once.                                                     *)
CleanUp(s) ==
    IF s.connection = None THEN s
    ELSE ClientCleanUp(
           [s EXCEPT !.connection = None, !.overtaken = FALSE,
                     !.calls = [i \in DOMAIN s.calls |->
                                  [s.calls[i] EXCEPT
                                     !.fails = @ \/ (s.connection # Bus
                                                     /\ s.calls[i].via = s.connection)]]])

(* What was asked for before is not cancelled: it is answered as well, and  *)
(* in any order, for each is made in a thread of its own.                  *)
AskFor(s, via) ==
    [s EXCEPT !.asked = Append([k \in DOMAIN s.asked |-> [s.asked[k] EXCEPT !.late = TRUE]],
                               [via |-> via, late |-> FALSE])]

Connect(v, s, useSessionBus) ==
    LET t == CleanUp(Unwatch(s))
    IN  IF ~useSessionBus /\ AddressValid(v) THEN AskFor(t, v.file)
        ELSE AskFor(Watch(v, t), Bus)

Connected(s, a) ==
    ClientCreateIC([CleanUp(s) EXCEPT !.connection = a.via, !.overtaken = a.late])

(* On the end of the connection the names are watched for the next server.  *)
ClosedWithoutWatch(v, s) == CleanUp(s)           \* mutant of ConnectionClosed
ConnectionClosed(v, s) == Watch(v, CleanUp(s))

(* bus_finished and connection_finished, for the k-th connection asked for. *)
ConnectDone(v, s, k) ==
    LET a == s.asked[k]
        t == [s EXCEPT !.asked = RemoveAt(@, k)]
    IN  IF Alive(v, a.via) THEN Connected(t, a) ELSE Connect(v, t, TRUE)

AppearOfBoth(s, name) ==                         \* mutant of Appear
    [s EXCEPT !.news = Tail(@), !.timers = @ + 2, !.status[name] = "present"]

Appear(s, name) ==
    [s EXCEPT !.news = Tail(@), !.timers = @ + 1, !.status[name] = "present"]

VanishOfOne(s, name) ==                          \* mutant of Vanish
    [s EXCEPT !.news = Tail(@), !.status[name] = "gone"]

Vanish(s, name) ==
    LET t == [s EXCEPT !.news = Tail(@), !.status[name] = "gone"]
    IN  IF \A n \in Name : t.status[n] = "gone" THEN CleanUp(t) ELSE t

NewServiceAppear(v, s) ==
    LET t == [s EXCEPT !.timers = @ - 1]
    IN  IF s.connection = None \/ ~Alive(v, s.connection) THEN Connect(v, t, FALSE) ELSE t

-----------------------------------------------------------------------------
(* The application starts before or after the server.                      *)
Blank ==
    [connection |-> None, overtaken |-> FALSE, watching |-> FALSE,
     status |-> [n \in Name |-> "unknown"], news |-> <<>>, fileNews |-> FALSE, timers |-> 0,
     asked |-> <<>>, calls |-> <<>>, icproxy |-> NoProxy, is_portal |-> FALSE]

Init ==
    /\ \E private \in BOOLEAN, seen \in Sights, runs \in BOOLEAN :
         server = IF runs
                  THEN [phase |-> "running", start |-> 1, private |-> private, seen |-> seen,
                        daemons |-> IF private THEN {1} ELSE {},
                        file |-> IF private THEN 1 ELSE 0]
                  ELSE [phase |-> "down", start |-> 0, private |-> private, seen |-> seen,
                        daemons |-> {}, file |-> 0]
    /\ app = Connect(server, Blank, FALSE)

(* What the client will hear of the server's step.                         *)
Tell(v, w, touched) ==
    LET News(n) == IF Owned(v, n, Bus) # Owned(w, n, Bus)
                   THEN <<[name |-> n, owned |-> Owned(w, n, Bus)]>> ELSE <<>>
    IN  [app EXCEPT !.news = IF app.watching THEN @ \o News("main") \o News("portal") ELSE @,
                    !.fileNews = @ \/ touched]

Becomes(w, touched) == server' = w /\ app' = Tell(server, w, touched)

(* DBusCreate takes the session name, starts the private bus, and writes    *)
(* the file, which is opened, and empty, first.                            *)
TakeName ==
    /\ ~Up(server) /\ server.start < MaxStarts
    /\ Becomes([server EXCEPT !.phase = "named", !.start = @ + 1], FALSE)

OpenFile ==
    /\ server.phase = "named" /\ server.private
    /\ Becomes([server EXCEPT !.phase = "opened", !.daemons = @ \cup {server.start},
                              !.file = 0], TRUE)

WriteFile ==
    /\ server.phase = "opened"
    /\ Becomes([server EXCEPT !.phase = "written", !.file = server.start], TRUE)

(* The frontends are loaded and the main loop is entered.                  *)
Run ==
    /\ server.phase = IF server.private THEN "written" ELSE "named"
    /\ Becomes([server EXCEPT !.phase = "running"], FALSE)

(* DBusDestroy ends the private bus.  After a crash fcitx-dbus-watcher does, *)
(* which DBusCreate starts last: the daemon of a crash before that stays in  *)
(* truth, with no context on it, and the model lets it be ended as well.    *)
Quit ==
    /\ server.phase = "running"
    /\ Becomes([server EXCEPT !.phase = "down", !.daemons = @ \ {server.start}], FALSE)

Crash ==
    /\ Up(server)
    /\ Becomes([server EXCEPT !.phase = "down"], FALSE)

Reap ==
    \E e \in server.daemons :
        /\ ~(Up(server) /\ server.start = e)
        /\ Becomes([server EXCEPT !.daemons = @ \ {e}], FALSE)

-----------------------------------------------------------------------------
(* The events of the client's main loop.                                   *)

(* InOrder is an assumption about GLib and the buses, which ServerFound     *)
(* needs: a lost call is answered before another one is and before the next *)
(* connection is given, and the session bus is given before it tells of the *)
(* names.  It says nothing of the order in which connections are given.     *)
Prompt == InOrder => \A i \in DOMAIN app.calls : ~Lost(server, app.calls[i])

AskedRoom == Len(app.asked) < MaxAsked

OnFileChanged ==
    /\ app.fileNews /\ AskedRoom
    /\ app' = Connect(server, [app EXCEPT !.fileNews = FALSE], FALSE)
    /\ UNCHANGED server

OnTimer ==
    /\ app.timers > 0 /\ AskedRoom
    /\ app' = NewServiceAppear(server, app)
    /\ UNCHANGED server

OnNameNews ==
    /\ app.news # <<>>
    /\ InOrder => \A k \in DOMAIN app.asked : app.asked[k].via # Bus
    /\ LET m == Head(app.news)
       IN  /\ m.owned => app.timers < 2
           /\ app' = IF m.owned THEN Appear(app, m.name) ELSE Vanish(app, m.name)
    /\ UNCHANGED server

OnConnectDone ==
    /\ Prompt
    /\ \E k \in DOMAIN app.asked :
          /\ Len(app.calls) < MaxCalls
          /\ app' = ConnectDone(server, app, k)
    /\ UNCHANGED server

OnClosed ==
    /\ app.connection \in Start \ server.daemons
    /\ app' = ConnectionClosed(server, app)
    /\ UNCHANGED server

(* The server answers when its main loop runs.                             *)
Answers(v, c) == c.stage = "create" => Lost(v, c) \/ v.phase = "running"

OnCallDone ==
    /\ \E i \in DOMAIN app.calls :
          LET c == app.calls[i]
          IN  /\ Lost(server, c) \/ Prompt
              /\ Answers(server, c)
              /\ app' = CASE c.stage = "improxy" -> IMProxyDone(server, app, i)
                          [] c.stage = "create"  -> CreateDone(server, app, i)
                          [] c.stage = "icproxy" -> ICProxyDone(server, app, i)
    /\ UNCHANGED server

Next ==
    \/ TakeName \/ OpenFile \/ WriteFile \/ Run \/ Quit \/ Crash \/ Reap
    \/ OnFileChanged \/ OnTimer \/ OnNameNews \/ OnConnectDone \/ OnClosed \/ OnCallDone

Spec == /\ Init /\ [][Next]_vars
        /\ WF_vars(Reap) /\ WF_vars(OnFileChanged) /\ WF_vars(OnTimer)
        /\ WF_vars(OnNameNews) /\ WF_vars(OnConnectDone) /\ WF_vars(OnClosed)
        /\ WF_vars(OnCallDone)

-----------------------------------------------------------------------------
TypeOK == server \in Server /\ app \in App

(* A client that has no connection of its own to the server, and awaits     *)
(* none, watches the names of the server on the session bus: it will hear   *)
(* of the next one.  But not one whose session bus was asked for before a   *)
(* private bus and came after it: bus_finished closes the private           *)
(* connection, for which the names were let go, and does not watch again.   *)
Attentive ==
    app.asked = <<>> /\ app.connection \notin Start /\ ~app.overtaken => app.watching

(* The same without the exception: violated, see clientorder.cfg.          *)
WatchesWithoutServer == app.asked = <<>> /\ app.connection \notin Start => app.watching

(* "Emit when disconnected from fcitx": the answer to a call of before never *)
(* takes the context of a valid client away; it loses it in clean_up alone, *)
(* which emits "disconnected".                                             *)
LossTold ==
    [][OnCallDone /\ app.icproxy # NoProxy => app'.icproxy # NoProxy]_vars

(* A server that runs for ever is found, whenever it starts, and the client *)
(* stays with a context of this server.  A client that sees both names and  *)
(* the private bus may lose it again: see LossTold.                        *)
ServerFound ==
    <>[](server.phase = "running" /\ ~(server.private /\ server.seen = Name))
      => <>[](app.icproxy # NoProxy /\ app.icproxy.server = server.start)

(* A server that ended for ever is not believed to be there, but by a       *)
(* client on a session bus it was given late and that does not watch: see   *)
(* Attentive.                                                              *)
LossNoticed ==
    <>[]~Up(server) => <>[](app.icproxy = NoProxy \/ (app.overtaken /\ ~app.watching))
=============================================================================
