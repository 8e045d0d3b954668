# A TLA+ verification of fcitx 4

fcitx is an input method framework for X11: programs open *input contexts* with it over D-Bus, XIM or fcitx-remote, send it their key events, and get back the
text an input method engine makes of them.  One process, one instance, one main
loop; nearly everything in it is a callback of that loop, so what is hard is
seldom two threads at once.  It is the order of many requests on shared state
kept in sync by hand, what the loop does with the flags, timers and queues they
leave behind, and, at its two ends, how an instance starts and ends and how a
client finds it and notices that it has gone.

This directory holds TLA+ models of the parts where that matters, TLC
configurations that check them on small instances, and TLAPS proofs of the
most important invariants for every instance.

    tlasany M.tla                        parse a module
    tlc -config X.cfg MCFrontends        check a configuration
    tlapm FrontendsProofs.tla            check the proofs of a module

All source paths below are relative to `src/`.

## 1. Inventory

| Component | State it keeps | Operations | How it interacts | What is hard, what makes it right |
|---|---|---|---|---|
| Input contexts, `src/lib/fcitx/frontend.c` | `ic_list`, `free_list`, `CurrentIC`, `lastIC`, per context: state, capability, own input method | create, destroy, clean up after dead clients, set focus | called by every frontend; calls `ui.c` and `ime.c` on a change of focus | pointers kept across the freeing of list cells |
| Input methods, `src/lib/fcitx/ime.c` | `imes`, `availimes`, `iIMIndex`, `globalIMName`, `globalState`, `delayedIM`, the input state | enable, close, toggle, switch, process a key, load, update and unregister the list | called by frontends, UI, selector, D-Bus object; calls engines and frontends back | one cached index that must follow focus, state, sharing policy and list |
| Main loop, `src/lib/fcitx/instance.c` | `timeout` array, `eventflag`, `destroy`, `restart`, signal pipe, semaphores | round of modules, timers, update of windows, reload, sleep, end, restart | calls every event module, is woken by descriptors and signals | flags cleared at the head of a round; an array changed while scanned; libraries that buffer events |
| User interface core, `src/lib/fcitx/ui.c` | current and fallback UI, menus, statuses | mark, move, update, fall back, suspend, resume | calls the UI addon; `OnInputFocus` | update marks and the loop; the fallback UI's life |
| Addons, `src/lib/fcitx/addon.c`, `module.c` | addon list, enabled, loaded, event modules | apply options, choose the interface, resolve dependencies, create, register | everything is an addon | dependencies of dependencies; order of creation; an addon that ends the instance |
| Start and end, `src/lib/fcitx/instance.c`, `src/core` | `initialized`, `loadingFatalError`, `destroy`, three semaphores | create, pause, start, end, run | the thread that wants the instance, the instance's own | two threads and three semaphores on every error path |
| Candidates, hooks, named contexts, profile and configuration | lists and tables | paging, callbacks in order | engines and UI | boundaries of pages |
| D-Bus frontend, `src/frontend/ipc` | ids, sender and pid of contexts | one method per request, key events | `frontend.c`, `ime.c` | which request belongs to whom, order of focus and key |
| XIM frontend, `src/frontend/xim` | ids, connection, queue of calls to clients | IMdkit's handlers, `XimConsumeQueue` | X11 module, `frontend.c` | queued calls sent only in the X11 module's turn |
| Notifications, `src/module/freedesktop-notify` | items in an intern and a global table, counted by hand; timers | send, replace, withdraw, expire | D-Bus daemon, loop's timers | answers late, missing or after a withdrawal |
| Tray, `src/module/notificationitem`, `src/ui/classic` | registration with a watcher, fallback window | register, owner changed, delayed window | D-Bus, X11, timers | a late answer races a timer and a watcher that goes |
| D-Bus and X11 modules | connection, watches, filters | dispatch in the loop | loop | data in a library's queue that `select` does not see |
| Selector, fcitx-remote, kimpanel, classic UI, xkb, clipboard | selection menus, sockets, windows | requests on the instance | instance | short-lived |
| Text modules and engines (`src/im`, `src/module/*`) | dictionaries, buffers | conversions | `ime.c` | large and sequential |
| Client libraries, `src/lib/fcitx-gclient`, `src/lib/fcitx-qt`, and GTK/Qt modules | connection, watches, file monitor, timers, a chain of pending calls | find the server, connect, create a context, clean up | the D-Bus frontend, the address file, both buses | answers of a server or a connection that has been replaced |

`PROJECT.json` lists every component with its sources and its status.

## 2. The modules

| Module | Models | Checked by | Proved in |
|---|---|---|---|
| `InputContexts` | the instance's contexts and input method as operators on one record | (through Frontends) | |
| `Frontends` | every request of the D-Bus and XIM frontends, and of the D-Bus object, tray and selector | `shared` `program` `focus` | `FrontendsProofs` |
| `EventLoop` | `RunInstance`: signals, modules, XIM queue, timers, painting, end, reload, `select` | `loop` | `EventLoopProofs` |
| `Notifications` | the freedesktop-notify module's items | `notify` `notifylate` | `NotificationsProofs` |
| `IMList` | the list of input methods: engines, lazy loading, switching, the profile | `imlist` `imedit` `imgone` | `IMListProofs` |
| `Tray` | the icon of the classic interface: item, window, the timers between them | (through UserInterface) | |
| `UserInterface` | the interface in use and its fallback, with the panel, the watcher and the X11 trays around them | `tray` | `UserInterfaceProofs` |
| `TrayIcon` | abstract: what a user may rely on about the icon | (implemented by UserInterface, in `tray`) | |
| `StartUp` | an instance from its thread's start to its end: which addons are enabled and created, and the semaphores of the thread that wants it | `startup` | `StartUpProofs` |
| `ClientConnection` | the client side: a GLib client that finds, loses and finds again a server that starts, quits and crashes | `client` | `ClientConnectionProofs` |

`MCFrontends`, `MCEventLoop`, `MCNotifications` and `MCUserInterface` only add
the values TLC needs and the symmetry of the cells; `MCIMList` has the engines
and lists, `MCStartUp` the addons.  `NaturalLemmas` has two facts about numbers that
the proofs about timers share.  A configuration named nowhere in this table belongs to one of the
further disagreements of section 4.

### InputContexts and Frontends

The library's functions take the instance and change it.  `InputContexts` has
them as operators from an instance (the record `Instance`) to an instance, with
the names of the code, composed in the order of the calls: `OnInputFocus` is
`ResetInput`, then `SwitchIMByName` when a delayed input method waits, or else
`UpdateCurrentIM`, and so on.  `Frontends` then has one action for a handler.
The main loop runs one handler at a time to its end, so a handler is one step
and what interleaves is requests, from any number of clients in any order.

- `ic_list` is a set with the order of creation beside it (`newer`), because one
  lookup depends on it: `StateFromSameApplication` takes the first match from
  the head.  `free_list` is a set; which free cell is taken does not matter.
- Names are abstracted to `App`, input methods to positions in `imes` (0 is the
  keyboard).  The list is fixed here; `IMList` models how it changes.
- `exited` are contexts whose process has ended without a request; `CleanUpIC`
  drops those whose process is known when the next context is created.
- `composing` says from which context the text in the one input state is.
- `toldEnabled` is the client's view: what the last EnableIM or CloseIM signal
  told it.
- A key is one of eight by what it does; engines are seen only by what they
  leave: text being typed, or committed.
- Two XIM handlers look only at the focused context's id, not at its frontend
  (`ximhandler.c:85`); whether a D-Bus context has the same id is left open.

### EventLoop

One iteration of `RunInstance` is cut where the outside may come between: after
the read of the signals, between two modules, between X11's events and the XIM
queue, between two timers, around the painting, before and after `select`.
Time is in ticks.  A timer holds the ticks left to it, and `lag` how old the
clock is that the code compares with.  What an addon may do when it is called
is a choice of effects (`Handle`, `Callback`): ask for an update, a move or a
reload, end, add or remove a timer, queue a call to an XIM client, make a round
trip that moves a connection's data into its library's buffer.  `XIOError` is
the `longjmp` out of an X I/O error to the end of the inner loop.

### Notifications

An item is a cell with its reference count, whether it is in the intern table,
its id of the daemon (in the global table when not 0), its age, and whether a
call is pending that has it as its data.  `SendNotification`, `CloseNotification`,
`NotifyCallback`, `NotificationClosed`, `TimeoutCb` are the handlers.
`timeout_added` is never set in the code, so every check that leaves an item
adds a timer; timers are kept as a set of times, since two that go off at once
do what one would.  An answer that is an error leaves `id` on the stack
unwritten: it may be any id or none.

### IMList

`UpdateIMList` puts what the engines offer in the order of the profile and
chooses the current input method (`UpdateCurrentIM`); choosing switches
(`SwitchIMInternal`); switching may load an engine, or call one that is loaded
for it; and a loaded engine makes the list be rebuilt.  The functions of the
code call each other in a circle.  Each is an operator from an instance to an
instance, and those that come back to the rebuilding take it as the parameter
`update`; `Rebuilt` is the recursive function that closes the circle.

- `Start` is the first start or a restart: everything is forgotten but the
  profile on disk.
- The contexts are one that has the focus, or none; it shares nothing.
  `Frontends` has the rest.
- A name is a model value.  What the code does with its letters is given by
  constants: the order of priority and name (`Order`), which begins which
  (`PrefixOf`), which are for the user's language or off by default.
- `installed` is the engines whose files are there: an engine may go between
  the moment it is listed and the moment it is needed.
- C's -1 for "not found" is kept: `iIMIndex` holds it where the code does.
- `newIM` in `SwitchIMInternal` points into the array, so after a rebuild it
  reads the position, not the name: the model looks the entry up at the old
  position in the new list.
- Not modelled: when an engine that another one calls has gone, each failed
  load rebuilds the list, which calls it again, without end (`InitIM`).
- `Among` picks the members of a list that are in a set (`EnabledEntry`: the
  enabled ones of what is offered; `EntryOf`: all of it), which is what the loop
  over the profile's list does (`src/lib/fcitx/ime.c:2036`).

### Tray, UserInterface and TrayIcon

The classic interface shows an icon as an item of a watcher (StatusNotifier, in
the panel's process) when there is one and as a window docked in an X11 tray
otherwise, and moves between the two as watcher and trays come and go.
`UserInterface` holds the process as one record (`process`) and everything
outside beside it: which panel, watcher and dock are there, and two queues of
what happened and was not read yet, `queue` from D-Bus and `xevents` from X11.
A change outside is thus seen later, and in order, but anything may come
between.  `Tray` has the operators on that record, as in `InputContexts`.

- `waitDelayed` (0 ms) and `trayTimeout` (100 ms) are the two timers between
  the item's failure and the window.  In the code `waitDelayed` is never reset
  (`src/ui/classic/classicui.c:174`); the model keeps it as "the timer is
  pending", which is what the timer does.
- Classic is loaded last and is used when it can be created; named as kimpanel's
  fallback it is then its own.
- `FcitxUIResumeFromFallbackWithUIName` (`src/lib/fcitx/ui.c:1052`) does nothing
  before a first fallback; what it leaves after one (`ui` is no longer
  `uinormal`) disables the fallback, and the model keeps that.
- `WatcherReplaced` is a watcher that takes the name from another.  The one
  `NameOwnerChanged` of it finds `available` TRUE already, and nothing is asked
  again (`src/module/notificationitem/notificationitem.c:735`): `replaced` says
  that the item the process believes in is one no watcher has.  A call on its
  way then is answered by the old watcher or by the new.
- `TrayIcon` has two variables, the icon's `place` (hidden, due, item, window)
  and whether an X11 tray is known (`room`).  Its promise: a hidden icon comes
  back only by being due, unless as a window at once, and one that is due
  while there is room does not stay so.  The refinement mapping gives `place`
  from the classic interface's flags (`Place`) and `room` from `dockWindow`: the
  place "item" is what the process believes.
- A tray manager that replaces another waits until the old one's window is
  destroyed (ICCCM 2.8), so one dock ends before the next one starts.
- `EndsUnseen` and `FailsCalls` let in two things the code does not cope with
  (section 4): a dock that ends before the icon is in it, and a D-Bus call to
  the watcher that is answered with an error.  `tray` leaves both out.  The
  watcher that replaces another is always in.

### StartUp

The thread of the instance is at `pc`, and at `idx` in the array of addons; one
action for each step of `RunInstance` up to its loop, and one for each addon the
passes over the array look at.  The loop itself is `EventLoop`; of it there is
here only that it ends.

- `addons` is the array as it is sorted: by priority, in any order among equals,
  since the sort is not stable and the files come in the order of a hash.
- What the options and the configuration say is the constant `Options`.
- `Create` of an addon is open: it may fail or be kept, and may call
  `FcitxInstanceEnd` either way, as the D-Bus module, the X11 module and the XIM
  frontend do (`src/frontend/xim/xim.c:242`).  What the addons ask of each other
  meanwhile is not modelled.
- An engine with files for its input methods (`Listed`) is created when it is
  first needed, as `IMList` has it; here it only counts as an input method.
- The thread that wants the instance waits for it, starts it and may end it at
  any moment once it has it; it does one thing at a time.  `FcitxInstanceRun` is
  an instance without it (`sem` FALSE in the options).
- A restart ends the instance as `RealEnd` does and executes the program again.

### ClientConnection

`app` is a client's process: the `FcitxConnection` (which connection it holds,
whether it watches the names, what it heard of each) and the `FcitxClient` on it
(the context it holds, and its chain of calls: a proxy, a context, the context's
proxy).  Pending answers are in `asked`, `calls`, `news`, `timers` and
`fileNews`; what happens to the server in between is in none of them, so each is
found valid or lost when it is answered.  `server` is what a client can see of
the server: how far its start is (`DBusCreate` takes the name, opens the address
file, writes it, the frontends and the portal follow), the private bus daemons
that run, and whose address is in the file.

- A connection is named by the start of the server whose private bus it is of;
  `Bus` is the session bus.
- The file may be empty, of a server that has gone or of the one that runs.
- A server that quits ends its daemon; one that crashes leaves it to the watcher
  process (`Reap`).  `DBusCreate` starts that process last
  (`src/module/dbus/dbusstuff.c:355`), so the daemon of a server that crashes
  before stays in truth; nobody has a context on it, and the model reaps it too.
- `held` marks the call `self->cancellable` stands for.  The callback of any
  call drops it, the callback of a cancelled one too, as in the code.
- `Sights` are the names a client may see: a sandboxed one sees the portal only.
- Connections are made in threads, and `_fcitx_connection_connect` does not cancel
  the one before (`src/lib/fcitx-gclient/fcitxconnection.c:202`): those in `asked`
  are given in any order.  `late` and `overtaken` are the model's memory of it:
  another connection was asked for since.  No step of the client reads them.
- `InOrder` is an assumption, which `ServerFound` needs: a lost call is answered
  before another call is and before the next connection is given, and the session
  bus is given before it tells of the names.  Nothing in the code enforces either.
  What speaks for the first is that a cancelled or broken call needs one callback
  and the others an answer of another process; for the second, that GLib asks for
  the names on that same connection once it has it.  Without either part
  `ServerFound` is false.  `Attentive` is proved without.
- Not modelled: the end of the client itself, an address given in the
  environment, a session bus that ends, process numbers that are used again, and
  the time limit of 25 s on a call.

## 3. What the runs check

| Run | Instance | Shows |
|---|---|---|
| `shared` | 3 contexts of both D-Bus protocols, sharing All | every context that leaves its state to the server has the state of all others; no client goes on sending keys to a context the server has closed |
| `program` | 3 contexts, 2 programs, D-Bus and XIM, sharing PerProgram | the contexts of a program agree on their state, new ones included |
| `focus` | 2 contexts, D-Bus with known process and XIM, 3 input methods, own choice, client-controlled state | pointers never dangle; the current input method is the one the focus asks for; no text of another context is left in the buffer |
| `loop` | 3 modules, 2 timers, 1 event per sleep, under fairness | no oversleep, no call left in the XIM queue, no requested update lost; every timer is called or removed; a signal to end ends the loop |
| `notify` | 3 items, 3 ids, expiry after 2 ticks, timer after 3, under fairness | an item is counted right and freed once; an id names one item; items expire; every item is freed |
| `notifylate` | violation | an answer after the expiry frees a withdrawn item twice |
| `imlist` | 5 input methods of 4 engines, one engine loaded on first use, one installed and removed meanwhile | the index is one of the list and follows the focus; a switch takes effect; a restart gives the same list |
| `imedit` | 3 input methods of engines that register themselves, the profile edited and loaded at any moment | a switch takes effect; what the profile says of a removed engine is kept |
| `imgone` | violation | an engine removed before its first use leaves the index at -1 |
| `tray` | the panel, the watcher and 2 docks come and go, queues of 3, under fairness | one interface draws; the icon is never in two places, is in one once everything was read (unless a watcher took over from one that had it), and gets there when there is room |
| `client` | 2 starts of the server, 2 connections pending that are given in any order, 2 calls pending, one or both names in sight, with and without a private bus, lost calls answered first (`InOrder`), under fairness | a client without a server watches for one; a server that stays is found and kept, but by a client that sees the private bus and both names; a server that does not come back is noticed.  The first and the last not by a client given the session bus late |
| `startup` | 9 addons with the priorities of their files and what they depend on among each other, 2 listings, 36 command lines and configurations, addons that fail or end the instance, under fairness | what is enabled and what is created has what it depends on; a fatal error ends the start; both threads learn how it went |

**Why the bounds are enough.**  A defect of sharing needs the context that
changes, one it reaches and one it must not: three contexts, two programs.  The
focus needs the context that loses it, the one that gets it, and freed cells
that come back: two contexts and two cells do all, and three input methods tell
apart keyboard, first and another.  `composing` and the pointers speak of one
context at a time.  In the loop, swapping the last timer into a hole needs two;
`Delays` has 0 (due at once) and 2 (later than a pass of the loop, `MaxLag`);
`Burst` bounds the events between two sleeps; `loop` has one, which is enough
for every order of an event and the steps of a round, and the safety properties
are proved for every `Burst`.  For the notifications, an id given twice needs two
items and a third to be replaced by; `RealTime < AddTime` keeps the order of
the real 100 s and 110 s.  `MaxReply` is the longest the daemon takes; `notify`
has it within `RealTime` and `notifylate` beyond.  A list needs the first input
method, which is treated apart, one to move behind it, and one to come, go or
be dropped; five give an engine with two, of which one is off by default.  The
lists of a configuration tool are an empty one, two orders, one with a
single entry enabled and one with none.  For the icon, a dock that ends while another begins
needs two docks; a watcher that replaces another is an action of its own, so one
flag is enough for it; three messages on the way are an end, a beginning and one more
change behind them, and the invariants on one process are proved for any
length of the queues.  A client that misses the second server, or believes in
the first, needs two starts; a second connection and a second chain of calls are
what an answer can be confused with or overtaken by, and `Attentive` is proved for
any number of each.  The addons of `startup` are the chain of three that fcitx has (`xkbdbus`,
`xkb`, `x11`), the two interfaces of which one is the other's fallback, and the
two frontends, of one priority, in both orders, since which fails last matters; the safety
properties are proved for any addons.

**Deadlock** is not checked: an instance may sit without clients, a loop stops,
time stops where a call is never answered, an instance that has ended has ended,
and a client may have nothing more to hear.

**Fairness.**  `EventLoop`: weak fairness of the loop, a thread that runs, and
of time.  Events are bounded per sleep; without that clients could keep the
inner loop of the code busy for ever, and nothing in it would prevent them.
`Notifications`: every pending call is answered (libdbus turns a lost peer into
an error), timers are called by the loop, time passes.  `UserInterface`: the two timers
are called, which is `TimersCalled` of `EventLoop`; nothing of panel, watcher or
trays.  `ClientConnection`: the client's main loop calls back what is ready, and
the watcher process kills the daemon of a dead server; nothing is assumed of the
server, and a step that waits for it is ready only if it answers.  `StartUp`: the
instance's thread runs, and a thread whose semaphore is posted and that nobody
else takes goes on; the caller need not start or end anything.  Nothing is assumed
of what clients and users do.

## 4. Where the code disagrees with what is said of it

Two disagreements are violation runs:

- `notifylate`: the time limit given to a call needs timeout functions the
  D-Bus module never sets, so the daemon's answer may come after the item has
  expired; then `FcitxNotifyCallback` and the call's free function each drop a
  reference the table no longer holds
  (`src/module/freedesktop-notify/freedesktop-notify.c:451`).
- `imgone`: `SwitchIMInternal` looks the erased entry up again after the list
  has been rebuilt (`src/lib/fcitx/ime.c:1218`), and undoes the index that
  the forced update inside chose.

Further ones each have a configuration of their own name, whose property TLC
finds violated:

- `delayed`: a choice made in the menu while nothing has the focus is kept in
  `delayedIM`, but `SetCurrentIC` clears it through `SetLastIC`
  (`src/lib/fcitx/instance.c:713`) before `OnInputFocus` reads it.
- `same`: the test for "same name" compares the *display* name with a unique
  name (`src/lib/fcitx/ime.c:1091`), so it holds only for engines whose two
  names are equal.
- `reload`: `FcitxInstanceReloadAddon` runs after the inner loop and marks the
  input window; `select` sleeps on the mark and the head of the next round
  clears it (`src/lib/fcitx/instance.c:377`, `328`).
- `recheck`: the flag `FEF_EVENT_CHECK` exists for events read into a buffer by
  a round trip; the classic UI's timer (`src/ui/classic/classicui.c:228`) makes
  round trips and does not set it.
- `imcalls`: `TableInit` calls pinyin, and the list rebuilt by that switches
  back to the shared input method (`src/lib/fcitx/module.c:123`), though the
  header says only an invalid name has no effect.
- `imrepair`: the repair of the shared name ends with the first input method
  when the context is inactive (`src/lib/fcitx/ime.c:1536`), which is not valid.
- `imprefix`: "is in the list" compares only the length of the new name
  (`src/lib/fcitx/ime.c:2127`).
- `improfile`: `ReloadAddonConfig("profile")` loads the file and asks for
  nothing more (`src/lib/fcitx/ime.c:1349`).
- `traylost`: the end of a dock is only asked for when the icon is docked in it
  (`src/ui/classic/tray.c:127`), so one that ends before that stays
  `dockWindow`, and the next tray's message is ignored
  (`src/ui/classic/TrayWindow.c:228`).
- `trayerror`: the answer to the registration of the item is never examined
  (`src/module/notificationitem/notificationitem.c:379`), so with an error the
  icon is taken for registered and is nowhere.
- `clientlost`: a chain of calls that was cancelled drops the cancellable of the
  one that replaced it (`src/lib/fcitx-gclient/fcitxclient.c:692`), which can then
  no longer be cancelled and, ending on a connection that has gone, takes away
  the context made since without `disconnected`, which is to be emitted "when
  disconnected from fcitx" (`fcitxclient.c:1035`).
- `startfatal`: a frontend that logs "Exiting." and returns NULL is passed over
  before the fatal error is looked at (`src/lib/fcitx/frontend.c:546`, `550`), so the
  instance runs on when it was the last.
- `startstuck`: an error in the start posts `startUpSem`, on which the failing
  thread itself would wait, or nothing (`src/lib/fcitx/instance.c:280`, `423`), while
  `FcitxInstanceCreatePause` waits on `notifySem`; it does not return.
- `startui`: `--ui`, to "specify the user interface to use" (`instance.c:108`),
  enables that interface; in use is the last one that could be created
  (`src/lib/fcitx/ui.c:145`).
- `startchain`: one pass over the addons is not "to make every addon works"
  (`src/lib/fcitx/addon.h:152`): `remove` is never set again
  (`src/lib/fcitx/addon.c:279`), so an addon that is before one that gets disabled
  stays.

Others show without a document to contradict.  Two have a configuration:

- `trayreplaced`: the new owner of the watcher's name is not registered with when
  it took it from another (`src/module/notificationitem/notificationitem.c:735`),
  so it has no item while the process believes in one and shows no window.
  `IconIsSomewhere` excepts it; the plain `WatcherHasItem` is violated.
- `clientorder`: the session bus is asked for while no server runs, the server
  writes its file, and the private bus is given first.  The answer for the session
  bus then closes the private connection and does not watch
  (`src/lib/fcitx-gclient/fcitxconnection.c:261`).  `Attentive` and `LossNoticed`
  except such a client; the plain `WatchesWithoutServer` is violated.

And with "hide when tray icon is
available", the default, `waitDelayed` keeps the main bar hidden for good once
the delayed window was asked for, tray or not (`src/ui/classic/MainWindow.c:76`).

Others of the start: an instance without a
descriptor to watch leaves its loop at once and tells nobody
(`src/lib/fcitx/instance.c:395`); one ended by its creator before
`FcitxInstanceStart` posts the end, and its thread waits on for ever; an end from
another thread does not wake `select`; and an X I/O error while the addons are
loaded jumps to a place that was not set yet (`src/module/x11/xerrorhandler.c:64`),
which is undefined and left out of the model.  Of the client: one that sees both
names and the private bus may lose its context to a stale answer and not ask
again, which is why `ServerFound` leaves that case out, though it is the usual one.

`imedit` has no engine that is loaded on first use.  With one, what the profile
says of a removed engine can be lost (the list is rebuilt inside a rebuild and
`unusedItem` with it), and a reload that follows an edit has not applied it when
the next switch comes; no document speaks of either.  `imnames` is another of
these.  Loading the engine of the new current input method rebuilds the list
inside the rebuild, and the inner rebuild no longer sees the entries of input
methods that nothing offers.  Where one name begins another (`wb` and `wp` there, as
`wubi` begins `wubi-large`), it enables one that the outer rebuild took for listed;
the index moves with it, and the focused context has not the input method it
chose.  `IndexFollowsFocus` is violated there, and `SwitchTakesEffect` is not.

## 5. What is proved

For all values of the constants, machine-checked by TLAPS.

**`FrontendsProofs`** - `TypeCorrect`, `NeverDangles`, `FollowsTheFocus`,
`TextStaysHome`, `ClosingIsTold`, and the two of sharing below.  The inductive
invariant is `Settled`: `Sound` (types, `Linked` pointers, told clients),
`FollowsFocus`, `OwnText`.
Each library operator keeps `Sound` by a lemma of its own, and the ones that
end a request restore the other two.  `FollowsFocus` alone is not inductive: it
needs that the pointers are linked and the global input method is one of the
list.  Assumed: only the named assumptions on the constants.

`StatesAreShared`: with sharing All, `SharedStateAgrees`,
assuming no client changes who decides on a context's state after creation
(`ClientCaps = {}`).  Without that the property is false by design: a client
that gives up control keeps the state it had.  `ProgramsShareTheirState`: with
sharing per program, `ProgramStateAgrees`, assuming also that no context is given an
input method of its own (`LocalIM \subseteq {NoIM}`): one that has it leaves its
program's sharing, also by design.  The invariant is `Shares`: the contexts of a
program agree, no context with a program decides for itself, and the list is a
finite strict order, so that a lookup among a program's contexts finds its newest
(`NewestExists`), from which a new one takes its state.

**`EventLoopProofs`** - `TypeCorrect`, `SleepsUntilTheFirstTimer`, `QueueIsSent`,
`UpdatesAreMade`, for any modules, delays and number of timers.  The first two
rest on `Scanned`: the timers before `idx`, and after the scan all of them, are
ahead of the clock that was read; removing by swapping in the last keeps it
because the position is looked at again, and a callback's new timers are never
due.  `MinTime` then is the least of them (`LeastNatural` of `NaturalLemmas`, from
the library's well-foundedness of finite sets).  The last two rest on `Sent` and `Marked`: what
is queued past X11's turn, and every requested update, is held by `UI_UPDATE`
until the window is painted.

**`NotificationsProofs`** - `TypeCorrect` and `ItemsAreExpired`, with no assumption
on the daemon, and `ReferencesCounted` and `IdsNameOneItem`, assuming
`MaxReply <= RealTime`.  `ItemsExpire` alone is not inductive: `Timely` says that
every item in the table has a timer pending that goes off before the item is too
old, and a check that leaves items behind adds one for the oldest of them, which
exists by `GreatestNatural` of `NaturalLemmas`.  The count alone is not inductive: a withdrawn item that
has no id must still be in the table, and it is, since it is younger than its
answer.

**`UserInterfaceProofs`** - `TypeCorrect`, `OneInterfaceDraws`, `IconInOnePlace`,
`RefinesTrayIcon`, for any docks, names and length of the queues, and with
`EndsUnseen` and `FailsCalls` either way.  The inductive invariant is `Good` of
the process: `Sane` (the interface in use and the fallback are loaded ones, the
icon is in one place) and `Coherent` (classic is suspended exactly when another
is used).  Each operator of `Tray` and `UserInterface` keeps it by a lemma, and
a step of the environment does not touch the process.  The refinement is proved
for the safety part of `TrayIcon`.  `IconEndsSomewhere`: `IconIsSomewhere`, assuming
`FailsCalls` and `EndsUnseen` are FALSE, as in `tray`; watchers that replace each
other are in, and what `replaced` excepts is that one case.  It speaks of the states where
nothing is left to read, so its invariant `RInv` says of every other state what
is still to come: the icon is where the process believes it should be or a timer
is to put it there (`AtRest`); the messages unread end with whether there is a
watcher, and an answer is read only by who knows of one (`NewsTrue`); who waits
for the watcher has an answer, or the news of its end, on the way (`Answered`); and
the end of a dock that is wrongly believed to be there, or the start of one that
is missed, is among the events unread (`DocksTold`).

**`StartUpProofs`** - `TypeCorrect`, `DependenciesAreEnabled`,
`CreatedAfterDependencies`, `CallerTheEndIsTold`, `FatalErrorsEnd`, for any addons,
listing, command line and any behaviour of `Create`.  The array stays sorted but
for the interfaces that change places, and nobody appears twice (`Array`); a pass
over it is enough because what was looked at and kept (`Behind`) depends on what
is before it, or on what depends on nothing.  `ModulesTried` says that past the
modules every enabled one was tried.  `Told` ties the flags and the caller to the
two semaphores in every phase, and `Escape` says which frontends a fatal error can
have passed.  The first three assume of the addons' files what the properties
say: chains of dependencies in the order of the priorities (`ChainsInOrder`),
modules first (`ModulesFirst`).

**`ClientConnectionProofs`** - `TypeCorrect`, `ClientIsAttentive`, for any number of
starts, connections and calls, with `InOrder` either way.  The inductive invariant
is `Good` (what a client waits for is of a server that was started) and `Watchful`: who
has the session bus, or waits for it, watches, unless another connection was asked
for since; so does who has nothing and waits for nothing; and news come only to one
that watches.  `Attentive` alone is not inductive: it says nothing of the
connections that are being waited for.

**`IMListProofs`** - about functions that call each other in a circle.  What a
recursive function computes is out of the prover's reach, but that it has a value
and what it keeps is not: `Pending` counts the input methods still to be initialised
and the engines still to be loaded, every rebuilding inside a rebuilding has less of
them, and a state with the least count that breaks a fact is as good as an
induction (`LeastNatural`).  `RebuiltDefined` says by this that the rebuilding ends, from
every state and for any engines, calls and names; `RebuiltInduction` is the same
argument for a fact to be kept, and each invariant below uses it once:

| Theorem | States | Assumes |
|---|---|---|
| `TypeCorrect` | `TypeOK` | nothing |
| `IndexStaysInRange` | `IndexInRange` | `EnginesStay` |
| `SwitchAlwaysTakesEffect` | `SwitchTakesEffect` | `EnginesStay`, `NoCalls` |
| `IndexAlwaysFollows` | `IndexFollowsFocus` | `EnginesStay`, `NoCalls`, `NamesApart` |
| `RestartRestores` | `RestartKeepsList` | the profile is saved by the instance alone (`~Edits`) |
| `UnavailableStaysRemembered` | `UnavailableRemembered` | engines register themselves (`Lazy = {}`) |

None of the assumptions is for the proof's sake; without any one of them TLC finds
the property violated.  `EnginesStay`: an engine that is loaded on first use is not
removed (`imgone`), and a profile edited by hand, whose rebuilding waits, meets no
such engine.  `NoCalls`: no engine calls another one (`imcalls`).  `NamesApart`: no name
of an engine that comes and goes begins another (`imnames`).  `Lazy = {}`: a rebuild
inside a rebuild forgets `unusedItem` (section 4).

The index being in range is not inductive: a lazily loaded engine must still
offer what is enabled when it is loaded (`Stocked`), and the list that is rebuilt
by it must enable at least what it was rebuilt for (`Calm`, `Covered`).  `Exact`
is stronger: the list in force is what the profile in memory gives, and it gives
the same without the entries that nothing offers, so a rebuilding inside a rebuilding
changes nothing.  `Follow` then says which index the focused context asks for, and
`Saved` and `Agreed` that the profile on disk is the one in force and names the
same shared input method, so that a reload may load it at any moment.  `Rests` is
what is left of `Follow` when names begin each other: an inactive context has the
first input method, since the first of the new list is the first of a list that
begins alike (`ListedHead`).  `Stays` says of a restart that the rebuilding of the
saved list gives the list, and `Still` that an entry nothing offers stays in
`unusedItem`.

**Only model-checked**: liveness (`TimersCalled`, `SignalEnds`, `ItemsFreed`,
the fairness of `TrayIcon`, `ServerFound`, `LossNoticed`, `CallerAnswered`), which
needs fairness and `ENABLED`.  Every safety invariant and action property of the
passing runs is a theorem.

## 6. What is not modelled, and why

Conversions of text (engines, tables, punctuation, spelling, Lua) are large,
sequential and over data files: nothing in them interleaves.  Drawing, skins,
configuration files, option parsing, translations are input and output.  They are
most of the source.  The GTK and Qt modules run in toolkits' loops, whose order of
events is not in this repository; the GLib client library is modelled, and the Qt
one does the same.  The D-Bus portal frontend is the state machine of the D-Bus frontend under
another bus name.  IMdkit under `src/frontend/xim/lib` is vendored.  `PROJECT.json`
says so for each component, and under `hazards` names each place of the code
that is hard to test with the property that watches it, or why none does yet.

## 7. Plan

Done: focus and sharing, the loop, the list, the notifications, the icon, the
start and the client.  What is next, in order, with runs that share a
configuration where they can:

1. `Candidates`: paging against a reference over bounded lists, and the keys
   that choose.
2. The composition of `ClientConnection` with `Frontends`: a client's contexts
   over a restart of the server.
3. An abstract specification of focus (one owner of keys and of text) which
   `Frontends` implements by a refinement mapping, and one of a one-shot timer
   for `EventLoop`.
4. Proofs of the refinements of item 3.
5. More of the source in the modules that exist: the keys of `ime.c`, the
   statuses and menus of `ui.c`, the reload of addons.
