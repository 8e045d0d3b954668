------------------------------ MODULE Frontends ------------------------------
(***************************************************************************)
(* The requests the D-Bus frontend (ipc) and the XIM frontend take from     *)
(* their clients, and the global requests of the D-Bus object, each with    *)
(* every call it makes on the contexts of InputContexts.                    *)
(*                                                                         *)
(* A request names its context by an id that is never given twice, so one   *)
(* that arrives after the context is gone finds nothing and is no step.     *)
(***************************************************************************)
EXTENDS InputContexts

(* The main loop is entered after the profile and the input methods are     *)
(* loaded: the global input method is one of imes other than the keyboard,  *)
(* and the current one too, unless the profile named the keyboard or an     *)
(* input method that is gone; then the global one is the first.            *)
Init ==
    /\ exited = {}
    /\ \E k \in IM \ {0}, i \in IM :
           /\ i = k \/ (i = 0 /\ k = 1)
           /\ instance =
                  [ic_list |-> {}, newer |-> {}, free_list |-> {},
                   ic |-> [n \in Node |-> Blank],
                   CurrentIC |-> NULL, lastIC |-> NULL, delayedIM |-> NoIM,
                   globalState |-> DefaultState,
                   iIMIndex |-> i, globalIM |-> k, composing |-> NULL]

Live(frontend) == {n \in instance.ic_list : instance.ic[n].frontend = frontend}

Becomes(I) == /\ instance' = I
              /\ exited' = exited \cap I.ic_list

-----------------------------------------------------------------------------
(* Requests on one context.                                                *)

IPCCreate(kind, app, n) ==
    LET I == CleanUpIC(instance)
    IN  /\ kind \in {"v1", "v2", "v3"}
        /\ n \in Allocatable(I)
        /\ instance' = CreateIC(I, kind, app, n)
        /\ exited' = exited \cap I.ic_list

(* A new XIM context takes the focus when no context has it.               *)
XIMCreate(kind, app, n) ==
    LET I == CleanUpIC(instance)
        J == CreateIC(I, kind, app, n)
    IN  /\ kind = "xim"
        /\ app # NoApp
        /\ n \in Allocatable(I)
        /\ instance' = IF J.CurrentIC = NULL THEN OnInputFocus(SetCurrentIC(J, n)) ELSE J
        /\ exited' = exited \cap I.ic_list

Destroy(n) ==
    /\ n \in instance.ic_list
    /\ Becomes(DestroyIC(instance, n))

FocusIn(n) ==
    /\ n \in instance.ic_list
    /\ instance.CurrentIC # n
    /\ Becomes(OnInputFocus(SetCurrentIC(instance, n)))

IPCFocusOut(n) ==
    /\ n \in Live("ipc")
    /\ instance.CurrentIC = n
    /\ Becomes(SetCurrentIC(instance, NULL))

IPCReset(n) ==
    /\ n \in Live("ipc")
    /\ instance.CurrentIC = n
    /\ Becomes(ResetInput(instance))

(* Two XIM handlers find their context by comparing the id of the focused   *)
(* one without asking for its frontend: the id of a D-Bus context, read as  *)
(* the 16 bits of an XIM id, may happen to be equal.                       *)
XIMIdMatches(n) ==
    \/ instance.CurrentIC = n
    \/ instance.CurrentIC \in Live("ipc")

XIMUnsetFocus(n) ==
    /\ n \in Live("xim")
    /\ XIMIdMatches(n)
    /\ Becomes(ResetInput(instance))

XIMResetIC(n) ==
    /\ n \in Live("xim")
    /\ XIMIdMatches(n)
    /\ Becomes(SetCurrentIC(instance, NULL))

IPCSetCapacity(n, cap) ==
    /\ n \in Live("ipc")
    /\ Becomes([instance EXCEPT !.ic[n].clientSideState = cap])

IPCEnableIC(n) ==
    /\ n \in Live("ipc")
    /\ Becomes(EnableIM(instance, n, FALSE))

IPCCloseIC(n) ==
    /\ n \in Live("ipc")
    /\ Becomes(CloseIM(instance, n))

-----------------------------------------------------------------------------
(* Keys, told apart by what they are bound to.                             *)

Key == {"trigger", "activate", "deactivate", "switch", "next", "prev",
        "text", "commit"}

InstanceProcessKey(I, key) ==
    LET n      == I.CurrentIC
        state  == CurrentState(I)
        cycles == SwitchInactive \/ state = "ACTIVE"
    IN  CASE key = "trigger"    -> IF state = "INACTIVE" THEN ChangeIMState(I, n)
                                                        ELSE CloseIM(I, n)
          [] key = "activate"   -> IF state # "ACTIVE" THEN EnableIM(I, n, FALSE) ELSE I
          [] key = "deactivate" -> IF state = "ACTIVE" THEN CloseIM(I, n) ELSE I
          [] key = "switch"     -> ChangeIMState(I, n)
          [] key = "next" /\ cycles
                                -> SwitchIMByIndex(I, IF SwitchInactive THEN -1 ELSE -3)
          [] key = "prev" /\ cycles
                                -> SwitchIMByIndex(I, IF SwitchInactive THEN -2 ELSE -4)
          [] key = "text"       -> [I EXCEPT !.composing = n]
          [] key = "commit"     -> ResetInput(I)
          [] OTHER              -> I

(* A key for a context that has not the focus gives it the focus first.     *)
ProcessKey(n, key) ==
    LET I == IF instance.CurrentIC # n
             THEN OnInputFocus(SetCurrentIC(instance, n)) ELSE instance
    IN  /\ n \in instance.ic_list
        /\ Becomes(IF I.ic[n].state = "CLOSED"
                   THEN IF key = "trigger" THEN EnableIM(I, n, FALSE) ELSE I
                   ELSE InstanceProcessKey(I, key))

-----------------------------------------------------------------------------
(* Requests on the instance: the D-Bus object, the tray, the selector.     *)

ActivateIM   == Becomes(EnableIM(instance, instance.CurrentIC, FALSE))
InactivateIM == Becomes(CloseIM(instance, instance.CurrentIC))
ToggleIM     == Becomes(ChangeIMState(instance, instance.CurrentIC))
SwitchIM     == Becomes(SwitchIMByIndex(instance, -2))

SetCurrentIM(name) == Becomes(SwitchIMByName(instance, name))

(* The selector sets the input method of the focused context alone.        *)
SelectLocal(name) ==
    /\ instance.CurrentIC # NULL
    /\ LET J == SetLocalIMName(instance, instance.CurrentIC, name)
       IN  Becomes(IF name # NoIM /\ CurrentState(J) # "ACTIVE"
                   THEN EnableIM(J, J.CurrentIC, FALSE) ELSE J)

(* The process of a client ends without a request.                         *)
ClientExit(n) ==
    /\ n \in instance.ic_list \ exited
    /\ instance.ic[n].pidKnown
    /\ exited' = exited \cup {n}
    /\ UNCHANGED instance

Next ==
    \/ \E kind \in Kinds, app \in App \cup {NoApp}, n \in Node :
           IPCCreate(kind, app, n) \/ XIMCreate(kind, app, n)
    \/ \E n \in Node :
           \/ Destroy(n) \/ FocusIn(n) \/ IPCFocusOut(n) \/ IPCReset(n)
           \/ XIMUnsetFocus(n) \/ XIMResetIC(n)
           \/ IPCEnableIC(n) \/ IPCCloseIC(n) \/ ClientExit(n)
           \/ \E cap \in ClientCaps : IPCSetCapacity(n, cap)
           \/ \E key \in Key : ProcessKey(n, key)
    \/ ActivateIM \/ InactivateIM \/ ToggleIM \/ SwitchIM
    \/ \E name \in IM : SetCurrentIM(name)
    \/ \E name \in LocalIM : SelectLocal(name)

Spec == Init /\ [][Next]_vars

-----------------------------------------------------------------------------
TypeOK == /\ instance \in Instance
          /\ exited \subseteq Node

(* CurrentIC and lastIC never dangle: a pointer the instance keeps is to a  *)
(* linked context, never to one that CleanUpIC or DestroyIC has put on the  *)
(* free list, and the focused context is the last focused one.             *)
Linked(I) ==
    /\ I.CurrentIC \in I.ic_list \cup {NULL}
    /\ I.lastIC \in I.ic_list \cup {NULL}
    /\ I.CurrentIC # NULL => I.lastIC = I.CurrentIC
    /\ I.ic_list \cap I.free_list = {}

PointersLinked == Linked(instance)

(* The input method the keys go to is the one the focused context's state   *)
(* and own choice ask for, whatever context changed state, was destroyed    *)
(* or took the focus in between: UpdateCurrentIM is called wherever needed. *)
(* A context whose own input method is the keyboard is not spoken of: the   *)
(* first input method or the keyboard is current for it, as it came about.  *)
Wanted(I, c) ==
    IF c.state = "INACTIVE" THEN 0
    ELSE Position(IF c.imname # NoIM THEN c.imname ELSE I.globalIM, 1)

FollowsFocus(I) ==
    LET c == I.ic[I.CurrentIC]
    IN  I.CurrentIC # NULL /\ c.state # "CLOSED" /\ c.imname # 0
          => I.iIMIndex = Wanted(I, c)

CurrentIMFollowsFocus == FollowsFocus(instance)

(* With shareState All every context that leaves its state to the server    *)
(* has the state of all the others, new ones included.                     *)
SharedStateAgrees ==
    ShareState = "All" =>
        \A n \in instance.ic_list :
            ~ instance.ic[n].clientSideState
                => instance.ic[n].state = instance.globalState

(* With shareState PerProgram the contexts of one program agree.           *)
ProgramStateAgrees ==
    ShareState = "PerProgram" =>
        \A m, n \in instance.ic_list :
            SameProgram(instance.ic[m], instance.ic[n])
                => instance.ic[m].state = instance.ic[n].state

(* Text typed in one context is not left in the input buffer when another   *)
(* context has the focus, where it would be committed to the wrong window.  *)
OwnText(I) == I.CurrentIC # NULL => I.composing \in {I.CurrentIC, NULL}

NoForeignText == OwnText(instance)

(* A client that was told its context is enabled is told before the server  *)
(* closes it: no client goes on sending keys to a closed context.          *)
Told(c) == c.toldEnabled => c.state # "CLOSED"

ClosedIsTold == \A n \in instance.ic_list : Told(instance.ic[n])

-----------------------------------------------------------------------------
(* Two properties comments of the code state and the code does not have.   *)

(* An input method chosen in the menu while no context has the focus is     *)
(* delayed ("this contains delay support", IMMenuAction): it becomes the    *)
(* current one when the last focused context takes the focus again.        *)
DelayedIMApplied ==
    [][\A n \in Node :
          FocusIn(n) /\ instance.lastIC = n /\ instance.delayedIM > 0
              => instance'.iIMIndex = instance.delayedIM]_vars

(* "Ignore the request if current IM is already same with the name": asked  *)
(* for the input method that is already current, SwitchIMByName leaves the  *)
(* instance, and the text that is being typed, alone.                      *)
SameIMIgnored ==
    [][\A name \in IM :
          SetCurrentIM(name) /\ instance.CurrentIC # NULL /\ instance.iIMIndex = name
              => UNCHANGED instance]_vars
=============================================================================
