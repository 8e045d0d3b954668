---------------------------- MODULE InputContexts ----------------------------
(***************************************************************************)
(* The input contexts of one fcitx instance: the list every frontend       *)
(* allocates from, the focused and the last focused context, the state of  *)
(* each context with the policy that shares it, and the input method the   *)
(* focused context is given.                                               *)
(*                                                                         *)
(* All of it is driven from the main loop's thread, one request of a       *)
(* client at a time, so a request is one action.  The functions of the     *)
(* library take the instance and change it; here they are operators from   *)
(* an instance to an instance, composed in the order of the calls.         *)
(***************************************************************************)
EXTENDS Integers

CONSTANTS
    Node,          \* memory cells an input context can occupy
    NULL,          \* the null pointer
    App,           \* programs (prgname of D-Bus clients, connect_id of XIM's)
    NoApp,         \* a D-Bus client that gave no name
    NumIM,         \* length of instance->imes; position 0 is the keyboard
    SelfNamed,     \* input methods whose strName equals their uniqueName
    ShareState,    \* config->shareState
    DefaultState,  \* config->defaultIMState
    SwitchInactive,\* config->bIMSwitchIncludeInactive
    Kinds,         \* the CreateIC calls the clients use
    LocalIM,       \* input methods the IM selector sets for one context
    ClientCaps     \* values of the CLIENT_SIDE_CONTROL_STATE bit clients set

IM    == 0 .. NumIM - 1
NoIM  == -1
State == {"CLOSED", "INACTIVE", "ACTIVE"}
Kind  == {"v1", "v2", "v3", "xim"}

ASSUME NodeAssumption   == NULL \notin Node
ASSUME AppAssumption    == NoApp \notin App
ASSUME NumIMAssumption  == NumIM \in Nat /\ NumIM > 1
ASSUME ConfigAssumption == /\ ShareState \in {"All", "None", "PerProgram"}
                           /\ DefaultState \in {"INACTIVE", "ACTIVE"}
                           /\ SwitchInactive \in BOOLEAN
ASSUME InputAssumption  == /\ Kinds \subseteq Kind
                           /\ SelfNamed \subseteq IM
                           /\ LocalIM \subseteq IM \cup {NoIM}
                           /\ ClientCaps \subseteq BOOLEAN

VARIABLES
    instance,      \* the part of FcitxInstance that is modelled
    exited         \* contexts whose client process has ended

vars == <<instance, exited>>

-----------------------------------------------------------------------------
Frontend(kind) == IF kind = "xim" THEN "xim" ELSE "ipc"

Context ==
    [frontend : {"ipc", "xim"}, state : State, prgname : App \cup {NoApp},
     clientSideState : BOOLEAN,        \* CAPACITY_CLIENT_SIDE_CONTROL_STATE
     imname : IM \cup {NoIM},          \* the context's own input method
     pidKnown : BOOLEAN,               \* GetPid answers a process
     toldEnabled : BOOLEAN]            \* last word the client had on its state

(* ic_list is the set of linked contexts; newer holds <<a, b>> when a was   *)
(* linked before b in the list, that is created later.                     *)
Instance ==
    [ic_list : SUBSET Node, newer : SUBSET (Node \X Node),
     free_list : SUBSET Node, ic : [Node -> Context],
     CurrentIC : Node \cup {NULL}, lastIC : Node \cup {NULL},
     delayedIM : IM \cup {NoIM}, globalState : State,
     iIMIndex : IM, globalIM : IM,
     composing : Node \cup {NULL}]     \* where the typed, uncommitted text is from

CurrentState(I) ==
    IF I.CurrentIC # NULL THEN I.ic[I.CurrentIC].state ELSE "CLOSED"

-----------------------------------------------------------------------------
(* Focus pointers.                                                         *)

SetLastIC(I, n) == [I EXCEPT !.lastIC = n, !.delayedIM = NoIM]

SetCurrentIC(I, n) ==
    IF n # NULL THEN [SetLastIC(I, n) EXCEPT !.CurrentIC = n]
                ELSE [I EXCEPT !.CurrentIC = NULL]

-----------------------------------------------------------------------------
(* The current input method.                                               *)

ResetInput(I) == [I EXCEPT !.composing = NULL]

PositionPastKeyboard(index, least) == index + least     \* mutant of Position

(* Where SwitchIMInternal lands when it is asked for an index; least is 1   *)
(* with skipZero, else 0.                                                  *)
Position(index, least) ==
    IF index >= NumIM THEN NumIM - 1
    ELSE IF index < least THEN least
    ELSE index

SwitchIMInternal(I, index, least) ==
    [ResetInput(I) EXCEPT !.iIMIndex = Position(index, least)]

(* ... with updateGlobal.                                                  *)
SwitchIMGlobally(I, index, least) ==
    LET J == SwitchIMInternal(I, index, least)
    IN  [J EXCEPT !.globalIM = J.iIMIndex]

(* A global input method that is gone, or the keyboard, is repaired first.  *)
UpdateCurrentIM(I) ==
    IF I.CurrentIC = NULL THEN I
    ELSE LET c      == I.ic[I.CurrentIC]
             repair == I.globalIM = 0
             global == IF repair THEN 1 ELSE I.globalIM
             least  == IF c.state = "ACTIVE" THEN 1 ELSE 0
             target == IF c.state # "ACTIVE" THEN 0
                       ELSE IF c.imname # NoIM THEN c.imname ELSE global
         IN  IF repair THEN SwitchIMGlobally(I, target, least)
             ELSE IF target # I.iIMIndex THEN SwitchIMInternal(I, target, least)
             ELSE I

SetLocalIMNameLater(I, n, name) ==                      \* mutant of SetLocalIMName
    [I EXCEPT !.ic[n].imname = name]

SetLocalIMName(I, n, name) ==
    LET J == [I EXCEPT !.ic[n].imname = name]
    IN  IF n = I.CurrentIC THEN UpdateCurrentIM(J) ELSE J

-----------------------------------------------------------------------------
(* The state of the contexts and how it is shared.                         *)

(* The frontends' own test: the same program name, or XIM connection.      *)
SameProgram(a, b) ==
    /\ a.frontend = b.frontend
    /\ a.prgname = b.prgname
    /\ a.prgname # NoApp

SameApplication(I, m, n) ==
    \/ m = n
    \/ /\ I.ic[m].imname = NoIM /\ I.ic[n].imname = NoIM
       /\ SameProgram(I.ic[m], I.ic[n])

SharingWithinProgram(I, n) ==                           \* mutant of Sharing
    IF ShareState = "None" THEN {n}
    ELSE {m \in I.ic_list : SameApplication(I, m, n)}

(* The contexts a change of n's state reaches.                             *)
Sharing(I, n) ==
    IF ShareState = "None" THEN {n}
    ELSE {m \in I.ic_list : /\ ShareState = "All" \/ SameApplication(I, m, n)
                            /\ m = n \/ ~ I.ic[m].clientSideState}

(* What each of the contexts reached goes through.  The client hears of an  *)
(* enabling that ends CLOSED and of every closing, and of nothing else.    *)
Enabled(c) == [c EXCEPT !.state = "ACTIVE",
                        !.toldEnabled = @ \/ c.state = "CLOSED"]

ClosedSilently(c) == [c EXCEPT !.state = "CLOSED"]      \* mutant of Closed

Closed(c) == [c EXCEPT !.state = "CLOSED", !.toldEnabled = FALSE]

EnableIM(I, n, keepState) ==
    IF n = NULL THEN I
    ELSE LET hit == Sharing(I, n)
             J == [I EXCEPT !.globalState = "ACTIVE",
                            !.ic = [m \in Node |-> IF m \in hit THEN Enabled(I.ic[m])
                                                                ELSE I.ic[m]]]
         IN  UpdateCurrentIM(IF I.CurrentIC \in hit /\ ~ keepState
                             THEN ResetInput(J) ELSE J)

ChangeIMState(I, n) ==
    IF n = NULL THEN I
    ELSE LET object == IF I.ic[n].state = "INACTIVE" THEN "ACTIVE" ELSE "INACTIVE"
             hit    == Sharing(I, n)
         IN  UpdateCurrentIM(
                 [I EXCEPT !.globalState = object,
                           !.ic = [m \in Node |->
                                IF m \in hit THEN [I.ic[m] EXCEPT !.state = object]
                                             ELSE I.ic[m]]])

(* Only a context with CLIENT_SIDE_CONTROL_STATE is closed; any other one   *)
(* is made inactive.  The current input method is not looked at again.     *)
CloseIM(I, n) ==
    IF n = NULL THEN I
    ELSE IF ~ I.ic[n].clientSideState
         THEN IF I.ic[n].state = "ACTIVE" THEN ChangeIMState(I, n) ELSE I
         ELSE LET hit == Sharing(I, n)
                  J == [I EXCEPT !.globalState = "CLOSED",
                                 !.ic = [m \in Node |-> IF m \in hit THEN Closed(I.ic[m])
                                                                     ELSE I.ic[m]]]
              IN  IF I.CurrentIC \in hit THEN ResetInput(J) ELSE J

-----------------------------------------------------------------------------
(* Choosing an input method.                                               *)

(* -1 and -2 step forward and back through all of imes, -3 and -4 through   *)
(* all but the keyboard.                                                   *)
StepIndex(index, from) ==
    LET skipZero == index \in {-3, -4}
    IN  CASE index \in {-2, -4} ->
                 IF from > 0 /\ ~ (from = 1 /\ skipZero) THEN from - 1 ELSE NumIM - 1
          [] index \in {-1, -3} ->
                 IF from >= NumIM - 1 THEN (IF skipZero THEN 1 ELSE 0) ELSE from + 1
          [] OTHER -> index

SwitchIMByIndex(I, index) ==
    LET k == StepIndex(index, I.iIMIndex)
        n == I.CurrentIC
    IN  IF k = 0 THEN CloseIM(I, n)
        ELSE LET J == IF n # NULL THEN SetLocalIMName(I, n, NoIM) ELSE I
                 K == SwitchIMGlobally(J, k, 1)
             IN  IF CurrentState(K) # "ACTIVE" THEN EnableIM(K, n, FALSE) ELSE K

SwitchIMByName(I, name) ==
    IF I.CurrentIC = NULL THEN [I EXCEPT !.delayedIM = name]
    ELSE IF I.iIMIndex = name /\ name \in SelfNamed THEN I
    ELSE SwitchIMByIndex(I, name)

OnInputFocusKeepsText(I) ==                             \* mutant of OnInputFocus
    IF I.lastIC = I.CurrentIC /\ I.delayedIM # NoIM
    THEN SwitchIMByName(I, I.delayedIM) ELSE UpdateCurrentIM(I)

(* The frontends call this right after SetCurrentIC.                       *)
OnInputFocus(I) ==
    LET J == ResetInput(I)
    IN  IF J.lastIC = J.CurrentIC /\ J.delayedIM # NoIM
        THEN SwitchIMByName(J, J.delayedIM)
        ELSE UpdateCurrentIM(J)

-----------------------------------------------------------------------------
(* The list of contexts.                                                   *)

(* A cell nobody uses.  What a freed one still holds is never read: CreateIC *)
(* clears the cell it takes.                                               *)
Blank == [frontend |-> "ipc", state |-> "CLOSED", prgname |-> NoApp,
          clientSideState |-> FALSE, imname |-> NoIM, pidKnown |-> FALSE,
          toldEnabled |-> FALSE]

Unlink(I, gone) ==
    [I EXCEPT !.ic_list = @ \ gone,
              !.ic = [n \in Node |-> IF n \in gone THEN Blank ELSE I.ic[n]],
              !.newer = {p \in @ : p[1] \notin gone /\ p[2] \notin gone},
              !.free_list = @ \cup gone]

(* Drop every context whose client has a known process that has ended.     *)
CleanUpIC(I) ==
    LET gone == {n \in I.ic_list : I.ic[n].pidKnown /\ n \in exited}
        J == Unlink(I, gone)
        K == IF I.lastIC \in gone THEN SetLastIC(J, NULL) ELSE J
    IN  IF I.CurrentIC \in gone THEN SetCurrentIC(K, NULL) ELSE K

(* The list cells CreateIC may hand out: a freed one, else a new one.      *)
Allocatable(I) == IF I.free_list # {} THEN I.free_list ELSE Node \ I.ic_list

StateFromConfig(I, c) == c.state          \* mutant of StateFromSameApplication

(* The state a new context of a program starts with when its program's      *)
(* contexts share one: that of the first match in the list, the newest.     *)
StateFromSameApplication(I, c) ==
    LET match == {m \in I.ic_list : SameProgram(I.ic[m], c)}
        first == {m \in match : \A o \in match \ {m} : <<m, o>> \in I.newer}
    IN  IF first = {} THEN c.state ELSE I.ic[CHOOSE m \in first : TRUE].state

NewContext(I, kind, app) ==
    LET fresh == [frontend |-> Frontend(kind),
                  state |-> IF ShareState = "All" THEN I.globalState ELSE DefaultState,
                  prgname |-> IF kind = "v1" THEN NoApp ELSE app,
                  clientSideState |-> FALSE, imname |-> NoIM,
                  pidKnown |-> kind = "v3", toldEnabled |-> FALSE]
        state == CASE kind = "v1" -> "CLOSED"
                   [] kind # "v1" /\ ShareState = "PerProgram"
                        -> StateFromSameApplication(I, fresh)
                   [] OTHER -> fresh.state
    IN  [fresh EXCEPT !.state = state, !.clientSideState = (kind = "v1"),
                      !.toldEnabled = (kind # "xim" /\ state # "CLOSED")]

CreateIC(I, kind, app, n) ==
    [I EXCEPT !.free_list = @ \ {n},
              !.ic[n] = NewContext(I, kind, app),
              !.newer = @ \cup ({n} \X I.ic_list),
              !.ic_list = @ \cup {n}]

DestroyICKeepsLast(I, n) ==                             \* mutant of DestroyIC
    LET J == Unlink(I, {n})
    IN  IF I.CurrentIC = n THEN SetCurrentIC(J, NULL) ELSE J

DestroyIC(I, n) ==
    LET J == Unlink(I, {n})
        K == IF I.lastIC = n THEN SetLastIC(J, NULL) ELSE J
    IN  IF I.CurrentIC = n THEN SetCurrentIC(K, NULL) ELSE K

=============================================================================
