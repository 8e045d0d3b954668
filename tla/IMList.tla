------------------------------- MODULE IMList -------------------------------
(***************************************************************************)
(* The list of input methods: what the installed engines offer (availimes) *)
(* is put in the order of the profile's EnabledIMList (imes), the current  *)
(* input method is an index into it, and the profile is saved when either  *)
(* changes.  An engine registered by a configuration file is loaded when   *)
(* one of its input methods is first switched to.                          *)
(*                                                                         *)
(* The functions call each other: rebuilding the list chooses the current  *)
(* input method, switching to it may load an engine, and an engine that    *)
(* has been loaded makes the list be rebuilt.  Each is an operator from    *)
(* the instance before it to the instance after it, and those that come    *)
(* back to the rebuilding have it as the parameter update, a function.     *)
(* Frontends models the contexts; here they are the one that has the       *)
(* focus, sharing nothing.                                                 *)
(***************************************************************************)
EXTENDS Integers, Sequences, SequencesExt

CONSTANTS
    Order,         \* the input methods by priority and name (IMPriorityCmp)
    NoName,        \* "" or NULL
    Disabled,      \* those whose priority is at least PRIORITY_DISABLE
    LangMatch,     \* those for the user's language
    PrefixOf,      \* the names that begin with a name, itself included
    Addon,         \* the engines
    Keyboard,      \* the engine of the input method whose priority is 0
    Owner,         \* the engine an input method's configuration file names
    Lazy,          \* engines with registerMethod IMRM_CONFIGFILE
    Calls,         \* the engine the Init of an input method calls, or NoName
    Lists,         \* the lists a configuration tool sets
    Removable,     \* engines that may be installed and removed meanwhile
    Edits          \* whether the profile is edited, then loaded by itself

Name == Range(Order)

ASSUME NameAssumption ==
    /\ Order \in Seq(Name) /\ Len(Order) > 0 /\ IsInjective(Order) /\ NoName \notin Name
    /\ Disabled \subseteq Name /\ LangMatch \subseteq Name
    /\ PrefixOf \in [Name -> SUBSET Name] /\ \A n \in Name : n \in PrefixOf[n]
    /\ Owner \in [Name -> Addon] /\ Calls \in [Name -> Lazy \cup {NoName}]
    /\ IsFiniteSet(Addon) /\ NoName \notin Addon
    /\ Lazy \subseteq Addon /\ Removable \subseteq Addon \ {Keyboard}
    /\ Owner[Order[1]] = Keyboard /\ Keyboard \in Addon \ Lazy

VARIABLES
    instance,      \* the fields of FcitxInstance these functions change
    installed,     \* the engines whose files are there
    reload         \* FEF_RELOAD_ADDON

vars == <<instance, installed, reload>>

Entry == [name : Name, on : BOOLEAN]           \* "name:True" of EnabledIMList

NamesOf(list) == [i \in DOMAIN list |-> list[i].name]

(* A tool names an input method once: nothing checks that.                 *)
ASSUME ListsAssumption ==
    \A list \in Lists : list \in Seq(Entry) /\ IsInjective(NamesOf(list))

Profile == [imList : Seq(Entry), imName : Name \cup {NoName}]

Context == [here : BOOLEAN, active : BOOLEAN, imname : Name \cup {NoName}]

Instance ==
    [avail : SUBSET Name, initialized : SUBSET Name, loaded : SUBSET Addon,
     imes : Seq(Name), unused : Seq(Entry), imList : Seq(Entry), disk : Profile,
     globalIM : Name \cup {NoName}, iIMIndex : Int, ic : Context, imLoaded : BOOLEAN]

Offered(a) == {n \in Name : Owner[n] = a}

Names(list) == {list[i].name : i \in DOMAIN list}

(* FcitxInstanceGetIMIndexByName: C counts from 0, and -1 is no index.      *)
IMIndexByName(s, n) ==
    IF \E i \in DOMAIN s.imes : s.imes[i] = n
    THEN (CHOOSE i \in DOMAIN s.imes :
             s.imes[i] = n /\ \A j \in 1..(i - 1) : s.imes[j] # n) - 1
    ELSE -1

(* The elements of a sequence that are in S, in their order.               *)
Among(seq, S) ==
    LET at == {i \in DOMAIN seq : seq[i] \in S}
    IN  [k \in 1..Cardinality(at) |->
            seq[CHOOSE i \in at : Cardinality({j \in at : j <= i}) = k]]

EnabledEntry(avail) == [name : avail, on : {TRUE}]

EntryOf(names) == [name : names, on : BOOLEAN]

(* utarray_eltptr: NULL outside the array.                                 *)
IMByIndex(s, i) == IF i \in 0..(Len(s.imes) - 1) THEN s.imes[i + 1] ELSE NoName

CurrentIM(s) == IMByIndex(s, s.iIMIndex)

-----------------------------------------------------------------------------
(* The profile.                                                            *)

SavedListAvailable(s) ==                                \* mutant of SavedList
    LET off == Among(Order, s.avail \ Range(s.imes))
    IN  [i \in DOMAIN s.imes |-> [name |-> s.imes[i], on |-> TRUE]]
        \o [i \in DOMAIN off |-> [name |-> off[i], on |-> FALSE]]

SavedListOfImes(s) == [i \in DOMAIN s.imes |-> [name |-> s.imes[i], on |-> TRUE]]
                                                        \* mutant of SavedList
(* FilterIMList: the enabled ones in their order, those not enabled, and    *)
(* those of the list that nothing offers now.                               *)
SavedList(s) ==
    LET off == Among(Order, s.avail \ Range(s.imes))
    IN  [i \in DOMAIN s.imes |-> [name |-> s.imes[i], on |-> TRUE]]
        \o [i \in DOMAIN off |-> [name |-> off[i], on |-> FALSE]]
        \o s.unused

SaveProfile(s) ==
    [s EXCEPT !.imList = SavedList(s),
              !.disk = [imList |-> SavedList(s), imName |-> s.globalIM]]

-----------------------------------------------------------------------------
(* Engines.                                                                *)

(* Create registers what the engine offers; without its file nothing is     *)
(* changed.                                                                 *)
LoadIM(s, a) ==
    IF a \notin installed THEN s
    ELSE [s EXCEPT !.avail = @ \cup Offered(a),
                   !.initialized = @ \cup Offered(a), !.loaded = @ \cup {a}]

-----------------------------------------------------------------------------
(* The list.                                                               *)

(* IMIsInIMNameList: strncmp over the length of the input method's name.    *)
IsInNameList(list, n) == PrefixOf[n] \cap Names(list) # {}

(* Those the list does not name come one by one behind the first, unless    *)
(* there is none; the one of priority 0 comes before all.  Without a list   *)
(* only those for the user's language come.                                *)
WithNew(old, new, empty) ==
    LET front == IF Order[1] \in new THEN <<Order[1]>> \o old ELSE old
        fit   == (IF empty THEN LangMatch ELSE Name) \ (Disabled \cup {Order[1]})
    IN  IF front = <<>> THEN front
        ELSE <<Head(front)>> \o Reverse(Among(Order, new \cap fit)) \o Tail(front)

ListedTwice(list, avail) ==                             \* mutant of Listed
    WithNew(NamesOf(Among(list, EnabledEntry(avail))), avail, list = <<>>)

Listed(list, avail) ==
    WithNew(NamesOf(Among(list, EnabledEntry(avail))),
            {n \in avail : ~IsInNameList(list, n)}, list = <<>>)

-----------------------------------------------------------------------------
(* The current input method.                                               *)

TargetIgnoringLocal(s, global) ==                       \* mutant of Target
    IF s.ic.here /\ ~s.ic.active THEN 0 ELSE global

Target(s, global) ==
    IF s.ic.here /\ ~s.ic.active THEN 0
    ELSE IF s.ic.here /\ s.ic.imname # NoName THEN IMIndexByName(s, s.ic.imname)
    ELSE global

Clamped(s, index, skipZero) ==
    LET n == Len(s.imes)
        i == IF index >= n THEN n - 1 ELSE IF index < 0 THEN 0 ELSE index
    IN  IF n <= 1 THEN 0 ELSE IF skipZero /\ i = 0 THEN 1 ELSE i

(* An engine that does not register the input method loses its entry.      *)
LazyLoad(update, s, n) ==
    LET s1 == LoadIM(s, Owner[n])
        s2 == IF n \in s1.initialized THEN s1 ELSE [s1 EXCEPT !.avail = @ \ {n}]
        s3 == update[s2]
    IN  [s3 EXCEPT !.iIMIndex = IMIndexByName(s3, n)]

(* FcitxModuleFindFunction loads the engine whose function is asked for.    *)
FindFunction(update, s, a) ==
    IF a \in s.loaded THEN s ELSE update[LoadIM(s, a)]

(* The addon is in the list of addons: it offers something.                *)
Known(s, a) == \E n \in s.avail : Owner[n] = a

(* TableInit asks for a function of pinyin.  An engine whose file has gone  *)
(* since it became known is asked again from each rebuilt list, without     *)
(* end: the model leaves that out.                                         *)
InitIM(update, s, n) ==
    IF Calls[n] \in installed /\ Known(s, Calls[n])
    THEN FindFunction(update, s, Calls[n]) ELSE s

(* What is current is loaded, then initialised.                            *)
LoadCurrent(update, s) ==
    IF CurrentIM(s) \in s.avail \ s.initialized THEN LazyLoad(update, s, CurrentIM(s)) ELSE s

InitCurrent(update, s) ==
    IF CurrentIM(s) # NoName THEN InitIM(update, s, CurrentIM(s)) ELSE s

UpdateGlobal(s, newIM) ==
    IF newIM \notin {NoName, s.globalIM} THEN SaveProfile([s EXCEPT !.globalIM = newIM])
    ELSE s

(* newIM is a pointer into the array as it was before Init was called.      *)
SwitchIMInternal(update, s, index, skipZero, updateGlobal) ==
    LET s1 == LoadCurrent(update, [s EXCEPT !.iIMIndex = Clamped(s, index, skipZero)])
        s2 == InitCurrent(update, s1)
    IN  IF updateGlobal THEN UpdateGlobal(s2, IMByIndex(s2, s1.iIMIndex)) ELSE s2

(* A global name that is not enabled, or is the first, is repaired.         *)
UpdateCurrentIM(update, s, force) ==
    IF ~s.ic.here /\ ~force THEN s
    ELSE LET global == IMIndexByName(s, s.globalIM)
             repair == global <= 0 /\ Len(s.imes) > 1
             local  == IF s.ic.imname \in Range(s.imes) THEN s.ic.imname ELSE NoName
             s1 == [s EXCEPT !.globalIM = IF repair THEN s.imes[2] ELSE @,
                             !.ic.imname = local]
             target == Target(s1, IF repair THEN 1 ELSE global)
             skipZero == ~(s.ic.here /\ ~s.ic.active)
         IN  IF force \/ repair \/ target # s.iIMIndex
             THEN SwitchIMInternal(update, s1, target, skipZero, repair)
             ELSE s1

UpdateIMListQuietly(update, s) ==                            \* mutant of UpdateIMList
    LET s1 == [s EXCEPT
                 !.imes = Listed(s.imList, s.avail),
                 !.unused = Among(s.imList, EntryOf(Name \ s.avail)),
                 !.imList = Among(s.imList, EntryOf(s.avail))]
    IN  SaveProfile(UpdateCurrentIM(update, s1, FALSE))

UpdateIMList(update, s) ==
    LET s1 == [s EXCEPT
                 !.imes = Listed(s.imList, s.avail),
                 !.unused = Among(s.imList, EntryOf(Name \ s.avail)),
                 !.imList = Among(s.imList, EntryOf(s.avail))]
    IN  IF s.imLoaded THEN SaveProfile(UpdateCurrentIM(update, s1, TRUE)) ELSE s

Rebuilt[s \in Instance] == UpdateIMList(Rebuilt, s)

(* Engines with configuration files are offered without being loaded; the   *)
(* others that are not loaded yet are.                                      *)
LoadAllIM(s) ==
    LET files == {n \in Name : Owner[n] \in installed \cap Lazy}
        self  == installed \ (Lazy \cup s.loaded)
        own   == UNION {Offered(a) : a \in self}
    IN  Rebuilt[[s EXCEPT !.avail = @ \cup files \cup own,
                          !.initialized = @ \cup own,
                          !.loaded = @ \cup self, !.imLoaded = TRUE]]

-----------------------------------------------------------------------------
(* Switching.                                                              *)

SetLocalIMName(s, n) == UpdateCurrentIM(Rebuilt, [s EXCEPT !.ic.imname = n], FALSE)

SetState(s, active) == UpdateCurrentIM(Rebuilt, [s EXCEPT !.ic.active = active], FALSE)

(* -1 and -2 scroll; -3 and -4 do without the first.                       *)
Resolved(s, index) ==
    LET n == Len(s.imes)
        skipZero == index \in {-3, -4}
    IN  IF index \in {-2, -4}
        THEN IF s.iIMIndex <= 0 \/ (s.iIMIndex = 1 /\ skipZero) THEN n - 1
             ELSE s.iIMIndex - 1
        ELSE IF index \in {-1, -3}
        THEN IF s.iIMIndex < n - 1 THEN s.iIMIndex + 1
             ELSE IF skipZero THEN 1 ELSE 0
        ELSE index

Activated(s) == IF s.ic.here /\ ~s.ic.active THEN SetState(s, TRUE) ELSE s

SwitchIMByIndexLocally(s, index) ==               \* mutant of SwitchIMByIndex
    LET i == Resolved(s, index)
    IN  IF i = 0 THEN IF s.ic.here /\ s.ic.active THEN SetState(s, FALSE) ELSE s
        ELSE Activated(SwitchIMInternal(Rebuilt, s, i, TRUE, TRUE))

SwitchIMByIndex(s, index) ==
    LET i  == Resolved(s, index)
        s1 == IF s.ic.here THEN SetLocalIMName(s, NoName) ELSE s
    IN  IF i = 0 THEN IF s.ic.here /\ s.ic.active THEN SetState(s, FALSE) ELSE s
        ELSE Activated(SwitchIMInternal(Rebuilt, s1, i, TRUE, TRUE))

Fresh(disk) ==
    [avail |-> {}, initialized |-> {}, loaded |-> {}, imes |-> <<>>, unused |-> <<>>,
     imList |-> disk.imList, globalIM |-> disk.imName, iIMIndex |-> 0, disk |-> disk,
     ic |-> [here |-> FALSE, active |-> FALSE, imname |-> NoName], imLoaded |-> FALSE]

(* FcitxInstanceCreate, from the profile on disk.                          *)
Started(disk) ==
    LET s == LoadAllIM(Fresh(disk))
        at == IMIndexByName(s, s.disk.imName)
        i  == IF at < 0 THEN 0 ELSE at
    IN  SwitchIMByIndex([s EXCEPT !.iIMIndex = i], i)

-----------------------------------------------------------------------------
(* What is asked of the instance.                                          *)

Init ==
    /\ installed \in {a \in SUBSET Addon : Keyboard \in a /\ Addon \ Removable \subseteq a}
    /\ instance = Fresh([imList |-> <<>>, imName |-> NoName])
    /\ reload = FALSE

Start ==                                       \* the first time or again
    /\ instance' = Started(instance.disk)
    /\ reload' = FALSE
    /\ UNCHANGED installed

Install(a) ==
    /\ instance.imLoaded
    /\ installed' = installed \cup {a}
    /\ UNCHANGED <<instance, reload>>

Uninstall(a) ==
    /\ instance.imLoaded
    /\ installed' = installed \ {a}
    /\ UNCHANGED <<instance, reload>>

(* A configuration tool, which knows the available ones, or ResetIMList.    *)
SetIMList(list) ==
    /\ instance.imLoaded
    /\ instance' = Rebuilt[[instance EXCEPT !.imList =
                       Among(list, EntryOf(instance.avail))]]
    /\ UNCHANGED <<installed, reload>>

Switch(index) ==
    /\ instance.imLoaded
    /\ index < Len(instance.imes)
    /\ instance' = SwitchIMByIndex(instance, index)
    /\ UNCHANGED <<installed, reload>>

(* Without a context the name is kept for the next one: see Frontends.  The *)
(* name is compared with the current one's strName, which is what the user  *)
(* is shown and not a name of this kind.                                   *)
SwitchIMByName(n) ==
    /\ instance.ic.here
    /\ n \in Range(instance.imes)
    /\ Switch(IMIndexByName(instance, n))

(* The selector offers the first nine behind the first.                    *)
ChooseLocally(n) ==
    /\ instance.ic.here
    /\ IMIndexByName(instance, n) > 0
    /\ instance' = Activated(SetLocalIMName(instance, n))
    /\ UNCHANGED <<installed, reload>>

ClearLocal ==
    /\ instance.ic.here
    /\ instance' = SetLocalIMName(instance, NoName)
    /\ UNCHANGED <<installed, reload>>

FocusIn(active, n) ==
    /\ instance.imLoaded
    /\ instance' = UpdateCurrentIM(Rebuilt,
         [instance EXCEPT !.ic = [here |-> TRUE, active |-> active, imname |-> n]], FALSE)
    /\ UNCHANGED <<installed, reload>>

FocusOut ==
    /\ instance.imLoaded
    /\ instance' = [instance EXCEPT
                      !.ic = [here |-> FALSE, active |-> FALSE, imname |-> NoName]]
    /\ UNCHANGED <<installed, reload>>

ChangeIMState ==
    /\ instance.ic.here
    /\ instance' = SetState(instance, ~instance.ic.active)
    /\ UNCHANGED <<installed, reload>>

(* DoTableInput could not load the dictionary of the current table.         *)
DropTable ==
    LET n == CurrentIM(instance)
    IN  /\ instance.ic.here /\ instance.ic.active
        /\ n # NoName /\ Owner[n] \notin Lazy \cup {Keyboard}
        /\ instance' = Rebuilt[[instance EXCEPT !.avail = @ \ {n},
                                                !.initialized = @ \ {n}]]
        /\ UNCHANGED <<installed, reload>>

(* A function of an engine is asked for by a module.                       *)
CallEngine(a) ==
    /\ a \in installed /\ Known(instance, a)
    /\ instance' = FindFunction(Rebuilt, instance, a)
    /\ UNCHANGED <<installed, reload>>

ProfileLoad(s) == [s EXCEPT !.imList = s.disk.imList, !.globalIM = s.disk.imName]

ReloadConfig ==
    /\ instance.imLoaded
    /\ instance' = ProfileLoad(instance)
    /\ reload' = TRUE
    /\ UNCHANGED installed

ReloadAddon ==
    /\ reload
    /\ instance' = LoadAllIM(instance)
    /\ reload' = FALSE
    /\ UNCHANGED installed

EditProfile(list) ==
    /\ instance.imLoaded
    /\ Edits
    /\ instance' = [instance EXCEPT !.disk.imList = list]
    /\ UNCHANGED <<installed, reload>>

ReloadProfile ==                               \* ReloadAddonConfig("profile")
    /\ instance.imLoaded
    /\ Edits
    /\ instance' = ProfileLoad(instance)
    /\ UNCHANGED <<installed, reload>>

Next ==
    \/ Start \/ FocusOut \/ ClearLocal \/ ChangeIMState \/ DropTable
    \/ ReloadConfig \/ ReloadAddon \/ ReloadProfile
    \/ \E a \in Removable : Install(a) \/ Uninstall(a)
    \/ \E a \in Lazy : CallEngine(a)
    \/ \E list \in Lists : SetIMList(list) \/ EditProfile(list)
    \/ \E index \in -4..-1 : Switch(index)
    \/ \E n \in Name : SwitchIMByName(n) \/ ChooseLocally(n)
    \/ \E active \in BOOLEAN, n \in Name \cup {NoName} : FocusIn(active, n)

Spec == Init /\ [][Next]_vars

-----------------------------------------------------------------------------
(* Properties.                                                             *)

(* Every input method that is enabled is offered by an engine, once; what   *)
(* is not offered waits in unusedItem and nowhere else.                     *)
TypeOK ==
    /\ installed \subseteq Addon /\ reload \in BOOLEAN
    /\ instance \in Instance
    /\ instance.initialized \subseteq instance.avail
    /\ Range(instance.imes) \subseteq instance.avail /\ IsInjective(instance.imes)
    /\ Names(instance.unused) \cap instance.avail = {}

(* instance->iIMIndex is always an index into imes, or 0 when nothing is    *)
(* enabled, however often the list is rebuilt between two switches          *)
(* (GetCurrentIM returns what is there).                                   *)
IndexInRange ==
    instance.imLoaded => instance.iIMIndex \in {0} \cup 0..(Len(instance.imes) - 1)

(* While a context has the focus, the current input method is the first     *)
(* when the context is inactive, and otherwise the context's own choice or  *)
(* the one shared by all, whatever happened to the list, the profile or the *)
(* engines since it was chosen.  One that has become the first may be       *)
(* stepped over.                                                           *)
IndexFollowsFocus ==
    LET ic     == instance.ic
        first  == instance.imes[1]
        chosen == IF ~ic.active THEN first
                  ELSE IF ic.imname # NoName THEN ic.imname ELSE instance.globalIM
    IN  ic.here /\ Len(instance.imes) > 1 =>
            \/ CurrentIM(instance) = chosen
            \/ ic.active /\ chosen = first /\ instance.iIMIndex = 1

(* A restart gives the list and the shared choice there were, when the      *)
(* engines that are installed offer what was offered.                      *)
Chosen(s) == IF IMIndexByName(s, s.globalIM) > 0 THEN s.globalIM ELSE IMByIndex(s, 1)

RestartKeepsList ==
    [][Start /\ instance.imLoaded /\ instance'.avail = instance.avail =>
           /\ instance'.imes = instance.imes
           /\ Chosen(instance') = Chosen(instance)]_vars

(* A switch by name makes the input method it names the current one, for    *)
(* an inactive context and for one with its own choice too.                *)
SwitchTakesEffect ==
    [][\A n \in Name : SwitchIMByName(n) => CurrentIM(instance') = n]_vars

(* While the profile on disk is the one the instance has and saves, no step *)
(* loses from it what is said of an input method that is not offered (only  *)
(* the setting of another list does): it is as it was when its engine is    *)
(* installed again.                                                        *)
UnavailableRemembered ==
    [][instance.disk.imList = SavedList(instance) /\ instance.imList = instance.disk.imList =>
         \/ \E list \in Lists : SetIMList(list) \/ EditProfile(list)
         \/ \A e \in Range(instance.disk.imList) :
               e.name \in instance'.avail \/ e \in Range(instance'.disk.imList)]_vars

(* The repair of a global name that is not enabled ("global index is not    *)
(* valid, that's why we need to fix it") leaves one that is.               *)
GlobalIsRepaired ==
    Len(instance.imes) > 1 /\ ~reload => IMIndexByName(instance, instance.globalIM) > 0

(* An input method the profile has not heard of is enabled when its engine  *)
(* is found, unless its priority says it is not by default.                *)
NewIsEnabled ==
    [][\A n \in instance'.avail \ (instance.avail \cup Disabled) :
          instance.disk.imList = <<>> \/ n \in Names(instance.disk.imList)
          \/ n \in Range(instance'.imes)]_vars

(* A profile that has been loaded is applied once nothing is left to do.    *)
ProfileApplied == ~reload => Listed(instance.imList, instance.avail) = instance.imes
=============================================================================
