------------------------------- MODULE StartUp -------------------------------
(***************************************************************************)
(* The start and the end of an instance: RunInstance up to its loop, with   *)
(* the addons it enables and creates, and the thread that wants the         *)
(* instance, with the semaphores between the two.                           *)
(*                                                                         *)
(* What Create of an addon does is left open: it may return NULL, and it    *)
(* may call FcitxInstanceEnd (the name on the bus is taken, an X error).    *)
(***************************************************************************)
EXTENDS Naturals, Sequences, FiniteSets

CONSTANTS
    Addon,
    NoAddon,
    All,           \* the word "all" of the option --disable
    Category,      \* [Addon -> {"module", "engine", "ui", "frontend"}]
    Priority,      \* [Addon -> Nat]
    Depends,       \* [Addon -> SUBSET Addon]
    Fallback,      \* [Addon -> Addon \cup {NoAddon}]: of a user interface
    Listed,        \* engines whose input methods have files of their own
    Watching,      \* modules with descriptors the loop watches
    Listings,      \* orders in which the addons may be listed
    Options        \* command lines and configurations

ASSUME AddonAssumption ==
    /\ NoAddon \notin Addon /\ All \notin Addon
    /\ Category \in [Addon -> {"module", "engine", "ui", "frontend"}]
    /\ Priority \in [Addon -> Nat]
    /\ Depends \in [Addon -> SUBSET Addon]
    /\ Fallback \in [Addon -> Addon \cup {NoAddon}]
    /\ Listed \subseteq Addon /\ Watching \subseteq Addon

(* The files are found in any order and sorted by priority.                *)
ASSUME ListingsAssumption ==
    \A s \in Listings :
        /\ s \in Seq(Addon)
        /\ \A a \in Addon : \E i \in DOMAIN s : s[i] = a
        /\ \A i, j \in DOMAIN s : i < j => s[i] # s[j] /\ Priority[s[i]] <= Priority[s[j]]

Option ==
    [conf : SUBSET Addon,                  \* enabled in the configuration
     enable : SUBSET Addon,                \* --enable
     disable : SUBSET (Addon \cup {All}),  \* --disable
     uiname : Addon \cup {NoAddon},        \* --ui
     sem : BOOLEAN,                        \* FcitxInstanceCreate..., not ...Run
     fd : BOOLEAN]                         \* there is a descriptor for signals

ASSUME OptionsAssumption == Options \subseteq Option

VARIABLES
    options,
    addons,        \* the array of addons
    enabled,       \* those with bEnabled
    tried,         \* those whose Create was called
    loaded,        \* those kept: in modules, frontends, or with an instance
    pc, idx,       \* where the thread of the instance is
    caller,        \* where the thread is that wants the instance
    instance,      \* the flags of the instance
    notifySem, startUpSem,
    sem            \* the caller's semaphore, which tells the end

vars == <<options, addons, enabled, tried, loaded, pc, idx, caller, instance,
          notifySem, startUpSem, sem>>

Phase == {"config", "lists", "chooseui", "depends", "module", "engine", "ui", "frontend",
          "ready", "paused", "loop", "ended"}

Flags == [initialized : BOOLEAN, loadingFatalError : BOOLEAN, destroy : BOOLEAN]

TypeOK ==
    /\ options \in Option
    /\ addons \in Seq(Addon)
    /\ enabled \subseteq Addon /\ tried \subseteq Addon /\ loaded \subseteq tried
    /\ pc \in Phase /\ idx \in 1 .. Len(addons) + 1
    /\ caller \in {"none", "waiting", "created", "started"}
    /\ instance \in Flags
    /\ notifySem \in Nat /\ startUpSem \in Nat /\ sem \in Nat

Init ==
    /\ options \in Options
    /\ addons \in Listings
    /\ enabled = options.conf
    /\ tried = {} /\ loaded = {}
    /\ pc = "config" /\ idx = 1
    /\ caller = IF options.sem THEN "waiting" ELSE "none"
    /\ instance = [initialized |-> FALSE, loadingFatalError |-> FALSE, destroy |-> FALSE]
    /\ notifySem = 0 /\ startUpSem = 0 /\ sem = 0

-----------------------------------------------------------------------------
(* FcitxInstanceEnd: before the start it is a fatal error of the loading,   *)
(* which ends nothing but is told; after it, the loop will end.            *)
FcitxInstanceEnd ==
    /\ instance' = IF instance.destroy THEN instance
                   ELSE IF instance.initialized THEN [instance EXCEPT !.destroy = TRUE]
                   ELSE [instance EXCEPT !.loadingFatalError = TRUE]
    /\ sem' = IF options.sem /\ ~instance.destroy /\ ~instance.initialized
                 /\ ~instance.loadingFatalError
              THEN sem + 1 ELSE sem

FlagsKept == UNCHANGED <<instance, sem>>

(* error_exit: the semaphore posted is the one the thread itself waits for. *)
ErrorExit ==
    /\ startUpSem' = IF options.sem THEN startUpSem + 1 ELSE startUpSem
    /\ FcitxInstanceEnd
    /\ pc' = "ended"

GoesOn(next) == pc' = next /\ idx' = 1 /\ FlagsKept /\ UNCHANGED startUpSem

-----------------------------------------------------------------------------
(* The global configuration, the profile and the descriptions are read.    *)
Configure ==
    /\ pc = "config"
    /\ GoesOn("lists") \/ (ErrorExit /\ UNCHANGED idx)
    /\ UNCHANGED <<options, addons, enabled, tried, loaded, caller, notifySem>>

(* "all" counts when it is the only word of its list; --enable comes first. *)
ApplyLists ==
    /\ pc = "lists" /\ GoesOn("chooseui")
    /\ enabled' = ((IF options.disable = {All} THEN {} ELSE enabled) \ options.disable)
                     \cup options.enable
    /\ UNCHANGED <<options, addons, tried, loaded, caller, notifySem>>

(* The user interface named by --ui, or else the first that is enabled.    *)
IsChoice(i) ==
    /\ Category[addons[i]] = "ui"
    /\ IF options.uiname = NoAddon THEN addons[i] \in enabled ELSE addons[i] = options.uiname

(* Its fallback, enabled and before it in the array, changes places with it. *)
FallbackBefore(i) ==
    {j \in 1 .. i - 1 : /\ Category[addons[j]] = "ui" /\ addons[j] \in enabled
                        /\ addons[j] = Fallback[addons[i]]}

ChooseUI ==
    /\ pc = "chooseui" /\ GoesOn("depends")
    /\ \/ /\ \A i \in DOMAIN addons : ~IsChoice(i)
          /\ UNCHANGED <<addons, enabled>>
       \/ \E i \in DOMAIN addons :
             /\ IsChoice(i) /\ \A j \in 1 .. i - 1 : ~IsChoice(j)
             /\ enabled' = enabled \cup {addons[i]}
             /\ addons' = [k \in DOMAIN addons |->
                             IF k = i /\ FallbackBefore(i) # {} THEN Fallback[addons[i]]
                             ELSE IF k \in FallbackBefore(i) THEN addons[i]
                             ELSE addons[k]]
    /\ UNCHANGED <<options, tried, loaded, caller, notifySem>>

CheckDependencyExists ==                         \* mutant of CheckDependency
    /\ pc = "depends" /\ idx <= Len(addons)
    /\ idx' = idx + 1
    /\ UNCHANGED <<options, addons, enabled, tried, loaded, pc, caller, instance, notifySem,
                   startUpSem, sem>>

(* One addon in the pass over the array that looks at dependencies; there   *)
(* is one pass, since remove is not set again.                             *)
CheckDependency ==
    /\ pc = "depends" /\ idx <= Len(addons)
    /\ enabled' = IF Depends[addons[idx]] \subseteq enabled THEN enabled
                  ELSE enabled \ {addons[idx]}
    /\ idx' = idx + 1
    /\ UNCHANGED <<options, addons, tried, loaded, pc, caller, instance, notifySem,
                   startUpSem, sem>>

ResolvedPastFirst ==                             \* mutant of Resolved
    /\ pc = "depends" /\ idx > Len(addons)
    /\ pc' = "module" /\ idx' = 2
    /\ UNCHANGED <<options, addons, enabled, tried, loaded, caller, instance, notifySem,
                   startUpSem, sem>>

Resolved ==
    /\ pc = "depends" /\ idx > Len(addons) /\ GoesOn("module")
    /\ UNCHANGED <<options, addons, enabled, tried, loaded, caller, notifySem>>

-----------------------------------------------------------------------------
(* Addons are created by category, in the order of the array.              *)

AtAddon(category) == pc = category /\ idx <= Len(addons)
PastAddons(category) == pc = category /\ idx > Len(addons)
Mine(category) == addons[idx] \in enabled /\ Category[addons[idx]] = category

Skip ==
    /\ \E category \in {"module", "engine", "ui", "frontend"} :
          AtAddon(category) /\ (Mine(category) => category = "engine" /\ addons[idx] \in Listed)
    /\ idx' = idx + 1
    /\ UNCHANGED <<options, addons, enabled, tried, loaded, pc, caller, instance,
                   notifySem, startUpSem, sem>>

(* Create is called, and may end the instance, whatever it returns. An addon *)
(* that cannot be opened is one whose Create fails.                        *)
Create == /\ tried' = tried \cup {addons[idx]}
          /\ FcitxInstanceEnd \/ FlagsKept
          /\ UNCHANGED <<options, addons, enabled, caller, notifySem>>

NextAddon == idx' = idx + 1 /\ UNCHANGED <<pc, startUpSem>>

CreateFails == Create /\ NextAddon /\ UNCHANGED loaded
CreateKept  == Create /\ NextAddon /\ loaded' = loaded \cup {addons[idx]}

(* FcitxModuleLoad returns when a module is made after a fatal error, and   *)
(* RunInstance with it.                                                    *)
LoadModule ==
    /\ AtAddon("module") /\ Mine("module")
    /\ \/ CreateFails
       \/ CreateKept /\ ~instance'.loadingFatalError
       \/ /\ Create /\ instance'.loadingFatalError
          /\ pc' = "ended" /\ UNCHANGED <<idx, loaded, startUpSem>>

ModulesLoaded ==
    /\ PastAddons("module")
    /\ IF instance.loadingFatalError
       THEN pc' = "ended" /\ FlagsKept /\ UNCHANGED <<idx, startUpSem>>
       ELSE GoesOn("engine")
    /\ UNCHANGED <<options, addons, enabled, tried, loaded, caller, notifySem>>

(* Engines whose input methods have files are created when they are needed. *)
LoadEngine ==
    /\ AtAddon("engine") /\ Mine("engine") /\ addons[idx] \notin Listed
    /\ CreateFails \/ CreateKept

EnginesLoaded ==
    /\ PastAddons("engine")
    /\ IF \E a \in enabled : Category[a] = "engine" /\ (a \in Listed \/ a \in loaded)
       THEN GoesOn("ui")
       ELSE ErrorExit /\ UNCHANGED idx
    /\ UNCHANGED <<options, addons, enabled, tried, loaded, caller, notifySem>>

LoadUI ==
    /\ AtAddon("ui") /\ Mine("ui")
    /\ CreateFails \/ CreateKept

UILoaded ==
    /\ PastAddons("ui") /\ GoesOn("frontend")
    /\ UNCHANGED <<options, addons, enabled, tried, loaded, caller, notifySem>>

(* Create was the one, or there was one before it, that ended the instance: *)
(* the error exit then changes no flag and tells nothing twice.            *)
CreateThenExit ==
    /\ tried' = tried \cup {addons[idx]}
    /\ ErrorExit
    /\ UNCHANGED <<options, addons, enabled, loaded, idx, caller, notifySem>>

LoadFrontendUnchecked ==                         \* mutant of LoadFrontend
    /\ AtAddon("frontend") /\ Mine("frontend")
    /\ CreateFails \/ CreateKept

(* The check comes after that of the result: a fatal error of a frontend    *)
(* that is not made is seen only when a later one is.                      *)
LoadFrontend ==
    /\ AtAddon("frontend") /\ Mine("frontend")
    /\ \/ CreateFails
       \/ CreateKept /\ ~instance'.loadingFatalError
       \/ CreateThenExit

FrontendsLoaded ==
    /\ PastAddons("frontend")
    /\ IF \E a \in loaded : Category[a] = "frontend"
       THEN GoesOn("ready")
       ELSE ErrorExit /\ UNCHANGED idx
    /\ UNCHANGED <<options, addons, enabled, tried, loaded, caller, notifySem>>

-----------------------------------------------------------------------------
ReadyPostsStartUp ==                             \* mutant of Ready
    /\ pc = "ready"
    /\ IF options.sem
       THEN pc' = "paused" /\ startUpSem' = startUpSem + 1 /\ UNCHANGED instance
       ELSE /\ pc' = "loop" /\ instance' = [instance EXCEPT !.initialized = TRUE]
            /\ UNCHANGED startUpSem
    /\ UNCHANGED <<options, addons, enabled, tried, loaded, idx, caller, notifySem, sem>>

Ready ==
    /\ pc = "ready"
    /\ IF options.sem
       THEN pc' = "paused" /\ notifySem' = notifySem + 1 /\ UNCHANGED instance
       ELSE /\ pc' = "loop" /\ instance' = [instance EXCEPT !.initialized = TRUE]
            /\ UNCHANGED notifySem
    /\ UNCHANGED <<options, addons, enabled, tried, loaded, idx, caller, startUpSem, sem>>

Resume ==
    /\ pc = "paused" /\ startUpSem > 0
    /\ startUpSem' = startUpSem - 1 /\ pc' = "loop"
    /\ UNCHANGED <<options, addons, enabled, tried, loaded, idx, caller, instance,
                   notifySem, sem>>

(* In the loop a signal, a menu or an error asks for the end.              *)
EndFromLoop ==
    /\ pc = "loop" /\ FcitxInstanceEnd
    /\ UNCHANGED <<options, addons, enabled, tried, loaded, pc, idx, caller, notifySem,
                   startUpSem>>

RealEnd ==
    /\ pc = "loop" /\ instance.destroy /\ pc' = "ended"
    /\ sem' = IF options.sem THEN sem + 1 ELSE sem
    /\ UNCHANGED <<options, addons, enabled, tried, loaded, idx, caller, instance,
                   notifySem, startUpSem>>

(* With nothing to wait for the loop ends, and nobody is told.             *)
NothingToWatch == ~options.fd /\ loaded \cap Watching = {}

LeaveLoop ==
    /\ pc = "loop" /\ ~instance.destroy /\ NothingToWatch /\ pc' = "ended"
    /\ UNCHANGED <<options, addons, enabled, tried, loaded, idx, caller, instance,
                   notifySem, startUpSem, sem>>

-----------------------------------------------------------------------------
(* The thread that wants the instance: FcitxInstanceCreatePause,            *)
(* FcitxInstanceStart and FcitxInstanceEnd.                                *)

CreateReturnsAtOnce ==                           \* mutant of CreateReturns
    /\ caller = "waiting"
    /\ caller' = "created" /\ notifySem' = notifySem - 1
    /\ UNCHANGED <<options, addons, enabled, tried, loaded, pc, idx, instance, startUpSem,
                   sem>>

CreateReturns ==
    /\ caller = "waiting" /\ notifySem > 0
    /\ caller' = "created" /\ notifySem' = notifySem - 1
    /\ UNCHANGED <<options, addons, enabled, tried, loaded, pc, idx, instance, startUpSem,
                   sem>>

StartAlways ==                                  \* mutant of Start
    /\ caller = "created" /\ caller' = "started"
    /\ instance' = [instance EXCEPT !.initialized = TRUE]
    /\ startUpSem' = startUpSem + 1
    /\ UNCHANGED <<options, addons, enabled, tried, loaded, pc, idx, notifySem, sem>>

Start ==
    /\ caller = "created" /\ caller' = "started"
    /\ IF instance.loadingFatalError
       THEN UNCHANGED <<instance, startUpSem>>
       ELSE /\ instance' = [instance EXCEPT !.initialized = TRUE]
            /\ startUpSem' = startUpSem + 1
    /\ UNCHANGED <<options, addons, enabled, tried, loaded, pc, idx, notifySem, sem>>

EndByCaller ==
    /\ caller \in {"created", "started"} /\ FcitxInstanceEnd
    /\ UNCHANGED <<options, addons, enabled, tried, loaded, pc, idx, caller, notifySem,
                   startUpSem>>

Loading ==
    \/ Configure \/ ApplyLists \/ ChooseUI \/ CheckDependency \/ Resolved
    \/ Skip \/ LoadModule \/ ModulesLoaded \/ LoadEngine \/ EnginesLoaded
    \/ LoadUI \/ UILoaded \/ LoadFrontend \/ FrontendsLoaded \/ Ready

Next ==
    \/ Loading \/ Resume \/ EndFromLoop \/ RealEnd \/ LeaveLoop
    \/ CreateReturns \/ Start \/ EndByCaller

Spec == Init /\ [][Next]_vars /\ WF_vars(Loading) /\ WF_vars(Resume) /\ WF_vars(CreateReturns)

-----------------------------------------------------------------------------
(* What the addons' files promise, and those of fcitx keep.                *)

IsResolved == pc \in {"module", "engine", "ui", "frontend", "ready", "paused", "loop"}

(* What is depended on and depends on something itself has a lower priority *)
(* value than what depends on it, and is no user interface.                *)
ChainsInOrder ==
    \A a \in Addon : \A d \in Depends[a] :
        \/ Depends[d] = {}
        \/ Priority[d] < Priority[a] /\ "ui" \notin {Category[a], Category[d]}

(* Addons depend on modules, and modules on those of lower priority value.  *)
ModulesFirst ==
    \A a \in Addon : \A d \in Depends[a] :
        /\ Category[d] = "module"
        /\ Category[a] = "module" => Priority[d] < Priority[a]

(* "in order to make every addon works": what an enabled addon depends on   *)
(* is enabled, whatever the options say of it and of what that depends on.  *)
(* One pass in the order of the array is enough when chains are in order.   *)
DependenciesEnabled ==
    ChainsInOrder /\ IsResolved => \A a \in enabled : Depends[a] \subseteq enabled

(* An addon is created when everything it depends on has been.             *)
CreatedInOrder ==
    ChainsInOrder /\ ModulesFirst => \A a \in tried : Depends[a] \subseteq tried

(* "Exiting.": an instance that an addon ended while it was loaded does not *)
(* run - but for one whose last frontends are the ones that failed.        *)
FatalEnds ==
    pc = "loop" /\ instance.loadingFatalError =>
        /\ ~options.sem
        /\ \E i \in DOMAIN addons :
              /\ Category[addons[i]] = "frontend" /\ addons[i] \in tried \ loaded
              /\ \A j \in i + 1 .. Len(addons) :
                    Category[addons[j]] = "frontend" => addons[j] \notin loaded

(* "semaphore to notify the instance is end": it is posted once, an instance *)
(* that runs after it was posted is none of the caller's, and whoever gave   *)
(* it is told of the end - unless the loop found nothing to wait for.       *)
EndIsTold ==
    /\ sem <= 1
    /\ sem = 1 => pc # "loop"
    /\ pc = "ended" /\ options.sem /\ ~(instance.initialized /\ NothingToWatch) => sem = 1

(* FcitxInstanceCreatePause returns, or the instance had a fatal error.     *)
CallerAnswered ==
    caller = "waiting" ~> caller # "waiting" \/ instance.loadingFatalError

-----------------------------------------------------------------------------
(* What is said and does not hold.                                         *)

(* "in order to make every addon works", whatever the priorities.          *)
EveryAddonWorks == IsResolved => \A a \in enabled : Depends[a] \subseteq enabled

(* "Exiting." without the exception.                                       *)
FatalExits == pc = "loop" => ~instance.loadingFatalError

(* FcitxInstanceCreatePause returns, as its header says.                   *)
AlwaysAnswered == caller = "waiting" ~> caller # "waiting"

(* "specify the user interface to use": the one named by --ui is the one    *)
(* in use, which is the last that was created, when it could be created.    *)
NamedUIUsed ==
    pc = "loop" /\ options.uiname \in loaded =>
        \E i \in DOMAIN addons :
            /\ addons[i] = options.uiname
            /\ \A j \in i + 1 .. Len(addons) :
                  Category[addons[j]] = "ui" => addons[j] \notin loaded
=============================================================================
