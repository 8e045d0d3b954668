--------------------------- MODULE StartUpProofs ----------------------------
(***************************************************************************)
(* What is proved of StartUp, for any addons, files, options and outcomes.  *)
(***************************************************************************)
EXTENDS StartUp, TLAPS

(* UNCHANGED vars is that of each variable.                                *)
USE DEF vars

LEMMA EndFlags ==
  ASSUME instance \in Flags, FcitxInstanceEnd
  PROVE  /\ instance' \in Flags
         /\ instance'.initialized = instance.initialized
         /\ instance'.destroy = (instance.destroy \/ instance.initialized)
         /\ instance'.loadingFatalError =
              (instance.loadingFatalError \/ ~(instance.destroy \/ instance.initialized))
<1>1. CASE instance.destroy BY <1>1 DEF Flags, FcitxInstanceEnd
<1>2. CASE ~instance.destroy /\ instance.initialized BY <1>2 DEF Flags, FcitxInstanceEnd
<1>3. CASE ~instance.destroy /\ ~instance.initialized BY <1>3 DEF Flags, FcitxInstanceEnd
<1> QED BY <1>1, <1>2, <1>3

LEMMA EndSem ==
  ASSUME sem \in Nat, FcitxInstanceEnd
  PROVE  sem' \in Nat
BY DEF FcitxInstanceEnd

LEMMA InitializedFlags ==
  ASSUME instance \in Flags
  PROVE  LET f == [instance EXCEPT !.initialized = TRUE]
         IN  /\ f \in Flags /\ f.initialized
             /\ f.destroy = instance.destroy
             /\ f.loadingFatalError = instance.loadingFatalError
BY DEF Flags

(* TypeOK holds whatever Create of the addons does.                        *)
THEOREM TypeCorrect == Spec => []TypeOK
<1>1. Init => TypeOK
  BY AddonAssumption, ListingsAssumption, OptionsAssumption
     DEF Init, TypeOK, Option, Phase, Flags
<1>2. TypeOK /\ [Next]_vars => TypeOK'
  <2> SUFFICES ASSUME TypeOK, [Next]_vars PROVE TypeOK'
    OBVIOUS
  <2>0. /\ FcitxInstanceEnd => instance' \in Flags /\ sem' \in Nat
        /\ [instance EXCEPT !.initialized = TRUE] \in Flags
    BY EndFlags, EndSem, InitializedFlags DEF TypeOK
  <2> USE <2>0 DEF TypeOK, Option, Phase, GoesOn, FlagsKept, ErrorExit
  <2>1. CASE Configure BY <2>1 DEF Configure
  <2>2. CASE ApplyLists BY <2>2 DEF ApplyLists
  <2>3. CASE ChooseUI
    <3>1. CASE UNCHANGED <<addons, enabled>> BY <2>3, <3>1 DEF ChooseUI
    <3>2. ASSUME NEW i \in DOMAIN addons,
                 enabled' = enabled \cup {addons[i]},
                 addons' = [k \in DOMAIN addons |->
                              IF k = i /\ FallbackBefore(i) # {} THEN Fallback[addons[i]]
                              ELSE IF k \in FallbackBefore(i) THEN addons[i]
                              ELSE addons[k]]
          PROVE  TypeOK'
      <4>1. FallbackBefore(i) # {} => Fallback[addons[i]] \in Addon BY DEF FallbackBefore
      <4>2. addons' \in Seq(Addon) /\ Len(addons') = Len(addons) BY <3>2, <4>1
      <4>3. enabled' \subseteq Addon BY <3>2
      <4> QED BY <2>3, <4>2, <4>3 DEF ChooseUI
    <3> QED BY <2>3, <3>1, <3>2 DEF ChooseUI
  <2>4. CASE CheckDependency BY <2>4 DEF CheckDependency
  <2>5. CASE Resolved BY <2>5 DEF Resolved
  <2>6. CASE Skip BY <2>6 DEF Skip, AtAddon
  <2> USE DEF Create, CreateFails, CreateKept, NextAddon, AtAddon, PastAddons
  <2>7. CASE LoadModule BY <2>7 DEF LoadModule
  <2>8. CASE ModulesLoaded BY <2>8 DEF ModulesLoaded
  <2>9. CASE LoadEngine BY <2>9 DEF LoadEngine
  <2>10. CASE EnginesLoaded BY <2>10 DEF EnginesLoaded
  <2>11. CASE LoadUI BY <2>11 DEF LoadUI
  <2>12. CASE UILoaded BY <2>12 DEF UILoaded
  <2>13. CASE LoadFrontend BY <2>13 DEF LoadFrontend, CreateThenExit
  <2>14. CASE FrontendsLoaded BY <2>14 DEF FrontendsLoaded
  <2>15. CASE Ready
    <3>1. instance' \in Flags BY <2>15 DEF Ready
    <3>2. pc' \in Phase /\ notifySem' \in Nat BY <2>15 DEF Ready
    <3> QED BY <2>15, <3>1, <3>2 DEF Ready
  <2>16. CASE Resume BY <2>16 DEF Resume
  <2>17. CASE EndFromLoop BY <2>17 DEF EndFromLoop
  <2>18. CASE RealEnd BY <2>18 DEF RealEnd
  <2>19. CASE LeaveLoop BY <2>19 DEF LeaveLoop
  <2>20. CASE CreateReturns BY <2>20 DEF CreateReturns
  <2>21. CASE Start
    <3>1. instance' \in Flags BY <2>21 DEF Start
    <3>2. startUpSem' \in Nat BY <2>21 DEF Start
    <3> QED BY <2>21, <3>1, <3>2 DEF Start
  <2>22. CASE EndByCaller BY <2>22 DEF EndByCaller
  <2>23. CASE UNCHANGED vars BY <2>23
  <2> QED
    BY <2>1, <2>2, <2>3, <2>4, <2>5, <2>6, <2>7, <2>8, <2>9, <2>10, <2>11, <2>12, <2>13,
       <2>14, <2>15, <2>16, <2>17, <2>18, <2>19, <2>20, <2>21, <2>22, <2>23
    DEF Next, Loading
<1> QED BY <1>1, <1>2, PTL DEF Spec

-----------------------------------------------------------------------------
(* The array has every addon, once, and all but the user interfaces, which  *)
(* may change places, are sorted.                                          *)
Everyone == \A a \in Addon : \E i \in DOMAIN addons : addons[i] = a

Sorted ==
    \A i, j \in DOMAIN addons :
        i < j /\ "ui" \notin {Category[addons[i]], Category[addons[j]]}
            => Priority[addons[i]] <= Priority[addons[j]]

Distinct == \A i, j \in DOMAIN addons : i # j => addons[i] # addons[j]

Array == Everyone /\ Sorted /\ Distinct

THEOREM ArrayKept == Spec => []Array
<1>1. Init => Array
  <2> SUFFICES ASSUME Init PROVE Array
    OBVIOUS
  <2>1. Everyone /\ Sorted
    BY ListingsAssumption DEF Init, Everyone, Sorted
  <2>2. Distinct
    <3> SUFFICES ASSUME NEW i \in DOMAIN addons, NEW j \in DOMAIN addons, i < j \/ j < i
                 PROVE  addons[i] # addons[j]
      BY ListingsAssumption DEF Init, Distinct
    <3> QED BY ListingsAssumption DEF Init
  <2> QED BY <2>1, <2>2 DEF Array
<1>2. TypeOK /\ Array /\ [Next]_vars => Array'
  <2> SUFFICES ASSUME TypeOK, Array, [Next]_vars PROVE Array'
    OBVIOUS
  <2>1. CASE UNCHANGED addons BY <2>1 DEF Array, Everyone, Sorted, Distinct
  <2>2. ASSUME NEW i \in DOMAIN addons, Category[addons[i]] = "ui",
               addons' = [k \in DOMAIN addons |->
                            IF k = i /\ FallbackBefore(i) # {} THEN Fallback[addons[i]]
                            ELSE IF k \in FallbackBefore(i) THEN addons[i]
                            ELSE addons[k]]
        PROVE  Array'
    <3>1. \A k \in FallbackBefore(i) :
             /\ k \in DOMAIN addons /\ k < i /\ addons[k] = Fallback[addons[i]]
             /\ Category[addons[k]] = "ui"
      BY DEF FallbackBefore, TypeOK
    <3>2. Everyone'
      <4> SUFFICES ASSUME NEW a \in Addon PROVE \E k \in DOMAIN addons' : addons'[k] = a
        BY DEF Everyone
      <4>1. PICK k \in DOMAIN addons : addons[k] = a BY DEF Array, Everyone
      <4>2. CASE k \in FallbackBefore(i) BY <4>1, <4>2, <3>1, <2>2
      <4>3. CASE k = i /\ FallbackBefore(i) # {}
        <5>1. PICK j \in FallbackBefore(i) : TRUE BY <4>3
        <5> QED BY <4>1, <4>3, <5>1, <3>1, <2>2 DEF TypeOK
      <4>4. CASE k \notin FallbackBefore(i) /\ ~(k = i /\ FallbackBefore(i) # {})
        BY <4>1, <4>4, <2>2
      <4> QED BY <4>2, <4>3, <4>4
    <3>3. \A k \in DOMAIN addons' :
             /\ k \in DOMAIN addons
             /\ Category[addons'[k]] # "ui" => addons'[k] = addons[k]
      BY <2>2, <3>1 DEF TypeOK
    <3>4. Sorted' BY <3>3 DEF Array, Sorted
    <3>5. \A j, k \in FallbackBefore(i) : j = k BY <3>1 DEF Array, Distinct
    <3>6. ASSUME NEW p \in DOMAIN addons, NEW q \in DOMAIN addons, p # q
          PROVE  addons'[p] # addons'[q]
      <4>1. CASE FallbackBefore(i) = {} BY <2>2, <4>1, <3>6 DEF Array, Distinct
      <4>2. ASSUME NEW j \in FallbackBefore(i) PROVE addons'[p] # addons'[q]
        <5>1. /\ j \in DOMAIN addons /\ j # i /\ addons[j] = Fallback[addons[i]]
              /\ \A k : k \in FallbackBefore(i) <=> k = j
          BY <3>1, <3>5, <4>2 DEF TypeOK
        <5>2. \A k \in DOMAIN addons :
                 addons'[k] = IF k = i THEN addons[j] ELSE IF k = j THEN addons[i]
                              ELSE addons[k]
          BY <2>2, <5>1
        <5> QED BY <5>1, <5>2, <3>6 DEF Array, Distinct
      <4> QED BY <4>1, <4>2
    <3>7. Distinct'
      <4>1. DOMAIN addons' = DOMAIN addons BY <2>2
      <4> QED BY <3>6, <4>1 DEF Distinct
    <3> QED BY <3>2, <3>4, <3>7 DEF Array
  <2>3. CASE ChooseUI BY <2>1, <2>2, <2>3 DEF ChooseUI, IsChoice
  <2>4. CASE UNCHANGED vars BY <2>1, <2>4
  <2>5. Next /\ ~ChooseUI => UNCHANGED addons
    BY DEF Next, Loading, Configure, ApplyLists, CheckDependency, Resolved, Skip, LoadModule,
       ModulesLoaded, LoadEngine, EnginesLoaded, LoadUI, UILoaded, LoadFrontend,
       CreateThenExit, FrontendsLoaded, Ready, Resume, EndFromLoop, RealEnd, LeaveLoop,
       CreateReturns, Start, EndByCaller, Create, CreateFails, CreateKept
  <2> QED BY <2>1, <2>3, <2>4, <2>5
<1> QED BY <1>1, <1>2, TypeCorrect, PTL DEF Spec

-----------------------------------------------------------------------------
(* Behind the position of the pass, and after it everywhere, what an        *)
(* enabled addon depends on is enabled.                                    *)
Behind ==
    pc = "depends" =>
        \A i \in 1 .. idx - 1 : addons[i] \in enabled => Depends[addons[i]] \subseteq enabled

(* What the pass disables nobody behind its position depends on.           *)
LEMMA OnePassIsEnough ==
  ASSUME ChainsInOrder, TypeOK, Array, Behind, CheckDependency
  PROVE  Behind'
<1> DEFINE a == addons[idx]
<1>0. /\ pc = "depends" /\ idx \in DOMAIN addons /\ a \in Addon
      /\ idx' = idx + 1 /\ addons' = addons
      /\ enabled' = IF Depends[a] \subseteq enabled THEN enabled ELSE enabled \ {a}
  BY DEF CheckDependency, TypeOK
<1>a. addons' = addons /\ idx' - 1 = idx BY <1>0 DEF TypeOK
<1> SUFFICES ASSUME NEW i \in 1 .. idx, addons[i] \in enabled'
             PROVE  Depends[addons[i]] \subseteq enabled'
  BY <1>a DEF Behind
<1>1. addons[i] \in enabled /\ i \in DOMAIN addons /\ addons[i] \in Addon BY <1>0 DEF TypeOK
<1>2. CASE Depends[a] \subseteq enabled
  <2>1. CASE i = idx BY <1>0, <1>2, <2>1
  <2>2. CASE i # idx
    <3>1. i \in 1 .. idx - 1 BY <2>2 DEF TypeOK
    <3>2. Depends[addons[i]] \subseteq enabled BY <1>0, <1>1, <3>1 DEF Behind
    <3> QED BY <1>0, <1>2, <3>2
  <2> QED BY <2>1, <2>2
<1>3. CASE ~(Depends[a] \subseteq enabled)
  <2>1. i \in 1 .. idx - 1 BY <1>0, <1>3 DEF TypeOK
  <2>2. Depends[addons[i]] \subseteq enabled BY <1>0, <1>1, <2>1 DEF Behind
  <2>3. a \notin Depends[addons[i]]
    <3>1. SUFFICES ASSUME a \in Depends[addons[i]] PROVE FALSE
      OBVIOUS
    <3>2. /\ Priority[a] < Priority[addons[i]]
          /\ "ui" \notin {Category[addons[i]], Category[a]}
      BY <1>1, <1>3, <3>1, AddonAssumption DEF ChainsInOrder
    <3>3. Priority[addons[i]] <= Priority[a]
      BY <1>0, <1>1, <2>1, <3>2 DEF Array, Sorted, TypeOK
    <3> QED BY <1>0, <1>1, <3>2, <3>3, AddonAssumption
  <2> QED BY <1>0, <1>3, <2>2, <2>3
<1> QED BY <1>2, <1>3

Closed == IsResolved => \A a \in enabled : Depends[a] \subseteq enabled

(* DependenciesEnabled: what an enabled addon depends on is enabled.        *)
THEOREM DependenciesAreEnabled == Spec => []DependenciesEnabled
<1> DEFINE Inv == ChainsInOrder => Behind /\ Closed
<1>1. Init => Inv BY DEF Init, Behind, Closed, IsResolved
<1>2. TypeOK /\ Array /\ Inv /\ [Next]_vars => Inv'
  <2> SUFFICES ASSUME ChainsInOrder, TypeOK, Array, Behind, Closed, [Next]_vars
               PROVE  Behind' /\ Closed'
    OBVIOUS
  <2>1. CASE CheckDependency
    BY <2>1, OnePassIsEnough DEF CheckDependency, Closed, IsResolved
  <2>2. CASE Resolved
    <3>1. \A a \in enabled : Depends[a] \subseteq enabled
      <4> SUFFICES ASSUME NEW a \in enabled PROVE Depends[a] \subseteq enabled
        OBVIOUS
      <4>1. PICK i \in DOMAIN addons : addons[i] = a BY DEF Array, Everyone, TypeOK
      <4>2. i \in 1 .. idx - 1 BY <2>2, <4>1 DEF Resolved, TypeOK
      <4> QED BY <2>2, <4>1, <4>2 DEF Behind, Resolved
    <3> QED BY <2>2, <3>1 DEF Resolved, GoesOn, Behind, Closed
  <2>3. CASE Configure BY <2>3 DEF Configure, GoesOn, ErrorExit, Behind, Closed, IsResolved
  <2>4. CASE ApplyLists BY <2>4 DEF ApplyLists, GoesOn, Behind, Closed, IsResolved
  <2>5. CASE ChooseUI BY <2>5 DEF ChooseUI, GoesOn, Behind, Closed, IsResolved
  <2>6. /\ Next
        /\ ~(CheckDependency \/ Resolved \/ Configure \/ ApplyLists \/ ChooseUI)
        => /\ UNCHANGED <<addons, enabled>>
           /\ UNCHANGED <<pc, idx>> \/ (IsResolved /\ pc' # "depends")
    BY DEF Next, Loading, Skip, LoadModule, ModulesLoaded, LoadEngine, EnginesLoaded, LoadUI,
       UILoaded, LoadFrontend, CreateThenExit, FrontendsLoaded, Ready, Resume, EndFromLoop,
       RealEnd, LeaveLoop, CreateReturns, Start, EndByCaller, Create, CreateFails,
       CreateKept, NextAddon, GoesOn, ErrorExit, AtAddon, PastAddons, IsResolved
  <2>7. CASE UNCHANGED vars BY <2>7 DEF Behind, Closed, IsResolved
  <2>8. /\ UNCHANGED <<addons, enabled>>
        /\ UNCHANGED <<pc, idx>> \/ (IsResolved /\ pc' # "depends")
        => Behind' /\ Closed'
    BY DEF Behind, Closed, IsResolved
  <2> QED BY <2>1, <2>2, <2>3, <2>4, <2>5, <2>6, <2>7, <2>8
<1>3. Inv => DependenciesEnabled BY DEF Closed, DependenciesEnabled
<1> QED BY <1>1, <1>2, <1>3, TypeCorrect, ArrayKept, PTL DEF Spec

-----------------------------------------------------------------------------
(* No addon is created before the dependencies are resolved, and modules    *)
(* are created by position, before all others.                             *)
ModulesTried ==
    /\ pc \in {"config", "lists", "chooseui", "depends"} => tried = {}
    /\ pc = "module" =>
         \A i \in 1 .. idx - 1 :
            addons[i] \in enabled /\ Category[addons[i]] = "module" => addons[i] \in tried
    /\ pc \in {"engine", "ui", "frontend"} =>
         \A a \in enabled : Category[a] = "module" => a \in tried

(* What the addon at idx depends on was created before.                    *)
LEMMA DependenciesTried ==
  ASSUME ChainsInOrder, ModulesFirst, TypeOK, Array, DependenciesEnabled, ModulesTried,
         NEW category \in {"module", "engine", "ui", "frontend"},
         AtAddon(category), Mine(category)
  PROVE  Depends[addons[idx]] \subseteq tried
<1> DEFINE a == addons[idx]
<1>1. /\ pc = category /\ idx \in DOMAIN addons /\ a \in Addon /\ a \in enabled
      /\ Category[a] = category
  BY DEF AtAddon, Mine, TypeOK
<1> SUFFICES ASSUME NEW d \in Depends[a] PROVE d \in tried
  OBVIOUS
<1>2. /\ d \in Addon /\ d \in enabled /\ Category[d] = "module"
      /\ Category[a] = "module" => Priority[d] < Priority[a]
  BY <1>1, AddonAssumption DEF DependenciesEnabled, IsResolved, ModulesFirst
<1>3. CASE category # "module" BY <1>1, <1>2, <1>3 DEF ModulesTried
<1>4. CASE category = "module"
  <2>1. PICK k \in DOMAIN addons : addons[k] = d BY <1>2 DEF Array, Everyone
  <2>2. ~(idx <= k)
    <3>1. CASE idx = k BY <1>1, <1>2, <1>4, <2>1, <3>1, AddonAssumption
    <3>2. CASE idx < k
      <4>1. Priority[a] <= Priority[d] BY <1>1, <1>2, <1>4, <2>1, <3>2 DEF Array, Sorted
      <4> QED BY <1>1, <1>2, <1>4, <4>1, AddonAssumption
    <3> QED BY <1>1, <2>1, <3>1, <3>2 DEF TypeOK
  <2>3. k \in 1 .. idx - 1 BY <1>1, <2>1, <2>2 DEF TypeOK
  <2> QED BY <1>1, <1>2, <1>4, <2>1, <2>3 DEF ModulesTried
<1> QED BY <1>3, <1>4

(* CreatedInOrder: an addon is created after all it depends on.             *)
THEOREM CreatedAfterDependencies == Spec => []CreatedInOrder
<1> DEFINE Inv == ModulesTried /\ CreatedInOrder
<1>1. Init => Inv BY DEF Init, ModulesTried, CreatedInOrder
<1>2. TypeOK /\ Array /\ DependenciesEnabled /\ Inv /\ [Next]_vars => Inv'
  <2> SUFFICES ASSUME TypeOK, Array, DependenciesEnabled, ModulesTried, CreatedInOrder,
                      [Next]_vars
               PROVE  ModulesTried' /\ CreatedInOrder'
    OBVIOUS
  <2>1. ASSUME NEW category \in {"module", "engine", "ui", "frontend"},
               AtAddon(category), Mine(category), tried' = tried \cup {addons[idx]}
        PROVE  CreatedInOrder'
    <3> SUFFICES ASSUME ChainsInOrder, ModulesFirst, NEW a \in tried' PROVE Depends[a] \subseteq tried'
      BY DEF CreatedInOrder, ChainsInOrder, ModulesFirst
    <3>1. CASE a \in tried BY <2>1, <3>1 DEF CreatedInOrder
    <3>2. CASE a = addons[idx] BY <2>1, <3>2, DependenciesTried
    <3> QED BY <2>1, <3>1, <3>2
  <2>2. CASE LoadModule
    <3>1. AtAddon("module") /\ Mine("module") /\ tried' = tried \cup {addons[idx]}
      BY <2>2 DEF LoadModule, Create, CreateFails, CreateKept
    <3>2. /\ UNCHANGED <<addons, enabled>> /\ pc = "module" /\ idx \in DOMAIN addons
          /\ (pc' = "module" /\ idx' = idx + 1) \/ pc' = "ended"
      BY <2>2 DEF LoadModule, Create, CreateFails, CreateKept, NextAddon, AtAddon, TypeOK
    <3>3. ModulesTried' BY <3>1, <3>2 DEF ModulesTried, TypeOK
    <3> QED BY <2>1, <3>1, <3>3
  <2>3. CASE LoadEngine \/ LoadUI \/ LoadFrontend
    <3>1. PICK category \in {"engine", "ui", "frontend"} :
            /\ AtAddon(category) /\ Mine(category) /\ tried' = tried \cup {addons[idx]}
            /\ UNCHANGED <<addons, enabled>>
            /\ pc' = pc \/ pc' = "ended"
      BY <2>3 DEF LoadEngine, LoadUI, LoadFrontend, CreateThenExit, ErrorExit, Create,
                  CreateFails, CreateKept, NextAddon
    <3>2. ModulesTried' BY <3>1 DEF ModulesTried, AtAddon
    <3> QED BY <2>1, <3>1, <3>2
  <2>4. CASE Skip
    <3>1. /\ UNCHANGED <<addons, enabled, tried, pc>> /\ idx' = idx + 1 /\ idx \in DOMAIN addons
          /\ pc = "module" => ~(addons[idx] \in enabled /\ Category[addons[idx]] = "module")
          /\ pc \in {"module", "engine", "ui", "frontend"}
      BY <2>4 DEF Skip, AtAddon, Mine, TypeOK
    <3>2. ModulesTried' BY <3>1 DEF ModulesTried, TypeOK
    <3> QED BY <3>1, <3>2 DEF CreatedInOrder, ChainsInOrder, ModulesFirst
  <2>5. CASE ModulesLoaded
    <3>1. /\ UNCHANGED <<addons, enabled, tried>> /\ pc = "module" /\ idx > Len(addons)
          /\ pc' \in {"engine", "ended"}
      BY <2>5 DEF ModulesLoaded, PastAddons, GoesOn
    <3>2. \A a \in enabled : Category[a] = "module" => a \in tried
      <4> SUFFICES ASSUME NEW a \in enabled, Category[a] = "module" PROVE a \in tried
        OBVIOUS
      <4>1. PICK i \in DOMAIN addons : addons[i] = a BY DEF Array, Everyone, TypeOK
      <4>2. i \in 1 .. idx - 1 BY <3>1, <4>1 DEF TypeOK
      <4> QED BY <3>1, <4>1, <4>2 DEF ModulesTried
    <3>3. ModulesTried' BY <3>1, <3>2 DEF ModulesTried
    <3> QED BY <3>1, <3>3 DEF CreatedInOrder, ChainsInOrder, ModulesFirst
  <2>6. CASE Resolved
    <3>1. tried' = tried /\ pc' = "module" /\ idx' = 1 BY <2>6 DEF Resolved, GoesOn
    <3> QED BY <3>1 DEF ModulesTried, CreatedInOrder, ChainsInOrder, ModulesFirst
  <2>7. ASSUME tried' = tried,
               \/ UNCHANGED <<addons, enabled, pc, idx>>
               \/ /\ pc \in {"config", "lists", "chooseui", "depends"}
                  /\ pc' \in {"config", "lists", "chooseui", "depends", "ended"}
               \/ /\ UNCHANGED enabled /\ pc \in {"engine", "ui", "frontend"}
                  /\ pc' \in {"engine", "ui", "frontend", "ready", "ended"}
               \/ pc' \in {"paused", "loop", "ended"}
        PROVE  ModulesTried' /\ CreatedInOrder'
    BY <2>7 DEF ModulesTried, CreatedInOrder, ChainsInOrder, ModulesFirst
  <2>8. CASE Configure \/ ApplyLists \/ ChooseUI \/ CheckDependency
    BY <2>7, <2>8 DEF Configure, ApplyLists, ChooseUI, CheckDependency, GoesOn, ErrorExit
  <2>9. CASE EnginesLoaded \/ UILoaded \/ FrontendsLoaded
    BY <2>7, <2>9 DEF EnginesLoaded, UILoaded, FrontendsLoaded, PastAddons, GoesOn, ErrorExit
  <2>10. CASE Ready \/ Resume \/ RealEnd \/ LeaveLoop
    BY <2>7, <2>10 DEF Ready, Resume, RealEnd, LeaveLoop
  <2>11. CASE EndFromLoop \/ CreateReturns \/ Start \/ EndByCaller \/ UNCHANGED vars
    BY <2>7, <2>11 DEF EndFromLoop, CreateReturns, Start, EndByCaller
  <2> QED
    BY <2>2, <2>3, <2>4, <2>5, <2>6, <2>8, <2>9, <2>10, <2>11 DEF Next, Loading
<1>3. Inv => CreatedInOrder
  OBVIOUS
<1> QED BY <1>1, <1>2, <1>3, TypeCorrect, ArrayKept, DependenciesAreEnabled, PTL DEF Spec

-----------------------------------------------------------------------------
(* Who may post which semaphore in which place, and what was told.          *)
BeforeLoop == {"config", "lists", "chooseui", "depends", "module", "engine", "ui",
               "frontend", "ready"}

Told ==
    /\ instance.destroy => instance.initialized
    /\ pc \in BeforeLoop => ~instance.initialized
    /\ pc = "loop" => instance.initialized
    /\ ~options.sem => sem = 0 /\ caller = "none" /\ pc # "paused"
    /\ options.sem =>
         /\ instance.initialized => ~instance.loadingFatalError
         /\ instance.loadingFatalError => sem = 1
         /\ ~instance.loadingFatalError /\ pc # "ended" => sem = 0
         /\ ~instance.loadingFatalError /\ pc = "ended" =>
              instance.initialized /\ sem \in {0, 1} /\ (sem = 1 \/ NothingToWatch)
         /\ pc \in BeforeLoop => startUpSem = 0 /\ notifySem = 0 /\ caller = "waiting"
         /\ pc = "paused" /\ startUpSem > 0 => instance.initialized
         /\ pc = "paused" /\ caller # "started" => startUpSem = 0 /\ ~instance.initialized
         /\ caller = "created" => pc = "paused"
         /\ caller = "none" => FALSE
         /\ notifySem > 0 => notifySem = 1 /\ pc = "paused" /\ caller = "waiting"

LEMMA ToldOnce ==
  ASSUME TypeOK, Told, FcitxInstanceEnd
  PROVE  /\ instance'.initialized => ~instance.loadingFatalError \/ ~options.sem
         /\ sem' = IF options.sem /\ ~instance.loadingFatalError
                      /\ instance'.loadingFatalError
                   THEN sem + 1 ELSE sem
BY EndFlags DEF TypeOK, Flags, Told, FcitxInstanceEnd

(* A step of the loading: an error exit tells the end that nothing told.    *)
LEMMA LoadingTells ==
  ASSUME TypeOK, Told, pc \in BeforeLoop,
         FlagsKept \/ FcitxInstanceEnd,
         UNCHANGED <<options, notifySem, caller>>,
         \/ pc' \in BeforeLoop /\ startUpSem' = startUpSem
         \/ pc' = "ended" /\ (instance'.loadingFatalError \/ FcitxInstanceEnd)
  PROVE  Told'
<1>1. instance.initialized = FALSE /\ instance.destroy = FALSE
  BY DEF Told, TypeOK, Flags
<1>2. /\ instance'.initialized = FALSE /\ instance'.destroy = FALSE
      /\ instance'.loadingFatalError \in BOOLEAN
      /\ FcitxInstanceEnd => instance'.loadingFatalError
  BY <1>1, EndFlags DEF TypeOK, Flags, FlagsKept
<1>3. CASE ~options.sem
  <2>1. sem' = 0 BY <1>3, ToldOnce DEF FlagsKept, Told
  <2> QED BY <1>2, <1>3, <2>1 DEF Told, BeforeLoop
<1>4. CASE options.sem
  <2>1. instance'.loadingFatalError => sem' = 1
    BY <1>1, <1>4, ToldOnce DEF FlagsKept, Told, TypeOK, BeforeLoop
  <2>2. ~instance'.loadingFatalError => sem' = 0
    BY <1>2, <1>4 DEF FlagsKept, Told, BeforeLoop
  <2>3. pc' = "ended" => instance'.loadingFatalError BY <1>2 DEF BeforeLoop
  <2> QED BY <1>2, <1>4, <2>1, <2>2, <2>3 DEF Told, BeforeLoop
<1> QED BY <1>3, <1>4

(* A call of FcitxInstanceEnd after the loading.                           *)
LEMMA EndTells ==
  ASSUME TypeOK, Told, FcitxInstanceEnd, pc = "loop" \/ caller \in {"created", "started"},
         UNCHANGED <<options, loaded, pc, caller, notifySem, startUpSem>>
  PROVE  Told'
<1>1. pc \notin BeforeLoop
  BY DEF Told, BeforeLoop
<1>2. CASE instance.initialized
  <2>1. /\ instance'.initialized /\ sem' = sem
        /\ instance'.loadingFatalError = instance.loadingFatalError
    BY <1>2, EndFlags DEF TypeOK, Flags, FcitxInstanceEnd
  <2> QED BY <1>1, <1>2, <2>1 DEF Told, BeforeLoop, NothingToWatch
<1>3. CASE ~instance.initialized
  <2>1. options.sem /\ pc \in {"paused", "ended"} /\ ~instance.destroy
    BY <1>1, <1>3 DEF Told, TypeOK, Phase, BeforeLoop
  <2>2. /\ instance'.initialized = FALSE /\ instance'.destroy = FALSE
        /\ instance'.loadingFatalError
    BY <1>3, <2>1, EndFlags DEF TypeOK, Flags
  <2>3. sem' = 1
    BY <1>3, <2>1, <2>2, ToldOnce DEF Told, TypeOK
  <2>4. /\ pc' = pc /\ caller' = caller /\ options' = options
        /\ notifySem' = notifySem /\ startUpSem' = startUpSem
    OBVIOUS
  <2>5. /\ pc' \notin BeforeLoop /\ pc' # "loop" /\ options'.sem
        /\ pc' = "paused" /\ startUpSem' > 0 => FALSE
        /\ pc' = "paused" /\ caller' # "started" => startUpSem' = 0
        /\ caller' = "created" => pc' = "paused"
        /\ caller' # "none"
        /\ ~(notifySem' > 0)
    BY <1>1, <1>3, <2>1, <2>4 DEF Told, BeforeLoop
  <2> QED BY <2>2, <2>3, <2>5 DEF Told
<1> QED BY <1>2, <1>3

LEMMA LoadingSteps ==
  ASSUME TypeOK, Loading, ~Ready
  PROVE  /\ pc \in BeforeLoop
         /\ FlagsKept \/ FcitxInstanceEnd
         /\ UNCHANGED <<options, notifySem, caller>>
         /\ \/ pc' \in BeforeLoop /\ startUpSem' = startUpSem
            \/ pc' = "ended" /\ (instance'.loadingFatalError \/ FcitxInstanceEnd)
<1> USE DEF BeforeLoop, GoesOn, ErrorExit, AtAddon, PastAddons, Create, CreateFails, CreateKept,
            NextAddon
<1>1. CASE Configure \/ ApplyLists \/ ChooseUI \/ CheckDependency \/ Resolved \/ Skip
  BY <1>1 DEF Configure, ApplyLists, ChooseUI, CheckDependency, Resolved, Skip, FlagsKept
<1>2. CASE LoadModule BY <1>2 DEF LoadModule
<1>3. CASE ModulesLoaded BY <1>3 DEF ModulesLoaded, FlagsKept
<1>4. CASE LoadEngine \/ LoadUI BY <1>4 DEF LoadEngine, LoadUI
<1>5. CASE EnginesLoaded \/ UILoaded \/ FrontendsLoaded
  BY <1>5 DEF EnginesLoaded, UILoaded, FrontendsLoaded
<1>6. CASE LoadFrontend BY <1>6 DEF LoadFrontend, CreateThenExit
<1> QED BY <1>1, <1>2, <1>3, <1>4, <1>5, <1>6 DEF Loading

THEOREM AlwaysTold == Spec => []Told
<1>1. Init => Told
  BY OptionsAssumption DEF Init, Told, BeforeLoop, Option
<1>2. TypeOK /\ Told /\ [Next]_vars => Told'
  <2> SUFFICES ASSUME TypeOK, Told, [Next]_vars PROVE Told'
    OBVIOUS
  <2>1. CASE Loading /\ ~Ready BY <2>1, LoadingSteps, LoadingTells
  <2>2. CASE Ready
    <3>1. pc = "ready" /\ UNCHANGED <<options, caller, startUpSem, sem>> BY <2>2 DEF Ready
    <3>2. CASE options.sem
      <4>1. pc' = "paused" /\ notifySem' = notifySem + 1 /\ instance' = instance
        BY <2>2, <3>2 DEF Ready
      <4> QED BY <3>1, <3>2, <4>1 DEF Told, BeforeLoop
    <3>3. CASE ~options.sem
      <4>1. pc' = "loop" /\ instance' = [instance EXCEPT !.initialized = TRUE]
        BY <2>2, <3>3 DEF Ready
      <4>2. instance'.initialized BY <4>1, InitializedFlags DEF TypeOK
      <4> QED BY <3>1, <3>3, <4>1, <4>2 DEF Told, BeforeLoop
    <3> QED BY <3>2, <3>3
  <2>3. CASE Resume
    <3>1. /\ pc = "paused" /\ startUpSem > 0 /\ pc' = "loop"
          /\ UNCHANGED <<options, caller, instance, notifySem, sem>>
      BY <2>3 DEF Resume
    <3>2. options.sem /\ instance.initialized /\ ~instance.loadingFatalError /\ sem = 0
          /\ caller = "started" /\ ~(notifySem > 0)
      BY <3>1 DEF Told, TypeOK, Flags
    <3> QED BY <3>1, <3>2 DEF Told, BeforeLoop
  <2>4. CASE EndFromLoop BY <2>4, EndTells DEF EndFromLoop
  <2>5. CASE RealEnd BY <2>5 DEF RealEnd, Told, BeforeLoop, TypeOK
  <2>6. CASE LeaveLoop BY <2>6 DEF LeaveLoop, Told, BeforeLoop, NothingToWatch
  <2>7. CASE CreateReturns BY <2>7 DEF CreateReturns, Told, BeforeLoop, NothingToWatch
  <2>8. CASE Start
    <3>1. /\ caller = "created" /\ caller' = "started"
          /\ UNCHANGED <<options, loaded, pc, notifySem, sem>>
      BY <2>8 DEF Start
    <3>2. pc = "paused" /\ options.sem BY <3>1 DEF Told
    <3>3. CASE instance.loadingFatalError
      <4>1. UNCHANGED <<instance, startUpSem>> BY <2>8, <3>3 DEF Start
      <4> QED BY <3>1, <3>2, <3>3, <4>1 DEF Told, BeforeLoop
    <3>4. CASE ~instance.loadingFatalError
      <4>1. instance' = [instance EXCEPT !.initialized = TRUE] BY <2>8, <3>4 DEF Start
      <4>2. instance'.initialized /\ ~instance'.loadingFatalError
        BY <3>4, <4>1, InitializedFlags DEF TypeOK
      <4> QED BY <3>1, <3>2, <3>4, <4>2 DEF Told, BeforeLoop
    <3> QED BY <3>3, <3>4
  <2>9. CASE EndByCaller BY <2>9, EndTells DEF EndByCaller
  <2>10. CASE UNCHANGED vars BY <2>10 DEF Told, BeforeLoop, NothingToWatch
  <2> QED BY <2>1, <2>2, <2>3, <2>4, <2>5, <2>6, <2>7, <2>8, <2>9, <2>10 DEF Next
<1> QED BY <1>1, <1>2, TypeCorrect, PTL DEF Spec

(* EndIsTold: the caller's semaphore is posted once, never by an instance   *)
(* that runs, and by the end (FcitxInstanceEnd, FcitxInstanceRealEnd).      *)
THEOREM CallerTheEndIsTold == Spec => []EndIsTold
<1>1. TypeOK /\ Told => EndIsTold
  BY DEF Told, TypeOK, EndIsTold
<1> QED BY <1>1, TypeCorrect, AlwaysTold, PTL

-----------------------------------------------------------------------------
(* A fatal error lets an instance on only when the frontends that were      *)
(* created after the one that made the error are none.                     *)
Frontend(i) == Category[addons[i]] = "frontend"

NoFrontend == \A i \in DOMAIN addons : Frontend(i) => addons[i] \notin loaded

LastFailed ==
    \E i \in DOMAIN addons :
        /\ Frontend(i) /\ addons[i] \in tried \ loaded
        /\ \A j \in i + 1 .. Len(addons) : Frontend(j) => addons[j] \notin loaded

Escape ==
    /\ pc \in BeforeLoop \ {"frontend", "ready"} => NoFrontend
    /\ pc = "frontend" =>
         /\ \A j \in idx .. Len(addons) : Frontend(j) => addons[j] \notin loaded
         /\ instance.loadingFatalError => LastFailed \/ NoFrontend
    /\ pc \in {"ready", "loop"} /\ instance.loadingFatalError => LastFailed

(* One frontend.                                                           *)
LEMMA FrontendStep ==
  ASSUME TypeOK, Distinct, Escape, LoadFrontend
  PROVE  Escape'
<1>1. /\ pc = "frontend" /\ idx \in DOMAIN addons /\ Frontend(idx) /\ addons' = addons
      /\ tried' = tried \cup {addons[idx]}
  BY DEF LoadFrontend, AtAddon, Mine, Frontend, CreateFails, CreateKept, CreateThenExit, Create,
         TypeOK
<1>2. CASE CreateThenExit
  BY <1>2 DEF CreateThenExit, ErrorExit, Escape, BeforeLoop
<1>3. CASE CreateFails
  <2>1. pc' = "frontend" /\ idx' = idx + 1 /\ loaded' = loaded
    BY <1>1, <1>3 DEF CreateFails, NextAddon
  <2>2. \A j \in idx .. Len(addons) : Frontend(j) => addons[j] \notin loaded
    BY <1>1 DEF Escape
  <2>3. LastFailed'
    <3>1. addons[idx] \in tried' \ loaded' BY <1>1, <2>1, <2>2 DEF TypeOK
    <3>2. \A j \in idx + 1 .. Len(addons) : Frontend(j) => addons[j] \notin loaded
      BY <2>2 DEF TypeOK
    <3> QED BY <1>1, <2>1, <3>1, <3>2 DEF LastFailed, Frontend
  <2>4. \A j \in idx' .. Len(addons') : Frontend(j)' => addons'[j] \notin loaded'
    BY <1>1, <2>1, <2>2 DEF Frontend, TypeOK
  <2> QED BY <2>1, <2>3, <2>4 DEF Escape, BeforeLoop
<1>4. CASE CreateKept /\ ~instance'.loadingFatalError
  <2>1. pc' = "frontend" /\ idx' = idx + 1 /\ loaded' = loaded \cup {addons[idx]}
    BY <1>1, <1>4 DEF CreateKept, NextAddon
  <2>2. \A j \in idx' .. Len(addons') : Frontend(j)' => addons'[j] \notin loaded'
    <3> SUFFICES ASSUME NEW j \in idx + 1 .. Len(addons), Frontend(j)
                 PROVE  addons[j] \notin loaded \cup {addons[idx]}
      BY <1>1, <2>1 DEF Frontend
    <3>1. j \in DOMAIN addons /\ j # idx /\ j \in idx .. Len(addons) BY <1>1 DEF TypeOK
    <3> QED BY <1>1, <3>1 DEF Escape, Distinct
  <2> QED BY <1>4, <2>1, <2>2 DEF Escape, BeforeLoop
<1> QED BY <1>2, <1>3, <1>4 DEF LoadFrontend

(* A step that makes no frontend, up to the first of them.                 *)
LEMMA BeforeFrontends ==
  ASSUME TypeOK, Escape, NoFrontend', pc \in BeforeLoop \ {"frontend", "ready"},
         \/ pc' \in BeforeLoop \ {"frontend", "ready"}
         \/ pc' = "frontend" /\ idx' = 1
         \/ pc' = "ended"
  PROVE  Escape'
BY DEF Escape, BeforeLoop, NoFrontend, TypeOK, Frontend

THEOREM AlwaysEscape == Spec => []Escape
<1>1. Init => Escape
  BY DEF Init, Escape, NoFrontend, BeforeLoop
<1>2. TypeOK /\ TypeOK' /\ Array /\ Told /\ Escape /\ [Next]_vars => Escape'
  <2> SUFFICES ASSUME TypeOK, TypeOK', Array, Told, Escape, [Next]_vars PROVE Escape'
    OBVIOUS
  <2>1. CASE LoadFrontend BY <2>1, FrontendStep DEF Array
  <2>2. CASE ChooseUI
    <3>1. pc = "chooseui" /\ pc' = "depends" /\ loaded' = loaded BY <2>2 DEF ChooseUI, GoesOn
    <3>2. \A a \in Addon : Category[a] = "frontend" => a \notin loaded
      BY <3>1 DEF Array, Everyone, Escape, NoFrontend, Frontend, BeforeLoop
    <3>3. \A i \in DOMAIN addons' : addons'[i] \in Addon BY DEF TypeOK
    <3>4. NoFrontend' BY <3>1, <3>2, <3>3 DEF NoFrontend, Frontend
    <3> QED BY <3>1, <3>4, BeforeFrontends DEF BeforeLoop
  <2>3. CASE Configure \/ ApplyLists \/ CheckDependency \/ Resolved
    <3>1. /\ pc \in {"config", "lists", "depends"} /\ UNCHANGED <<addons, loaded>>
          /\ pc' \in {"lists", "chooseui", "depends", "module", "ended"}
      BY <2>3 DEF Configure, ApplyLists, CheckDependency, Resolved, GoesOn, ErrorExit
    <3>2. NoFrontend' BY <3>1 DEF Escape, NoFrontend, Frontend, BeforeLoop
    <3> QED BY <3>1, <3>2, BeforeFrontends DEF BeforeLoop
  <2>4. CASE LoadModule \/ LoadEngine \/ LoadUI
    <3>1. /\ pc \in {"module", "engine", "ui"} /\ pc' \in {pc, "ended"}
          /\ idx \in DOMAIN addons /\ addons' = addons /\ ~Frontend(idx)
          /\ loaded' \subseteq loaded \cup {addons[idx]}
      BY <2>4 DEF LoadModule, LoadEngine, LoadUI, AtAddon, Mine, Create, CreateFails, CreateKept,
                  NextAddon, Frontend, TypeOK
    <3>2. NoFrontend' BY <3>1 DEF Escape, NoFrontend, Frontend, BeforeLoop
    <3> QED BY <3>1, <3>2, BeforeFrontends DEF BeforeLoop
  <2>5. CASE ModulesLoaded \/ EnginesLoaded \/ UILoaded
    <3>1. /\ pc \in {"module", "engine", "ui"} /\ UNCHANGED <<addons, loaded>>
          /\ \/ pc' \in {"engine", "ui", "ended"}
             \/ pc' = "frontend" /\ idx' = 1
      BY <2>5 DEF ModulesLoaded, EnginesLoaded, UILoaded, PastAddons, GoesOn, ErrorExit
    <3>2. NoFrontend' BY <3>1 DEF Escape, NoFrontend, Frontend, BeforeLoop
    <3> QED BY <3>1, <3>2, BeforeFrontends DEF BeforeLoop
  <2>6. CASE Skip
    <3>1. /\ UNCHANGED <<addons, loaded, tried, pc, instance>> /\ idx' = idx + 1
          /\ pc \in {"module", "engine", "ui", "frontend"}
      BY <2>6 DEF Skip, AtAddon
    <3>2. CASE pc = "frontend"
      <4>1. \A j \in idx' .. Len(addons) : j \in idx .. Len(addons) BY <3>1 DEF TypeOK
      <4> QED BY <3>1, <3>2, <4>1 DEF Escape, BeforeLoop, LastFailed, NoFrontend, Frontend
    <3>3. CASE pc # "frontend"
      BY <3>1, <3>3 DEF Escape, BeforeLoop, NoFrontend, Frontend
    <3> QED BY <3>2, <3>3
  <2>7. CASE FrontendsLoaded
    <3>1. pc = "frontend" /\ UNCHANGED <<addons, tried, loaded>> /\ pc' \in {"ready", "ended"}
      BY <2>7 DEF FrontendsLoaded, PastAddons, GoesOn, ErrorExit
    <3>2. CASE pc' = "ready"
      <4>1. ~NoFrontend /\ instance' = instance
        BY <2>7, <3>2 DEF FrontendsLoaded, GoesOn, FlagsKept, ErrorExit, NoFrontend, Frontend,
                          Array, Everyone, TypeOK
      <4> QED BY <3>1, <3>2, <4>1 DEF Escape, LastFailed, Frontend, BeforeLoop
    <3> QED BY <3>1, <3>2 DEF Escape, BeforeLoop
  <2>8. CASE Ready
    <3>1. /\ pc = "ready" /\ pc' \in {"paused", "loop"} /\ UNCHANGED <<addons, tried, loaded>>
          /\ instance'.loadingFatalError = instance.loadingFatalError
      BY <2>8, InitializedFlags DEF Ready, TypeOK
    <3> QED BY <3>1 DEF Escape, LastFailed, Frontend, BeforeLoop
  <2>9. CASE Resume
    <3>1. /\ pc = "paused" /\ startUpSem > 0 /\ pc' = "loop" /\ instance' = instance
      BY <2>9 DEF Resume
    <3>2. ~instance.loadingFatalError BY <3>1 DEF Told
    <3> QED BY <3>1, <3>2 DEF Escape, BeforeLoop
  <2>10. ASSUME UNCHANGED <<addons, tried, loaded>>, idx' = idx,
                pc' = pc \/ pc' = "ended",
                pc \in BeforeLoop \cup {"loop"} =>
                   instance'.loadingFatalError = instance.loadingFatalError
         PROVE  Escape'
    BY <2>10 DEF Escape, LastFailed, NoFrontend, Frontend, BeforeLoop
  <2>11. CASE EndFromLoop
    <3>1. pc = "loop" /\ instance'.loadingFatalError = instance.loadingFatalError
      BY <2>11, EndFlags DEF EndFromLoop, Told, TypeOK, Flags
    <3> QED BY <2>10, <2>11, <3>1 DEF EndFromLoop
  <2>12. CASE RealEnd \/ LeaveLoop \/ CreateReturns
    BY <2>10, <2>12 DEF RealEnd, LeaveLoop, CreateReturns
  <2>13. CASE Start
    <3>1. instance'.loadingFatalError = instance.loadingFatalError
      BY <2>13, InitializedFlags DEF Start, TypeOK
    <3> QED BY <2>10, <2>13, <3>1 DEF Start
  <2>14. CASE EndByCaller
    <3>1. caller \in {"created", "started"} /\ FcitxInstanceEnd BY <2>14 DEF EndByCaller
    <3>2. pc \notin BeforeLoop BY <3>1 DEF Told
    <3>3. pc = "loop" => instance'.loadingFatalError = instance.loadingFatalError
      BY <3>1, EndFlags DEF Told, TypeOK, Flags
    <3> QED BY <2>10, <2>14, <3>2, <3>3 DEF EndByCaller
  <2>15. CASE UNCHANGED vars BY <2>10, <2>15
  <2> QED
    BY <2>1, <2>2, <2>3, <2>4, <2>5, <2>6, <2>7, <2>8, <2>9, <2>11, <2>12, <2>13, <2>14, <2>15
    DEF Next, Loading
<1> QED BY <1>1, <1>2, TypeCorrect, ArrayKept, AlwaysTold, PTL DEF Spec

(* FatalEnds: of an instance with a fatal error that runs, the last         *)
(* frontends are the ones that failed, and nobody waits for its end.       *)
THEOREM FatalErrorsEnd == Spec => []FatalEnds
<1>1. TypeOK /\ Told /\ Escape => FatalEnds
  <2> SUFFICES ASSUME TypeOK, Told, Escape, pc = "loop", instance.loadingFatalError
               PROVE  ~options.sem /\ LastFailed
    BY DEF FatalEnds, LastFailed, Frontend
  <2> QED BY DEF Told, Escape
<1> QED BY <1>1, TypeCorrect, AlwaysTold, AlwaysEscape, PTL
=============================================================================
