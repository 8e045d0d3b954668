--------------------------- MODULE FrontendsProofs ---------------------------
(* Invariants of Frontends, proved for every number of contexts, programs   *)
(* and input methods and every configuration.                              *)
EXTENDS Frontends, FiniteSetTheorems, TLAPS

(* What every operator on the instance keeps.                              *)
Sound(I) == /\ I \in Instance
            /\ Linked(I)
            /\ \A n \in Node : Told(I.ic[n])

(* ... and what also holds between two requests.                           *)
Settled(I) == Sound(I) /\ FollowsFocus(I) /\ OwnText(I)

LEMMA PositionType ==
    ASSUME NEW k \in Int, NEW least \in {0, 1}
    PROVE  /\ Position(k, least) \in IM
           /\ Position(k, least) >= least
           /\ k \in IM /\ k >= least => Position(k, least) = k
BY NumIMAssumption DEF Position, IM

LEMMA ResetInputSound ==
    ASSUME NEW I, Sound(I)
    PROVE  Sound(ResetInput(I)) /\ OwnText(ResetInput(I))
BY DEF Sound, ResetInput, Linked, Instance, OwnText

(* Switching the input method leaves the contexts and the focus alone.      *)
LEMMA SwitchIMInternalSound ==
    ASSUME NEW I, Sound(I), NEW k \in Int, NEW least \in {0, 1}
    PROVE  LET J == SwitchIMInternal(I, k, least)
           IN  /\ Sound(J) /\ OwnText(J)
               /\ J.ic = I.ic /\ J.CurrentIC = I.CurrentIC
               /\ J.iIMIndex = Position(k, least)
               /\ J.globalIM = I.globalIM
BY PositionType DEF Sound, SwitchIMInternal, ResetInput, Linked, Instance, OwnText

LEMMA SwitchIMGloballySound ==
    ASSUME NEW I, Sound(I), NEW k \in Int, NEW least \in {0, 1}
    PROVE  LET J == SwitchIMGlobally(I, k, least)
           IN  /\ Sound(J) /\ OwnText(J)
               /\ J.ic = I.ic /\ J.CurrentIC = I.CurrentIC
               /\ J.iIMIndex = Position(k, least)
               /\ J.globalIM = Position(k, least)
BY PositionType DEF Sound, SwitchIMGlobally, SwitchIMInternal, ResetInput, Linked,
                    Instance, OwnText

(* UpdateCurrentIM settles the current input method, whatever it was.       *)
LEMMA UpdateCurrentIMSettles ==
    ASSUME NEW I, Sound(I), OwnText(I)
    PROVE  LET J == UpdateCurrentIM(I)
           IN  /\ Settled(J)
               /\ J.ic = I.ic /\ J.CurrentIC = I.CurrentIC
<1> DEFINE n == I.CurrentIC
           c == I.ic[n]
           global == IF I.globalIM = 0 THEN 1 ELSE I.globalIM
           least == IF c.state = "ACTIVE" THEN 1 ELSE 0
           target == IF c.state # "ACTIVE" THEN 0
                     ELSE IF c.imname # NoIM THEN c.imname ELSE global
           J == UpdateCurrentIM(I)
<1> SUFFICES Settled(J) /\ J.ic = I.ic /\ J.CurrentIC = n
  OBVIOUS
<1>1. CASE n = NULL
  BY <1>1 DEF UpdateCurrentIM, Settled, FollowsFocus
<1>2. CASE n # NULL
  <2>1. J = IF I.globalIM = 0 THEN SwitchIMGlobally(I, target, least)
            ELSE IF target # I.iIMIndex THEN SwitchIMInternal(I, target, least)
            ELSE I
    BY <1>2 DEF UpdateCurrentIM
  <2>2. n \in Node /\ c \in Context /\ I.globalIM \in IM
    BY <1>2 DEF Sound, Linked, Instance
  <2>3. target \in IM /\ target \in Int /\ least \in {0, 1}
    BY <2>2, NumIMAssumption DEF Context, IM, NoIM
  <2> HIDE DEF J
  <2>4. /\ Sound(J) /\ OwnText(J) /\ J.ic = I.ic /\ J.CurrentIC = n
        /\ \/ /\ I.globalIM = 0
              /\ J.iIMIndex = Position(target, least)
              /\ J.globalIM = Position(target, least)
           \/ /\ I.globalIM # 0 /\ J.globalIM = I.globalIM
              /\ \/ J.iIMIndex = Position(target, least)
                 \/ J.iIMIndex = target
    <3> HIDE DEF target, least
    <3> QED BY <2>1, <2>3, SwitchIMInternalSound, SwitchIMGloballySound
  <2>5. FollowsFocus(J)
    <3> SUFFICES ASSUME c.state # "CLOSED", c.imname # 0
                 PROVE  J.iIMIndex = Wanted(J, c)
      BY <2>4 DEF FollowsFocus
    <3>1. CASE c.state # "ACTIVE"
      BY <3>1, <2>2, <2>4, NumIMAssumption DEF Wanted, Position, Context, State
    <3>2. CASE c.state = "ACTIVE"
      BY <3>2, <2>2, <2>4, NumIMAssumption DEF Wanted, Position, Context, IM, NoIM
    <3> QED BY <3>1, <3>2
  <2> QED BY <2>4, <2>5 DEF Settled
<1> QED BY <1>1, <1>2

-----------------------------------------------------------------------------
(* Every operation on the state of the contexts ends settled.              *)

(* An instance with other contexts in the same places, each of them told.   *)
LEMMA NewICSound ==
    ASSUME NEW I, Sound(I), OwnText(I),
           NEW f \in [Node -> Context], \A m \in Node : Told(f[m]),
           NEW J, J = [I EXCEPT !.ic = f]
    PROVE  /\ Sound(J) /\ OwnText(J)
           /\ J.ic = f /\ J.CurrentIC = I.CurrentIC
           /\ J.globalIM = I.globalIM /\ J.iIMIndex = I.iIMIndex
BY DEF Sound, Linked, Instance, OwnText

(* One context replaced by another with the same state, told the same.      *)
LEMMA OneContextChanged ==
    ASSUME NEW I, Settled(I), NEW n \in Node, NEW c \in Context,
           c.state = I.ic[n].state, c.toldEnabled = I.ic[n].toldEnabled,
           NEW J, J = [I EXCEPT !.ic[n] = c]
    PROVE  /\ Sound(J) /\ OwnText(J) /\ J.CurrentIC = I.CurrentIC
           /\ n # I.CurrentIC => FollowsFocus(J)
           /\ c.imname = I.ic[n].imname => FollowsFocus(J)
<1> DEFINE f == [I.ic EXCEPT ![n] = c]
<1>1. /\ I.ic \in [Node -> Context] /\ \A m \in Node : Told(I.ic[m])
      /\ I.CurrentIC \in Node \cup {NULL} /\ Sound(I) /\ OwnText(I) /\ FollowsFocus(I)
  BY DEF Settled, Sound, Instance
<1>2. /\ f \in [Node -> Context] /\ f[n] = c
      /\ \A m \in Node \ {n} : f[m] = I.ic[m]
  BY <1>1
<1>3. J = [I EXCEPT !.ic = f]
  BY <1>1 DEF Settled, Sound, Instance
<1> HIDE DEF f
<1>4. Told(c)
  BY <1>1 DEF Told
<1>5. \A m \in Node : Told(f[m])
  BY <1>1, <1>2, <1>4
<1>6. /\ Sound(J) /\ OwnText(J)
      /\ J.ic = f /\ J.CurrentIC = I.CurrentIC
      /\ J.globalIM = I.globalIM /\ J.iIMIndex = I.iIMIndex
  BY <1>1, <1>2, <1>3, <1>5, NewICSound
<1>7. ASSUME n # I.CurrentIC \/ c.imname = I.ic[n].imname PROVE FollowsFocus(J)
  <2> DEFINE m == I.CurrentIC
  <2>1. CASE m = NULL
    BY <2>1, <1>6 DEF FollowsFocus
  <2>2. CASE m # NULL
    <3>1. J.ic[m].state = I.ic[m].state /\ J.ic[m].imname = I.ic[m].imname
      BY <1>1, <1>2, <1>6, <1>7, <2>2
    <3>2. Wanted(J, J.ic[m]) = Wanted(I, I.ic[m])
      BY <3>1, <1>6 DEF Wanted
    <3> QED BY <3>1, <3>2, <1>1, <1>6 DEF FollowsFocus
  <2> QED BY <2>1, <2>2
<1> QED BY <1>2, <1>6, <1>7

LEMMA SetLocalIMNameSettles ==
    ASSUME NEW I, Settled(I), NEW n \in Node, NEW name \in IM \cup {NoIM}
    PROVE  LET K == SetLocalIMName(I, n, name)
           IN  /\ Settled(K)
               /\ K.CurrentIC = I.CurrentIC
               /\ K.ic[n].imname = name
<1> DEFINE c == [I.ic[n] EXCEPT !.imname = name]
           J == [I EXCEPT !.ic[n].imname = name]
<1>1. I.ic \in [Node -> Context] /\ I.ic[n] \in Context
  BY DEF Settled, Sound, Instance
<1>2. /\ c \in Context /\ c.imname = name
      /\ c.state = I.ic[n].state /\ c.toldEnabled = I.ic[n].toldEnabled
  BY <1>1 DEF Context
<1>3. J = [I EXCEPT !.ic[n] = c]
  BY <1>1
<1> HIDE DEF c, J
<1>a. Sound(J) /\ OwnText(J) /\ J.CurrentIC = I.CurrentIC
  BY <1>2, <1>3, OneContextChanged
<1>c. J.ic[n] = c
  BY <1>1, <1>3 DEF Settled, Sound, Instance
<1>b. n # I.CurrentIC => FollowsFocus(J)
  BY <1>2, <1>3, OneContextChanged
<1>4. /\ Sound(J) /\ OwnText(J) /\ J.CurrentIC = I.CurrentIC
      /\ J.ic[n].imname = name
      /\ n # I.CurrentIC => FollowsFocus(J)
  BY <1>2, <1>a, <1>b, <1>c
<1>5. Settled(UpdateCurrentIM(J)) /\ UpdateCurrentIM(J).ic = J.ic
      /\ UpdateCurrentIM(J).CurrentIC = J.CurrentIC
  BY <1>4, UpdateCurrentIMSettles
<1>6. SetLocalIMName(I, n, name) = IF n = I.CurrentIC THEN UpdateCurrentIM(J) ELSE J
  BY DEF SetLocalIMName, J
<1>7. n # I.CurrentIC => Settled(J)
  BY <1>4 DEF Settled
<1> QED BY <1>4, <1>5, <1>6, <1>7

LEMMA ContextOps ==
    ASSUME NEW c \in Context, Told(c)
    PROVE  /\ Enabled(c) \in Context /\ Told(Enabled(c))
           /\ Closed(c) \in Context /\ Told(Closed(c)) /\ Closed(c).state = "CLOSED"
           /\ \A s \in {"ACTIVE", "INACTIVE"} :
                 /\ [c EXCEPT !.state = s] \in Context
                 /\ Told([c EXCEPT !.state = s])
BY DEF Context, Enabled, Closed, Told, State

LEMMA NewStatesSound ==
    ASSUME NEW I, Sound(I), OwnText(I), NEW s \in State,
           NEW f \in [Node -> Context], \A m \in Node : Told(f[m]),
           NEW J, J = [I EXCEPT !.globalState = s, !.ic = f]
    PROVE  /\ Sound(J) /\ OwnText(J)
           /\ J.ic = f /\ J.CurrentIC = I.CurrentIC
           /\ J.globalIM = I.globalIM /\ J.iIMIndex = I.iIMIndex
BY DEF Sound, Linked, Instance, OwnText

LEMMA EnableIMSettles ==
    ASSUME NEW I, Sound(I), OwnText(I), NEW n \in Node \cup {NULL},
           n = NULL => FollowsFocus(I), NEW keep \in BOOLEAN
    PROVE  Settled(EnableIM(I, n, keep))
<1>1. CASE n = NULL
  BY <1>1 DEF EnableIM, Settled
<1>2. CASE n # NULL
  <2> DEFINE hit == Sharing(I, n)
             f == [m \in Node |-> IF m \in hit THEN Enabled(I.ic[m]) ELSE I.ic[m]]
             J == [I EXCEPT !.globalState = "ACTIVE", !.ic = f]
  <2> HIDE DEF hit
  <2>a. \A m \in Node : I.ic[m] \in Context /\ Told(I.ic[m])
    BY DEF Sound, Instance
  <2>b. f \in [Node -> Context] /\ \A m \in Node : Told(f[m])
    BY <2>a, ContextOps
  <2> HIDE DEF f
  <2>1. /\ Sound(J) /\ OwnText(J)
    BY <2>b, NewStatesSound DEF State
  <2> HIDE DEF J
  <2>2. /\ Sound(ResetInput(J)) /\ OwnText(ResetInput(J))
    BY <2>1, ResetInputSound
  <2>3. \/ EnableIM(I, n, keep) = UpdateCurrentIM(J)
        \/ EnableIM(I, n, keep) = UpdateCurrentIM(ResetInput(J))
    BY <1>2 DEF EnableIM, hit, J, f
  <2> QED BY <2>1, <2>2, <2>3, UpdateCurrentIMSettles
<1> QED BY <1>1, <1>2

LEMMA ChangeIMStateSettles ==
    ASSUME NEW I, Settled(I), NEW n \in Node \cup {NULL}
    PROVE  Settled(ChangeIMState(I, n))
<1>1. CASE n = NULL
  BY <1>1 DEF ChangeIMState
<1>2. CASE n # NULL
  <2> DEFINE object == IF I.ic[n].state = "INACTIVE" THEN "ACTIVE" ELSE "INACTIVE"
             hit == Sharing(I, n)
             f == [m \in Node |-> IF m \in hit THEN [I.ic[m] EXCEPT !.state = object]
                                               ELSE I.ic[m]]
             J == [I EXCEPT !.globalState = object, !.ic = f]
  <2>1. object \in {"ACTIVE", "INACTIVE"}
    OBVIOUS
  <2> HIDE DEF hit, object
  <2>a. \A m \in Node : I.ic[m] \in Context /\ Told(I.ic[m])
    BY DEF Settled, Sound, Instance
  <2>b. f \in [Node -> Context] /\ \A m \in Node : Told(f[m])
    BY <2>1, <2>a, ContextOps
  <2> HIDE DEF f
  <2>2. /\ Sound(J) /\ OwnText(J)
    BY <2>1, <2>b, NewStatesSound DEF Settled, State
  <2> HIDE DEF J
  <2>3. ChangeIMState(I, n) = UpdateCurrentIM(J)
    BY <1>2 DEF ChangeIMState, hit, J, f, object
  <2> QED BY <2>2, <2>3, UpdateCurrentIMSettles
<1> QED BY <1>1, <1>2

LEMMA CloseIMSettles ==
    ASSUME NEW I, Settled(I), NEW n \in Node \cup {NULL}
    PROVE  Settled(CloseIM(I, n))
<1>1. CASE n = NULL \/ ~ I.ic[n].clientSideState
  BY <1>1, ChangeIMStateSettles DEF CloseIM
<1>2. CASE n # NULL /\ I.ic[n].clientSideState
  <2> DEFINE hit == Sharing(I, n)
             f == [m \in Node |-> IF m \in hit THEN Closed(I.ic[m]) ELSE I.ic[m]]
             J == [I EXCEPT !.globalState = "CLOSED", !.ic = f]
  <2> HIDE DEF hit
  <2>a. /\ \A m \in Node : I.ic[m] \in Context /\ Told(I.ic[m])
        /\ I.CurrentIC \in Node \cup {NULL}
    BY DEF Settled, Sound, Instance
  <2>b. f \in [Node -> Context] /\ \A m \in Node : Told(f[m])
    BY <2>a, ContextOps
  <2>c. \A m \in Node : f[m].state = "CLOSED" \/ f[m] = I.ic[m]
    BY <2>a, ContextOps
  <2>e. J = [I EXCEPT !.globalState = "CLOSED", !.ic = f] /\ "CLOSED" \in State
    BY DEF State
  <2> HIDE DEF f, J
  <2>d. /\ Sound(J) /\ OwnText(J)
        /\ J.ic = f /\ J.CurrentIC = I.CurrentIC
        /\ J.globalIM = I.globalIM /\ J.iIMIndex = I.iIMIndex
    <3>1. Sound(I) /\ OwnText(I)
      BY DEF Settled
    <3>2. /\ Sound(J) /\ OwnText(J)
      BY <3>1, <2>b, <2>e, NewStatesSound
    <3>3. /\ J.ic = f /\ J.CurrentIC = I.CurrentIC
          /\ J.globalIM = I.globalIM /\ J.iIMIndex = I.iIMIndex
      BY <3>1, <2>e DEF Sound, Instance
    <3> QED BY <3>2, <3>3
  <2>1. Settled(J)
    BY <2>a, <2>c, <2>d DEF Settled, FollowsFocus, Wanted
  <2>2. Settled(ResetInput(J))
    BY <2>1 DEF Settled, Sound, Linked, Instance, OwnText, ResetInput, FollowsFocus, Wanted
  <2>3. CloseIM(I, n) \in {J, ResetInput(J)}
    BY <1>2 DEF CloseIM, hit, J, f
  <2> QED BY <2>1, <2>2, <2>3
<1> QED BY <1>1, <1>2

LEMMA StepIndexType ==
    ASSUME NEW index \in -4 .. NumIM - 1, NEW from \in IM
    PROVE  StepIndex(index, from) \in IM
<1>1. index \in {-4, -3, -2, -1} \/ index \in IM
  BY NumIMAssumption DEF IM
<1> QED BY <1>1, NumIMAssumption DEF StepIndex, IM

LEMMA SwitchIMByIndexSettles ==
    ASSUME NEW I, Settled(I), NEW index \in -4 .. NumIM - 1
    PROVE  Settled(SwitchIMByIndex(I, index))
<1> DEFINE k == StepIndex(index, I.iIMIndex)
           n == I.CurrentIC
           J == IF n # NULL THEN SetLocalIMName(I, n, NoIM) ELSE I
           K == SwitchIMGlobally(J, k, 1)
<1>1. n \in Node \cup {NULL} /\ I.iIMIndex \in IM
  BY DEF Settled, Sound, Instance
<1>2. k \in IM
  BY <1>1, StepIndexType
<1>3. SwitchIMByIndex(I, index) =
          IF k = 0 THEN CloseIM(I, n)
          ELSE IF CurrentState(K) # "ACTIVE" THEN EnableIM(K, n, FALSE) ELSE K
  BY DEF SwitchIMByIndex
<1> HIDE DEF k
<1>4. CASE k = 0
  BY <1>1, <1>3, <1>4, CloseIMSettles
<1>5. CASE k # 0
  <2>1. /\ Settled(J) /\ J.CurrentIC = n
        /\ n # NULL => J.ic[n].imname = NoIM
    BY <1>1, SetLocalIMNameSettles
  <2> HIDE DEF J
  <2>2. /\ Sound(K) /\ OwnText(K) /\ K.CurrentIC = n /\ K.ic = J.ic
        /\ K.iIMIndex = k /\ K.globalIM = k
        /\ Position(k, 1) = k
    <3>1. Sound(J) /\ k \in Int /\ k >= 1
      BY <1>2, <1>5, <2>1 DEF Settled, IM
    <3>2. Position(k, 1) = k
      BY <1>2, <3>1, PositionType
    <3> QED BY <2>1, <3>1, <3>2, SwitchIMGloballySound
  <2> HIDE DEF K
  <2>3. CASE CurrentState(K) # "ACTIVE"
    <3>1. n = NULL => FollowsFocus(K)
      BY <2>2 DEF FollowsFocus
    <3> QED BY <1>1, <1>3, <1>5, <2>2, <2>3, <3>1, EnableIMSettles
  <2>4. CASE CurrentState(K) = "ACTIVE"
    <3>1. FollowsFocus(K)
      BY <2>1, <2>2, <2>4 DEF FollowsFocus, Wanted, CurrentState
    <3> QED BY <1>3, <1>5, <2>2, <2>4, <3>1 DEF Settled
  <2> QED BY <2>3, <2>4
<1> QED BY <1>4, <1>5

LEMMA SwitchIMByNameSettles ==
    ASSUME NEW I, Settled(I), NEW name \in IM
    PROVE  Settled(SwitchIMByName(I, name))
<1>1. Settled([I EXCEPT !.delayedIM = name])
  BY DEF Settled, Sound, Linked, Instance, FollowsFocus, Wanted, OwnText
<1>2. name \in -4 .. NumIM - 1
  BY NumIMAssumption DEF IM
<1> QED BY <1>1, <1>2, SwitchIMByIndexSettles DEF SwitchIMByName

(* Taking the focus settles an instance whose text was another context's.   *)
LEMMA FocusSettles ==
    ASSUME NEW I, Sound(I), NEW n \in I.ic_list
    PROVE  Settled(OnInputFocus(SetCurrentIC(I, n)))
<1> DEFINE F == SetCurrentIC(I, n)
<1>1. Sound(F) /\ F.delayedIM = NoIM
  BY NodeAssumption DEF Sound, Linked, Instance, SetCurrentIC, SetLastIC
<1> HIDE DEF F
<1>2. /\ Sound(ResetInput(F)) /\ OwnText(ResetInput(F))
      /\ ResetInput(F).delayedIM = NoIM
  BY <1>1, ResetInputSound DEF ResetInput, Sound, Instance
<1>3. OnInputFocus(F) = UpdateCurrentIM(ResetInput(F))
  BY <1>2 DEF OnInputFocus
<1> QED BY <1>2, <1>3, UpdateCurrentIMSettles DEF F

LEMMA UnfocusSettles ==
    ASSUME NEW I, Settled(I)
    PROVE  Settled(SetCurrentIC(I, NULL))
BY DEF Settled, Sound, Linked, Instance, SetCurrentIC, FollowsFocus, OwnText

LEMMA ResetInputSettles ==
    ASSUME NEW I, Settled(I)
    PROVE  Settled(ResetInput(I))
BY DEF Settled, Sound, Linked, Instance, ResetInput, FollowsFocus, Wanted, OwnText

-----------------------------------------------------------------------------
(* The list of contexts: what is unlinked is pointed to by nothing.         *)

LEMMA BlankContext == Blank \in Context /\ Told(Blank)
BY DEF Blank, Context, Told, State, NoIM

LEMMA UnlinkTypes ==
    ASSUME NEW I, I \in Instance, \A m \in Node : Told(I.ic[m]),
           I.ic_list \cap I.free_list = {}, NEW gone \in SUBSET I.ic_list
    PROVE  LET J == Unlink(I, gone)
           IN  /\ J \in Instance /\ \A m \in Node : Told(J.ic[m])
               /\ J.ic_list = I.ic_list \ gone
               /\ J.ic_list \cap J.free_list = {}
               /\ J.CurrentIC = I.CurrentIC /\ J.lastIC = I.lastIC
               /\ J.iIMIndex = I.iIMIndex /\ J.globalIM = I.globalIM
               /\ J.composing = I.composing
               /\ \A m \in Node \ gone : J.ic[m] = I.ic[m]
BY BlankContext DEF Unlink, Instance

(* Unlinking contexts, and forgetting those among them that were focused.   *)
LEMMA ForgetSettles ==
    ASSUME NEW I, Settled(I), NEW gone \in SUBSET I.ic_list,
           NEW K, K = (IF I.lastIC \in gone THEN SetLastIC(Unlink(I, gone), NULL)
                                            ELSE Unlink(I, gone)),
           NEW L, L = (IF I.CurrentIC \in gone THEN SetCurrentIC(K, NULL) ELSE K)
    PROVE  Settled(L) /\ L.ic_list = I.ic_list \ gone
<1> DEFINE J == Unlink(I, gone)
<1>1. /\ J \in Instance /\ \A m \in Node : Told(J.ic[m])
      /\ J.ic_list = I.ic_list \ gone
      /\ J.ic_list \cap J.free_list = {}
      /\ J.CurrentIC = I.CurrentIC /\ J.lastIC = I.lastIC
      /\ J.iIMIndex = I.iIMIndex /\ J.globalIM = I.globalIM
      /\ J.composing = I.composing
      /\ \A m \in Node \ gone : J.ic[m] = I.ic[m]
  BY UnlinkTypes DEF Settled, Sound, Linked
<1> HIDE DEF J
<1>2. /\ K \in Instance /\ K.ic = J.ic /\ K.ic_list = J.ic_list
      /\ K.free_list = J.free_list /\ K.CurrentIC = J.CurrentIC
      /\ K.iIMIndex = J.iIMIndex /\ K.globalIM = J.globalIM
      /\ K.composing = J.composing
      /\ K.lastIC = IF I.lastIC \in gone THEN NULL ELSE I.lastIC
  BY <1>1 DEF J, SetLastIC, Instance
<1>3. /\ L \in Instance /\ L.ic = J.ic /\ L.ic_list = J.ic_list
      /\ L.free_list = J.free_list /\ L.lastIC = K.lastIC
      /\ L.iIMIndex = J.iIMIndex /\ L.globalIM = J.globalIM
      /\ L.composing = J.composing
      /\ L.CurrentIC = IF I.CurrentIC \in gone THEN NULL ELSE I.CurrentIC
  BY <1>1, <1>2 DEF SetCurrentIC, Instance
<1>4. /\ Linked(I) /\ FollowsFocus(I) /\ OwnText(I)
      /\ NULL \notin I.ic_list /\ I.ic_list \subseteq Node
  BY NodeAssumption DEF Settled, Sound, Instance
<1>5. Linked(L)
  BY <1>1, <1>2, <1>3, <1>4 DEF Linked
<1>6. FollowsFocus(L)
  <2> SUFFICES ASSUME L.CurrentIC # NULL PROVE FollowsFocus(L)
    BY DEF FollowsFocus
  <2>1. L.CurrentIC = I.CurrentIC /\ L.ic[L.CurrentIC] = I.ic[I.CurrentIC]
    BY <1>1, <1>3, <1>4 DEF Linked
  <2>2. Wanted(L, L.ic[L.CurrentIC]) = Wanted(I, I.ic[I.CurrentIC])
    BY <1>1, <1>3, <2>1 DEF Wanted
  <2> QED BY <1>1, <1>3, <1>4, <2>1, <2>2 DEF FollowsFocus
<1>7. OwnText(L)
  BY <1>1, <1>3, <1>4 DEF OwnText
<1>8. \A m \in Node : Told(L.ic[m])
  BY <1>1, <1>3
<1> QED BY <1>1, <1>3, <1>5, <1>6, <1>7, <1>8 DEF Settled, Sound

LEMMA CleanUpICSettles ==
    ASSUME NEW I, Settled(I)
    PROVE  Settled(CleanUpIC(I)) /\ CleanUpIC(I).ic_list \subseteq I.ic_list
BY ForgetSettles DEF CleanUpIC

LEMMA DestroyICSettles ==
    ASSUME NEW I, Settled(I), NEW n \in I.ic_list
    PROVE  Settled(DestroyIC(I, n)) /\ DestroyIC(I, n).ic_list \subseteq I.ic_list
<1> DEFINE K == IF I.lastIC \in {n} THEN SetLastIC(Unlink(I, {n}), NULL)
                                    ELSE Unlink(I, {n})
           L == IF I.CurrentIC \in {n} THEN SetCurrentIC(K, NULL) ELSE K
<1>1. DestroyIC(I, n) = L
  BY DEF DestroyIC
<1>2. {n} \in SUBSET I.ic_list
  OBVIOUS
<1>3. Settled(L) /\ L.ic_list = I.ic_list \ {n}
  <2> HIDE DEF L
  <2>1. L = IF I.CurrentIC \in {n} THEN SetCurrentIC(K, NULL) ELSE K
    BY DEF L
  <2> HIDE DEF K
  <2>2. K = IF I.lastIC \in {n} THEN SetLastIC(Unlink(I, {n}), NULL) ELSE Unlink(I, {n})
    BY DEF K
  <2> QED BY <1>2, <2>1, <2>2, ForgetSettles
<1> QED BY <1>1, <1>3

LEMMA NewContextType ==
    ASSUME NEW I, I \in Instance, NEW kind \in Kind, NEW app \in App \cup {NoApp}
    PROVE  NewContext(I, kind, app) \in Context /\ Told(NewContext(I, kind, app))
<1> DEFINE fresh == [frontend |-> Frontend(kind),
                     state |-> IF ShareState = "All" THEN I.globalState
                               ELSE DefaultState,
                     prgname |-> IF kind = "v1" THEN NoApp ELSE app,
                     clientSideState |-> FALSE, imname |-> NoIM,
                     pidKnown |-> kind = "v3", toldEnabled |-> FALSE]
           state == CASE kind = "v1" -> "CLOSED"
                      [] kind # "v1" /\ ShareState = "PerProgram"
                           -> StateFromSameApplication(I, fresh)
                      [] OTHER -> fresh.state
<1>1. fresh \in Context
  BY ConfigAssumption DEF Context, Frontend, Kind, State, Instance, NoIM
<1>2. NewContext(I, kind, app) =
        [fresh EXCEPT !.state = state, !.clientSideState = (kind = "v1"),
                      !.toldEnabled = (kind # "xim" /\ state # "CLOSED")]
  BY DEF NewContext
<1> HIDE DEF fresh
<1>3. StateFromSameApplication(I, fresh) \in State
  BY <1>1 DEF StateFromSameApplication, Instance, Context
<1>4. state \in State
  BY <1>1, <1>3 DEF Context, State
<1> HIDE DEF state
<1> QED BY <1>1, <1>2, <1>4 DEF Context, Told

LEMMA CreateICSettles ==
    ASSUME NEW I, Settled(I), NEW kind \in Kind, NEW app \in App \cup {NoApp},
           NEW n \in Allocatable(I)
    PROVE  Settled(CreateIC(I, kind, app, n)) /\ n \in CreateIC(I, kind, app, n).ic_list
<1> DEFINE c == NewContext(I, kind, app)
           J == CreateIC(I, kind, app, n)
<1>1. n \in Node /\ n \notin I.ic_list
  BY DEF Allocatable, Settled, Sound, Linked, Instance
<1>2. c \in Context /\ Told(c)
  BY NewContextType DEF Settled, Sound
<1>3. /\ I \in Instance /\ Linked(I) /\ \A m \in Node : Told(I.ic[m])
      /\ FollowsFocus(I) /\ OwnText(I)
  BY DEF Settled, Sound
<1> HIDE DEF c
<1>4. /\ J \in Instance
      /\ J.ic_list = I.ic_list \cup {n} /\ J.free_list = I.free_list \ {n}
      /\ J.ic = [I.ic EXCEPT ![n] = c]
      /\ J.CurrentIC = I.CurrentIC /\ J.lastIC = I.lastIC
      /\ J.iIMIndex = I.iIMIndex /\ J.globalIM = I.globalIM
      /\ J.composing = I.composing
  BY <1>1, <1>2, <1>3 DEF CreateIC, Instance, c
<1> HIDE DEF J
<1>5. \A m \in Node : Told(J.ic[m])
  BY <1>2, <1>3, <1>4 DEF Instance
<1>6. Linked(J)
  BY <1>1, <1>3, <1>4 DEF Linked
<1>7. J.CurrentIC # NULL => J.ic[J.CurrentIC] = I.ic[I.CurrentIC]
  BY <1>1, <1>3, <1>4 DEF Linked, Instance
<1>8. OwnText(J)
  BY <1>3, <1>4 DEF OwnText
<1>9. \A e : Wanted(J, e) = Wanted(I, e)
  BY <1>4 DEF Wanted
<1>10. FollowsFocus(J)
  <2> DEFINE d == J.ic[J.CurrentIC]
  <2> SUFFICES ASSUME J.CurrentIC # NULL, d.state # "CLOSED", d.imname # 0
               PROVE  J.iIMIndex = Wanted(J, d)
    BY DEF FollowsFocus
  <2>1. d = I.ic[I.CurrentIC] /\ I.CurrentIC # NULL /\ J.iIMIndex = I.iIMIndex
    BY <1>4, <1>7
  <2>2. I.iIMIndex = Wanted(I, d)
    BY <1>3, <2>1 DEF FollowsFocus
  <2> HIDE DEF d
  <2> QED BY <1>9, <2>1, <2>2
<1> QED BY <1>4, <1>5, <1>6, <1>8, <1>10 DEF Settled, Sound, J

-----------------------------------------------------------------------------
(* The inductive invariant and the steps.                                  *)

Inv == Settled(instance) /\ exited \subseteq Node

LEMMA InitInv == Init => Inv
<1> SUFFICES ASSUME Init PROVE Inv
  OBVIOUS
<1>1. /\ instance \in Instance /\ exited \subseteq Node
      /\ instance.CurrentIC = NULL /\ instance.lastIC = NULL
      /\ instance.ic_list = {}
      /\ \A n \in Node : instance.ic[n] = Blank
  BY BlankContext, ConfigAssumption DEF Init, Instance, State, NoIM
<1> QED BY <1>1, BlankContext DEF Inv, Settled, Sound, Linked, FollowsFocus, OwnText

(* A step that becomes a settled instance keeps the invariant.              *)
LEMMA BecomesInv ==
    ASSUME Inv, NEW I, Becomes(I), Settled(I)
    PROVE  Inv'
BY DEF Inv, Becomes, Settled, Sound, Linked, Instance, FollowsFocus, Wanted, OwnText, Told

(* One lemma per action whose handler is more than one call.                *)

LEMMA InstanceProcessKeySettles ==
    ASSUME NEW I, Settled(I), NEW key \in Key
    PROVE  Settled(InstanceProcessKey(I, key))
<1> DEFINE n == I.CurrentIC
<1>1. n \in Node \cup {NULL} /\ I \in Instance
  BY DEF Settled, Sound, Instance
<1>2. /\ Settled(ChangeIMState(I, n)) /\ Settled(CloseIM(I, n))
      /\ Settled(EnableIM(I, n, FALSE))
  BY <1>1, ChangeIMStateSettles, CloseIMSettles, EnableIMSettles DEF Settled
<1>3. \A index \in {-1, -2, -3, -4} : Settled(SwitchIMByIndex(I, index))
  BY NumIMAssumption, SwitchIMByIndexSettles
<1>4. Settled([I EXCEPT !.composing = n]) /\ Settled(ResetInput(I))
  <2>1. Settled([I EXCEPT !.composing = n])
    BY <1>1 DEF Settled, Sound, Linked, Instance, FollowsFocus, Wanted, OwnText
  <2> QED BY <2>1, ResetInputSettles
<1>5. InstanceProcessKey(I, key) \in
        {I, ChangeIMState(I, n), CloseIM(I, n), EnableIM(I, n, FALSE),
         SwitchIMByIndex(I, -1), SwitchIMByIndex(I, -2),
         SwitchIMByIndex(I, -3), SwitchIMByIndex(I, -4),
         [I EXCEPT !.composing = n], ResetInput(I)}
  BY DEF InstanceProcessKey
<1> QED BY <1>2, <1>3, <1>4, <1>5

LEMMA ProcessKeyInv ==
    ASSUME Inv, NEW n \in Node, NEW key \in Key, ProcessKey(n, key)
    PROVE  Inv'
<1> DEFINE I == IF instance.CurrentIC # n
                THEN OnInputFocus(SetCurrentIC(instance, n)) ELSE instance
<1>1. n \in instance.ic_list /\ Settled(instance)
  BY DEF ProcessKey, Inv
<1>2. Settled(I)
  BY <1>1, FocusSettles DEF Settled
<1>3. /\ Becomes(IF I.ic[n].state = "CLOSED"
                  THEN IF key = "trigger" THEN EnableIM(I, n, FALSE) ELSE I
                  ELSE InstanceProcessKey(I, key))
  BY DEF ProcessKey
<1> HIDE DEF I
<1>4. Settled(EnableIM(I, n, FALSE)) /\ Settled(InstanceProcessKey(I, key))
  BY <1>2, NodeAssumption, EnableIMSettles, InstanceProcessKeySettles DEF Settled
<1> QED BY <1>2, <1>3, <1>4, BecomesInv

LEMMA CreateInv ==
    ASSUME Inv, NEW kind \in Kinds, NEW app \in App \cup {NoApp}, NEW n \in Node,
           IPCCreate(kind, app, n) \/ XIMCreate(kind, app, n)
    PROVE  Inv'
<1> DEFINE I == CleanUpIC(instance)
           J == CreateIC(I, kind, app, n)
<1>1. Settled(instance) /\ exited \subseteq Node /\ kind \in Kind
  BY InputAssumption DEF Inv
<1>2. n \in Allocatable(I)
  BY DEF IPCCreate, XIMCreate
<1>3. Settled(I)
  BY <1>1, CleanUpICSettles
<1>4. \/ instance' = J
      \/ instance' = OnInputFocus(SetCurrentIC(J, n))
  BY DEF IPCCreate, XIMCreate
<1>5. exited' \subseteq Node
  BY <1>1 DEF IPCCreate, XIMCreate
<1> HIDE DEF I
<1>6. Settled(J) /\ n \in J.ic_list
  BY <1>1, <1>2, <1>3, CreateICSettles
<1> HIDE DEF J
<1>7. Settled(OnInputFocus(SetCurrentIC(J, n)))
  BY <1>6, FocusSettles DEF Settled
<1>8. Settled(instance')
  BY <1>4, <1>6, <1>7
<1> QED BY <1>5, <1>8 DEF Inv, Settled, Sound, Linked, Instance, FollowsFocus, Wanted,
           OwnText, Told

LEMMA OneContextInv ==
    ASSUME Inv, NEW n \in Node,
           \/ Destroy(n) \/ FocusIn(n) \/ IPCFocusOut(n) \/ IPCReset(n)
           \/ XIMUnsetFocus(n) \/ XIMResetIC(n) \/ IPCEnableIC(n) \/ IPCCloseIC(n)
    PROVE  Inv'
<1>1. Settled(instance)
  BY DEF Inv
<1>2. CASE Destroy(n)
  BY <1>1, <1>2, DestroyICSettles, BecomesInv DEF Destroy
<1>3. CASE FocusIn(n)
  BY <1>1, <1>3, FocusSettles, BecomesInv DEF FocusIn, Settled
<1>4. CASE IPCFocusOut(n) \/ XIMResetIC(n)
  BY <1>1, <1>4, UnfocusSettles, BecomesInv DEF IPCFocusOut, XIMResetIC
<1>5. CASE IPCReset(n) \/ XIMUnsetFocus(n)
  BY <1>1, <1>5, ResetInputSettles, BecomesInv DEF IPCReset, XIMUnsetFocus
<1>6. CASE IPCEnableIC(n)
  BY <1>1, <1>6, NodeAssumption, EnableIMSettles, BecomesInv DEF IPCEnableIC, Settled
<1>7. CASE IPCCloseIC(n)
  BY <1>1, <1>7, CloseIMSettles, BecomesInv DEF IPCCloseIC
<1> QED BY <1>2, <1>3, <1>4, <1>5, <1>6, <1>7

LEMMA SetCapacityInv ==
    ASSUME Inv, NEW n \in Node, NEW cap \in ClientCaps, IPCSetCapacity(n, cap)
    PROVE  Inv'
<1> DEFINE c == [instance.ic[n] EXCEPT !.clientSideState = cap]
           J == [instance EXCEPT !.ic[n].clientSideState = cap]
<1>1. Settled(instance) /\ cap \in BOOLEAN /\ Becomes(J)
  BY InputAssumption DEF Inv, IPCSetCapacity
<1>2. instance.ic \in [Node -> Context] /\ instance.ic[n] \in Context
  BY <1>1 DEF Settled, Sound, Instance
<1>3. /\ c \in Context /\ c.imname = instance.ic[n].imname
      /\ c.state = instance.ic[n].state /\ c.toldEnabled = instance.ic[n].toldEnabled
  BY <1>1, <1>2 DEF Context
<1>4. J = [instance EXCEPT !.ic[n] = c]
  BY <1>2
<1> HIDE DEF c, J
<1>5. Sound(J) /\ OwnText(J) /\ FollowsFocus(J)
  BY <1>1, <1>3, <1>4, OneContextChanged
<1> QED BY <1>1, <1>5, BecomesInv DEF Settled

LEMMA SelectLocalInv ==
    ASSUME Inv, NEW name \in LocalIM, SelectLocal(name)
    PROVE  Inv'
<1> DEFINE J == SetLocalIMName(instance, instance.CurrentIC, name)
<1>1. /\ Settled(instance) /\ name \in IM \cup {NoIM}
      /\ instance.CurrentIC \in Node
      /\ Becomes(IF name # NoIM /\ CurrentState(J) # "ACTIVE"
                 THEN EnableIM(J, J.CurrentIC, FALSE) ELSE J)
  BY InputAssumption DEF Inv, SelectLocal, Settled, Sound, Instance
<1>2. Settled(J)
  BY <1>1, SetLocalIMNameSettles
<1> HIDE DEF J
<1>3. J.CurrentIC \in Node \cup {NULL}
  BY <1>2 DEF Settled, Sound, Instance
<1>4. Settled(EnableIM(J, J.CurrentIC, FALSE))
  BY <1>2, <1>3, EnableIMSettles DEF Settled
<1> QED BY <1>1, <1>2, <1>4, BecomesInv

LEMMA GlobalInv ==
    ASSUME Inv,
           \/ ActivateIM \/ InactivateIM \/ ToggleIM \/ SwitchIM
           \/ \E name \in IM : SetCurrentIM(name)
    PROVE  Inv'
<1>1. Settled(instance) /\ instance.CurrentIC \in Node \cup {NULL}
  BY DEF Inv, Settled, Sound, Instance
<1>2. CASE ActivateIM
  BY <1>1, <1>2, EnableIMSettles, BecomesInv DEF ActivateIM, Settled
<1>3. CASE InactivateIM
  BY <1>1, <1>3, CloseIMSettles, BecomesInv DEF InactivateIM
<1>4. CASE ToggleIM
  BY <1>1, <1>4, ChangeIMStateSettles, BecomesInv DEF ToggleIM
<1>5. CASE SwitchIM
  <2>1. -2 \in -4 .. NumIM - 1
    BY NumIMAssumption
  <2> QED BY <1>1, <1>5, <2>1, SwitchIMByIndexSettles, BecomesInv DEF SwitchIM
<1>6. CASE \E name \in IM : SetCurrentIM(name)
  BY <1>1, <1>6, SwitchIMByNameSettles, BecomesInv DEF SetCurrentIM
<1> QED BY <1>2, <1>3, <1>4, <1>5, <1>6

LEMMA NextInv == Inv /\ [Next]_vars => Inv'
<1> SUFFICES ASSUME Inv, [Next]_vars PROVE Inv'
  OBVIOUS
<1>1. ASSUME NEW kind \in Kinds, NEW app \in App \cup {NoApp}, NEW n \in Node,
             IPCCreate(kind, app, n) \/ XIMCreate(kind, app, n)
      PROVE  Inv'
  BY <1>1, CreateInv
<1>2. ASSUME NEW n \in Node,
             \/ Destroy(n) \/ FocusIn(n) \/ IPCFocusOut(n) \/ IPCReset(n)
             \/ XIMUnsetFocus(n) \/ XIMResetIC(n) \/ IPCEnableIC(n) \/ IPCCloseIC(n)
      PROVE  Inv'
  BY <1>2, OneContextInv
<1>3. ASSUME NEW n \in Node, ClientExit(n) PROVE Inv'
  BY <1>3 DEF Inv, ClientExit, Settled, Sound, Linked, FollowsFocus, Wanted, OwnText,
              Told, Instance
<1>4. ASSUME NEW n \in Node, NEW cap \in ClientCaps, IPCSetCapacity(n, cap) PROVE Inv'
  BY <1>4, SetCapacityInv
<1>5. ASSUME NEW n \in Node, NEW key \in Key, ProcessKey(n, key) PROVE Inv'
  BY <1>5, ProcessKeyInv
<1>6. ASSUME \/ ActivateIM \/ InactivateIM \/ ToggleIM \/ SwitchIM
             \/ \E name \in IM : SetCurrentIM(name)
      PROVE  Inv'
  BY <1>6, GlobalInv
<1>7. ASSUME NEW name \in LocalIM, SelectLocal(name) PROVE Inv'
  BY <1>7, SelectLocalInv
<1>8. CASE UNCHANGED vars
  BY <1>8 DEF vars, Inv, Settled, Sound, Linked, FollowsFocus, Wanted, OwnText,
              Told, Instance
<1> QED BY <1>1, <1>2, <1>3, <1>4, <1>5, <1>6, <1>7, <1>8 DEF Next

(* The inductive invariant holds of every reachable state: every request     *)
(* leaves the instance settled.                                            *)
THEOREM Invariant == Spec => []Inv
BY InitInv, NextInv, PTL DEF Spec

-----------------------------------------------------------------------------
(* What a reader should know of.                                           *)

(* The instance and its contexts keep their types: no input method index    *)
(* past the list, no state but the three.                                   *)
THEOREM TypeCorrect == Spec => []TypeOK
<1>1. Inv => TypeOK
  BY DEF Inv, TypeOK, Settled, Sound
<1> QED BY <1>1, Invariant, PTL

(* CurrentIC and lastIC never point to a freed context.                     *)
THEOREM NeverDangles == Spec => []PointersLinked
<1>1. Inv => PointersLinked
  BY DEF Inv, PointersLinked, Settled, Sound
<1> QED BY <1>1, Invariant, PTL

(* The current input method is the one the focused context asks for.        *)
THEOREM FollowsTheFocus == Spec => []CurrentIMFollowsFocus
<1>1. Inv => CurrentIMFollowsFocus
  BY DEF Inv, CurrentIMFollowsFocus, Settled
<1> QED BY <1>1, Invariant, PTL

(* Typed text stays with the context it was typed in.                       *)
THEOREM TextStaysHome == Spec => []NoForeignText
<1>1. Inv => NoForeignText
  BY DEF Inv, NoForeignText, Settled
<1> QED BY <1>1, Invariant, PTL

(* No client believes enabled a context the server has closed.              *)
THEOREM ClosingIsTold == Spec => []ClosedIsTold
<1>1. Inv => ClosedIsTold
  BY DEF Inv, ClosedIsTold, Settled, Sound, Instance
<1> QED BY <1>1, Invariant, PTL

-----------------------------------------------------------------------------
(* With shareState All, the state all contexts share, proved for every       *)
(* number of them.  Clients that change the CLIENT_SIDE_CONTROL_STATE bit of *)
(* a context after its creation are left out: the state of a context that    *)
(* gives the bit back is its own until the next change of the shared one.    *)
(* With shareState PerProgram, the state the contexts of a program share,    *)
(* where no context has an input method of its own either.                  *)

Agree(I) == \A n \in I.ic_list :
               ~ I.ic[n].clientSideState => I.ic[n].state = I.globalState

(* J differs from I in nothing that Agree speaks of.                        *)
SameStates(I, J) ==
    /\ J.ic_list = I.ic_list /\ J.globalState = I.globalState
    /\ \A n \in Node : /\ J.ic[n].state = I.ic[n].state
                       /\ J.ic[n].clientSideState = I.ic[n].clientSideState

LEMMA SameStatesAgree ==
    ASSUME NEW I, I \in Instance, NEW J, SameStates(I, J), Agree(I)
    PROVE  Agree(J)
BY DEF SameStates, Agree, Instance

LEMMA UpdateCurrentIMStates ==
    ASSUME NEW I, I \in Instance
    PROVE  /\ SameStates(I, UpdateCurrentIM(I))
           /\ SameStates(I, ResetInput(I))
           /\ \A k, least : SameStates(I, SwitchIMGlobally(I, k, least))
<1>1. SameStates(I, I) /\ SameStates(I, ResetInput(I))
  BY DEF SameStates, ResetInput, Instance
<1>2. ASSUME NEW k, NEW least
      PROVE  /\ SameStates(I, SwitchIMInternal(I, k, least))
             /\ SameStates(I, SwitchIMGlobally(I, k, least))
  BY DEF SameStates, SwitchIMGlobally, SwitchIMInternal, ResetInput, Instance
<1>3. \/ UpdateCurrentIM(I) = I
      \/ \E k, least : \/ UpdateCurrentIM(I) = SwitchIMInternal(I, k, least)
                       \/ UpdateCurrentIM(I) = SwitchIMGlobally(I, k, least)
  BY DEF UpdateCurrentIM
<1> QED BY <1>1, <1>2, <1>3

LEMMA SetLocalIMNameStates ==
    ASSUME NEW I, I \in Instance, NEW n \in Node, NEW name \in IM \cup {NoIM}
    PROVE  SameStates(I, SetLocalIMName(I, n, name))
<1> DEFINE J == [I EXCEPT !.ic[n].imname = name]
<1>1. J \in Instance
  <2>1. I.ic[n] \in Context /\ [I.ic[n] EXCEPT !.imname = name] \in Context
    BY DEF Instance, Context
  <2>2. [I.ic EXCEPT ![n] = [I.ic[n] EXCEPT !.imname = name]] \in [Node -> Context]
    BY <2>1 DEF Instance
  <2> QED BY <2>2 DEF Instance
<1>2. /\ J.ic_list = I.ic_list /\ J.globalState = I.globalState
      /\ J.ic = [I.ic EXCEPT ![n] = [I.ic[n] EXCEPT !.imname = name]]
      /\ \A m \in Node : I.ic[m] \in Context
  BY DEF Instance
<1>3. SameStates(I, J)
  <2> HIDE DEF J
  <2> QED BY <1>2 DEF SameStates, Instance, Context
<1> HIDE DEF J
<1>4. SameStates(J, UpdateCurrentIM(J))
  BY <1>1, UpdateCurrentIMStates
<1>5. SameStates(I, UpdateCurrentIM(J))
  BY <1>3, <1>4 DEF SameStates
<1> QED BY <1>3, <1>5 DEF SetLocalIMName, J

(* A change of the state of n reaches every context that leaves its state   *)
(* to the server.                                                          *)
LEMMA EveryoneShares ==
    ASSUME ShareState = "All", NEW I, I \in Instance, NEW n \in Node
    PROVE  \A m \in I.ic_list : ~ I.ic[m].clientSideState => m \in Sharing(I, n)
BY DEF Sharing

LEMMA SharedChange ==
    ASSUME ShareState = "All", NEW I, I \in Instance, NEW n \in Node,
           NEW f \in [Node -> Context], NEW s \in State,
           \A m \in Node : /\ f[m].clientSideState = I.ic[m].clientSideState
                           /\ m \in Sharing(I, n) => f[m].state = s,
           NEW J, J = [I EXCEPT !.globalState = s, !.ic = f]
    PROVE  J \in Instance /\ Agree(J)
<1>1. /\ J \in Instance /\ J.ic = f /\ J.globalState = s
      /\ J.ic_list = I.ic_list /\ I.ic_list \subseteq Node
  BY DEF Instance
<1> QED BY <1>1, EveryoneShares DEF Agree

LEMMA ContextStates ==
    ASSUME NEW c \in Context
    PROVE  /\ Enabled(c) \in Context /\ Enabled(c).state = "ACTIVE"
           /\ Enabled(c).clientSideState = c.clientSideState
           /\ Closed(c) \in Context /\ Closed(c).state = "CLOSED"
           /\ Closed(c).clientSideState = c.clientSideState
BY DEF Context, Enabled, Closed, State

LEMMA EnableIMAgrees ==
    ASSUME ShareState = "All", NEW I, I \in Instance, Agree(I),
           NEW n \in Node \cup {NULL}, NEW keep \in BOOLEAN
    PROVE  Agree(EnableIM(I, n, keep))
<1>1. CASE n = NULL
  BY <1>1 DEF EnableIM
<1>2. CASE n # NULL
  <2> DEFINE hit == Sharing(I, n)
             f == [m \in Node |-> IF m \in hit THEN Enabled(I.ic[m]) ELSE I.ic[m]]
             J == [I EXCEPT !.globalState = "ACTIVE", !.ic = f]
  <2> HIDE DEF hit
  <2>1. /\ f \in [Node -> Context] /\ "ACTIVE" \in State
        /\ \A m \in Node : /\ f[m].clientSideState = I.ic[m].clientSideState
                           /\ m \in hit => f[m].state = "ACTIVE"
    BY ContextStates DEF Instance, State
  <2>2. J = [I EXCEPT !.globalState = "ACTIVE", !.ic = f]
    OBVIOUS
  <2>3. \/ EnableIM(I, n, keep) = UpdateCurrentIM(J)
        \/ EnableIM(I, n, keep) = UpdateCurrentIM(ResetInput(J))
    BY <1>2 DEF EnableIM, hit
  <2> HIDE DEF f, J
  <2>4. J \in Instance /\ Agree(J)
    BY <1>2, <2>1, <2>2, SharedChange DEF hit
  <2>5. ResetInput(J) \in Instance /\ Agree(ResetInput(J))
    <3>1. ResetInput(J) \in Instance
      BY <2>4 DEF ResetInput, Instance
    <3> QED BY <2>4, <3>1, UpdateCurrentIMStates, SameStatesAgree
  <2> QED BY <2>3, <2>4, <2>5, UpdateCurrentIMStates, SameStatesAgree
<1> QED BY <1>1, <1>2

LEMMA ChangeIMStateAgrees ==
    ASSUME ShareState = "All", NEW I, I \in Instance, Agree(I), NEW n \in Node \cup {NULL}
    PROVE  Agree(ChangeIMState(I, n))
<1>1. CASE n = NULL
  BY <1>1 DEF ChangeIMState
<1>2. CASE n # NULL
  <2> DEFINE object == IF I.ic[n].state = "INACTIVE" THEN "ACTIVE" ELSE "INACTIVE"
             hit == Sharing(I, n)
             f == [m \in Node |-> IF m \in hit THEN [I.ic[m] EXCEPT !.state = object]
                                               ELSE I.ic[m]]
             J == [I EXCEPT !.globalState = object, !.ic = f]
  <2>1. object \in State
    BY DEF State
  <2>2. J = [I EXCEPT !.globalState = object, !.ic = f]
    OBVIOUS
  <2>3. ChangeIMState(I, n) = UpdateCurrentIM(J)
    BY <1>2 DEF ChangeIMState
  <2> HIDE DEF hit, object, J
  <2>4. /\ f \in [Node -> Context]
        /\ \A m \in Node : /\ f[m].clientSideState = I.ic[m].clientSideState
                           /\ m \in hit => f[m].state = object
    BY <2>1 DEF Instance, Context
  <2> HIDE DEF f
  <2>5. J \in Instance /\ Agree(J)
    BY <1>2, <2>1, <2>2, <2>4, SharedChange DEF hit
  <2> QED BY <2>3, <2>5, UpdateCurrentIMStates, SameStatesAgree
<1> QED BY <1>1, <1>2

LEMMA CloseIMAgrees ==
    ASSUME ShareState = "All", NEW I, I \in Instance, Agree(I), NEW n \in Node \cup {NULL}
    PROVE  Agree(CloseIM(I, n))
<1>1. CASE n = NULL \/ ~ I.ic[n].clientSideState
  BY <1>1, ChangeIMStateAgrees DEF CloseIM
<1>2. CASE n # NULL /\ I.ic[n].clientSideState
  <2> DEFINE hit == Sharing(I, n)
             f == [m \in Node |-> IF m \in hit THEN Closed(I.ic[m]) ELSE I.ic[m]]
             J == [I EXCEPT !.globalState = "CLOSED", !.ic = f]
  <2> HIDE DEF hit
  <2>1. /\ f \in [Node -> Context] /\ "CLOSED" \in State
        /\ \A m \in Node : /\ f[m].clientSideState = I.ic[m].clientSideState
                           /\ m \in hit => f[m].state = "CLOSED"
    BY ContextStates DEF Instance, State
  <2>2. J = [I EXCEPT !.globalState = "CLOSED", !.ic = f]
    OBVIOUS
  <2>3. CloseIM(I, n) \in {J, ResetInput(J)}
    BY <1>2 DEF CloseIM, hit
  <2> HIDE DEF f, J
  <2>4. J \in Instance /\ Agree(J)
    BY <1>2, <2>1, <2>2, SharedChange DEF hit
  <2>5. Agree(ResetInput(J))
    BY <2>4, UpdateCurrentIMStates, SameStatesAgree
  <2> QED BY <2>3, <2>4, <2>5
<1> QED BY <1>1, <1>2

LEMMA SwitchIMByIndexAgrees ==
    ASSUME ShareState = "All", NEW I, Settled(I), Agree(I), NEW index \in -4 .. NumIM - 1
    PROVE  Agree(SwitchIMByIndex(I, index))
<1> DEFINE k == StepIndex(index, I.iIMIndex)
           n == I.CurrentIC
           J == IF n # NULL THEN SetLocalIMName(I, n, NoIM) ELSE I
           K == SwitchIMGlobally(J, k, 1)
<1>1. /\ n \in Node \cup {NULL} /\ k \in Int /\ I \in Instance
  <2>1. I \in Instance /\ I.iIMIndex \in IM /\ n \in Node \cup {NULL}
    BY DEF Settled, Sound, Instance
  <2>2. k \in IM
    BY <2>1, StepIndexType
  <2> QED BY <2>1, <2>2 DEF IM
<1>2. SwitchIMByIndex(I, index) =
          IF k = 0 THEN CloseIM(I, n)
          ELSE IF CurrentState(K) # "ACTIVE" THEN EnableIM(K, n, FALSE) ELSE K
  BY DEF SwitchIMByIndex
<1> HIDE DEF k
<1>3. Sound(J) /\ Agree(J)
  <2>1. CASE n = NULL
    BY <2>1 DEF Settled
  <2>2. CASE n # NULL
    <3>1. NoIM \in IM \cup {NoIM} /\ n \in Node
      BY <1>1, <2>2
    <3>2. Settled(SetLocalIMName(I, n, NoIM)) /\ SameStates(I, SetLocalIMName(I, n, NoIM))
      BY <1>1, <3>1, SetLocalIMNameSettles, SetLocalIMNameStates
    <3> QED BY <1>1, <2>2, <3>2, SameStatesAgree DEF Settled
  <2> QED BY <2>1, <2>2
<1> HIDE DEF J
<1>4. K \in Instance /\ Agree(K)
  <2>1. Sound(K)
    BY <1>1, <1>3, SwitchIMGloballySound
  <2>2. J \in Instance /\ K \in Instance
    BY <1>3, <2>1 DEF Sound
  <2> QED BY <1>3, <2>2, UpdateCurrentIMStates, SameStatesAgree
<1> HIDE DEF K
<1> QED BY <1>1, <1>2, <1>4, CloseIMAgrees, EnableIMAgrees

LEMMA SwitchIMByNameAgrees ==
    ASSUME ShareState = "All", NEW I, Settled(I), Agree(I), NEW name \in IM
    PROVE  Agree(SwitchIMByName(I, name))
<1>1. name \in -4 .. NumIM - 1
  BY NumIMAssumption DEF IM
<1>2. Agree([I EXCEPT !.delayedIM = name])
  BY DEF Agree, Settled, Sound, Instance
<1> QED BY <1>1, <1>2, SwitchIMByIndexAgrees DEF SwitchIMByName

LEMMA FocusAgrees ==
    ASSUME NEW I, Sound(I), Agree(I), NEW n \in I.ic_list
    PROVE  Agree(OnInputFocus(SetCurrentIC(I, n)))
<1> DEFINE F == SetCurrentIC(I, n)
<1>1. Sound(F) /\ F.delayedIM = NoIM /\ Agree(F)
  BY NodeAssumption DEF Sound, Linked, Instance, SetCurrentIC, SetLastIC, Agree
<1> HIDE DEF F
<1>2. /\ ResetInput(F).delayedIM = NoIM /\ ResetInput(F) \in Instance
  BY <1>1 DEF ResetInput, Sound, Instance
<1>3. OnInputFocus(F) = UpdateCurrentIM(ResetInput(F))
  BY <1>2 DEF OnInputFocus
<1>4. F \in Instance
  BY <1>1 DEF Sound
<1>5. Agree(ResetInput(F))
  BY <1>1, <1>2, <1>4, UpdateCurrentIMStates, SameStatesAgree
<1> QED BY <1>2, <1>3, <1>5, UpdateCurrentIMStates, SameStatesAgree DEF F

LEMMA UnfocusAgrees ==
    ASSUME NEW I, I \in Instance, Agree(I)
    PROVE  Agree(SetCurrentIC(I, NULL)) /\ Agree(SetLastIC(I, NULL))
BY DEF Agree, Instance, SetCurrentIC, SetLastIC

LEMMA UnlinkAgrees ==
    ASSUME NEW I, I \in Instance, Agree(I), NEW gone \in SUBSET I.ic_list
    PROVE  Unlink(I, gone) \in Instance /\ Agree(Unlink(I, gone))
<1> DEFINE J == Unlink(I, gone)
<1>1. /\ J \in Instance /\ J.ic_list = I.ic_list \ gone
      /\ J.globalState = I.globalState
      /\ \A m \in Node \ gone : J.ic[m] = I.ic[m]
  BY BlankContext DEF Unlink, Instance
<1> HIDE DEF J
<1>2. Agree(J)
  BY <1>1 DEF Agree, Instance
<1> QED BY <1>1, <1>2 DEF J

LEMMA ForgetAgrees ==
    ASSUME NEW I, Settled(I), Agree(I)
    PROVE  /\ Agree(CleanUpIC(I))
           /\ \A n \in I.ic_list : Agree(DestroyIC(I, n))
<1>1. ASSUME NEW gone \in SUBSET I.ic_list,
             NEW K, K = (IF I.lastIC \in gone THEN SetLastIC(Unlink(I, gone), NULL)
                                              ELSE Unlink(I, gone)),
             NEW L, L = (IF I.CurrentIC \in gone THEN SetCurrentIC(K, NULL) ELSE K)
      PROVE  Agree(L)
  <2>1. Unlink(I, gone) \in Instance /\ Agree(Unlink(I, gone))
    BY UnlinkAgrees DEF Settled, Sound
  <2>2. SetLastIC(Unlink(I, gone), NULL) \in Instance
    BY <2>1 DEF SetLastIC, Instance
  <2>3. K \in Instance /\ Agree(K)
    BY <1>1, <2>1, <2>2, UnfocusAgrees
  <2> QED BY <1>1, <2>3, UnfocusAgrees
<1>2. Agree(CleanUpIC(I))
  BY <1>1 DEF CleanUpIC
<1>3. ASSUME NEW n \in I.ic_list PROVE Agree(DestroyIC(I, n))
  <2> DEFINE K == IF I.lastIC \in {n} THEN SetLastIC(Unlink(I, {n}), NULL)
                                      ELSE Unlink(I, {n})
  <2>1. DestroyIC(I, n) = IF I.CurrentIC \in {n} THEN SetCurrentIC(K, NULL) ELSE K
    BY DEF DestroyIC
  <2>2. {n} \in SUBSET I.ic_list /\ K = K
    OBVIOUS
  <2> QED BY <1>1, <2>1, <2>2
<1> QED BY <1>2, <1>3

LEMMA CreateICAgrees ==
    ASSUME ShareState = "All", NEW I, Settled(I), Agree(I), NEW kind \in Kind,
           NEW app \in App \cup {NoApp}, NEW n \in Allocatable(I)
    PROVE  Agree(CreateIC(I, kind, app, n))
<1> DEFINE c == NewContext(I, kind, app)
           J == CreateIC(I, kind, app, n)
<1>1. /\ n \in Node /\ n \notin I.ic_list /\ I \in Instance
  BY DEF Allocatable, Settled, Sound, Linked, Instance
<1>2. c.clientSideState \/ c.state = I.globalState
  BY DEF NewContext
<1>3. /\ J.ic_list = I.ic_list \cup {n} /\ J.globalState = I.globalState
      /\ J.ic = [I.ic EXCEPT ![n] = c]
  BY <1>1 DEF CreateIC, Instance
<1> HIDE DEF c, J
<1>4. Agree(J)
  BY <1>1, <1>2, <1>3 DEF Agree, Instance
<1> QED BY <1>4 DEF J

LEMMA InstanceProcessKeyAgrees ==
    ASSUME ShareState = "All", NEW I, Settled(I), Agree(I), NEW key \in Key
    PROVE  Agree(InstanceProcessKey(I, key))
<1> DEFINE n == I.CurrentIC
<1>1. n \in Node \cup {NULL} /\ I \in Instance
  BY DEF Settled, Sound, Instance
<1>2. /\ Agree(ChangeIMState(I, n)) /\ Agree(CloseIM(I, n))
      /\ Agree(EnableIM(I, n, FALSE))
  BY <1>1, ChangeIMStateAgrees, CloseIMAgrees, EnableIMAgrees
<1>3. \A index \in {-1, -2, -3, -4} : Agree(SwitchIMByIndex(I, index))
  BY NumIMAssumption, SwitchIMByIndexAgrees
<1>4. Agree([I EXCEPT !.composing = n]) /\ Agree(ResetInput(I))
  BY <1>1 DEF Agree, ResetInput, Instance
<1>5. InstanceProcessKey(I, key) \in
        {I, ChangeIMState(I, n), CloseIM(I, n), EnableIM(I, n, FALSE),
         SwitchIMByIndex(I, -1), SwitchIMByIndex(I, -2),
         SwitchIMByIndex(I, -3), SwitchIMByIndex(I, -4),
         [I EXCEPT !.composing = n], ResetInput(I)}
  BY DEF InstanceProcessKey
<1> QED BY <1>2, <1>3, <1>4, <1>5

-----------------------------------------------------------------------------

LEMMA NextAgrees ==
    ASSUME ShareState = "All", ClientCaps = {}, Inv, Agree(instance), [Next]_vars
    PROVE  Agree(instance)'
<1> DEFINE I == instance
           n0 == instance.CurrentIC
<1>1. Settled(I) /\ I \in Instance /\ n0 \in Node \cup {NULL}
  BY DEF Inv, Settled, Sound, Instance
<1>2. ASSUME NEW kind \in Kinds, NEW app \in App \cup {NoApp}, NEW n \in Node,
             IPCCreate(kind, app, n) \/ XIMCreate(kind, app, n)
      PROVE  Agree(instance')
  <2> DEFINE C == CleanUpIC(I)
             J == CreateIC(C, kind, app, n)
  <2>1. /\ kind \in Kind /\ n \in Allocatable(C)
        /\ instance' = J \/ instance' = OnInputFocus(SetCurrentIC(J, n))
    BY <1>2, InputAssumption DEF IPCCreate, XIMCreate
  <2>2. Settled(C) /\ Agree(C)
    BY <1>1, CleanUpICSettles, ForgetAgrees
  <2> HIDE DEF C
  <2>3. Settled(J) /\ Agree(J) /\ n \in J.ic_list
    BY <2>1, <2>2, CreateICSettles, CreateICAgrees
  <2> HIDE DEF J
  <2> QED BY <2>1, <2>3, FocusAgrees DEF Settled
<1>3. ASSUME NEW n \in Node, Destroy(n) PROVE Agree(instance')
  BY <1>1, <1>3, ForgetAgrees DEF Destroy, Becomes
<1>4. ASSUME NEW n \in Node, FocusIn(n) PROVE Agree(instance')
  BY <1>1, <1>4, FocusAgrees DEF FocusIn, Becomes, Settled
<1>5. ASSUME NEW n \in Node,
             IPCFocusOut(n) \/ XIMResetIC(n) \/ IPCReset(n) \/ XIMUnsetFocus(n)
      PROVE  Agree(instance')
  <2>1. Agree(SetCurrentIC(I, NULL)) /\ Agree(ResetInput(I))
    BY <1>1, UnfocusAgrees DEF ResetInput, Agree, Instance
  <2> QED BY <1>5, <2>1 DEF IPCFocusOut, XIMResetIC, IPCReset, XIMUnsetFocus, Becomes
<1>6. ASSUME NEW n \in Node, IPCEnableIC(n) \/ IPCCloseIC(n) PROVE Agree(instance')
  BY <1>1, <1>6, EnableIMAgrees, CloseIMAgrees DEF IPCEnableIC, IPCCloseIC, Becomes
<1>7. ASSUME NEW n \in Node, NEW key \in Key, ProcessKey(n, key) PROVE Agree(instance')
  <2> DEFINE F == IF instance.CurrentIC # n
                  THEN OnInputFocus(SetCurrentIC(instance, n)) ELSE instance
  <2>1. n \in I.ic_list /\ Sound(I)
    BY <1>1, <1>7 DEF ProcessKey, Settled
  <2>2. Settled(F) /\ Agree(F)
    BY <1>1, <2>1, FocusSettles, FocusAgrees
  <2>3. instance' = IF F.ic[n].state = "CLOSED"
                    THEN IF key = "trigger" THEN EnableIM(F, n, FALSE) ELSE F
                    ELSE InstanceProcessKey(F, key)
    BY <1>7 DEF ProcessKey, Becomes
  <2> HIDE DEF F
  <2>4. F \in Instance
    BY <2>2 DEF Settled, Sound
  <2>5. Agree(EnableIM(F, n, FALSE)) /\ Agree(InstanceProcessKey(F, key))
    BY <2>2, <2>4, EnableIMAgrees, InstanceProcessKeyAgrees
  <2> QED BY <2>2, <2>3, <2>5
<1>8. CASE ActivateIM \/ InactivateIM \/ ToggleIM \/ SwitchIM
  <2>1. -2 \in -4 .. NumIM - 1
    BY NumIMAssumption
  <2>2. /\ Agree(EnableIM(I, n0, FALSE)) /\ Agree(CloseIM(I, n0))
        /\ Agree(ChangeIMState(I, n0)) /\ Agree(SwitchIMByIndex(I, -2))
    BY <1>1, <2>1, EnableIMAgrees, CloseIMAgrees, ChangeIMStateAgrees,
       SwitchIMByIndexAgrees
  <2> QED BY <1>8, <2>2 DEF ActivateIM, InactivateIM, ToggleIM, SwitchIM, Becomes
<1>9. ASSUME NEW name \in IM, SetCurrentIM(name) PROVE Agree(instance')
  BY <1>1, <1>9, SwitchIMByNameAgrees DEF SetCurrentIM, Becomes
<1>10. ASSUME NEW name \in LocalIM, SelectLocal(name) PROVE Agree(instance')
  <2> DEFINE J == SetLocalIMName(instance, instance.CurrentIC, name)
  <2>1. /\ name \in IM \cup {NoIM} /\ n0 \in Node
        /\ instance' = IF name # NoIM /\ CurrentState(J) # "ACTIVE"
                       THEN EnableIM(J, J.CurrentIC, FALSE) ELSE J
    BY <1>1, <1>10, InputAssumption DEF SelectLocal, Becomes
  <2>2. Settled(J) /\ Agree(J)
    BY <1>1, <2>1, SetLocalIMNameSettles, SetLocalIMNameStates, SameStatesAgree
  <2> HIDE DEF J
  <2>3. J \in Instance /\ J.CurrentIC \in Node \cup {NULL}
    BY <2>2 DEF Settled, Sound, Instance
  <2> QED BY <2>1, <2>2, <2>3, EnableIMAgrees
<1>11. ASSUME NEW n \in Node, ClientExit(n) PROVE Agree(instance')
  BY <1>11 DEF ClientExit
<1>12. CASE UNCHANGED vars
  BY <1>12 DEF vars
<1>13. Agree(instance')
  BY <1>2, <1>3, <1>4, <1>5, <1>6, <1>7, <1>8, <1>9, <1>10, <1>11, <1>12 DEF Next
<1> QED BY <1>13 DEF Agree

(* With shareState All every context that leaves its state to the server    *)
(* has the state of all the others, as long as no client changes who        *)
(* decides on a context it has created.                                    *)
THEOREM StatesAreShared ==
    ASSUME ClientCaps = {}
    PROVE  Spec => []SharedStateAgrees
<1>1. CASE ShareState # "All"
  <2>1. SharedStateAgrees
    BY <1>1 DEF SharedStateAgrees
  <2> QED BY <2>1, PTL
<1>2. CASE ShareState = "All"
  <2>1. Init => Agree(instance)
    BY DEF Init, Agree
  <2>2. Inv /\ Agree(instance) /\ [Next]_vars => Agree(instance)'
    BY <1>2, NextAgrees
  <2>3. Agree(instance) => SharedStateAgrees
    BY DEF Agree, SharedStateAgrees
  <2> QED BY <2>1, <2>2, <2>3, Invariant, PTL DEF Spec
<1> QED BY <1>1, <1>2

-----------------------------------------------------------------------------
(* With shareState PerProgram: the contexts of a program agree.  A context  *)
(* is made like the newest of its program, so the order of the list has its *)
(* part in it.                                                             *)

Ordered(I) ==
    /\ IsFiniteSet(I.ic_list)
    /\ I.newer \subseteq I.ic_list \X I.ic_list
    /\ \A m \in I.ic_list : <<m, m>> \notin I.newer
    /\ \A m, n \in I.ic_list : m = n \/ <<m, n>> \in I.newer \/ <<n, m>> \in I.newer
    /\ \A m, n, o \in I.ic_list :
           <<m, n>> \in I.newer /\ <<n, o>> \in I.newer => <<m, o>> \in I.newer

(* Nothing keeps a context of a program from a change of the state: it has  *)
(* no input method of its own and leaves its state to the server.          *)
Plain(c) == c.imname = NoIM /\ (c.clientSideState => c.prgname = NoApp)

Alike(I) ==
    /\ \A n \in I.ic_list : Plain(I.ic[n])
    /\ \A m, n \in I.ic_list :
           SameProgram(I.ic[m], I.ic[n]) => I.ic[m].state = I.ic[n].state

Shares(I) == Ordered(I) /\ Alike(I)

SameContexts(I, J) == J.ic_list = I.ic_list /\ J.newer = I.newer /\ J.ic = I.ic

LEMMA SameContextsShare ==
    ASSUME NEW I, NEW J, SameContexts(I, J), Shares(I)
    PROVE  Shares(J)
BY DEF SameContexts, Shares, Ordered, Alike

LEMMA UpdateCurrentIMKeeps ==
    ASSUME NEW I, I \in Instance
    PROVE  /\ SameContexts(I, UpdateCurrentIM(I))
           /\ SameContexts(I, ResetInput(I))
           /\ \A k, least : SameContexts(I, SwitchIMGlobally(I, k, least))
<1>1. SameContexts(I, I) /\ SameContexts(I, ResetInput(I))
  BY DEF SameContexts, ResetInput, Instance
<1>2. ASSUME NEW k, NEW least
      PROVE  /\ SameContexts(I, SwitchIMInternal(I, k, least))
             /\ SameContexts(I, SwitchIMGlobally(I, k, least))
  BY DEF SameContexts, SwitchIMGlobally, SwitchIMInternal, ResetInput, Instance
<1>3. \/ UpdateCurrentIM(I) = I
      \/ \E k, least : \/ UpdateCurrentIM(I) = SwitchIMInternal(I, k, least)
                       \/ UpdateCurrentIM(I) = SwitchIMGlobally(I, k, least)
  BY DEF UpdateCurrentIM
<1> QED BY <1>1, <1>2, <1>3

(* f is the contexts of I with another state.                               *)
SameButState(f, I) ==
    \A m \in Node : /\ f[m].frontend = I.ic[m].frontend
                    /\ f[m].prgname = I.ic[m].prgname
                    /\ f[m].imname = I.ic[m].imname
                    /\ f[m].clientSideState = I.ic[m].clientSideState

(* A change of state reaches all contexts of a program or none.             *)
LEMMA ProgramsChangeTogether ==
    ASSUME ShareState = "PerProgram", NEW I, I \in Instance, Shares(I), NEW n \in Node,
           NEW f \in [Node -> Context], NEW s \in State, SameButState(f, I),
           \A m \in Node : f[m].state = IF m \in Sharing(I, n) THEN s ELSE I.ic[m].state,
           NEW J, J = [I EXCEPT !.globalState = s, !.ic = f]
    PROVE  J \in Instance /\ Shares(J)
<1>1. /\ J \in Instance /\ J.ic = f /\ J.newer = I.newer
      /\ J.ic_list = I.ic_list /\ I.ic_list \subseteq Node
  BY DEF Instance
<1>2. ASSUME NEW k \in I.ic_list, NEW l \in I.ic_list, SameProgram(I.ic[k], I.ic[l]),
             k \in Sharing(I, n)
      PROVE  l \in Sharing(I, n)
  <2>1. Plain(I.ic[k]) /\ Plain(I.ic[l])
    BY DEF Shares, Alike
  <2>2. ~ I.ic[l].clientSideState
    BY <1>2, <2>1 DEF Plain, SameProgram
  <2>3. k = n \/ (SameProgram(I.ic[k], I.ic[n]) /\ I.ic[n].imname = NoIM)
    BY <1>2 DEF Sharing, SameApplication
  <2>4. SameProgram(I.ic[l], I.ic[n]) /\ I.ic[n].imname = NoIM
    BY <1>2, <2>1, <2>3 DEF SameProgram, Plain
  <2>5. I.ic[l].imname = NoIM
    BY <2>1 DEF Plain
  <2> QED BY <2>2, <2>4, <2>5 DEF Sharing, SameApplication
<1>3. \A k, l \in I.ic_list :
          SameProgram(f[k], f[l]) => SameProgram(I.ic[k], I.ic[l]) /\ SameProgram(I.ic[l], I.ic[k])
  BY <1>1 DEF SameProgram, SameButState
<1>4. Alike(J)
  <2>1. \A k \in J.ic_list : Plain(J.ic[k])
    BY <1>1 DEF Shares, Alike, Plain, SameButState
  <2>2. ASSUME NEW k \in I.ic_list, NEW l \in I.ic_list, SameProgram(f[k], f[l])
        PROVE  f[k].state = f[l].state
    <3>1. k \in Sharing(I, n) <=> l \in Sharing(I, n)
      BY <1>2, <1>3, <2>2
    <3>2. I.ic[k].state = I.ic[l].state
      BY <1>3, <2>2 DEF Shares, Alike
    <3>3. k \in Node /\ l \in Node
      BY <1>1
    <3> QED BY <3>1, <3>2, <3>3
  <2> QED BY <1>1, <2>1, <2>2 DEF Alike
<1>5. Ordered(J)
  BY <1>1 DEF Shares, Ordered
<1> QED BY <1>1, <1>4, <1>5 DEF Shares

LEMMA OnlyStateChanges ==
    ASSUME NEW c \in Context
    PROVE  /\ /\ Enabled(c).frontend = c.frontend /\ Enabled(c).prgname = c.prgname
              /\ Enabled(c).imname = c.imname
              /\ Enabled(c).clientSideState = c.clientSideState
           /\ /\ Closed(c).frontend = c.frontend /\ Closed(c).prgname = c.prgname
              /\ Closed(c).imname = c.imname
              /\ Closed(c).clientSideState = c.clientSideState
BY DEF Context, Enabled, Closed

LEMMA EnableIMShares ==
    ASSUME ShareState = "PerProgram", NEW I, I \in Instance, Shares(I),
           NEW n \in Node \cup {NULL}, NEW keep \in BOOLEAN
    PROVE  Shares(EnableIM(I, n, keep))
<1>1. CASE n = NULL
  BY <1>1 DEF EnableIM
<1>2. CASE n # NULL
  <2> DEFINE hit == Sharing(I, n)
             f == [m \in Node |-> IF m \in hit THEN Enabled(I.ic[m]) ELSE I.ic[m]]
             J == [I EXCEPT !.globalState = "ACTIVE", !.ic = f]
  <2> HIDE DEF hit
  <2>1. \A m \in Node : /\ I.ic[m] \in Context /\ Enabled(I.ic[m]) \in Context
                        /\ Enabled(I.ic[m]).state = "ACTIVE"
    BY ContextStates DEF Instance
  <2>2. /\ f \in [Node -> Context] /\ "ACTIVE" \in State
        /\ \A m \in Node : f[m].state = IF m \in hit THEN "ACTIVE" ELSE I.ic[m].state
    BY <2>1 DEF State
  <2>3. SameButState(f, I)
    <3> SUFFICES ASSUME NEW m \in Node
                 PROVE  /\ f[m].frontend = I.ic[m].frontend /\ f[m].prgname = I.ic[m].prgname
                        /\ f[m].imname = I.ic[m].imname
                        /\ f[m].clientSideState = I.ic[m].clientSideState
      BY DEF SameButState
    <3>1. f[m] = I.ic[m] \/ f[m] = Enabled(I.ic[m])
      OBVIOUS
    <3>2. I.ic[m] \in Context
      BY <2>1
    <3> HIDE DEF f
    <3> QED BY <3>1, <3>2, OnlyStateChanges
  <2>4. J = [I EXCEPT !.globalState = "ACTIVE", !.ic = f]
    OBVIOUS
  <2>5. \/ EnableIM(I, n, keep) = UpdateCurrentIM(J)
        \/ EnableIM(I, n, keep) = UpdateCurrentIM(ResetInput(J))
    BY <1>2 DEF EnableIM, hit
  <2> HIDE DEF f, J
  <2>6. J \in Instance /\ Shares(J)
    BY <1>2, <2>2, <2>3, <2>4, ProgramsChangeTogether DEF hit
  <2>7. ResetInput(J) \in Instance /\ Shares(ResetInput(J))
    <3>1. ResetInput(J) \in Instance
      BY <2>6 DEF ResetInput, Instance
    <3> QED BY <2>6, <3>1, UpdateCurrentIMKeeps, SameContextsShare
  <2> QED BY <2>5, <2>6, <2>7, UpdateCurrentIMKeeps, SameContextsShare
<1> QED BY <1>1, <1>2

LEMMA ChangeIMStateShares ==
    ASSUME ShareState = "PerProgram", NEW I, I \in Instance, Shares(I),
           NEW n \in Node \cup {NULL}
    PROVE  Shares(ChangeIMState(I, n))
<1>1. CASE n = NULL
  BY <1>1 DEF ChangeIMState
<1>2. CASE n # NULL
  <2> DEFINE object == IF I.ic[n].state = "INACTIVE" THEN "ACTIVE" ELSE "INACTIVE"
             hit == Sharing(I, n)
             f == [m \in Node |-> IF m \in hit THEN [I.ic[m] EXCEPT !.state = object]
                                               ELSE I.ic[m]]
             J == [I EXCEPT !.globalState = object, !.ic = f]
  <2>1. object \in State
    BY DEF State
  <2>2. J = [I EXCEPT !.globalState = object, !.ic = f]
    OBVIOUS
  <2>3. ChangeIMState(I, n) = UpdateCurrentIM(J)
    BY <1>2 DEF ChangeIMState
  <2> HIDE DEF hit, object, J
  <2>4. \A m \in Node : /\ I.ic[m] \in Context /\ [I.ic[m] EXCEPT !.state = object] \in Context
                        /\ [I.ic[m] EXCEPT !.state = object].state = object
    BY <2>1 DEF Instance, Context
  <2>5. /\ f \in [Node -> Context]
        /\ \A m \in Node : f[m].state = IF m \in hit THEN object ELSE I.ic[m].state
    BY <2>4
  <2>6. SameButState(f, I)
    <3> SUFFICES ASSUME NEW m \in Node
                 PROVE  /\ f[m].frontend = I.ic[m].frontend /\ f[m].prgname = I.ic[m].prgname
                        /\ f[m].imname = I.ic[m].imname
                        /\ f[m].clientSideState = I.ic[m].clientSideState
      BY DEF SameButState
    <3>1. f[m] = I.ic[m] \/ f[m] = [I.ic[m] EXCEPT !.state = object]
      OBVIOUS
    <3> HIDE DEF f
    <3>2. CASE f[m] = I.ic[m] BY <3>2
    <3>3. CASE f[m] = [I.ic[m] EXCEPT !.state = object]
      <4>1. I.ic[m] \in Context BY <2>4
      <4> QED BY <3>3, <4>1 DEF Context
    <3> QED BY <3>1, <3>2, <3>3
  <2> HIDE DEF f
  <2>7. J \in Instance /\ Shares(J)
    BY <1>2, <2>1, <2>2, <2>5, <2>6, ProgramsChangeTogether DEF hit
  <2> QED BY <2>3, <2>7, UpdateCurrentIMKeeps, SameContextsShare
<1> QED BY <1>1, <1>2

LEMMA CloseIMShares ==
    ASSUME ShareState = "PerProgram", NEW I, I \in Instance, Shares(I),
           NEW n \in Node \cup {NULL}
    PROVE  Shares(CloseIM(I, n))
<1>1. CASE n = NULL \/ ~ I.ic[n].clientSideState
  BY <1>1, ChangeIMStateShares DEF CloseIM
<1>2. CASE n # NULL /\ I.ic[n].clientSideState
  <2> DEFINE hit == Sharing(I, n)
             f == [m \in Node |-> IF m \in hit THEN Closed(I.ic[m]) ELSE I.ic[m]]
             J == [I EXCEPT !.globalState = "CLOSED", !.ic = f]
  <2> HIDE DEF hit
  <2>1. \A m \in Node : /\ I.ic[m] \in Context /\ Closed(I.ic[m]) \in Context
                        /\ Closed(I.ic[m]).state = "CLOSED"
    BY ContextStates DEF Instance
  <2>2. /\ f \in [Node -> Context] /\ "CLOSED" \in State
        /\ \A m \in Node : f[m].state = IF m \in hit THEN "CLOSED" ELSE I.ic[m].state
    BY <2>1 DEF State
  <2>3. SameButState(f, I)
    <3> SUFFICES ASSUME NEW m \in Node
                 PROVE  /\ f[m].frontend = I.ic[m].frontend /\ f[m].prgname = I.ic[m].prgname
                        /\ f[m].imname = I.ic[m].imname
                        /\ f[m].clientSideState = I.ic[m].clientSideState
      BY DEF SameButState
    <3>1. f[m] = I.ic[m] \/ f[m] = Closed(I.ic[m])
      OBVIOUS
    <3>2. I.ic[m] \in Context
      BY <2>1
    <3> HIDE DEF f
    <3> QED BY <3>1, <3>2, OnlyStateChanges
  <2>4. J = [I EXCEPT !.globalState = "CLOSED", !.ic = f]
    OBVIOUS
  <2>5. CloseIM(I, n) \in {J, ResetInput(J)}
    BY <1>2 DEF CloseIM, hit
  <2> HIDE DEF f, J
  <2>6. J \in Instance /\ Shares(J)
    BY <1>2, <2>2, <2>3, <2>4, ProgramsChangeTogether DEF hit
  <2>7. Shares(ResetInput(J))
    BY <2>6, UpdateCurrentIMKeeps, SameContextsShare
  <2> QED BY <2>5, <2>6, <2>7
<1> QED BY <1>1, <1>2


LEMMA SetLocalIMNameShares ==
    ASSUME NEW I, I \in Instance, Shares(I), NEW n \in I.ic_list
    PROVE  Shares(SetLocalIMName(I, n, NoIM))
<1> DEFINE c == [I.ic[n] EXCEPT !.imname = NoIM]
           J == [I EXCEPT !.ic[n].imname = NoIM]
<1>1. I.ic[n] \in Context /\ I.ic[n].imname = NoIM
  BY DEF Shares, Alike, Plain, Instance
<1>2. c = I.ic[n]
  BY <1>1 DEF Context
<1>3. J = [I EXCEPT !.ic = [I.ic EXCEPT ![n] = c]]
  BY DEF Instance
<1> HIDE DEF c, J
<1>4. [I.ic EXCEPT ![n] = c] = I.ic
  BY <1>2 DEF Instance
<1>5. J \in Instance /\ SameContexts(I, J)
  BY <1>3, <1>4 DEF Instance, SameContexts
<1>6. Shares(J)
  BY <1>5, SameContextsShare
<1>7. Shares(UpdateCurrentIM(J))
  BY <1>5, <1>6, UpdateCurrentIMKeeps, SameContextsShare
<1> QED BY <1>6, <1>7 DEF SetLocalIMName, J

LEMMA SwitchIMByIndexShares ==
    ASSUME ShareState = "PerProgram", NEW I, Settled(I), Shares(I),
           NEW index \in -4 .. NumIM - 1
    PROVE  Shares(SwitchIMByIndex(I, index))
<1> DEFINE k == StepIndex(index, I.iIMIndex)
           n == I.CurrentIC
           J == IF n # NULL THEN SetLocalIMName(I, n, NoIM) ELSE I
           K == SwitchIMGlobally(J, k, 1)
<1>1. n \in I.ic_list \cup {NULL} /\ I.ic_list \subseteq Node /\ I \in Instance
  BY DEF Settled, Sound, Linked, Instance
<1>2. SwitchIMByIndex(I, index) =
          IF k = 0 THEN CloseIM(I, n)
          ELSE IF CurrentState(K) # "ACTIVE" THEN EnableIM(K, n, FALSE) ELSE K
  BY DEF SwitchIMByIndex
<1>3. k \in Int
  <2>1. I.iIMIndex \in IM
    BY <1>1 DEF Instance
  <2>2. k \in IM
    BY <2>1, StepIndexType
  <2> QED BY <2>2 DEF IM
<1> HIDE DEF k
<1>4. Sound(J) /\ Shares(J)
  <2>1. CASE n = NULL
    BY <2>1 DEF Settled
  <2>2. CASE n # NULL
    <3>1. NoIM \in IM \cup {NoIM} /\ n \in Node /\ n \in I.ic_list
      BY <1>1, <2>2
    <3>2. Settled(SetLocalIMName(I, n, NoIM))
      BY <3>1, SetLocalIMNameSettles
    <3>3. Shares(SetLocalIMName(I, n, NoIM))
      BY <1>1, <3>1, SetLocalIMNameShares
    <3> QED BY <2>2, <3>2, <3>3 DEF Settled
  <2> QED BY <2>1, <2>2
<1> HIDE DEF J
<1>5. K \in Instance /\ Shares(K)
  <2>1. Sound(K)
    BY <1>3, <1>4, SwitchIMGloballySound
  <2>2. J \in Instance /\ K \in Instance
    BY <1>4, <2>1 DEF Sound
  <2> QED BY <1>4, <2>2, UpdateCurrentIMKeeps, SameContextsShare
<1> HIDE DEF K
<1>6. Shares(CloseIM(I, n)) /\ Shares(EnableIM(K, n, FALSE))
  BY <1>1, <1>5, CloseIMShares, EnableIMShares
<1> QED BY <1>2, <1>5, <1>6

LEMMA SwitchIMByNameShares ==
    ASSUME ShareState = "PerProgram", NEW I, Settled(I), Shares(I), NEW name \in IM
    PROVE  Shares(SwitchIMByName(I, name))
<1>1. name \in -4 .. NumIM - 1
  BY NumIMAssumption DEF IM
<1>2. SameContexts(I, [I EXCEPT !.delayedIM = name])
  BY DEF SameContexts, Settled, Sound, Instance
<1>3. Shares([I EXCEPT !.delayedIM = name])
  BY <1>2, SameContextsShare
<1> QED BY <1>1, <1>3, SwitchIMByIndexShares DEF SwitchIMByName

LEMMA UnfocusShares ==
    ASSUME NEW I, I \in Instance, Shares(I)
    PROVE  Shares(SetCurrentIC(I, NULL)) /\ Shares(SetLastIC(I, NULL))
<1>1. SameContexts(I, SetCurrentIC(I, NULL)) /\ SameContexts(I, SetLastIC(I, NULL))
  BY DEF SameContexts, Instance, SetCurrentIC, SetLastIC
<1> QED BY <1>1, SameContextsShare

LEMMA FocusShares ==
    ASSUME NEW I, Sound(I), Shares(I), NEW n \in I.ic_list
    PROVE  Shares(OnInputFocus(SetCurrentIC(I, n)))
<1> DEFINE F == SetCurrentIC(I, n)
<1>1. Sound(F) /\ F.delayedIM = NoIM /\ SameContexts(I, F)
  BY NodeAssumption DEF Sound, Linked, Instance, SetCurrentIC, SetLastIC, SameContexts
<1> HIDE DEF F
<1>2. F \in Instance
  BY <1>1 DEF Sound
<1>3. /\ ResetInput(F).delayedIM = NoIM /\ ResetInput(F) \in Instance
  BY <1>1, <1>2 DEF ResetInput, Instance
<1>4. OnInputFocus(F) = UpdateCurrentIM(ResetInput(F))
  BY <1>3 DEF OnInputFocus
<1>5. Shares(ResetInput(F))
  BY <1>1, <1>2, UpdateCurrentIMKeeps, SameContextsShare
<1> QED BY <1>3, <1>4, <1>5, UpdateCurrentIMKeeps, SameContextsShare DEF F

LEMMA UnlinkShares ==
    ASSUME NEW I, I \in Instance, Shares(I), NEW gone \in SUBSET I.ic_list
    PROVE  Unlink(I, gone) \in Instance /\ Shares(Unlink(I, gone))
<1> DEFINE J == Unlink(I, gone)
<1>1. /\ J \in Instance /\ J.ic_list = I.ic_list \ gone
      /\ J.newer = {p \in I.newer : p[1] \notin gone /\ p[2] \notin gone}
      /\ \A m \in Node \ gone : J.ic[m] = I.ic[m]
  BY BlankContext DEF Unlink, Instance
<1> HIDE DEF J
<1>2. \A m, n \in J.ic_list : <<m, n>> \in J.newer <=> <<m, n>> \in I.newer
  BY <1>1
<1>3. IsFiniteSet(J.ic_list)
  BY <1>1, FS_Subset DEF Shares, Ordered
<1>4. J.newer \subseteq J.ic_list \X J.ic_list
  BY <1>1 DEF Shares, Ordered
<1>5. J.ic_list \subseteq I.ic_list
  BY <1>1
<1>6. Ordered(J)
  BY <1>2, <1>3, <1>4, <1>5 DEF Shares, Ordered
<1>7. Alike(J)
  <2>1. \A m \in J.ic_list : m \in I.ic_list /\ J.ic[m] = I.ic[m]
    BY <1>1 DEF Instance
  <2> QED BY <2>1 DEF Shares, Alike
<1> QED BY <1>1, <1>6, <1>7 DEF Shares, J

LEMMA ForgetShares ==
    ASSUME NEW I, Settled(I), Shares(I)
    PROVE  /\ Shares(CleanUpIC(I))
           /\ \A n \in I.ic_list : Shares(DestroyIC(I, n))
<1>1. ASSUME NEW gone \in SUBSET I.ic_list,
             NEW K, K = (IF I.lastIC \in gone THEN SetLastIC(Unlink(I, gone), NULL)
                                              ELSE Unlink(I, gone)),
             NEW L, L = (IF I.CurrentIC \in gone THEN SetCurrentIC(K, NULL) ELSE K)
      PROVE  Shares(L)
  <2>1. Unlink(I, gone) \in Instance /\ Shares(Unlink(I, gone))
    BY UnlinkShares DEF Settled, Sound
  <2>2. SetLastIC(Unlink(I, gone), NULL) \in Instance
    BY <2>1 DEF SetLastIC, Instance
  <2>3. K \in Instance /\ Shares(K)
    BY <1>1, <2>1, <2>2, UnfocusShares
  <2> QED BY <1>1, <2>3, UnfocusShares
<1>2. Shares(CleanUpIC(I))
  BY <1>1 DEF CleanUpIC
<1>3. ASSUME NEW n \in I.ic_list PROVE Shares(DestroyIC(I, n))
  <2> DEFINE K == IF I.lastIC \in {n} THEN SetLastIC(Unlink(I, {n}), NULL)
                                      ELSE Unlink(I, {n})
  <2>1. DestroyIC(I, n) = IF I.CurrentIC \in {n} THEN SetCurrentIC(K, NULL) ELSE K
    BY DEF DestroyIC
  <2>2. {n} \in SUBSET I.ic_list /\ K = K
    OBVIOUS
  <2> QED BY <1>1, <2>1, <2>2
<1> QED BY <1>2, <1>3

(* Among any contexts in the list there is a newest: the one with the       *)
(* fewest before it.                                                       *)
LEMMA NewestExists ==
    ASSUME NEW I, Ordered(I), NEW S \in SUBSET I.ic_list, S # {}
    PROVE  \E m \in S : \A o \in S \ {m} : <<m, o>> \in I.newer
<1> DEFINE L == I.ic_list
           R == StrictSubsetOrdering(L)
           Before(m) == {o \in L : <<o, m>> \in I.newer}
           T == {Before(m) : m \in S}
<1>1. T \subseteq FiniteSubsetsOf(L) /\ T # {}
  <2>1. \A m \in S : Before(m) \in SUBSET L /\ IsFiniteSet(Before(m))
    <3> TAKE m \in S
    <3>1. Before(m) \subseteq L /\ IsFiniteSet(L)
      BY DEF Ordered
    <3> HIDE DEF Before
    <3> QED BY <3>1, FS_Subset
  <2> HIDE DEF Before
  <2>2. \A m \in S : Before(m) \in FiniteSubsetsOf(L)
    BY <2>1 DEF FiniteSubsetsOf
  <2> QED BY <2>2
<1>2. \A m, o \in S : <<o, m>> \in I.newer => <<Before(o), Before(m)>> \in R
  <2> SUFFICES ASSUME NEW m \in S, NEW o \in S, <<o, m>> \in I.newer
               PROVE  <<Before(o), Before(m)>> \in R
    OBVIOUS
  <2>1. Before(o) \subseteq Before(m)
    BY DEF Ordered
  <2>2. o \in Before(m) /\ o \notin Before(o)
    BY DEF Ordered
  <2>3. Before(o) \in SUBSET L /\ Before(m) \in SUBSET L /\ Before(o) # Before(m)
    BY <2>2
  <2>4. \A a, b \in SUBSET L : a \subseteq b /\ a # b => <<a, b>> \in R
    BY DEF StrictSubsetOrdering
  <2> HIDE DEF R, Before
  <2> QED BY <2>1, <2>3, <2>4
<1>3. IsWellFoundedOn(R, FiniteSubsetsOf(L))
  BY FS_StrictSubsetOrderingWellFounded
<1> HIDE DEF R, Before
<1>4. PICK x \in T : \A y \in T : ~ (<<y, x>> \in R)
  BY <1>1, <1>3, WFMin
<1>5. PICK m \in S : x = Before(m)
  OBVIOUS
<1>6. \A o \in S : Before(o) \in T
  OBVIOUS
<1> HIDE DEF T
<1>7. \A o \in S : <<o, m>> \notin I.newer
  BY <1>2, <1>4, <1>5, <1>6
<1>8. \A o \in S \ {m} : <<m, o>> \in I.newer
  BY <1>7 DEF Ordered
<1> QED BY <1>8

(* A new context has the state of the contexts of its program.             *)
LEMMA NewContextShares ==
    ASSUME ShareState = "PerProgram", NEW I, I \in Instance, Shares(I),
           NEW kind \in Kind, NEW app \in App \cup {NoApp}
    PROVE  LET c == NewContext(I, kind, app)
           IN  /\ Plain(c)
               /\ \A m \in I.ic_list :
                      SameProgram(I.ic[m], c) => I.ic[m].state = c.state
<1> DEFINE fresh == [frontend |-> Frontend(kind),
                     state |-> IF ShareState = "All" THEN I.globalState ELSE DefaultState,
                     prgname |-> IF kind = "v1" THEN NoApp ELSE app,
                     clientSideState |-> FALSE, imname |-> NoIM,
                     pidKnown |-> kind = "v3", toldEnabled |-> FALSE]
           c == NewContext(I, kind, app)
           match == {m \in I.ic_list : SameProgram(I.ic[m], fresh)}
           first == {m \in match : \A o \in match \ {m} : <<m, o>> \in I.newer}
<1>1. /\ c.frontend = fresh.frontend /\ c.prgname = fresh.prgname
      /\ c.imname = NoIM /\ c.clientSideState = (kind = "v1")
      /\ kind = "v1" => c.prgname = NoApp
      /\ kind # "v1" => c.state = StateFromSameApplication(I, fresh)
  BY DEF NewContext
<1>2. StateFromSameApplication(I, fresh) =
          IF first = {} THEN fresh.state ELSE I.ic[CHOOSE m \in first : TRUE].state
  BY DEF StateFromSameApplication
<1> HIDE DEF fresh, c
<1>3. Plain(c)
  BY <1>1 DEF Plain
<1>4. ASSUME NEW m \in I.ic_list, SameProgram(I.ic[m], c) PROVE I.ic[m].state = c.state
  <2>1. m \in match /\ kind # "v1"
    BY <1>1, <1>4 DEF SameProgram
  <2>2. first # {}
    <3>1. match \in SUBSET I.ic_list /\ match # {}
      BY <2>1
    <3> HIDE DEF match
    <3> QED BY <3>1, NewestExists DEF Shares
  <2> DEFINE k == CHOOSE m0 \in first : TRUE
  <2>3. k \in match
    BY <2>2
  <2>4. k \in I.ic_list /\ SameProgram(I.ic[m], I.ic[k])
    BY <2>1, <2>3 DEF SameProgram
  <2>5. I.ic[m].state = I.ic[k].state
    BY <2>4 DEF Shares, Alike
  <2> QED BY <1>1, <1>2, <2>1, <2>2, <2>5
<1> QED BY <1>3, <1>4 DEF c

LEMMA CreateICShares ==
    ASSUME ShareState = "PerProgram", NEW I, Settled(I), Shares(I), NEW kind \in Kind,
           NEW app \in App \cup {NoApp}, NEW n \in Allocatable(I)
    PROVE  Shares(CreateIC(I, kind, app, n))
<1> DEFINE c == NewContext(I, kind, app)
           J == CreateIC(I, kind, app, n)
<1>1. /\ n \in Node /\ n \notin I.ic_list /\ I \in Instance
  BY DEF Allocatable, Settled, Sound, Linked, Instance
<1>2. /\ J.ic_list = I.ic_list \cup {n} /\ J.newer = I.newer \cup ({n} \X I.ic_list)
      /\ J.ic = [I.ic EXCEPT ![n] = c]
  BY <1>1 DEF CreateIC, Instance
<1>3. /\ Plain(c)
      /\ \A m \in I.ic_list : SameProgram(I.ic[m], c) => I.ic[m].state = c.state
  BY <1>1, NewContextShares
<1> HIDE DEF c, J
<1>4. J.ic[n] = c /\ \A m \in I.ic_list : J.ic[m] = I.ic[m]
  BY <1>1, <1>2 DEF Instance
<1>5. Alike(J)
  <2>1. \A m \in J.ic_list : Plain(J.ic[m])
    BY <1>2, <1>3, <1>4 DEF Shares, Alike
  <2>2. ASSUME NEW m \in J.ic_list, NEW o \in J.ic_list, SameProgram(J.ic[m], J.ic[o])
        PROVE  J.ic[m].state = J.ic[o].state
    <3>1. SameProgram(J.ic[o], J.ic[m])
      BY <2>2 DEF SameProgram
    <3>2. CASE m # n /\ o # n
      BY <1>2, <1>4, <2>2, <3>2 DEF Shares, Alike
    <3>3. CASE m = n \/ o = n
      BY <1>2, <1>3, <1>4, <2>2, <3>1, <3>3
    <3> QED BY <3>2, <3>3
  <2> QED BY <2>1, <2>2 DEF Alike
<1>6. Ordered(J)
  <2>1. IsFiniteSet(J.ic_list)
    BY <1>2, FS_AddElement DEF Shares, Ordered
  <2>2. \A p, q : <<p, q>> \in J.newer <=>
                     <<p, q>> \in I.newer \/ (p = n /\ q \in I.ic_list)
    BY <1>2
  <2>3. \A p, q : <<p, q>> \in I.newer => p \in I.ic_list /\ q \in I.ic_list
    BY DEF Shares, Ordered
  <2>4. J.newer \subseteq J.ic_list \X J.ic_list
    BY <1>2 DEF Shares, Ordered
  <2>5. /\ \A m \in J.ic_list : <<m, m>> \notin J.newer
        /\ \A m, o \in J.ic_list : m = o \/ <<m, o>> \in J.newer \/ <<o, m>> \in J.newer
    BY <1>1, <1>2, <2>2, <2>3 DEF Shares, Ordered
  <2>6. ASSUME NEW m, NEW o, NEW q, <<m, o>> \in J.newer, <<o, q>> \in J.newer
        PROVE  <<m, q>> \in J.newer
    <3>1. <<o, q>> \in I.newer
      BY <1>1, <2>2, <2>3, <2>6
    <3>2. CASE m = n
      BY <2>2, <2>3, <3>1, <3>2
    <3>3. CASE <<m, o>> \in I.newer
      <4>1. m \in I.ic_list /\ o \in I.ic_list /\ q \in I.ic_list
        BY <2>3, <3>1, <3>3
      <4> QED BY <2>2, <3>1, <3>3, <4>1 DEF Shares, Ordered
    <3> QED BY <2>2, <2>6, <3>2, <3>3
  <2> QED BY <2>1, <2>4, <2>5, <2>6 DEF Ordered
<1> QED BY <1>5, <1>6 DEF Shares, J

LEMMA InstanceProcessKeyShares ==
    ASSUME ShareState = "PerProgram", NEW I, Settled(I), Shares(I), NEW key \in Key
    PROVE  Shares(InstanceProcessKey(I, key))
<1> DEFINE n == I.CurrentIC
<1>1. n \in Node \cup {NULL} /\ I \in Instance
  BY DEF Settled, Sound, Instance
<1>2. /\ Shares(ChangeIMState(I, n)) /\ Shares(CloseIM(I, n))
      /\ Shares(EnableIM(I, n, FALSE))
  BY <1>1, ChangeIMStateShares, CloseIMShares, EnableIMShares
<1>3. \A index \in {-1, -2, -3, -4} : Shares(SwitchIMByIndex(I, index))
  BY NumIMAssumption, SwitchIMByIndexShares
<1>4. Shares([I EXCEPT !.composing = n]) /\ Shares(ResetInput(I))
  <2>1. SameContexts(I, [I EXCEPT !.composing = n]) /\ SameContexts(I, ResetInput(I))
    BY <1>1 DEF SameContexts, ResetInput, Instance
  <2> QED BY <2>1, SameContextsShare
<1>5. InstanceProcessKey(I, key) \in
        {I, ChangeIMState(I, n), CloseIM(I, n), EnableIM(I, n, FALSE),
         SwitchIMByIndex(I, -1), SwitchIMByIndex(I, -2),
         SwitchIMByIndex(I, -3), SwitchIMByIndex(I, -4),
         [I EXCEPT !.composing = n], ResetInput(I)}
  BY DEF InstanceProcessKey
<1> QED BY <1>2, <1>3, <1>4, <1>5

-----------------------------------------------------------------------------

LEMMA NextShares ==
    ASSUME ShareState = "PerProgram", ClientCaps = {}, LocalIM \subseteq {NoIM},
           Inv, Shares(instance), [Next]_vars
    PROVE  Shares(instance')
<1> DEFINE I == instance
           n0 == instance.CurrentIC
<1>1. /\ Settled(I) /\ I \in Instance /\ n0 \in Node \cup {NULL}
      /\ n0 \in I.ic_list \cup {NULL}
  BY DEF Inv, Settled, Sound, Linked, Instance
<1>2. ASSUME NEW kind \in Kinds, NEW app \in App \cup {NoApp}, NEW n \in Node,
             IPCCreate(kind, app, n) \/ XIMCreate(kind, app, n)
      PROVE  Shares(instance')
  <2> DEFINE C == CleanUpIC(I)
             J == CreateIC(C, kind, app, n)
  <2>1. /\ kind \in Kind /\ n \in Allocatable(C)
        /\ instance' = J \/ instance' = OnInputFocus(SetCurrentIC(J, n))
    BY <1>2, InputAssumption DEF IPCCreate, XIMCreate
  <2>2. Settled(C) /\ Shares(C)
    BY <1>1, CleanUpICSettles, ForgetShares
  <2> HIDE DEF C
  <2>3. Settled(J) /\ Shares(J) /\ n \in J.ic_list
    BY <2>1, <2>2, CreateICSettles, CreateICShares
  <2> HIDE DEF J
  <2> QED BY <2>1, <2>3, FocusShares DEF Settled
<1>3. ASSUME NEW n \in Node, Destroy(n) PROVE Shares(instance')
  BY <1>1, <1>3, ForgetShares DEF Destroy, Becomes
<1>4. ASSUME NEW n \in Node, FocusIn(n) PROVE Shares(instance')
  BY <1>1, <1>4, FocusShares DEF FocusIn, Becomes, Settled
<1>5. ASSUME NEW n \in Node,
             IPCFocusOut(n) \/ XIMResetIC(n) \/ IPCReset(n) \/ XIMUnsetFocus(n)
      PROVE  Shares(instance')
  <2>1. Shares(SetCurrentIC(I, NULL)) /\ Shares(ResetInput(I))
    BY <1>1, UnfocusShares, UpdateCurrentIMKeeps, SameContextsShare
  <2> QED BY <1>5, <2>1 DEF IPCFocusOut, XIMResetIC, IPCReset, XIMUnsetFocus, Becomes
<1>6. ASSUME NEW n \in Node, IPCEnableIC(n) \/ IPCCloseIC(n) PROVE Shares(instance')
  BY <1>1, <1>6, EnableIMShares, CloseIMShares DEF IPCEnableIC, IPCCloseIC, Becomes
<1>7. ASSUME NEW n \in Node, NEW key \in Key, ProcessKey(n, key) PROVE Shares(instance')
  <2> DEFINE F == IF instance.CurrentIC # n
                  THEN OnInputFocus(SetCurrentIC(instance, n)) ELSE instance
  <2>1. n \in I.ic_list /\ Sound(I)
    BY <1>1, <1>7 DEF ProcessKey, Settled
  <2>2. Settled(F) /\ Shares(F)
    BY <1>1, <2>1, FocusSettles, FocusShares
  <2>3. instance' = IF F.ic[n].state = "CLOSED"
                    THEN IF key = "trigger" THEN EnableIM(F, n, FALSE) ELSE F
                    ELSE InstanceProcessKey(F, key)
    BY <1>7 DEF ProcessKey, Becomes
  <2> HIDE DEF F
  <2>4. F \in Instance
    BY <2>2 DEF Settled, Sound
  <2>5. Shares(EnableIM(F, n, FALSE)) /\ Shares(InstanceProcessKey(F, key))
    BY <2>2, <2>4, EnableIMShares, InstanceProcessKeyShares
  <2> QED BY <2>2, <2>3, <2>5
<1>8. CASE ActivateIM \/ InactivateIM \/ ToggleIM \/ SwitchIM
  <2>1. -2 \in -4 .. NumIM - 1
    BY NumIMAssumption
  <2>2. /\ Shares(EnableIM(I, n0, FALSE)) /\ Shares(CloseIM(I, n0))
        /\ Shares(ChangeIMState(I, n0)) /\ Shares(SwitchIMByIndex(I, -2))
    BY <1>1, <2>1, EnableIMShares, CloseIMShares, ChangeIMStateShares,
       SwitchIMByIndexShares
  <2> QED BY <1>8, <2>2 DEF ActivateIM, InactivateIM, ToggleIM, SwitchIM, Becomes
<1>9. ASSUME NEW name \in IM, SetCurrentIM(name) PROVE Shares(instance')
  BY <1>1, <1>9, SwitchIMByNameShares DEF SetCurrentIM, Becomes
<1>10. ASSUME NEW name \in LocalIM, SelectLocal(name) PROVE Shares(instance')
  <2>1. name = NoIM /\ n0 \in I.ic_list
    BY <1>1, <1>10 DEF SelectLocal
  <2>2. instance' = SetLocalIMName(I, n0, NoIM)
    BY <1>10, <2>1 DEF SelectLocal, Becomes
  <2> QED BY <1>1, <2>1, <2>2, SetLocalIMNameShares
<1>11. ASSUME NEW n \in Node, ClientExit(n) PROVE Shares(instance')
  BY <1>11 DEF ClientExit
<1>12. CASE UNCHANGED vars
  BY <1>12 DEF vars
<1> QED
  BY <1>2, <1>3, <1>4, <1>5, <1>6, <1>7, <1>8, <1>9, <1>10, <1>11, <1>12 DEF Next

(* With shareState PerProgram all contexts of a program have one state, as   *)
(* long as no client changes who decides on a context it has created and no *)
(* context gets an input method of its own.                                *)
THEOREM ProgramsShareTheirState ==
    ASSUME ClientCaps = {}, LocalIM \subseteq {NoIM}
    PROVE  Spec => []ProgramStateAgrees
<1>1. CASE ShareState # "PerProgram"
  <2>1. ProgramStateAgrees
    BY <1>1 DEF ProgramStateAgrees
  <2> QED BY <2>1, PTL
<1>2. CASE ShareState = "PerProgram"
  <2>1. Init => Shares(instance)
    <3> SUFFICES ASSUME Init PROVE Shares(instance)
      OBVIOUS
    <3>1. instance.ic_list = {} /\ instance.newer = {}
      BY DEF Init
    <3> QED BY <3>1, FS_EmptySet DEF Shares, Ordered, Alike
  <2>2. Inv /\ Shares(instance) /\ [Next]_vars => Shares(instance)'
    <3> SUFFICES ASSUME Inv, Shares(instance), [Next]_vars PROVE Shares(instance')
      BY DEF Shares, Ordered, Alike
    <3> QED BY <1>2, NextShares
  <2>3. Shares(instance) => ProgramStateAgrees
    BY DEF Shares, Alike, ProgramStateAgrees
  <2> QED BY <2>1, <2>2, <2>3, Invariant, PTL DEF Spec
<1> QED BY <1>1, <1>2

=============================================================================
