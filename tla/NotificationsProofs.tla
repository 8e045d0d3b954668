------------------------- MODULE NotificationsProofs -------------------------
(***************************************************************************)
(* Proofs about Notifications.  The references of an item are exactly those *)
(* of its pending call and of its table entry, and an id names one item,    *)
(* when the daemon answers before items expire; and no item outlives its    *)
(* timer, whenever the daemon answers.                                     *)
(***************************************************************************)
EXTENDS Notifications, NaturalLemmas, TLAPS

(* What is true of each item between two steps: its references, its life    *)
(* and its places in the tables go together, and a call is pending only for *)
(* an item that is young, in the table and without an id.                   *)
Sound(it) ==
    /\ it \in FcitxNotifyItem
    /\ it.ref_count = One(it.call) + One(it.intern)
    /\ it.live <=> it.ref_count > 0
    /\ it.global_id # 0 => it.intern /\ ~ it.call
    /\ it.call => it.intern /\ it.age <= MaxReply

Inv == item \in [Item -> FcitxNotifyItem] /\ \A c \in Item : Sound(item[c])

LEMMA UnusedSound == Sound(Unused)
<1>1. Unused \in FcitxNotifyItem
  BY DEF Unused, FcitxNotifyItem, State
<1>2. Unused.call = FALSE /\ Unused.intern = FALSE /\ Unused.live = FALSE
      /\ Unused.ref_count = 0 /\ Unused.global_id = 0
  BY DEF Unused
<1> QED BY <1>1, <1>2 DEF Sound, One

(* Dropping the last reference frees the item.                              *)
LEMMA UnrefLast ==
    ASSUME NEW it \in FcitxNotifyItem, it.ref_count = 1, it.call = FALSE
    PROVE  Sound(Unref(it))
<1> DEFINE x == [it EXCEPT !.ref_count = @ - 1, !.live = FALSE, !.intern = FALSE,
                           !.global_id = 0]
<1>1. Unref(it) = x
  <2>1. ~ (it.ref_count > 1)
    OBVIOUS
  <2> QED BY <2>1 DEF Unref
<1>2. x \in FcitxNotifyItem
  <2>1. it.ref_count - 1 \in Int /\ 0 \in Id \cup {0} /\ FALSE \in BOOLEAN
    OBVIOUS
  <2>2. \A n \in Int, g \in Id \cup {0}, b \in BOOLEAN, d \in BOOLEAN :
            [it EXCEPT !.ref_count = n, !.live = b, !.intern = d, !.global_id = g]
                \in FcitxNotifyItem
    BY DEF FcitxNotifyItem
  <2> QED BY <2>1, <2>2
<1>3. x.live = FALSE /\ x.intern = FALSE
  BY DEF FcitxNotifyItem
<1>4. x.ref_count = 0 /\ x.global_id = 0
  BY DEF FcitxNotifyItem
<1>5. x.call = it.call
  BY DEF FcitxNotifyItem
<1> HIDE DEF x
<1> QED BY <1>1, <1>2, <1>3, <1>4, <1>5 DEF Sound, One

LEMMA UnrefTyped ==
    ASSUME NEW it \in FcitxNotifyItem
    PROVE  Unref(it) \in FcitxNotifyItem
<1>1. /\ \A n \in Int, g \in Id \cup {0}, b \in BOOLEAN, d \in BOOLEAN :
             [it EXCEPT !.ref_count = n, !.live = b, !.intern = d, !.global_id = g]
                 \in FcitxNotifyItem
      /\ \A n \in Int : [it EXCEPT !.ref_count = n] \in FcitxNotifyItem
  BY DEF FcitxNotifyItem
<1>2. it.ref_count - 1 \in Int /\ 0 \in Id \cup {0} /\ FALSE \in BOOLEAN
  BY DEF FcitxNotifyItem
<1> QED BY <1>1, <1>2 DEF Unref

LEMMA UnrefOneOfTwo ==
    ASSUME NEW it, it.ref_count = 2
    PROVE  Unref(it) = [it EXCEPT !.ref_count = 1]
<1>1. it.ref_count > 1 /\ it.ref_count - 1 = 1
  OBVIOUS
<1> QED BY <1>1 DEF Unref

(* Dropping the table's reference, with or without the entry.               *)
LEMMA DropSound ==
    ASSUME NEW it, Sound(it), ~ it.call
    PROVE  /\ it.intern => Sound(DropGlobal(it))
           /\ it.intern => Sound(Unref([it EXCEPT !.intern = FALSE]))
<1>1. it \in FcitxNotifyItem /\ it.call = FALSE
  BY DEF Sound, FcitxNotifyItem
<1>2. ASSUME it.intern PROVE it.ref_count = 1
  BY <1>1, <1>2 DEF Sound, One, FcitxNotifyItem
<1>3. ASSUME it.intern PROVE Sound(DropGlobal(it))
  <2> DEFINE x == [it EXCEPT !.global_id = 0]
  <2>1. x \in FcitxNotifyItem /\ x.ref_count = 1 /\ x.call = FALSE
    BY <1>1, <1>2, <1>3 DEF FcitxNotifyItem
  <2> QED BY <2>1, UnrefLast DEF DropGlobal
<1>4. ASSUME it.intern PROVE Sound(Unref([it EXCEPT !.intern = FALSE]))
  <2> DEFINE x == [it EXCEPT !.intern = FALSE]
  <2>1. x \in FcitxNotifyItem /\ x.ref_count = 1 /\ x.call = FALSE
    BY <1>1, <1>2, <1>4 DEF FcitxNotifyItem
  <2> QED BY <2>1, UnrefLast
<1> QED BY <1>3, <1>4

(* An item that loses its id to another stays sound.                        *)
LEMMA LosesIdSound ==
    ASSUME NEW it, Sound(it)
    PROVE  Sound([it EXCEPT !.global_id = 0])
<1> DEFINE x == [it EXCEPT !.global_id = 0]
<1>1. it \in FcitxNotifyItem
  BY DEF Sound
<1>2. /\ x \in FcitxNotifyItem /\ x.global_id = 0
      /\ x.call = it.call /\ x.intern = it.intern /\ x.live = it.live
      /\ x.ref_count = it.ref_count /\ x.age = it.age
  BY <1>1 DEF FcitxNotifyItem
<1> HIDE DEF x
<1>3. Sound(x)
  BY <1>2 DEF Sound, One
<1> QED BY <1>3 DEF x

LEMMA WithdrawnSound ==
    ASSUME NEW it, Sound(it), it.intern
    PROVE  Sound(Withdrawn(it))
<1>1. CASE it.global_id = 0
  BY <1>1 DEF Sound, Withdrawn, FcitxNotifyItem, State, One
<1>2. CASE it.global_id # 0
  BY <1>2, DropSound DEF Withdrawn, Sound
<1> QED BY <1>1, <1>2

LEMMA CheckSound ==
    ASSUME NEW it, Sound(it), MaxReply <= RealTime
    PROVE  Sound(IF TooOld(it) THEN Unref([it EXCEPT !.intern = FALSE]) ELSE it)
<1>1. CASE TooOld(it)
  <2>1. ~ it.call
    BY <1>1, TimeAssumption DEF TooOld, Sound, FcitxNotifyItem
  <2> QED BY <1>1, <2>1, DropSound DEF TooOld
<1>2. CASE ~ TooOld(it)
  BY <1>2
<1> QED BY <1>1, <1>2

(* A check of a sound table leaves a sound table.                           *)
LEMMA CheckedSound ==
    ASSUME NEW items \in [Item -> FcitxNotifyItem], \A c \in Item : Sound(items[c]),
           MaxReply <= RealTime
    PROVE  /\ CheckTimeout(items) \in [Item -> FcitxNotifyItem]
           /\ \A c \in Item : Sound(CheckTimeout(items)[c])
<1>1. \A c \in Item : Sound(CheckTimeout(items)[c])
  BY CheckSound DEF CheckTimeout
<1>2. \A c \in Item : CheckTimeout(items)[c] \in FcitxNotifyItem
  BY <1>1 DEF Sound
<1>3. CheckTimeout(items) = [c \in Item |-> CheckTimeout(items)[c]]
  BY DEF CheckTimeout
<1> QED BY <1>1, <1>2, <1>3

-----------------------------------------------------------------------------
(* Steps.  First what each does to the items, and then that it is sound.    *)

LEMMA AnswerSound ==
    ASSUME NEW c \in Item, NEW id \in Id \cup {0}, Inv, item[c].call
    PROVE  LET items == [Answer(item, c, id) EXCEPT ![c] = Unref([@ EXCEPT !.call = FALSE])]
           IN  items \in [Item -> FcitxNotifyItem] /\ \A d \in Item : Sound(items[d])
<1> DEFINE found == AddGlobal(item, c, id)
           given == [item[c] EXCEPT !.global_id = id]
           now   == Unref([IF item[c].state = "TO_BE_REMOVE" THEN DropGlobal(given)
                                                           ELSE given EXCEPT !.call = FALSE])
           items == [Answer(item, c, id) EXCEPT ![c] = Unref([@ EXCEPT !.call = FALSE])]
<1>1. /\ item[c] \in FcitxNotifyItem /\ item[c].call = TRUE /\ item[c].intern = TRUE
      /\ item[c].global_id = 0 /\ item[c].ref_count = 2 /\ item[c].live = TRUE
      /\ item[c].age <= MaxReply
  BY DEF Inv, Sound, One, FcitxNotifyItem
<1>2. /\ given \in FcitxNotifyItem /\ given.call = TRUE /\ given.intern = TRUE
      /\ given.ref_count = 2 /\ given.live = TRUE /\ given.global_id = id
  BY <1>1, IdAssumption DEF FcitxNotifyItem
<1>3. Sound(now)
  <2>1. CASE item[c].state = "TO_BE_REMOVE"
    <3> DEFINE x == [given EXCEPT !.global_id = 0]
               y == [x EXCEPT !.ref_count = 1]
               z == [y EXCEPT !.call = FALSE]
    <3>1. x \in FcitxNotifyItem /\ x.ref_count = 2
      BY <1>2 DEF FcitxNotifyItem
    <3>2. Unref(x) = y
      BY <3>1, UnrefOneOfTwo
    <3>4. now = Unref(z)
      BY <2>1, <3>2 DEF DropGlobal
    <3> HIDE DEF x, now
    <3>3. y \in FcitxNotifyItem /\ y.ref_count = 1
      BY <3>1 DEF FcitxNotifyItem
    <3> HIDE DEF y
    <3>5. z \in FcitxNotifyItem /\ z.ref_count = 1 /\ z.call = FALSE
      BY <3>3 DEF FcitxNotifyItem
    <3> HIDE DEF z
    <3> QED BY <3>4, <3>5, UnrefLast
  <2>2. CASE item[c].state # "TO_BE_REMOVE"
    <3> DEFINE z == [given EXCEPT !.call = FALSE]
               w == [z EXCEPT !.ref_count = 1]
    <3>1. z \in FcitxNotifyItem /\ z.ref_count = 2 /\ z.call = FALSE /\ z.intern = TRUE
          /\ z.live = TRUE
      BY <1>2 DEF FcitxNotifyItem
    <3>2. Unref(z) = w
      BY <3>1, UnrefOneOfTwo
    <3> HIDE DEF given
    <3>3. now = w
      BY <2>2, <3>2 DEF given
    <3> HIDE DEF z, now
    <3>4. w \in FcitxNotifyItem /\ w.ref_count = 1 /\ w.call = FALSE /\ w.intern = TRUE
          /\ w.live = TRUE
      BY <3>1 DEF FcitxNotifyItem
    <3> HIDE DEF w, now
    <3> QED BY <3>3, <3>4 DEF Sound, One
  <2> QED BY <2>1, <2>2
<1>4. \A d \in Item \ {c} : found[d] = item[d] \/ found[d] = [item[d] EXCEPT !.global_id = 0]
  BY DEF AddGlobal
<1>5. found[c] = given /\ found[c].state = item[c].state
  BY <1>1 DEF AddGlobal, FcitxNotifyItem
<1>6. items = [d \in Item |-> IF d = c THEN now ELSE found[d]]
  <2>1. Answer(item, c, id) = IF found[c].state = "TO_BE_REMOVE"
                              THEN [found EXCEPT ![c] = DropGlobal(@)] ELSE found
    BY <1>1 DEF Answer
  <2>2. found = [d \in Item |-> found[d]]
    BY DEF AddGlobal
  <2> HIDE DEF found, given
  <2> QED BY <2>1, <2>2, <1>5
<1> HIDE DEF now, found, given
<1>7. \A d \in Item : Sound(items[d])
  <2> SUFFICES ASSUME NEW d \in Item PROVE Sound(items[d])
    OBVIOUS
  <2>1. CASE d = c
    BY <2>1, <1>3, <1>6
  <2>2. CASE d # c
    <3>1. Sound(item[d])
      BY DEF Inv
    <3>2. items[d] = found[d]
      BY <2>2, <1>6
    <3>3. found[d] = item[d] \/ found[d] = [item[d] EXCEPT !.global_id = 0]
      BY <2>2, <1>4
    <3> HIDE DEF items
    <3> QED BY <3>1, <3>2, <3>3, LosesIdSound
  <2> QED BY <2>1, <2>2
<1>8. items \in [Item -> FcitxNotifyItem]
  <2> HIDE DEF items
  <2>1. \A d \in Item : items[d] \in FcitxNotifyItem
    BY <1>7 DEF Sound
  <2>2. items = [d \in Item |-> items[d]]
    BY <1>6
  <2> QED BY <2>1, <2>2
<1> QED BY <1>7, <1>8

LEMMA SentSound ==
    ASSUME NEW c \in Item, NEW replace \in Item \cup {NoItem}, Inv,
           MaxReply <= RealTime, SendNotification(c, replace)
    PROVE  Inv'
<1> DEFINE rest == Replaced(replace)
           sent == [rest EXCEPT ![c] = New]
<1>1. rest \in [Item -> FcitxNotifyItem] /\ \A d \in Item : Sound(rest[d])
  <2>1. CASE replace = NoItem
    BY <2>1 DEF Inv, Replaced
  <2>2. CASE replace # NoItem
    <3>1. Sound(Withdrawn(item[replace]))
      BY <2>2, WithdrawnSound DEF Inv, SendNotification
    <3>2. rest = [item EXCEPT ![replace] = Withdrawn(@)]
      BY <2>2 DEF Replaced
    <3>3. Withdrawn(item[replace]) \in FcitxNotifyItem
      BY <3>1 DEF Sound
    <3> HIDE DEF rest
    <3> QED BY <2>2, <3>1, <3>2, <3>3 DEF Inv
  <2> QED BY <2>1, <2>2
<1>2. Sound(New) /\ New \in FcitxNotifyItem
  <2>1. New \in FcitxNotifyItem
    BY DEF New, FcitxNotifyItem, State
  <2>2. /\ New \in FcitxNotifyItem /\ New.call = TRUE /\ New.intern = TRUE
        /\ New.live = TRUE /\ New.ref_count = 2 /\ New.global_id = 0 /\ New.age = 0
    BY <2>1 DEF New
  <2> QED BY <2>2, TimeAssumption DEF Sound, One
<1> HIDE DEF rest
<1>3. sent \in [Item -> FcitxNotifyItem] /\ \A d \in Item : Sound(sent[d])
  BY <1>1, <1>2
<1> HIDE DEF sent
<1>4. item' = CheckTimeout(sent)
  BY DEF SendNotification, sent, rest
<1> QED BY <1>3, <1>4, CheckedSound DEF Inv

LEMMA TickSound ==
    ASSUME Inv, Tick
    PROVE  Inv'
<1> SUFFICES ASSUME NEW c \in Item
             PROVE  item'[c] \in FcitxNotifyItem /\ Sound(item'[c])
  <2>1. item' = [c \in Item |-> item'[c]]
    BY DEF Tick
  <2> QED BY <2>1 DEF Inv
<1> DEFINE x == [item[c] EXCEPT !.age = @ + 1]
<1>1. item'[c] = item[c] \/ item'[c] = x
  BY DEF Tick
<1>2. item[c] \in FcitxNotifyItem /\ Sound(item[c])
  BY DEF Inv
<1>3. /\ x \in FcitxNotifyItem /\ x.call = item[c].call /\ x.intern = item[c].intern
      /\ x.live = item[c].live /\ x.ref_count = item[c].ref_count
      /\ x.global_id = item[c].global_id /\ x.age = item[c].age + 1
  BY <1>2 DEF FcitxNotifyItem
<1>4. item[c].call => x.age <= MaxReply
  BY <1>2, <1>3, TimeAssumption DEF Tick, FcitxNotifyItem
<1> HIDE DEF x
<1>5. Sound(x)
  BY <1>2, <1>3, <1>4 DEF Sound, One
<1> QED BY <1>1, <1>2, <1>3, <1>5

-----------------------------------------------------------------------------
THEOREM Invariant ==
    ASSUME MaxReply <= RealTime
    PROVE  Spec => []Inv
<1>1. Init => Inv
  BY UnusedSound DEF Init, Inv, Sound
<1>2. Inv /\ [Next]_vars => Inv'
  <2> SUFFICES ASSUME Inv, [Next]_vars PROVE Inv'
    OBVIOUS
  <2>1. ASSUME NEW c \in Item, NEW replace \in Item \cup {NoItem},
               SendNotification(c, replace)
        PROVE  Inv'
    BY <2>1, SentSound
  <2>2. ASSUME NEW c \in Item, CloseNotification(c)
        PROVE  Inv'
    <3>1. Sound(Withdrawn(item[c])) /\ Withdrawn(item[c]) \in FcitxNotifyItem
      BY <2>2, WithdrawnSound DEF Inv, CloseNotification, Sound
    <3> QED BY <2>2, <3>1 DEF Inv, CloseNotification
  <2>3. ASSUME NEW c \in Item, NEW id \in Id \cup {0}, NotifyCallback(c, id)
        PROVE  Inv'
    BY <2>3, AnswerSound DEF Inv, NotifyCallback
  <2>4. ASSUME NEW id \in Id, NotificationClosed(id)
        PROVE  Inv'
    <3>1. PICK c \in Item : /\ item[c].global_id = id
                            /\ item' = [item EXCEPT ![c] = DropGlobal(@)]
      BY <2>4 DEF NotificationClosed
    <3>2. Sound(DropGlobal(item[c])) /\ DropGlobal(item[c]) \in FcitxNotifyItem
      <4>1. Sound(item[c]) /\ item[c].intern /\ ~ item[c].call
        BY <3>1, IdAssumption DEF Inv, Sound
      <4> QED BY <4>1, DropSound DEF Sound
    <3> QED BY <3>1, <3>2 DEF Inv
  <2>5. CASE TimeoutCb
    BY <2>5, CheckedSound DEF Inv, TimeoutCb
  <2>6. CASE Tick
    BY <2>6, TickSound
  <2>7. CASE UNCHANGED vars
    BY <2>7 DEF Inv, vars
  <2> QED BY <2>1, <2>2, <2>3, <2>4, <2>5, <2>6, <2>7 DEF Next
<1> QED BY <1>1, <1>2, PTL DEF Spec

(* "One for pending notify callback, one for table": when the daemon        *)
(* answers before items expire, an item has exactly these references in     *)
(* every reachable state, for any number of notifications.                  *)
THEOREM ReferencesCounted ==
    ASSUME MaxReply <= RealTime
    PROVE  Spec => []Counted
<1>1. Inv => Counted
  BY DEF Inv, Counted, Sound, Referred
<1>2. Spec => []Inv
  BY Invariant
<1> QED BY <1>1, <1>2, PTL

-----------------------------------------------------------------------------
(* Ids.  Only an answer gives an id to an item; every other step keeps it   *)
(* or takes it away.                                                       *)

Kept(new, old) == new.global_id \in {old.global_id, 0}

LEMMA UnrefKeeps ==
    ASSUME NEW it \in FcitxNotifyItem
    PROVE  Kept(Unref(it), it)
<1>1. CASE it.ref_count > 1
  <2>1. Unref(it) = [it EXCEPT !.ref_count = it.ref_count - 1]
    BY <1>1 DEF Unref
  <2>2. [it EXCEPT !.ref_count = it.ref_count - 1].global_id = it.global_id
    BY DEF FcitxNotifyItem
  <2> QED BY <2>1, <2>2 DEF Kept
<1>2. CASE ~ (it.ref_count > 1)
  BY <1>2 DEF Unref, Kept, FcitxNotifyItem
<1> QED BY <1>1, <1>2

LEMMA DropGlobalKeeps ==
    ASSUME NEW it \in FcitxNotifyItem
    PROVE  DropGlobal(it).global_id = 0
<1> DEFINE x == [it EXCEPT !.global_id = 0]
<1>1. x \in FcitxNotifyItem /\ x.global_id = 0
  BY DEF FcitxNotifyItem
<1> HIDE DEF x
<1>2. Unref(x).global_id = 0
  BY <1>1, UnrefKeeps DEF Kept
<1> QED BY <1>2 DEF DropGlobal, x

LEMMA WithdrawnKeeps ==
    ASSUME NEW it \in FcitxNotifyItem
    PROVE  Kept(Withdrawn(it), it)
<1>1. CASE it.global_id = 0
  BY <1>1 DEF Withdrawn, Kept, FcitxNotifyItem
<1>2. CASE it.global_id # 0
  BY <1>2, DropGlobalKeeps DEF Withdrawn, Kept
<1> QED BY <1>1, <1>2

LEMMA CheckKeeps ==
    ASSUME NEW items \in [Item -> FcitxNotifyItem], NEW c \in Item
    PROVE  Kept(CheckTimeout(items)[c], items[c])
<1> DEFINE x == [items[c] EXCEPT !.intern = FALSE]
<1>1. x \in FcitxNotifyItem /\ x.global_id = items[c].global_id
  BY DEF FcitxNotifyItem
<1> HIDE DEF x
<1>2. Kept(Unref(x), items[c])
  BY <1>1, UnrefKeeps DEF Kept
<1>3. CheckTimeout(items)[c] \in {Unref(x), items[c]}
  BY DEF CheckTimeout, x
<1> QED BY <1>2, <1>3 DEF Kept

Distinct(items) ==
    \A c, d \in Item : items[c].global_id = items[d].global_id /\ c # d
                           => items[c].global_id = 0

LEMMA KeptDistinct ==
    ASSUME NEW old, NEW new, Distinct(old), \A c \in Item : Kept(new[c], old[c])
    PROVE  Distinct(new)
BY DEF Distinct, Kept

LEMMA AnswerDistinct ==
    ASSUME NEW c \in Item, NEW id \in Id \cup {0}, Inv, Distinct(item),
           NotifyCallback(c, id)
    PROVE  Distinct(item')
<1> DEFINE found == AddGlobal(item, c, id)
<1>1. found \in [Item -> FcitxNotifyItem] /\ Distinct(found)
  <2>1. found[c].global_id = id
    BY DEF AddGlobal, Inv, FcitxNotifyItem
  <2>2. \A d \in Item \ {c} : /\ Kept(found[d], item[d])
                              /\ found[d].global_id = id => id = 0
    BY IdAssumption DEF AddGlobal, Inv, FcitxNotifyItem, Kept
  <2>3. found \in [Item -> FcitxNotifyItem]
    BY DEF AddGlobal, Inv, FcitxNotifyItem
  <2> HIDE DEF found
  <2>4. Distinct(found)
    BY <2>1, <2>2 DEF Distinct, Kept
  <2> QED BY <2>3, <2>4
<1> HIDE DEF found
<1> DEFINE answer == Answer(item, c, id)
<1>2. answer \in [Item -> FcitxNotifyItem] /\ Distinct(answer)
  <2>1. CASE item[c].global_id # 0
    BY <2>1 DEF Answer, Inv
  <2>2. CASE item[c].global_id = 0 /\ found[c].state # "TO_BE_REMOVE"
    BY <2>2, <1>1 DEF Answer, found
  <2>3. CASE item[c].global_id = 0 /\ found[c].state = "TO_BE_REMOVE"
    <3>1. answer = [found EXCEPT ![c] = DropGlobal(@)]
      BY <2>3 DEF Answer, found
    <3>2. DropGlobal(found[c]) \in FcitxNotifyItem /\ DropGlobal(found[c]).global_id = 0
      BY <1>1, DropGlobalKeeps, UnrefTyped DEF DropGlobal, FcitxNotifyItem
    <3> HIDE DEF answer
    <3>3. \A d \in Item : Kept(answer[d], found[d])
      BY <1>1, <3>1, <3>2 DEF Kept
    <3> QED BY <1>1, <3>1, <3>2, <3>3, KeptDistinct
  <2> QED BY <2>1, <2>2, <2>3
<1> HIDE DEF answer
<1> DEFINE x == [answer[c] EXCEPT !.call = FALSE]
<1>3. x \in FcitxNotifyItem /\ x.global_id = answer[c].global_id
  BY <1>2 DEF FcitxNotifyItem
<1>4. item' = [answer EXCEPT ![c] = Unref(x)]
  BY DEF NotifyCallback, answer
<1> HIDE DEF x
<1>5. \A d \in Item : Kept(item'[d], answer[d])
  BY <1>2, <1>3, <1>4, UnrefKeeps DEF Kept
<1> QED BY <1>2, <1>5, KeptDistinct

(* A signal of the daemon finds at most one item in every reachable state.  *)
THEOREM IdsNameOneItem ==
    ASSUME MaxReply <= RealTime
    PROVE  Spec => []OneItemPerId
<1>1. Init => Distinct(item)
  BY DEF Init, Distinct, Unused
<1>2. Inv /\ Distinct(item) /\ [Next]_vars => Distinct(item')
  <2> SUFFICES ASSUME Inv, Distinct(item), [Next]_vars PROVE Distinct(item')
    OBVIOUS
  <2>1. ASSUME NEW c \in Item, NEW replace \in Item \cup {NoItem},
               SendNotification(c, replace)
        PROVE  Distinct(item')
    <3> DEFINE rest == Replaced(replace)
               sent == [rest EXCEPT ![c] = New]
    <3>1. rest \in [Item -> FcitxNotifyItem] /\ \A d \in Item : Kept(rest[d], item[d])
      <4>1. CASE replace = NoItem
        BY <4>1 DEF Replaced, Kept, Inv
      <4>2. CASE replace # NoItem
        <5>1. Withdrawn(item[replace]) \in FcitxNotifyItem
          BY <2>1, <4>2, WithdrawnSound DEF SendNotification, Inv, Sound
        <5>2. rest = [item EXCEPT ![replace] = Withdrawn(@)]
          BY <4>2 DEF Replaced
        <5> HIDE DEF rest
        <5> QED BY <4>2, <5>1, <5>2, WithdrawnKeeps DEF Kept, Inv
      <4> QED BY <4>1, <4>2
    <3>2. New \in FcitxNotifyItem /\ New.global_id = 0
      BY DEF New, FcitxNotifyItem, State
    <3>3. item' = CheckTimeout(sent)
      BY <2>1 DEF SendNotification
    <3> HIDE DEF rest
    <3>4. sent \in [Item -> FcitxNotifyItem] /\ \A d \in Item : Kept(sent[d], item[d])
      BY <3>1, <3>2 DEF Kept
    <3> HIDE DEF sent
    <3>5. \A d \in Item : Kept(item'[d], item[d])
      BY <3>3, <3>4, CheckKeeps DEF Kept
    <3> QED BY <3>5, KeptDistinct
  <2>2. ASSUME NEW c \in Item, CloseNotification(c)
        PROVE  Distinct(item')
    <3>1. \A d \in Item : Kept(item'[d], item[d])
      BY <2>2, WithdrawnKeeps DEF CloseNotification, Inv, Kept
    <3> QED BY <3>1, KeptDistinct
  <2>3. ASSUME NEW c \in Item, NEW id \in Id \cup {0}, NotifyCallback(c, id)
        PROVE  Distinct(item')
    BY <2>3, AnswerDistinct
  <2>4. ASSUME NEW id \in Id, NotificationClosed(id)
        PROVE  Distinct(item')
    <3>1. \A d \in Item : Kept(item'[d], item[d])
      BY <2>4, DropGlobalKeeps DEF NotificationClosed, Inv, Kept
    <3> QED BY <3>1, KeptDistinct
  <2>5. CASE TimeoutCb
    <3>1. \A d \in Item : Kept(item'[d], item[d])
      BY <2>5, CheckKeeps DEF TimeoutCb, Inv
    <3> QED BY <3>1, KeptDistinct
  <2>6. CASE Tick
    <3>1. ASSUME NEW d \in Item
          PROVE  Kept(item'[d], item[d])
      <4>1. item'[d] = [item[d] EXCEPT !.age = @ + 1] \/ item'[d] = item[d]
        BY <2>6 DEF Tick
      <4>2. [item[d] EXCEPT !.age = @ + 1].global_id = item[d].global_id
        BY DEF Inv, FcitxNotifyItem
      <4> QED BY <4>1, <4>2 DEF Kept
    <3> QED BY <3>1, KeptDistinct
  <2>7. CASE UNCHANGED vars
    BY <2>7 DEF vars, Distinct
  <2> QED BY <2>1, <2>2, <2>3, <2>4, <2>5, <2>6, <2>7 DEF Next
<1>3. Init => OneItemPerId
  BY <1>1 DEF Distinct, OneItemPerId
<1>4. Inv /\ OneItemPerId /\ [Next]_vars => OneItemPerId'
  BY <1>2 DEF Distinct, OneItemPerId
<1>5. Spec => []Inv
  BY Invariant
<1> QED BY <1>3, <1>4, <1>5, PTL DEF Spec

-----------------------------------------------------------------------------
(* Types, and the timers.  Neither needs a daemon that answers in time.     *)

LEMMA CheckTyped ==
    ASSUME NEW items \in [Item -> FcitxNotifyItem]
    PROVE  CheckTimeout(items) \in [Item -> FcitxNotifyItem]
<1>1. \A c \in Item : [items[c] EXCEPT !.intern = FALSE] \in FcitxNotifyItem
  BY DEF FcitxNotifyItem
<1>2. \A c \in Item : Unref([items[c] EXCEPT !.intern = FALSE]) \in FcitxNotifyItem
  BY <1>1, UnrefTyped
<1> QED BY <1>2 DEF CheckTimeout

LEMMA DropGlobalTyped ==
    ASSUME NEW it \in FcitxNotifyItem
    PROVE  DropGlobal(it) \in FcitxNotifyItem
<1>1. [it EXCEPT !.global_id = 0] \in FcitxNotifyItem
  BY DEF FcitxNotifyItem
<1> QED BY <1>1, UnrefTyped DEF DropGlobal

LEMMA WithdrawnTyped ==
    ASSUME NEW it \in FcitxNotifyItem
    PROVE  Withdrawn(it) \in FcitxNotifyItem
<1>1. [it EXCEPT !.state = "TO_BE_REMOVE"] \in FcitxNotifyItem
  BY DEF FcitxNotifyItem, State
<1> QED BY <1>1, DropGlobalTyped DEF Withdrawn

LEMMA SentTyped ==
    ASSUME NEW items \in [Item -> FcitxNotifyItem], item = items,
           NEW c \in Item, NEW replace \in Item \cup {NoItem}
    PROVE  [Replaced(replace) EXCEPT ![c] = New] \in [Item -> FcitxNotifyItem]
<1>1. New \in FcitxNotifyItem
  BY DEF New, FcitxNotifyItem, State
<1>2. Replaced(replace) \in [Item -> FcitxNotifyItem]
  <2>1. CASE replace = NoItem
    BY <2>1 DEF Replaced
  <2>2. CASE replace # NoItem
    <3>1. Withdrawn(item[replace]) \in FcitxNotifyItem
      BY <2>2, WithdrawnTyped
    <3> QED BY <2>2, <3>1 DEF Replaced
  <2> QED BY <2>1, <2>2
<1> QED BY <1>1, <1>2

LEMMA EndsCall ==
    ASSUME NEW it \in FcitxNotifyItem
    PROVE  LET x == [it EXCEPT !.call = FALSE]
           IN  x \in FcitxNotifyItem /\ x.intern = it.intern /\ x.age = it.age
BY DEF FcitxNotifyItem

LEMMA AnswerTyped ==
    ASSUME NEW items \in [Item -> FcitxNotifyItem], NEW c \in Item, NEW id \in Id \cup {0}
    PROVE  [Answer(items, c, id) EXCEPT ![c] = Unref([@ EXCEPT !.call = FALSE])]
               \in [Item -> FcitxNotifyItem]
<1> DEFINE found == AddGlobal(items, c, id)
           answer == Answer(items, c, id)
<1>1. found \in [Item -> FcitxNotifyItem]
  BY DEF AddGlobal, FcitxNotifyItem
<1>2. DropGlobal(found[c]) \in FcitxNotifyItem
  BY <1>1, DropGlobalTyped
<1>3. answer \in [Item -> FcitxNotifyItem]
  <2>1. answer \in {items, found, [found EXCEPT ![c] = DropGlobal(@)]}
    BY DEF Answer
  <2> HIDE DEF found, answer
  <2> QED BY <1>1, <1>2, <2>1
<1> HIDE DEF answer
<1> DEFINE x == [answer[c] EXCEPT !.call = FALSE]
<1>4. x \in FcitxNotifyItem
  BY <1>3, EndsCall
<1> HIDE DEF x
<1>5. [answer EXCEPT ![c] = Unref(x)] \in [Item -> FcitxNotifyItem]
  BY <1>3, <1>4, UnrefTyped
<1> QED BY <1>5 DEF x, answer

LEMMA UnrefKeepsTable ==
    ASSUME NEW it \in FcitxNotifyItem
    PROVE  (Unref(it).intern => it.intern) /\ Unref(it).age = it.age
BY DEF Unref, FcitxNotifyItem

(* A check adds a timer when it leaves an item in the table, and it goes    *)
(* off before that item, or any, is older than AddTime.                    *)
LEMMA CheckAddsTimer ==
    ASSUME NEW items \in [Item -> FcitxNotifyItem]
    PROVE  /\ NextTimer(items) \subseteq 0 .. AddTime
           /\ \A c \in Item : CheckTimeout(items)[c].intern =>
                 \E t \in NextTimer(items) : t + CheckTimeout(items)[c].age <= AddTime
<1> DEFINE left == {c \in Item : items[c].intern /\ ~ TooOld(items[c])}
           ages == {items[c].age : c \in left}
           oldest == {d \in left : \A e \in left : items[d].age >= items[e].age}
<1>1. NextTimer(items) = {AddTime - items[c].age : c \in oldest}
  BY DEF NextTimer
<1>2. \A c \in left : items[c].age \in 0 .. RealTime
  BY TimeAssumption DEF TooOld, FcitxNotifyItem
<1>3. \A c \in Item : CheckTimeout(items)[c].intern =>
          c \in left /\ CheckTimeout(items)[c] = items[c]
  <2> SUFFICES ASSUME NEW c \in Item, CheckTimeout(items)[c].intern
               PROVE  c \in left /\ CheckTimeout(items)[c] = items[c]
    OBVIOUS
  <2>1. CASE TooOld(items[c])
    <3> DEFINE x == [items[c] EXCEPT !.intern = FALSE]
    <3>1. x \in FcitxNotifyItem /\ x.intern = FALSE
      BY DEF FcitxNotifyItem
    <3>2. CheckTimeout(items)[c] = Unref(x)
      BY <2>1 DEF CheckTimeout
    <3> HIDE DEF x
    <3>3. ~ Unref(x).intern
      BY <3>1, UnrefKeepsTable
    <3> QED BY <3>2, <3>3
  <2>2. CASE ~ TooOld(items[c])
    BY <2>2 DEF CheckTimeout
  <2> QED BY <2>1, <2>2
<1>4. ASSUME NEW c \in left
      PROVE  \E d \in oldest : items[c].age <= items[d].age
  <2>1. ages \in SUBSET (0 .. RealTime) /\ ages # {}
    BY <1>2
  <2>2. PICK m \in ages : \A o \in ages : m >= o
    <3> HIDE DEF ages
    <3> QED BY <2>1, TimeAssumption, GreatestNatural
  <2>3. PICK d \in left : m = items[d].age
    BY <2>2
  <2>4. d \in oldest
    BY <2>2, <2>3
  <2>5. items[c].age <= items[d].age
    BY <1>2, <2>2, <2>3
  <2> QED BY <2>4, <2>5
<1>5. NextTimer(items) \subseteq 0 .. AddTime
  BY <1>1, <1>2, TimeAssumption
<1>6. ASSUME NEW c \in Item, CheckTimeout(items)[c].intern
      PROVE  \E t \in NextTimer(items) : t + CheckTimeout(items)[c].age <= AddTime
  <2>1. c \in left /\ CheckTimeout(items)[c].age = items[c].age
    BY <1>3, <1>6
  <2>2. PICK d \in oldest : items[c].age <= items[d].age
    BY <1>4, <2>1
  <2>3. /\ AddTime - items[d].age \in NextTimer(items)
        /\ (AddTime - items[d].age) + items[c].age <= AddTime
    <3>1. items[c].age \in 0 .. RealTime /\ items[d].age \in 0 .. RealTime
      BY <1>2, <2>1, <2>2
    <3> HIDE DEF left, oldest
    <3> QED BY <1>1, <2>2, <3>1, TimeAssumption
  <2> QED BY <2>1, <2>3
<1> QED BY <1>5, <1>6

(* The type invariant, for any number of notifications and ids.            *)
THEOREM TypeCorrect == Spec => []TypeOK
<1>1. Init => TypeOK
  BY UnusedSound DEF Init, TypeOK, Sound
<1>2. TypeOK /\ [Next]_vars => TypeOK'
  <2> SUFFICES ASSUME TypeOK, [Next]_vars PROVE TypeOK'
    OBVIOUS
  <2>1. ASSUME NEW c \in Item, NEW replace \in Item \cup {NoItem},
               SendNotification(c, replace)
        PROVE  TypeOK'
    <3> DEFINE sent == [Replaced(replace) EXCEPT ![c] = New]
    <3>1. sent \in [Item -> FcitxNotifyItem]
      BY SentTyped DEF TypeOK
    <3>2. item' = CheckTimeout(sent) /\ timers' = timers \cup NextTimer(sent)
      BY <2>1 DEF SendNotification
    <3> HIDE DEF sent
    <3> QED BY <3>1, <3>2, CheckTyped, CheckAddsTimer DEF TypeOK
  <2>2. ASSUME NEW c \in Item, CloseNotification(c)
        PROVE  TypeOK'
    <3>1. Withdrawn(item[c]) \in FcitxNotifyItem
      BY WithdrawnTyped DEF TypeOK
    <3> QED BY <2>2, <3>1 DEF CloseNotification, TypeOK
  <2>3. ASSUME NEW c \in Item, NEW id \in Id \cup {0}, NotifyCallback(c, id)
        PROVE  TypeOK'
    BY <2>3, AnswerTyped DEF NotifyCallback, TypeOK
  <2>4. ASSUME NEW id \in Id, NotificationClosed(id)
        PROVE  TypeOK'
    <3>1. \A c \in Item : DropGlobal(item[c]) \in FcitxNotifyItem
      BY DropGlobalTyped DEF TypeOK
    <3> QED BY <2>4, <3>1 DEF NotificationClosed, TypeOK
  <2>5. CASE TimeoutCb
    BY <2>5, CheckTyped, CheckAddsTimer DEF TimeoutCb, TypeOK
  <2>6. CASE Tick
    <3>1. \A c \in Item : [item[c] EXCEPT !.age = @ + 1] \in FcitxNotifyItem
      BY DEF TypeOK, FcitxNotifyItem
    <3>2. item' \in [Item -> FcitxNotifyItem]
      BY <2>6, <3>1 DEF Tick, TypeOK
    <3>3. \A t \in timers : t - 1 \in 0 .. AddTime
      BY <2>6, TimeAssumption DEF Tick, TypeOK
    <3> QED BY <2>6, <3>2, <3>3 DEF Tick, TypeOK
  <2>7. CASE UNCHANGED vars
    BY <2>7 DEF TypeOK, vars
  <2> QED BY <2>1, <2>2, <2>3, <2>4, <2>5, <2>6, <2>7 DEF Next
<1> QED BY <1>1, <1>2, PTL DEF Spec

(* Every item in the table has a timer that goes off in time for it.        *)
Timely == \A c \in Item : item[c].intern => \E t \in timers : t + item[c].age <= AddTime

(* What leaves the table and the ages alone, and takes no timer, is timely.  *)
LEMMA KeepsTimely ==
    ASSUME TypeOK, Timely, timers \subseteq timers',
           \A c \in Item : item'[c].intern => item[c].intern /\ item'[c].age = item[c].age
    PROVE  Timely'
BY DEF Timely

LEMMA DropKeepsTable ==
    ASSUME NEW it \in FcitxNotifyItem
    PROVE  (DropGlobal(it).intern => it.intern) /\ DropGlobal(it).age = it.age
<1> DEFINE x == [it EXCEPT !.global_id = 0]
<1>1. x \in FcitxNotifyItem /\ x.intern = it.intern /\ x.age = it.age
  BY DEF FcitxNotifyItem
<1> HIDE DEF x
<1>2. (Unref(x).intern => it.intern) /\ Unref(x).age = it.age
  BY <1>1, UnrefKeepsTable
<1> QED BY <1>2 DEF DropGlobal, x

LEMMA AnswerKeepsTable ==
    ASSUME NEW items \in [Item -> FcitxNotifyItem], NEW c \in Item, NEW id \in Id \cup {0},
           NEW d \in Item
    PROVE  LET after == [Answer(items, c, id) EXCEPT ![c] = Unref([@ EXCEPT !.call = FALSE])]
           IN  (after[d].intern => items[d].intern) /\ after[d].age = items[d].age
<1> DEFINE found == AddGlobal(items, c, id)
           answer == Answer(items, c, id)
<1>1. /\ found \in [Item -> FcitxNotifyItem]
      /\ found[d].intern = items[d].intern /\ found[d].age = items[d].age
  BY DEF AddGlobal, FcitxNotifyItem
<1>2. /\ DropGlobal(found[c]) \in FcitxNotifyItem
      /\ DropGlobal(found[c]).intern => found[c].intern
      /\ DropGlobal(found[c]).age = found[c].age
  BY <1>1, DropGlobalTyped, DropKeepsTable
<1>3. /\ answer \in [Item -> FcitxNotifyItem]
      /\ answer[d].intern => items[d].intern
      /\ answer[d].age = items[d].age
  <2>1. answer \in {items, found, [found EXCEPT ![c] = DropGlobal(@)]}
    BY DEF Answer
  <2> HIDE DEF found, answer
  <2> QED BY <1>1, <1>2, <2>1
<1> HIDE DEF answer
<1> DEFINE x == [answer[c] EXCEPT !.call = FALSE]
<1>4. x \in FcitxNotifyItem /\ x.intern = answer[c].intern /\ x.age = answer[c].age
  BY <1>3, EndsCall
<1> HIDE DEF x
<1>5. (Unref(x).intern => answer[c].intern) /\ Unref(x).age = answer[c].age
  BY <1>4, UnrefKeepsTable
<1>6. [answer EXCEPT ![c] = Unref(x)][d].intern => items[d].intern
  BY <1>3, <1>5
<1>7. [answer EXCEPT ![c] = Unref(x)][d].age = items[d].age
  BY <1>3, <1>5
<1> QED BY <1>6, <1>7 DEF x, answer

(* No item stays in the table longer than AddTime, however many there are   *)
(* and whenever the daemon answers: a timer that was added for the oldest   *)
(* is early enough for all.                                                *)
THEOREM ItemsAreExpired == Spec => []ItemsExpire
<1>1. Init => Timely
  BY DEF Init, Timely, Unused
<1>2. TypeOK /\ Timely /\ [Next]_vars => Timely'
  <2> SUFFICES ASSUME TypeOK, Timely, [Next]_vars PROVE Timely'
    OBVIOUS
  <2>1. ASSUME NEW c \in Item, NEW replace \in Item \cup {NoItem},
               SendNotification(c, replace)
        PROVE  Timely'
    <3> DEFINE sent == [Replaced(replace) EXCEPT ![c] = New]
    <3>1. sent \in [Item -> FcitxNotifyItem]
      BY SentTyped DEF TypeOK
    <3>2. item' = CheckTimeout(sent) /\ timers' = timers \cup NextTimer(sent)
      BY <2>1 DEF SendNotification
    <3> HIDE DEF sent
    <3> QED BY <3>1, <3>2, CheckAddsTimer DEF Timely
  <2>2. ASSUME NEW c \in Item, CloseNotification(c)
        PROVE  Timely'
    <3>1. (Withdrawn(item[c]).intern => item[c].intern) /\ Withdrawn(item[c]).age = item[c].age
      <4>1. [item[c] EXCEPT !.state = "TO_BE_REMOVE"].intern = item[c].intern
            /\ [item[c] EXCEPT !.state = "TO_BE_REMOVE"].age = item[c].age
        BY DEF TypeOK, FcitxNotifyItem
      <4> QED BY <4>1, DropKeepsTable DEF Withdrawn, TypeOK
    <3> QED BY <2>2, <3>1, KeepsTimely DEF CloseNotification, TypeOK
  <2>3. ASSUME NEW c \in Item, NEW id \in Id \cup {0}, NotifyCallback(c, id)
        PROVE  Timely'
    BY <2>3, AnswerKeepsTable, KeepsTimely DEF NotifyCallback, TypeOK
  <2>4. ASSUME NEW id \in Id, NotificationClosed(id)
        PROVE  Timely'
    BY <2>4, DropKeepsTable, KeepsTimely DEF NotificationClosed, TypeOK
  <2>5. CASE TimeoutCb
    BY <2>5, CheckAddsTimer DEF TimeoutCb, TypeOK, Timely
  <2>6. CASE Tick
    <3> SUFFICES ASSUME NEW c \in Item, item'[c].intern
                 PROVE  \E t \in timers' : t + item'[c].age <= AddTime
      BY DEF Timely
    <3>1. item'[c] \in {item[c], [item[c] EXCEPT !.age = @ + 1]}
      BY <2>6 DEF Tick
    <3>2. item[c].intern /\ item'[c].age \in {item[c].age, item[c].age + 1}
      BY <3>1 DEF TypeOK, FcitxNotifyItem
    <3>3. PICK t \in timers : t + item[c].age <= AddTime
      BY <3>2 DEF Timely
    <3>4. t - 1 \in timers' /\ t \in Nat /\ item[c].age \in Nat
      BY <2>6 DEF Tick, TypeOK, FcitxNotifyItem
    <3>5. (t - 1) + item'[c].age <= AddTime
      BY <3>2, <3>3, <3>4, TimeAssumption
    <3> QED BY <3>4, <3>5
  <2>7. CASE UNCHANGED vars
    BY <2>7 DEF Timely, vars
  <2> QED BY <2>1, <2>2, <2>3, <2>4, <2>5, <2>6, <2>7 DEF Next
<1>3. TypeOK /\ Timely => ItemsExpire
  <2> SUFFICES ASSUME TypeOK, Timely, NEW c \in Item, item[c].intern
               PROVE  item[c].age <= AddTime
    BY DEF ItemsExpire
  <2>1. PICK t \in timers : t + item[c].age <= AddTime
    BY DEF Timely
  <2>2. t \in Nat /\ item[c].age \in Nat
    BY DEF TypeOK, FcitxNotifyItem
  <2> QED BY <2>1, <2>2, TimeAssumption
<1> QED BY <1>1, <1>2, <1>3, TypeCorrect, PTL DEF Spec
=============================================================================
