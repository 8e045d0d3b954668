------------------------------ MODULE TrayIcon ------------------------------
(***************************************************************************)
(* What a user sees of the tray: the icon is hidden, or due, or in one of  *)
(* two places.  A hidden icon is due before it is in the tray as an item,  *)
(* and one that is due does not stay out of a tray that has room for it.   *)
(***************************************************************************)
VARIABLES
    place,       \* where the icon is
    room         \* an X11 tray is known

vars == <<place, room>>

Shown == {"due", "item", "window"}

TypeOK == place \in Shown \cup {"hidden"} /\ room \in BOOLEAN

Init == place \in {"due", "hidden"} /\ room \in BOOLEAN

Hide == place' = "hidden"

(* Without the module of the item the window is shown at once.             *)
Show == place = "hidden" /\ place' \in {"due", "window"}

Move == place \in Shown /\ place' \in Shown

Next == room' \in BOOLEAN /\ (Hide \/ Show \/ Move)

Appear == Next /\ place = "due" /\ room /\ place' # "due"

Spec == Init /\ [][Next]_vars

FairSpec == Spec /\ WF_vars(Appear)
=============================================================================
