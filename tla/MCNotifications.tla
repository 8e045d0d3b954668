--------------------------- MODULE MCNotifications ---------------------------
(* Instances of Notifications for TLC: the cells and the ids are symmetric.  *)
EXTENDS Notifications, TLC

Symmetry == Permutations(Item)
=============================================================================
