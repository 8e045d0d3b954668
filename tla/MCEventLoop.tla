----------------------------- MODULE MCEventLoop -----------------------------
(* Instances of EventLoop for TLC: the modules in the order of their         *)
(* priorities, D-Bus, X11 and the socket of fcitx-remote.                  *)
EXTENDS EventLoop, TLC

CONSTANTS dbus, x11, remote

ModulesInOrder == <<dbus, x11, remote>>

Symmetry == Permutations(Timer)
=============================================================================
