-------------------------- MODULE MCUserInterface --------------------------
(* Instances of UserInterface for TLC.                                     *)
EXTENDS UserInterface, TLC

CONSTANTS d1, d2
=============================================================================
