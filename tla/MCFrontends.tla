----------------------------- MODULE MCFrontends -----------------------------
(* Instances of Frontends for TLC: contexts and programs are model values.  *)
EXTENDS Frontends, TLC

Symmetry == Permutations(Node) \cup Permutations(App)
=============================================================================
