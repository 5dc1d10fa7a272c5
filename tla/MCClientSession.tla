---------------------------- MODULE MCClientSession ----------------------------
(* Instances of ClientSession for TLC. *)
EXTENDS ClientSession, TLC

Symmetry == Permutations(Views) \cup Permutations(FullViews)
              \cup Permutations(Players) \cup Permutations(Layers)
=============================================================================
