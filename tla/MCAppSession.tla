----------------------------- MODULE MCAppSession -----------------------------
(* Instances of AppSession for TLC. *)
EXTENDS AppSession, TLC

(* Every set of identities is interchangeable; the urls are not *)
Symmetry == Permutations(Views) \cup Permutations(FullViews)
              \cup Permutations(Players) \cup Permutations(Layers)
=============================================================================
