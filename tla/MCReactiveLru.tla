---------------------------- MODULE MCReactiveLru ----------------------------
(***************************************************************************)
(* Instances of ReactiveLru for TLC.  Neither the keys nor the clients are  *)
(* told apart, so permuting them is a symmetry of the safety runs.          *)
(***************************************************************************)
EXTENDS ReactiveLru, TLC

Symmetry == Permutations(Clients) \cup Permutations(Keys)
=============================================================================
