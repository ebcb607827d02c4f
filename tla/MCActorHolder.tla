--------------------------- MODULE MCActorHolder ---------------------------
(***************************************************************************)
(* The actor holder on small instances.                                     *)
(***************************************************************************)
EXTENDS ActorHolder

Symmetry == Permutations(Caller) \cup Permutations(Worker)
=============================================================================
