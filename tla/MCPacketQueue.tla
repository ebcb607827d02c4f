--------------------------- MODULE MCPacketQueue ---------------------------
(***************************************************************************)
(* The packet queue on small instances.                                     *)
(***************************************************************************)
EXTENDS PacketQueue, TLC

Symmetry == Permutations(Prio) \cup Permutations(Conn)
=============================================================================
