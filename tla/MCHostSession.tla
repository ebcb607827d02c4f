-------------------------- MODULE MCHostSession ---------------------------
(***************************************************************************)
(* The host session on small instances.                                     *)
(***************************************************************************)
EXTENDS HostSession, TLC

\* Only the connections are interchangeable.
Symmetry == Permutations(Conn)
=============================================================================
