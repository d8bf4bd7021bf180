---------------------------- MODULE MCReplication ----------------------------
(* Small instances of Replication.                                           *)
EXTENDS Replication, TLC

\* Slots are interchangeable.
SlotSymmetry == Permutations(Slots)
==============================================================================
