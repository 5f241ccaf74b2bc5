---------------------------- MODULE MCConfigClient ----------------------------
(* ConfigClient for TLC: all UUIDs are on one partition, so that they share *)
(* a read set; another partition may have none.                            *)
EXTENDS ConfigClient, TLC

OnePartition == [u \in UUIDs |-> "p"]

Symmetry == Permutations(Callers)
=============================================================================
