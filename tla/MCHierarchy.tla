------------------------------ MODULE MCHierarchy ------------------------------
(* Two processes at a time, commands or the service. *)
EXTENDS Hierarchy, TLC

HierarchySymmetry == Permutations(Process) \cup Permutations(KeyPair)
================================================================================
