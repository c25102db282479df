---------------------------- MODULE MCMeshReceive ----------------------------
(* Instances of MeshReceive.  Fixtures and destinations are interchangeable. *)
EXTENDS MeshReceive, TLC

Interchangeable == Permutations(Nodes) \cup Permutations(Dsts)
===============================================================================
