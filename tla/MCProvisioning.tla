---------------------------- MODULE MCProvisioning ----------------------------
(* Instances of Provisioning for TLC. *)
EXTENDS Provisioning, TLC
CONSTANTS p1, p2, p3
Symmetric == Permutations(Procs)
===============================================================================
