---------------------------- MODULE MCRunManager ----------------------------
(* Instances of RunManager for TLC. *)
EXTENDS RunManagerInv, TLC

(* Threads of one kind, and the runs of this server, are interchangeable;  *)
(* only for runs without liveness properties.                              *)
Symmetry == Permutations(Caller) \cup Permutations(Worker)
              \cup Permutations(Run \ OldRun)
=============================================================================
