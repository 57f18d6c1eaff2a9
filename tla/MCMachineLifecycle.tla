------------------------ MODULE MCMachineLifecycle ------------------------
(* Instances of MachineLifecycle for TLC. *)
EXTENDS MachineLifecycle, TLC

\* Requests are served once and are interchangeable.
RequestSymmetry == Permutations(Requests)
=============================================================================
