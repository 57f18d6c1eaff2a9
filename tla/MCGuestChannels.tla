--------------------------- MODULE MCGuestChannels ---------------------------
(***************************************************************************)
(* GuestChannels on small instances: two writers and the supervisors of    *)
(* the manager.                                                            *)
(***************************************************************************)
EXTENDS GuestChannels, TLC

\* Supervisor slots, writers and machines are interchangeable.
Symmetry == Permutations(Sups) \cup Permutations(Machines) \cup Permutations(Writers)
=============================================================================
