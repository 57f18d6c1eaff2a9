------------------------ MODULE MCFirecrackerDriver ------------------------
(* TLC instances of FirecrackerDriver. *)
EXTENDS FirecrackerDriver, TLC

CONSTANTS m1, m2

\* One jail uid per machine, and one for all (a range smaller than the subnet).
OwnUids == m1 :> 1 @@ m2 :> 2
OneUid == m1 :> 1 @@ m2 :> 1

CallSymmetry == Permutations(Calls)
=============================================================================
