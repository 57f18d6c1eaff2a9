---------------------------- MODULE NodeRecords ----------------------------
(***************************************************************************)
(* What the node-agent's record store (nodeagent/internal/state) promises  *)
(* about guest addresses: a machine gets one with its record, keeps it as  *)
(* long as it has the record, and shares it with nobody.  Every operation  *)
(* of the store runs under one mutex and a save is a rename, so each is a  *)
(* single step, and a restart of the agent finds the records as they were. *)
(***************************************************************************)
EXTENDS Naturals

CONSTANTS
    Machines,    \* machine ids
    SubnetSize   \* the number of addresses of the host's subnet

VARIABLE
    held         \* the guest address in each machine's record; 0 without one

Gateway == 1                        \* the subnet's first address is 0
GuestAddrs == {a \in 0 .. SubnetSize : Gateway < a /\ a + 1 < SubnetSize}

\* The addresses no record names: from the gateway's successor to the last one
\* before broadcast.
Free(h) == GuestAddrs \ {h[m] : m \in Machines}

\* allocateIPLocked: the lowest of them.
IsLowestFree(a, h) == a \in Free(h) /\ \A b \in Free(h) : a <= b

Init == held = [m \in Machines |-> 0]

\* Reserve of a machine without a record.  With no address free it fails and
\* changes nothing; with a record it returns that.
Reserve(m) ==
    /\ held[m] = 0
    /\ \E a \in GuestAddrs : IsLowestFree(a, held) /\ held' = [held EXCEPT ![m] = a]

Delete(m) == held' = [held EXCEPT ![m] = 0]

Next == \E m \in Machines : Reserve(m) \/ Delete(m)

Spec == Init /\ [][Next]_held

-----------------------------------------------------------------------------
\* Every address is a guest address of the subnet: never the network's, the
\* gateway's or the broadcast address (allocateIPLocked).
TypeOK == held \in [Machines -> GuestAddrs \cup {0}]

\* No two records name the same address, whatever was destroyed and created
\* before (allocateIPLocked looks only at the records that exist).
AddrsDiffer == \A m, n \in Machines : held[m] = held[n] /\ held[m] # 0 => m = n

\* A machine keeps its address from its record's creation to its deletion.
AddrKept == [][\A m \in Machines : held[m] # 0 => held'[m] \in {held[m], 0}]_held
=============================================================================
