-------------------------- MODULE DriverContract ---------------------------
(***************************************************************************)
(* The Driver interface (nodeagent/internal/driver): what the rest of the  *)
(* agent, and the control plane behind it, see of a machine whichever      *)
(* driver runs it.  A call returns before its work is done; the work shows *)
(* as a later change of the status.                                        *)
(***************************************************************************)
CONSTANT
    Machines     \* machine ids

VARIABLES
    status,      \* Status.State of each machine; "absent" is ErrUnknownMachine
    snapshot     \* Status.Snapshot.Present

Idle == {"absent", "stopped", "error"}

Init ==
    /\ status = [m \in Machines |-> "absent"]
    /\ snapshot = [m \in Machines |-> FALSE]

From(m, S) == status[m] \in S
To(m, s) == status'[m] = s

\* EnsureRunning: of a machine that is not up, or whose child has died.  It may
\* consume the snapshot and never makes one.
EnsureRunning(m) ==
    From(m, Idle \cup {"creating", "running"}) /\ To(m, "creating") /\ (snapshot'[m] => snapshot[m])

\* A machine that runs has used its snapshot up.
Booted(m) == From(m, {"creating"}) /\ To(m, "running") /\ ~snapshot'[m]

Fails(m) == From(m, {"creating", "running"}) /\ To(m, "error") /\ (snapshot'[m] => snapshot[m])

\* Stop, with StopModeHibernate or StopModePoweroff: through hibernating or
\* stopping to stopped, and a machine that is stopped is left alone.
Stop(m) ==
    /\ ~From(m, {"absent", "stopped"})
    /\ To(m, "hibernating") \/ To(m, "stopping")
    /\ snapshot'[m] = snapshot[m]

\* Only a hibernation leaves a snapshot behind.
Stopped(m) ==
    /\ To(m, "stopped")
    /\ From(m, {"hibernating", "stopping"})
    /\ snapshot'[m] => From(m, {"hibernating"})

Destroy(m) == To(m, "absent") /\ ~snapshot'[m]

Same(m) == status'[m] = status[m] /\ snapshot'[m] = snapshot[m]

\* A restarted agent may settle several machines at once.
Next ==
    \A m \in Machines :
        EnsureRunning(m) \/ Booted(m) \/ Fails(m) \/ Stop(m) \/ Stopped(m) \/ Destroy(m) \/ Same(m)

Spec == Init /\ [][Next]_<<status, snapshot>>
=============================================================================
