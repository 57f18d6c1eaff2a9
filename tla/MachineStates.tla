--------------------------- MODULE MachineStates ---------------------------
(***************************************************************************)
(* The machine state machine of the control plane: the lifecycle states    *)
(* and the single table of legal transitions                               *)
(* (controlplane/internal/machine/state.go).                               *)
(***************************************************************************)

States == {"requested", "provisioning", "running", "starting", "stopping",
           "hibernating", "stopped", "error"}

\* allowed[from] is the set of states a machine may move to from `from`.
allowed ==
    [requested    |-> {"provisioning", "error"},
     provisioning |-> {"running", "error"},
     running      |-> {"stopping", "hibernating", "error"},
     stopping     |-> {"stopped", "error"},
     hibernating  |-> {"stopped", "error"},
     stopped      |-> {"starting"},
     starting     |-> {"running", "error"},
     error        |-> {"starting"}]

CanTransition(from, to) == to \in allowed[from]

\* The states the poller actively advances: the control plane is waiting for
\* the node-agent to finish an asynchronous operation.
Transitional == {"provisioning", "starting", "stopping", "hibernating"}

\* The two halves of Transitional the poller tells apart.
Booting == {"provisioning", "starting"}
Halting == {"stopping", "hibernating"}

=============================================================================
