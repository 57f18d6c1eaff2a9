---------------------------- MODULE MachineRows ----------------------------
(***************************************************************************)
(* What the machine store promises to everybody who reads it: every row is *)
(* inserted as requested, moves only along the table of legal transitions, *)
(* and each move and its audit event appear together; deleting the row     *)
(* takes its log with it.  Who moves a row, and when, is left open.        *)
(***************************************************************************)
EXTENDS MachineStates, Naturals, Sequences

CONSTANT Machines

VARIABLES
    state,   \* machines.state; "none" before the row exists, "deleted" after
    events   \* machine_events, per machine

rows == <<state, events>>

RowStates == States \cup {"none", "deleted"}
Event == [from : States, to : States]

Init ==
    /\ state = [m \in Machines |-> "none"]
    /\ events = [m \in Machines |-> <<>>]

\* CreateMachine: an id is generated for the insert and never used again.
Insert(m) ==
    /\ state[m] = "none"
    /\ state' = [state EXCEPT ![m] = "requested"]
    /\ UNCHANGED events

\* A won Transition.
Move(m, to) ==
    /\ state[m] \in States
    /\ CanTransition(state[m], to)
    /\ state' = [state EXCEPT ![m] = to]
    /\ events' = [events EXCEPT ![m] = Append(@, [from |-> state[m], to |-> to])]

\* DeleteMachine, which cascades to the log.
Delete(m) ==
    /\ state' = [state EXCEPT ![m] = "deleted"]
    /\ events' = [events EXCEPT ![m] = <<>>]

Next == \E m \in Machines : Insert(m) \/ (\E to \in States : Move(m, to)) \/ Delete(m)

Spec == Init /\ [][Next]_rows

TypeOK ==
    /\ state \in [Machines -> RowStates]
    /\ events \in [Machines -> Seq(Event)]

\* The audit log of a machine is a path of legal transitions from requested to
\* the state its row is in, whichever actors raced for each step ("illegal
\* transitions and missing audit rows are impossible by construction", state.go).
AuditTrail ==
    \A m \in Machines : state[m] \in States =>
        LET log == events[m] IN
        /\ state[m] = IF log = <<>> THEN "requested" ELSE log[Len(log)].to
        /\ \A i \in 1 .. Len(log) :
             /\ CanTransition(log[i].from, log[i].to)
             /\ log[i].from = IF i = 1 THEN "requested" ELSE log[i - 1].to
=============================================================================
