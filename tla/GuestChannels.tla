--------------------------- MODULE GuestChannels ---------------------------
(***************************************************************************)
(* The control plane's guest channels: guestctl.Manager, which follows the *)
(* machine broker and keeps one supervisor goroutine, and through it one   *)
(* control channel, per running machine                                    *)
(* (controlplane/internal/guestctl/manager.go, machine/broker.go).         *)
(*                                                                         *)
(* Writers stand for the HTTP handlers, the poller and the notifications   *)
(* of guests. Each commits a row and publishes it afterwards, so what the  *)
(* manager sees may be late, reordered, or dropped by a full buffer.       *)
(***************************************************************************)
EXTENDS Naturals, Sequences, MachineStates

CONSTANTS
    Machines,   \* machine ids
    Writers,    \* goroutines that commit rows and publish them
    Sups,       \* bound: supervisor goroutines that live at one time
    None,       \* no supervisor, no channel
    Buffer,     \* capacity of a subscription (32 in the code)
    May,        \* what may happen besides ordered, timely steps
    MaxWrites   \* bound: commits and reads of rows

\* Two writers publish in another order than they committed ("reorder"); a row
\* is committed while the manager has listed and not yet subscribed ("gap"); the
\* manager goes on before a cancelled supervisor has returned ("late"); a machine
\* is destroyed ("destroy"); the listing fails ("list").
Happenings == {"reorder", "gap", "late", "destroy", "list"}

ASSUME ChannelsAssumption ==
    /\ None \notin Sups
    /\ May \subseteq Happenings
    /\ Buffer \in Nat /\ MaxWrites \in Nat

VARIABLES
    row,         \* the committed state of each machine, "destroyed" once deleted
    writer,      \* what each writer has still to do
    queue,       \* the manager's subscription: updates not yet received
    phase,       \* how far Manager.Run has come
    todo,        \* machines listed as running and not yet ensured
    supervisors, \* Manager.supervisors: the supervisor each machine's cancel belongs to
    sup,         \* the supervisor goroutines
    conns,       \* Manager.conns: the supervisor whose channel is registered
    writes       \* commits and reads so far

mgrVars == <<phase, todo>>
rowVars == <<row, writes>>
vars == <<rowVars, writer, queue, mgrVars, supervisors, sup, conns>>

RowStates == States \cup {"destroyed"}
Update == [m : Machines, state : States]
SupPcs == {"free", "dial", "up", "wait", "exit"}
Sup == [m : Machines \cup {None}, pc : SupPcs, cancelled : BOOLEAN]
Free == [m |-> None, pc |-> "free", cancelled |-> FALSE]
WriterPcs == {"idle", "destroy", "publish"}
Idle == [pc |-> "idle"]
Writer == {Idle} \cup [pc : {"destroy", "publish"}, u : Update]

\* Mutant: a crash is not a stop.
DownStatesPlanned == {"stopping", "hibernating", "stopped"}

\* The states whose update makes the manager tear a channel down.
DownStates == {"stopping", "hibernating", "stopped", "error"}

\* A control plane that starts finds the rows an earlier one left.
Init ==
    /\ row \in [Machines -> States]
    /\ writer = [w \in Writers |-> Idle]
    /\ queue = <<>>
    /\ phase = "start" /\ todo = {}
    /\ supervisors = [m \in Machines |-> None]
    /\ sup = [i \in Sups |-> Free]
    /\ conns = [m \in Machines |-> None]
    /\ writes = 0

-----------------------------------------------------------------------------
(* Writers.                                                                *)

\* A writer takes up something new. Without "reorder", commit and publication of
\* one update are not interleaved with another's; without "gap", nobody writes
\* between the manager's listing and its subscription.
MayWrite(w) ==
    /\ writer[w] = Idle
    /\ writes < MaxWrites
    /\ "reorder" \in May \/ \A v \in Writers : writer[v] = Idle
    /\ "gap" \in May \/ phase \in {"start", "watching"}
    /\ writes' = writes + 1

Holds(w, pc, m, s) == writer' = [writer EXCEPT ![w] = [pc |-> pc, u |-> [m |-> m, state |-> s]]]

\* transition: a compare-and-set along the transition table, published after it.
Commit(w, m, to) ==
    /\ MayWrite(w)
    /\ row[m] \in States /\ CanTransition(row[m], to)
    /\ row' = [row EXCEPT ![m] = to]
    /\ Holds(w, "publish", m, to)
    /\ UNCHANGED <<queue, mgrVars, supervisors, sup, conns>>

\* Updates without a transition: a rename, and the clone and push completions
\* that guests report. The row is read, and published afterwards.
Touch(w, m) ==
    /\ MayWrite(w)
    /\ row[m] \in States
    /\ Holds(w, "publish", m, row[m])
    /\ UNCHANGED <<row, queue, mgrVars, supervisors, sup, conns>>

\* Destroy reads the row, exports sessions and tears the machine down ...
DestroyRead(w, m) ==
    /\ "destroy" \in May
    /\ MayWrite(w)
    /\ row[m] \in States
    /\ Holds(w, "destroy", m, row[m])
    /\ UNCHANGED <<row, queue, mgrVars, supervisors, sup, conns>>

\* Mutant: the row is read again for the update.
DestroyRowRereads(w) ==
    /\ writer[w].pc = "destroy"
    /\ row' = [row EXCEPT ![writer[w].u.m] = "destroyed"]
    /\ writer' = [writer EXCEPT ![w].pc = "publish", ![w].u.state = "destroyed"]
    /\ UNCHANGED <<writes, queue, mgrVars, supervisors, sup, conns>>

\* ... deletes the row, and publishes the row as it was read, marked Deleted: a
\* mark that Manager.Run does not look at.
DestroyRow(w) ==
    /\ writer[w].pc = "destroy"
    /\ row' = [row EXCEPT ![writer[w].u.m] = "destroyed"]
    /\ writer' = [writer EXCEPT ![w].pc = "publish"]
    /\ UNCHANGED <<writes, queue, mgrVars, supervisors, sup, conns>>

\* Broker.Publish: a full buffer drops the update; before SubscribeAll there is
\* nobody to send it to.
Publish(w) ==
    /\ writer[w].pc = "publish"
    /\ writer' = [writer EXCEPT ![w] = Idle]
    /\ queue' = IF phase = "watching" /\ Len(queue) < Buffer
                THEN Append(queue, writer[w].u) ELSE queue
    /\ UNCHANGED <<rowVars, mgrVars, supervisors, sup, conns>>

-----------------------------------------------------------------------------
(* The manager.                                                            *)

\* Without "late", a cancelled supervisor has returned before the manager's next step.
Prompt == "late" \in May \/ \A i \in Sups : ~sup[i].cancelled

\* Mutant: ensure does not look at the map.
EnsureAnyway(m) ==
    \E i \in Sups :
        /\ sup[i] = Free
        /\ supervisors' = [supervisors EXCEPT ![m] = i]
        /\ sup' = [sup EXCEPT ![i] = [m |-> m, pc |-> "dial", cancelled |-> FALSE]]

\* ensure: a supervisor for m, unless the map has one.
Ensure(m) ==
    \/ /\ supervisors[m] # None
       /\ UNCHANGED <<supervisors, sup>>
    \/ /\ supervisors[m] = None
       /\ \E i \in Sups :
            /\ sup[i] = Free
            /\ supervisors' = [supervisors EXCEPT ![m] = i]
            /\ sup' = [sup EXCEPT ![i] = [m |-> m, pc |-> "dial", cancelled |-> FALSE]]

\* Mutant: teardown leaves the entry for the goroutine to delete.
TeardownKeepsEntry(m) ==
    /\ supervisors' = supervisors
    /\ sup' = [i \in Sups |-> IF i = supervisors[m] THEN [sup[i] EXCEPT !.cancelled = TRUE] ELSE sup[i]]

\* teardown: forget the supervisor and cancel it.
Teardown(m) ==
    /\ supervisors' = [supervisors EXCEPT ![m] = None]
    /\ sup' = [i \in Sups |-> IF i = supervisors[m] THEN [sup[i] EXCEPT !.cancelled = TRUE] ELSE sup[i]]

\* Run: list the running machines; a failing query is logged and passed over.
RunList ==
    /\ phase = "start"
    /\ phase' = "ensuring"
    /\ \/ todo' = {m \in Machines : row[m] = "running"}
       \/ "list" \in May /\ todo' = {}
    /\ UNCHANGED <<rowVars, writer, queue, supervisors, sup, conns>>

RunEnsure(m) ==
    /\ phase = "ensuring" /\ m \in todo
    /\ todo' = todo \ {m}
    /\ Ensure(m)
    /\ UNCHANGED <<rowVars, writer, queue, phase, conns>>

RunSubscribe ==
    /\ phase = "ensuring" /\ todo = {}
    /\ phase' = "watching"
    /\ UNCHANGED <<rowVars, writer, queue, todo, supervisors, sup, conns>>

\* Run's loop: one update.
RunUpdate ==
    /\ phase = "watching" /\ queue # <<>>
    /\ Prompt
    /\ queue' = Tail(queue)
    /\ LET u == Head(queue) IN
         \/ u.state = "running" /\ Ensure(u.m)
         \/ u.state \in DownStates /\ Teardown(u.m)
         \/ u.state \notin DownStates \cup {"running"} /\ UNCHANGED <<supervisors, sup>>
    /\ UNCHANGED <<rowVars, writer, mgrVars, conns>>

-----------------------------------------------------------------------------
(* Supervisors.                                                            *)

\* The guest answers while its VM exists.
Reachable(m) == row[m] \in {"running", "stopping", "hibernating"}

\* Mutant: only channels from before the subscription are registered.
DialSucceedsOnce(i) ==
    /\ sup[i].pc = "dial" /\ Reachable(sup[i].m)
    /\ sup' = [sup EXCEPT ![i].pc = "up"]
    /\ conns' = [conns EXCEPT ![sup[i].m] = IF phase = "watching" THEN @ ELSE i]
    /\ UNCHANGED <<rowVars, writer, queue, mgrVars, supervisors>>

\* connectOnce: the dial succeeds, even if cancelled meanwhile; setConn.
DialSucceeds(i) ==
    /\ sup[i].pc = "dial" /\ Reachable(sup[i].m)
    /\ sup' = [sup EXCEPT ![i].pc = "up"]
    /\ conns' = [conns EXCEPT ![sup[i].m] = i]
    /\ UNCHANGED <<rowVars, writer, queue, mgrVars, supervisors>>

\* Mutant: supervise gives up when connectOnce returns.
AfterSessionGivesUp(i) == "exit"

\* supervise after connectOnce: return if cancelled, else back off.
AfterSession(i) == IF sup[i].cancelled THEN "exit" ELSE "wait"

DialFails(i) ==
    /\ sup[i].pc = "dial"
    /\ sup' = [sup EXCEPT ![i].pc = AfterSession(i)]
    /\ UNCHANGED <<rowVars, writer, queue, mgrVars, supervisors, conns>>

\* Mutant: clearConn is left out.
SessionEndsRegistered(i) ==
    /\ sup[i].pc = "up"
    /\ sup' = [sup EXCEPT ![i].pc = AfterSession(i)]
    /\ UNCHANGED <<rowVars, writer, queue, mgrVars, supervisors, conns>>

\* The channel drops, or its context is cancelled; clearConn removes the channel
\* only if it is still the registered one.
SessionEnds(i) ==
    /\ sup[i].pc = "up"
    /\ sup' = [sup EXCEPT ![i].pc = AfterSession(i)]
    /\ conns' = [conns EXCEPT ![sup[i].m] = IF @ = i THEN None ELSE @]
    /\ UNCHANGED <<rowVars, writer, queue, mgrVars, supervisors>>

\* supervise: the backoff is over, or the context is cancelled.
BackoffEnds(i) ==
    /\ sup[i].pc = "wait"
    /\ sup' = [sup EXCEPT ![i].pc = IF sup[i].cancelled THEN "exit" ELSE "dial"]
    /\ UNCHANGED <<rowVars, writer, queue, mgrVars, supervisors, conns>>

\* The goroutine of ensure, after supervise: delete(m.supervisors, id), whoever
\* the entry belongs to.
SupervisorExits(i) ==
    /\ sup[i].pc = "exit"
    /\ supervisors' = [supervisors EXCEPT ![sup[i].m] = None]
    /\ sup' = [sup EXCEPT ![i] = Free]
    /\ UNCHANGED <<rowVars, writer, queue, mgrVars, conns>>

-----------------------------------------------------------------------------
WriterStep(w) ==
    \/ \E m \in Machines : Touch(w, m) \/ DestroyRead(w, m)
    \/ \E m \in Machines, to \in States : Commit(w, m, to)
    \/ DestroyRow(w)
    \/ Publish(w)

ManagerStep == RunList \/ (\E m \in Machines : RunEnsure(m)) \/ RunSubscribe \/ RunUpdate

SupStep(i) == DialSucceeds(i) \/ DialFails(i) \/ SessionEnds(i) \/ BackoffEnds(i) \/ SupervisorExits(i)

Next == ManagerStep \/ (\E w \in Writers : WriterStep(w)) \/ (\E i \in Sups : SupStep(i))

Spec == Init /\ [][Next]_vars

\* Goroutines are scheduled. A guest that can be dialled is reached in the end,
\* and a cancelled context ends a session; a healthy session may last for ever.
Fairness ==
    /\ WF_vars(ManagerStep)
    /\ \A w \in Writers : WF_vars(DestroyRow(w) \/ Publish(w))
    /\ \A i \in Sups :
         /\ WF_vars(DialFails(i) \/ BackoffEnds(i) \/ SupervisorExits(i))
         /\ WF_vars(sup[i].cancelled /\ SessionEnds(i))
         /\ SF_vars(DialSucceeds(i))

FairSpec == Spec /\ Fairness

-----------------------------------------------------------------------------
(* Properties.                                                             *)

TypeOK ==
    /\ row \in [Machines -> RowStates]
    /\ writer \in [Writers -> Writer]
    /\ queue \in Seq(Update)
    /\ phase \in {"start", "ensuring", "watching"}
    /\ todo \subseteq Machines
    /\ supervisors \in [Machines -> Sups \cup {None}]
    /\ sup \in [Sups -> Sup]
    /\ \A i \in Sups : sup[i].pc # "free" => sup[i].m \in Machines
    /\ conns \in [Machines -> Sups \cup {None}]
    /\ writes \in 0 .. MaxWrites

\* An entry of Manager.supervisors never outlives its supervisor's usefulness: it
\* belongs to a goroutine of that machine that is neither cancelled nor returning.
\* Were it otherwise, ensure would take a dead supervisor for a live one, and the
\* machine would stay without a channel for as long as it runs.
EntriesServe ==
    \A m \in Machines : supervisors[m] # None =>
        LET s == sup[supervisors[m]] IN s.m = m /\ s.pc \notin {"free", "exit"} /\ ~s.cancelled

\* The channel that requests for a machine are sent over is an open channel to
\* that machine: setConn and clearConn never leave a closed one, or another
\* machine's, behind, however supervisors come and go.
ConnsServe ==
    \A m \in Machines : conns[m] # None =>
        sup[conns[m]].m = m /\ sup[conns[m]].pc = "up"

Serving(m) == {i \in Sups : sup[i].m = m /\ sup[i].pc # "free" /\ ~sup[i].cancelled}

\* "maintains exactly one channel per running machine" (guestctl/conn.go): no
\* machine has two supervisors that mean to go on, each with a channel of its own.
OneSupervisor == \A m \in Machines, i, j \in Sups : i \in Serving(m) /\ j \in Serving(m) => i = j

\* "HasChannel reports whether a live channel exists for the machine": while a
\* supervisor that was not cancelled has its channel up, requests find a channel.
ChannelKnown == \A i \in Sups :
    sup[i].pc = "up" /\ ~sup[i].cancelled => conns[sup[i].m] # None

\* "→ running connects": a machine that stays running has a channel again and
\* again, whatever drops.
ConnectedInTheEnd == \A m \in Machines : <>[](row[m] = "running") => []<>(conns[m] # None)

\* "teardown on stop": a machine that is no longer running, or no longer exists,
\* is not dialled for ever.
TornDown == \A m \in Machines : <>[](row[m] # "running") => <>[](\A i \in Sups : sup[i].m # m)

\* The manager's maps and goroutines fit together, whatever updates are lost, late
\* or reordered and however late cancelled supervisors return.
ChannelsSound == TypeOK /\ EntriesServe /\ ConnsServe
=============================================================================
