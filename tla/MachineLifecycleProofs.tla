----------------------- MODULE MachineLifecycleProofs -----------------------
(***************************************************************************)
(* Proofs about MachineLifecycle, for any set of machines and requests,    *)
(* any operations, thresholds and cap, and under every failure.            *)
(***************************************************************************)
EXTENDS MachineLifecycle, TLAPS

\* The inductive core: types, what a handler carries, what the poller holds.
IInv == TypeOK /\ HandlerInv /\ PollerInv

\* Every target of a legal transition is a state.
LEMMA AllowedStates ==
    ASSUME NEW from \in States, NEW to, CanTransition(from, to)
    PROVE  to \in States
BY DEF CanTransition, allowed, States

\* A transition leaves a well-typed row and event log.
LEMMA TransitionType ==
    ASSUME TypeOK, NEW m \in Machines, NEW from \in States, NEW to \in States,
           Transition(m, from, to)
    PROVE  /\ state' \in [Machines -> RowStates]
           /\ events' \in [Machines -> Seq(Event)]
           /\ guestIP' = guestIP /\ snapshots' = snapshots
<1> DEFINE e == [from |-> from, to |-> to]
<1>1. events \in [Machines -> Seq(Event)] /\ e \in Event
  BY DEF TypeOK, Event
<1> HIDE DEF e
<1>2. Append(events[m], e) \in Seq(Event)
  BY <1>1
<1>3. [events EXCEPT ![m] = Append(@, e)] \in [Machines -> Seq(Event)]
  BY <1>1, <1>2
<1> QED
  BY <1>3 DEF Transition, TypeOK, RowStates, e

\* Deleting a machine leaves well-typed tables.
LEMMA DeleteType ==
    ASSUME TypeOK, NEW m \in Machines, DeleteMachine(m)
    PROVE  /\ state' \in [Machines -> RowStates]
           /\ events' \in [Machines -> Seq(Event)]
           /\ guestIP' \subseteq Machines /\ snapshots' \subseteq Machines
<1>1. << >> \in Seq(Event)
  OBVIOUS
<1> QED
  BY <1>1 DEF DeleteMachine, TypeOK, RowStates

\* A handler that has answered is a well-typed handler.
LEMMA EndedType == Ended \in Request
BY DEF Ended, NewRequest, Request, RequestPc, OpKinds

\* Moving a handler to a known point leaves well-typed handlers.
LEMMA GotoType ==
    ASSUME TypeOK, NEW r \in Requests, NEW pc \in RequestPc, Goto(r, pc)
    PROVE  req' \in [Requests -> Request]
BY EndedType DEF Goto, TypeOK, Request

\* What the node-agent does to its record keeps the record well typed.
LEMMA AgentType ==
    ASSUME TypeOK, NEW m \in Machines,
           \/ AgentEnsure(m) \/ AgentStop(m) \/ AgentDestroy(m)
           \/ FailedCall(AgentEnsure(m)) \/ FailedCall(AgentStop(m))
           \/ FailedCall(AgentDestroy(m))
    PROVE  /\ agent' \in [Machines -> AgentStates]
           /\ frozen' \subseteq Machines /\ booting' \subseteq Machines /\ halting' \subseteq Machines
BY DEF AgentEnsure, AgentStop, AgentDestroy, FailedCall, TypeOK, AgentStates, agentVars

\* The poller waiting for its tickers is well typed.
LEMMA IdlePollType == IdlePoll \in Poll
BY DEF IdlePoll, Poll, PollPc, AgentStates

\* The poller moved on to its next row is well typed.
LEMMA WithoutType ==
    ASSUME TypeOK, NEW m \in Machines, NEW pc \in PollPc
    PROVE  Without(m, pc) \in Poll
BY IdlePollType DEF Without, TypeOK, Poll, IdlePoll, PollPc, AgentStates

\* The poller that has decided what to do with a row is well typed.
LEMMA PlanType ==
    ASSUME TypeOK, NEW m \in Machines, NEW pc \in PollPc, NEW to \in States \cup {"none"},
           NEW snap \in {"present", "absent"}, Plan(m, pc, to, snap)
    PROVE  poll' \in Poll
BY DEF Plan, TypeOK, Poll

-----------------------------------------------------------------------------

\* A step that leaves the poller alone, makes no machine running and adds no
\* snapshot row keeps the poller's invariant.
LEMMA PollerKept ==
    ASSUME PollerInv, TypeOK, poll' = poll,
           \A m \in Machines : state'[m] = "running" => state[m] = "running",
           snapshots' \subseteq snapshots, leftover' = leftover
    PROVE  PollerInv'
BY DEF PollerInv, Settled

\* A transition to anything but running makes no machine running.
LEMMA TransitionNotRunning ==
    ASSUME TypeOK, NEW m \in Machines, NEW from, NEW to, to # "running", Transition(m, from, to)
    PROVE  \A n \in Machines : state'[n] = "running" => state[n] = "running"
BY DEF Transition, TypeOK

\* A transition of the poller is one, or fails and leaves the tables alone.
LEMMA PollTransitionType ==
    ASSUME TypeOK, NEW m \in Machines, NEW from \in States, NEW to \in States,
           PollTransition(m, from, to)
    PROVE  /\ state' \in [Machines -> RowStates]
           /\ events' \in [Machines -> Seq(Event)]
           /\ guestIP' = guestIP /\ snapshots' = snapshots
           /\ \A n \in Machines \ {m} : state'[n] = state[n]
<1>1. CASE Transition(m, from, to)
  BY <1>1, TransitionType DEF Transition, TypeOK
<1>2. CASE UNCHANGED dbVars
  BY <1>2 DEF dbVars, TypeOK
<1> QED BY <1>1, <1>2 DEF PollTransition

\* Deleting a machine makes no machine running and adds no snapshot row.
LEMMA DeleteNotRunning ==
    ASSUME TypeOK, NEW m \in Machines, DeleteMachine(m)
    PROVE  /\ \A n \in Machines : state'[n] = "running" => state[n] = "running"
           /\ snapshots' \subseteq snapshots
BY DEF DeleteMachine, TypeOK

\* A handler that moves to a point where its machine and from-state fit.
LEMMA HandlerMoves ==
    ASSUME TypeOK, HandlerInv, NEW r \in Requests, NEW q, HandlerOK(q),
           req' = [req EXCEPT ![r] = q]
    PROVE  HandlerInv'
BY DEF HandlerInv, TypeOK

\* A handler that has answered carries nothing it could misuse.
LEMMA EndedOK == HandlerOK(Ended)
BY DEF HandlerOK, Ended, NewRequest

\* Going on to a later point of the same operation, or to its end.
LEMMA GotoOK ==
    ASSUME TypeOK, HandlerInv, NEW r \in Requests, NEW pc \in RequestPc, Goto(r, pc),
           pc # "done" => HandlerOK([req[r] EXCEPT !.pc = pc])
    PROVE  HandlerInv'
BY EndedOK, HandlerMoves DEF Goto

\* The arrival of a request.
LEMMA ArriveOK ==
    ASSUME TypeOK, HandlerInv, NEW r \in Requests, NEW op, NEW m \in Machines \cup {NoMachine},
           NEW from \in States \cup {"none"}, NEW pc \in RequestPc, Arrive(r, op, m, from, pc),
           pc # "done" => HandlerOK([op |-> op, pc |-> pc, m |-> m, from |-> from])
    PROVE  HandlerInv' /\ req' \in [Requests -> Request]
<1>1. op \in OpKinds
  BY ConstantsAssumption DEF Arrive
<1>2. HandlerInv'
  BY EndedOK, HandlerMoves DEF Arrive
<1>3. req' \in [Requests -> Request]
  BY <1>1, EndedType DEF Arrive, TypeOK, Request
<1> QED BY <1>2, <1>3

-----------------------------------------------------------------------------

\* A request arrives.
LEMMA SubmitStep ==
    ASSUME IInv, NEW r \in Requests, Submit(r)
    PROVE  IInv'
<1> USE DEF IInv
<1>1. dbVars' = dbVars /\ keys' = keys /\ agentVars' = agentVars /\ pollVars' = pollVars
  BY DEF Submit, CreateCount, StartRead, StopRead, DestroyRead, dbVars, agentVars, pollVars
<1>2. HandlerInv' /\ req' \in [Requests -> Request]
  <2>1. CASE CreateCount(r)
    BY <2>1, ArriveOK DEF CreateCount, RequestPc, HandlerOK
  <2>2. ASSUME NEW m \in Live, NEW op \in {"start", "stop", "destroy"}, NEW pc \in RequestPc,
               Arrive(r, op, m, state[m], pc),
               HandlerOK([op |-> op, pc |-> pc, m |-> m, from |-> state[m]])
        PROVE  HandlerInv' /\ req' \in [Requests -> Request]
    BY <2>2, ArriveOK DEF Live
  <2>3. CASE StartRead(r)
    BY <2>3, <2>2 DEF StartRead, RequestPc, HandlerOK, Live
  <2>4. CASE StopRead(r)
    BY <2>4, <2>2 DEF StopRead, RequestPc, HandlerOK, Live
  <2>5. CASE DestroyRead(r)
    BY <2>5, <2>2 DEF DestroyRead, RequestPc, HandlerOK, Live
  <2> QED BY <2>1, <2>3, <2>4, <2>5 DEF Submit
<1>3. PollerInv'
  BY <1>1, PollerKept DEF dbVars, pollVars
<1> QED BY <1>1, <1>2, <1>3 DEF TypeOK, dbVars, agentVars, pollVars

\* A handler takes a step: it keeps the poller's variables, and its own record
\* moves on with the machine and the from-state it needs next.
LEMMA HandleStep ==
    ASSUME IInv, NEW r \in Requests, Handle(r) \/ Cancel(r)
    PROVE  IInv'
<1> USE DEF IInv
<1> DEFINE m == req[r].m
<1> DEFINE Kept == /\ \A n \in Machines : state'[n] = "running" => state[n] = "running"
                   /\ snapshots' \subseteq snapshots
           Tables == /\ state' \in [Machines -> RowStates]
                     /\ events' \in [Machines -> Seq(Event)]
                     /\ guestIP' \subseteq Machines /\ snapshots' \subseteq Machines
                     /\ keys' \subseteq Machines
           Handlers == HandlerInv' /\ req' \in [Requests -> Request]
           Agents == /\ agent' \in [Machines -> AgentStates]
                     /\ frozen' \subseteq Machines /\ booting' \subseteq Machines
                     /\ halting' \subseteq Machines
<1>1. pollVars' = pollVars
  BY DEF Handle, CreateInsert, CreateDisk, CreateMintKey, CreateProvision, StartTransition,
     EnsureBuild, EnsureCall, EnsureRecord, Fail, StopTransition, StopCall, DestroyCall,
     DestroyKey, DestroyRow, Cancel, pollVars
<1>2. Tables /\ Handlers /\ Agents /\ Kept
  <2>r. req[r] \in Request /\ HandlerOK(req[r])
    BY DEF TypeOK, HandlerInv
  <2>t. dbVars' = dbVars /\ keys' = keys => Tables /\ Kept
    BY DEF TypeOK, dbVars
  <2>a. agentVars' = agentVars => Agents
    BY DEF TypeOK, agentVars
  <2>d. ASSUME DeleteMachine(m), keys' = keys, m \in Machines PROVE Tables /\ Kept
    BY <2>d, DeleteType, DeleteNotRunning DEF TypeOK
  <2>c. ASSUME NEW from \in States, NEW to \in States \ {"running"}, m \in Machines,
               Transition(m, from, to), keys' = keys
        PROVE  Tables /\ Kept
    BY <2>c, TransitionType, TransitionNotRunning DEF TypeOK
  <2>g. ASSUME NEW pc \in RequestPc, Goto(r, pc),
               pc # "done" => HandlerOK([req[r] EXCEPT !.pc = pc])
        PROVE  Handlers
    BY <2>g, GotoType, GotoOK
  <2>1. CASE CreateInsert(r)
    <3>1. PICK n \in Machines :
             /\ state[n] = "none"
             /\ state' = [state EXCEPT ![n] = "requested"]
             /\ req' = [req EXCEPT ![r].m = n, ![r].pc = "disk"]
      BY <2>1 DEF CreateInsert
    <3>2. Tables /\ Kept /\ Agents
      BY <3>1, <2>1, <2>a DEF CreateInsert, TypeOK, RowStates, States
    <3>3. DEFINE q == [req[r] EXCEPT !.m = n, !.pc = "disk"]
    <3>4. q \in Request /\ HandlerOK(q) /\ req' = [req EXCEPT ![r] = q]
      BY <3>1, <2>r DEF Request, RequestPc, HandlerOK, TypeOK
    <3>5. Handlers
      BY <3>4, HandlerMoves DEF TypeOK
    <3> QED BY <3>2, <3>5
  <2>2. CASE CreateDisk(r)
    BY <2>2, <2>r, <2>t, <2>a, <2>d, <2>g DEF CreateDisk, Compensate, At, HandlerOK, RequestPc, Request
  <2>3. CASE CreateMintKey(r)
    BY <2>3, <2>r, <2>t, <2>a, <2>d, <2>g
    DEF CreateMintKey, Compensate, At, HandlerOK, RequestPc, Request, TypeOK, dbVars
  <2>4. CASE CreateProvision(r)
    <3>1. m \in Machines
      BY <2>4, <2>r DEF CreateProvision, At, HandlerOK
    <3>2. CASE Wins(m, "requested", "provisioning")
      <4>1. Tables /\ Kept /\ Agents
        BY <2>4, <3>1, <3>2, <2>c, <2>a DEF CreateProvision, States
      <4> DEFINE q == [req[r] EXCEPT !.pc = "build", !.from = "provisioning"]
      <4>2. q \in Request /\ HandlerOK(q) /\ req' = [req EXCEPT ![r] = q]
        BY <2>4, <3>1, <3>2, <2>r
        DEF CreateProvision, Request, RequestPc, HandlerOK, Booting, States, TypeOK
      <4>3. Handlers
        BY <4>2, HandlerMoves DEF TypeOK
      <4> QED BY <4>1, <4>3
    <3>3. CASE ~Wins(m, "requested", "provisioning")
      BY <2>4, <3>1, <3>3, <2>d, <2>a, <2>g DEF CreateProvision, Compensate, RequestPc
    <3> QED BY <3>2, <3>3
  <2>5. CASE StartTransition(r)
    <3>1. m \in Machines /\ req[r].from \in States
      BY <2>5, <2>r DEF StartTransition, At, HandlerOK, States
    <3>2. Tables /\ Kept /\ Agents
      BY <2>5, <3>1, <2>c, <2>a DEF StartTransition, States
    <3> DEFINE q == [req[r] EXCEPT !.pc = "build", !.from = "starting"]
    <3>3. q \in Request /\ HandlerOK(q)
      BY <3>1, <2>r DEF Request, RequestPc, HandlerOK, Booting, States
    <3>4. CASE req' = [req EXCEPT ![r].pc = "build", ![r].from = "starting"]
      BY <3>2, <3>3, <3>4, HandlerMoves DEF TypeOK
    <3>5. CASE Goto(r, "done")
      BY <3>2, <3>5, <2>g DEF RequestPc
    <3> QED BY <2>5, <3>4, <3>5 DEF StartTransition
  <2>6. CASE EnsureBuild(r)
    BY <2>6, <2>r, <2>t, <2>a, <2>g DEF EnsureBuild, HandlerOK, RequestPc, Request
  <2>7. CASE EnsureCall(r)
    <3>1. m \in Machines
      BY <2>7, <2>r DEF EnsureCall, HandlerOK
    <3>2. Agents
      BY <2>7, <3>1, AgentType DEF EnsureCall
    <3> QED
      BY <2>7, <3>2, <2>r, <2>t, <2>g DEF EnsureCall, HandlerOK, RequestPc, Request
  <2>8. CASE EnsureRecord(r)
    BY <2>8, <2>r, <2>a, <2>g DEF EnsureRecord, RequestPc, TypeOK
  <2>9. CASE Fail(r)
    <3>1. m \in Machines /\ req[r].from \in States
      BY <2>9, <2>r DEF Fail, HandlerOK, Booting, States
    <3> QED
      BY <2>9, <3>1, <2>c, <2>a, <2>g DEF Fail, RequestPc, States
  <2>10. CASE StopTransition(r)
    <3>1. m \in Machines
      BY <2>10, <2>r DEF StopTransition, At, HandlerOK
    <3>2. Tables /\ Kept /\ Agents
      BY <2>10, <3>1, <2>c, <2>a DEF StopTransition, States
    <3> DEFINE q == [req[r] EXCEPT !.pc = "stop", !.from = "hibernating"]
    <3>3. q \in Request /\ HandlerOK(q)
      BY <3>1, <2>r DEF Request, RequestPc, HandlerOK, States
    <3>4. CASE req' = [req EXCEPT ![r].pc = "stop", ![r].from = "hibernating"]
      BY <3>2, <3>3, <3>4, HandlerMoves DEF TypeOK
    <3>5. CASE Goto(r, "done")
      BY <3>2, <3>5, <2>g DEF RequestPc
    <3> QED BY <2>10, <3>4, <3>5 DEF StopTransition
  <2>11. CASE StopCall(r)
    <3>1. m \in Machines
      BY <2>11, <2>r DEF StopCall, At, HandlerOK
    <3>2. Agents
      BY <2>11, <3>1, <2>a, AgentType DEF StopCall
    <3> QED
      BY <2>11, <3>2, <2>r, <2>t, <2>g DEF StopCall, At, HandlerOK, RequestPc, Request
  <2>12. CASE DestroyCall(r)
    <3>1. m \in Machines
      BY <2>12, <2>r DEF DestroyCall, At, HandlerOK
    <3>2. Agents
      BY <2>12, <3>1, AgentType DEF DestroyCall
    <3> QED
      BY <2>12, <3>2, <2>r, <2>t, <2>g DEF DestroyCall, At, HandlerOK, RequestPc, Request
  <2>13. CASE DestroyKey(r)
    BY <2>13, <2>r, <2>a, <2>g DEF DestroyKey, At, HandlerOK, RequestPc, Request, TypeOK, dbVars
  <2>14. CASE DestroyRow(r)
    BY <2>14, <2>r, <2>a, <2>d, <2>g DEF DestroyRow, At, HandlerOK, RequestPc
  <2>15. CASE Cancel(r)
    BY <2>15, <2>t, <2>a, <2>g DEF Cancel, RequestPc
  <2> QED
    BY <2>1, <2>2, <2>3, <2>4, <2>5, <2>6, <2>7, <2>8, <2>9, <2>10, <2>11, <2>12, <2>13,
       <2>14, <2>15 DEF Handle
<1>3. PollerInv'
  BY <1>1, <1>2, PollerKept DEF pollVars
<1>4. TypeOK'
  BY <1>1, <1>2 DEF TypeOK, pollVars
<1> QED BY <1>2, <1>3, <1>4
-----------------------------------------------------------------------------

\* A poller done with a row: whatever the step did to that row's machine, the
\* rows left on the list keep what the invariant says of them.
LEMMA WithoutOK ==
    ASSUME TypeOK, PollerInv, NEW m \in Machines, NEW pc \in PollPc,
           poll' = Without(m, pc),
           \/ pc = "observe" /\ poll.pc \in {"observe", "commit", "retry"}
           \/ pc \in {"miss", "check"} /\ poll.pc = pc,
           \A n \in Machines \ {m} : state'[n] = "running" => state[n] = "running"
    PROVE  PollerInv' /\ poll' \in Poll
<1>1. poll' \in Poll
  BY WithoutType
<1>2. CASE poll' = IdlePoll
  BY <1>1, <1>2 DEF PollerInv, IdlePoll
<1>3. CASE poll' # IdlePoll
  <2> DEFINE rest == [poll.rows EXCEPT ![m] = "none"]
  <2>1. poll'.pc = pc /\ poll'.rows = rest
    BY <1>3 DEF Without, IdlePoll
  <2>2. \A n \in Machines : rest[n] # "none" => n # m /\ rest[n] = poll.rows[n]
    BY DEF TypeOK, Poll
  <2>3. \A n \in Machines : rest[n] \in {"none", poll.rows[n]}
    BY DEF TypeOK, Poll
  <2> HIDE DEF rest
  <2> QED BY <1>1, <2>1, <2>2, <2>3 DEF PollerInv
<1> QED BY <1>1, <1>2, <1>3

\* The fast tick takes a step.
LEMMA AdvanceStep ==
    ASSUME IInv, Advance
    PROVE  IInv'
<1> USE DEF IInv
<1>p. poll \in Poll
  BY DEF TypeOK
<1>1. CASE AdvanceTransitional
  <2>1. poll' \in Poll
    BY <1>1, IdlePollType DEF AdvanceTransitional, Listed, IdlePoll, Poll, PollPc, Transitional,
       States
  <2>2. PollerInv'
    <3>1. poll'.pc = "observe" /\ poll'.rows = Listed(Transitional) /\ state' = state
      BY <1>1 DEF AdvanceTransitional, IdlePoll, dbVars
    <3>2. \A m \in Machines : poll'.rows[m] # "none" =>
            poll'.rows[m] \in Transitional /\ state'[m] = poll'.rows[m]
      BY <3>1 DEF Listed
    <3>3. "running" \notin Transitional
      BY DEF Transitional
    <3> QED BY <3>1, <3>2, <3>3 DEF PollerInv
  <2>3. UNCHANGED <<state, guestIP, snapshots, events, keys, req, agent, frozen, booting,
                    halting, blip, retries, misses, leftover>>
    BY <1>1 DEF AdvanceTransitional, dbVars, agentVars
  <2> QED BY <2>1, <2>2, <2>3 DEF TypeOK, HandlerInv
<1>2. CASE RetryEnsure
  <2>1. poll.m \in Machines
    BY <1>2 DEF RetryEnsure, PollerInv
  <2>2. UNCHANGED <<state, guestIP, snapshots, events, keys, req, blip, retries, misses, leftover>>
    BY <1>2 DEF RetryEnsure, dbVars
  <2>3. PollerInv' /\ poll' \in Poll
    BY <1>2, <2>1, <2>2, WithoutOK DEF RetryEnsure, PollPc
  <2>4. /\ agent' \in [Machines -> AgentStates]
        /\ frozen' \subseteq Machines /\ booting' \subseteq Machines /\ halting' \subseteq Machines
    BY <1>2, <2>1, AgentType DEF RetryEnsure, agentVars, TypeOK
  <2> QED BY <2>2, <2>3, <2>4 DEF TypeOK, HandlerInv
<1>3. CASE PollRecord
  <2>1. poll.m \in Machines
    BY <1>3 DEF PollRecord, PollerInv
  <2>2. guestIP' \subseteq Machines /\ snapshots' \subseteq Machines /\ leftover' \subseteq Machines
    BY <1>3, <2>1 DEF PollRecord, TypeOK
  <2>3. poll' \in Poll
    BY <1>3, <1>p DEF PollRecord, Poll, PollPc
  <2>4. UNCHANGED <<state, events, keys, req, agent, frozen, booting, halting, blip, retries, misses>>
    BY <1>3 DEF PollRecord, agentVars
  <2>5. /\ poll'.pc = "commit" /\ poll'.rows = poll.rows /\ poll'.m = poll.m
        /\ poll'.to = poll.to
    BY <1>3, <1>p DEF PollRecord, Poll
  <2>6. poll.to = "running" => poll.m \notin Settled'
    BY <1>3 DEF PollRecord, Settled
  <2>7. PollerInv'
    BY <1>3, <2>4, <2>5, <2>6 DEF PollRecord, PollerInv
  <2> QED BY <2>2, <2>3, <2>4, <2>7 DEF TypeOK, HandlerInv
<1>4. CASE PollCommit
  <2>1. /\ poll.m \in Machines /\ poll.rows[poll.m] \in Transitional
        /\ poll.to \in {"running", "stopped", "error"}
    BY <1>4 DEF PollCommit, PollerInv
  <2>2. /\ state' \in [Machines -> RowStates]
        /\ events' \in [Machines -> Seq(Event)]
        /\ guestIP' = guestIP /\ snapshots' = snapshots
        /\ \A n \in Machines \ {poll.m} : state'[n] = state[n]
    BY <1>4, <2>1, PollTransitionType DEF PollCommit, Transitional, States
  <2>3. leftover' = leftover
    BY <1>4 DEF PollCommit
  <2>4. PollerInv' /\ poll' \in Poll
    BY <1>4, <2>1, <2>2, WithoutOK DEF PollCommit, PollPc
  <2>5. misses' \in [Machines -> Nat]
    BY <1>4, <2>1 DEF PollCommit, TypeOK
  <2>6. UNCHANGED <<keys, req, agent, frozen, booting, halting, blip, retries>>
    BY <1>4 DEF PollCommit, agentVars
  <2> QED BY <2>2, <2>3, <2>4, <2>5, <2>6 DEF TypeOK, HandlerInv
<1>5. ASSUME NEW m \in Machines, AdvanceUnknown(m) \/ AdvanceUnreachable(m) \/ AdvanceAnswered(m)
      PROVE  IInv'
  <2>1. UNCHANGED <<state, guestIP, snapshots, events, keys, req, agent, frozen, booting,
                    halting, blip, misses, leftover>>
    BY <1>5 DEF AdvanceUnknown, AdvanceUnreachable, AdvanceAnswered, dbVars, agentVars
  <2>2. Observing(m)
    BY <1>5 DEF AdvanceUnknown, AdvanceUnreachable, AdvanceAnswered
  <2>3. retries' \in [Machines -> 0 .. MaxStartRetries - 1]
    <3>1. \A n \in Machines : retries[n] \in 0 .. MaxStartRetries - 1
      BY DEF TypeOK
    <3>2. CASE UNCHANGED retries
      BY <3>2 DEF TypeOK
    <3>3. CASE ResetRetries(m)
      BY <3>3, ConstantsAssumption DEF ResetRetries, TypeOK
    <3>4. CASE retries' = [retries EXCEPT ![m] = retries[m] + 1] /\ retries[m] + 1 < MaxStartRetries
      BY <3>4, <3>1, ConstantsAssumption DEF TypeOK
    <3> QED BY <1>5, <3>2, <3>3, <3>4 DEF AdvanceUnknown, AdvanceUnreachable, AdvanceAnswered
  <2>4. ASSUME NEW pc \in {"record", "commit", "retry"}, NEW to \in States \cup {"none"},
               NEW snap \in {"present", "absent"}, Plan(m, pc, to, snap),
               pc # "retry" => to \in {"running", "stopped", "error"},
               pc = "commit" => to # "running"
        PROVE  PollerInv' /\ poll' \in Poll
    <3>1. poll' \in Poll
      BY <2>4, PlanType DEF PollPc
    <3>2. poll'.pc = pc /\ poll'.m = m /\ poll'.to = to /\ poll'.rows = poll.rows
      BY <2>4, <1>p DEF Plan, Poll
    <3> QED BY <3>1, <3>2, <2>1, <2>2, <2>4 DEF PollerInv, Observing
  <2>5. PollerInv' /\ poll' \in Poll
    <3>1. CASE AdvanceUnknown(m)
      BY <3>1, <2>4 DEF AdvanceUnknown, States
    <3>2. CASE AdvanceUnreachable(m)
      BY <3>2, <2>4 DEF AdvanceUnreachable, States
    <3>3. CASE AdvanceAnswered(m)
      <4> DEFINE to == Verdict(poll.rows[m], agent[m])
      <4>1. to \in {"none", "running", "stopped", "error"}
        BY DEF Verdict
      <4>2. CASE to = "none"
        <5>1. poll' = Without(m, "observe")
          BY <3>3, <4>2 DEF AdvanceAnswered
        <5> QED BY <5>1, <2>1, <2>2, WithoutOK DEF Observing, PollPc
      <4>3. CASE to = "error"
        <5>1. Plan(m, "commit", "error", "absent")
          BY <3>3, <4>3 DEF AdvanceAnswered
        <5> QED BY <5>1, <2>4 DEF States
      <4>4. CASE to \in {"running", "stopped"}
        <5>1. \E snap \in {"present", "absent"} : Plan(m, "record", to, snap)
          BY <3>3, <4>4 DEF AdvanceAnswered
        <5> QED BY <5>1, <4>4, <2>4 DEF States
      <4> QED BY <4>1, <4>2, <4>3, <4>4
    <3> QED BY <1>5, <3>1, <3>2, <3>3
  <2> QED BY <2>1, <2>3, <2>5 DEF TypeOK, HandlerInv
<1> QED BY <1>1, <1>2, <1>3, <1>4, <1>5 DEF Advance

\* The slow sweep takes a step.
LEMMA SweepStep ==
    ASSUME IInv, Sweep
    PROVE  IInv'
<1> USE DEF IInv
<1>p. poll \in Poll
  BY DEF TypeOK
<1>1. CASE SweepRunning
  <2>1. poll' \in Poll
    BY <1>1, IdlePollType DEF SweepRunning, Listed, IdlePoll, Poll, PollPc, States
  <2>2. PollerInv'
    <3>1. poll'.pc = "list" /\ poll'.rows = Listed({"running"})
      BY <1>1 DEF SweepRunning, IdlePoll
    <3> QED BY <3>1 DEF Listed, PollerInv
  <2>3. UNCHANGED <<state, guestIP, snapshots, events, keys, req, agent, frozen, booting,
                    halting, blip, retries, misses, leftover>>
    BY <1>1 DEF SweepRunning, dbVars, agentVars
  <2> QED BY <2>1, <2>2, <2>3 DEF TypeOK, HandlerInv
<1>2. CASE SweepList
  <2>1. poll' \in Poll
    <3>1. [m \in Machines |-> Reported(agent[m])] \in [Machines -> AgentStates]
      BY DEF Reported, AgentStates
    <3>2. CASE poll' = [poll EXCEPT !.pc = "check", !.obs = [m \in Machines |-> Reported(agent[m])]]
      BY <3>1, <3>2, <1>p DEF Poll, PollPc
    <3>3. CASE poll' = [poll EXCEPT !.pc = "miss"]
      BY <3>3, <1>p DEF Poll, PollPc
    <3> QED BY <1>2, <3>2, <3>3 DEF SweepList
  <2>2. poll'.pc \in {"check", "miss"} /\ poll'.rows = poll.rows /\ poll.pc = "list"
    BY <1>2, <1>p DEF SweepList, Poll
  <2>3. PollerInv'
    BY <2>2 DEF PollerInv
  <2>4. UNCHANGED <<state, guestIP, snapshots, events, keys, req, agent, frozen, booting,
                    halting, blip, retries, misses, leftover>>
    BY <1>2 DEF SweepList, dbVars, agentVars
  <2> QED BY <2>1, <2>3, <2>4 DEF TypeOK, HandlerInv
<1>3. ASSUME NEW m \in Machines, SweepMiss(m) \/ SweepCheck(m)
      PROVE  IInv'
  <2>1. UNCHANGED <<keys, req, agent, frozen, booting, halting, retries, leftover>>
    BY <1>3 DEF SweepMiss, SweepCheck, agentVars
  <2>2. Transition(m, "running", "error") \/ UNCHANGED <<state, guestIP, snapshots, events>>
    BY <1>3 DEF SweepMiss, SweepCheck, PollTransition, dbVars
  <2>3. /\ state' \in [Machines -> RowStates]
        /\ events' \in [Machines -> Seq(Event)]
        /\ guestIP' = guestIP /\ snapshots' = snapshots
    BY <2>2, TransitionType DEF States, TypeOK
  <2>4. \A n \in Machines : state'[n] = "running" => state[n] = "running"
    BY <2>2, TransitionNotRunning
  <2>5. PollerInv' /\ poll' \in Poll
    BY <1>3, <2>4, WithoutOK DEF SweepMiss, SweepCheck, PollPc
  <2>6. /\ blip' \in [Machines -> 0 .. BlipThreshold - 1]
        /\ misses' \in [Machines -> Nat]
    <3>1. /\ blip[m] \in 0 .. BlipThreshold - 1 /\ misses[m] \in Nat
          /\ 0 \in 0 .. BlipThreshold - 1
      BY ConstantsAssumption DEF TypeOK
    <3>2. CASE SweepCheck(m)
      BY <3>1, <3>2 DEF SweepCheck, TypeOK
    <3>3. CASE SweepMiss(m)
      <4>1. (IF blip[m] + 1 >= BlipThreshold THEN 0 ELSE blip[m] + 1) \in 0 .. BlipThreshold - 1
        BY <3>1, ConstantsAssumption
      <4>2. (IF blip[m] + 1 >= BlipThreshold THEN 0 ELSE misses[m] + 1) \in Nat
        BY <3>1
      <4> QED BY <3>3, <4>1, <4>2 DEF SweepMiss, TypeOK
    <3> QED BY <1>3, <3>2, <3>3
  <2> QED BY <2>1, <2>3, <2>5, <2>6 DEF TypeOK, HandlerInv
<1> QED BY <1>1, <1>2, <1>3 DEF Sweep

\* The agent's goroutines, its restart and its amnesia touch only its record.
LEMMA AgentStepOK ==
    ASSUME IInv, NEW m \in Machines, AgentStep(m) \/ AgentLosesVM(m) \/ AgentForgets(m)
    PROVE  IInv'
<1> USE DEF IInv
<1>1. UNCHANGED <<state, guestIP, snapshots, events, keys, req, poll, blip, retries, misses, leftover>>
  BY DEF AgentStep, AgentBoot, AgentBootFails, AgentFinishStop, AgentLosesVM, AgentForgets,
     dbVars, pollVars
<1>2. /\ agent' \in [Machines -> AgentStates]
      /\ frozen' \subseteq Machines /\ booting' \subseteq Machines /\ halting' \subseteq Machines
  BY DEF AgentStep, AgentBoot, AgentBootFails, AgentFinishStop, AgentLosesVM, AgentForgets,
     TypeOK, AgentStates
<1>3. PollerInv'
  BY <1>1, PollerKept
<1> QED BY <1>1, <1>2, <1>3 DEF TypeOK, HandlerInv

\* A restart of the control plane forgets every goroutine and counter.
LEMMA CrashStep ==
    ASSUME IInv, Crash
    PROVE  IInv'
<1> USE DEF IInv
<1>1. UNCHANGED <<state, guestIP, snapshots, events, keys, agent, frozen, booting, halting,
                  leftover>>
  BY DEF Crash, dbVars, agentVars
<1>2. req' \in [Requests -> Request] /\ HandlerInv'
  BY EndedType, EndedOK DEF Crash, TypeOK, HandlerInv
<1>3. poll' \in Poll /\ PollerInv'
  BY IdlePollType DEF Crash, PollerInv, IdlePoll
<1>4. /\ blip' \in [Machines -> 0 .. BlipThreshold - 1]
      /\ retries' \in [Machines -> 0 .. MaxStartRetries - 1]
      /\ misses' \in [Machines -> Nat]
  BY ConstantsAssumption DEF Crash
<1> QED BY <1>1, <1>2, <1>3, <1>4 DEF TypeOK

\* The core invariant holds initially.
LEMMA InitOK == Init => IInv
<1> SUFFICES ASSUME Init PROVE IInv
  OBVIOUS
<1>1. NewRequest \in Request /\ HandlerOK(NewRequest)
  BY DEF NewRequest, Request, RequestPc, HandlerOK
<1>2. HandlerInv
  BY <1>1 DEF Init, HandlerInv
<1>3. PollerInv
  BY DEF Init, IdlePoll, PollerInv
<1>4. << >> \in Seq(Event) /\ 0 \in 0 .. BlipThreshold - 1 /\ 0 \in 0 .. MaxStartRetries - 1
  BY ConstantsAssumption
<1>5. TypeOK
  BY <1>1, <1>4, IdlePollType DEF Init, TypeOK, RowStates, AgentStates
<1> QED BY <1>2, <1>3, <1>5 DEF IInv

\* Every step keeps the core invariant.
LEMMA NextOK == IInv /\ [Next]_vars => IInv'
<1> SUFFICES ASSUME IInv, [Next]_vars PROVE IInv'
  OBVIOUS
<1>1. CASE UNCHANGED vars
  BY <1>1 DEF vars, dbVars, agentVars, pollVars, IInv, TypeOK, HandlerInv, PollerInv,
     Settled
<1>2. CASE Next
  BY <1>2, SubmitStep, HandleStep, AdvanceStep, SweepStep, CrashStep, AgentStepOK DEF Next
<1> QED BY <1>1, <1>2

\* The core invariant holds throughout.
THEOREM CoreInvariant == Spec => []IInv
BY InitOK, NextOK, PTL DEF Spec

\* Every row, audit event, handler, poller state and counter keeps its type, for
\* any number of machines and requests and under every failure: the counters of
\* the poller never reach the threshold that resets them.
THEOREM TypeCorrect == Spec => []TypeOK
<1>1. IInv => TypeOK
  BY DEF IInv
<1> QED BY <1>1, CoreInvariant, PTL

\* The poller (poller.go) acts on the rows it listed: while it does, none of its
\* transitional machines is running by another's hand, and it makes a machine
\* running only after its snapshot row is gone or the statement that removes it
\* has failed.
THEOREM PollerKnows == Spec => []PollerInv
<1>1. IInv => PollerInv
  BY DEF IInv
<1> QED BY <1>1, CoreInvariant, PTL

\* Both: tables and counters keep their types, and what the poller holds is still
\* true when it acts on it.
THEOREM PollerConsistent == Spec => []Consistent
BY TypeCorrect, PollerKnows, PTL DEF Consistent

-----------------------------------------------------------------------------
(* Running machines and snapshots.  Only the poller makes a machine        *)
(* running, and only the poller adds a snapshot row: the core invariant    *)
(* says what it knows when it does either.                                 *)

\* A step that makes no machine running and adds no snapshot row is harmless.
LEMMA SnapshotKept ==
    ASSUME RunningSnapshotIsLeftover, snapshots' \subseteq snapshots, leftover' = leftover,
           \A m \in Machines : state'[m] = "running" => state[m] = "running"
    PROVE  RunningSnapshotIsLeftover'
BY DEF RunningSnapshotIsLeftover, Settled

\* No step of a handler makes a machine running or adds a snapshot row, and
\* none is a statement of the poller.
LEMMA HandlerNotRunning ==
    ASSUME IInv, NEW r \in Requests, Submit(r) \/ Handle(r) \/ Cancel(r)
    PROVE  /\ \A n \in Machines : state'[n] = "running" => state[n] = "running"
           /\ snapshots' \subseteq snapshots /\ leftover' = leftover
<1> USE DEF IInv
<1> DEFINE m == req[r].m
           Goal == /\ \A n \in Machines : state'[n] = "running" => state[n] = "running"
                   /\ snapshots' \subseteq snapshots
<1>p. leftover' = leftover
  BY DEF Submit, CreateCount, StartRead, StopRead, DestroyRead, Handle, CreateInsert, CreateDisk,
     CreateMintKey, CreateProvision, StartTransition, EnsureBuild, EnsureCall, EnsureRecord, Fail,
     StopTransition, StopCall, DestroyCall, DestroyKey, DestroyRow, Cancel, pollVars
<1>r. HandlerOK(req[r])
  BY DEF HandlerInv
<1>u. UNCHANGED <<state, snapshots>> => Goal
  OBVIOUS
<1>t. ASSUME NEW from, NEW to, to # "running", Transition(m, from, to), m \in Machines
      PROVE  Goal
  BY <1>t, TransitionNotRunning DEF Transition
<1>d. DeleteMachine(m) /\ m \in Machines => Goal
  BY DeleteNotRunning
<1>1. CASE Submit(r) \/ Cancel(r) \/ EnsureBuild(r) \/ EnsureCall(r) \/ EnsureRecord(r)
           \/ StopCall(r) \/ DestroyCall(r) \/ DestroyKey(r)
  BY <1>p, <1>1, <1>u DEF Submit, CreateCount, StartRead, StopRead, DestroyRead, Cancel, EnsureBuild,
     EnsureCall, EnsureRecord, StopCall, DestroyCall, DestroyKey, dbVars
<1>2. CASE CreateInsert(r)
  BY <1>p, <1>2 DEF CreateInsert, TypeOK
<1>3. CASE CreateDisk(r) \/ CreateMintKey(r) \/ DestroyRow(r)
  BY <1>p, <1>3, <1>r, <1>u, <1>d DEF CreateDisk, CreateMintKey, DestroyRow, Compensate, At, HandlerOK,
     dbVars
<1>4. CASE CreateProvision(r)
  BY <1>p, <1>4, <1>r, <1>t, <1>d DEF CreateProvision, Compensate, At, HandlerOK
<1>5. CASE StartTransition(r) \/ StopTransition(r) \/ Fail(r)
  BY <1>p, <1>5, <1>r, <1>t DEF StartTransition, StopTransition, Fail, At, HandlerOK
<1> QED BY <1>p, <1>1, <1>2, <1>3, <1>4, <1>5 DEF Handle

\* A running machine has a snapshot row only where the statement that should have
\* removed it failed (toRunning logs that and goes on), although the row is written
\* before the transition is won: the write of toStopped lands on a machine that cannot
\* have become running since it was listed, and toRunning deletes the row first.
THEOREM SnapshotRowsExplained == Spec => []RunningSnapshotIsLeftover
<1>1. Init => RunningSnapshotIsLeftover
  BY DEF Init, RunningSnapshotIsLeftover
<1>2. IInv /\ RunningSnapshotIsLeftover /\ [Next]_vars => RunningSnapshotIsLeftover'
  <2> SUFFICES ASSUME IInv, RunningSnapshotIsLeftover, [Next]_vars PROVE RunningSnapshotIsLeftover'
    OBVIOUS
  <2> USE DEF IInv
  <2>1. CASE UNCHANGED <<state, snapshots, leftover>>
    BY <2>1 DEF RunningSnapshotIsLeftover, Settled
  <2>2. ASSUME NEW r \in Requests, Submit(r) \/ Handle(r) \/ Cancel(r)
        PROVE  RunningSnapshotIsLeftover'
    BY <2>2, HandlerNotRunning, SnapshotKept
  <2>3. CASE PollRecord
    <3>1. state' = state /\ state[poll.m] # "running"
      BY <2>3 DEF PollRecord, PollerInv
    <3>2. Settled' \subseteq Settled \cup {poll.m}
      BY <2>3 DEF PollRecord, Settled
    <3> QED BY <3>1, <3>2 DEF RunningSnapshotIsLeftover
  <2>4. CASE PollCommit
    <3>1. PollTransition(poll.m, poll.rows[poll.m], poll.to) /\ poll.m \in Machines
      BY <2>4 DEF PollCommit, PollerInv
    <3>2. UNCHANGED <<snapshots, leftover>>
      BY <2>4, <3>1 DEF PollCommit, PollTransition, Transition, dbVars
    <3>3. state'[poll.m] = "running" => state[poll.m] = "running" \/ poll.to = "running"
      BY <3>1 DEF PollTransition, Transition, TypeOK, dbVars
    <3>4. \A n \in Machines \ {poll.m} : state'[n] = state[n]
      BY <3>1 DEF PollTransition, Transition, TypeOK, dbVars
    <3>5. poll.to = "running" => poll.m \notin Settled
      BY <2>4 DEF PollCommit, PollerInv
    <3> QED BY <3>2, <3>3, <3>4, <3>5 DEF RunningSnapshotIsLeftover, Settled
  <2>5. ASSUME NEW m \in Machines, SweepMiss(m) \/ SweepCheck(m)
        PROVE  RunningSnapshotIsLeftover'
    <3>1. leftover' = leftover /\ (Transition(m, "running", "error") \/ UNCHANGED dbVars)
      BY <2>5 DEF SweepMiss, SweepCheck, PollTransition
    <3>2. CASE UNCHANGED dbVars
      BY <2>1, <3>1, <3>2 DEF dbVars
    <3>3. CASE Transition(m, "running", "error")
      BY <3>1, <3>3, TransitionNotRunning, SnapshotKept DEF Transition
    <3> QED BY <3>1, <3>2, <3>3
  <2>6. CASE Next
    <3>1. ASSUME NEW m \in Machines,
                 \/ AdvanceUnknown(m) \/ AdvanceUnreachable(m) \/ AdvanceAnswered(m)
                 \/ AgentStep(m) \/ AgentLosesVM(m) \/ AgentForgets(m)
          PROVE  RunningSnapshotIsLeftover'
      BY <3>1, <2>1 DEF AdvanceUnknown, AdvanceUnreachable, AdvanceAnswered, AgentStep, AgentBoot,
         AgentBootFails, AgentFinishStop, AgentLosesVM, AgentForgets, dbVars, pollVars
    <3>2. CASE AdvanceTransitional \/ RetryEnsure \/ SweepRunning \/ SweepList \/ Crash
      BY <3>2, <2>1 DEF AdvanceTransitional, RetryEnsure, SweepRunning, SweepList, Crash, dbVars
    <3> QED BY <2>2, <2>3, <2>4, <2>5, <2>6, <3>1, <3>2 DEF Next, Advance, Sweep
  <2> QED BY <2>1, <2>6 DEF vars, dbVars, pollVars
<1> QED BY <1>1, <1>2, CoreInvariant, PTL DEF Spec

\* No statement about a snapshot row has failed.
NoLeftover == leftover = {}

\* Without failing statements a running machine therefore has no snapshot row at all.
THEOREM RunningWithoutSnapshot == "write" \notin Faults => (Spec => []RunningHasNoSnapshot)
<1> SUFFICES ASSUME "write" \notin Faults PROVE Spec => []RunningHasNoSnapshot
  OBVIOUS
<1>1. Init => NoLeftover
  BY DEF Init, NoLeftover
<1>2. NoLeftover /\ [Next]_vars => NoLeftover'
  <2> SUFFICES ASSUME NoLeftover, [Next]_vars PROVE NoLeftover'
    OBVIOUS
  <2>1. CASE PollRecord
    BY <2>1 DEF PollRecord, NoLeftover
  <2>2. ASSUME NEW r \in Requests, Submit(r) \/ Handle(r) \/ Cancel(r) PROVE leftover' = leftover
    BY <2>2 DEF Submit, CreateCount, StartRead, StopRead, DestroyRead, Handle, CreateInsert,
       CreateDisk, CreateMintKey, CreateProvision, StartTransition, EnsureBuild, EnsureCall,
       EnsureRecord, Fail, StopTransition, StopCall, DestroyCall, DestroyKey, DestroyRow, Cancel,
       pollVars
  <2>3. ASSUME NEW m \in Machines,
               \/ AdvanceUnknown(m) \/ AdvanceUnreachable(m) \/ AdvanceAnswered(m)
               \/ SweepMiss(m) \/ SweepCheck(m)
               \/ AgentStep(m) \/ AgentLosesVM(m) \/ AgentForgets(m)
        PROVE  leftover' = leftover
    BY <2>3 DEF AdvanceUnknown, AdvanceUnreachable, AdvanceAnswered, SweepMiss, SweepCheck,
       AgentStep, AgentBoot, AgentBootFails, AgentFinishStop, AgentLosesVM, AgentForgets, pollVars
  <2>4. CASE AdvanceTransitional \/ RetryEnsure \/ PollCommit \/ SweepRunning \/ SweepList \/ Crash
    BY <2>4 DEF AdvanceTransitional, RetryEnsure, PollCommit, SweepRunning, SweepList, Crash, NoLeftover
  <2>5. CASE UNCHANGED vars
    BY <2>5 DEF vars, pollVars, NoLeftover
  <2> QED BY <2>1, <2>2, <2>3, <2>4, <2>5 DEF Next, Advance, Sweep, NoLeftover
<1>3. NoLeftover /\ RunningSnapshotIsLeftover => RunningHasNoSnapshot
  BY DEF RunningSnapshotIsLeftover, RunningHasNoSnapshot, Settled, NoLeftover
<1> QED BY <1>1, <1>2, <1>3, SnapshotRowsExplained, PTL DEF Spec

-----------------------------------------------------------------------------
(* The abstract store.  AuditTrail is inductive once the log of a row to   *)
(* come is known empty.                                                    *)

Unlogged == \A m \in Machines : state[m] = "none" => events[m] = <<>>

\* The log of one machine, with its state, is a legal path.
Path(log, st) ==
    /\ st = IF log = <<>> THEN "requested" ELSE log[Len(log)].to
    /\ \A i \in 1 .. Len(log) :
         /\ Rows!CanTransition(log[i].from, log[i].to)
         /\ log[i].from = IF i = 1 THEN "requested" ELSE log[i - 1].to

\* Appending a legal transition out of the current state extends the path.
LEMMA PathExtends ==
    ASSUME NEW log \in Seq(Rows!Event), NEW st \in Rows!States, NEW to \in Rows!States, Path(log, st),
           Rows!CanTransition(st, to)
    PROVE  Path(Append(log, [from |-> st, to |-> to]), to)
<1> DEFINE e == [from |-> st, to |-> to]
           new == Append(log, e)
<1>0. e \in Rows!Event /\ e.from = st /\ e.to = to
  BY DEF Rows!Event
<1> HIDE DEF e
<1>1. /\ new \in Seq(Rows!Event) /\ Len(new) = Len(log) + 1 /\ new[Len(log) + 1] = e
      /\ \A i \in 1 .. Len(log) : new[i] = log[i]
      /\ Len(log) \in Nat
  BY <1>0
<1>2. new # << >>
  BY <1>1
<1> HIDE DEF new
<1>3. to = new[Len(new)].to
  BY <1>0, <1>1
<1>4. ASSUME NEW i \in 1 .. Len(new)
      PROVE  /\ Rows!CanTransition(new[i].from, new[i].to)
             /\ new[i].from = IF i = 1 THEN "requested" ELSE new[i - 1].to
  <2>1. CASE i \in 1 .. Len(log)
    <3>1. i # 1 => i - 1 \in 1 .. Len(log)
      BY <2>1, <1>1
    <3> QED BY <2>1, <3>1, <1>1 DEF Path
  <2>2. CASE i = Len(log) + 1
    <3>1. new[i].from = st /\ new[i].to = to
      BY <2>2, <1>0, <1>1
    <3>2. CASE log = << >>
      BY <3>1, <3>2, <2>2 DEF Path
    <3>3. CASE log # << >>
      <4>1. i # 1 /\ i - 1 = Len(log) /\ Len(log) \in 1 .. Len(log)
        BY <3>3, <2>2, <1>1
      <4> QED BY <3>1, <3>3, <4>1, <1>1 DEF Path
    <3> QED BY <3>2, <3>3
  <2> QED BY <2>1, <2>2, <1>1
<1> QED BY <1>2, <1>3, <1>4 DEF Path, new, e

\* Every store that moves rows this way keeps an exact audit
\* trail, however many machines there are and in whatever order they move.
THEOREM AuditTrailHolds == Rows!Spec => []Rows!AuditTrail
<1> DEFINE Inv == Rows!TypeOK /\ Unlogged /\ Rows!AuditTrail
<1>a. Rows!AuditTrail <=> \A m \in Machines : state[m] \in Rows!States => Path(events[m], state[m])
  BY DEF Rows!AuditTrail, Path
<1>1. Rows!Init => Inv
  <2>1. << >> \in Seq(Rows!Event)
    OBVIOUS
  <2> QED BY <2>1 DEF Rows!Init, Rows!TypeOK, Rows!RowStates, Unlogged, Rows!AuditTrail, Rows!States
<1>2. Inv /\ [Rows!Next]_(Rows!rows) => Inv'
  <2> SUFFICES ASSUME Inv, [Rows!Next]_(Rows!rows) PROVE Inv'
    OBVIOUS
  <2>a. Rows!AuditTrail' <=> \A m \in Machines : state'[m] \in Rows!States => Path(events'[m], state'[m])
    BY DEF Rows!AuditTrail, Path
  <2>1. CASE UNCHANGED Rows!rows
    BY <2>1 DEF Rows!rows, Rows!TypeOK, Unlogged, Rows!AuditTrail
  <2>2. ASSUME NEW m \in Machines, Rows!Insert(m) PROVE Inv'
    <3>1. events[m] = << >> /\ events' = events
      BY <2>2 DEF Rows!Insert, Unlogged
    <3>2. Path(<< >>, "requested")
      BY DEF Path
    <3>3. \A n \in Machines : IF n = m THEN state'[n] = "requested" ELSE state'[n] = state[n]
      BY <2>2 DEF Rows!Insert, Rows!TypeOK
    <3>4. Rows!AuditTrail'
      BY <3>1, <3>2, <3>3, <1>a, <2>a
    <3> QED BY <3>1, <3>3, <3>4, <2>2 DEF Rows!Insert, Rows!TypeOK, Unlogged, Rows!RowStates, Rows!States
  <2>3. ASSUME NEW m \in Machines, NEW to \in Rows!States, Rows!Move(m, to) PROVE Inv'
    <3> DEFINE e == [from |-> state[m], to |-> to]
    <3>1. e \in Rows!Event /\ state[m] \in Rows!States
      BY <2>3 DEF Rows!Move, Rows!Event
    <3>2. Append(events[m], e) \in Seq(Rows!Event)
      BY <3>1 DEF Rows!TypeOK
    <3>3. Path(Append(events[m], e), to)
      BY <2>3, <1>a, PathExtends DEF Rows!Move, Rows!TypeOK
    <3> HIDE DEF e
    <3>4. \A n \in Machines : /\ state'[n] = IF n = m THEN to ELSE state[n]
                             /\ events'[n] = IF n = m THEN Append(events[m], e) ELSE events[n]
      BY <2>3 DEF Rows!Move, Rows!TypeOK, e
    <3>5. Rows!TypeOK'
      BY <3>2, <2>3 DEF Rows!Move, Rows!TypeOK, Rows!RowStates, e
    <3>6. Unlogged'
      BY <3>4 DEF Unlogged, Rows!States
    <3>7. Rows!AuditTrail'
      BY <3>3, <3>4, <1>a, <2>a
    <3> QED BY <3>5, <3>6, <3>7
  <2>4. ASSUME NEW m \in Machines, Rows!Delete(m) PROVE Inv'
    <3>1. << >> \in Seq(Rows!Event)
      OBVIOUS
    <3>2. \A n \in Machines : /\ state'[n] = IF n = m THEN "deleted" ELSE state[n]
                             /\ events'[n] = IF n = m THEN << >> ELSE events[n]
      BY <2>4 DEF Rows!Delete, Rows!TypeOK
    <3>3. Rows!TypeOK'
      BY <3>1, <2>4 DEF Rows!Delete, Rows!TypeOK, Rows!RowStates
    <3>4. Unlogged'
      BY <3>2 DEF Unlogged
    <3>5. Rows!AuditTrail'
      BY <3>2, <1>a, <2>a DEF Rows!States
    <3> QED BY <3>3, <3>4, <3>5
  <2> QED BY <2>1, <2>2, <2>3, <2>4 DEF Rows!Next
<1>3. Inv => Rows!AuditTrail
  OBVIOUS
<1> QED BY <1>1, <1>2, <1>3, PTL DEF Rows!Spec

-----------------------------------------------------------------------------
(* The tables implement MachineRows: every step of every actor is a step   *)
(* of the abstract store or leaves rows and logs alone.                    *)

\* A transition by anybody is a move of the abstract store, or nothing.
LEMMA TransitionIsMove ==
    ASSUME TypeOK, NEW m \in Machines, NEW from \in States, NEW to \in States,
           Transition(m, from, to)
    PROVE  [Rows!Next]_(Rows!rows)
<1>1. States = Rows!States /\ (Rows!CanTransition(from, to) <=> CanTransition(from, to))
  BY DEF Rows!States, States, Rows!CanTransition, CanTransition, Rows!allowed, allowed
<1>2. CASE Wins(m, from, to)
  <2>1. Rows!Move(m, to)
    BY <1>1, <1>2 DEF Transition, Wins, Rows!Move
  <2> QED BY <1>1, <2>1 DEF Rows!Next
<1>3. CASE ~Wins(m, from, to)
  BY <1>3 DEF Transition, Rows!rows
<1> QED BY <1>2, <1>3

\* Deleting a row is the deletion of the abstract store.
LEMMA DeleteIsDelete ==
    ASSUME NEW m \in Machines, DeleteMachine(m)
    PROVE  [Rows!Next]_(Rows!rows)
BY DEF DeleteMachine, Rows!Next, Rows!Delete

\* Service, poller, sweep and compensation implement the audited store.
THEOREM LifecycleImplementsRows == Spec => RowsImplemented
<1>1. Init => Rows!Init
  BY DEF Init, Rows!Init
<1>2. IInv /\ [Next]_vars => [Rows!Next]_(Rows!rows)
  <2> SUFFICES ASSUME IInv, [Next]_vars PROVE [Rows!Next]_(Rows!rows)
    OBVIOUS
  <2> USE DEF IInv
  <2>1. CASE UNCHANGED <<state, events>>
    BY <2>1 DEF Rows!rows
  <2>2. ASSUME NEW r \in Requests, Submit(r) \/ Handle(r) \/ Cancel(r)
        PROVE  [Rows!Next]_(Rows!rows)
    <3>r. HandlerOK(req[r])
      BY DEF HandlerInv
    <3>1. CASE Submit(r) \/ Cancel(r) \/ EnsureBuild(r) \/ EnsureCall(r) \/ EnsureRecord(r)
               \/ StopCall(r) \/ DestroyCall(r) \/ DestroyKey(r)
      BY <3>1, <2>1 DEF Submit, CreateCount, StartRead, StopRead, DestroyRead, Cancel, EnsureBuild,
         EnsureCall, EnsureRecord, StopCall, DestroyCall, DestroyKey, dbVars
    <3>2. CASE CreateInsert(r)
      BY <3>2 DEF CreateInsert, Rows!Next, Rows!Insert
    <3>3. CASE CreateDisk(r) \/ CreateMintKey(r) \/ DestroyRow(r)
      BY <3>3, <3>r, <2>1, DeleteIsDelete
      DEF CreateDisk, CreateMintKey, DestroyRow, Compensate, At, HandlerOK, dbVars
    <3>4. CASE CreateProvision(r)
      BY <3>4, <3>r, TransitionIsMove, DeleteIsDelete
      DEF CreateProvision, Compensate, At, HandlerOK, States
    <3>5. CASE StartTransition(r) \/ StopTransition(r) \/ Fail(r)
      BY <3>5, <3>r, TransitionIsMove
      DEF StartTransition, StopTransition, Fail, At, HandlerOK, States, Booting
    <3> QED BY <2>2, <3>1, <3>2, <3>3, <3>4, <3>5 DEF Handle
  <2>3. CASE PollCommit
    BY <2>3, <2>1, TransitionIsMove DEF PollCommit, PollTransition, PollerInv, Transitional, States,
       dbVars
  <2>4. ASSUME NEW m \in Machines, SweepMiss(m) \/ SweepCheck(m)
        PROVE  [Rows!Next]_(Rows!rows)
    BY <2>4, <2>1, TransitionIsMove DEF SweepMiss, SweepCheck, PollTransition, dbVars, States
  <2>5. CASE Next
    <3>1. ASSUME NEW m \in Machines,
                 \/ AdvanceUnknown(m) \/ AdvanceUnreachable(m) \/ AdvanceAnswered(m)
                 \/ AgentStep(m) \/ AgentLosesVM(m) \/ AgentForgets(m)
          PROVE  [Rows!Next]_(Rows!rows)
      BY <3>1, <2>1 DEF AdvanceUnknown, AdvanceUnreachable, AdvanceAnswered, AgentStep, AgentBoot,
         AgentBootFails, AgentFinishStop, AgentLosesVM, AgentForgets, dbVars
    <3>2. CASE AdvanceTransitional \/ RetryEnsure \/ PollRecord \/ SweepRunning \/ SweepList \/ Crash
      BY <3>2, <2>1
      DEF AdvanceTransitional, RetryEnsure, PollRecord, SweepRunning, SweepList, Crash, dbVars
    <3> QED BY <2>2, <2>3, <2>4, <2>5, <3>1, <3>2 DEF Next, Advance, Sweep
  <2> QED BY <2>1, <2>5 DEF vars, dbVars
<1> QED BY <1>1, <1>2, CoreInvariant, PTL DEF Spec, RowsImplemented, Rows!Spec

\* The audit log of every machine is therefore a legal path from requested to
\* the state its row is in, whichever handlers and poller steps raced for it.
THEOREM AuditTrailKept == Spec => []Rows!AuditTrail
BY LifecycleImplementsRows, AuditTrailHolds, PTL DEF RowsImplemented

-----------------------------------------------------------------------------
(* Who may touch a machine that is being set up.  No handler or poller     *)
(* step but the creator's own starts a transition from requested.          *)

Setup == {"requested", "deleted"}

\* A step after which no new handler is a creator, and which keeps the rows of
\* the remaining creators requested or deleted.
LEMMA CreatorKept ==
    ASSUME IInv, CreatorOwnsRequested,
           \A q \in Requests : Creating(q)' => Creating(q) /\ req'[q].m = req[q].m,
           \A q \in Requests : Creating(q)' /\ state[req[q].m] \in Setup => state'[req[q].m] \in Setup
    PROVE  CreatorOwnsRequested'
BY DEF CreatorOwnsRequested, Setup

\* A transition from a state other than requested moves no machine in set-up.
LEMMA SetupNotMoved ==
    ASSUME TypeOK, NEW m \in Machines, NEW from \in States \ {"requested"}, NEW to,
           Transition(m, from, to)
    PROVE  \A n \in Machines : state[n] \in Setup => state'[n] \in Setup
BY DEF Transition, Wins, TypeOK, Setup, States

\* Deleting a machine leaves the ones in set-up in set-up.
LEMMA SetupDeleted ==
    ASSUME TypeOK, NEW m \in Machines, DeleteMachine(m)
    PROVE  \A n \in Machines : state[n] \in Setup => state'[n] \in Setup
BY DEF DeleteMachine, TypeOK, Setup

\* A creator has a machine.
LEMMA CreatorHasMachine ==
    ASSUME IInv, NEW q \in Requests, Creating(q)
    PROVE  req[q].m \in Machines
BY DEF IInv, HandlerInv, HandlerOK, Creating

\* A step of a handler.
LEMMA CreatorHandles ==
    ASSUME IInv, CreatorOwnsRequested, NEW r \in Requests, Submit(r) \/ Handle(r) \/ Cancel(r)
    PROVE  CreatorOwnsRequested'
<1> USE DEF IInv
<1> DEFINE m == req[r].m
           Same == \A n \in Machines : state[n] \in Setup => state'[n] \in Setup
           Others == \A q \in Requests : Creating(q)' => Creating(q) /\ req'[q].m = req[q].m
<1>r. req[r] \in Request /\ HandlerOK(req[r]) /\ req \in [Requests -> Request]
  BY DEF HandlerInv, TypeOK
<1>k. Same /\ Others => CreatorOwnsRequested'
  BY CreatorKept, CreatorHasMachine
<1>u. state' = state => Same
  OBVIOUS
<1>e. ASSUME NEW q, req' = [req EXCEPT ![r] = q],
             ~(q.op = "create" /\ q.pc \in {"disk", "mint", "provision"})
      PROVE  Others
  BY <1>e, <1>r DEF Creating
<1>g. ASSUME NEW pc, Goto(r, pc), Creating(r) \/ pc \notin {"disk", "mint", "provision"}
      PROVE  Others
  <2>1. CASE pc = "done"
    <3>1. req' = [req EXCEPT ![r] = Ended] /\ Ended.pc = "done"
      BY <1>g, <2>1 DEF Goto, Ended, NewRequest
    <3> HIDE DEF Others
    <3> QED BY <3>1, <1>e
  <2>2. CASE pc # "done"
    BY <1>g, <2>2, <1>r DEF Goto, Creating, Request
  <2> QED BY <2>1, <2>2
<1>a. ASSUME NEW op, NEW n, NEW from, NEW pc, Arrive(r, op, n, from, pc),
             op # "create" \/ pc \in {"insert", "done"}
      PROVE  Others
  <2>1. CASE pc = "done"
    BY <1>a, <2>1, <1>e DEF Arrive, Ended, NewRequest
  <2>2. CASE pc # "done"
    BY <1>a, <2>2, <1>e DEF Arrive
  <2> QED BY <2>1, <2>2
<1>1. CASE Submit(r)
  <2>1. state' = state
    BY <1>1 DEF Submit, CreateCount, StartRead, StopRead, DestroyRead, dbVars
  <2>2. Others
    <3> HIDE DEF Others
    <3>1. CASE CreateCount(r)
      BY <3>1, <1>a DEF CreateCount
    <3>2. CASE StartRead(r)
      BY <3>2, <1>a DEF StartRead
    <3>3. CASE StopRead(r)
      BY <3>3, <1>a DEF StopRead
    <3>4. CASE DestroyRead(r)
      BY <3>4, <1>a DEF DestroyRead
    <3> QED BY <1>1, <3>1, <3>2, <3>3, <3>4 DEF Submit
  <2> QED BY <2>1, <2>2, <1>u, <1>k
<1>2. CASE CreateInsert(r)
  <2>1. PICK n \in Machines :
           /\ state[n] = "none"
           /\ state' = [state EXCEPT ![n] = "requested"]
           /\ req' = [req EXCEPT ![r].m = n, ![r].pc = "disk"]
    BY <1>2 DEF CreateInsert
  <2>2. \A q \in Requests \ {r} : req'[q] = req[q]
    BY <2>1, <1>r
  <2>3. req'[r].m = n
    BY <2>1, <1>r DEF Request
  <2>4. \A q \in Requests \ {r} : Creating(q)' =>
           Creating(q) /\ req[q].m \in Machines /\ req[q].m # n /\ state'[req[q].m] = state[req[q].m]
    BY <2>1, <2>2, CreatorHasMachine DEF Creating, CreatorOwnsRequested, TypeOK
  <2>5. state'[n] = "requested"
    BY <2>1 DEF TypeOK
  <2> QED BY <2>2, <2>3, <2>4, <2>5 DEF CreatorOwnsRequested
<1>3. CASE CreateDisk(r) \/ CreateMintKey(r)
  <2>1. Creating(r) /\ m \in Machines
    BY <1>3, <1>r DEF CreateDisk, CreateMintKey, At, Creating, HandlerOK
  <2>2. Same
    BY <1>3, <2>1, <1>u, SetupDeleted DEF CreateDisk, CreateMintKey, Compensate, dbVars
  <2>3. Others
    BY <1>3, <2>1, <1>g DEF CreateDisk, CreateMintKey, Compensate
  <2> QED BY <2>2, <2>3, <1>k
<1>4. CASE CreateProvision(r)
  <2>1. m \in Machines /\ Creating(r)
    BY <1>4, <1>r DEF CreateProvision, At, HandlerOK, Creating
  <2>2. CASE Wins(m, "requested", "provisioning")
    <3>1. /\ Transition(m, "requested", "provisioning")
          /\ req' = [req EXCEPT ![r].pc = "build", ![r].from = "provisioning"]
      BY <1>4, <2>2 DEF CreateProvision, Wins
    <3>2. Others /\ ~Creating(r)'
      BY <3>1, <1>r DEF Creating, Request
    <3>3. \A q \in Requests : Creating(q)' => req[q].m # m
      BY <3>2, <2>1 DEF CreatorOwnsRequested
    <3>4. \A q \in Requests : Creating(q)' => state'[req[q].m] = state[req[q].m]
      BY <3>1, <3>2, <3>3, <2>1, CreatorHasMachine DEF Transition, TypeOK
    <3> QED BY <3>2, <3>4, CreatorKept
  <2>3. CASE ~Wins(m, "requested", "provisioning")
    BY <1>4, <2>1, <2>3, <1>g, <1>k, SetupDeleted DEF CreateProvision, Compensate
  <2> QED BY <2>2, <2>3
<1>5. CASE StartTransition(r)
  <2>1. m \in Machines /\ req[r].from \in {"stopped", "error"}
    BY <1>5, <1>r DEF StartTransition, At, HandlerOK
  <2>2. Same
    BY <1>5, <2>1, SetupNotMoved DEF StartTransition, States
  <2>3. CASE Goto(r, "done")
    BY <2>2, <2>3, <1>g, <1>k
  <2>4. CASE req' = [req EXCEPT ![r].pc = "build", ![r].from = "starting"]
    BY <2>2, <2>4, <1>r, <1>k DEF Creating, Request
  <2> QED BY <1>5, <2>3, <2>4 DEF StartTransition
<1>6. CASE StopTransition(r)
  <2>1. m \in Machines
    BY <1>6, <1>r DEF StopTransition, At, HandlerOK
  <2>2. Same
    BY <1>6, <2>1, SetupNotMoved DEF StopTransition, States
  <2>3. CASE Goto(r, "done")
    BY <2>2, <2>3, <1>g, <1>k
  <2>4. CASE req' = [req EXCEPT ![r].pc = "stop", ![r].from = "hibernating"]
    BY <2>2, <2>4, <1>r, <1>k DEF Creating, Request
  <2> QED BY <1>6, <2>3, <2>4 DEF StopTransition
<1>7. CASE Fail(r)
  <2>1. m \in Machines /\ req[r].from \in States \ {"requested"}
    BY <1>7, <1>r DEF Fail, HandlerOK, Booting, States
  <2>2. Same
    BY <1>7, <2>1, SetupNotMoved DEF Fail
  <2> QED BY <1>7, <2>2, <1>g, <1>k DEF Fail
<1>8. CASE EnsureBuild(r) \/ EnsureCall(r) \/ EnsureRecord(r) \/ StopCall(r) \/ DestroyCall(r)
           \/ DestroyKey(r) \/ Cancel(r)
  <2>1. state' = state
    BY <1>8 DEF EnsureBuild, EnsureCall, EnsureRecord, StopCall, DestroyCall, DestroyKey, Cancel,
       dbVars
  <2>2. Others
    BY <1>8, <1>g DEF EnsureBuild, EnsureCall, EnsureRecord, StopCall, DestroyCall, DestroyKey, Cancel
  <2> QED BY <2>1, <2>2, <1>u, <1>k
<1>9. CASE DestroyRow(r)
  <2>1. m \in Machines
    BY <1>9, <1>r DEF DestroyRow, At, HandlerOK
  <2> QED BY <1>9, <2>1, <1>g, <1>k, SetupDeleted DEF DestroyRow
<1> QED BY <1>1, <1>2, <1>3, <1>4, <1>5, <1>6, <1>7, <1>8, <1>9 DEF Handle

\* A machine in set-up belongs to its one creator: whatever the poller, the
\* other handlers and the failures do, the creator finds it requested or
\* destroyed, so its compensation never deletes a machine somebody has moved on.
THEOREM CreatorAlone == Spec => []CreatorOwnsRequested
<1>1. Init => CreatorOwnsRequested
  BY DEF Init, NewRequest, CreatorOwnsRequested, Creating
<1>2. IInv /\ CreatorOwnsRequested /\ [Next]_vars => CreatorOwnsRequested'
  <2> SUFFICES ASSUME IInv, CreatorOwnsRequested, [Next]_vars PROVE CreatorOwnsRequested'
    OBVIOUS
  <2> USE DEF IInv
  <2>1. CASE UNCHANGED <<state, req>>
    BY <2>1 DEF CreatorOwnsRequested, Creating
  <2>2. ASSUME req' = req, \A n \in Machines : state[n] \in Setup => state'[n] \in Setup
        PROVE  CreatorOwnsRequested'
    BY <2>2, CreatorKept, CreatorHasMachine DEF Creating
  <2>3. CASE PollCommit
    <3>1. /\ poll.m \in Machines /\ poll.rows[poll.m] \in States \ {"requested"}
          /\ Transition(poll.m, poll.rows[poll.m], poll.to) \/ state' = state
          /\ req' = req
      BY <2>3 DEF PollCommit, PollTransition, PollerInv, Transitional, States, dbVars
    <3> QED BY <3>1, <2>1, <2>2, SetupNotMoved
  <2>4. ASSUME NEW m \in Machines, SweepMiss(m) \/ SweepCheck(m)
        PROVE  CreatorOwnsRequested'
    <3>1. req' = req /\ (Transition(m, "running", "error") \/ state' = state)
      BY <2>4 DEF SweepMiss, SweepCheck, PollTransition, dbVars
    <3> QED BY <3>1, <2>1, <2>2, SetupNotMoved DEF States
  <2>5. CASE Crash
    <3>1. state' = state /\ \A q \in Requests : ~Creating(q)'
      BY <2>5 DEF Crash, Creating, Ended, NewRequest, dbVars
    <3> QED BY <3>1 DEF CreatorOwnsRequested
  <2>6. CASE Next
    <3>1. ASSUME NEW m \in Machines,
                 \/ AdvanceUnknown(m) \/ AdvanceUnreachable(m) \/ AdvanceAnswered(m)
                 \/ AgentStep(m) \/ AgentLosesVM(m) \/ AgentForgets(m)
          PROVE  CreatorOwnsRequested'
      BY <3>1, <2>1 DEF AdvanceUnknown, AdvanceUnreachable, AdvanceAnswered, AgentStep, AgentBoot,
         AgentBootFails, AgentFinishStop, AgentLosesVM, AgentForgets, dbVars
    <3>2. CASE AdvanceTransitional \/ RetryEnsure \/ PollRecord \/ SweepRunning \/ SweepList
      BY <3>2, <2>1
      DEF AdvanceTransitional, RetryEnsure, PollRecord, SweepRunning, SweepList, dbVars
    <3> QED BY CreatorHandles, <2>3, <2>4, <2>5, <2>6, <3>1, <3>2 DEF Next, Advance, Sweep
  <2> QED BY <2>1, <2>6 DEF vars, dbVars
<1> QED BY <1>1, <1>2, CoreInvariant, PTL DEF Spec
=============================================================================
