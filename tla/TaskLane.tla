------------------------------ MODULE TaskLane ------------------------------
(***************************************************************************)
(* The headless agent lane, for one task: the HTTP handlers that create a  *)
(* task, send it further turns and cancel it                               *)
(* (controlplane/internal/httpapi/tasks.go), the guest's run registry      *)
(* (guestagent/internal/ctlchan/agentrun.go), the notifications that come  *)
(* back (guestctl/manager.go), the ring of live events                     *)
(* (controlplane/internal/taskevents/hub.go), and the SSE stream with its  *)
(* reconnecting client (httpapi/taskstream.go). Tasks share none of these. *)
(*                                                                         *)
(* Turn 1 is the run that creates the task, later turns are messages. The  *)
(* handler and the run of a turn are named by its number.                  *)
(***************************************************************************)
EXTENDS Naturals, Sequences, FiniteSets

CONSTANTS
    LastTurn,    \* bound: turns of the task
    MaxEvents,   \* bound: events of a run
    MaxCancels,  \* bound: cancel requests
    MaxRestarts, \* bound: restarts of the control plane
    BufSize,     \* capacity of the ring (500 in the code)
    SubBuf,      \* capacity of a subscription (64 in the code)
    Viewers,     \* clients of the SSE stream
    May          \* what may happen besides orderly steps

\* Messages do not wait for each other or for the prior turn's result ("race"); a
\* run ends before its handler has ("early"); a request's ack or a notification is
\* lost ("drop"); notifications, each dispatched by a goroutine of its own,
\* overtake each other ("reorder"); the retention window of a finished stream
\* passes ("reap").
Happenings == {"race", "early", "drop", "reorder", "reap"}

ASSUME LaneAssumption ==
    /\ LastTurn \in Nat \ {0} /\ MaxEvents \in Nat /\ MaxCancels \in Nat /\ MaxRestarts \in Nat
    /\ BufSize \in Nat \ {0} /\ SubBuf \in Nat \ {0}
    /\ May \subseteq Happenings

VARIABLES
    task,      \* the agent_tasks row, with the turn its outcome is of (history)
    call,      \* the handler of each turn
    run,       \* the run of each turn in the guest
    registry,  \* Manager.runs[task]: the turn whose run is registered, or 0
    cancel,    \* the cancel handler, and the cancel requests so far
    wire,      \* notifications on their way to the control plane
    finishing, \* completions whose row is written and whose result is not yet published
    hub,       \* the task's stream
    reopened,  \* history: the latest turn the stream was opened for
    view,      \* the clients and their SSE handlers
    restarts   \* restarts of the control plane so far

guestVars == <<run, registry>>
hubVars == <<hub, reopened, view>>
vars == <<task, call, guestVars, cancel, wire, finishing, hubVars, restarts>>

Turns == 1 .. LastTurn
Terminal == {"done", "failed", "canceled"}
Statuses == {"none", "queued", "running"} \cup Terminal
Notice == [kind : {"event", "done"}, t : Turns, n : 0 .. MaxEvents, status : Terminal, session : BOOLEAN]
Frame == [seq : Nat, t : Turns, terminal : BOOLEAN]
NoRun == [pc |-> "none", canceled |-> FALSE, events |-> 0]
NoStream == [exists |-> FALSE, seq |-> 0, turnStart |-> 0, buf |-> <<>>, terminal |-> FALSE, reaper |-> FALSE]
NewView == [pc |-> "off", status |-> "none", turn |-> 0, sent |-> 0, chan |-> <<>>, shown |-> 0, want |-> 0]

Init ==
    /\ task = [status |-> "none", session |-> FALSE, turn |-> 0]
    /\ call = [t \in Turns |-> "new"]
    /\ run = [t \in Turns |-> NoRun]
    /\ registry = 0
    /\ cancel = [pc |-> "idle", n |-> 0]
    /\ wire = <<>> /\ finishing = {}
    /\ hub = NoStream /\ reopened = 1
    /\ view = [v \in Viewers |-> NewView]
    /\ restarts = 0

-----------------------------------------------------------------------------
(* The handlers.                                                           *)

\* Without "race", a message is sent when no other is being handled and the prior
\* turn's result has been published.
Orderly(t) == "race" \in May \/ (finishing = {} /\ \A s \in Turns \ {t} : call[s] \in {"new", "over"})

\* A write of the row whose error is not looked at: it may fail.
Writes(row) == task' = row \/ ("drop" \in May /\ task' = task)

\* Only a queued task, so that an early end is not undone.
MarkAgentTaskRunning == [task EXCEPT !.status = IF @ = "queued" THEN "running" ELSE @]

FinishAgentTask(done) ==
    [status |-> done.status, session |-> task.session \/ done.session, turn |-> done.t]

\* Whatever the row says.
RestartAgentTask == [task EXCEPT !.status = "running"]

\* handleCreateTask: the row is inserted, queued.
CreateInsert ==
    /\ call[1] = "new" /\ task.status = "none"
    /\ task' = [task EXCEPT !.status = "queued"]
    /\ call' = [call EXCEPT ![1] = "dispatch"]
    /\ UNCHANGED <<guestVars, cancel, wire, finishing, hubVars, restarts>>

\* Mutant: a turn may start on any task, a session or not.
MessageReadAny(t) ==
    /\ t > 1 /\ call[t] = "new" /\ Orderly(t)
    /\ task.status # "none"
    /\ call' = [call EXCEPT ![t] = "dispatch"]
    /\ UNCHANGED <<task, guestVars, cancel, wire, finishing, hubVars, restarts>>

\* handleSendMessage reads the row: the prior turn is over and left a session.
MessageRead(t) ==
    /\ t > 1 /\ call[t] = "new" /\ Orderly(t)
    /\ task.status \in Terminal /\ task.session
    /\ call' = [call EXCEPT ![t] = "dispatch"]
    /\ UNCHANGED <<task, guestVars, cancel, wire, finishing, hubVars, restarts>>

\* RunAgent reaches the guest: the run is registered, over whatever run the task
\* had, and its goroutine started before the ack; the ack may be lost.
Dispatch(t) ==
    /\ call[t] = "dispatch"
    /\ registry' = t
    /\ run' = [run EXCEPT ![t].pc = "working"]
    /\ \E r \in {"acked"} \cup (IF "drop" \in May THEN {"refused"} ELSE {}) :
         call' = [call EXCEPT ![t] = r]
    /\ UNCHANGED <<task, cancel, wire, finishing, hubVars, restarts>>

\* There is no channel, or the request is lost on it.
DispatchFails(t) ==
    /\ "drop" \in May
    /\ call[t] = "dispatch"
    /\ call' = [call EXCEPT ![t] = "refused"]
    /\ UNCHANGED <<task, guestVars, cancel, wire, finishing, hubVars, restarts>>

\* The error paths: a task that could not be created is closed as failed, a
\* message leaves the row as it was.
Refused(t) ==
    /\ call[t] = "refused"
    /\ call' = [call EXCEPT ![t] = "over"]
    /\ IF t = 1 THEN Writes(FinishAgentTask([t |-> 1, status |-> "failed", session |-> FALSE])) ELSE UNCHANGED task
    /\ UNCHANGED <<guestVars, cancel, wire, finishing, hubVars, restarts>>

CreateMark ==
    /\ call[1] = "acked"
    /\ call' = [call EXCEPT ![1] = "over"]
    /\ Writes(MarkAgentTaskRunning)
    /\ UNCHANGED <<guestVars, cancel, wire, finishing, hubVars, restarts>>

\* Mutant: the boundary is one too high.
MessageReopenPast(t) ==
    /\ t > 1 /\ call[t] = "acked"
    /\ call' = [call EXCEPT ![t] = "restart"]
    /\ hub' = [hub EXCEPT !.exists = TRUE, !.terminal = FALSE, !.turnStart = hub.seq + 1, !.reaper = FALSE]
    /\ reopened' = t
    /\ UNCHANGED <<task, guestVars, cancel, wire, finishing, view, restarts>>

\* Hub.Reopen: the stream is live again and replays from here.
MessageReopen(t) ==
    /\ t > 1 /\ call[t] = "acked"
    /\ call' = [call EXCEPT ![t] = "restart"]
    /\ hub' = [hub EXCEPT !.exists = TRUE, !.terminal = FALSE, !.turnStart = hub.seq, !.reaper = FALSE]
    /\ reopened' = t
    /\ UNCHANGED <<task, guestVars, cancel, wire, finishing, view, restarts>>

MessageRestart(t) ==
    /\ call[t] = "restart"
    /\ call' = [call EXCEPT ![t] = "over"]
    /\ Writes(RestartAgentTask)
    /\ UNCHANGED <<guestVars, cancel, wire, finishing, hubVars, restarts>>

\* handleCancelTask: a finished task is left alone.
CancelRead ==
    /\ cancel.pc = "idle" /\ cancel.n < MaxCancels
    /\ task.status \in {"queued", "running"}
    /\ cancel' = [pc |-> "sent", n |-> cancel.n + 1]
    /\ UNCHANGED <<task, call, guestVars, wire, finishing, hubVars, restarts>>

\* cancelRun: the run that is registered by now is marked and its process killed.
CancelLands ==
    /\ cancel.pc = "sent"
    /\ cancel' = [cancel EXCEPT !.pc = "idle"]
    /\ run' = IF registry = 0 THEN run ELSE [run EXCEPT ![registry].canceled = TRUE]
    /\ UNCHANGED <<task, call, registry, wire, finishing, hubVars, restarts>>

-----------------------------------------------------------------------------
(* Runs in the guest.                                                      *)

\* notify over the active channel, or into the void if there is none.
Notify(f) == wire' = Append(wire, f) \/ ("drop" \in May /\ wire' = wire)

\* Mutant: the stream is still read when the outcome has been reported.
RunEmitsLate(t) ==
    /\ run[t].pc # "none" /\ run[t].events < MaxEvents
    /\ run' = [run EXCEPT ![t].events = @ + 1]
    /\ Notify([kind |-> "event", t |-> t, n |-> run[t].events + 1, status |-> "done", session |-> FALSE])
    /\ UNCHANGED <<task, call, registry, cancel, finishing, hubVars, restarts>>

\* runHeadless relays a step of the agent, also one that was read after a cancel
\* and before the process is dead.
RunEmits(t) ==
    /\ run[t].pc = "working" /\ run[t].events < MaxEvents
    /\ run' = [run EXCEPT ![t].events = @ + 1]
    /\ Notify([kind |-> "event", t |-> t, n |-> run[t].events + 1, status |-> "done", session |-> FALSE])
    /\ UNCHANGED <<task, call, registry, cancel, finishing, hubVars, restarts>>

\* The agent's process ends: by itself, killed by a cancel, or at its timeout.
RunEnds(t) ==
    /\ run[t].pc = "working"
    /\ "early" \in May \/ call[t] = "over"
    /\ run' = [run EXCEPT ![t].pc = "report"]
    /\ UNCHANGED <<task, call, registry, cancel, wire, finishing, hubVars, restarts>>

\* runWasCanceled asks the registry, not the run.
WasCanceled == registry # 0 /\ run[registry].canceled

\* reportAgentDone: a canceled run is canceled; another is done, or failed, with
\* the agent's session if its stream had one.
RunReports(t) ==
    /\ run[t].pc = "report"
    /\ run' = [run EXCEPT ![t].pc = "unregister"]
    /\ \E s \in Terminal, b \in BOOLEAN :
         /\ (s = "canceled") = WasCanceled
         /\ s = "canceled" => ~b
         /\ Notify([kind |-> "done", t |-> t, n |-> 0, status |-> s, session |-> b])
    /\ UNCHANGED <<task, call, registry, cancel, finishing, hubVars, restarts>>

\* unregisterRun: whichever run is registered.
RunUnregisters(t) ==
    /\ run[t].pc = "unregister"
    /\ run' = [run EXCEPT ![t].pc = "over"]
    /\ registry' = 0
    /\ UNCHANGED <<task, call, cancel, wire, finishing, hubVars, restarts>>

-----------------------------------------------------------------------------
(* The stream.                                                             *)

\* Hub.Publish: the frame is numbered, the ring trimmed, and every subscriber
\* that has room gets it. A terminal frame starts the retention window.
Publish(t, terminal) ==
    LET f == [seq |-> hub.seq + 1, t |-> t, terminal |-> terminal]
        b == Append(hub.buf, f)
    IN  /\ hub' = [exists |-> TRUE, seq |-> f.seq, turnStart |-> hub.turnStart,
                   buf |-> IF Len(b) > BufSize THEN Tail(b) ELSE b,
                   terminal |-> hub.terminal \/ terminal, reaper |-> hub.reaper \/ terminal]
        /\ view' = [v \in Viewers |->
                     IF view[v].pc = "live" /\ Len(view[v].chan) < SubBuf
                     THEN [view[v] EXCEPT !.chan = Append(@, f)] ELSE view[v]]

Arrivals == IF "reorder" \in May THEN DOMAIN wire ELSE DOMAIN wire \cap {1}
Without(i) == SubSeq(wire, 1, i - 1) \o SubSeq(wire, i + 1, Len(wire))

\* handleAgentEvent.
HandleEvent(i) ==
    /\ wire[i].kind = "event"
    /\ wire' = Without(i)
    /\ Publish(wire[i].t, FALSE)
    /\ UNCHANGED <<task, call, guestVars, cancel, finishing, reopened, restarts>>

\* Mutant: a canceled run leaves the row to the cancel handler.
HandleDoneUnlessCanceled(i) ==
    /\ wire[i].kind = "done"
    /\ wire' = Without(i)
    /\ finishing' = finishing \cup {wire[i]}
    /\ task' = IF wire[i].status = "canceled" THEN task
               ELSE [status |-> wire[i].status, session |-> task.session \/ wire[i].session, turn |-> wire[i].t]
    /\ UNCHANGED <<call, guestVars, cancel, hubVars, restarts>>

\* handleAgentDone: FinishAgentTask, which keeps the session if there is no new one ...
HandleDone(i) ==
    /\ wire[i].kind = "done"
    /\ wire' = Without(i)
    /\ finishing' = finishing \cup {wire[i]}
    /\ Writes(FinishAgentTask(wire[i]))
    /\ UNCHANGED <<call, guestVars, cancel, hubVars, restarts>>

\* Mutant: a canceled run has no result to publish.
PublishResultUnlessCanceled(f) ==
    /\ finishing' = finishing \ {f}
    /\ IF f.status = "canceled" THEN UNCHANGED <<hub, view>> ELSE Publish(f.t, TRUE)
    /\ UNCHANGED <<task, call, guestVars, cancel, wire, reopened, restarts>>

\* ... then publishTaskResult.
PublishResult(f) ==
    /\ finishing' = finishing \ {f}
    /\ Publish(f.t, TRUE)
    /\ UNCHANGED <<task, call, guestVars, cancel, wire, reopened, restarts>>

NobodyBut(v) == \A u \in Viewers \ {v} : view[u].pc # "live"

\* scheduleReap's timer: nobody watches, so the stream is dropped. A handler does
\* not take the minutes of the retention window between its two steps.
Reap ==
    /\ "reap" \in May
    /\ hub.reaper /\ \A v \in Viewers : view[v].pc \notin {"read", "live"}
    /\ hub' = NoStream
    /\ UNCHANGED <<task, call, guestVars, cancel, wire, finishing, reopened, view, restarts>>

-----------------------------------------------------------------------------
(* Viewers: a client that reconnects with the last id it has seen until it *)
(* has a result, and the handler at the other end.                         *)

\* handleTaskEvents reads the row first ...
ViewRead(v) ==
    /\ view[v].pc = "off" /\ task.status # "none"
    /\ view' = [view EXCEPT ![v].pc = "read", ![v].status = task.status, ![v].turn = task.turn]
    /\ UNCHANGED <<task, call, guestVars, cancel, wire, finishing, hub, reopened, restarts>>

Larger(a, b) == IF a > b THEN a ELSE b

\* The frames of the ring after the n-th, in its order.
Later(n) ==
    LET late[i \in 0 .. Len(hub.buf)] ==
            IF i = 0 THEN <<>>
            ELSE IF hub.buf[i].seq > n THEN Append(late[i - 1], hub.buf[i]) ELSE late[i - 1]
    IN  late[Len(hub.buf)]

\* Mutant: the boundary of the backlog is off by one.
BacklogLate(after) == Later(Larger(after, hub.turnStart) + 1)

\* The frames Subscribe replays: after the client's last id, within the turn.
Backlog(after) == Later(Larger(after, hub.turnStart))

\* The result among frames, as the turn it is of; 0 if there is none.
ResultIn(fs) ==
    IF \E i \in DOMAIN fs : fs[i].terminal THEN (CHOOSE f \in {fs[i] : i \in DOMAIN fs} : f.terminal).t ELSE 0

\* The client closes when it is shown a result, and reconnects otherwise.
Closes(w, shown) ==
    [w EXCEPT !.pc = IF shown = 0 THEN "off" ELSE "got", !.shown = shown, !.chan = <<>>]

\* ... then subscribes and replays. A finished stream ends here; a row that was
\* finished when it was read stands in for a stream that is gone; else it is live.
\* Unsubscribing from a finished stream starts the retention window again.
ViewSubscribe(v) ==
    LET w == view[v]
        b == Backlog(w.sent)
        last == IF b = <<>> THEN w.sent ELSE b[Len(b)].seq
        at == [w EXCEPT !.sent = last, !.want = reopened]
    IN  /\ w.pc = "read"
        /\ \/ /\ hub.terminal
              /\ view' = [view EXCEPT ![v] = Closes(at, ResultIn(b))]
              /\ hub' = [hub EXCEPT !.reaper = NobodyBut(v)]
           \/ /\ ~hub.terminal /\ w.status \in Terminal
              /\ view' = [view EXCEPT ![v] = Closes(at, w.turn)]
              /\ hub' = [hub EXCEPT !.exists = TRUE, !.reaper = FALSE]
           \/ /\ ~hub.terminal /\ w.status \notin Terminal
              /\ view' = [view EXCEPT ![v] = [at EXCEPT !.pc = "live"]]
              /\ hub' = [hub EXCEPT !.exists = TRUE, !.reaper = FALSE]
        /\ UNCHANGED <<task, call, guestVars, cancel, wire, finishing, reopened, restarts>>

\* One live frame: skipped if it was replayed, and the last one if terminal.
ViewReceive(v) ==
    LET w == view[v]
        f == Head(w.chan)
        rest == [w EXCEPT !.chan = Tail(@)]
    IN  /\ w.pc = "live" /\ w.chan # <<>>
        /\ \/ /\ f.seq <= w.sent
              /\ view' = [view EXCEPT ![v] = rest]
              /\ UNCHANGED hub
           \/ /\ f.seq > w.sent /\ ~f.terminal
              /\ view' = [view EXCEPT ![v] = [rest EXCEPT !.sent = f.seq]]
              /\ UNCHANGED hub
           \/ /\ f.seq > w.sent /\ f.terminal
              /\ view' = [view EXCEPT ![v] = Closes([rest EXCEPT !.sent = f.seq], f.t)]
              /\ hub' = [hub EXCEPT !.reaper = @ \/ (hub.terminal /\ NobodyBut(v))]
        /\ UNCHANGED <<task, call, guestVars, cancel, wire, finishing, reopened, restarts>>

\* The connection breaks; the client will be back with the last id it has seen.
ViewBreaks(v) ==
    /\ view[v].pc = "live"
    /\ view' = [view EXCEPT ![v].pc = "off", ![v].chan = <<>>]
    /\ hub' = [hub EXCEPT !.reaper = @ \/ (hub.terminal /\ NobodyBut(v))]
    /\ UNCHANGED <<task, call, guestVars, cancel, wire, finishing, reopened, restarts>>

\* A follow-up turn is watched with a new connection, from the start.
ViewAgain(v) ==
    /\ view[v].pc = "got" /\ task.status \in {"queued", "running"}
    /\ view' = [view EXCEPT ![v] = NewView]
    /\ UNCHANGED <<task, call, guestVars, cancel, wire, finishing, hub, reopened, restarts>>

-----------------------------------------------------------------------------
\* The control plane restarts: handlers, goroutines, streams and connections are
\* gone, and what is on the wire with them (without "drop", it is a quiet moment);
\* guests and rows go on.
Restart ==
    /\ restarts < MaxRestarts
    /\ "drop" \in May \/ (wire = <<>> /\ finishing = {})
    /\ restarts' = restarts + 1
    /\ call' = [t \in Turns |-> IF call[t] = "new" THEN "new" ELSE "over"]
    /\ cancel' = [cancel EXCEPT !.pc = "idle"]
    /\ wire' = <<>> /\ finishing' = {}
    /\ hub' = NoStream
    /\ view' = [v \in Viewers |-> IF view[v].pc = "got" THEN view[v] ELSE [view[v] EXCEPT !.pc = "off", !.chan = <<>>]]
    /\ UNCHANGED <<task, guestVars, reopened>>

Handler(t) ==
    \/ t = 1 /\ (CreateInsert \/ CreateMark)
    \/ MessageRead(t) \/ Dispatch(t) \/ DispatchFails(t) \/ Refused(t)
    \/ MessageReopen(t) \/ MessageRestart(t)

Guest(t) == RunEmits(t) \/ RunEnds(t) \/ RunReports(t) \/ RunUnregisters(t)

Handle == \E i \in Arrivals : HandleEvent(i) \/ HandleDone(i)

Viewing(v) == ViewRead(v) \/ ViewSubscribe(v) \/ ViewReceive(v)

Next ==
    \/ \E t \in Turns : Handler(t) \/ Guest(t)
    \/ CancelRead \/ CancelLands
    \/ Handle \/ (\E f \in finishing : PublishResult(f)) \/ Reap
    \/ \E v \in Viewers : Viewing(v) \/ ViewBreaks(v) \/ ViewAgain(v)
    \/ Restart

Spec == Init /\ [][Next]_vars

\* Handlers, once begun, and goroutines go on; a run ends, at its timeout if not
\* before; clients reconnect. Nobody need send a message, cancel or restart.
Fairness ==
    /\ \A t \in Turns :
         /\ WF_vars(call[t] # "new" /\ Handler(t))
         /\ WF_vars(RunEnds(t)) /\ WF_vars(RunReports(t)) /\ WF_vars(RunUnregisters(t))
    /\ WF_vars(CancelLands)
    /\ WF_vars(Handle) /\ WF_vars(\E f \in finishing : PublishResult(f))
    /\ \A v \in Viewers : WF_vars(Viewing(v))

FairSpec == Spec /\ Fairness

-----------------------------------------------------------------------------
(* Properties.                                                             *)

TypeOK ==
    /\ task \in [status : Statuses, session : BOOLEAN, turn : 0 .. LastTurn]
    /\ call \in [Turns -> {"new", "dispatch", "acked", "refused", "restart", "over"}]
    /\ run \in [Turns -> [pc : {"none", "working", "report", "unregister", "over"},
                          canceled : BOOLEAN, events : 0 .. MaxEvents]]
    /\ registry \in 0 .. LastTurn
    /\ cancel \in [pc : {"idle", "sent"}, n : 0 .. MaxCancels]
    /\ wire \in Seq(Notice) /\ finishing \subseteq Notice
    /\ hub \in [exists : BOOLEAN, seq : Nat, turnStart : 0 .. hub.seq, buf : Seq(Frame),
                terminal : BOOLEAN, reaper : BOOLEAN]
    /\ reopened \in Turns
    /\ view \in [Viewers -> [pc : {"off", "read", "live", "got"}, status : Statuses, turn : 0 .. LastTurn,
                             sent : Nat, chan : Seq(Frame), shown : 0 .. LastTurn, want : 0 .. LastTurn]]
    /\ restarts \in 0 .. MaxRestarts

\* Snapshot and live tail fit together: what the ring holds beyond what a live
\* client was sent (and within the turn) is in its subscription. Subscribe replays
\* and registers in one step; a boundary that is off by one loses a frame here.
NothingMissed ==
    \A v \in Viewers : view[v].pc = "live" =>
        \A i \in DOMAIN hub.buf : hub.buf[i].seq > Larger(view[v].sent, hub.turnStart) =>
            \E j \in DOMAIN view[v].chan : view[v].chan[j] = hub.buf[i]

\* "a turn can't start while one is in flight" (handleSendMessage): the guest never
\* has two runs of a task at work in one working tree.
OneRun == \A s, t \in Turns : run[s].pc = "working" /\ run[t].pc = "working" => s = t

\* "The task cycles back to running and on to a terminal state when the turn ends":
\* no task stays queued or running.
TaskSettles == task.status \in {"queued", "running"} ~> task.status \in Terminal

\* "tails live frames until the run's terminal result frame": a client that is
\* connected to a task is shown a result in the end, over any reconnects.
ViewerServed == \A v \in Viewers : view[v].pc = "live" ~> view[v].pc = "got"

\* "a (re)connecting client streams it instead of seeing the prior turn's terminal
\* result and closing": once a turn has reopened the stream, nobody who connects is
\* shown an earlier turn's result.
NoStaleResult == \A v \in Viewers : view[v].shown # 0 => view[v].shown >= view[v].want

\* "Terminal marks the run's final frame": no frame of a run follows its result.
ResultIsLast ==
    \A i, j \in DOMAIN hub.buf : i < j /\ hub.buf[i].terminal => hub.buf[i].t # hub.buf[j].t

\* "a cancel arriving immediately after the ack still lands on a live run": while a
\* run is at work, the registry has it, so that a cancel can stop it.
RunIsRegistered == \A t \in Turns : run[t].pc = "working" => registry = t

=============================================================================
