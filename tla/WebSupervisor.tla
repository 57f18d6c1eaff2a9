--------------------------- MODULE WebSupervisor ---------------------------
(***************************************************************************)
(* The supervisor of code-server in the guest (guestagent/internal/webfwd):*)
(* it is started by the first web connection, probed until it accepts, and *)
(* started again after it dies.  One lock is held from the check to the    *)
(* end of the probing; the goroutine that reaps the process needs it too.  *)
(* Time is counted in ticks: the waits are the ticks that remain.          *)
(***************************************************************************)
EXTENDS Naturals, FiniteSets

CONSTANTS
    Conns,          \* web connections, each one call of Ensure
    MaxProcs,       \* bound: starts of code-server
    Base, MaxWait,  \* baseBackoff, maxBackoff
    StartTimeout,   \* startTimeout
    May             \* what may happen: "unstartable", "mute", "crash", "stop"

VARIABLES
    lock,           \* the connection inside Ensure, or "none"
    pc,             \* connection -> where its handler is
    left,           \* connection -> ticks until its probing gives up
    cmd,            \* Supervisor.cmd: the process it tracks, or 0
    healthy, fails, \* Supervisor
    wait,           \* ticks until nextTry
    proc,           \* process -> "none", "starting", "up" (it accepts), "dead"
    reaped,         \* processes whose Wait has been followed up
    ctx,            \* "run", "ending" (the context has ended), "ended" (after Shutdown)
    since,          \* ticks since the last failed attempt, up to MaxWait
    streak          \* failed attempts since the last healthy one

vars == <<lock, pc, left, cmd, healthy, fails, wait, proc, reaped, ctx, since, streak>>

Procs == 1..MaxProcs

TypeOK ==
    /\ lock \in Conns \cup {"none"} /\ left \in [Conns -> 0..StartTimeout] /\ cmd \in 0..MaxProcs
    /\ pc \in [Conns -> {"new", "backoff", "probe", "dial", "bridged", "dropped"}]
    /\ wait \in 0..MaxWait /\ proc \in [Procs -> {"none", "starting", "up", "dead"}] /\ reaped \subseteq Procs
    /\ ctx \in {"run", "ending", "ended"}

Init ==
    /\ lock = "none" /\ pc = [c \in Conns |-> "new"] /\ left = [c \in Conns |-> 0]
    /\ cmd = 0 /\ healthy = FALSE /\ fails = 0 /\ wait = 0
    /\ proc = [p \in Procs |-> "none"] /\ reaped = {} /\ ctx = "run" /\ since = MaxWait /\ streak = 0

Alive == cmd # 0
Accepts == \E p \in Procs : proc[p] = "up"
Used == {p \in Procs : proc[p] # "none"}

-----------------------------------------------------------------------------
(* Ensure, in the handler of a connection. *)

\* baseBackoff << min(fails - 1, 16), at most maxBackoff
Backoff(n) == LET d == Base * 2 ^ (IF n > 17 THEN 16 ELSE n - 1) IN IF d \in 1..MaxWait THEN d ELSE MaxWait

\* Mutant: the failures are not counted up.
FailFlat == fails' = 1 /\ wait' = Backoff(1) /\ since' = 0 /\ streak' = streak + 1

Fail == fails' = fails + 1 /\ wait' = Backoff(fails + 1) /\ since' = 0 /\ streak' = streak + 1

Return(c, to) == lock' = "none" /\ pc' = [pc EXCEPT ![c] = to]

\* Mutant: a process that is up but was never healthy is started again.
EnterUnhealthy(c) ==
    /\ pc[c] = "new" /\ lock = "none"
    /\ \/ Alive /\ healthy /\ pc' = [pc EXCEPT ![c] = "dial"] /\ UNCHANGED lock
       \/ ~(Alive /\ healthy) /\ pc' = [pc EXCEPT ![c] = "backoff"] /\ lock' = c
    /\ UNCHANGED <<left, cmd, healthy, fails, wait, proc, reaped, ctx, since, streak>>

\* The lock is taken; a live and healthy process is enough.
Enter(c) ==
    /\ pc[c] = "new" /\ lock = "none"
    /\ \/ Alive /\ healthy /\ pc' = [pc EXCEPT ![c] = "dial"] /\ UNCHANGED <<lock, left>>
       \/ Alive /\ ~healthy /\ pc' = [pc EXCEPT ![c] = "probe"] /\ lock' = c /\ left' = [left EXCEPT ![c] = StartTimeout]
       \/ ~Alive /\ pc' = [pc EXCEPT ![c] = "backoff"] /\ lock' = c /\ UNCHANGED left
    /\ UNCHANGED <<cmd, healthy, fails, wait, proc, reaped, ctx, since, streak>>

\* The crash-loop guard, and the start of a process with its reaper.
Start(c) ==
    /\ pc[c] = "backoff" /\ wait = 0
    /\ cmd' = Cardinality(Used) + 1 /\ cmd' \in Procs /\ proc' = [proc EXCEPT ![cmd'] = "starting"]
    /\ healthy' = FALSE /\ pc' = [pc EXCEPT ![c] = "probe"] /\ left' = [left EXCEPT ![c] = StartTimeout]
    /\ UNCHANGED <<lock, fails, wait, reaped, ctx, since, streak>>

StartFails(c) ==
    /\ "unstartable" \in May /\ pc[c] = "backoff" /\ wait = 0 /\ fails < MaxProcs
    /\ Fail /\ Return(c, "dropped")
    /\ UNCHANGED <<left, cmd, healthy, proc, reaped, ctx>>

\* The backend accepts a connection.
ProbeAccepted(c) ==
    /\ pc[c] = "probe" /\ Alive /\ Accepts
    /\ healthy' = TRUE /\ fails' = 0 /\ streak' = 0 /\ Return(c, "dial")
    /\ UNCHANGED <<left, cmd, wait, proc, reaped, ctx, since>>

\* Mutant: the lock is not released on the way out.
ProbeKeepsLock(c) ==
    /\ pc[c] = "probe" /\ ~Accepts /\ left[c] = 0 /\ Fail /\ pc' = [pc EXCEPT ![c] = "dropped"]
    /\ UNCHANGED <<lock, left, cmd, healthy, proc, reaped, ctx>>

\* The deadline passes; the process stays.
ProbeGivesUp(c) ==
    /\ pc[c] = "probe" /\ ~Accepts /\ left[c] = 0 /\ Fail /\ Return(c, "dropped")
    /\ UNCHANGED <<left, cmd, healthy, proc, reaped, ctx>>

\* The context ends while waiting, or while the backend does not accept.
Cancelled(c) ==
    /\ ctx # "run"
    /\ \/ pc[c] = "backoff" /\ wait > 0 /\ UNCHANGED <<fails, wait, since, streak>>
       \/ pc[c] = "probe" /\ ~Accepts /\ Fail
    /\ Return(c, "dropped")
    /\ UNCHANGED <<left, cmd, healthy, proc, reaped, ctx>>

\* The handler dials the backend and bridges, or drops the client.
Handle(c) ==
    /\ pc[c] = "dial" /\ pc' = [pc EXCEPT ![c] = IF Accepts THEN "bridged" ELSE "dropped"]
    /\ UNCHANGED <<lock, left, cmd, healthy, fails, wait, proc, reaped, ctx, since, streak>>

-----------------------------------------------------------------------------
(* The process, its reaper, and time. *)

Reap(p) ==
    /\ proc[p] = "dead" /\ p \notin reaped /\ lock = "none"
    /\ reaped' = reaped \cup {p}
    /\ IF cmd = p THEN cmd' = 0 /\ healthy' = FALSE ELSE UNCHANGED <<cmd, healthy>>
    /\ UNCHANGED <<lock, pc, left, fails, wait, proc, ctx, since, streak>>

ComesUp(p) ==
    /\ proc[p] = "starting" /\ proc' = [proc EXCEPT ![p] = "up"]
    /\ UNCHANGED <<lock, pc, left, cmd, healthy, fails, wait, reaped, ctx, since, streak>>

\* It exits while starting, or crashes later, or is told to (Shutdown).
Dies(p) ==
    /\ \/ proc[p] = "starting" /\ "mute" \in May
       \/ proc[p] = "up" /\ "crash" \in May
       \/ proc[p] \in {"starting", "up"} /\ cmd # p
    /\ proc' = [proc EXCEPT ![p] = "dead"]
    /\ UNCHANGED <<lock, pc, left, cmd, healthy, fails, wait, reaped, ctx, since, streak>>

Down(n) == IF n = 0 THEN 0 ELSE n - 1

Tick ==
    /\ wait > 0 \/ \E c \in Conns : left[c] > 0
    /\ wait' = Down(wait) /\ left' = [c \in Conns |-> Down(left[c])]
    /\ since' = IF since < MaxWait THEN since + 1 ELSE since
    /\ UNCHANGED <<lock, pc, cmd, healthy, fails, proc, reaped, ctx, streak>>

\* The agent is told to stop: its context ends.
AgentStops ==
    /\ "stop" \in May /\ ctx = "run" /\ ctx' = "ending"
    /\ UNCHANGED <<lock, pc, left, cmd, healthy, fails, wait, proc, reaped, since, streak>>

\* The deferred Shutdown takes the lock, forgets the process and sends SIGTERM.
Shutdown ==
    /\ ctx = "ending" /\ lock = "none" /\ ctx' = "ended" /\ cmd' = 0
    /\ UNCHANGED <<lock, pc, left, healthy, fails, wait, proc, reaped, since, streak>>

\* The handler of a connection, as far as it goes by itself.
Handler(c) == Enter(c) \/ Start(c) \/ ProbeAccepted(c) \/ ProbeGivesUp(c) \/ Cancelled(c) \/ Handle(c)

Next ==
    \/ \E c \in Conns : Handler(c)
    \/ \E c \in Conns : StartFails(c)
    \/ \E p \in Procs : Reap(p)
    \/ \E p \in Procs : ComesUp(p)
    \/ \E p \in Procs : Dies(p)
    \/ Tick
    \/ AgentStops
    \/ Shutdown

\* Each handler runs on and time passes.  A wait for the lock ends, because each
\* connection takes it once.
Fairness == WF_vars(Tick) /\ \A c \in Conns : WF_vars(Handler(c))

Spec == Init /\ [][Next]_vars /\ Fairness

-----------------------------------------------------------------------------
(* Properties. *)

\* However connections, crashes and give-ups fall, code-server runs once: a
\* second one would find the address taken (Ensure, start, the reaper).
OneBackend == ctx # "ended" => \A p, q \in Procs : proc[p] \in {"starting", "up"} /\ proc[q] \in {"starting", "up"} => p = q

\* After k failures in a row the next attempt waits base * 2^(k-1), or the
\* maximum, counted from the last failure, whichever connection makes it (fail,
\* the guard in Ensure).
BacksOff ==
    [][\A c \in Conns : pc[c] = "backoff" /\ pc'[c] # "backoff" /\ ctx = "run" /\ streak > 0 => since >= Backoff(streak)]_vars

\* Every connection is served or dropped: the lock always comes free.
Answered == \A c \in Conns : <>(pc[c] \in {"bridged", "dropped"})

\* "restarting it after a crash (rate-limited by backoff)": two starts have a
\* wait between them.  Fails: a process that was healthy once resets the count,
\* and its death sets no wait.
CrashIsPaced == [][\A c \in Conns : pc[c] = "backoff" /\ pc'[c] = "probe" /\ Used # {} => streak > 0]_vars

\* "Bail early if the process died during startup": a connection does not probe
\* a dead process to the end of its time.  Fails: the reaper waits for the lock
\* that the probing connection holds.
EarlyDeathNoticed == [][\A c \in Conns : pc[c] = "probe" /\ pc'[c] = "dropped" /\ left[c] = 0 => proc[cmd] # "dead"]_vars

\* After Shutdown no code-server is left running.  Fails: a connection that
\* waits for the lock starts one.
NoneLeftBehind == ctx = "ended" => \A p \in Procs : proc[p] # "none" => cmd # p
=============================================================================
