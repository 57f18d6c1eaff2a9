----------------------------- MODULE DevDriver -----------------------------
(***************************************************************************)
(* The process-backed driver of the node-agent                             *)
(* (nodeagent/internal/driver/dev) behind its HTTP handlers: records,      *)
(* child processes standing in for VMs, and the goroutines that finish a   *)
(* boot or a stop after the call that started it has returned.             *)
(*                                                                         *)
(* A child that dies is a zombie until the agent waits for it, and a       *)
(* zombie answers kill(pid, 0).  An agent that restarts loses its maps and *)
(* goroutines; the children live on, but as nobody's children.             *)
(***************************************************************************)
EXTENDS Naturals, FiniteSets

CONSTANTS
    Machines,    \* machine ids
    SubnetSize,  \* the number of addresses of the host's subnet
    MaxPid,      \* bound: child processes started
    MaxStops,    \* bound: stops of a machine in flight at once
    Serial,      \* whether callers wait for a machine's earlier calls to be over
    PidLost,     \* whether the write of a started child's pid may fail; every other
                 \* write of a record is taken to succeed
    MaxRestarts  \* bound: restarts of the agent

VARIABLES
    rec,         \* the record of each machine
    child,       \* the processes: machine, status, whether this agent is the
                 \* parent, whether the pid was written to the record
    procs,       \* DevDriver.procs: the pid the agent holds a Cmd for, or 0
    ensures,     \* EnsureRunning calls in flight: the booting slots
    boots,       \* finishBoot goroutines
    stops,       \* Stop calls and their finishStop goroutines
    destroys,    \* Destroy calls in flight
    up,          \* whether the agent serves (Reattach has run)
    restarts     \* the agent's restarts so far

memVars == <<procs, ensures, boots, stops, destroys>>
vars == <<rec, child, memVars, up, restarts>>

Pids == 1 .. MaxPid
States == {"absent", "creating", "running", "hibernating", "stopping", "stopped", "error"}
Modes == {"hibernate", "poweroff"}
Record == [state : States, pid : 0 .. MaxPid, snap : BOOLEAN, ip : 0 .. SubnetSize]
NoRec == [state |-> "absent", pid |-> 0, snap |-> FALSE, ip |-> 0]
NoChild == [m |-> {}, st |-> "free", ours |-> FALSE, noted |-> FALSE]

Known(m) == rec[m].state # "absent"
Held == [m \in Machines |-> rec[m].ip]
Records == INSTANCE NodeRecords WITH held <- Held

Init ==
    /\ rec = [m \in Machines |-> NoRec]
    /\ child = [p \in Pids |-> NoChild]
    /\ procs = [m \in Machines |-> 0]
    /\ ensures = {} /\ boots = {} /\ stops = {} /\ destroys = {}
    /\ up = TRUE /\ restarts = 0

\* Store.Update: a record that is gone stays gone, without an error.
Update(m, new) == rec' = IF Known(m) THEN [rec EXCEPT ![m] = new] ELSE rec

\* The calls and goroutines at work on m.
Busy(m) == \E j \in ensures \cup boots \cup stops \cup destroys : j.m = m
MayCall(m) == up /\ (Serial => ~Busy(m))

-----------------------------------------------------------------------------
(* Processes.                                                              *)

\* kill(pid, 0): a zombie is there, too.
processAlive(p) == p # 0 /\ child[p].st \in {"run", "dying", "zombie"}

\* The in-memory Cmd decides, and without one the recorded pid.
alive(m, pid) == processAlive(IF procs[m] # 0 THEN procs[m] ELSE pid)

Gone(c) == [c EXCEPT !.st = "gone", !.ours = FALSE, !.noted = FALSE]

ChildDies(p) ==
    /\ child[p].st \in {"run", "dying"}
    /\ child' = [child EXCEPT ![p] = IF @.ours THEN [@ EXCEPT !.st = "zombie"] ELSE Gone(@)]
    /\ UNCHANGED <<rec, memVars, up, restarts>>

\* SIGKILL and Wait: a child of this agent is reaped here, another by init.
kill(p) == IF p = 0 THEN child ELSE [child EXCEPT ![p] = Gone(@)]

-----------------------------------------------------------------------------
(* EnsureRunning.                                                          *)

\* The booting slot: held by a call for m until it returns.
EnsureClaim(m) == MayCall(m) /\ \A e \in ensures : e.m # m

\* Mutant: a record that exists is booted again, whether or not its child lives.
EnsureReserveAgain(m) ==
    /\ EnsureClaim(m)
    /\ \E a \in Records!GuestAddrs :
         /\ Known(m) \/ Records!IsLowestFree(a, Held)
         /\ rec' = IF Known(m) THEN rec ELSE [rec EXCEPT ![m] = [NoRec EXCEPT !.state = "creating", !.ip = a]]
    /\ ensures' = ensures \cup {[m |-> m, pc |-> IF Known(m) THEN "update" ELSE "start", p |-> 0]}
    /\ UNCHANGED <<child, procs, boots, stops, destroys, up, restarts>>

\* Mutant: the address of a stopped machine passes for free.
EnsureReserveStoppedFree(m) ==
    /\ EnsureClaim(m)
    /\ ~Known(m)
    /\ \E a \in Records!GuestAddrs :
         /\ Records!IsLowestFree(a, [n \in Machines |-> IF rec[n].state = "stopped" THEN 0 ELSE Held[n]])
         /\ rec' = [rec EXCEPT ![m] = [NoRec EXCEPT !.state = "creating", !.ip = a]]
    /\ ensures' = ensures \cup {[m |-> m, pc |-> "start", p |-> 0]}
    /\ UNCHANGED <<child, procs, boots, stops, destroys, up, restarts>>

\* Store.Reserve makes the record; a full subnet fails the call.  An existing
\* record is booted again unless it is creating or running with a live child.
EnsureReserve(m) ==
    /\ EnsureClaim(m)
    /\ \/ /\ ~Known(m)
          /\ \E a \in Records!GuestAddrs :
               /\ Records!IsLowestFree(a, Held)
               /\ rec' = [rec EXCEPT ![m] = [NoRec EXCEPT !.state = "creating", !.ip = a]]
          /\ ensures' = ensures \cup {[m |-> m, pc |-> "start", p |-> 0]}
       \/ /\ Known(m)
          /\ ~(rec[m].state \in {"creating", "running"} /\ alive(m, rec[m].pid))
          /\ ensures' = ensures \cup {[m |-> m, pc |-> "update", p |-> 0]}
          /\ UNCHANGED rec
    /\ UNCHANGED <<child, procs, boots, stops, destroys, up, restarts>>

\* Mutant: the snapshot is resumed from and kept.
EnsureUpdateKeeps(e) ==
    /\ e.pc = "update"
    /\ Update(e.m, [rec[e.m] EXCEPT !.state = "creating"])
    /\ ensures' = (ensures \ {e}) \cup {[e EXCEPT !.pc = "start"]}
    /\ UNCHANGED <<child, procs, boots, stops, destroys, up, restarts>>

\* Back to creating; the snapshot is consumed (how the boot is labelled, cold or
\* resumed, is left out).
EnsureUpdate(e) ==
    /\ e.pc = "update"
    /\ Update(e.m, [rec[e.m] EXCEPT !.state = "creating", !.snap = FALSE])
    /\ ensures' = (ensures \ {e}) \cup {[e EXCEPT !.pc = "start"]}
    /\ UNCHANGED <<child, procs, boots, stops, destroys, up, restarts>>

\* boot: the child is started and its Cmd stored, whatever became of the record.
BootStart(e) ==
    /\ e.pc = "start"
    /\ \E p \in Pids :
         /\ child[p].st = "free" /\ \A q \in 1 .. p - 1 : child[q].st # "free"
         /\ child' = [child EXCEPT ![p] = [m |-> {e.m}, st |-> "run", ours |-> TRUE, noted |-> FALSE]]
         /\ procs' = [procs EXCEPT ![e.m] = p]
         /\ ensures' = (ensures \ {e}) \cup {[e EXCEPT !.pc = "pid", !.p = p]}
    /\ UNCHANGED <<rec, boots, stops, destroys, up, restarts>>

\* buildCmd or Start fails: the record says so, and the call is over.
BootFails(e) ==
    /\ e.pc = "start"
    /\ Update(e.m, [rec[e.m] EXCEPT !.state = "error"])
    /\ ensures' = ensures \ {e}
    /\ UNCHANGED <<child, procs, boots, stops, destroys, up, restarts>>

\* Mutant: the pid is not recorded.
BootPidUnrecorded(e) ==
    /\ e.pc = "pid"
    /\ boots' = boots \cup {[m |-> e.m, p |-> e.p, pc |-> "wait"]}
    /\ ensures' = ensures \ {e}
    /\ UNCHANGED <<rec, child, procs, stops, destroys, up, restarts>>

\* boot, its second half: the pid is recorded and finishBoot starts.  If the write
\* fails, the call fails and the child runs on: EnsureRunning marks the record as
\* failed, which may fail as well, and nothing waits out the boot.
BootPid(e) ==
    /\ e.pc = "pid"
    /\ \E lost \in IF PidLost THEN BOOLEAN ELSE {FALSE} :
         /\ \E r \in IF lost THEN {rec[e.m], [rec[e.m] EXCEPT !.state = "error"]} ELSE {[rec[e.m] EXCEPT !.pid = e.p]} :
              Update(e.m, r)
         /\ child' = [child EXCEPT ![e.p].noted = (@ \/ (~lost /\ child[e.p].st # "gone"))]
         /\ boots' = IF lost THEN boots ELSE boots \cup {[m |-> e.m, p |-> e.p, pc |-> "wait"]}
    /\ ensures' = ensures \ {e}
    /\ UNCHANGED <<procs, stops, destroys, up, restarts>>

-----------------------------------------------------------------------------
(* finishBoot, after the boot delay.                                       *)

IfCreating(m, new) == rec' = IF rec[m].state = "creating" THEN [rec EXCEPT ![m] = new] ELSE rec

FinishBoot(b) ==
    /\ b.pc = "wait"
    /\ IfCreating(b.m, [rec[b.m] EXCEPT !.state = "running"])
    /\ boots' = boots \ {b}
    /\ UNCHANGED <<child, procs, ensures, stops, destroys, up, restarts>>

\* The fail-boot kernel: the child is killed first, then the record says error.
FinishBootKill(b) ==
    /\ b.pc = "wait"
    /\ child' = kill(b.p)
    /\ boots' = (boots \ {b}) \cup {[b EXCEPT !.pc = "killed"]}
    /\ UNCHANGED <<rec, procs, ensures, stops, destroys, up, restarts>>

\* Mutant: a failed boot leaves its record creating.
FinishBootForgets(b) ==
    /\ b.pc = "killed"
    /\ boots' = boots \ {b}
    /\ UNCHANGED <<rec, child, procs, ensures, stops, destroys, up, restarts>>

FinishBootFailed(b) ==
    /\ b.pc = "killed"
    /\ IfCreating(b.m, [rec[b.m] EXCEPT !.state = "error", !.pid = 0])
    /\ boots' = boots \ {b}
    /\ UNCHANGED <<child, procs, ensures, stops, destroys, up, restarts>>

-----------------------------------------------------------------------------
(* Stop and finishStop.                                                    *)

StopState(mode) == IF mode = "hibernate" THEN "hibernating" ELSE "stopping"
Step(s, pc) == stops' = (stops \ {s}) \cup {[s EXCEPT !.pc = pc]}

\* Stop reads the record: 404 without one, nothing to do when it is stopped.
StopLoad(m) ==
    /\ MayCall(m)
    /\ rec[m].state \notin {"absent", "stopped"}
    /\ Cardinality({s \in stops : s.m = m}) < MaxStops
    /\ \E mode \in Modes : stops' = stops \cup {[m |-> m, mode |-> mode, p |-> 0, pc |-> "mark"]}
    /\ UNCHANGED <<rec, child, procs, ensures, boots, destroys, up, restarts>>

StopMark(s) ==
    /\ s.pc = "mark"
    /\ Update(s.m, [rec[s.m] EXCEPT !.state = StopState(s.mode)])
    /\ Step(s, "take")
    /\ UNCHANGED <<child, procs, ensures, boots, destroys, up, restarts>>

StopTake(s) ==
    /\ s.pc = "take"
    /\ stops' = (stops \ {s}) \cup {[s EXCEPT !.pc = "term", !.p = procs[s.m]]}
    /\ UNCHANGED <<rec, child, procs, ensures, boots, destroys, up, restarts>>

\* SIGTERM.
StopTerm(s) ==
    /\ s.pc = "term"
    /\ child' = IF s.p # 0 /\ child[s.p].st = "run" THEN [child EXCEPT ![s.p].st = "dying"] ELSE child
    /\ Step(s, "wait")
    /\ UNCHANGED <<rec, procs, ensures, boots, destroys, up, restarts>>

\* Wait returns when the agent's own child has exited, by the signal or by the
\* kill after the grace period; on an adopted process it fails at once.
StopReap(s) ==
    /\ s.pc = "wait"
    /\ s.p # 0 /\ child[s.p].ours => child[s.p].st \in {"zombie", "gone"}
    /\ child' = IF s.p # 0 /\ child[s.p].ours THEN kill(s.p) ELSE child
    /\ procs' = [procs EXCEPT ![s.m] = 0]
    /\ Step(s, "record")
    /\ UNCHANGED <<rec, ensures, boots, destroys, up, restarts>>

\* Mutant: the state asked for, not the one reached, is recorded.
StopRecordMode(s) ==
    /\ s.pc = "record"
    /\ Update(s.m, [rec[s.m] EXCEPT !.state = s.mode, !.pid = 0])
    /\ stops' = stops \ {s}
    /\ UNCHANGED <<child, procs, ensures, boots, destroys, up, restarts>>

StopRecord(s) ==
    /\ s.pc = "record"
    /\ Update(s.m, [rec[s.m] EXCEPT !.state = "stopped", !.pid = 0, !.snap = (s.mode = "hibernate")])
    /\ stops' = stops \ {s}
    /\ UNCHANGED <<child, procs, ensures, boots, destroys, up, restarts>>

-----------------------------------------------------------------------------
(* Destroy.                                                                *)

DestroyTake(m) ==
    /\ MayCall(m)
    /\ \A d \in destroys : d.m # m
    /\ destroys' = destroys \cup {[m |-> m, p |-> procs[m], pc |-> "kill"]}
    /\ procs' = [procs EXCEPT ![m] = 0]
    /\ UNCHANGED <<rec, child, ensures, boots, stops, up, restarts>>

DestroyKill(d) ==
    /\ d.pc = "kill"
    /\ child' = kill(d.p)
    /\ destroys' = (destroys \ {d}) \cup {[d EXCEPT !.pc = "delete"]}
    /\ UNCHANGED <<rec, procs, ensures, boots, stops, up, restarts>>

DestroyDelete(d) ==
    /\ d.pc = "delete"
    /\ rec' = [rec EXCEPT ![d.m] = NoRec]
    /\ destroys' = destroys \ {d}
    /\ UNCHANGED <<child, procs, ensures, boots, stops, up, restarts>>

-----------------------------------------------------------------------------
(* Restart and Reattach.                                                   *)

AgentStops ==
    /\ up /\ restarts < MaxRestarts
    /\ up' = FALSE /\ restarts' = restarts + 1
    /\ child' = [p \in Pids |-> IF child[p].st = "zombie" THEN Gone(child[p]) ELSE [child[p] EXCEPT !.ours = FALSE]]
    /\ procs' = [m \in Machines |-> 0]
    /\ ensures' = {} /\ boots' = {} /\ stops' = {} /\ destroys' = {}
    /\ UNCHANGED rec

\* Reattach, one record: a live child makes it running, a dead one error.
Reattached(r) ==
    CASE r.state \in {"creating", "running"} /\ processAlive(r.pid) -> [r EXCEPT !.state = "running"]
      [] r.state \in {"creating", "running"} /\ ~processAlive(r.pid) -> [r EXCEPT !.state = "error", !.pid = 0]
      [] OTHER -> r

\* The stops the last agent did not finish are finished now.
ResumedStops ==
    {[m |-> m, mode |-> IF rec[m].state = "hibernating" THEN "hibernate" ELSE "poweroff",
      p |-> IF processAlive(rec[m].pid) THEN rec[m].pid ELSE 0, pc |-> "term"] :
        m \in {n \in Machines : rec[n].state \in {"hibernating", "stopping"}}}

\* Called once, before the agent serves: live children are adopted.
Reattach ==
    /\ ~up /\ up' = TRUE
    /\ rec' = [m \in Machines |-> Reattached(rec[m])]
    /\ procs' = [m \in Machines |->
                    IF rec[m].state \in {"creating", "running", "hibernating", "stopping"} /\ processAlive(rec[m].pid)
                    THEN rec[m].pid ELSE 0]
    /\ stops' = ResumedStops
    /\ UNCHANGED <<child, ensures, boots, destroys, restarts>>

-----------------------------------------------------------------------------
Ensure(m) == \E e \in ensures : e.m = m /\ (EnsureUpdate(e) \/ BootStart(e) \/ BootFails(e) \/ BootPid(e))
Finish(m) == \E b \in boots : b.m = m /\ (FinishBoot(b) \/ FinishBootKill(b) \/ FinishBootFailed(b))
Stop(m) ==
    \E s \in stops : s.m = m /\ (StopMark(s) \/ StopTake(s) \/ StopTerm(s) \/ StopReap(s) \/ StopRecord(s))
Destroy(m) == \E d \in destroys : d.m = m /\ (DestroyKill(d) \/ DestroyDelete(d))

Next ==
    \/ \E m \in Machines : EnsureReserve(m) \/ StopLoad(m) \/ DestroyTake(m)
    \/ \E m \in Machines : Ensure(m) \/ Finish(m) \/ Stop(m) \/ Destroy(m)
    \/ \E p \in Pids : ChildDies(p)
    \/ AgentStops \/ Reattach

Spec == Init /\ [][Next]_vars

\* Goroutines and handlers that can go on do, a signalled child exits (by the
\* kill after the grace period if not before), and an agent is started again.
Fairness ==
    /\ \A m \in Machines : WF_vars(Ensure(m)) /\ WF_vars(Finish(m)) /\ WF_vars(Stop(m)) /\ WF_vars(Destroy(m))
    /\ WF_vars(Reattach)
    /\ \A p \in Pids : WF_vars(child[p].st = "dying" /\ ChildDies(p))

FairSpec == Spec /\ Fairness

-----------------------------------------------------------------------------
(* What the handlers report.                                               *)

Status(m) == rec[m].state
List == {m \in Machines : Known(m)}

\* Mutant: a machine on its way down is no longer counted.
CapacityOnlyUp == {m \in List : rec[m].state \in {"creating", "running"}}

\* Capacity: the machines whose vcpus and memory are reported as used.
Capacity == {m \in List : rec[m].state \notin {"stopped", "error"}}

-----------------------------------------------------------------------------
TypeOK ==
    /\ rec \in [Machines -> Record]
    /\ \A p \in Pids : /\ child[p].st \in {"free", "run", "dying", "zombie", "gone"}
                        /\ child[p].ours \in BOOLEAN /\ child[p].noted \in BOOLEAN
                        /\ child[p].m \subseteq Machines
    /\ procs \in [Machines -> 0 .. MaxPid]
    /\ \A e \in ensures : e.m \in Machines /\ e.pc \in {"update", "start", "pid"} /\ e.p \in 0 .. MaxPid
    /\ \A b \in boots : b.m \in Machines /\ b.p \in Pids /\ b.pc \in {"wait", "killed"}
    /\ \A s \in stops : s.m \in Machines /\ s.mode \in Modes /\ s.p \in 0 .. MaxPid
    /\ \A d \in destroys : d.m \in Machines /\ d.p \in 0 .. MaxPid
    /\ up \in BOOLEAN /\ restarts \in 0 .. MaxRestarts

\* The children of m that an agent knows: its own, and those whose pid was written
\* down.  Left out are the children of an agent that died before it wrote their
\* pid: no later agent can tell that they run (OrphansKnown).
Children(m) == {p \in Pids : child[p].m = {m} /\ child[p].st = "run" /\ (child[p].ours \/ child[p].noted)}

\* The guard in EnsureRunning and the adoption in Reattach keep a machine to one
\* child, however stops, restarts and deaths are ordered, when its calls come one
\* after another and the pid can be written.
OneChild == \A m \in Machines : \A p, q \in Children(m) : p = q

\* What Capacity reports as free is free: a machine with a child that has not
\* been signalled is counted, so that placement does not overbook the host.
CapacityCounts == \A m \in Machines : Children(m) # {} => m \in Capacity

\* The agent's Cmd for a machine is the machine's own child, and the one its
\* record names: what Stop signals and Destroy kills is what the record means.
CmdIsRecorded ==
    \A m \in Machines :
        /\ procs[m] # 0 => child[procs[m]].m = {m}
        /\ up /\ rec[m].state = "running" /\ (\A d \in destroys : d.m # m)
              => procs[m] = rec[m].pid /\ rec[m].pid # 0

\* A call answered with 202 is followed up: a machine that is creating, stopping
\* or hibernating reaches a settled state, across restarts of the agent.
Settles ==
    \A m \in Machines : rec[m].state \in {"creating", "stopping", "hibernating"} ~> rec[m].state \in {"absent", "running", "stopped", "error"}

Contract == INSTANCE DriverContract WITH
    status <- [m \in Machines |-> rec[m].state],
    snapshot <- [m \in Machines |-> rec[m].snap]

\* The driver keeps the interface's promises: its records move as the Driver
\* contract says, and its addresses as the record store says.
ImplementsDriver == Contract!Spec
KeepsAddresses == Records!Spec

\* A restarted agent "can still find/signal" its children: every child that runs
\* is one that an agent knows.  Does not hold: between Start and the write of the
\* pid an agent can die, and its child runs on beside the next one.
OrphansKnown == \A m \in Machines, p \in Pids : child[p].m = {m} /\ child[p].st = "run" => p \in Children(m)

\* EnsureRunning boots "a stopped/error/dead machine": a call for a machine whose
\* child has died is not answered as if it ran.  Does not hold: a child that
\* died is a zombie, and a zombie passes for alive.
DeadIsNotUp ==
    \A m \in Machines :
        up /\ rec[m].state = "running" /\ child[rec[m].pid].st \in {"zombie", "gone"} => ~alive(m, rec[m].pid)
=============================================================================
