------------------------------- MODULE Fleet --------------------------------
(***************************************************************************)
(* Machines on several hosts: where the scheduler places a new one         *)
(* (controlplane/internal/machine/scheduler.go), how calls find a host's   *)
(* node-agent (controlplane/internal/nodeclient), and how the sweep of     *)
(* running machines (machine/poller.go) judges the merged list of all the  *)
(* agents.  What happens to one machine on one host is the subject of      *)
(* MachineLifecycle; here a boot or a stop is one step.                    *)
(***************************************************************************)
EXTENDS Naturals, FiniteSets, FiniteSetsExt

CONSTANTS
    Hosts,          \* host rows, numbered by name
    Machines,
    Total,          \* Total[h]: the host's configured vcpus and memory
    Need,           \* Need[m]: the machine's
    BlipThreshold,
    MaxFaults,      \* bound: agents that go down or move, VMs that die
    May             \* "overlap": creates at once; "start": a machine is started
                    \* again at any time, not only when its host has room and
                    \* nothing else goes on; "retire": an operator deactivates
                    \* a host that has machines, or the last but one

VARIABLES
    active,         \* the hosts of status active
    url,            \* agent_url of each host row
    addr, up,       \* where its agent listens, and whether it answers
    cache,          \* Registry.clients: the url each client was made for
    row,            \* machine rows: state and host
    vm,             \* the agents' records
    create,         \* Create calls
    sweep,          \* the sweep in progress
    blips,          \* Poller.blipCount
    faults

hostvars == <<active, url, addr, up>>
vars == <<hostvars, cache, row, vm, create, sweep, blips, faults>>

NoCall == [pc |-> "no", left |-> {}, best |-> 0, free |-> 0]
NoSweep == [pc |-> "idle", rows |-> {}, left |-> {}, urls |-> [h \in Hosts |-> 0], running |-> {}]

Init ==
    /\ active = Hosts /\ up = Hosts
    /\ url = [h \in Hosts |-> 1] /\ addr = url /\ cache = [h \in Hosts |-> 0]
    /\ row = [m \in Machines |-> [state |-> "none", host |-> 0]] /\ vm = [m \in Machines |-> "none"]
    /\ create = [m \in Machines |-> NoCall] /\ sweep = NoSweep
    /\ blips = [m \in Machines |-> 0] /\ faults = 0

-----------------------------------------------------------------------------
\* The registry: a client is used again if it was made for the url of the row,
\* and replaced otherwise.

\* Mutant: a client, once made, is the host's client.
ClientByHost(h, rowUrl) == IF cache[h] # 0 THEN cache[h] ELSE rowUrl

clientForHost(h, rowUrl) == IF cache[h] = rowUrl THEN cache[h] ELSE rowUrl

\* A call through that client arrives.
Reaches(h, rowUrl) == h \in up /\ clientForHost(h, rowUrl) = addr[h]
Cached(h, rowUrl) == cache' = [cache EXCEPT ![h] = clientForHost(h, rowUrl)]

\* A call for a machine goes to the host of its row.
clientForMachine(m) == Cached(row[m].host, url[row[m].host])
Reached(m) == Reaches(row[m].host, url[row[m].host])

-----------------------------------------------------------------------------
\* Placement.

OnHost(h) == {m \in Machines : row[m].host = h /\ vm[m] = "running"}
Used(h, what) == MapThenSumSet(LAMBDA m : Need[m][what], OnHost(h))

\* The agent's answer: a record that is stopped or in error holds no memory.
Capacity(h, what) == IF Used(h, what) >= Total[h][what] THEN 0 ELSE Total[h][what] - Used(h, what)

\* Mutant: only memory is looked at.
FitsMem(h, m) == Need[m].mem <= Capacity(h, "mem")

Fits(h, m) == \A what \in {"vcpus", "mem"} : Need[m][what] <= Capacity(h, what)

Quiet == \A m \in Machines : create[m].pc \in {"no", "done"} /\ row[m].state # "starting"

\* chooseHost: no host, the only one unseen, or each in turn.
Create(m) ==
    /\ create[m].pc = "no" /\ row[m].state = "none"
    /\ "overlap" \in May \/ Quiet
    /\ create' = [create EXCEPT ![m] =
            IF active = {} THEN [@ EXCEPT !.pc = "done"]
            ELSE IF Cardinality(active) = 1 THEN [@ EXCEPT !.pc = "insert", !.best = CHOOSE h \in active : TRUE]
            ELSE [@ EXCEPT !.pc = "query", !.left = active]]
    /\ UNCHANGED <<hostvars, cache, row, vm, sweep, blips, faults>>

\* One host is asked; hosts come by name, so that the first of two that are
\* equally free stays the best.
Query(m) ==
    /\ create[m].pc = "query" /\ create[m].left # {}
    /\ LET h == Min(create[m].left)
           rest == [create[m] EXCEPT !.left = @ \ {h}] IN
       /\ Cached(h, url[h])
       /\ create' = [create EXCEPT ![m] =
            IF Reaches(h, url[h]) /\ Fits(h, m) /\ (rest.best = 0 \/ Capacity(h, "mem") > rest.free)
            THEN [rest EXCEPT !.best = h, !.free = Capacity(h, "mem")] ELSE rest]
    /\ UNCHANGED <<hostvars, row, vm, sweep, blips, faults>>

\* ErrNoCapacity, or the host with the most free memory.
Choose(m) ==
    /\ create[m].pc = "query" /\ create[m].left = {}
    /\ create' = [create EXCEPT ![m].pc = IF create[m].best = 0 THEN "done" ELSE "insert"]
    /\ UNCHANGED <<hostvars, cache, row, vm, sweep, blips, faults>>

CreateMachine(m) ==
    /\ create[m].pc = "insert"
    /\ row' = [row EXCEPT ![m] = [state |-> "starting", host |-> create[m].best]]
    /\ create' = [create EXCEPT ![m].pc = "ensure"]
    /\ UNCHANGED <<hostvars, cache, vm, sweep, blips, faults>>

\* Ensure of a created or a started machine, at the host of its row.
Ensure(m) ==
    /\ row[m].state = "starting"
    /\ clientForMachine(m)
    /\ row' = [row EXCEPT ![m].state = IF Reached(m) THEN "running" ELSE "error"]
    /\ vm' = [vm EXCEPT ![m] = IF Reached(m) THEN "running" ELSE @]
    /\ create' = [create EXCEPT ![m].pc = "done"]
    /\ UNCHANGED <<hostvars, sweep, blips, faults>>

\* Start asks nobody whether the host has room.
Start(m) ==
    /\ row[m].state \in {"stopped", "error"}
    /\ "start" \in May \/ (Quiet /\ sweep.pc = "idle" /\ Fits(row[m].host, m))
    /\ row' = [row EXCEPT ![m].state = "starting"]
    /\ UNCHANGED <<hostvars, cache, vm, create, sweep, blips, faults>>

Stop(m) ==
    /\ row[m].state = "running"
    /\ clientForMachine(m)
    /\ row' = [row EXCEPT ![m].state = IF Reached(m) THEN "stopped" ELSE "error"]
    /\ vm' = [vm EXCEPT ![m] = IF Reached(m) THEN "stopped" ELSE @]
    /\ UNCHANGED <<hostvars, create, sweep, blips, faults>>

-----------------------------------------------------------------------------
\* SweepRunning.

RunningRows == {m \in Machines : row[m].state = "running"}

\* The running rows are read, then the active hosts.
SweepStart ==
    /\ sweep.pc = "idle" /\ RunningRows # {}
    /\ sweep' = [pc |-> "list", rows |-> RunningRows, left |-> active, urls |-> url, running |-> {}]
    /\ UNCHANGED <<hostvars, cache, row, vm, create, blips, faults>>

\* A machine is moved to error only out of running.
toError(lost) == row' = [m \in Machines |-> IF m \in lost /\ row[m].state = "running" THEN [row[m] EXCEPT !.state = "error"] ELSE row[m]]

Answers(h) == Reaches(h, sweep.urls[h])

\* Mutant: a host that does not answer is left out of the list.
ListSkips ==
    /\ sweep.pc = "list" /\ sweep.left # {}
    /\ LET h == Min(sweep.left) IN
       /\ Cached(h, sweep.urls[h])
       /\ sweep' = [sweep EXCEPT !.left = @ \ {h}, !.running = @ \union (IF Answers(h) THEN OnHost(h) ELSE {})]
    /\ UNCHANGED <<hostvars, row, vm, create, blips, faults>>

\* Registry.List: one agent after another.
List ==
    /\ sweep.pc = "list" /\ sweep.left # {}
    /\ LET h == Min(sweep.left) IN
       /\ Answers(h) /\ Cached(h, sweep.urls[h])
       /\ sweep' = [sweep EXCEPT !.left = @ \ {h}, !.running = @ \union OnHost(h)]
    /\ UNCHANGED <<hostvars, row, vm, create, blips, faults>>

\* One does not answer: the list fails, and every running machine has one
\* failure more.
ListFails ==
    /\ sweep.pc = "list" /\ sweep.left # {}
    /\ LET h == Min(sweep.left)
           lost == {m \in sweep.rows : blips[m] + 1 >= BlipThreshold} IN
       /\ ~Answers(h) /\ Cached(h, sweep.urls[h]) /\ toError(lost)
       /\ blips' = [m \in Machines |-> IF m \in lost THEN 0 ELSE IF m \in sweep.rows THEN blips[m] + 1 ELSE blips[m]]
    /\ sweep' = NoSweep
    /\ UNCHANGED <<hostvars, vm, create, faults>>

\* All answered: what is not in the list, or not running there, is lost.
SweepEnd ==
    /\ sweep.pc = "list" /\ sweep.left = {}
    /\ toError(sweep.rows \ sweep.running)
    /\ blips' = [m \in Machines |-> IF m \in sweep.rows THEN 0 ELSE blips[m]]
    /\ sweep' = NoSweep
    /\ UNCHANGED <<hostvars, cache, vm, create, faults>>

-----------------------------------------------------------------------------
\* The hosts.

Fault == faults < MaxFaults /\ faults' = faults + 1

AgentDown(h) ==
    /\ Fault /\ h \in up /\ up' = up \ {h}
    /\ UNCHANGED <<active, url, addr, cache, row, vm, create, sweep, blips>>

AgentUp(h) ==
    /\ h \notin up /\ up' = up \union {h}
    /\ UNCHANGED <<active, url, addr, cache, row, vm, create, sweep, blips, faults>>

\* The agent moves, and an operator re-points its row.
AgentMoves(h) ==
    /\ Fault /\ addr' = [addr EXCEPT ![h] = @ + 1]
    /\ UNCHANGED <<active, url, up, cache, row, vm, create, sweep, blips>>

Repoint(h) ==
    /\ url[h] # addr[h] /\ url' = [url EXCEPT ![h] = addr[h]]
    /\ UNCHANGED <<active, addr, up, cache, row, vm, create, sweep, blips, faults>>

VMDies(m) ==
    /\ Fault /\ vm[m] = "running" /\ vm' = [vm EXCEPT ![m] = "error"]
    /\ UNCHANGED <<hostvars, cache, row, create, sweep, blips>>

\* hosts.status, set by an operator.
Deactivate(h) ==
    /\ h \in active
    /\ "retire" \in May \/ (Cardinality(active) > 2 /\ Quiet /\ \A m \in Machines : row[m].host # h)
    /\ active' = active \ {h}
    /\ UNCHANGED <<url, addr, up, cache, row, vm, create, sweep, blips, faults>>

Next ==
    \/ \E m \in Machines : Create(m) \/ Query(m) \/ Choose(m) \/ CreateMachine(m) \/ Ensure(m) \/ Start(m) \/ Stop(m) \/ VMDies(m)
    \/ SweepStart \/ List \/ ListFails \/ SweepEnd
    \/ \E h \in Hosts : AgentDown(h) \/ AgentUp(h) \/ AgentMoves(h) \/ Repoint(h) \/ Deactivate(h)

Spec == Init /\ [][Next]_vars

-----------------------------------------------------------------------------
\* With creates one at a time, no host runs more than it has, whichever agents
\* went down or moved while they were asked.
NoOvercommit == \A h \in Hosts : \A what \in {"vcpus", "mem"} : Used(h, what) <= Total[h][what]

\* A list that went through never takes a machine that runs on its host for
\* lost ("better than a machine on a healthy host being silently dropped",
\* Registry.List), though hosts fail, move and stop machines between its
\* calls.
NotMistakenForLost ==
    [][\A m \in Machines :
         sweep.pc = "list" /\ sweep.left = {} /\ sweep' # sweep /\ row[m].state = "running" /\ row'[m].state = "error"
             => vm[m] # "running"]_vars

Moved(h) == url[h] # addr[h]

\* A call about a machine fails only when its agent is down or not where its
\* row says, also after it moved and its row was re-pointed (clientForHost).
CallsFollowTheRow ==
    [][\A m \in Machines :
         row[m].state # "error" /\ row'[m].state = "error" /\ sweep' = sweep => row[m].host \notin up \/ Moved(row[m].host)]_vars

\* A machine that runs on a host that answers is not moved to error because
\* another host does not ("one being down", chooseHost).
HealthyKept ==
    [][\A m \in Machines :
         row[m].state = "running" /\ row'[m].state = "error" /\ vm[m] = "running" => row[m].host \notin up \/ Moved(row[m].host)]_vars
=============================================================================
