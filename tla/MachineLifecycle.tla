-------------------------- MODULE MachineLifecycle --------------------------
(***************************************************************************)
(* The machine lifecycle of the control plane                              *)
(* (controlplane/internal/machine): the machine rows and their audit log,  *)
(* the user-facing Service (Create, Start, Stop, Destroy), the Poller that *)
(* advances machines, and the node-agent's record of each machine as the   *)
(* control plane sees it through its API.                                  *)
(*                                                                         *)
(* A request is one HTTP handler goroutine.  It is cut where another actor *)
(* can run: at every database statement that reads or writes the machine   *)
(* and at every node-agent call.  The poller is one goroutine; it acts on  *)
(* rows it listed earlier and on statuses it fetched earlier.              *)
(***************************************************************************)
EXTENDS MachineStates, Naturals, Sequences, FiniteSets

CONSTANTS
    Machines,         \* machine ids (UUIDs: an id is never used twice)
    Requests,         \* API requests; each is served once
    NoMachine,        \* the machine of a request that has none yet
    Ops,              \* the operations requests may ask for
    MaxPerUser,       \* Service.MaxPerUser: the owner's machine cap
    BlipThreshold,    \* unreachable sweeps that turn running into error
    MaxStartRetries,  \* unreachable polls that turn booting into error
    Faults            \* the failures the environment may produce

FaultKinds == {"setup", "call", "vm", "forget", "crash", "cancel", "write"}
OpKinds == {"create", "start", "stop", "destroy"}

ASSUME ConstantsAssumption ==
    /\ NoMachine \notin Machines
    /\ Ops \subseteq OpKinds
    /\ Faults \subseteq FaultKinds
    /\ MaxPerUser \in Nat \ {0}
    /\ BlipThreshold \in Nat \ {0}
    /\ MaxStartRetries \in Nat \ {0}

VARIABLES
    state,      \* machines.state; "none" before the row exists, "deleted" after
    guestIP,    \* the machines whose row has guest_ip set
    snapshots,  \* the snapshots table: machines with a current snapshot row
    events,     \* the machine_events table: the audit log of each machine
    keys,       \* the machines whose volume key is in the secret store
    req,        \* the handler goroutines
    agent,      \* the node-agent's record of each machine: its state
    frozen,     \* ... and whether it holds a hibernation snapshot
    booting,    \* machines with a boot goroutine under way on the agent
    halting,    \* machines with a stop goroutine under way on the agent
    poll,       \* the poller goroutine
    blip,       \* Poller.blipCount
    retries,    \* Poller.startRetryCount
    misses,     \* history: unreachable sweeps since the machine became running,
                \* was last reported by the agent or last given up
    leftover    \* history: the snapshot rows that stand because the poller's
                \* last statement about them failed

dbVars == <<state, guestIP, snapshots, events>>
agentVars == <<agent, frozen, booting, halting>>
pollVars == <<poll, blip, retries, misses, leftover>>
vars == <<dbVars, keys, req, agentVars, pollVars>>

Live == {m \in Machines : state[m] \in States}

AgentStates == {"absent", "creating", "running", "hibernating", "stopped", "error"}

RowStates == States \cup {"none", "deleted"}
Event == [from : States, to : States]
RequestPc == {"new", "insert", "disk", "mint", "provision", "cas", "build", "ensure",
              "record", "fail", "stop", "dagent", "dkey", "drow", "done"}
Request == [op : OpKinds \cup {"none"}, pc : RequestPc,
            m : Machines \cup {NoMachine}, from : States \cup {"none"}]
PollPc == {"idle", "observe", "record", "commit", "retry", "list", "miss", "check"}
Poll == [pc : PollPc, rows : [Machines -> States \cup {"none"}],
         m : Machines \cup {NoMachine}, to : States \cup {"none"},
         snap : {"present", "absent"}, obs : [Machines -> AgentStates]]

NewRequest == [op |-> "none", pc |-> "new", m |-> NoMachine, from |-> "none"]
IdlePoll == [pc |-> "idle", rows |-> [m \in Machines |-> "none"], m |-> NoMachine,
             to |-> "none", snap |-> "absent", obs |-> [m \in Machines |-> "absent"]]

Init ==
    /\ state = [m \in Machines |-> "none"]
    /\ guestIP = {} /\ snapshots = {} /\ keys = {}
    /\ events = [m \in Machines |-> <<>>]
    /\ req = [r \in Requests |-> NewRequest]
    /\ agent = [m \in Machines |-> "absent"]
    /\ frozen = {} /\ booting = {} /\ halting = {}
    /\ poll = IdlePoll
    /\ blip = [m \in Machines |-> 0]
    /\ retries = [m \in Machines |-> 0]
    /\ misses = [m \in Machines |-> 0]
    /\ leftover = {}

-----------------------------------------------------------------------------
(* Transition: the compare-and-set on machines.state and the audit insert, *)
(* in one transaction.  A lost race changes nothing.                       *)

\* Mutant of Wins: an update that does not compare the state it replaces.
WinsBlindly(m, from, to) == CanTransition(from, to) /\ state[m] \in States

Wins(m, from, to) == CanTransition(from, to) /\ state[m] = from

Transition(m, from, to) ==
    /\ IF Wins(m, from, to)
       THEN /\ state' = [state EXCEPT ![m] = to]
            /\ events' = [events EXCEPT ![m] = Append(@, [from |-> from, to |-> to])]
       ELSE UNCHANGED <<state, events>>
    /\ UNCHANGED <<guestIP, snapshots>>

\* DeleteMachine: the row goes, and the cascade takes its snapshot and its log.
DeleteMachine(m) ==
    /\ state' = [state EXCEPT ![m] = "deleted"]
    /\ events' = [events EXCEPT ![m] = <<>>]
    /\ guestIP' = guestIP \ {m}
    /\ snapshots' = snapshots \ {m}

-----------------------------------------------------------------------------
(* The node-agent, as its API shows it.  A boot and a stop run on in       *)
(* goroutines of their own after the call has returned.                    *)

\* EnsureRunning: a no-op on a machine that is up; otherwise (re)boot it.  A
\* record that says creating or running whose VMM is dead is booted again.
AgentEnsure(m) ==
    \/ /\ agent[m] \in {"creating", "running"}
       /\ UNCHANGED agentVars
    \/ /\ agent[m] \notin {"creating", "running"} \/ (agent[m] = "running" /\ "vm" \in Faults)
       /\ agent' = [agent EXCEPT ![m] = "creating"]
       /\ booting' = booting \cup {m}
       /\ UNCHANGED <<frozen, halting>>

\* Stop (hibernate) of a tracked machine; already stopped is a no-op.
AgentStop(m) ==
    IF agent[m] = "stopped"
    THEN UNCHANGED agentVars
    ELSE /\ agent' = [agent EXCEPT ![m] = "hibernating"]
         /\ halting' = halting \cup {m}
         /\ UNCHANGED <<frozen, booting>>

\* Destroy; a boot or stop goroutine still under way goes on.
AgentDestroy(m) ==
    /\ agent' = [agent EXCEPT ![m] = "absent"]
    /\ frozen' = frozen \ {m}
    /\ UNCHANGED <<booting, halting>>

\* The boot goroutine succeeds: running only if the record is still creating,
\* and either kind of boot consumes the snapshot.
AgentBoot(m) ==
    /\ m \in booting
    /\ booting' = booting \ {m}
    /\ agent' = [agent EXCEPT ![m] = IF @ = "creating" THEN "running" ELSE @]
    /\ frozen' = frozen \ {m}
    /\ UNCHANGED <<dbVars, keys, req, halting, pollVars>>

\* The boot goroutine fails: error, whatever the record says by now.
AgentBootFails(m) ==
    /\ "vm" \in Faults
    /\ m \in booting
    /\ booting' = booting \ {m}
    /\ agent' = [agent EXCEPT ![m] = IF @ = "absent" THEN @ ELSE "error"]
    /\ UNCHANGED <<dbVars, keys, req, frozen, halting, pollVars>>

\* finishStop ends: stopped, with a snapshot unless it fell back to poweroff.
AgentFinishStop(m) ==
    /\ m \in halting
    /\ halting' = halting \ {m}
    /\ IF agent[m] = "absent"
       THEN UNCHANGED <<agent, frozen>>
       ELSE /\ agent' = [agent EXCEPT ![m] = "stopped"]
            /\ frozen' \in {frozen \cup {m}, frozen \ {m}}
    /\ UNCHANGED <<dbVars, keys, req, booting, pollVars>>

\* Reattach after an agent restart finds the VMM of an up machine dead.
AgentLosesVM(m) ==
    /\ "vm" \in Faults
    /\ agent[m] \in {"creating", "running"}
    /\ agent' = [agent EXCEPT ![m] = "error"]
    /\ booting' = booting \ {m}
    /\ UNCHANGED <<dbVars, keys, req, frozen, halting, pollVars>>

\* The agent no longer has the record (its state directory was replaced).
AgentForgets(m) ==
    /\ "forget" \in Faults
    /\ agent[m] # "absent"
    /\ agent' = [agent EXCEPT ![m] = "absent"]
    /\ frozen' = frozen \ {m}
    /\ booting' = booting \ {m}
    /\ halting' = halting \ {m}
    /\ UNCHANGED <<dbVars, keys, req, pollVars>>

\* A call fails in one of two ways: refused or never delivered, or carried out
\* with its answer lost (the client's 10 s timeout).
FailedCall(effect) == "call" \in Faults /\ (UNCHANGED agentVars \/ effect)

-----------------------------------------------------------------------------
(* Service: the request handlers.                                          *)

\* A handler that has answered keeps nothing.
Ended == [NewRequest EXCEPT !.pc = "done"]

Goto(r, pc) == req' = [req EXCEPT ![r] = IF pc = "done" THEN Ended ELSE [@ EXCEPT !.pc = pc]]

At(r, op, pc) == req[r].op = op /\ req[r].pc = pc

Arrive(r, op, m, from, pc) ==
    /\ req[r].pc = "new"
    /\ op \in Ops
    /\ req' = [req EXCEPT ![r] = IF pc = "done" THEN Ended
                                ELSE [op |-> op, pc |-> pc, m |-> m, from |-> from]]

\* Create, first half: count the owner's machines; over the cap, or without a
\* template or a host with room, the create ends here.
CreateCount(r) ==
    /\ \/ /\ Cardinality(Live) < MaxPerUser
          /\ Arrive(r, "create", NoMachine, "none", "insert")
       \/ /\ Cardinality(Live) >= MaxPerUser \/ "setup" \in Faults
          /\ Arrive(r, "create", NoMachine, "none", "done")
    /\ UNCHANGED <<dbVars, keys, agentVars, pollVars>>

CreateInsert(r) ==
    /\ At(r, "create", "insert")
    /\ \E m \in Machines :
         /\ state[m] = "none"
         /\ state' = [state EXCEPT ![m] = "requested"]
         /\ req' = [req EXCEPT ![r].m = m, ![r].pc = "disk"]
    /\ UNCHANGED <<guestIP, snapshots, events, keys, agentVars, pollVars>>

\* The deferred compensation: a set-up step failed, so delete the row.
Compensate(r) ==
    /\ DeleteMachine(req[r].m)
    /\ Goto(r, "done")

\* CreateDisk and SetMachineDisk; they fail when the row is gone.
CreateDisk(r) ==
    /\ At(r, "create", "disk")
    /\ \/ /\ req[r].m \in Live
          /\ Goto(r, "mint")
          /\ UNCHANGED dbVars
       \/ /\ req[r].m \notin Live \/ "setup" \in Faults
          /\ Compensate(r)
    /\ UNCHANGED <<keys, agentVars, pollVars>>

CreateMintKey(r) ==
    /\ At(r, "create", "mint")
    /\ \/ /\ keys' = keys \cup {req[r].m}
          /\ Goto(r, "provision")
          /\ UNCHANGED dbVars
       \/ /\ "setup" \in Faults
          /\ Compensate(r)
          /\ UNCHANGED keys
    /\ UNCHANGED <<agentVars, pollVars>>

CreateProvision(r) ==
    LET m == req[r].m IN
    /\ At(r, "create", "provision")
    /\ \/ /\ Wins(m, "requested", "provisioning")
          /\ Transition(m, "requested", "provisioning")
          /\ req' = [req EXCEPT ![r].pc = "build", ![r].from = "provisioning"]
       \/ /\ ~Wins(m, "requested", "provisioning")
          /\ Compensate(r)
    /\ UNCHANGED <<keys, agentVars, pollVars>>

\* Start reads the row and refuses unless it is stopped or errored.
StartRead(r) ==
    /\ \E m \in Live :
         Arrive(r, "start", m, state[m],
                IF state[m] \in {"stopped", "error"} THEN "cas" ELSE "done")
    /\ UNCHANGED <<dbVars, keys, agentVars, pollVars>>

StartTransition(r) ==
    LET m == req[r].m IN
    /\ At(r, "start", "cas")
    /\ Transition(m, req[r].from, "starting")
    /\ IF Wins(m, req[r].from, "starting")
       THEN req' = [req EXCEPT ![r].pc = "build", ![r].from = "starting"]
       ELSE Goto(r, "done")
    /\ UNCHANGED <<keys, agentVars, pollVars>>

\* buildEnsureRequest: the volume key must be there.
EnsureBuild(r) ==
    /\ req[r].pc = "build"
    /\ Goto(r, IF req[r].m \in keys THEN "ensure" ELSE "fail")
    /\ UNCHANGED <<dbVars, keys, agentVars, pollVars>>

EnsureCall(r) ==
    /\ req[r].pc = "ensure"
    /\ \/ AgentEnsure(req[r].m) /\ Goto(r, "record")
       \/ FailedCall(AgentEnsure(req[r].m)) /\ Goto(r, "fail")
    /\ UNCHANGED <<dbVars, keys, pollVars>>

\* ensureOnAgent's SetMachineRuntime: the handle is recorded and guest_ip,
\* which this call leaves unset, is overwritten with NULL.
EnsureRecord(r) ==
    /\ req[r].pc = "record"
    /\ guestIP' = guestIP \ {req[r].m}
    /\ Goto(r, "done")
    /\ UNCHANGED <<state, snapshots, events, keys, agentVars, pollVars>>

\* fail: from the state this handler left the machine in, to error.
Fail(r) ==
    /\ req[r].pc = "fail"
    /\ Transition(req[r].m, req[r].from, "error")
    /\ Goto(r, "done")
    /\ UNCHANGED <<keys, agentVars, pollVars>>

StopRead(r) ==
    /\ \E m \in Live :
         Arrive(r, "stop", m, state[m],
                IF state[m] = "running" THEN "cas" ELSE "done")
    /\ UNCHANGED <<dbVars, keys, agentVars, pollVars>>

StopTransition(r) ==
    LET m == req[r].m IN
    /\ At(r, "stop", "cas")
    /\ Transition(m, "running", "hibernating")
    /\ IF Wins(m, "running", "hibernating")
       THEN req' = [req EXCEPT ![r].pc = "stop", ![r].from = "hibernating"]
       ELSE Goto(r, "done")
    /\ UNCHANGED <<keys, agentVars, pollVars>>

\* A machine the agent does not know fails the stop too.
StopCall(r) ==
    /\ At(r, "stop", "stop")
    /\ \/ /\ agent[req[r].m] = "absent"
          /\ Goto(r, "fail")
          /\ UNCHANGED agentVars
       \/ /\ agent[req[r].m] # "absent"
          /\ \/ AgentStop(req[r].m) /\ Goto(r, "done")
             \/ FailedCall(AgentStop(req[r].m)) /\ Goto(r, "fail")
    /\ UNCHANGED <<dbVars, keys, pollVars>>

\* Destroy reads the row and exports the machine's sessions; without force an
\* incomplete export ends the destroy.
DestroyRead(r) ==
    /\ \E m \in Live, pc \in {"dagent"} \cup (IF "setup" \in Faults THEN {"done"} ELSE {}) :
         Arrive(r, "destroy", m, state[m], pc)
    /\ UNCHANGED <<dbVars, keys, agentVars, pollVars>>

\* Any answer but ok and unknown-machine aborts the destroy.
DestroyCall(r) ==
    /\ At(r, "destroy", "dagent")
    /\ \/ AgentDestroy(req[r].m) /\ Goto(r, "dkey")
       \/ FailedCall(AgentDestroy(req[r].m)) /\ Goto(r, "done")
    /\ UNCHANGED <<dbVars, keys, pollVars>>

\* Dropping the key is best effort.
DestroyKey(r) ==
    /\ At(r, "destroy", "dkey")
    /\ \/ keys' = keys \ {req[r].m}
       \/ "setup" \in Faults /\ UNCHANGED keys
    /\ Goto(r, "drow")
    /\ UNCHANGED <<dbVars, agentVars, pollVars>>

DestroyRow(r) ==
    /\ At(r, "destroy", "drow")
    /\ DeleteMachine(req[r].m)
    /\ Goto(r, "done")
    /\ UNCHANGED <<keys, agentVars, pollVars>>

\* The client goes away: the handler's context is cancelled, every later
\* statement and call of it fails, and so does its error handling.
Cancel(r) ==
    /\ "cancel" \in Faults
    /\ req[r].pc \notin {"new", "done"}
    /\ Goto(r, "done")
    /\ UNCHANGED <<dbVars, keys, agentVars, pollVars>>

-----------------------------------------------------------------------------
(* Poller: one goroutine, a fast tick over transitional machines and a     *)
(* slow sweep over running ones.                                           *)

\* The poller is done with m: the next listed row, or back to waiting.
Without(m, pc) ==
    LET rest == [poll.rows EXCEPT ![m] = "none"] IN
    IF \A n \in Machines : rest[n] = "none"
    THEN IdlePoll
    ELSE [IdlePoll EXCEPT !.pc = pc, !.rows = rest, !.obs = poll.obs]

\* Settle m later, in two statements: what the agent reported, then the CAS.
Plan(m, pc, to, snap) ==
    poll' = [poll EXCEPT !.pc = pc, !.m = m, !.to = to, !.snap = snap]

Listed(states) == [m \in Machines |-> IF state[m] \in states THEN state[m] ELSE "none"]

\* Mutant of AdvanceTransitional: requested counts as transitional.
AdvanceRequested ==
    /\ poll.pc = "idle"
    /\ \E m \in Machines : state[m] \in Transitional \cup {"requested"}
    /\ poll' = [IdlePoll EXCEPT !.pc = "observe", !.rows = Listed(Transitional \cup {"requested"})]
    /\ UNCHANGED <<dbVars, keys, req, agentVars, blip, retries, misses, leftover>>

AdvanceTransitional ==
    /\ poll.pc = "idle"
    /\ \E m \in Machines : state[m] \in Transitional
    /\ poll' = [IdlePoll EXCEPT !.pc = "observe", !.rows = Listed(Transitional)]
    /\ UNCHANGED <<dbVars, keys, req, agentVars, blip, retries, misses, leftover>>

Observing(m) == poll.pc = "observe" /\ poll.rows[m] # "none"

ResetRetries(m) == retries' = [retries EXCEPT ![m] = 0]

\* Status fails with unknown machine.
AdvanceUnknown(m) ==
    /\ Observing(m)
    /\ agent[m] = "absent"
    /\ Plan(m, "commit", IF poll.rows[m] \in Halting THEN "stopped" ELSE "error", "absent")
    /\ UNCHANGED <<dbVars, keys, req, agentVars, blip, retries, misses, leftover>>

\* Mutant of AdvanceUnreachable: an unreachable agent is waited for.
AdvanceUnreachablePatient(m) ==
    /\ Observing(m)
    /\ "call" \in Faults
    /\ poll' = Without(m, "observe")
    /\ UNCHANGED <<dbVars, keys, req, agentVars, blip, retries, misses, leftover>>

\* Status fails because the agent cannot be reached: a stop errors at once, a
\* boot is retried until the budget is spent (retryStart).
AdvanceUnreachable(m) ==
    LET attempt == retries[m] + 1 IN
    /\ Observing(m)
    /\ "call" \in Faults
    /\ \/ /\ poll.rows[m] \in Halting
          /\ Plan(m, "commit", "error", "absent")
          /\ UNCHANGED retries
       \/ /\ poll.rows[m] \in Booting
          /\ attempt >= MaxStartRetries
          /\ ResetRetries(m)
          /\ Plan(m, "commit", "error", "absent")
       \/ /\ poll.rows[m] \in Booting
          /\ attempt < MaxStartRetries
          /\ retries' = [retries EXCEPT ![m] = attempt]
          /\ Plan(m, "retry", "none", "absent")
    /\ UNCHANGED <<dbVars, keys, req, agentVars, blip, misses, leftover>>

\* RetryEnsure: the same ensure request once more, its result only logged.
RetryEnsure ==
    /\ poll.pc = "retry"
    /\ poll' = Without(poll.m, "observe")
    /\ \/ poll.m \notin keys /\ UNCHANGED agentVars
       \/ poll.m \in keys /\ (AgentEnsure(poll.m) \/ FailedCall(AgentEnsure(poll.m)))
    /\ UNCHANGED <<dbVars, keys, req, blip, retries, misses, leftover>>

\* Where the agent's status sends a transitional machine; "none" is wait.
Verdict(from, st) ==
    IF from \in Booting
    THEN CASE st = "running"  -> "running"
           [] st = "creating" -> "none"
           [] OTHER           -> "error"
    ELSE CASE st = "stopped" -> "stopped"
           [] st = "error"   -> "error"
           [] OTHER          -> "none"

AdvanceAnswered(m) ==
    LET to == Verdict(poll.rows[m], agent[m]) IN
    /\ Observing(m)
    /\ agent[m] # "absent"
    /\ ResetRetries(m)
    /\ CASE to = "none"  -> poll' = Without(m, "observe")
         [] to = "error" -> Plan(m, "commit", to, "absent")
         [] OTHER        -> Plan(m, "record", to, IF m \in frozen THEN "present" ELSE "absent")
    /\ UNCHANGED <<dbVars, keys, req, agentVars, blip, misses, leftover>>

\* Mutant of PollRecord: a boot leaves the snapshot row behind.
PollRecordKeepsSnapshot ==
    LET m == poll.m IN
    /\ poll.pc = "record"
    /\ guestIP' = IF m \in Live /\ poll.to = "running" THEN guestIP \cup {m} ELSE guestIP
    /\ snapshots' = IF m \in Live /\ poll.snap = "present" /\ poll.to = "stopped"
                    THEN snapshots \cup {m} ELSE snapshots
    /\ poll' = [poll EXCEPT !.pc = "commit", !.snap = "absent"]
    /\ leftover' = leftover \ {m}
    /\ UNCHANGED <<state, events, keys, req, agentVars, blip, retries, misses>>

\* toRunning and toStopped first write what the agent reported to the row,
\* whatever state the row is in by now; the writes of a deleted row hit nothing.
\* Each statement may fail: it is logged, and the transition follows all the same.
PollRecord ==
    LET m == poll.m IN
    /\ poll.pc = "record"
    /\ \/ guestIP' = IF m \in Live /\ poll.to = "running" THEN guestIP \cup {m} ELSE guestIP
       \/ "write" \in Faults /\ UNCHANGED guestIP
    /\ \/ /\ snapshots' = IF m \in Live /\ poll.snap = "present" /\ poll.to = "stopped"
                          THEN snapshots \cup {m} ELSE snapshots \ {m}
          /\ leftover' = leftover \ {m}
       \/ /\ "write" \in Faults
          /\ leftover' = (leftover \ {m}) \cup ({m} \cap snapshots)
          /\ UNCHANGED snapshots
    /\ poll' = [poll EXCEPT !.pc = "commit", !.snap = "absent"]
    /\ UNCHANGED <<state, events, keys, req, agentVars, blip, retries, misses>>

\* A transition of the poller; one that fails is logged, and the row stays.
PollTransition(m, from, to) ==
    \/ Transition(m, from, to)
    \/ "write" \in Faults /\ UNCHANGED dbVars

PollCommit ==
    LET m == poll.m IN
    /\ poll.pc = "commit"
    /\ PollTransition(m, poll.rows[m], poll.to)
    /\ misses' = IF poll.to = "running" /\ state'[m] = "running"
                 THEN [misses EXCEPT ![m] = 0] ELSE misses
    /\ poll' = Without(m, "observe")
    /\ UNCHANGED <<keys, req, agentVars, blip, retries, leftover>>

SweepRunning ==
    /\ poll.pc = "idle"
    /\ \E m \in Machines : state[m] = "running"
    /\ poll' = [IdlePoll EXCEPT !.pc = "list", !.rows = Listed({"running"})]
    /\ UNCHANGED <<dbVars, keys, req, agentVars, blip, retries, misses, leftover>>

\* What the sweep tells apart of a status: running, not running, not there.
Reported(st) == IF st \in {"running", "absent"} THEN st ELSE "error"

\* One List call for the whole sweep.
SweepList ==
    /\ poll.pc = "list"
    /\ \/ poll' = [poll EXCEPT !.pc = "check", !.obs = [m \in Machines |-> Reported(agent[m])]]
       \/ "call" \in Faults /\ poll' = [poll EXCEPT !.pc = "miss"]
    /\ UNCHANGED <<dbVars, keys, req, agentVars, blip, retries, misses, leftover>>

\* Mutant of SweepMiss: the counter is not removed when the machine errors.
SweepMissKeepsCount(m) ==
    LET n == blip[m] + 1 IN
    /\ poll.pc = "miss" /\ poll.rows[m] # "none"
    /\ blip' = [blip EXCEPT ![m] = n]
    /\ misses' = [misses EXCEPT ![m] = IF n >= BlipThreshold THEN 0 ELSE @ + 1]
    /\ IF n >= BlipThreshold
       THEN PollTransition(m, "running", "error")
       ELSE UNCHANGED dbVars
    /\ poll' = Without(m, "miss")
    /\ UNCHANGED <<keys, req, agentVars, retries, leftover>>

SweepMiss(m) ==
    LET n == blip[m] + 1 IN
    /\ poll.pc = "miss" /\ poll.rows[m] # "none"
    /\ blip' = [blip EXCEPT ![m] = IF n >= BlipThreshold THEN 0 ELSE n]
    /\ misses' = [misses EXCEPT ![m] = IF n >= BlipThreshold THEN 0 ELSE @ + 1]
    /\ IF n >= BlipThreshold
       THEN PollTransition(m, "running", "error")
       ELSE UNCHANGED dbVars
    /\ poll' = Without(m, "miss")
    /\ UNCHANGED <<keys, req, agentVars, retries, leftover>>

\* Mutant of SweepCheck: only a machine missing from the list is noticed.
SweepCheckMissing(m) ==
    /\ poll.pc = "check" /\ poll.rows[m] # "none"
    /\ blip' = [blip EXCEPT ![m] = 0]
    /\ misses' = [misses EXCEPT ![m] = 0]
    /\ IF poll.obs[m] = "absent"
       THEN PollTransition(m, "running", "error")
       ELSE UNCHANGED dbVars
    /\ poll' = Without(m, "check")
    /\ UNCHANGED <<keys, req, agentVars, retries, leftover>>

SweepCheck(m) ==
    /\ poll.pc = "check" /\ poll.rows[m] # "none"
    /\ blip' = [blip EXCEPT ![m] = 0]
    /\ misses' = [misses EXCEPT ![m] = 0]
    /\ IF poll.obs[m] # "running"
       THEN PollTransition(m, "running", "error")
       ELSE UNCHANGED dbVars
    /\ poll' = Without(m, "check")
    /\ UNCHANGED <<keys, req, agentVars, retries, leftover>>

\* The control plane dies and is restarted: goroutines and counters are gone,
\* the tables and the agent are not.
Crash ==
    /\ "crash" \in Faults
    /\ req' = [r \in Requests |-> IF req[r].pc = "new" THEN req[r] ELSE Ended]
    /\ poll' = IdlePoll
    /\ blip' = [m \in Machines |-> 0]
    /\ retries' = [m \in Machines |-> 0]
    /\ misses' = [m \in Machines |-> 0]
    /\ UNCHANGED <<dbVars, keys, agentVars, leftover>>

-----------------------------------------------------------------------------

Handle(r) ==
    \/ CreateInsert(r) \/ CreateDisk(r) \/ CreateMintKey(r) \/ CreateProvision(r)
    \/ StartTransition(r) \/ EnsureBuild(r) \/ EnsureCall(r) \/ EnsureRecord(r) \/ Fail(r)
    \/ StopTransition(r) \/ StopCall(r)
    \/ DestroyCall(r) \/ DestroyKey(r) \/ DestroyRow(r)

Submit(r) == CreateCount(r) \/ StartRead(r) \/ StopRead(r) \/ DestroyRead(r)

Advance ==
    \/ AdvanceTransitional \/ RetryEnsure \/ PollRecord \/ PollCommit
    \/ \E m \in Machines : AdvanceUnknown(m) \/ AdvanceUnreachable(m) \/ AdvanceAnswered(m)

Sweep ==
    \/ SweepRunning \/ SweepList
    \/ \E m \in Machines : SweepMiss(m) \/ SweepCheck(m)

AgentStep(m) == AgentBoot(m) \/ AgentBootFails(m) \/ AgentFinishStop(m)

Next ==
    \/ \E r \in Requests : Submit(r) \/ Handle(r) \/ Cancel(r)
    \/ Advance \/ Sweep \/ Crash
    \/ \E m \in Machines : AgentStep(m) \/ AgentLosesVM(m) \/ AgentForgets(m)

Spec == Init /\ [][Next]_vars

\* Every handler and the boot and stop goroutines run to their end; both poller
\* tickers keep firing, and the select between them starves neither.
Fairness ==
    /\ \A r \in Requests : WF_vars(Handle(r))
    /\ \A m \in Machines : WF_vars(AgentBoot(m) \/ AgentBootFails(m)) /\ WF_vars(AgentFinishStop(m))
    /\ WF_vars(Advance) /\ WF_vars(Sweep)
    /\ SF_vars(AdvanceTransitional) /\ SF_vars(SweepRunning)

FairSpec == Spec /\ Fairness

-----------------------------------------------------------------------------
(* Properties.                                                             *)

\* The tables, the goroutines and the counters keep their shape: the two
\* counters stay below their thresholds.
TypeOK ==
    /\ state \in [Machines -> RowStates]
    /\ guestIP \subseteq Machines /\ snapshots \subseteq Machines /\ keys \subseteq Machines
    /\ events \in [Machines -> Seq(Event)]
    /\ req \in [Requests -> Request]
    /\ agent \in [Machines -> AgentStates]
    /\ frozen \subseteq Machines /\ booting \subseteq Machines /\ halting \subseteq Machines
    /\ poll \in Poll
    /\ blip \in [Machines -> 0 .. BlipThreshold - 1]
    /\ retries \in [Machines -> 0 .. MaxStartRetries - 1]
    /\ misses \in [Machines -> Nat]
    /\ leftover \subseteq Machines

\* The store as its readers see it, whoever races for each step.
Rows == INSTANCE MachineRows

\* Handlers, poller and compensation together implement the promise of the
\* store: rows move along legal transitions only, one audited step at a time.
RowsImplemented == Rows!Spec

\* The snapshot rows that are not what a failed statement left.
Settled == snapshots \ leftover

\* A running machine has a snapshot row only if the statement that should have
\* removed it failed, although toStopped and toRunning write the row before they
\* know whether they win the transition.
RunningSnapshotIsLeftover ==
    \A m \in Machines : state[m] = "running" => m \notin Settled

\* The handler is between inserting a machine's row and provisioning it.
Creating(r) == req[r].op = "create" /\ req[r].pc \in {"disk", "mint", "provision"}

\* A machine that is being set up is moved by nobody else: its creator finds it
\* requested, or destroyed, so that compensation never deletes a machine that
\* has been handed to the node-agent.  No two handlers set up the same machine.
CreatorOwnsRequested ==
    \A r \in Requests : Creating(r) =>
        /\ state[req[r].m] \in {"requested", "deleted"}
        /\ \A q \in Requests \ {r} : Creating(q) => req[q].m # req[r].m

HandlerOK(q) ==
    /\ q.pc \notin {"new", "insert", "done"} => q.m \in Machines
    /\ q.pc = "cas" => q.from \in (IF q.op = "start" THEN {"stopped", "error"} ELSE {"running"})
    /\ q.pc \in {"build", "ensure", "record"} => q.from \in Booting
    /\ q.pc = "stop" => q.from = "hibernating"
    /\ q.pc = "fail" => q.from \in Booting \cup {"hibernating"}

\* A handler carries the machine it works on and the state it left it in, one
\* from which its next transition is legal.
HandlerInv == \A r \in Requests : HandlerOK(req[r])

\* The poller acts on rows it listed, in the state it listed them.  Nobody else
\* makes a machine running, so a machine on its list of transitional machines
\* is not running before the poller is done with it; and when it is about to
\* make it running, the snapshot row is gone, or its removal has failed.
PollerInv ==
    /\ poll.pc \in {"observe", "record", "commit", "retry"} =>
         \A m \in Machines :
            poll.rows[m] # "none" => poll.rows[m] \in Transitional /\ state[m] # "running"
    /\ poll.pc \in {"list", "miss", "check"} =>
         \A m \in Machines : poll.rows[m] \in {"none", "running"}
    /\ poll.pc \in {"record", "commit", "retry"} => poll.m \in Machines /\ poll.rows[poll.m] # "none"
    /\ poll.pc \in {"record", "commit"} => poll.to \in {"running", "stopped", "error"}
    /\ poll.pc = "commit" /\ poll.to = "running" => poll.m \notin Settled

\* The tables and the counters keep their types, and what the poller holds is still
\* true when it acts on it.
Consistent == TypeOK /\ PollerInv

\* A boot that is lost: it fails, or its machine dies or is forgotten by the
\* agent, which an ensure that boots it once more also tells.
BootLost ==
    \E m \in Machines :
        \/ agent[m] = "creating" /\ agent'[m] \in {"error", "absent"}
        \/ agent[m] = "running" /\ agent'[m] \in {"creating", "error", "absent"}

\* A machine that is being created or started becomes running or errors,
\* whatever the agent answers and however often the start is retried, unless
\* boot after boot is lost: a poll that sees the boot in progress renews the
\* budget of retries (poller.go:233), so polls that fail and boots that are
\* lost in turn go on for as long as both happen.
BootResolves ==
    <>[][~BootLost]_vars =>
        \A m \in Machines : state[m] \in Booting ~> state[m] \notin Booting

\* A stop that has reached the agent is settled, unless an ensure of another
\* handler or of the poller's retry boots the machine again behind it.
StopResolves ==
    \A m \in Machines :
        state[m] \in Halting /\ agent[m] \notin {"creating", "running"}
            ~> state[m] \notin Halting \/ agent[m] \in {"creating", "running"}

\* A machine that claims to run while the agent says otherwise is noticed.
CrashDetected ==
    \A m \in Machines :
        state[m] = "running" /\ agent[m] # "running"
            ~> state[m] # "running" \/ agent[m] = "running"

\* The three together: no operation that the poller follows up stays open, when
\* agent answers get lost, VMs die and the agent forgets machines in between.
Resolves == BootResolves /\ StopResolves /\ CrashDetected

-----------------------------------------------------------------------------
(* What the comments of the code claim and the code does not keep: the     *)
(* instances that refute them are listed in the README.                    *)

\* Create enforces the per-user cap ("caps how many machines a user may own").
CapHolds == Cardinality(Live) <= MaxPerUser

\* Without any failure no machine errors: the poller moves machines "into error
\* on failure/crash", and a successful ensure "leaves the machine transitional
\* for the poller to advance to running".
NoErrorWithoutFailure == \A m \in Machines : state[m] # "error"

\* Once a destroy has completed and nobody is still busy with the machine, the
\* agent has nothing of it left ("tears a machine down completely").
DestroyTearsDown ==
    \A m \in Machines :
        state[m] = "deleted" /\ (\A r \in Requests : req[r].m # m) /\ poll.rows[m] = "none"
            => agent[m] = "absent"

\* A machine that is being hibernated gets out of it ("either way the poller
\* advances the machine to stopped").
StopCompletes ==
    \A m \in Machines : state[m] = "hibernating" ~> state[m] # "hibernating"

\* It takes BlipThreshold consecutive unreachable sweeps of a running machine
\* to error it ("the number of consecutive agent-unreachable observations
\* required before a running machine is moved to error").
BlipsAreConsecutive ==
    [][\A m \in Machines :
         poll.pc = "miss" /\ state[m] = "running" /\ state'[m] = "error"
            => misses[m] + 1 >= BlipThreshold]_vars

\* A running machine has no snapshot row (toRunning "consumes any snapshot (a
\* running machine never has one)"; "Either way a running machine carries no
\* current snapshot").
RunningHasNoSnapshot ==
    \A m \in Machines : state[m] = "running" => m \notin snapshots

\* A running machine's row carries the guest IP the agent reported (toRunning
\* "records the agent-reported guest IP + handle").
RunningHasGuestIP ==
    \A m \in Machines : state[m] = "running" => m \in guestIP
=============================================================================
