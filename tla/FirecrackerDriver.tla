------------------------- MODULE FirecrackerDriver -------------------------
(***************************************************************************)
(* The node-agent's Firecracker driver                                     *)
(* (nodeagent/internal/driver/firecracker): the persisted machine records, *)
(* the VMM processes and encrypted volumes of the host, the boot and stop  *)
(* goroutines that outlive the calls that start them, the orphan reaper,   *)
(* and agent restarts, which kill goroutines and leave VMMs alone.         *)
(*                                                                         *)
(* A call is served once; the goroutine it starts keeps the call's name.   *)
(* Calls and goroutines are cut into phases: at the accesses to the record *)
(* store, and where the volume, the jail or the VMM change hands.          *)
(***************************************************************************)
EXTENDS Naturals, FiniteSets

CONSTANTS
    Machines,    \* machine ids
    NoMachine,   \* the empty id of a zero Record
    Calls,       \* EnsureRunning, Stop and Destroy calls; each is served once
    UidOf,       \* the jail uid of each machine (uidFor)
    Serial,      \* whether callers wait for a machine's earlier call to be over
    May,         \* what may happen besides the calls and their goroutines
    MaxPid,      \* bound: VMM launches
    MaxRestarts  \* bound: restarts of the agent

\* A failing boot or snapshot step, a new Firecracker version, a dying VMM, and
\* a pass of the orphan reaper.
Happenings == {"boot", "snap", "upgrade", "vmm", "reaper"}

\* uidFor gives every machine a jail uid of its own, as long as the uid range and
\* the last octet of the guest addresses tell machines apart.
UidsDiffer == \A m, n \in Machines : UidOf[m] = UidOf[n] => m = n

ASSUME DriverAssumption ==
    /\ NoMachine \notin Machines
    /\ May \subseteq Happenings
    /\ Serial \in BOOLEAN
    /\ MaxPid \in Nat /\ MaxRestarts \in Nat

VARIABLES
    rec,       \* the record store: state, pid and snapshot of each machine
    owner,     \* the machine each launched VMM belongs to; its index is the pid
    alive,     \* the pids that are alive
    started,   \* the pids whose instance was started or restored
    sock,      \* the pid behind the API socket in each machine's jail, or 0
    disk,      \* the volume container of each machine
    mounted,   \* machines whose volume is mounted at their jail's /state
    snapFiles, \* machines with snapshot files on their volume
    restored,  \* history: machines whose snapshot files were loaded before
    job,       \* the calls and their goroutines
    reap,      \* the reaper: idle, or the pids and machines it has listed as up
    restarts   \* the agent's restarts so far

volVars == <<disk, snapFiles, restored>>
hostVars == <<owner, alive, started, sock, mounted, volVars>>
vars == <<rec, hostVars, job, reap, restarts>>

Pids == 1 .. MaxPid
RecStates == {"absent", "creating", "running", "hibernating", "stopping", "stopped", "error"}
UpStates == {"creating", "running", "hibernating", "stopping"}
Rec == [state : RecStates, pid : 0 .. MaxPid, snap : {"present", "absent"}]
\* "bare", "nodata" and "blank" are containers whose provisioning did not finish:
\* without a file system, without the data disk, with an unformatted one.
DiskStates == {"none", "bare", "nodata", "blank", "data"}
BootPc == {"close", "wipe", "mount", "launch", "pid", "start", "consume", "settle", "cleanup", "err"}
StopPc == {"snapshot", "kill", "stopped"}
DestroyPc == {"teardown", "delete"}
Job == [pc : {"new", "update", "done"} \cup BootPc \cup StopPc \cup DestroyPc, m : Machines \cup {NoMachine},
        mode : {"cold", "resume"}, pid : 0 .. MaxPid, snap : {"present", "absent"}]

NoRec == [state |-> "absent", pid |-> 0, snap |-> "absent"]
NewJob == [pc |-> "new", m |-> NoMachine, mode |-> "cold", pid |-> 0, snap |-> "absent"]

Idle == [busy |-> FALSE, pids |-> {}, up |-> {}]

Init ==
    /\ rec = [m \in Machines |-> NoRec]
    /\ owner = [p \in Pids |-> NoMachine]
    /\ alive = {} /\ started = {} /\ mounted = {} /\ snapFiles = {} /\ restored = {}
    /\ sock = [m \in Machines |-> 0]
    /\ disk = [m \in Machines |-> "none"]
    /\ job = [c \in Calls |-> NewJob]
    /\ reap = Idle /\ restarts = 0

Tracked == {m \in Machines : rec[m].state # "absent"}
Owned(m) == {p \in alive : owner[p] = m}
BusyWith(m) == {c \in Calls : job[c].m = m /\ job[c].pc \notin {"new", "done"}}

\* The control plane calls again once the poller has seen the machine settle.
MayCall(c, m) == job[c].pc = "new" /\ (Serial => BusyWith(m) = {})

\* Store.Update: a record that is gone is left gone, without an error.
Update(m, new) ==
    rec' = IF m \in Tracked THEN [rec EXCEPT ![m] = new] ELSE rec

Become(c, j) == job' = [job EXCEPT ![c] = j]
Goto(c, pc) == Become(c, [job[c] EXCEPT !.pc = pc])

-----------------------------------------------------------------------------
(* The API calls.                                                          *)

\* Mutant: only a machine that is still creating counts as up.
AlreadyUpCreating(m) == rec[m].state = "creating" /\ rec[m].pid \in alive

AlreadyUp(m) == rec[m].state \in {"creating", "running"} /\ rec[m].pid \in alive

\* The booting slot of m: held until EnsureRunning returns, not until the boot
\* it starts is over.
SlotHeld(m) == \E c \in Calls : job[c].pc = "update" /\ job[c].m = m

\* EnsureRunning while the slot is held, or on a machine that is creating or
\* running with a live VMM, answers at once.
EnsureNothing(c) ==
    /\ \E m \in Machines :
         /\ MayCall(c, m)
         /\ SlotHeld(m) \/ AlreadyUp(m)
         /\ Become(c, [job[c] EXCEPT !.pc = "done", !.m = m])
    /\ UNCHANGED <<rec, hostVars, reap, restarts>>

\* EnsureRunning, up to Reserve: a new record goes straight to its boot, an
\* existing one must be updated first.
EnsureReserve(c) ==
    /\ \E m \in Machines :
         /\ MayCall(c, m)
         /\ ~SlotHeld(m)
         /\ \/ /\ m \notin Tracked
               /\ rec' = [rec EXCEPT ![m] = [NoRec EXCEPT !.state = "creating"]]
               /\ Become(c, [job[c] EXCEPT !.pc = "close", !.m = m])
            \/ /\ m \in Tracked /\ ~AlreadyUp(m)
               /\ Become(c, [job[c] EXCEPT !.pc = "update", !.m = m])
               /\ UNCHANGED rec
    /\ UNCHANGED <<hostVars, reap, restarts>>

\* EnsureRunning on an existing record: back to creating, and boot.  Of a record
\* destroyed since, Update returns a zero Record, and that is what is booted.
EnsureUpdate(c) ==
    LET m == job[c].m IN
    /\ job[c].pc = "update"
    /\ \/ /\ m \in Tracked
          /\ rec' = [rec EXCEPT ![m].state = "creating"]
          /\ \E mode \in {"cold", "resume"} :
               /\ mode = "resume" => rec[m].snap = "present"
               /\ mode = "cold" => rec[m].snap = "absent" \/ "upgrade" \in May
               /\ Become(c, [job[c] EXCEPT !.pc = "close", !.mode = mode])
       \/ /\ m \notin Tracked
          /\ Become(c, [job[c] EXCEPT !.pc = "close", !.m = NoMachine])
          /\ UNCHANGED rec
    /\ UNCHANGED <<hostVars, reap, restarts>>

\* Stop, to hibernate or to power off; the goroutine works with the record as it
\* was read.
Stop(c) ==
    /\ \E m \in Tracked :
         /\ MayCall(c, m)
         /\ \/ /\ rec[m].state = "stopped"
               /\ Become(c, [job[c] EXCEPT !.pc = "done", !.m = m])
               /\ UNCHANGED rec
            \/ \E how \in {"hibernating", "stopping"} :
               /\ rec[m].state # "stopped"
               /\ rec' = [rec EXCEPT ![m].state = how]
               /\ Become(c, [job[c] EXCEPT !.pc = IF how = "hibernating" THEN "snapshot" ELSE "kill",
                                           !.m = m, !.pid = rec[m].pid])
    /\ UNCHANGED <<hostVars, reap, restarts>>

\* Destroy kills the VMM of the record it has read, ...
Destroy(c) ==
    /\ \E m \in Tracked :
         /\ MayCall(c, m)
         /\ alive' = alive \ {rec[m].pid}
         /\ Become(c, [job[c] EXCEPT !.pc = "teardown", !.m = m])
    /\ UNCHANGED <<rec, owner, started, sock, mounted, volVars, reap, restarts>>

\* ... then closes the volume, removes the jail and the container, ...
DestroyTeardown(c) ==
    LET m == job[c].m IN
    /\ job[c].pc = "teardown"
    /\ mounted' = mounted \ {m}
    /\ sock' = [sock EXCEPT ![m] = 0]
    /\ disk' = [disk EXCEPT ![m] = "none"]
    /\ snapFiles' = snapFiles \ {m}
    /\ restored' = restored \ {m}
    /\ Goto(c, "delete")
    /\ UNCHANGED <<rec, owner, alive, started, reap, restarts>>

\* ... and deletes the record.
DestroyDelete(c) ==
    /\ job[c].pc = "delete"
    /\ rec' = [rec EXCEPT ![job[c].m] = NoRec]
    /\ Goto(c, "done")
    /\ UNCHANGED <<hostVars, reap, restarts>>

-----------------------------------------------------------------------------
(* The boot goroutine.                                                     *)

\* A failed boot is cleaned up after; a failed resume falls back to a cold boot
\* that starts with the jail, not with closing the volume.
Failed(c) == IF job[c].mode = "resume"
             THEN [job[c] EXCEPT !.mode = "cold", !.pc = "wipe"]
             ELSE [job[c] EXCEPT !.pc = "cleanup"]

MayFail == "boot" \in May

\* Mutant: a boot takes the volume for closed.
BootCloseNothing(c) ==
    /\ job[c].pc = "close"
    /\ Goto(c, "wipe")
    /\ UNCHANGED <<rec, hostVars, reap, restarts>>

BootClose(c) ==
    /\ job[c].pc = "close"
    /\ mounted' = mounted \ {job[c].m}
    /\ Goto(c, "wipe")
    /\ UNCHANGED <<rec, owner, alive, started, sock, volVars, reap, restarts>>

\* Removing the jail of m removes its API socket and recurses into a volume
\* mounted there; the empty id names the directory of all jails.
JailsOf(m) == IF m = NoMachine THEN Machines ELSE {m}
RemoveJail(m) ==
    LET hit == JailsOf(m) \cap mounted IN
    /\ sock' = [n \in Machines |-> IF n \in JailsOf(m) THEN 0 ELSE sock[n]]
    /\ disk' = [n \in Machines |-> IF n \in hit /\ disk[n] \in {"data", "blank"} THEN "nodata" ELSE disk[n]]
    /\ snapFiles' = snapFiles \ hit
    /\ restored' = restored \ hit

\* prepareColdJail and prepareResumeJail.  A busy mount point fails the removal
\* after everything below it is gone; the empty kernel path of a zero Record
\* fails the copy that follows.
BootWipe(c) ==
    LET m == job[c].m IN
    /\ job[c].pc = "wipe"
    /\ RemoveJail(m)
    /\ \/ /\ m \in Machines \ mounted
          /\ Goto(c, "mount")
       \/ /\ m \notin Machines \ mounted \/ MayFail
          /\ Become(c, Failed(c))
    /\ UNCHANGED <<rec, owner, alive, started, mounted, reap, restarts>>

\* The reaper closes the mapper of a machine it has not listed as up, unless the
\* volume is mounted by then.
ReaperCloses(m) == reap.busy /\ m \notin reap.up

\* ensureVolumeMounted and what follows up to the launch.  A cold boot lays down
\* the data disk on first use only, copies a fresh rootfs and drops the
\* snapshot; a resume needs the snapshot files.
BootMount(c) ==
    LET m == job[c].m IN
    /\ job[c].pc = "mount"
    /\ disk[m] # "bare"
    /\ job[c].mode = "resume" => m \in snapFiles
    /\ disk' = [disk EXCEPT ![m] = IF @ = "none" THEN "data" ELSE @]
    /\ mounted' = mounted \cup {m}
    /\ IF job[c].mode = "cold"
       THEN snapFiles' = snapFiles \ {m} /\ restored' = restored \ {m}
       ELSE UNCHANGED <<snapFiles, restored>>
    /\ Goto(c, "launch")
    /\ UNCHANGED <<rec, owner, alive, started, sock, reap, restarts>>

\* The same when a step fails: the container, once formatted, is kept as it is.
BootMountFails(c) ==
    LET m == job[c].m IN
    /\ job[c].pc = "mount"
    /\ \/ MayFail \/ ReaperCloses(m) \/ disk[m] = "bare"
       \/ job[c].mode = "resume" /\ m \notin snapFiles
    /\ \/ UNCHANGED disk
       \/ /\ disk[m] = "none"
          /\ \E d \in {"bare", "nodata", "blank"} : disk' = [disk EXCEPT ![m] = d]
    /\ \/ UNCHANGED <<mounted, snapFiles, restored>>
       \/ /\ disk'[m] \notin {"none", "bare"}
          /\ mounted' = mounted \cup {m}
          /\ \/ UNCHANGED <<snapFiles, restored>>
             \/ /\ job[c].mode = "cold" /\ disk[m] # "none"
                /\ snapFiles' = snapFiles \ {m} /\ restored' = restored \ {m}
    /\ Become(c, Failed(c))
    /\ UNCHANGED <<rec, owner, alive, started, sock, reap, restarts>>

\* Mutant: any firecracker process will do.
PgrepAny(m, procs, own) == IF procs = {} THEN 0 ELSE CHOOSE p \in procs : \A q \in procs : p <= q

\* pgrep by the jail's uid: the first of the processes it lists.
Pgrep(m, procs, own) ==
    LET found == {p \in procs : UidOf[own[p]] = UidOf[m]}
    IN  IF found = {} THEN 0 ELSE CHOOSE p \in found : \A q \in found : p <= q

\* launchJailer: the jailer daemonises the VMM and the agent looks for its pid.
\* A VMM that finds its API socket taken exits.
BootLaunch(c) ==
    LET m == job[c].m
        lives == sock[m] = 0
    IN
    /\ job[c].pc = "launch"
    /\ \E p \in Pids :
         /\ owner[p] = NoMachine
         /\ \A q \in Pids : owner[q] = NoMachine => p <= q
         /\ owner' = [owner EXCEPT ![p] = m]
         /\ alive' = IF lives THEN alive \cup {p} ELSE alive
         /\ sock' = IF lives THEN [sock EXCEPT ![m] = p] ELSE sock
    /\ LET pid == Pgrep(m, alive', owner') IN
       Become(c, IF pid = 0 THEN Failed(c) ELSE [job[c] EXCEPT !.pc = "pid", !.pid = pid])
    /\ UNCHANGED <<rec, started, mounted, volVars, reap, restarts>>

\* setupNetworking or the jailer fails before the VMM is there.
BootLaunchFails(c) ==
    /\ job[c].pc = "launch"
    /\ MayFail
    /\ Become(c, Failed(c))
    /\ UNCHANGED <<rec, hostVars, reap, restarts>>

\* Mutant: the pid is not recorded.
BootPidUnrecorded(c) ==
    /\ job[c].pc = "pid"
    /\ Goto(c, "start")
    /\ UNCHANGED <<rec, hostVars, reap, restarts>>

BootPid(c) ==
    LET m == job[c].m IN
    /\ job[c].pc = "pid"
    /\ Update(m, [rec[m] EXCEPT !.pid = job[c].pid])
    /\ Goto(c, "start")
    /\ UNCHANGED <<hostVars, reap, restarts>>

\* A VMM answers on the socket, runs nothing yet and finds its files.
CanStart(m, mode) ==
    /\ sock[m] \in alive \ started
    /\ m \in mounted
    /\ disk[m] \in {"data", "blank"}
    /\ mode = "resume" => m \in snapFiles

\* The API calls up to InstanceStart, or to the load of the snapshot.
BootStart(c) ==
    LET m == job[c].m IN
    /\ job[c].pc = "start"
    /\ \/ /\ CanStart(m, job[c].mode)
          /\ started' = started \cup {sock[m]}
          /\ IF job[c].mode = "cold"
             THEN Goto(c, "settle") /\ UNCHANGED restored
             ELSE Goto(c, "consume") /\ restored' = restored \cup {m}
       \/ /\ MayFail \/ ~CanStart(m, job[c].mode)
          /\ Become(c, Failed(c))
          /\ UNCHANGED <<started, restored>>
    /\ UNCHANGED <<rec, owner, alive, sock, disk, mounted, snapFiles, reap, restarts>>

\* After the guest's resume hook: the snapshot files are deleted, if the volume
\* is still mounted.
BootConsume(c) ==
    LET here == {job[c].m} \cap mounted IN
    /\ job[c].pc = "consume"
    /\ snapFiles' = snapFiles \ here
    /\ restored' = restored \ here
    /\ Goto(c, "settle")
    /\ UNCHANGED <<rec, owner, alive, started, sock, disk, mounted, reap, restarts>>

\* Mutant: the consumed snapshot stays in the record.
BootSettleKeepsSnapshot(c) ==
    LET m == job[c].m IN
    /\ job[c].pc = "settle"
    /\ Update(m, [rec[m] EXCEPT !.state = IF @ = "creating" THEN "running" ELSE @])
    /\ Goto(c, "done")
    /\ UNCHANGED <<hostVars, reap, restarts>>

\* Running only if the record is still creating; the snapshot is gone either way.
BootSettle(c) ==
    LET m == job[c].m IN
    /\ job[c].pc = "settle"
    /\ Update(m, [rec[m] EXCEPT !.state = IF @ = "creating" THEN "running" ELSE @, !.snap = "absent"])
    /\ Goto(c, "done")
    /\ UNCHANGED <<hostVars, reap, restarts>>

\* cleanupHost closes the volume before it removes the jail; the VMM, if it was
\* launched, is not killed.
BootCleanup(c) ==
    LET m == job[c].m IN
    /\ job[c].pc = "cleanup"
    /\ mounted' = mounted \ {m}
    /\ IF m = NoMachine
       THEN RemoveJail(m)
       ELSE sock' = [sock EXCEPT ![m] = 0] /\ UNCHANGED volVars
    /\ Goto(c, "err")
    /\ UNCHANGED <<rec, owner, alive, started, reap, restarts>>

\* Mutant: a failed boot is only logged.
BootErrSilent(c) ==
    /\ job[c].pc = "err"
    /\ Goto(c, "done")
    /\ UNCHANGED <<rec, hostVars, reap, restarts>>

BootErr(c) ==
    LET m == job[c].m IN
    /\ job[c].pc = "err"
    /\ IF m = NoMachine THEN UNCHANGED rec ELSE Update(m, [rec[m] EXCEPT !.state = "error"])
    /\ Goto(c, "done")
    /\ UNCHANGED <<hostVars, reap, restarts>>

-----------------------------------------------------------------------------
(* The stop goroutine (finishStop).                                        *)

\* Pause and snapshot.  A failure, which may leave the files behind, makes it an
\* orderly shutdown.
StopSnapshot(c) ==
    LET m == job[c].m
        can == sock[m] \in alive \cap started /\ m \in mounted
    IN
    /\ job[c].pc = "snapshot"
    /\ \/ /\ can
          /\ snapFiles' = snapFiles \cup {m} /\ restored' = restored \ {m}
          /\ Become(c, [job[c] EXCEPT !.pc = "kill", !.snap = "present"])
       \/ /\ "snap" \in May \/ ~can
          /\ \/ UNCHANGED <<snapFiles, restored>>
             \/ can /\ snapFiles' = snapFiles \cup {m} /\ restored' = restored \ {m}
          /\ Goto(c, "kill")
    /\ UNCHANGED <<rec, owner, alive, started, sock, disk, mounted, reap, restarts>>

\* Kill the VMM whose pid the record had when Stop was called; close the volume.
StopKill(c) ==
    /\ job[c].pc = "kill"
    /\ alive' = alive \ {job[c].pid}
    /\ mounted' = mounted \ {job[c].m}
    /\ Goto(c, "stopped")
    /\ UNCHANGED <<rec, owner, started, sock, volVars, reap, restarts>>

\* Mutants: the control plane's word for the state; a snapshot recorded whether
\* or not it was taken.
StopSettleHibernated(c) ==
    LET m == job[c].m IN
    /\ job[c].pc = "stopped"
    /\ Update(m, [state |-> IF job[c].snap = "present" THEN "hibernated" ELSE "stopped",
                  pid |-> 0, snap |-> job[c].snap])
    /\ Goto(c, "done")
    /\ UNCHANGED <<hostVars, reap, restarts>>
StopSettleClaims(c) ==
    LET m == job[c].m IN
    /\ job[c].pc = "stopped"
    /\ Update(m, [state |-> "stopped", pid |-> 0, snap |-> "present"])
    /\ Goto(c, "done")
    /\ UNCHANGED <<hostVars, reap, restarts>>

StopSettle(c) ==
    LET m == job[c].m IN
    /\ job[c].pc = "stopped"
    /\ Update(m, [state |-> "stopped", pid |-> 0, snap |-> job[c].snap])
    /\ Goto(c, "done")
    /\ UNCHANGED <<hostVars, reap, restarts>>

-----------------------------------------------------------------------------
(* The orphan reaper, VMM deaths and agent restarts.                       *)

Up == {m \in Machines : rec[m].state \in UpStates}
KnownPids == {rec[m].pid : m \in Up}

\* Mutant: whatever is alive is taken for known.
ReapListTrusting ==
    /\ "reaper" \in May /\ ~reap.busy
    /\ reap' = [busy |-> TRUE, pids |-> alive, up |-> Up]
    /\ UNCHANGED <<rec, hostVars, job, restarts>>

\* reapOrphans lists the records, ...
ReapList ==
    /\ "reaper" \in May /\ ~reap.busy
    /\ reap' = [busy |-> TRUE, pids |-> KnownPids, up |-> Up]
    /\ UNCHANGED <<rec, hostVars, job, restarts>>

\* ... and only then the processes and the mappers.  A mapper it closes has no
\* mount; a boot that has just opened it fails (BootMountFails).
ReapKill ==
    /\ reap.busy
    /\ alive' = alive \cap reap.pids
    /\ reap' = Idle
    /\ UNCHANGED <<rec, owner, started, sock, mounted, volVars, job, restarts>>

VMMDies(p) ==
    /\ "vmm" \in May
    /\ p \in alive
    /\ alive' = alive \ {p}
    /\ UNCHANGED <<rec, owner, started, sock, mounted, volVars, job, reap, restarts>>

\* Mutant: an interrupted stop is left to its goroutine, which is gone.
ReattachedLiveOnly(m) ==
    IF rec[m].state \in {"creating", "running"} /\ rec[m].pid \notin alive
    THEN [rec[m] EXCEPT !.state = "error", !.pid = 0] ELSE rec[m]

\* Reattach settles machines whose VMM is dead and leaves a live creating or
\* running one as it is.
Reattached(m) ==
    LET up == rec[m].pid \in alive IN
    CASE rec[m].state \in {"creating", "running"} /\ ~up -> [rec[m] EXCEPT !.state = "error", !.pid = 0]
      [] rec[m].state \in {"hibernating", "stopping"} /\ ~up -> [state |-> "stopped", pid |-> 0, snap |-> "absent"]
      [] OTHER -> rec[m]

\* An interrupted stop whose VMM lives is taken up again.
ResumedStop(m) == [NewJob EXCEPT !.pc = IF rec[m].state = "hibernating" THEN "snapshot" ELSE "kill",
                                 !.m = m, !.pid = rec[m].pid]

\* The agent dies with its goroutines, is started again and reattaches before it
\* serves the calls still to come.
Restart ==
    LET resumed == {m \in Machines : rec[m].state \in {"hibernating", "stopping"} /\ rec[m].pid \in alive}
        gone == {c \in Calls : job[c].pc # "new"}
    IN
    /\ restarts < MaxRestarts
    /\ restarts' = restarts + 1
    /\ rec' = [m \in Machines |-> Reattached(m)]
    /\ mounted' = {m \in mounted : m \in Up => rec[m].pid \in alive}
    /\ \E f \in [resumed -> gone] :
         /\ \A m, n \in resumed : f[m] = f[n] => m = n
         /\ job' = [c \in Calls |->
                      IF c \notin gone THEN job[c]
                      ELSE IF \E m \in resumed : f[m] = c
                           THEN ResumedStop(CHOOSE n \in resumed : f[n] = c)
                           ELSE [NewJob EXCEPT !.pc = "done"]]
    /\ reap' = Idle
    /\ UNCHANGED <<owner, alive, started, sock, volVars>>

-----------------------------------------------------------------------------

Call(c) == EnsureNothing(c) \/ EnsureReserve(c) \/ Stop(c) \/ Destroy(c)

Boot(c) ==
    \/ EnsureUpdate(c) \/ BootClose(c) \/ BootWipe(c) \/ BootMount(c) \/ BootMountFails(c)
    \/ BootLaunch(c) \/ BootLaunchFails(c) \/ BootPid(c) \/ BootStart(c) \/ BootConsume(c)
    \/ BootSettle(c) \/ BootCleanup(c) \/ BootErr(c)

TearDown(c) ==
    \/ StopSnapshot(c) \/ StopKill(c) \/ StopSettle(c)
    \/ DestroyTeardown(c) \/ DestroyDelete(c)

Next ==
    \/ \E c \in Calls : Call(c) \/ Boot(c) \/ TearDown(c)
    \/ ReapList \/ ReapKill \/ Restart
    \/ \E p \in Pids : VMMDies(p)

Spec == Init /\ [][Next]_vars

\* Goroutines run to their end and the reaper's ticker keeps firing.
Fairness ==
    /\ \A c \in Calls : WF_vars(Boot(c)) /\ WF_vars(TearDown(c))
    /\ WF_vars(ReapList) /\ WF_vars(ReapKill)

FairSpec == Spec /\ Fairness

-----------------------------------------------------------------------------
(* Properties.                                                             *)

TypeOK ==
    /\ rec \in [Machines -> Rec]
    /\ owner \in [Pids -> Machines \cup {NoMachine}]
    /\ alive \subseteq Pids /\ started \subseteq Pids
    /\ sock \in [Machines -> 0 .. MaxPid]
    /\ disk \in [Machines -> DiskStates]
    /\ mounted \subseteq Machines /\ snapFiles \subseteq Machines /\ restored \subseteq snapFiles
    /\ job \in [Calls -> Job]
    /\ reap \in [busy : BOOLEAN, pids : SUBSET (0 .. MaxPid), up : SUBSET Machines]
    /\ restarts \in 0 .. MaxRestarts

\* A record never claims a snapshot for a machine it reports running, whichever
\* of several boot and stop goroutines wrote it last ("Present is true only
\* while the machine is hibernated", state.go).
RunningHasNoSnapshot ==
    \A m \in Machines : rec[m].state = "running" => rec[m].snap = "absent"

\* The pid in a machine's record, and the pid a goroutine is about to record or
\* to kill, is that of a VMM of this machine: nobody stops another one's VMM.
PidsAreOwn ==
    /\ \A m \in Machines : rec[m].pid # 0 => owner[rec[m].pid] = m
    /\ \A c \in Calls : job[c].pid # 0 => owner[job[c].pid] = job[c].m

\* A machine reported running has the VMM of its record up and started, on its
\* own mounted volume.
RunningIsReal ==
    \A m \in Machines :
        rec[m].state = "running" /\ BusyWith(m) = {} =>
            rec[m].pid \in alive \cap started /\ m \in mounted /\ disk[m] = "data"

\* A stopped machine has no VMM and a closed volume, and the snapshot its record
\* promises is there, never restored before.
StoppedIsReal ==
    \A m \in Machines :
        rec[m].state = "stopped" /\ BusyWith(m) = {} =>
            /\ Owned(m) = {} /\ m \notin mounted
            /\ rec[m].snap = "present" => m \in snapFiles \ restored

\* A VMM that no up record refers to is killed in the end (or adopted by the
\* boot that launched it).
OrphansReaped ==
    \A p \in Pids : p \in alive /\ p \notin KnownPids ~> p \notin alive \/ p \in KnownPids

\* A machine reported creating while a goroutine works on it comes to be
\* reported otherwise, for which the control plane's poller waits, unless the
\* agent is restarted meanwhile.
BootSettles ==
    \A m \in Machines, n \in 0..MaxRestarts :
        rec[m].state = "creating" /\ BusyWith(m) # {} /\ restarts = n
            ~> rec[m].state # "creating" \/ restarts # n

\* A machine reported hibernating or stopping comes to be reported otherwise,
\* even if the agent is restarted in the middle ("the verb never wedges a
\* machine").
StopSettles ==
    \A m \in Machines :
        rec[m].state \in {"hibernating", "stopping"} ~> rec[m].state \notin {"hibernating", "stopping"}

\* Records keep their types, and none that says running promises a snapshot, in
\* any interleaving of calls, failures and restarts.
RecordsSound == TypeOK /\ RunningHasNoSnapshot

\* What is answered with 202 is followed up: boots, stops and what a failed boot
\* has left behind all come to an end.
DriverSettles == BootSettles /\ StopSettles /\ OrphansReaped

\* At most one VMM runs on a machine's volume ("Claiming the per-machine slot
\* here makes the second caller return immediately").
OneVMM == \A m \in Machines : Cardinality(Owned(m)) <= 1

\* With calls for a machine one at a time, what is reported is what is there: one
\* VMM at most, up and on its own volume where the record says running, none where
\* it says stopped.
RecordsTell == OneVMM /\ RunningIsReal /\ StoppedIsReal

-----------------------------------------------------------------------------
(* What comments claim and the code does not keep.                         *)

\* The same whatever works on it, across a restart of the agent, which reattaches
\* machines "so on-disk state matches reality before we serve
\* requests" (main.go).
ReattachSettles ==
    \A m \in Machines : rec[m].state = "creating" ~> rec[m].state # "creating"

\* When a boot starts, nothing of an earlier one is left ("Best-effort cleanup
\* of partial host state so a retry starts clean").
RetryStartsClean ==
    \A c \in Calls : job[c].pc = "close" /\ job[c].m # NoMachine => Owned(job[c].m) = {}

\* The persistent disk is lost to a Destroy and to nothing else ("removeJail
\* never recurses into a live /state mount").
DiskSurvives ==
    [][\A m \in Machines :
          disk[m] = "data" /\ disk'[m] # "data" =>
              \E c \in Calls : job[c].pc = "teardown" /\ job[c].m = m]_vars

\* The case that costs a disk is the fallback of a resume: while the record of a
\* machine has no snapshot, no boot that fails, VMM that dies, guess of the reaper or
\* restart of the agent takes its disk ("the volume is unmounted before this runs").
DiskOutlivesFailures ==
    [][\A m \in Machines :
          disk[m] = "data" /\ disk'[m] # "data" /\ rec[m].snap = "absent" =>
              \E c \in Calls : job[c].pc = "teardown" /\ job[c].m = m]_vars

\* A boot empties at most the volume of its own machine, never the live /state
\* of one that is running and that no call is about.
JailsApart ==
    [][\A m \in Machines :
          rec[m].state = "running" /\ BusyWith(m) = {} => disk'[m] # "nodata" \/ disk[m] = "nodata"]_vars

\* Snapshot files are loaded at most once ("stale guest RAM must never be
\* restored twice").
RestoredOnce ==
    [][\A c \in Calls : job[c].pc = "start" /\ job'[c].pc = "consume" => job[c].m \notin restored]_vars

\* A machine whose VMM is dead stops being reported running: the sweep of the
\* control plane relies on that "to detect crashes".
DeathNoticed ==
    \A m \in Machines :
        rec[m].state = "running" /\ rec[m].pid \notin alive
            ~> rec[m].state # "running" \/ rec[m].pid \in alive

\* The reaper kills only VMMs that no up record refers to ("SIGKILLs any
\* untracked VMM process").
ReaperSparesTracked ==
    [][reap.busy /\ ~reap'.busy /\ UNCHANGED rec => (alive \ alive') \cap KnownPids = {}]_vars
=============================================================================
