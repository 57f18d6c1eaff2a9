------------------------- MODULE ControlPartsProofs -------------------------
(***************************************************************************)
(* Proofs about the parts of MCControlParts.                               *)
(*                                                                         *)
(* FirecrackerDriver, for any machines, calls, failures and numbers of     *)
(* restarts: type correctness, running records without a snapshot, and,    *)
(* when jail uids differ, pids that are a machine's own.  When calls for a *)
(* machine come one at a time: disks that only a Destroy takes or the boot *)
(* a failed resume falls back to, and, without a restart, snapshots that   *)
(* are loaded once; records that tell what is there if nothing fails but   *)
(* snapshots.                                                              *)
(*                                                                         *)
(* GuestSettings, PullRequests, Worktree and Fleet, for any number of      *)
(* calls, requests, edits, hosts and machines: settings that follow the    *)
(* rows, pull requests and commits whose answers tell what happened, user  *)
(* work that stays, failures that are reported only where there are, and   *)
(* hosts that are given no more than they have.                            *)
(*                                                                         *)
(* EventStream, for any machines, writes and reconnects: a dashboard that  *)
(* has been sent everything is current and has missed no event.            *)
(*                                                                         *)
(* HostNetwork, for any machines, policies and boots: guests that are      *)
(* confined and served as their policies say, at every step of the others. *)
(***************************************************************************)
EXTENDS MCControlParts, Integers, Sequences, FiniteSets, FiniteSetTheorems, WellFoundedInduction, TLAPS

\* Where a goroutine that boots a zero Record can be.
ZeroPc == {"new", "close", "wipe", "cleanup", "err", "done"}

\* A call past its reservation works on a machine, but for the boot of a zero
\* Record, which never gets as far as the volume.
TargetInv == \A c \in Calls : job[c].m = NoMachine => job[c].pc \in ZeroPc

TInv == TypeOK /\ TargetInv

JobPc == {"new", "update", "done"} \cup BootPc \cup StopPc \cup DestroyPc

\* The values a job and a record are given are well typed.
LEMMA Literals ==
    /\ NewJob \in Job /\ NoRec \in Rec
BY DriverAssumption DEF NewJob, NoRec, Job, Rec, RecStates

\* A goroutine that becomes a well-typed one.
LEMMA BecomeTyped ==
    ASSUME TInv, NEW c \in Calls, NEW j \in Job, j.m = NoMachine => j.pc \in ZeroPc, Become(c, j)
    PROVE  job' \in [Calls -> Job] /\ TargetInv'
BY DEF TInv, TypeOK, TargetInv, Become

\* A goroutine that moves on to a known point stays well typed.
LEMMA GotoTyped ==
    ASSUME TInv, NEW c \in Calls, NEW pc \in JobPc, Goto(c, pc),
           job[c].pc \notin ZeroPc \/ pc \in ZeroPc
    PROVE  job' \in [Calls -> Job] /\ TargetInv'
BY BecomeTyped DEF TInv, TypeOK, TargetInv, Goto, Job, JobPc

\* So does one whose boot has failed.
LEMMA FailedTyped ==
    ASSUME TInv, NEW c \in Calls, Become(c, Failed(c))
    PROVE  job' \in [Calls -> Job] /\ TargetInv'
<1>1. job[c] \in Job
  BY DEF TInv, TypeOK
<1>2. Failed(c) \in Job
  BY <1>1, Zenon DEF Failed, Job, BootPc
<1>3. Failed(c).pc \in ZeroPc
  BY <1>1 DEF Failed, Job, ZeroPc
<1> QED BY <1>2, <1>3, BecomeTyped

\* An update of one record with a well-typed one.
LEMMA UpdateTyped ==
    ASSUME TypeOK, NEW m \in Machines, NEW new \in Rec, Update(m, new)
    PROVE  rec' \in [Machines -> Rec]
BY DEF TypeOK, Update

\* Every non-empty set of pids has a least one.
LEMMA LeastPid ==
    ASSUME NEW T \in SUBSET Pids, T # {}
    PROVE  /\ (CHOOSE p \in T : \A q \in T : p <= q) \in T
           /\ \A q \in T : (CHOOSE p \in T : \A r \in T : p <= r) <= q
<1> DEFINE R == OpToRel(<, Nat)
<1>1. IsWellFoundedOn(R, Nat)
  BY NatLessThanWellFounded, Zenon
<1>2. T \subseteq Nat
  BY DEF Pids
<1>3. \A y, x \in Nat : y < x => <<y, x>> \in R
  BY DEF OpToRel
<1> HIDE DEF R
<1>4. PICK x \in T : \A y \in T : ~(<<y, x>> \in R)
  BY <1>1, <1>2, WFMin, Zenon
<1>5. ASSUME NEW y \in T PROVE x <= y
  <2>1. x \in Nat /\ y \in Nat
    BY <1>2
  <2>2. ~(y < x)
    BY <2>1, <1>3, <1>4, Zenon
  <2> QED BY <2>1, <2>2
<1> QED BY <1>5

\* The initial state has the right types.
LEMMA InitTyped == Init => TInv
BY Literals, DriverAssumption DEF Init, TInv, TypeOK, TargetInv, DiskStates, Idle, NewJob, ZeroPc

\* Every step keeps the types.
LEMMA StepTyped == TInv /\ [Next]_vars => TInv'
<1> SUFFICES ASSUME TInv, [Next]_vars PROVE TInv'
  OBVIOUS
<1>0. \A c \in Calls : job[c] \in Job
  BY DEF TInv, TypeOK
<1>1. ASSUME NEW c \in Calls, EnsureNothing(c) PROVE TInv'
  <2>1. job' \in [Calls -> Job] /\ TargetInv'
    BY <1>1, <1>0, DriverAssumption, BecomeTyped, Zenon DEF EnsureNothing, Job, ZeroPc
  <2> QED BY <1>1, <1>0, <2>1, DriverAssumption DEF EnsureNothing, TInv, TypeOK, hostVars, volVars
<1>2. ASSUME NEW c \in Calls, EnsureReserve(c) PROVE TInv'
  <2>1. job' \in [Calls -> Job] /\ TargetInv'
    BY <1>2, <1>0, DriverAssumption, BecomeTyped, Zenon DEF EnsureReserve, Job, BootPc, ZeroPc
  <2>2. rec' \in [Machines -> Rec]
    BY <1>2, <1>0, Literals DEF EnsureReserve, TInv, TypeOK, Rec, RecStates
  <2> QED BY <1>2, <2>1, <2>2 DEF EnsureReserve, TInv, TypeOK, hostVars, volVars
<1>3. ASSUME NEW c \in Calls, EnsureUpdate(c) PROVE TInv'
  <2>1. job' \in [Calls -> Job] /\ TargetInv'
    <3>1. CASE Become(c, [job[c] EXCEPT !.pc = "close", !.m = NoMachine])
      BY <3>1, <1>0, BecomeTyped, Zenon DEF Job, BootPc, ZeroPc
    <3>2. ASSUME NEW mode \in {"cold", "resume"}, Become(c, [job[c] EXCEPT !.pc = "close", !.mode = mode])
          PROVE  job' \in [Calls -> Job] /\ TargetInv'
      BY <3>2, <1>0, BecomeTyped, Zenon DEF Job, BootPc, ZeroPc
    <3> QED BY <1>3, <3>1, <3>2 DEF EnsureUpdate
  <2>2. rec' \in [Machines -> Rec]
    BY <1>3, <1>0 DEF EnsureUpdate, Tracked, TInv, TypeOK, Rec, RecStates
  <2> QED BY <1>3, <2>1, <2>2 DEF EnsureUpdate, TInv, TypeOK, hostVars, volVars
<1>4. ASSUME NEW c \in Calls, Stop(c) PROVE TInv'
  <2>1. job' \in [Calls -> Job] /\ TargetInv'
    <3>1. PICK m \in Tracked :
             \/ Become(c, [job[c] EXCEPT !.pc = "done", !.m = m])
             \/ \E pc \in {"snapshot", "kill"} :
                   Become(c, [job[c] EXCEPT !.pc = pc, !.m = m, !.pid = rec[m].pid])
      BY <1>4, ZenonT(40) DEF Stop
    <3>2. m \in Machines /\ rec[m].pid \in 0 .. MaxPid
      BY DEF Tracked, TInv, TypeOK, Rec
    <3>3. CASE Become(c, [job[c] EXCEPT !.pc = "done", !.m = m])
      BY <3>2, <3>3, <1>0, BecomeTyped, DriverAssumption, Zenon DEF Job
    <3>4. ASSUME NEW pc \in {"snapshot", "kill"},
                 Become(c, [job[c] EXCEPT !.pc = pc, !.m = m, !.pid = rec[m].pid])
          PROVE  job' \in [Calls -> Job] /\ TargetInv'
      BY <3>2, <3>4, <1>0, BecomeTyped, DriverAssumption, Zenon DEF Job, StopPc
    <3> QED BY <3>1, <3>3, <3>4
  <2>2. rec' \in [Machines -> Rec]
    BY <1>4, <1>0 DEF Stop, Tracked, TInv, TypeOK, Rec, RecStates
  <2> QED BY <1>4, <2>1, <2>2 DEF Stop, TInv, TypeOK, hostVars, volVars
<1>5. ASSUME NEW c \in Calls, Destroy(c) PROVE TInv'
  <2>1. job' \in [Calls -> Job] /\ TargetInv'
    BY <1>5, <1>0, DriverAssumption, BecomeTyped, Zenon DEF Destroy, Tracked, Job, DestroyPc, ZeroPc
  <2> QED BY <1>5, <1>0, <2>1, DriverAssumption DEF Destroy, TInv, TypeOK, volVars
<1>6. ASSUME NEW c \in Calls, DestroyTeardown(c) PROVE TInv'
  <2>1. job' \in [Calls -> Job] /\ TargetInv'
    BY <1>6, <1>0, GotoTyped DEF DestroyTeardown, JobPc, DestroyPc, ZeroPc
  <2>3. disk' \in [Machines -> DiskStates] /\ sock' \in [Machines -> 0 .. MaxPid]
    <3>1. 0 \in 0 .. MaxPid
      BY DriverAssumption
    <3>2. sock' \in [Machines -> 0 .. MaxPid]
      BY <1>6, <3>1, Zenon DEF DestroyTeardown, TInv, TypeOK
    <3>3. disk' \in [Machines -> DiskStates]
      BY <1>6, Zenon DEF DestroyTeardown, TInv, TypeOK, DiskStates
    <3> QED BY <3>2, <3>3
  <2> QED BY <1>6, <1>0, <2>1, <2>3, DriverAssumption DEF DestroyTeardown, TInv, TypeOK
<1>7. ASSUME NEW c \in Calls, DestroyDelete(c) PROVE TInv'
  <2>1. job' \in [Calls -> Job] /\ TargetInv'
    BY <1>7, <1>0, GotoTyped DEF DestroyDelete, JobPc, ZeroPc
  <2>2. rec' \in [Machines -> Rec]
    BY <1>7, <1>0, Literals, Zenon DEF DestroyDelete, TInv, TypeOK
  <2> QED BY <1>7, <2>1, <2>2 DEF DestroyDelete, TInv, TypeOK, hostVars, volVars
<1>8. ASSUME NEW c \in Calls, BootClose(c) PROVE TInv'
  <2>1. job' \in [Calls -> Job] /\ TargetInv'
    BY <1>8, <1>0, GotoTyped DEF BootClose, JobPc, BootPc, ZeroPc
  <2> QED BY <1>8, <1>0, <2>1, DriverAssumption DEF BootClose, TInv, TypeOK, volVars
<1>9. ASSUME NEW c \in Calls, BootWipe(c) PROVE TInv'
  <2>1. job' \in [Calls -> Job] /\ TargetInv'
    <3>1. CASE Goto(c, "mount") /\ job[c].m \in Machines
      BY <1>0, <3>1, BecomeTyped, DriverAssumption DEF Goto, Job, BootPc
    <3>2. CASE Become(c, Failed(c))
      BY <3>2, FailedTyped
    <3> QED BY <1>9, <3>1, <3>2 DEF BootWipe
  <2> QED BY <1>9, <1>0, <2>1, DriverAssumption DEF BootWipe, RemoveJail, TInv, TypeOK, DiskStates
<1>10. ASSUME NEW c \in Calls, BootMount(c) PROVE TInv'
  <2>1. job' \in [Calls -> Job] /\ TargetInv'
    BY <1>10, <1>0, GotoTyped DEF BootMount, JobPc, BootPc, ZeroPc
  <2> QED BY <1>10, <1>0, <2>1, DriverAssumption DEF BootMount, TInv, TypeOK, DiskStates, TargetInv, ZeroPc, Job
<1>11. ASSUME NEW c \in Calls, BootMountFails(c) PROVE TInv'
  <2>1. job' \in [Calls -> Job] /\ TargetInv'
    BY <1>11, <1>0, FailedTyped DEF BootMountFails
  <2>3. disk' \in [Machines -> DiskStates]
    BY <1>11, <1>0, DriverAssumption DEF BootMountFails, TInv, TypeOK, DiskStates, TargetInv, ZeroPc, Job
  <2> QED BY <1>11, <1>0, <2>1, <2>3, DriverAssumption DEF BootMountFails, TInv, TypeOK, TargetInv, ZeroPc, Job
<1>12. ASSUME NEW c \in Calls, BootLaunch(c) PROVE TInv'
  <2> DEFINE pid == Pgrep(job[c].m, alive', owner')
  <2>0. alive' \subseteq Pids
    BY <1>12 DEF BootLaunch, TInv, TypeOK
  <2>1. job' \in [Calls -> Job] /\ TargetInv'
    <3>1. pid \in 0 .. MaxPid
      <4> DEFINE found == {p \in alive' : UidOf[owner'[p]] = UidOf[job[c].m]}
      <4>1. CASE found = {}
        BY <4>1, DriverAssumption DEF Pgrep
      <4>2. CASE found # {}
        <5>1. pid \in found
          BY <4>2, <2>0, LeastPid, Zenon DEF Pgrep
        <5>2. pid \in Pids
          BY <5>1, <2>0
        <5>3. \A q \in Pids : q \in 0 .. MaxPid
          BY DriverAssumption DEF Pids
        <5> QED BY <5>2, <5>3
      <4> QED BY <4>1, <4>2
    <3>2. CASE pid = 0
      BY <3>2, <1>12, FailedTyped DEF BootLaunch
    <3>3. CASE pid # 0
      <4>1. Become(c, [job[c] EXCEPT !.pc = "pid", !.pid = pid])
        BY <3>3, <1>12 DEF BootLaunch
      <4>2. job[c].m # NoMachine
        BY <1>12 DEF BootLaunch, TInv, TargetInv, ZeroPc
      <4>3. [job[c] EXCEPT !.pc = "pid", !.pid = pid] \in Job
        BY <3>1, <1>0, Zenon DEF Job, BootPc
      <4> QED BY <4>1, <4>2, <4>3, <1>0, BecomeTyped, Zenon DEF Job
    <3> QED BY <3>2, <3>3
  <2>3. owner' \in [Pids -> Machines \cup {NoMachine}] /\ sock' \in [Machines -> 0 .. MaxPid]
    <3>1. PICK p \in Pids :
             /\ owner' = [owner EXCEPT ![p] = job[c].m]
             /\ sock' = IF sock[job[c].m] = 0 THEN [sock EXCEPT ![job[c].m] = p] ELSE sock
      BY <1>12, Zenon DEF BootLaunch
    <3>2. p \in 0 .. MaxPid /\ job[c].m \in Machines \cup {NoMachine}
      BY <1>0 DEF Pids, Job
    <3>3. sock' \in [Machines -> 0 .. MaxPid]
      BY <3>1, <3>2, Zenon DEF TInv, TypeOK
    <3>4. owner' \in [Pids -> Machines \cup {NoMachine}]
      BY <3>1, <3>2 DEF TInv, TypeOK
    <3> QED BY <3>3, <3>4
  <2> QED BY <1>12, <1>0, <2>1, <2>3, DriverAssumption DEF BootLaunch, TInv, TypeOK, TargetInv, ZeroPc, Job, Pids, volVars
<1>13. ASSUME NEW c \in Calls, BootLaunchFails(c) PROVE TInv'
  <2>1. job' \in [Calls -> Job] /\ TargetInv'
    BY <1>13, <1>0, FailedTyped DEF BootLaunchFails
  <2> QED BY <1>13, <1>0, <2>1, DriverAssumption DEF BootLaunchFails, TInv, TypeOK, hostVars, volVars
<1>14. ASSUME NEW c \in Calls, BootPid(c) PROVE TInv'
  <2>1. job' \in [Calls -> Job] /\ TargetInv'
    BY <1>14, <1>0, GotoTyped DEF BootPid, JobPc, BootPc, ZeroPc
  <2>2. rec' \in [Machines -> Rec]
    BY <1>14, <1>0 DEF BootPid, Update, Tracked, TInv, TypeOK, Rec, Job
  <2> QED BY <1>14, <2>1, <2>2 DEF BootPid, TInv, TypeOK, hostVars, volVars
<1>15. ASSUME NEW c \in Calls, BootStart(c) PROVE TInv'
  <2>1. job' \in [Calls -> Job] /\ TargetInv'
    <3>1. CASE Goto(c, "settle") \/ Goto(c, "consume")
      BY <1>15, <3>1, GotoTyped DEF BootStart, JobPc, BootPc, ZeroPc
    <3>2. CASE Become(c, Failed(c))
      BY <3>2, FailedTyped
    <3> QED BY <1>15, <3>1, <3>2 DEF BootStart
  <2> QED BY <1>15, <1>0, <2>1, DriverAssumption DEF BootStart, CanStart, TInv, TypeOK, TargetInv, ZeroPc, Job
<1>16. ASSUME NEW c \in Calls, BootConsume(c) PROVE TInv'
  <2>1. job' \in [Calls -> Job] /\ TargetInv'
    BY <1>16, <1>0, GotoTyped DEF BootConsume, JobPc, BootPc, ZeroPc
  <2> QED BY <1>16, <1>0, <2>1, DriverAssumption DEF BootConsume, TInv, TypeOK
<1>17. ASSUME NEW c \in Calls, BootSettle(c) PROVE TInv'
  <2>1. job' \in [Calls -> Job] /\ TargetInv'
    BY <1>17, <1>0, GotoTyped DEF BootSettle, JobPc, BootPc, ZeroPc
  <2>2. rec' \in [Machines -> Rec]
    <3>1. job[c].m \in Machines
      BY <1>17, <1>0 DEF BootSettle, TInv, TargetInv, ZeroPc, Job
    <3>0. \A m \in Machines : rec[m] \in Rec
      BY DEF TInv, TypeOK
    <3>2. [rec[job[c].m] EXCEPT !.state = IF @ = "creating" THEN "running" ELSE @, !.snap = "absent"] \in Rec
      BY <3>0, <3>1, <1>0, DriverAssumption, ZenonT(40) DEF Rec, RecStates, Job
    <3> QED BY <1>17, <3>1, <3>2, UpdateTyped DEF BootSettle, TInv
  <2> QED BY <1>17, <2>1, <2>2 DEF BootSettle, TInv, TypeOK, hostVars, volVars
<1>18. ASSUME NEW c \in Calls, BootCleanup(c) PROVE TInv'
  <2>1. job' \in [Calls -> Job] /\ TargetInv'
    BY <1>18, <1>0, GotoTyped DEF BootCleanup, JobPc, BootPc, ZeroPc
  <2> QED BY <1>18, <1>0, <2>1, DriverAssumption, SMTT(30) DEF BootCleanup, RemoveJail, TInv, TypeOK, DiskStates, Job, volVars
<1>19. ASSUME NEW c \in Calls, BootErr(c) PROVE TInv'
  <2>1. job' \in [Calls -> Job] /\ TargetInv'
    BY <1>19, <1>0, GotoTyped DEF BootErr, JobPc, BootPc, ZeroPc
  <2>2. rec' \in [Machines -> Rec]
    BY <1>19, <1>0, SMTT(30) DEF BootErr, Update, Tracked, TInv, TypeOK, Rec, RecStates
  <2> QED BY <1>19, <2>1, <2>2 DEF BootErr, TInv, TypeOK, hostVars, volVars
<1>20. ASSUME NEW c \in Calls, StopSnapshot(c) PROVE TInv'
  <2>1. job' \in [Calls -> Job] /\ TargetInv'
    <3>1. CASE Become(c, [job[c] EXCEPT !.pc = "kill", !.snap = "present"])
      <4>1. [job[c] EXCEPT !.pc = "kill", !.snap = "present"] \in Job
        BY <1>0, Zenon DEF Job, StopPc
      <4>2. job[c].m # NoMachine
        BY <1>20 DEF StopSnapshot, TInv, TargetInv, ZeroPc
      <4>3. [job[c] EXCEPT !.pc = "kill", !.snap = "present"].m = job[c].m
        BY <1>0 DEF Job
      <4> QED BY <3>1, <4>1, <4>2, <4>3, BecomeTyped, Zenon
    <3>2. CASE Goto(c, "kill")
      BY <1>20, <3>2, GotoTyped DEF StopSnapshot, ZeroPc, JobPc, StopPc
    <3> QED BY <1>20, <3>1, <3>2 DEF StopSnapshot
  <2> QED BY <1>20, <1>0, <2>1, DriverAssumption DEF StopSnapshot, TInv, TypeOK, TargetInv, ZeroPc, Job
<1>21. ASSUME NEW c \in Calls, StopKill(c) PROVE TInv'
  <2>1. job' \in [Calls -> Job] /\ TargetInv'
    BY <1>21, <1>0, GotoTyped DEF StopKill, JobPc, StopPc, ZeroPc
  <2> QED BY <1>21, <1>0, <2>1, DriverAssumption DEF StopKill, TInv, TypeOK, volVars
<1>22. ASSUME NEW c \in Calls, StopSettle(c) PROVE TInv'
  <2>1. job' \in [Calls -> Job] /\ TargetInv'
    BY <1>22, <1>0, GotoTyped DEF StopSettle, JobPc, StopPc, ZeroPc
  <2>2. rec' \in [Machines -> Rec]
    <3>1. job[c].m \in Machines
      BY <1>22, <1>0 DEF StopSettle, TInv, TargetInv, ZeroPc, Job
    <3>0. \A m \in Machines : rec[m] \in Rec
      BY DEF TInv, TypeOK
    <3>2. [state |-> "stopped", pid |-> 0, snap |-> job[c].snap] \in Rec
      BY <3>0, <3>1, <1>0, DriverAssumption DEF Rec, RecStates, Job
    <3> QED BY <1>22, <3>1, <3>2, UpdateTyped DEF StopSettle, TInv
  <2> QED BY <1>22, <2>1, <2>2 DEF StopSettle, TInv, TypeOK, hostVars, volVars
<1>23. ASSUME ReapList PROVE TInv'
  <2>1. KnownPids \subseteq 0 .. MaxPid
    BY DEF KnownPids, Up, TInv, TypeOK, Rec
  <2> QED BY <1>23, <2>1 DEF ReapList, Up, TInv, TypeOK, TargetInv, hostVars, volVars
<1>24. ASSUME ReapKill PROVE TInv'
  BY <1>24 DEF ReapKill, Idle, TInv, TypeOK, TargetInv, volVars
<1>25. ASSUME NEW p \in Pids, VMMDies(p) PROVE TInv'
  BY <1>25 DEF VMMDies, TInv, TypeOK, TargetInv, volVars
<1>26. ASSUME Restart PROVE TInv'
  <2>1. \A m \in Machines : Reattached(m) \in Rec
    <3> SUFFICES ASSUME NEW m \in Machines PROVE Reattached(m) \in Rec
      OBVIOUS
    <3>1. rec[m] \in Rec
      BY DEF TInv, TypeOK
    <3>2. CASE Reattached(m) = rec[m]
      BY <3>1, <3>2
    <3>3. CASE Reattached(m) = [rec[m] EXCEPT !.state = "error", !.pid = 0]
      <4>1. 0 \in 0 .. MaxPid
        BY DriverAssumption
      <4> QED BY <3>1, <3>3, <4>1, Zenon DEF Rec, RecStates
    <3>4. CASE Reattached(m) = [state |-> "stopped", pid |-> 0, snap |-> "absent"]
      BY <3>4, DriverAssumption DEF Rec, RecStates
    <3> QED BY <3>2, <3>3, <3>4 DEF Reattached
  <2>2. \A m \in Machines : ResumedStop(m) \in Job
    BY Literals, Zenon DEF ResumedStop, NewJob, TInv, TypeOK, Rec, Job, StopPc
  <2>3. [NewJob EXCEPT !.pc = "done"] \in Job
    BY DriverAssumption DEF NewJob, Job
  <2>4. \A c \in Calls : \/ job'[c] = job[c] \/ job'[c] = [NewJob EXCEPT !.pc = "done"]
                         \/ \E m \in Machines : job'[c] = ResumedStop(m)
    BY <1>26 DEF Restart
  <2>5. job' \in [Calls -> Job]
    <3>1. \A c \in Calls : job'[c] \in Job
      BY <2>2, <2>3, <2>4, <1>0
    <3>2. job' = [c \in Calls |-> job'[c]]
      BY <1>26 DEF Restart
    <3> QED BY <3>1, <3>2
  <2>6. TargetInv'
    <3>1. \A m \in Machines : ResumedStop(m).m # NoMachine
      BY DriverAssumption DEF ResumedStop, NewJob
    <3>2. [NewJob EXCEPT !.pc = "done"].pc \in ZeroPc
      BY DEF NewJob, ZeroPc
    <3> QED BY <2>4, <3>1, <3>2, Zenon DEF TInv, TargetInv
  <2>7. restarts' \in 0 .. MaxRestarts
    BY <1>26, DriverAssumption DEF Restart, TInv, TypeOK
  <2> QED BY <1>26, <2>1, <2>5, <2>6, <2>7, Zenon DEF Restart, Idle, TInv, TypeOK, volVars
<1>27. ASSUME UNCHANGED vars PROVE TInv'
  BY <1>27 DEF vars, hostVars, volVars, TInv, TypeOK, TargetInv
<1> QED
  BY <1>1, <1>2, <1>3, <1>4, <1>5, <1>6, <1>7, <1>8, <1>9, <1>10, <1>11, <1>12, <1>13, <1>14, <1>15, <1>16, <1>17, <1>18, <1>19, <1>20, <1>21, <1>22, <1>23, <1>24, <1>25, <1>26, <1>27
     DEF Next, Call, Boot, TearDown

\* In every reachable state the driver's variables have their types.
THEOREM DriverTypes == Spec => []TypeOK
<1>1. Spec => []TInv
  BY InitTyped, StepTyped, PTL DEF Spec
<1> QED BY <1>1, PTL DEF TInv

-----------------------------------------------------------------------------

\* A step that leaves the records alone, or gives every record it makes running
\* an absent snapshot, keeps RunningHasNoSnapshot.
LEMMA StepNoSnapshot == TInv /\ RunningHasNoSnapshot /\ [Next]_vars => RunningHasNoSnapshot'
<1> SUFFICES ASSUME TInv, RunningHasNoSnapshot, [Next]_vars PROVE RunningHasNoSnapshot'
  OBVIOUS
<1>0. rec \in [Machines -> Rec]
  BY DEF TInv, TypeOK
<1>1. ASSUME rec' = rec PROVE RunningHasNoSnapshot'
  BY <1>1 DEF RunningHasNoSnapshot
<1>2. ASSUME NEW m \in Machines, NEW new, new.state = "running" => new.snap = "absent",
             rec' = [rec EXCEPT ![m] = new]
      PROVE  RunningHasNoSnapshot'
  BY <1>0, <1>2 DEF RunningHasNoSnapshot
<1>3. ASSUME NEW c \in Calls, Call(c) PROVE RunningHasNoSnapshot'
  <2>1. CASE EnsureNothing(c) \/ Destroy(c)
    BY <2>1, <1>1, Zenon DEF EnsureNothing, Destroy
  <2>2. CASE EnsureReserve(c)
    BY <2>2, <1>0, <1>1, <1>2 DEF EnsureReserve, NoRec
  <2>3. CASE Stop(c)
    BY <2>3, <1>0, <1>1 DEF Stop, Tracked, RunningHasNoSnapshot, Rec
  <2> QED BY <1>3, <2>1, <2>2, <2>3 DEF Call
<1>4. ASSUME NEW c \in Calls, Boot(c) PROVE RunningHasNoSnapshot'
  <2>1. CASE EnsureUpdate(c)
    BY <2>1, <1>0, <1>1 DEF EnsureUpdate, RunningHasNoSnapshot, Rec
  <2>2. CASE BootPid(c)
    BY <2>2, <1>0, <1>1 DEF BootPid, Update, Tracked, RunningHasNoSnapshot, Rec
  <2>3. CASE BootSettle(c)
    BY <2>3, <1>0, <1>1 DEF BootSettle, Update, Tracked, RunningHasNoSnapshot, Rec
  <2>4. CASE BootErr(c)
    BY <2>4, <1>0, <1>1, SMTT(30) DEF BootErr, Update, Tracked, RunningHasNoSnapshot, Rec
  <2>5. CASE \/ BootClose(c) \/ BootWipe(c) \/ BootMount(c) \/ BootMountFails(c) \/ BootLaunch(c)
             \/ BootLaunchFails(c) \/ BootStart(c) \/ BootConsume(c) \/ BootCleanup(c)
    BY <2>5, <1>1 DEF BootClose, BootWipe, BootMount, BootMountFails, BootLaunch,
                      BootLaunchFails, BootStart, BootConsume, BootCleanup
  <2> QED BY <1>4, <2>1, <2>2, <2>3, <2>4, <2>5 DEF Boot
<1>5. ASSUME NEW c \in Calls, TearDown(c) PROVE RunningHasNoSnapshot'
  <2>1. CASE StopSettle(c)
    BY <2>1, <1>0, <1>1, <1>2, Zenon DEF StopSettle, Update, Tracked
  <2>2. CASE DestroyDelete(c)
    BY <2>2, <1>0 DEF DestroyDelete, NoRec, RunningHasNoSnapshot, Rec
  <2>3. CASE StopSnapshot(c) \/ StopKill(c) \/ DestroyTeardown(c)
    BY <2>3, <1>1 DEF StopSnapshot, StopKill, DestroyTeardown
  <2> QED BY <1>5, <2>1, <2>2, <2>3 DEF TearDown
<1>6. ASSUME ReapList \/ ReapKill \/ (\E p \in Pids : VMMDies(p)) \/ UNCHANGED vars
      PROVE  RunningHasNoSnapshot'
  BY <1>6, <1>1 DEF ReapList, ReapKill, VMMDies, vars
<1>7. ASSUME Restart PROVE RunningHasNoSnapshot'
  <2>1. \A m \in Machines : Reattached(m).state = "running" => Reattached(m) = rec[m]
    BY <1>0 DEF Reattached, Rec
  <2> QED BY <1>7, <2>1 DEF Restart, RunningHasNoSnapshot
<1> QED BY <1>3, <1>4, <1>5, <1>6, <1>7 DEF Next

\* Whatever calls race and whatever fails, a machine reported running has no
\* snapshot in its record.
THEOREM RunningWithoutSnapshotRecord == Spec => []RunningHasNoSnapshot
<1>1. Init => RunningHasNoSnapshot
  BY DEF Init, RunningHasNoSnapshot, NoRec
<1> QED BY <1>1, InitTyped, StepTyped, StepNoSnapshot, PTL DEF Spec

-----------------------------------------------------------------------------

\* What a goroutine knows of its pid: it found it on its own machine, after the
\* boot had begun.
JobOwn(j) ==
    /\ j.pid # 0 => owner[j.pid] = j.m /\ j.m \in Machines
    /\ j.pc \in {"new", "update", "close"} => j.pid = 0

OwnInv ==
    /\ \A p \in alive : owner[p] \in Machines
    /\ \A m \in Machines : rec[m].pid # 0 => owner[rec[m].pid] = m
    /\ \A c \in Calls : JobOwn(job[c])

\* A step that launches nothing keeps OwnInv if the pids it records and the
\* goroutines it changes are fine.
LEMMA OwnKept ==
    ASSUME OwnInv, owner' = owner, alive' \subseteq alive,
           \A m \in Machines : rec'[m].pid # 0 => owner[rec'[m].pid] = m,
           \A c \in Calls : job'[c] = job[c] \/ JobOwn(job'[c])
    PROVE  OwnInv'
<1>1. \A c \in Calls : JobOwn(job'[c])
  BY DEF OwnInv
<1>2. \A c \in Calls : JobOwn(job[c])'
  BY <1>1 DEF JobOwn
<1> QED BY <1>2 DEF OwnInv

\* The same for a step of one goroutine.
LEMMA OwnMoves ==
    ASSUME TInv, OwnInv, owner' = owner, alive' \subseteq alive, NEW c \in Calls, NEW j,
           Become(c, j), JobOwn(j),
           \A m \in Machines : rec'[m].pid # 0 => owner[rec'[m].pid] = m
    PROVE  OwnInv'
<1>1. \A d \in Calls : job'[d] = job[d] \/ JobOwn(job'[d])
  BY DEF TInv, TypeOK, Become
<1> QED BY <1>1, OwnKept

\* Moving on, and failing, keep a goroutine's machine and pid.
LEMMA GotoOwn ==
    ASSUME TInv, OwnInv, NEW c \in Calls, NEW pc, pc \notin {"new", "update", "close"}
    PROVE  JobOwn([job[c] EXCEPT !.pc = pc]) /\ JobOwn(Failed(c))
<1>1. job[c] \in Job /\ JobOwn(job[c])
  BY DEF TInv, TypeOK, OwnInv
<1> QED BY <1>1 DEF JobOwn, Failed, Job

\* Steps that keep every recorded pid.
LEMMA PidsKept ==
    ASSUME OwnInv, \A m \in Machines : rec'[m].pid \in {0, rec[m].pid}
    PROVE  \A m \in Machines : rec'[m].pid # 0 => owner[rec'[m].pid] = m
BY DEF OwnInv

\* A call starts with what the record says.
LEMMA CallOwn ==
    ASSUME TInv, OwnInv, NEW c \in Calls, Call(c)
    PROVE  OwnInv'
<1>0. job[c] \in Job /\ JobOwn(job[c]) /\ rec \in [Machines -> Rec]
  BY DEF TInv, TypeOK, OwnInv
<1>1. CASE EnsureNothing(c)
  <2>1. PICK m \in Machines : job[c].pc = "new" /\ Become(c, [job[c] EXCEPT !.pc = "done", !.m = m])
    BY <1>1, Zenon DEF EnsureNothing, MayCall
  <2>2. JobOwn([job[c] EXCEPT !.pc = "done", !.m = m])
    BY <1>0, <2>1 DEF JobOwn, Job
  <2> QED BY <1>1, <2>1, <2>2, PidsKept, OwnMoves DEF EnsureNothing, hostVars
<1>2. CASE EnsureReserve(c)
  <2>1. PICK m \in Machines, pc \in {"close", "update"} :
           job[c].pc = "new" /\ Become(c, [job[c] EXCEPT !.pc = pc, !.m = m])
    BY <1>2, ZenonT(40) DEF EnsureReserve, MayCall
  <2>2. JobOwn([job[c] EXCEPT !.pc = pc, !.m = m])
    BY <1>0, <2>1 DEF JobOwn, Job
  <2>3. \A n \in Machines : rec'[n].pid \in {0, rec[n].pid}
    BY <1>0, <1>2 DEF EnsureReserve, NoRec
  <2> QED BY <1>2, <2>1, <2>2, <2>3, PidsKept, OwnMoves DEF EnsureReserve, hostVars
<1>3. CASE Stop(c)
  <2>1. PICK m \in Machines :
           /\ job[c].pc = "new"
           /\ \/ Become(c, [job[c] EXCEPT !.pc = "done", !.m = m])
              \/ \E pc \in {"snapshot", "kill"} :
                   Become(c, [job[c] EXCEPT !.pc = pc, !.m = m, !.pid = rec[m].pid])
    BY <1>3, ZenonT(40) DEF Stop, MayCall, Tracked
  <2>2. JobOwn([job[c] EXCEPT !.pc = "done", !.m = m])
    BY <1>0, <2>1 DEF JobOwn, Job
  <2>3. \A pc \in {"snapshot", "kill"} : JobOwn([job[c] EXCEPT !.pc = pc, !.m = m, !.pid = rec[m].pid])
    BY <1>0, <2>1 DEF JobOwn, Job, OwnInv
  <2>4. \A n \in Machines : rec'[n].pid \in {0, rec[n].pid}
    BY <1>0, <1>3 DEF Stop, Tracked, Rec
  <2> QED BY <1>3, <2>1, <2>2, <2>3, <2>4, PidsKept, OwnMoves DEF Stop, hostVars
<1>4. CASE Destroy(c)
  <2>1. PICK m \in Machines : job[c].pc = "new" /\ Become(c, [job[c] EXCEPT !.pc = "teardown", !.m = m])
    BY <1>4, Zenon DEF Destroy, MayCall, Tracked
  <2>2. JobOwn([job[c] EXCEPT !.pc = "teardown", !.m = m])
    BY <1>0, <2>1 DEF JobOwn, Job
  <2>3. alive' \subseteq alive /\ owner' = owner /\ rec' = rec
    BY <1>4 DEF Destroy
  <2> QED BY <2>1, <2>2, <2>3, PidsKept, OwnMoves
<1> QED BY <1>1, <1>2, <1>3, <1>4 DEF Call

\* A launch: the pid found by the machine's uid is one of the machine's own VMMs,
\* because every live VMM belongs to a machine and uids differ.
LEMMA LaunchOwn ==
    ASSUME UidsDiffer, TInv, OwnInv, NEW c \in Calls, BootLaunch(c)
    PROVE  OwnInv'
<1> DEFINE m == job[c].m
           pid == Pgrep(m, alive', owner')
           found == {q \in alive' : UidOf[owner'[q]] = UidOf[m]}
<1>0. job[c] \in Job /\ m \in Machines /\ JobOwn(job[c])
  BY DEF TInv, TypeOK, OwnInv, TargetInv, BootLaunch, ZeroPc, Job
<1>1. PICK p \in Pids : /\ owner[p] = NoMachine
                        /\ owner' = [owner EXCEPT ![p] = m]
                        /\ alive' \subseteq alive \cup {p}
  BY Zenon DEF BootLaunch
<1>2. \A q \in alive' : owner'[q] \in Machines
  BY <1>0, <1>1 DEF OwnInv, TInv, TypeOK
<1>3. \A q \in Pids : q # p => owner'[q] = owner[q]
  BY <1>1 DEF TInv, TypeOK
<1>4. \A n \in Machines : rec'[n].pid # 0 => owner'[rec'[n].pid] = n
  <2> SUFFICES ASSUME NEW n \in Machines, rec[n].pid # 0 PROVE owner'[rec[n].pid] = n
    BY DEF BootLaunch
  <2>1. rec[n].pid \in Pids /\ owner[rec[n].pid] = n /\ n # NoMachine
    BY DriverAssumption DEF OwnInv, TInv, TypeOK, Rec, Pids
  <2> QED BY <1>1, <1>3, <2>1
<1>5. \A d \in Calls : job[d].pid # 0 => owner'[job[d].pid] = job[d].m
  <2> SUFFICES ASSUME NEW d \in Calls, job[d].pid # 0 PROVE owner'[job[d].pid] = job[d].m
    OBVIOUS
  <2>1. job[d].pid \in Pids /\ owner[job[d].pid] = job[d].m /\ job[d].m # NoMachine
    BY DriverAssumption DEF OwnInv, JobOwn, TInv, TypeOK, Job, Pids
  <2> QED BY <1>1, <1>3, <2>1
<1>6. pid # 0 => owner'[pid] = m
  <2> SUFFICES ASSUME pid # 0 PROVE owner'[pid] = m
    OBVIOUS
  <2>1. found # {} /\ found \subseteq Pids
    BY <1>1 DEF Pgrep, TInv, TypeOK
  <2>2. pid \in found
    BY <2>1, LeastPid DEF Pgrep
  <2> QED BY <2>2, <1>0, <1>2 DEF UidsDiffer
<1>7. \A d \in Calls : JobOwn(job[d])'
  <2>1. ASSUME NEW d \in Calls, d # c PROVE JobOwn(job[d])'
    <3>1. job'[d] = job[d]
      BY <2>1 DEF BootLaunch, Become, TInv, TypeOK
    <3> QED BY <3>1, <1>5 DEF OwnInv, JobOwn
  <2>2. CASE pid = 0
    <3>1. job'[c] = Failed(c)
      BY <2>2 DEF BootLaunch, Become, TInv, TypeOK
    <3>2. Failed(c).pid = job[c].pid /\ Failed(c).m = m /\ Failed(c).pc \in {"wipe", "cleanup"}
      BY <1>0 DEF Failed, Job
    <3> QED BY <2>1, <3>1, <3>2, <1>0, <1>5 DEF JobOwn
  <2>3. CASE pid # 0
    <3>1. job'[c] = [job[c] EXCEPT !.pc = "pid", !.pid = pid]
      BY <2>3 DEF BootLaunch, Become, TInv, TypeOK
    <3> HIDE DEF pid
    <3>2. job'[c].pc = "pid" /\ job'[c].pid = pid /\ job'[c].m = m
      BY <3>1, <1>0 DEF Job
    <3> QED BY <2>1, <2>3, <3>2, <1>0, <1>6 DEF JobOwn
  <2> QED BY <2>2, <2>3
<1> QED BY <1>2, <1>4, <1>7 DEF OwnInv

\* The other steps of a boot.
LEMMA BootOwn ==
    ASSUME UidsDiffer, TInv, OwnInv, NEW c \in Calls, Boot(c)
    PROVE  OwnInv'
<1>0. job[c] \in Job /\ JobOwn(job[c]) /\ rec \in [Machines -> Rec]
  BY DEF TInv, TypeOK, OwnInv
<1>1. CASE EnsureUpdate(c)
  <2>1. job[c].pid = 0 /\ owner' = owner /\ alive' = alive
    BY <1>0, <1>1 DEF EnsureUpdate, JobOwn, hostVars
  <2>2. \A n \in Machines : rec'[n].pid \in {0, rec[n].pid}
    BY <1>0, <1>1 DEF EnsureUpdate, Rec
  <2>3. CASE Become(c, [job[c] EXCEPT !.pc = "close", !.m = NoMachine])
    <3>1. JobOwn([job[c] EXCEPT !.pc = "close", !.m = NoMachine])
      BY <1>0, <2>1 DEF JobOwn, Job
    <3> QED BY <2>1, <2>2, <2>3, <3>1, PidsKept, OwnMoves
  <2>4. ASSUME NEW mode \in {"cold", "resume"}, Become(c, [job[c] EXCEPT !.pc = "close", !.mode = mode])
        PROVE  OwnInv'
    <3>1. JobOwn([job[c] EXCEPT !.pc = "close", !.mode = mode])
      BY <1>0, <2>1 DEF JobOwn, Job
    <3> QED BY <2>1, <2>2, <2>4, <3>1, PidsKept, OwnMoves
  <2> QED BY <1>1, <2>3, <2>4 DEF EnsureUpdate
<1>2. CASE BootPid(c)
  <2>1. \A n \in Machines : rec'[n].pid # 0 => owner[rec'[n].pid] = n
    BY <1>0, <1>2 DEF BootPid, Update, Tracked, OwnInv, JobOwn, Rec
  <2> QED BY <1>2, <2>1, GotoOwn, OwnMoves DEF BootPid, Goto, hostVars
<1>3. CASE BootSettle(c)
  <2>1. \A n \in Machines : rec'[n].pid \in {0, rec[n].pid}
    BY <1>0, <1>3 DEF BootSettle, Update, Tracked, Rec
  <2> QED BY <1>3, <2>1, PidsKept, GotoOwn, OwnMoves DEF BootSettle, Goto, hostVars
<1>4. CASE BootErr(c)
  <2>1. \A n \in Machines : rec'[n].pid \in {0, rec[n].pid}
    BY <1>0, <1>4 DEF BootErr, Update, Tracked, Rec
  <2> QED BY <1>4, <2>1, PidsKept, GotoOwn, OwnMoves DEF BootErr, Goto, hostVars
<1>5. CASE \/ BootClose(c) \/ BootWipe(c) \/ BootMount(c) \/ BootMountFails(c) \/ BootLaunchFails(c)
           \/ BootStart(c) \/ BootConsume(c) \/ BootCleanup(c)
  <2>1. owner' = owner /\ alive' = alive /\ rec' = rec
    BY <1>5 DEF BootClose, BootWipe, BootMount, BootMountFails, BootLaunchFails,
                BootStart, BootConsume, BootCleanup, hostVars
  <2>2. \/ Become(c, Failed(c))
        \/ \E pc \in {"wipe", "mount", "launch", "settle", "consume", "err"} : Goto(c, pc)
    BY <1>5 DEF BootClose, BootWipe, BootMount, BootMountFails, BootLaunchFails,
                BootStart, BootConsume, BootCleanup
  <2>3. CASE Become(c, Failed(c))
    <3>1. JobOwn(Failed(c))
      BY <1>0 DEF JobOwn, Failed, Job
    <3> QED BY <2>1, <2>3, <3>1, PidsKept, OwnMoves
  <2>4. ASSUME NEW pc \in {"wipe", "mount", "launch", "settle", "consume", "err"}, Goto(c, pc)
        PROVE  OwnInv'
    BY <2>1, <2>4, PidsKept, GotoOwn, OwnMoves, Zenon DEF Goto
  <2> QED BY <2>2, <2>3, <2>4
<1> QED BY <1>1, <1>2, <1>3, <1>4, <1>5, LaunchOwn DEF Boot

\* Stops and destroys.
LEMMA TearDownOwn ==
    ASSUME TInv, OwnInv, NEW c \in Calls, TearDown(c)
    PROVE  OwnInv'
<1>0. job[c] \in Job /\ JobOwn(job[c]) /\ rec \in [Machines -> Rec]
  BY DEF TInv, TypeOK, OwnInv
<1>1. \A n \in Machines : rec'[n].pid \in {0, rec[n].pid}
  BY <1>0 DEF TearDown, StopSnapshot, StopKill, StopSettle, DestroyTeardown, DestroyDelete,
              Update, Tracked, NoRec, Rec
<1>2. owner' = owner /\ alive' \subseteq alive
  BY DEF TearDown, StopSnapshot, StopKill, StopSettle, DestroyTeardown, DestroyDelete, hostVars
<1>3. \/ Become(c, [job[c] EXCEPT !.pc = "kill", !.snap = "present"])
      \/ \E pc \in {"kill", "stopped", "delete", "done"} : Goto(c, pc)
  BY DEF TearDown, StopSnapshot, StopKill, StopSettle, DestroyTeardown, DestroyDelete
<1>4. CASE Become(c, [job[c] EXCEPT !.pc = "kill", !.snap = "present"])
  <2>1. JobOwn([job[c] EXCEPT !.pc = "kill", !.snap = "present"])
    BY <1>0 DEF JobOwn, Job
  <2> QED BY <1>1, <1>2, <1>4, <2>1, PidsKept, OwnMoves
<1>5. ASSUME NEW pc \in {"kill", "stopped", "delete", "done"}, Goto(c, pc) PROVE OwnInv'
  BY <1>1, <1>2, <1>5, PidsKept, GotoOwn, OwnMoves DEF Goto
<1> QED BY <1>3, <1>4, <1>5

\* Every step keeps OwnInv.
LEMMA StepOwn ==
    ASSUME UidsDiffer
    PROVE  TInv /\ OwnInv /\ [Next]_vars => OwnInv'
<1> SUFFICES ASSUME TInv, OwnInv, [Next]_vars PROVE OwnInv'
  OBVIOUS
<1>1. ASSUME ReapList \/ ReapKill \/ (\E p \in Pids : VMMDies(p)) \/ UNCHANGED vars PROVE OwnInv'
  <2>1. rec' = rec /\ job' = job /\ owner' = owner /\ alive' \subseteq alive
    BY <1>1 DEF ReapList, ReapKill, VMMDies, vars, hostVars
  <2> QED BY <2>1, PidsKept, OwnKept
<1>2. ASSUME Restart PROVE OwnInv'
  <2>0. rec \in [Machines -> Rec]
    BY DEF TInv, TypeOK
  <2>1. \A m \in Machines : rec'[m].pid \in {0, rec[m].pid}
    <3>1. \A m \in Machines : Reattached(m).pid \in {0, rec[m].pid}
      BY <2>0 DEF Reattached, Rec
    <3> QED BY <1>2, <3>1 DEF Restart
  <2>2. \A m \in Machines : JobOwn(ResumedStop(m))
    <3> SUFFICES ASSUME NEW m \in Machines PROVE JobOwn(ResumedStop(m))
      OBVIOUS
    <3>1. /\ ResumedStop(m).pid = rec[m].pid /\ ResumedStop(m).m = m
          /\ ResumedStop(m).pc \in {"snapshot", "kill"}
      BY DEF ResumedStop, NewJob
    <3> QED BY <3>1 DEF JobOwn, OwnInv
  <2>3. JobOwn([NewJob EXCEPT !.pc = "done"])
    BY DEF JobOwn, NewJob
  <2>4. \A c \in Calls : \/ job'[c] = job[c] \/ job'[c] = [NewJob EXCEPT !.pc = "done"]
                         \/ \E m \in Machines : job'[c] = ResumedStop(m)
    BY <1>2 DEF Restart
  <2>5. \A c \in Calls : job'[c] = job[c] \/ JobOwn(job'[c])
    BY <2>2, <2>3, <2>4
  <2> QED BY <1>2, <2>1, <2>5, PidsKept, OwnKept, Zenon DEF Restart
<1> QED BY <1>1, <1>2, CallOwn, BootOwn, TearDownOwn DEF Next

\* If jail uids differ, the pids the driver records, adopts and kills are those of
\* the machine in question, in every interleaving and under every failure.
THEOREM PidsOwned ==
    ASSUME UidsDiffer
    PROVE  Spec => []PidsAreOwn
<1>1. Init => OwnInv
  BY DEF Init, OwnInv, JobOwn, NoRec, NewJob
<1>2. OwnInv => PidsAreOwn
  BY DEF OwnInv, PidsAreOwn, JobOwn
<1> QED BY <1>1, <1>2, InitTyped, StepTyped, StepOwn, PTL DEF Spec

\* Records keep their types, and none that says running promises a snapshot.
THEOREM RecordsAreSound == Spec => []RecordsSound
BY DriverTypes, RunningWithoutSnapshotRecord, PTL DEF RecordsSound
(***************************************************************************)
(* What is reported is what is there, when callers wait for a machine's    *)
(* earlier call to be over, boots do not fail, VMMs do not die, and the    *)
(* reaper and restarts stay away.  Snapshots may fail, and a new           *)
(* Firecracker version may make any boot a cold one.                       *)
(*                                                                         *)
(* The invariant says, of a machine that no call works on, that its record *)
(* is true (AtRest), and of one that a call works on what its goroutine    *)
(* relies on at each of its points (AtWork): among it that no boot finds   *)
(* its volume mounted, its socket taken or its snapshot gone.              *)
(***************************************************************************)
Calm ==
    /\ Serial = TRUE /\ UidsDiffer
    /\ May \subseteq {"snap", "upgrade"}
    /\ MaxRestarts = 0

Busy(j) == j.pc \notin {"new", "done"}

\* No VMM of m is alive.
Off(m) == \A p \in alive : owner[p] # m

\* p is the VMM of m, the only one, and answers on the socket of the jail that
\* its volume is mounted in.
On(m, p) ==
    /\ p \in alive /\ owner[p] = m /\ sock[m] = p
    /\ \A q \in alive : owner[q] = m => q = p
    /\ m \in mounted /\ disk[m] = "data"

\* A machine that is down: no VMM, no recorded pid, the volume closed.
Down(m) == Off(m) /\ m \notin mounted /\ rec[m].pid = 0

\* A machine that no call works on.
AtRest(m) ==
    /\ rec[m].state \in {"absent", "running", "stopped"}
    /\ rec[m].state = "running" => On(m, rec[m].pid) /\ rec[m].pid \in started
    /\ rec[m].state # "running" => Down(m) /\ (rec[m].snap = "present" => m \in snapFiles)
    /\ rec[m].state # "absent" => disk[m] = "data"
    /\ rec[m].state = "absent" => disk[m] \in {"none", "data"}
    /\ m \notin restored

\* A boot, up to the launch.
BootsBefore(j) ==
    LET m == j.m IN
    /\ rec[m].state = "creating" /\ rec[m].pid = 0 /\ Off(m)
    /\ j.mode = "resume" => m \in snapFiles
    /\ IF j.pc = "launch" THEN m \in mounted /\ disk[m] = "data" ELSE m \notin mounted /\ disk[m] \in {"none", "data"}
    /\ j.pc \in {"mount", "launch"} => sock[m] = 0

\* A boot, from the launch on: it holds the pid of the one VMM.
BootsAfter(j) ==
    LET m == j.m IN
    /\ rec[m].state = "creating" /\ On(m, j.pid)
    /\ rec[m].pid = IF j.pc = "pid" THEN 0 ELSE j.pid
    /\ j.mode = "resume" /\ j.pc # "settle" => m \in snapFiles
    /\ j.pid \in started <=> j.pc \in {"consume", "settle"}

\* A stop, which holds the recorded pid.
Stops(j) ==
    LET m == j.m IN
    /\ rec[m].state \in {"hibernating", "stopping"}
    /\ j.snap = "present" => m \in snapFiles
    /\ disk[m] = "data"
    /\ IF j.pc = "stopped" THEN Off(m) /\ m \notin mounted ELSE On(m, j.pid) /\ j.pid \in started

\* A destroy.
Destroys(j) ==
    LET m == j.m IN
    /\ rec[m].state \in {"running", "stopped"} /\ Off(m)
    /\ j.pc = "delete" => m \notin mounted /\ disk[m] = "none"

\* The machine that a call works on: the boot never fails.
AtWork(j) ==
    /\ j.m \in Machines /\ j.pc \notin {"cleanup", "err"}
    /\ j.pc # "consume" => j.m \notin restored
    /\ j.pc = "update" => AtRest(j.m) /\ rec[j.m].state = "stopped"
    /\ j.pc \in {"close", "wipe", "mount", "launch"} => BootsBefore(j)
    /\ j.pc \in {"pid", "start", "consume", "settle"} => BootsAfter(j)
    /\ j.pc \in StopPc => Stops(j)
    /\ j.pc \in DestroyPc => Destroys(j)

TellInv ==
    /\ ~reap.busy
    /\ \A p \in alive \cup started : owner[p] \in Machines
    /\ \A c \in Calls : job[c].pc = "new" => job[c] = NewJob
    /\ \A c \in Calls : Busy(job[c]) => AtWork(job[c])
    /\ \A c, d \in Calls : Busy(job[c]) /\ Busy(job[d]) /\ job[c].m = job[d].m => c = d
    /\ \A m \in Machines : (\A c \in Calls : Busy(job[c]) => job[c].m # m) => AtRest(m)

\* A step leaves a machine alone: its record, its volume and its VMMs.
Same(n) ==
    /\ rec'[n] = rec[n] /\ sock'[n] = sock[n] /\ disk'[n] = disk[n]
    /\ n \in mounted' <=> n \in mounted
    /\ n \in snapFiles' <=> n \in snapFiles
    /\ n \in restored' <=> n \in restored
    /\ \A p \in Pids : p \in alive' /\ owner'[p] = n <=> p \in alive /\ owner[p] = n
    /\ \A p \in Pids : owner[p] = n => (p \in started' <=> p \in started)

\* Its VMMs are then as they were.
LEMMA SameOn ==
    ASSUME TInv, TInv', NEW n \in Machines, Same(n), NEW p \in 0 .. MaxPid
    PROVE  /\ Off(n) => Off(n)'
           /\ Off(n) /\ n \notin mounted => n \notin mounted'
           /\ On(n, p) => On(n, p)' /\ (p \in started' <=> p \in started)
<1>1. alive \subseteq Pids /\ alive' \subseteq Pids
  BY DEF TInv, TypeOK
<1> QED BY <1>1 DEF Same, Off, On

\* A machine at rest stays at rest.
LEMMA SameRest ==
    ASSUME TInv, TInv', NEW n \in Machines, Same(n), AtRest(n)
    PROVE  AtRest(n)'
<1>1. rec[n].pid \in 0 .. MaxPid
  BY DEF TInv, TypeOK, Rec
<1>2. /\ Off(n) => Off(n)'
      /\ On(n, rec[n].pid) => On(n, rec[n].pid)' /\ (rec[n].pid \in started => rec'[n].pid \in started')
  BY <1>1, SameOn DEF Same, On
<1> QED BY <1>2 DEF Same, AtRest, Down

\* What a call relies on stays true.
LEMMA SameWork ==
    ASSUME TInv, TInv', NEW c \in Calls, job'[c] = job[c], Same(job[c].m), AtWork(job[c])
    PROVE  AtWork(job[c])'
<1> DEFINE n == job[c].m
           p == job[c].pid
<1>0. n \in Machines /\ p \in 0 .. MaxPid
  BY DEF AtWork, TInv, TypeOK, Job
<1>1. /\ Off(n) => Off(n)'
      /\ On(n, p) => On(n, p)' /\ (p \in started' <=> p \in started)
  BY <1>0, SameOn
<1>2. AtRest(n) => AtRest(n)'
  BY <1>0, SameRest
<1>3. BootsBefore(job[c]) => BootsBefore(job[c])'
  BY <1>1 DEF Same, BootsBefore
<1>4. BootsAfter(job[c]) => BootsAfter(job[c])'
  BY <1>1 DEF Same, BootsAfter
<1>5. Stops(job[c]) => Stops(job[c])'
  BY <1>1 DEF Same, Stops
<1>6. Destroys(job[c]) => Destroys(job[c])'
  BY <1>1 DEF Same, Destroys
<1> QED BY <1>2, <1>3, <1>4, <1>5, <1>6 DEF Same, AtWork

\* A step of one call that leaves the other machines alone.
LEMMA CallStep ==
    ASSUME TInv, TInv', TellInv, NEW c \in Calls, NEW m \in Machines,
           (job[c].pc = "new" /\ BusyWith(m) = {}) \/ (Busy(job[c]) /\ job[c].m = m),
           job'[c].m = m, job'[c].pc # "new",
           \A d \in Calls : d # c => job'[d] = job[d],
           \A n \in Machines : n # m => Same(n),
           Busy(job'[c]) => AtWork(job[c])',
           ~Busy(job'[c]) => AtRest(m)',
           reap' = reap,
           \A p \in alive' \cup started' : owner'[p] \in Machines
    PROVE  TellInv'
<1>1. \A d \in Calls : d # c /\ Busy(job[d]) => job[d].m # m /\ job[d].m \in Machines
  BY DEF TellInv, BusyWith, Busy, AtWork
<1>2. ASSUME NEW d \in Calls, Busy(job'[d]) PROVE AtWork(job[d])'
  <2>1. CASE d = c
    BY <1>2, <2>1
  <2>2. CASE d # c
    <3>1. job'[d] = job[d] /\ AtWork(job[d]) /\ Same(job[d].m)
      BY <1>1, <1>2, <2>2 DEF TellInv
    <3> QED BY <3>1, SameWork
  <2> QED BY <2>1, <2>2
<1>3. \A d, e \in Calls : Busy(job'[d]) /\ Busy(job'[e]) /\ job'[d].m = job'[e].m => d = e
  BY <1>1 DEF TellInv
<1>4. ASSUME NEW n \in Machines, \A d \in Calls : Busy(job'[d]) => job'[d].m # n
      PROVE  AtRest(n)'
  <2>1. CASE n = m
    BY <1>4, <2>1
  <2>2. CASE n # m
    <3>1. \A d \in Calls : Busy(job[d]) => job[d].m # n
      BY <1>4, <2>2 DEF Busy
    <3> QED BY <2>2, <3>1, SameRest DEF TellInv
  <2> QED BY <2>1, <2>2
<1>5. \A d \in Calls : job'[d].pc = "new" => job'[d] = NewJob
  BY DEF TellInv
<1> QED BY <1>2, <1>3, <1>4, <1>5 DEF TellInv, Busy

\* The goroutine after a step, and the other goroutines.
LEMMA Becomes ==
    ASSUME TInv, NEW c \in Calls, NEW j, Become(c, j)
    PROVE  job'[c] = j /\ \A d \in Calls : d # c => job'[d] = job[d]
BY DEF TInv, TypeOK, Become

LEMMA GoesTo ==
    ASSUME TInv, NEW c \in Calls, NEW pc, Goto(c, pc)
    PROVE  /\ job'[c].pc = pc
           /\ job'[c].m = job[c].m /\ job'[c].mode = job[c].mode
           /\ job'[c].pid = job[c].pid /\ job'[c].snap = job[c].snap
           /\ \A d \in Calls : d # c => job'[d] = job[d]
BY DEF TInv, TypeOK, Goto, Become, Job

\* A step that changes neither records nor host leaves every machine alone.
LEMMA HostSame ==
    ASSUME UNCHANGED <<rec, hostVars>>, NEW n
    PROVE  Same(n)
BY DEF hostVars, volVars, Same

\* A new call finds its machine at rest.
LEMMA RestFound ==
    ASSUME Calm, TInv, TellInv, NEW c \in Calls, NEW m \in Machines, MayCall(c, m)
    PROVE  job[c] = NewJob /\ job[c].pc = "new" /\ BusyWith(m) = {} /\ AtRest(m)
BY DEF Calm, TellInv, MayCall, BusyWith, Busy

\* The calls that answer at once.
LEMMA NothingTells ==
    ASSUME Calm, TInv, TInv', TellInv, NEW c \in Calls, NEW m \in Machines, MayCall(c, m),
           Become(c, [job[c] EXCEPT !.pc = "done", !.m = m]), UNCHANGED <<rec, hostVars, reap>>
    PROVE  TellInv'
<1>1. job[c].pc = "new" /\ BusyWith(m) = {} /\ AtRest(m)
  BY RestFound
<1>2. /\ job'[c].m = m /\ job'[c].pc = "done"
      /\ \A d \in Calls : d # c => job'[d] = job[d]
  BY DEF Become, TInv, TypeOK, Job
<1>3. \A n \in Machines : Same(n)
  BY HostSame
<1>4. AtRest(m)'
  BY <1>1, <1>3, SameRest
<1>5. \A p \in alive' \cup started' : owner'[p] \in Machines
  BY DEF hostVars, TellInv
<1>6. ~Busy(job'[c])
  BY <1>2 DEF Busy
<1> QED BY <1>1, <1>2, <1>3, <1>4, <1>5, <1>6, CallStep

LEMMA ReserveTells ==
    ASSUME Calm, TInv, TInv', TellInv, NEW c \in Calls, EnsureReserve(c)
    PROVE  TellInv'
<1>1. PICK m \in Machines :
        /\ MayCall(c, m)
        /\ \/ /\ m \notin Tracked
              /\ rec' = [rec EXCEPT ![m] = [NoRec EXCEPT !.state = "creating"]]
              /\ Become(c, [job[c] EXCEPT !.pc = "close", !.m = m])
           \/ /\ m \in Tracked /\ ~AlreadyUp(m)
              /\ Become(c, [job[c] EXCEPT !.pc = "update", !.m = m])
              /\ UNCHANGED rec
  BY ZenonT(40) DEF EnsureReserve
<1>2. job[c] = NewJob /\ job[c].pc = "new" /\ BusyWith(m) = {} /\ AtRest(m)
  BY <1>1, RestFound
<1>3. UNCHANGED <<hostVars, reap>>
  BY DEF EnsureReserve
<1>4. \A p \in alive' \cup started' : owner'[p] \in Machines
  BY <1>3 DEF hostVars, TellInv
<1>5. CASE m \notin Tracked
  <2>1. /\ rec' = [rec EXCEPT ![m] = [NoRec EXCEPT !.state = "creating"]]
        /\ Become(c, [job[c] EXCEPT !.pc = "close", !.m = m])
    BY <1>1, <1>5
  <2>2. /\ job'[c].m = m /\ job'[c].pc = "close" /\ job'[c].mode = "cold"
        /\ \A d \in Calls : d # c => job'[d] = job[d]
    BY <1>2, <2>1 DEF Become, TInv, TypeOK, NewJob
  <2>3. /\ rec'[m].state = "creating" /\ rec'[m].pid = 0
        /\ \A n \in Machines : n # m => rec'[n] = rec[n]
    BY <2>1 DEF TInv, TypeOK, NoRec
  <2>4. \A n \in Machines : n # m => Same(n)
    BY <1>3, <2>3 DEF hostVars, volVars, Same
  <2>5. Off(m) /\ m \notin mounted /\ disk[m] \in {"none", "data"} /\ m \notin restored
    BY <1>2, <1>5 DEF Tracked, AtRest, Down
  <2>6. BootsBefore(job[c])'
    BY <1>3, <2>2, <2>3, <2>5 DEF BootsBefore, Off, hostVars, volVars
  <2>7. AtWork(job[c])'
    BY <1>3, <2>2, <2>5, <2>6 DEF AtWork, StopPc, DestroyPc, hostVars, volVars
  <2>8. Busy(job'[c])
    BY <2>2 DEF Busy
  <2> QED BY <1>2, <1>3, <1>4, <2>2, <2>4, <2>7, <2>8, CallStep
<1>6. CASE m \in Tracked
  <2>1. ~AlreadyUp(m) /\ Become(c, [job[c] EXCEPT !.pc = "update", !.m = m]) /\ UNCHANGED rec
    BY <1>1, <1>6
  <2>2. /\ job'[c].m = m /\ job'[c].pc = "update"
        /\ \A d \in Calls : d # c => job'[d] = job[d]
    BY <1>2, <2>1 DEF Become, TInv, TypeOK, NewJob
  <2>3. \A n \in Machines : Same(n)
    BY <1>3, <2>1, HostSame
  <2>4. rec[m].state = "stopped" /\ m \notin restored
    BY <1>2, <1>6, <2>1 DEF Tracked, AlreadyUp, AtRest, On
  <2>5. AtRest(m)' /\ rec'[m].state = "stopped" /\ m \notin restored'
    BY <1>2, <2>3, <2>4, SameRest DEF Same
  <2>6. AtWork(job[c])'
    BY <2>2, <2>5 DEF AtWork, StopPc, DestroyPc
  <2>8. Busy(job'[c])
    BY <2>2 DEF Busy
  <2> QED BY <1>2, <1>3, <1>4, <2>2, <2>3, <2>6, <2>8, CallStep
<1> QED BY <1>5, <1>6

LEMMA StopTells ==
    ASSUME Calm, TInv, TInv', TellInv, NEW c \in Calls, Stop(c)
    PROVE  TellInv'
<1>1. PICK m \in Tracked :
        /\ MayCall(c, m)
        /\ \/ /\ rec[m].state = "stopped"
              /\ Become(c, [job[c] EXCEPT !.pc = "done", !.m = m])
              /\ UNCHANGED rec
           \/ \E how \in {"hibernating", "stopping"} :
              /\ rec[m].state # "stopped"
              /\ rec' = [rec EXCEPT ![m].state = how]
              /\ Become(c, [job[c] EXCEPT !.pc = IF how = "hibernating" THEN "snapshot" ELSE "kill",
                                          !.m = m, !.pid = rec[m].pid])
  BY Zenon DEF Stop
<1>0. m \in Machines
  BY DEF Tracked
<1>2. job[c] = NewJob /\ job[c].pc = "new" /\ BusyWith(m) = {} /\ AtRest(m)
  BY <1>0, <1>1, RestFound
<1>3. UNCHANGED <<hostVars, reap>>
  BY Zenon DEF Stop
<1>4. \A p \in alive' \cup started' : owner'[p] \in Machines
  BY <1>3 DEF hostVars, TellInv
<1>5. CASE rec[m].state = "stopped"
  BY <1>0, <1>1, <1>3, <1>5, NothingTells, Zenon
<1>6. CASE rec[m].state # "stopped"
  <2>1. PICK how \in {"hibernating", "stopping"} :
              /\ rec' = [rec EXCEPT ![m].state = how]
              /\ Become(c, [job[c] EXCEPT !.pc = IF how = "hibernating" THEN "snapshot" ELSE "kill",
                                          !.m = m, !.pid = rec[m].pid])
    BY <1>1, <1>6
  <2>2. /\ job'[c].m = m /\ job'[c].pc \in {"snapshot", "kill"} /\ job'[c].pid = rec[m].pid
        /\ job'[c].snap = "absent"
        /\ \A d \in Calls : d # c => job'[d] = job[d]
    BY <1>2, <2>1 DEF Become, TInv, TypeOK, NewJob
  <2>3. /\ rec'[m].state \in {"hibernating", "stopping"}
        /\ \A n \in Machines : n # m => rec'[n] = rec[n]
    BY <1>0, <2>1 DEF TInv, TypeOK, Rec
  <2>4. \A n \in Machines : n # m => Same(n)
    BY <1>3, <2>3 DEF hostVars, volVars, Same
  <2>5. On(m, rec[m].pid) /\ rec[m].pid \in started /\ m \notin restored
    BY <1>2, <1>6 DEF Tracked, AtRest
  <2>6. Stops(job[c])'
    BY <1>3, <2>2, <2>3, <2>5 DEF Stops, On, hostVars, volVars
  <2>7. AtWork(job[c])'
    BY <1>0, <1>3, <2>2, <2>5, <2>6 DEF AtWork, DestroyPc, hostVars, volVars
  <2>8. Busy(job'[c])
    BY <2>2 DEF Busy
  <2> QED BY <1>0, <1>2, <1>3, <1>4, <2>2, <2>4, <2>7, <2>8, CallStep
<1> QED BY <1>5, <1>6

LEMMA DestroyTells ==
    ASSUME Calm, TInv, TInv', TellInv, NEW c \in Calls, Destroy(c)
    PROVE  TellInv'
<1>1. PICK m \in Tracked :
        /\ MayCall(c, m)
        /\ alive' = alive \ {rec[m].pid}
        /\ Become(c, [job[c] EXCEPT !.pc = "teardown", !.m = m])
  BY Zenon DEF Destroy
<1>0. m \in Machines
  BY DEF Tracked
<1>2. job[c] = NewJob /\ job[c].pc = "new" /\ BusyWith(m) = {} /\ AtRest(m)
  BY <1>0, <1>1, RestFound
<1>3. UNCHANGED <<rec, owner, started, sock, mounted, volVars, reap>>
  BY Zenon DEF Destroy
<1>4. \A p \in alive' \cup started' : owner'[p] \in Machines
  BY <1>1, <1>3 DEF TellInv
<1>5. /\ job'[c].m = m /\ job'[c].pc = "teardown"
      /\ \A d \in Calls : d # c => job'[d] = job[d]
  BY <1>1, <1>2 DEF Become, TInv, TypeOK, NewJob
<1>6. rec[m].state \in {"running", "stopped"} /\ m \notin restored
  BY <1>2 DEF Tracked, AtRest
<1>7. Off(m)'
  BY <1>1, <1>2, <1>3 DEF AtRest, On, Off, Down
<1>8. rec[m].pid \in alive => owner[rec[m].pid] = m
  BY <1>2, <1>6 DEF AtRest, On, Down, Off, TInv, TypeOK, Pids
<1>9. \A n \in Machines : n # m => Same(n)
  BY <1>1, <1>3, <1>8 DEF volVars, Same
<1>10. AtWork(job[c])'
  BY <1>0, <1>3, <1>5, <1>6, <1>7 DEF AtWork, Destroys, StopPc, volVars
<1>11. Busy(job'[c])
  BY <1>5 DEF Busy
<1> QED BY <1>0, <1>2, <1>3, <1>4, <1>5, <1>9, <1>10, <1>11, CallStep

\* What a goroutine finds: its machine as AtWork says, nothing that can fail.
LEMMA WorkFound ==
    ASSUME Calm, TInv, TellInv, NEW c \in Calls, Busy(job[c])
    PROVE  /\ job[c] \in Job /\ AtWork(job[c]) /\ job[c].m \in Machines
           /\ ~MayFail /\ ~reap.busy
           /\ alive \subseteq Pids /\ started \subseteq Pids
BY DEF Calm, TInv, TypeOK, TellInv, AtWork, MayFail

\* A goroutine moves on, and only its own machine changes.
LEMMA WorkStep ==
    ASSUME TInv, TInv', TellInv, NEW c \in Calls, Busy(job[c]), job[c].m \in Machines,
           job'[c].m = job[c].m, Busy(job'[c]), AtWork(job[c])',
           \A d \in Calls : d # c => job'[d] = job[d],
           \A n \in Machines : n # job[c].m => Same(n),
           reap' = reap, UNCHANGED owner, alive' \subseteq alive,
           started' \subseteq started \cup alive
    PROVE  TellInv'
<1>1. \A p \in alive' \cup started' : owner'[p] \in Machines
  BY DEF TellInv
<1>2. job'[c].pc # "new"
  BY DEF Busy
<1> QED BY <1>1, <1>2, CallStep

LEMMA UpdateTells ==
    ASSUME Calm, TInv, TInv', TellInv, NEW c \in Calls, EnsureUpdate(c)
    PROVE  TellInv'
<1> DEFINE m == job[c].m
<1>0. job[c].pc = "update" /\ Busy(job[c]) /\ UNCHANGED <<hostVars, reap>>
  BY DEF EnsureUpdate, Busy
<1>1. job[c] \in Job /\ m \in Machines /\ AtRest(m) /\ rec[m].state = "stopped" /\ m \notin restored
  BY <1>0, WorkFound DEF AtWork
<1>2. PICK mode \in {"cold", "resume"} :
        /\ rec' = [rec EXCEPT ![m].state = "creating"]
        /\ mode = "resume" => rec[m].snap = "present"
        /\ Become(c, [job[c] EXCEPT !.pc = "close", !.mode = mode])
  BY <1>1, Zenon DEF EnsureUpdate, Tracked
<1>3. /\ job'[c].m = m /\ job'[c].pc = "close" /\ job'[c].mode = mode
      /\ \A d \in Calls : d # c => job'[d] = job[d]
  BY <1>1, <1>2 DEF Become, TInv, TypeOK, Job
<1>4. /\ rec'[m].state = "creating" /\ rec'[m].pid = rec[m].pid
      /\ \A n \in Machines : n # m => rec'[n] = rec[n]
  BY <1>1, <1>2 DEF TInv, TypeOK, Rec
<1>5. \A n \in Machines : n # m => Same(n)
  BY <1>0, <1>4 DEF hostVars, volVars, Same
<1>6. /\ Off(m) /\ m \notin mounted /\ rec[m].pid = 0 /\ disk[m] = "data"
      /\ rec[m].snap = "present" => m \in snapFiles
  BY <1>1 DEF AtRest, Down
<1>7. BootsBefore(job[c])'
  BY <1>0, <1>2, <1>3, <1>4, <1>6 DEF BootsBefore, Off, hostVars, volVars
<1>8. AtWork(job[c])'
  BY <1>0, <1>1, <1>3, <1>7 DEF AtWork, StopPc, DestroyPc, hostVars, volVars
<1>9. Busy(job'[c])
  BY <1>3 DEF Busy
<1> QED BY <1>0, <1>1, <1>3, <1>5, <1>8, <1>9, WorkStep DEF hostVars

LEMMA BootCloseTells ==
    ASSUME Calm, TInv, TInv', TellInv, NEW c \in Calls, BootClose(c)
    PROVE  TellInv'
<1> DEFINE m == job[c].m
<1>0. /\ job[c].pc = "close" /\ Busy(job[c]) /\ Goto(c, "wipe") /\ mounted' = mounted \ {m}
      /\ UNCHANGED <<rec, owner, alive, started, sock, volVars, reap>>
  BY DEF BootClose, Busy
<1>1. m \in Machines /\ BootsBefore(job[c]) /\ m \notin restored
  BY <1>0, WorkFound DEF AtWork
<1>2. /\ job'[c].m = m /\ job'[c].pc = "wipe" /\ job'[c].mode = job[c].mode
      /\ \A d \in Calls : d # c => job'[d] = job[d]
  BY <1>0, GoesTo
<1>3. \A n \in Machines : n # m => Same(n)
  BY <1>0 DEF volVars, Same
<1>4. BootsBefore(job[c])'
  BY <1>0, <1>1, <1>2 DEF BootsBefore, Off, volVars
<1>5. AtWork(job[c])' /\ Busy(job'[c])
  BY <1>0, <1>1, <1>2, <1>4 DEF AtWork, StopPc, DestroyPc, volVars, Busy
<1> QED BY <1>0, <1>1, <1>2, <1>3, <1>5, WorkStep

\* The jail that is removed has no volume in it.
LEMMA WipeTells ==
    ASSUME Calm, TInv, TInv', TellInv, NEW c \in Calls, BootWipe(c)
    PROVE  TellInv' /\ UNCHANGED disk
<1> DEFINE m == job[c].m
<1>0. /\ job[c].pc = "wipe" /\ Busy(job[c]) /\ RemoveJail(m)
      /\ UNCHANGED <<rec, owner, alive, started, mounted, reap>>
  BY DEF BootWipe, Busy
<1>1. m \in Machines /\ BootsBefore(job[c]) /\ m \notin restored /\ ~MayFail
  BY <1>0, WorkFound DEF AtWork
<1>2. m \notin mounted /\ m # NoMachine
  BY <1>0, <1>1, DriverAssumption DEF BootsBefore
<1>3. Goto(c, "mount")
  BY <1>1, <1>2 DEF BootWipe
<1>4. /\ job'[c].m = m /\ job'[c].pc = "mount" /\ job'[c].mode = job[c].mode
      /\ \A d \in Calls : d # c => job'[d] = job[d]
  BY <1>3, GoesTo
<1>5. /\ sock' = [n \in Machines |-> IF n = m THEN 0 ELSE sock[n]]
      /\ UNCHANGED <<snapFiles, restored>>
      /\ disk' = [n \in Machines |-> disk[n]]
  BY <1>0, <1>2 DEF RemoveJail, JailsOf
<1>6. UNCHANGED disk
  BY <1>5 DEF TInv, TypeOK
<1>7. \A n \in Machines : n # m => Same(n)
  BY <1>0, <1>5, <1>6 DEF Same
<1>8. BootsBefore(job[c])'
  BY <1>0, <1>1, <1>4, <1>5, <1>6 DEF BootsBefore, Off
<1>9. AtWork(job[c])' /\ Busy(job'[c])
  BY <1>1, <1>4, <1>5, <1>8 DEF AtWork, StopPc, DestroyPc, Busy
<1> QED BY <1>0, <1>1, <1>4, <1>6, <1>7, <1>9, WorkStep

LEMMA MountTells ==
    ASSUME Calm, TInv, TInv', TellInv, NEW c \in Calls, BootMount(c)
    PROVE  TellInv'
<1> DEFINE m == job[c].m
<1>0. /\ job[c].pc = "mount" /\ Busy(job[c]) /\ Goto(c, "launch")
      /\ disk' = [disk EXCEPT ![m] = IF @ = "none" THEN "data" ELSE @]
      /\ mounted' = mounted \cup {m}
      /\ snapFiles' \in {snapFiles, snapFiles \ {m}} /\ restored' \in {restored, restored \ {m}}
      /\ job[c].mode = "resume" => UNCHANGED <<snapFiles, restored>>
      /\ UNCHANGED <<rec, owner, alive, started, sock, reap>>
  BY DEF BootMount, Busy
<1>1. m \in Machines /\ BootsBefore(job[c]) /\ m \notin restored
  BY <1>0, WorkFound DEF AtWork
<1>2. /\ job'[c].m = m /\ job'[c].pc = "launch" /\ job'[c].mode = job[c].mode
      /\ \A d \in Calls : d # c => job'[d] = job[d]
  BY <1>0, GoesTo
<1>3. disk'[m] = "data" /\ \A n \in Machines : n # m => disk'[n] = disk[n]
  BY <1>0, <1>1 DEF BootsBefore, TInv, TypeOK
<1>4. \A n \in Machines : n # m => Same(n)
  BY <1>0, <1>3 DEF Same
<1>5. BootsBefore(job[c])'
  BY <1>0, <1>1, <1>2, <1>3 DEF BootsBefore, Off
<1>6. AtWork(job[c])' /\ Busy(job'[c])
  BY <1>0, <1>1, <1>2, <1>5 DEF AtWork, StopPc, DestroyPc, Busy
<1> QED BY <1>0, <1>1, <1>2, <1>4, <1>6, WorkStep

\* Nothing fails on the way to the launch, or after it.
LEMMA NoFailure ==
    ASSUME Calm, TInv, TellInv, NEW c \in Calls
    PROVE  /\ ~BootMountFails(c) /\ ~BootLaunchFails(c) /\ ~BootCleanup(c) /\ ~BootErr(c)
           /\ job[c].pc = "start" => CanStart(job[c].m, job[c].mode)
<1>1. ~BootMountFails(c)
  <2> SUFFICES ASSUME BootMountFails(c) PROVE FALSE
    OBVIOUS
  <2>1. job[c].pc = "mount" /\ Busy(job[c])
    BY DEF BootMountFails, Busy
  <2>2. BootsBefore(job[c]) /\ ~MayFail /\ ~reap.busy
    BY <2>1, WorkFound DEF AtWork
  <2> QED BY <2>1, <2>2 DEF BootMountFails, BootsBefore, ReaperCloses
<1>2. ~BootLaunchFails(c)
  BY WorkFound DEF BootLaunchFails, Busy
<1>3. ~BootCleanup(c) /\ ~BootErr(c)
  BY WorkFound DEF BootCleanup, BootErr, Busy, AtWork
<1>4. job[c].pc = "start" => CanStart(job[c].m, job[c].mode)
  <2> SUFFICES ASSUME job[c].pc = "start" PROVE CanStart(job[c].m, job[c].mode)
    OBVIOUS
  <2>1. BootsAfter(job[c])
    BY WorkFound DEF Busy, AtWork
  <2> QED BY <2>1 DEF BootsAfter, On, CanStart
<1> QED BY <1>1, <1>2, <1>3, <1>4

\* The socket is free, so the VMM lives; it is the only one of its uid.
LEMMA LaunchTells ==
    ASSUME Calm, TInv, TInv', TellInv, NEW c \in Calls, BootLaunch(c)
    PROVE  TellInv'
<1> DEFINE m == job[c].m
           pid == Pgrep(m, alive', owner')
           found == {q \in alive' : UidOf[owner'[q]] = UidOf[m]}
<1>0. job[c].pc = "launch" /\ Busy(job[c]) /\ UNCHANGED <<rec, started, mounted, volVars, reap>>
  BY DEF BootLaunch, Busy
<1>1. job[c] \in Job /\ m \in Machines /\ BootsBefore(job[c]) /\ m \notin restored /\ alive \subseteq Pids
  BY <1>0, WorkFound DEF AtWork
<1>2. sock[m] = 0 /\ Off(m)
  BY <1>0, <1>1 DEF BootsBefore
<1>3. PICK p \in Pids : /\ owner[p] = NoMachine
                        /\ owner' = [owner EXCEPT ![p] = m]
                        /\ alive' = alive \cup {p}
                        /\ sock' = [sock EXCEPT ![m] = p]
  BY <1>2, Zenon DEF BootLaunch
<1>4. owner'[p] = m /\ \A q \in Pids : q # p => owner'[q] = owner[q]
  BY <1>3 DEF TInv, TypeOK
<1>5. \A q \in alive \cup started : q # p /\ q \in Pids /\ owner[q] \in Machines
  BY <1>3, DriverAssumption DEF TellInv, TInv, TypeOK
<1>6. \A q \in alive' \cup started' : owner'[q] \in Machines
  BY <1>0, <1>1, <1>3, <1>4, <1>5
<1>7. \A q \in alive' : owner'[q] = m => q = p
  BY <1>2, <1>3, <1>4, <1>5 DEF Off
<1>8. pid = p
  <2>1. found = {p}
    BY <1>1, <1>3, <1>4, <1>6, <1>7 DEF Calm, UidsDiffer
  <2>2. pid \in found
    BY <2>1, LeastPid, Zenon DEF Pgrep
  <2> QED BY <2>1, <2>2
<1>9. job' = [job EXCEPT ![c] = [job[c] EXCEPT !.pc = "pid", !.pid = p]]
  <2>1. p # 0
    BY DEF Pids
  <2>2. Become(c, IF pid = 0 THEN Failed(c) ELSE [job[c] EXCEPT !.pc = "pid", !.pid = pid])
    BY DEF BootLaunch
  <2> QED BY <1>8, <2>1, <2>2 DEF Become
<1> HIDE DEF pid
<1>10. /\ job'[c].m = m /\ job'[c].pc = "pid" /\ job'[c].pid = p /\ job'[c].mode = job[c].mode
       /\ \A d \in Calls : d # c => job'[d] = job[d]
  BY <1>1, <1>9 DEF TInv, TypeOK, Job
<1>11. sock'[m] = p /\ \A n \in Machines : n # m => sock'[n] = sock[n]
  BY <1>1, <1>3 DEF TInv, TypeOK
<1>12. \A n \in Machines : n # m => Same(n)
  <2> SUFFICES ASSUME NEW n \in Machines, n # m PROVE Same(n)
    OBVIOUS
  <2>1. \A q \in Pids : q \in alive' /\ owner'[q] = n <=> q \in alive /\ owner[q] = n
    BY <1>3, <1>4, <1>5
  <2> QED BY <1>0, <1>11, <2>1 DEF volVars, Same
<1>13. On(m, p)'
  BY <1>0, <1>1, <1>3, <1>4, <1>7, <1>10, <1>11 DEF On, BootsBefore, volVars
<1>14. BootsAfter(job[c])'
  BY <1>0, <1>1, <1>5, <1>10, <1>13 DEF BootsAfter, BootsBefore, volVars
<1>15. AtWork(job[c])' /\ Busy(job'[c]) /\ job'[c].pc # "new"
  BY <1>0, <1>1, <1>10, <1>14 DEF AtWork, StopPc, DestroyPc, Busy, volVars
<1> QED BY <1>0, <1>1, <1>6, <1>10, <1>12, <1>15, CallStep

LEMMA PidTells ==
    ASSUME Calm, TInv, TInv', TellInv, NEW c \in Calls, BootPid(c)
    PROVE  TellInv'
<1> DEFINE m == job[c].m
<1>0. job[c].pc = "pid" /\ Busy(job[c]) /\ Goto(c, "start") /\ UNCHANGED <<hostVars, reap>>
  BY DEF BootPid, Busy
<1>1. job[c] \in Job /\ m \in Machines /\ BootsAfter(job[c]) /\ m \notin restored
  BY <1>0, WorkFound DEF AtWork
<1>2. /\ job'[c].m = m /\ job'[c].pc = "start" /\ job'[c].mode = job[c].mode /\ job'[c].pid = job[c].pid
      /\ \A d \in Calls : d # c => job'[d] = job[d]
  BY <1>0, GoesTo
<1>3. rec' = [rec EXCEPT ![m] = [rec[m] EXCEPT !.pid = job[c].pid]]
  BY <1>1 DEF BootPid, Update, Tracked, BootsAfter
<1>4. /\ rec'[m].state = "creating" /\ rec'[m].pid = job[c].pid
      /\ \A n \in Machines : n # m => rec'[n] = rec[n]
  BY <1>1, <1>3 DEF TInv, TypeOK, Rec, BootsAfter
<1>5. \A n \in Machines : n # m => Same(n)
  BY <1>0, <1>4 DEF hostVars, volVars, Same
<1>6. On(m, job[c].pid)'
  BY <1>0, <1>1, <1>2 DEF BootsAfter, On, hostVars, volVars
<1>7. BootsAfter(job[c])'
  BY <1>0, <1>1, <1>2, <1>4, <1>6 DEF BootsAfter, hostVars, volVars
<1>8. AtWork(job[c])' /\ Busy(job'[c])
  BY <1>0, <1>1, <1>2, <1>7 DEF AtWork, StopPc, DestroyPc, Busy, hostVars, volVars
<1> QED BY <1>0, <1>1, <1>2, <1>5, <1>8, WorkStep DEF hostVars

LEMMA StartTells ==
    ASSUME Calm, TInv, TInv', TellInv, NEW c \in Calls, BootStart(c)
    PROVE  TellInv'
<1> DEFINE m == job[c].m
<1>0. job[c].pc = "start" /\ Busy(job[c]) /\ UNCHANGED <<rec, owner, alive, sock, disk, mounted, snapFiles, reap>>
  BY DEF BootStart, Busy
<1>1. job[c] \in Job /\ m \in Machines /\ BootsAfter(job[c]) /\ m \notin restored /\ ~MayFail
  BY <1>0, WorkFound DEF AtWork
<1>2. CanStart(m, job[c].mode)
  BY <1>0, NoFailure
<1>3. sock[m] = job[c].pid /\ owner[sock[m]] = m /\ sock[m] \in alive
  BY <1>1 DEF BootsAfter, On
<1>4. PICK pc \in {"settle", "consume"} :
        /\ started' = started \cup {sock[m]} /\ Goto(c, pc)
        /\ pc = "settle" => job[c].mode = "cold" /\ UNCHANGED restored
        /\ pc = "consume" => restored' = restored \cup {m}
  BY <1>1, <1>2 DEF BootStart
<1>5. /\ job'[c].m = m /\ job'[c].pc = pc /\ job'[c].mode = job[c].mode /\ job'[c].pid = job[c].pid
      /\ \A d \in Calls : d # c => job'[d] = job[d]
  BY <1>4, GoesTo
<1>6. \A n \in Machines : n # m => Same(n)
  BY <1>0, <1>3, <1>4 DEF Same
<1>7. On(m, job[c].pid)'
  BY <1>0, <1>1, <1>5 DEF BootsAfter, On
<1>8. BootsAfter(job[c])'
  BY <1>0, <1>1, <1>3, <1>4, <1>5, <1>7 DEF BootsAfter
<1>9. AtWork(job[c])' /\ Busy(job'[c])
  BY <1>1, <1>4, <1>5, <1>8 DEF AtWork, StopPc, DestroyPc, Busy
<1>10. started' \subseteq started \cup alive
  BY <1>3, <1>4
<1> QED BY <1>0, <1>1, <1>5, <1>6, <1>9, <1>10, WorkStep

LEMMA ConsumeTells ==
    ASSUME Calm, TInv, TInv', TellInv, NEW c \in Calls, BootConsume(c)
    PROVE  TellInv'
<1> DEFINE m == job[c].m
<1>0. /\ job[c].pc = "consume" /\ Busy(job[c]) /\ Goto(c, "settle")
      /\ UNCHANGED <<rec, owner, alive, started, sock, disk, mounted, reap>>
  BY DEF BootConsume, Busy
<1>1. m \in Machines /\ BootsAfter(job[c])
  BY <1>0, WorkFound DEF AtWork
<1>2. snapFiles' = snapFiles \ {m} /\ restored' = restored \ {m}
  BY <1>1 DEF BootConsume, BootsAfter, On
<1>3. /\ job'[c].m = m /\ job'[c].pc = "settle" /\ job'[c].mode = job[c].mode /\ job'[c].pid = job[c].pid
      /\ \A d \in Calls : d # c => job'[d] = job[d]
  BY <1>0, GoesTo
<1>4. \A n \in Machines : n # m => Same(n)
  BY <1>0, <1>2 DEF Same
<1>5. On(m, job[c].pid)'
  BY <1>0, <1>1, <1>3 DEF BootsAfter, On
<1>6. BootsAfter(job[c])'
  BY <1>0, <1>1, <1>3, <1>5 DEF BootsAfter
<1>7. AtWork(job[c])' /\ Busy(job'[c])
  BY <1>1, <1>2, <1>3, <1>6 DEF AtWork, StopPc, DestroyPc, Busy
<1> QED BY <1>0, <1>1, <1>3, <1>4, <1>7, WorkStep

\* The end of a call: its machine is at rest.
LEMMA WorkEnds ==
    ASSUME TInv, TInv', TellInv, NEW c \in Calls, Busy(job[c]), job[c].m \in Machines,
           Goto(c, "done"), AtRest(job[c].m)',
           \A n \in Machines : n # job[c].m => rec'[n] = rec[n],
           UNCHANGED <<hostVars, reap>>
    PROVE  TellInv'
<1>1. /\ job'[c].m = job[c].m /\ job'[c].pc = "done"
      /\ \A d \in Calls : d # c => job'[d] = job[d]
  BY GoesTo
<1>2. ~Busy(job'[c]) /\ job'[c].pc # "new"
  BY <1>1 DEF Busy
<1>3. \A n \in Machines : n # job[c].m => Same(n)
  BY DEF hostVars, volVars, Same
<1>4. \A p \in alive' \cup started' : owner'[p] \in Machines
  BY DEF hostVars, TellInv
<1> QED BY <1>1, <1>2, <1>3, <1>4, CallStep

LEMMA SettleTells ==
    ASSUME Calm, TInv, TInv', TellInv, NEW c \in Calls, BootSettle(c)
    PROVE  TellInv'
<1> DEFINE m == job[c].m
<1>0. job[c].pc = "settle" /\ Busy(job[c]) /\ Goto(c, "done") /\ UNCHANGED <<hostVars, reap>>
  BY DEF BootSettle, Busy
<1>1. m \in Machines /\ BootsAfter(job[c]) /\ m \notin restored
  BY <1>0, WorkFound DEF AtWork
<1>2. rec' = [rec EXCEPT ![m] = [rec[m] EXCEPT !.state = IF @ = "creating" THEN "running" ELSE @, !.snap = "absent"]]
  BY <1>1 DEF BootSettle, Update, Tracked, BootsAfter
<1>3. /\ rec'[m].state = "running" /\ rec'[m].pid = rec[m].pid
      /\ \A n \in Machines : n # m => rec'[n] = rec[n]
  BY <1>1, <1>2 DEF TInv, TypeOK, Rec, BootsAfter
<1>4. rec[m].pid = job[c].pid /\ On(m, rec[m].pid) /\ rec[m].pid \in started
  BY <1>0, <1>1 DEF BootsAfter
<1>a. job'[c].m = m
  BY <1>0, GoesTo
<1>5. On(m, rec[m].pid)'
  BY <1>0, <1>a, <1>3, <1>4 DEF On, hostVars, volVars
<1>6. AtRest(m)'
  BY <1>0, <1>1, <1>a, <1>3, <1>4, <1>5 DEF AtRest, On, hostVars, volVars
<1> QED BY <1>0, <1>1, <1>3, <1>6, WorkEnds

LEMMA SnapshotTells ==
    ASSUME Calm, TInv, TInv', TellInv, NEW c \in Calls, StopSnapshot(c)
    PROVE  TellInv'
<1> DEFINE m == job[c].m
<1>0. /\ job[c].pc = "snapshot" /\ Busy(job[c])
      /\ UNCHANGED <<rec, owner, alive, started, sock, disk, mounted, reap>>
  BY DEF StopSnapshot, Busy
<1>1. job[c] \in Job /\ m \in Machines /\ Stops(job[c]) /\ m \notin restored
  BY <1>0, WorkFound DEF AtWork, StopPc
<1>2. /\ \/ Become(c, [job[c] EXCEPT !.pc = "kill", !.snap = "present"]) /\ snapFiles' = snapFiles \cup {m}
         \/ Goto(c, "kill")
      /\ snapFiles' \in {snapFiles, snapFiles \cup {m}} /\ restored' \in {restored, restored \ {m}}
  BY DEF StopSnapshot
<1>3. /\ job'[c].m = m /\ job'[c].pc = "kill" /\ job'[c].pid = job[c].pid
      /\ job'[c].snap = "present" => m \in snapFiles'
      /\ \A d \in Calls : d # c => job'[d] = job[d]
  <2>1. CASE Goto(c, "kill")
    BY <1>1, <1>2, <2>1, GoesTo DEF Stops
  <2>2. CASE Become(c, [job[c] EXCEPT !.pc = "kill", !.snap = "present"]) /\ snapFiles' = snapFiles \cup {m}
    BY <1>1, <2>2 DEF Become, TInv, TypeOK, Job
  <2> QED BY <1>2, <2>1, <2>2
<1>4. \A n \in Machines : n # m => Same(n)
  BY <1>0, <1>2 DEF Same
<1>5. Stops(job[c])'
  <2>1. On(m, job[c].pid)'
    BY <1>0, <1>1, <1>3 DEF Stops, On
  <2> QED BY <1>0, <1>1, <1>3, <2>1 DEF Stops
<1>6. AtWork(job[c])' /\ Busy(job'[c])
  BY <1>1, <1>2, <1>3, <1>5 DEF AtWork, DestroyPc, Busy
<1> QED BY <1>0, <1>1, <1>3, <1>4, <1>6, WorkStep

LEMMA KillTells ==
    ASSUME Calm, TInv, TInv', TellInv, NEW c \in Calls, StopKill(c)
    PROVE  TellInv'
<1> DEFINE m == job[c].m
<1>0. /\ job[c].pc = "kill" /\ Busy(job[c]) /\ Goto(c, "stopped")
      /\ alive' = alive \ {job[c].pid} /\ mounted' = mounted \ {m}
      /\ UNCHANGED <<rec, owner, started, sock, volVars, reap>>
  BY DEF StopKill, Busy
<1>1. m \in Machines /\ Stops(job[c]) /\ m \notin restored
  BY <1>0, WorkFound DEF AtWork, StopPc
<1>2. /\ job'[c].m = m /\ job'[c].pc = "stopped" /\ job'[c].snap = job[c].snap
      /\ \A d \in Calls : d # c => job'[d] = job[d]
  BY <1>0, GoesTo
<1>3. owner[job[c].pid] = m /\ \A q \in alive : owner[q] = m => q = job[c].pid
  BY <1>0, <1>1 DEF Stops, On
<1>4. \A n \in Machines : n # m => Same(n)
  BY <1>0, <1>3 DEF Same, volVars
<1>5. Off(m)'
  BY <1>0, <1>2, <1>3 DEF Off
<1>6. Stops(job[c])'
  BY <1>0, <1>1, <1>2, <1>5 DEF Stops, volVars
<1>7. AtWork(job[c])' /\ Busy(job'[c])
  BY <1>0, <1>1, <1>2, <1>6 DEF AtWork, DestroyPc, Busy, volVars
<1> QED BY <1>0, <1>1, <1>2, <1>4, <1>7, WorkStep

LEMMA StopSettleTells ==
    ASSUME Calm, TInv, TInv', TellInv, NEW c \in Calls, StopSettle(c)
    PROVE  TellInv'
<1> DEFINE m == job[c].m
<1>0. job[c].pc = "stopped" /\ Busy(job[c]) /\ Goto(c, "done") /\ UNCHANGED <<hostVars, reap>>
  BY DEF StopSettle, Busy
<1>1. m \in Machines /\ Stops(job[c]) /\ m \notin restored
  BY <1>0, WorkFound DEF AtWork, StopPc
<1>2. rec' = [rec EXCEPT ![m] = [state |-> "stopped", pid |-> 0, snap |-> job[c].snap]]
  BY <1>1 DEF StopSettle, Update, Tracked, Stops
<1>3. /\ rec'[m].state = "stopped" /\ rec'[m].pid = 0 /\ rec'[m].snap = job[c].snap
      /\ \A n \in Machines : n # m => rec'[n] = rec[n]
  BY <1>1, <1>2 DEF TInv, TypeOK
<1>4. job'[c].m = m
  BY <1>0, GoesTo
<1>5. Off(m) /\ m \notin mounted /\ disk[m] = "data" /\ (job[c].snap = "present" => m \in snapFiles)
  BY <1>0, <1>1 DEF Stops
<1>6. Down(m)'
  BY <1>0, <1>3, <1>4, <1>5 DEF Down, Off, hostVars
<1>7. AtRest(m)'
  BY <1>0, <1>1, <1>3, <1>4, <1>5, <1>6 DEF AtRest, hostVars, volVars
<1> QED BY <1>0, <1>1, <1>3, <1>7, WorkEnds

LEMMA TeardownTells ==
    ASSUME Calm, TInv, TInv', TellInv, NEW c \in Calls, DestroyTeardown(c)
    PROVE  TellInv'
<1> DEFINE m == job[c].m
<1>0. /\ job[c].pc = "teardown" /\ Busy(job[c]) /\ Goto(c, "delete")
      /\ mounted' = mounted \ {m} /\ snapFiles' = snapFiles \ {m} /\ restored' = restored \ {m}
      /\ sock' = [sock EXCEPT ![m] = 0] /\ disk' = [disk EXCEPT ![m] = "none"]
      /\ UNCHANGED <<rec, owner, alive, started, reap>>
  BY DEF DestroyTeardown, Busy
<1>1. m \in Machines /\ Destroys(job[c])
  BY <1>0, WorkFound DEF AtWork, DestroyPc
<1>2. /\ job'[c].m = m /\ job'[c].pc = "delete"
      /\ \A d \in Calls : d # c => job'[d] = job[d]
  BY <1>0, GoesTo
<1>3. disk'[m] = "none" /\ \A n \in Machines : n # m => disk'[n] = disk[n] /\ sock'[n] = sock[n]
  BY <1>0, <1>1 DEF TInv, TypeOK
<1>4. \A n \in Machines : n # m => Same(n)
  BY <1>0, <1>3 DEF Same
<1>5. Destroys(job[c])'
  BY <1>0, <1>1, <1>2, <1>3 DEF Destroys, Off
<1>6. AtWork(job[c])' /\ Busy(job'[c])
  BY <1>0, <1>1, <1>2, <1>5 DEF AtWork, StopPc, Busy
<1> QED BY <1>0, <1>1, <1>2, <1>4, <1>6, WorkStep

LEMMA DeleteTells ==
    ASSUME Calm, TInv, TInv', TellInv, NEW c \in Calls, DestroyDelete(c)
    PROVE  TellInv'
<1> DEFINE m == job[c].m
<1>0. job[c].pc = "delete" /\ Busy(job[c]) /\ Goto(c, "done") /\ UNCHANGED <<hostVars, reap>>
  BY DEF DestroyDelete, Busy
<1>1. m \in Machines /\ Destroys(job[c]) /\ m \notin restored
  BY <1>0, WorkFound DEF AtWork, DestroyPc
<1>2. rec' = [rec EXCEPT ![m] = NoRec]
  BY DEF DestroyDelete
<1>3. /\ rec'[m].state = "absent" /\ rec'[m].pid = 0 /\ rec'[m].snap = "absent"
      /\ \A n \in Machines : n # m => rec'[n] = rec[n]
  BY <1>1, <1>2 DEF TInv, TypeOK, NoRec
<1>4. job'[c].m = m
  BY <1>0, GoesTo
<1>5. Off(m) /\ m \notin mounted /\ disk[m] = "none"
  BY <1>0, <1>1 DEF Destroys
<1>6. Down(m)'
  BY <1>0, <1>3, <1>4, <1>5 DEF Down, Off, hostVars
<1>7. AtRest(m)'
  BY <1>0, <1>1, <1>3, <1>4, <1>5, <1>6 DEF AtRest, hostVars, volVars
<1> QED BY <1>0, <1>1, <1>3, <1>7, WorkEnds

LEMMA InitTells == Init => TellInv
<1> SUFFICES ASSUME Init PROVE TellInv
  OBVIOUS
<1>1. \A c \in Calls : job[c] = NewJob /\ ~Busy(job[c])
  BY DEF Init, Busy, NewJob
<1>2. \A m \in Machines : rec[m].state = "absent" /\ rec[m].pid = 0 /\ rec[m].snap = "absent"
  BY DEF Init, NoRec
<1>3. \A m \in Machines : AtRest(m)
  BY <1>2 DEF Init, AtRest, Down, Off
<1>4. ~reap.busy /\ alive \cup started = {}
  BY DEF Init, Idle
<1> QED BY <1>1, <1>3, <1>4 DEF TellInv

\* Every step keeps it.
LEMMA StepTells ==
    ASSUME Calm
    PROVE  TInv /\ TellInv /\ [Next]_vars => TellInv'
<1> SUFFICES ASSUME TInv, TellInv, [Next]_vars PROVE TellInv'
  OBVIOUS
<1>0. TInv'
  BY StepTyped
<1>1. ASSUME NEW c \in Calls, Call(c) PROVE TellInv'
  <2>1. CASE EnsureNothing(c)
    <3>1. PICK m \in Machines : MayCall(c, m) /\ Become(c, [job[c] EXCEPT !.pc = "done", !.m = m])
      BY <2>1, Zenon DEF EnsureNothing
    <3>2. UNCHANGED <<rec, hostVars, reap>>
      BY <2>1, Zenon DEF EnsureNothing
    <3> QED BY <1>0, <3>1, <3>2, NothingTells, Zenon
  <2> QED BY <1>0, <1>1, <2>1, ReserveTells, StopTells, DestroyTells DEF Call
<1>2. ASSUME NEW c \in Calls, Boot(c) PROVE TellInv'
  BY <1>0, <1>2, NoFailure, UpdateTells, BootCloseTells, WipeTells, MountTells, LaunchTells, PidTells,
     StartTells, ConsumeTells, SettleTells DEF Boot
<1>3. ASSUME NEW c \in Calls, TearDown(c) PROVE TellInv'
  BY <1>0, <1>3, SnapshotTells, KillTells, StopSettleTells, TeardownTells, DeleteTells DEF TearDown
<1>4. ~ReapList /\ ~ReapKill /\ (\A p \in Pids : ~VMMDies(p))
  BY DEF Calm, TellInv, ReapList, ReapKill, VMMDies
<1>5. ~Restart
  BY DEF Calm, TInv, TypeOK, Restart
<1>6. CASE UNCHANGED vars
  <2>1. UNCHANGED <<rec, hostVars, job, reap>>
    BY <1>6 DEF vars
  <2>2. \A n \in Machines : Same(n)
    BY <2>1, HostSame
  <2>3. \A c \in Calls : Busy(job[c]) => AtWork(job[c])'
    BY <1>0, <2>1, <2>2, SameWork DEF TellInv, AtWork
  <2>4. \A m \in Machines : AtRest(m) => AtRest(m)'
    BY <1>0, <2>2, SameRest
  <2> QED BY <2>1, <2>3, <2>4 DEF TellInv, Busy, hostVars
<1> QED BY <1>1, <1>2, <1>3, <1>4, <1>5, <1>6 DEF Next

\* The invariant is about what the records tell.
LEMMA TellInvTells ==
    ASSUME TInv, TellInv
    PROVE  RecordsTell
<1>1. ASSUME NEW m \in Machines, BusyWith(m) = {} PROVE AtRest(m)
  BY <1>1 DEF TellInv, BusyWith, Busy
<1>2. RunningIsReal
  BY <1>1 DEF RunningIsReal, AtRest, On
<1>3. StoppedIsReal
  BY <1>1 DEF StoppedIsReal, AtRest, Down, Off, Owned
<1>4. ASSUME NEW m \in Machines PROVE Off(m) \/ \E p \in alive : On(m, p)
  <2>1. CASE \E c \in Calls : Busy(job[c]) /\ job[c].m = m
    <3>1. PICK c \in Calls : Busy(job[c]) /\ job[c].m = m
      BY <2>1
    <3>2. job[c] \in Job /\ AtWork(job[c])
      BY <3>1 DEF TInv, TypeOK, TellInv
    <3>3. CASE job[c].pc = "update"
      BY <3>1, <3>2, <3>3 DEF AtWork, AtRest, Down
    <3>4. CASE job[c].pc \in BootPc
      BY <3>1, <3>2, <3>4 DEF AtWork, BootPc, BootsBefore, BootsAfter, On
    <3>5. CASE job[c].pc \in StopPc
      BY <3>1, <3>2, <3>5 DEF AtWork, Stops, On
    <3>6. CASE job[c].pc \in DestroyPc
      BY <3>1, <3>2, <3>6 DEF AtWork, Destroys
    <3> QED BY <3>1, <3>2, <3>3, <3>4, <3>5, <3>6 DEF Job, Busy
  <2>2. CASE \A c \in Calls : Busy(job[c]) => job[c].m # m
    <3>1. AtRest(m)
      BY <2>2 DEF TellInv
    <3> QED BY <3>1 DEF AtRest, Down, On
  <2> QED BY <2>1, <2>2
<1>5. ASSUME NEW m \in Machines PROVE Cardinality(Owned(m)) <= 1
  <2>1. CASE Off(m)
    <3>1. Owned(m) = {}
      BY <2>1 DEF Off, Owned
    <3> QED BY <3>1, FS_EmptySet
  <2>2. ASSUME NEW p \in alive, On(m, p) PROVE Cardinality(Owned(m)) <= 1
    <3>1. Owned(m) = {p}
      BY <2>2 DEF On, Owned
    <3> QED BY <3>1, FS_Singleton
  <2> QED BY <1>4, <2>1, <2>2
<1> QED BY <1>2, <1>3, <1>5 DEF RecordsTell, OneVMM

\* With calls for a machine one at a time and nothing failing but snapshots (no boot
\* that fails, no VMM that dies, no reaper and no restart): at most one VMM runs on a
\* machine's volume; a record that says running has it up, started and on its own
\* mounted volume, one that says stopped has none, and the snapshot it promises is
\* there and was never restored.
THEOREM RecordsAreTrue ==
    ASSUME Calm
    PROVE  Spec => []RecordsTell
<1>1. TInv /\ TellInv => RecordsTell
  BY TellInvTells
<1> QED BY <1>1, InitTyped, StepTyped, InitTells, StepTells, PTL DEF Spec

(***************************************************************************)
(* The disk and the snapshot, when callers wait for a machine's earlier    *)
(* call to be over, and anything else may happen: failing boots, VMMs that *)
(* die, the reaper and, for the disk, restarts of the agent.  The          *)
(* invariant says of a call at work that it has its machine to itself, on  *)
(* a record that is there (Relies); a boot that resumes has a record with  *)
(* a snapshot, so that only its fallback finds its volume mounted.         *)
(***************************************************************************)
Relies(j) ==
    /\ j.m \in Machines /\ rec[j.m].state # "absent"
    /\ j.pc \in BootPc /\ j.mode = "resume" => rec[j.m].snap = "present"
    /\ j.pc = "wipe" /\ rec[j.m].snap = "absent" => j.m \notin mounted
    /\ j.pc = "consume" => j.m \in mounted

AloneInv ==
    /\ \A c \in Calls : job[c].pc = "new" => job[c] = NewJob
    /\ \A c \in Calls : Busy(job[c]) => Relies(job[c])
    /\ \A c, d \in Calls : Busy(job[c]) /\ Busy(job[d]) /\ job[c].m = job[d].m => c = d

\* A step of one call on its machine.
LEMMA TurnStep ==
    ASSUME TInv, TInv', AloneInv, NEW c \in Calls, NEW m \in Machines,
           (job[c].pc = "new" /\ BusyWith(m) = {}) \/ (Busy(job[c]) /\ job[c].m = m),
           job'[c].m = m, job'[c].pc # "new",
           \A d \in Calls : d # c => job'[d] = job[d],
           \A n \in Machines : n # m => rec'[n] = rec[n] /\ (n \in mounted' <=> n \in mounted),
           Busy(job'[c]) => Relies(job[c])'
    PROVE  AloneInv'
<1>1. \A d \in Calls : d # c /\ Busy(job[d]) => job[d].m # m /\ job[d].m \in Machines /\ Relies(job[d])
  BY DEF AloneInv, BusyWith, Busy, Relies
<1>2. ASSUME NEW d \in Calls, Busy(job'[d]) PROVE Relies(job[d])'
  <2>1. CASE d = c
    BY <1>2, <2>1
  <2>2. CASE d # c
    BY <1>1, <1>2, <2>2 DEF Relies
  <2> QED BY <2>1, <2>2
<1>3. \A d, e \in Calls : Busy(job'[d]) /\ Busy(job'[e]) /\ job'[d].m = job'[e].m => d = e
  BY <1>1 DEF AloneInv
<1>4. \A d \in Calls : job'[d].pc = "new" => job'[d] = NewJob
  BY DEF AloneInv
<1> QED BY <1>2, <1>3, <1>4 DEF AloneInv, Busy

\* A call begins with its machine to itself.
LEMMA TurnFound ==
    ASSUME Serial = TRUE, AloneInv, NEW c \in Calls, NEW m \in Machines, MayCall(c, m)
    PROVE  job[c] = NewJob /\ job[c].pc = "new" /\ BusyWith(m) = {}
BY DEF AloneInv, MayCall

LEMMA CallTurn == ASSUME Serial = TRUE, TInv, TInv', AloneInv, NEW c \in Calls, Call(c) PROVE AloneInv'
<1>1. CASE EnsureNothing(c)
  <2>1. PICK m \in Machines : MayCall(c, m) /\ Become(c, [job[c] EXCEPT !.pc = "done", !.m = m])
    BY <1>1 DEF EnsureNothing
  <2>2. job'[c].m = m /\ job'[c].pc = "done" /\ ~Busy(job'[c]) /\ \A d \in Calls : d # c => job'[d] = job[d]
    <3>1. job'[c] = [job[c] EXCEPT !.pc = "done", !.m = m] /\ \A d \in Calls : d # c => job'[d] = job[d]
      BY <2>1, Becomes, Zenon
    <3>2. job[c] \in Job
      BY DEF TInv, TypeOK
    <3>3. job'[c].m = m /\ job'[c].pc = "done"
      BY <3>1, <3>2 DEF Job
    <3> QED BY <3>1, <3>3 DEF Busy
  <2>3. UNCHANGED <<rec, mounted>>
    BY <1>1 DEF EnsureNothing, hostVars
  <2> QED BY <2>1, <2>2, <2>3, TurnFound, TurnStep
<1>2. CASE EnsureReserve(c)
  <2>1. PICK m \in Machines :
        /\ MayCall(c, m)
        /\ \/ /\ rec' = [rec EXCEPT ![m] = [NoRec EXCEPT !.state = "creating"]]
              /\ Become(c, [job[c] EXCEPT !.pc = "close", !.m = m])
           \/ /\ m \in Tracked
              /\ Become(c, [job[c] EXCEPT !.pc = "update", !.m = m])
              /\ UNCHANGED rec
    BY <1>2, ZenonT(40) DEF EnsureReserve
  <2>2. job[c] = NewJob /\ job[c].pc = "new" /\ BusyWith(m) = {} /\ UNCHANGED mounted
    BY <1>2, <2>1, TurnFound DEF EnsureReserve, hostVars
  <2>3. /\ job'[c].m = m /\ job'[c].pc \in {"close", "update"} /\ job'[c].mode = "cold"
        /\ \A d \in Calls : d # c => job'[d] = job[d]
    <3>1. \/ Become(c, [NewJob EXCEPT !.pc = "close", !.m = m])
          \/ Become(c, [NewJob EXCEPT !.pc = "update", !.m = m])
      BY <2>1, <2>2
    <3>2. PICK pc \in {"close", "update"} : Become(c, [NewJob EXCEPT !.pc = pc, !.m = m])
      BY <3>1
    <3>3. job'[c] = [NewJob EXCEPT !.pc = pc, !.m = m] /\ \A d \in Calls : d # c => job'[d] = job[d]
      BY <3>2, Becomes, Zenon
    <3> QED BY <3>3 DEF NewJob
  <2>4. rec'[m].state # "absent" /\ \A n \in Machines : n # m => rec'[n] = rec[n]
    BY <2>1 DEF TInv, TypeOK, NoRec, Tracked
  <2>5. Relies(job[c])'
    BY <2>3, <2>4 DEF Relies
  <2> QED BY <2>2, <2>3, <2>4, <2>5, TurnStep
<1>3. CASE Stop(c)
  <2>1. PICK m \in Tracked :
        /\ MayCall(c, m)
        /\ \/ Become(c, [job[c] EXCEPT !.pc = "done", !.m = m]) /\ UNCHANGED rec
           \/ \E how \in {"hibernating", "stopping"} :
              /\ rec' = [rec EXCEPT ![m].state = how]
              /\ Become(c, [job[c] EXCEPT !.pc = IF how = "hibernating" THEN "snapshot" ELSE "kill",
                                          !.m = m, !.pid = rec[m].pid])
    BY <1>3, Zenon DEF Stop
  <2>2. m \in Machines
    BY DEF Tracked
  <2>3. job[c] = NewJob /\ job[c].pc = "new" /\ BusyWith(m) = {} /\ UNCHANGED mounted
    BY <1>3, <2>1, <2>2, TurnFound DEF Stop, hostVars
  <2>4. /\ job'[c].m = m /\ job'[c].pc \in {"done", "snapshot", "kill"}
        /\ \A d \in Calls : d # c => job'[d] = job[d]
    <3>1. \/ Become(c, [NewJob EXCEPT !.pc = "done", !.m = m])
          \/ Become(c, [NewJob EXCEPT !.pc = "snapshot", !.m = m, !.pid = rec[m].pid])
          \/ Become(c, [NewJob EXCEPT !.pc = "kill", !.m = m, !.pid = rec[m].pid])
      BY <2>1, <2>3
    <3>2. \A d \in Calls : d # c => job'[d] = job[d]
      BY <3>1, Becomes, Zenon
    <3>3. \/ job'[c] = [NewJob EXCEPT !.pc = "done", !.m = m]
          \/ job'[c] = [NewJob EXCEPT !.pc = "snapshot", !.m = m, !.pid = rec[m].pid]
          \/ job'[c] = [NewJob EXCEPT !.pc = "kill", !.m = m, !.pid = rec[m].pid]
      BY <3>1, Becomes, Zenon
    <3>4. job'[c].m = m /\ job'[c].pc \in {"done", "snapshot", "kill"}
      BY <3>3 DEF NewJob
    <3> QED BY <3>2, <3>4
  <2>5. rec'[m].state # "absent" /\ \A n \in Machines : n # m => rec'[n] = rec[n]
    BY <2>1, <2>2 DEF TInv, TypeOK, Rec, Tracked
  <2>6. Relies(job[c])'
    BY <2>2, <2>4, <2>5 DEF Relies, BootPc
  <2> QED BY <2>2, <2>3, <2>4, <2>5, <2>6, TurnStep
<1>4. CASE Destroy(c)
  <2>1. PICK m \in Tracked : MayCall(c, m) /\ Become(c, [job[c] EXCEPT !.pc = "teardown", !.m = m])
    BY <1>4 DEF Destroy
  <2>2. m \in Machines /\ rec[m].state # "absent" /\ UNCHANGED <<rec, mounted>>
    BY <1>4 DEF Tracked, Destroy
  <2>3. job[c] = NewJob /\ job[c].pc = "new" /\ BusyWith(m) = {}
    BY <2>1, <2>2, TurnFound
  <2>4. job'[c].m = m /\ job'[c].pc = "teardown" /\ \A d \in Calls : d # c => job'[d] = job[d]
    BY <2>1, <2>3 DEF Become, TInv, TypeOK, NewJob
  <2>5. Relies(job[c])'
    BY <2>2, <2>4 DEF Relies, BootPc
  <2> QED BY <2>2, <2>3, <2>4, <2>5, TurnStep
<1> QED BY <1>1, <1>2, <1>3, <1>4 DEF Call

\* A goroutine of the call is at work on its machine.
LEMMA TurnOf ==
    ASSUME TInv, AloneInv, NEW c \in Calls, Busy(job[c])
    PROVE  job[c].m \in Machines /\ job[c].m \in Tracked /\ Relies(job[c]) /\ job[c] \in Job
BY DEF AloneInv, Relies, Tracked, TInv, TypeOK

\* Where a failed boot goes on.
LEMMA FailedIs ==
    ASSUME TInv, NEW c \in Calls, Become(c, Failed(c))
    PROVE  /\ job'[c].m = job[c].m /\ \A d \in Calls : d # c => job'[d] = job[d]
           /\ \/ job'[c].pc = "cleanup" /\ job'[c].mode = job[c].mode /\ job[c].mode # "resume"
              \/ job'[c].pc = "wipe" /\ job'[c].mode = "cold" /\ job[c].mode = "resume"
<1>1. job[c] \in Job
  BY DEF TInv, TypeOK
<1>2. job'[c] = Failed(c) /\ \A d \in Calls : d # c => job'[d] = job[d]
  BY Becomes, Zenon
<1>3. /\ Failed(c).m = job[c].m
      /\ \/ Failed(c).pc = "cleanup" /\ Failed(c).mode = job[c].mode /\ job[c].mode # "resume"
         \/ Failed(c).pc = "wipe" /\ Failed(c).mode = "cold" /\ job[c].mode = "resume"
  BY <1>1 DEF Failed, Job
<1> QED BY <1>2, <1>3, Zenon

\* A failed boot: the record, which has a snapshot if it was resuming, is as it was.
LEMMA FailedTurn ==
    ASSUME TInv, TInv', AloneInv, NEW c \in Calls, job[c].pc \in BootPc, Become(c, Failed(c)), UNCHANGED rec,
           \A n \in Machines : n # job[c].m => (n \in mounted' <=> n \in mounted)
    PROVE  AloneInv'
<1>1. Busy(job[c])
  BY DEF Busy, BootPc
<1>2. Relies(job[c])'
  BY <1>1, TurnOf, FailedIs DEF Relies
<1> QED BY <1>1, <1>2, TurnOf, FailedIs, TurnStep

\* A goroutine goes on to a place that asks nothing new of the host.
LEMMA GoneOn ==
    ASSUME TInv, TInv', AloneInv, NEW c \in Calls, Busy(job[c]),
           job'[c].m = job[c].m, \A d \in Calls : d # c => job'[d] = job[d],
           job'[c].pc \notin {"new", "wipe", "consume"}, job'[c].pc \in BootPc => job[c].pc \in BootPc /\ job'[c].mode = job[c].mode,
           rec'[job[c].m].state # "absent", job'[c].pc \in BootPc => rec'[job[c].m].snap = rec[job[c].m].snap,
           \A n \in Machines : n # job[c].m => rec'[n] = rec[n] /\ (n \in mounted' <=> n \in mounted)
    PROVE  AloneInv'
<1>1. Relies(job[c])'
  BY TurnOf DEF Relies
<1> QED BY <1>1, TurnOf, TurnStep

LEMMA BootTurn == ASSUME Serial = TRUE, TInv, TInv', AloneInv, NEW c \in Calls, Boot(c) PROVE AloneInv'
<1> DEFINE m == job[c].m
<1>0. Busy(job[c]) /\ job[c].pc \in BootPc \cup {"update"}
  BY DEF Boot, EnsureUpdate, BootClose, BootWipe, BootMount, BootMountFails, BootLaunch, BootLaunchFails, BootPid,
         BootStart, BootConsume, BootSettle, BootCleanup, BootErr, Busy, BootPc
<1>1. m \in Machines /\ m \in Tracked /\ Relies(job[c]) /\ job[c] \in Job /\ rec \in [Machines -> Rec]
  BY <1>0, TurnOf DEF TInv, TypeOK
<1>2. CASE EnsureUpdate(c)
  <2>1. PICK mode \in {"cold", "resume"} :
           /\ rec' = [rec EXCEPT ![m].state = "creating"] /\ (mode = "resume" => rec[m].snap = "present")
           /\ Become(c, [job[c] EXCEPT !.pc = "close", !.mode = mode])
    BY <1>1, <1>2 DEF EnsureUpdate
  <2>2. job'[c].m = m /\ job'[c].pc = "close" /\ job'[c].mode = mode /\ \A d \in Calls : d # c => job'[d] = job[d]
    <3>1. job'[c] = [job[c] EXCEPT !.pc = "close", !.mode = mode] /\ \A d \in Calls : d # c => job'[d] = job[d]
      BY <2>1, Becomes, Zenon
    <3> QED BY <3>1, <1>1 DEF Job
  <2>3. rec'[m].state # "absent" /\ rec'[m].snap = rec[m].snap /\ \A n \in Machines : n # m => rec'[n] = rec[n]
    BY <1>1, <2>1 DEF Rec
  <2>4. UNCHANGED mounted
    BY <1>2 DEF EnsureUpdate, hostVars
  <2>5. Relies(job[c])'
    BY <1>1, <2>1, <2>2, <2>3 DEF Relies
  <2> QED BY <1>0, <1>1, <2>2, <2>3, <2>4, <2>5, TurnStep
<1>3. CASE BootClose(c)
  <2>1. /\ job'[c].m = m /\ job'[c].pc = "wipe" /\ job'[c].mode = job[c].mode
        /\ \A d \in Calls : d # c => job'[d] = job[d]
    BY <1>3, GoesTo DEF BootClose
  <2>2. UNCHANGED rec /\ mounted' = mounted \ {m} /\ job[c].pc = "close"
    BY <1>3 DEF BootClose
  <2>3. Relies(job[c])'
    BY <1>1, <2>1, <2>2 DEF Relies, BootPc
  <2> QED BY <1>0, <1>1, <2>1, <2>2, <2>3, TurnStep
<1>4. CASE BootStart(c) /\ Goto(c, "consume")
  <2>1. /\ job'[c].m = m /\ job'[c].pc = "consume" /\ job'[c].mode = job[c].mode
        /\ \A d \in Calls : d # c => job'[d] = job[d]
    BY <1>4, GoesTo
  <2>2. UNCHANGED <<rec, mounted>> /\ m \in mounted /\ job[c].pc = "start"
    <3>1. ~Become(c, Failed(c))
      BY <2>1, FailedIs
    <3> QED BY <1>4, <3>1 DEF BootStart, CanStart
  <2>3. Relies(job[c])'
    BY <1>1, <2>1, <2>2 DEF Relies, BootPc
  <2> QED BY <1>0, <1>1, <2>1, <2>2, <2>3, TurnStep
<1>5. CASE Become(c, Failed(c)) /\ (BootWipe(c) \/ BootMountFails(c) \/ BootLaunch(c) \/ BootLaunchFails(c) \/ BootStart(c))
  <2>1. job[c].pc \in BootPc /\ UNCHANGED rec
    BY <1>5 DEF BootWipe, BootMountFails, BootLaunch, BootLaunchFails, BootStart, BootPc
  <2>2. \A n \in Machines : n # m => (n \in mounted' <=> n \in mounted)
    BY <1>5 DEF BootWipe, BootMountFails, BootLaunch, BootLaunchFails, BootStart, hostVars
  <2> QED BY <1>5, <2>1, <2>2, FailedTurn
<1>6. ASSUME NEW pc \in {"mount", "launch", "start", "settle", "err"}, Goto(c, pc), UNCHANGED rec, job[c].pc \in BootPc,
             \A n \in Machines : n # m => (n \in mounted' <=> n \in mounted)
      PROVE  AloneInv'
  <2>1. /\ job'[c].m = m /\ job'[c].pc = pc /\ job'[c].mode = job[c].mode
        /\ \A d \in Calls : d # c => job'[d] = job[d]
    BY <1>6, GoesTo
  <2> QED BY <1>0, <1>1, <1>6, <2>1, GoneOn DEF Tracked
<1>7. CASE BootWipe(c) /\ Goto(c, "mount")
  BY <1>6, <1>7 DEF BootWipe, BootPc
<1>8. CASE BootMount(c)
  BY <1>6, <1>8 DEF BootMount, BootPc
<1>9. CASE BootLaunch(c) /\ ~Become(c, Failed(c))
  <2>1. Become(c, [job[c] EXCEPT !.pc = "pid", !.pid = Pgrep(m, alive', owner')]) /\ UNCHANGED <<rec, mounted>> /\ job[c].pc \in BootPc
    BY <1>9, Zenon DEF BootLaunch, BootPc
  <2>2. job'[c].m = m /\ job'[c].pc = "pid" /\ job'[c].mode = job[c].mode /\ \A d \in Calls : d # c => job'[d] = job[d]
    <3>1. job'[c] = [job[c] EXCEPT !.pc = "pid", !.pid = Pgrep(m, alive', owner')] /\ \A d \in Calls : d # c => job'[d] = job[d]
      BY <2>1, Becomes, Zenon
    <3> QED BY <3>1, <1>1 DEF Job
  <2> QED BY <1>0, <1>1, <2>1, <2>2, GoneOn DEF Tracked
<1>10. CASE BootPid(c)
  <2>1. /\ job'[c].m = m /\ job'[c].pc = "start" /\ job'[c].mode = job[c].mode
        /\ \A d \in Calls : d # c => job'[d] = job[d]
    BY <1>10, GoesTo DEF BootPid
  <2>2. rec' = [rec EXCEPT ![m] = [rec[m] EXCEPT !.pid = job[c].pid]] /\ job[c].pc \in BootPc /\ UNCHANGED mounted
    BY <1>1, <1>10 DEF BootPid, Update, BootPc, hostVars
  <2>3. rec'[m].state # "absent" /\ rec'[m].snap = rec[m].snap /\ \A n \in Machines : n # m => rec'[n] = rec[n]
    BY <1>1, <2>2 DEF Rec, Tracked
  <2> QED BY <1>0, <2>1, <2>2, <2>3, GoneOn
<1>11. CASE BootStart(c) /\ Goto(c, "settle")
  BY <1>6, <1>11 DEF BootStart, BootPc
<1>12. CASE BootConsume(c)
  BY <1>6, <1>12 DEF BootConsume, BootPc
<1>13. CASE BootSettle(c) \/ BootErr(c)
  <2>1. job'[c].m = m /\ job'[c].pc = "done" /\ \A d \in Calls : d # c => job'[d] = job[d]
    BY <1>13, GoesTo DEF BootSettle, BootErr
  <2>2. UNCHANGED mounted /\ \E new \in Rec : rec' = [rec EXCEPT ![m] = new]
    <3>1. CASE BootSettle(c)
      <4>1. [rec[m] EXCEPT !.state = IF @ = "creating" THEN "running" ELSE @, !.snap = "absent"] \in Rec
        BY <1>1 DEF Rec, RecStates
      <4> QED BY <1>1, <3>1, <4>1, Zenon DEF BootSettle, Update, hostVars
    <3>2. CASE BootErr(c)
      <4>1. [rec[m] EXCEPT !.state = "error"] \in Rec
        BY <1>1 DEF Rec, RecStates
      <4>2. m # NoMachine
        BY <1>1, DriverAssumption
      <4> QED BY <1>1, <3>2, <4>1, <4>2, Zenon DEF BootErr, Update, hostVars
    <3> QED BY <1>13, <3>1, <3>2
  <2>3. \A n \in Machines : n # m => rec'[n] = rec[n]
    BY <1>1, <2>2
  <2>4. ~Busy(job'[c])
    BY <2>1 DEF Busy
  <2> QED BY <1>0, <1>1, <2>1, <2>2, <2>3, <2>4, TurnStep
<1>14. CASE BootCleanup(c)
  BY <1>6, <1>14 DEF BootCleanup, BootPc
<1>15. BootStart(c) => Goto(c, "consume") \/ Goto(c, "settle") \/ Become(c, Failed(c))
  BY Zenon DEF BootStart
<1>16. BootWipe(c) => Goto(c, "mount") \/ Become(c, Failed(c))
  BY Zenon DEF BootWipe
<1>17. BootMountFails(c) => Become(c, Failed(c))
  BY Zenon DEF BootMountFails
<1>18. BootLaunchFails(c) => Become(c, Failed(c))
  BY Zenon DEF BootLaunchFails
<1> QED BY <1>2, <1>3, <1>4, <1>5, <1>7, <1>8, <1>9, <1>10, <1>11, <1>12, <1>13, <1>14, <1>15, <1>16, <1>17, <1>18, Zenon DEF Boot

LEMMA TearDownTurn == ASSUME Serial = TRUE, TInv, TInv', AloneInv, NEW c \in Calls, TearDown(c) PROVE AloneInv'
<1> DEFINE m == job[c].m
<1>0. Busy(job[c])
  BY DEF TearDown, StopSnapshot, StopKill, StopSettle, DestroyTeardown, DestroyDelete, Busy
<1>1. m \in Machines /\ m \in Tracked /\ Relies(job[c]) /\ job[c] \in Job /\ rec \in [Machines -> Rec]
  BY <1>0, TurnOf DEF TInv, TypeOK
<1>2. CASE StopSnapshot(c)
  <2>1. job'[c].m = m /\ job'[c].pc = "kill" /\ \A d \in Calls : d # c => job'[d] = job[d]
    <3>1. CASE Become(c, [job[c] EXCEPT !.pc = "kill", !.snap = "present"])
      <4>1. job'[c] = [job[c] EXCEPT !.pc = "kill", !.snap = "present"] /\ \A d \in Calls : d # c => job'[d] = job[d]
        BY <3>1, Becomes, Zenon
      <4> QED BY <4>1, <1>1 DEF Job
    <3>2. CASE Goto(c, "kill")
      BY <3>2, GoesTo
    <3> QED BY <1>2, <3>1, <3>2, Zenon DEF StopSnapshot
  <2>2. UNCHANGED <<rec, mounted>>
    BY <1>2 DEF StopSnapshot
  <2> QED BY <1>0, <1>1, <2>1, <2>2, GoneOn DEF BootPc, Tracked
<1>3. ASSUME NEW pc \in {"stopped", "delete"}, Goto(c, pc), UNCHANGED rec, mounted' = mounted \ {m} PROVE AloneInv'
  <2>1. job'[c].m = m /\ job'[c].pc = pc /\ \A d \in Calls : d # c => job'[d] = job[d]
    BY <1>3, GoesTo
  <2> QED BY <1>0, <1>1, <1>3, <2>1, GoneOn DEF BootPc, Tracked
<1>4. CASE StopKill(c)
  BY <1>3, <1>4 DEF StopKill
<1>5. CASE DestroyTeardown(c)
  BY <1>3, <1>5 DEF DestroyTeardown
<1>6. CASE StopSettle(c) \/ DestroyDelete(c)
  <2>1. job'[c].m = m /\ job'[c].pc = "done" /\ \A d \in Calls : d # c => job'[d] = job[d]
    BY <1>6, GoesTo DEF StopSettle, DestroyDelete
  <2>2. UNCHANGED mounted /\ \E new : rec' = [rec EXCEPT ![m] = new]
    BY <1>1, <1>6, Zenon DEF StopSettle, DestroyDelete, Update, hostVars
  <2>3. \A n \in Machines : n # m => rec'[n] = rec[n]
    BY <1>1, <2>2
  <2>4. ~Busy(job'[c])
    BY <2>1 DEF Busy
  <2> QED BY <1>0, <1>1, <2>1, <2>2, <2>3, <2>4, TurnStep
<1> QED BY <1>2, <1>4, <1>5, <1>6 DEF TearDown

\* A restart ends all calls but those that are to begin, and takes up the stops of
\* machines whose VMM lives, one goroutine each.
LEMMA RestartTurn == ASSUME TInv, TInv', AloneInv, Restart PROVE AloneInv'
<1> DEFINE resumed == {m \in Machines : rec[m].state \in {"hibernating", "stopping"} /\ rec[m].pid \in alive}
           gone == {c \in Calls : job[c].pc # "new"}
<1>1. PICK f \in [resumed -> gone] :
        /\ \A m, n \in resumed : f[m] = f[n] => m = n
        /\ job' = [c \in Calls |->
                     IF c \notin gone THEN job[c]
                     ELSE IF \E m \in resumed : f[m] = c
                          THEN ResumedStop(CHOOSE n \in resumed : f[n] = c)
                          ELSE [NewJob EXCEPT !.pc = "done"]]
  BY DEF Restart
<1>2. rec' = [m \in Machines |-> Reattached(m)]
  BY DEF Restart
<1>3. ASSUME NEW c \in Calls
      PROVE  \/ job'[c] = job[c] /\ job[c].pc = "new"
             \/ \E m \in resumed : f[m] = c /\ job'[c] = ResumedStop(m)
             \/ job'[c].pc = "done"
  <2>1. CASE c \notin gone
    BY <1>1, <2>1
  <2>2. CASE c \in gone /\ \E m \in resumed : f[m] = c
    <3>1. (CHOOSE n \in resumed : f[n] = c) \in resumed /\ f[CHOOSE n \in resumed : f[n] = c] = c
      BY <2>2
    <3>2. job'[c] = ResumedStop(CHOOSE n \in resumed : f[n] = c)
      BY <1>1, <2>2, Zenon
    <3> QED BY <3>1, <3>2
  <2>3. CASE c \in gone /\ ~\E m \in resumed : f[m] = c
    <3>1. job'[c] = [NewJob EXCEPT !.pc = "done"]
      BY <1>1, <2>3, Zenon
    <3> QED BY <3>1 DEF NewJob
  <2> QED BY <2>1, <2>2, <2>3
<1>4. \A m \in resumed : rec'[m] = rec[m] /\ rec[m].state # "absent" /\ m \in Machines
  BY <1>2 DEF Reattached
<1>5. \A m \in Machines : ResumedStop(m).m = m /\ ResumedStop(m).pc \in {"snapshot", "kill"}
  BY DEF ResumedStop, NewJob
<1> HIDE DEF resumed, gone
<1>6. \A c \in Calls : Busy(job'[c]) => \E m \in resumed : f[m] = c /\ job'[c].m = m /\ job'[c].pc \in {"snapshot", "kill"}
  BY <1>3, <1>4, <1>5 DEF Busy
<1>7. \A c \in Calls : Busy(job'[c]) => Relies(job[c])'
  BY <1>4, <1>6 DEF Relies, BootPc
<1>8. \A c, d \in Calls : Busy(job'[c]) /\ Busy(job'[d]) /\ job'[c].m = job'[d].m => c = d
  BY <1>6
<1>9. \A c \in Calls : job'[c].pc = "new" => job'[c] = NewJob
  BY <1>3, <1>4, <1>5 DEF AloneInv
<1> QED BY <1>7, <1>8, <1>9 DEF AloneInv, Busy

LEMMA InitAlone == Init => AloneInv
BY DEF Init, AloneInv, NewJob, Busy

LEMMA StepAlone == ASSUME Serial = TRUE PROVE TInv /\ AloneInv /\ [Next]_vars => AloneInv'
<1> SUFFICES ASSUME TInv, AloneInv, [Next]_vars PROVE AloneInv'
  OBVIOUS
<1>1. TInv'
  BY StepTyped
<1>2. ASSUME UNCHANGED <<rec, mounted, job>> PROVE AloneInv'
  BY <1>2 DEF AloneInv, Relies
<1>3. CASE ReapList \/ ReapKill \/ (\E p \in Pids : VMMDies(p)) \/ UNCHANGED vars
  BY <1>2, <1>3 DEF ReapList, ReapKill, VMMDies, vars, hostVars
<1> QED BY <1>1, <1>3, CallTurn, BootTurn, TearDownTurn, RestartTurn DEF Next

\* "The volume is unmounted before this runs": whatever fails, a boot, a snapshot, a
\* VMM, the reaper's guess or the agent, a machine whose record has no snapshot loses
\* its disk to a Destroy and to nothing else (bootOnce, removeJail).
THEOREM DiskIsKept == ASSUME Serial = TRUE PROVE Spec => DiskOutlivesFailures
<1> DEFINE Kept == \A m \in Machines :
                      disk[m] = "data" /\ disk'[m] # "data" /\ rec[m].snap = "absent" =>
                          \E c \in Calls : job[c].pc = "teardown" /\ job[c].m = m
<1>1. TInv /\ AloneInv /\ [Next]_vars => [Kept]_vars
  <2> SUFFICES ASSUME TInv, AloneInv, Next PROVE Kept
    BY DEF vars
  <2>1. UNCHANGED disk => Kept
    OBVIOUS
  <2>2. ASSUME NEW c \in Calls, Boot(c) PROVE Kept
    <3>1. CASE BootWipe(c)
      <4>1. job[c].m \in Machines /\ Relies(job[c]) /\ job[c].pc = "wipe"
        BY <3>1, TurnOf DEF BootWipe, Busy
      <4>2. \A m \in Machines : disk'[m] # disk[m] => m = job[c].m /\ m \in mounted
        BY <3>1, <4>1, DriverAssumption DEF BootWipe, RemoveJail, JailsOf, TInv, TypeOK
      <4> QED BY <4>1, <4>2 DEF Relies
    <3>2. CASE BootMount(c) \/ BootMountFails(c)
      <4>1. \A m \in Machines : disk[m] = "data" => disk'[m] = "data"
        BY <3>2 DEF BootMount, BootMountFails, TInv, TypeOK
      <4> QED BY <4>1
    <3>3. CASE BootCleanup(c)
      <4>1. job[c].m \in Machines
        BY <3>3, TurnOf DEF BootCleanup, Busy
      <4>2. UNCHANGED disk
        BY <3>3, <4>1, DriverAssumption DEF BootCleanup, volVars
      <4> QED BY <2>1, <4>2
    <3> QED BY <2>1, <2>2, <3>1, <3>2, <3>3
        DEF Boot, EnsureUpdate, BootClose, BootLaunch, BootLaunchFails, BootPid, BootStart, BootConsume, BootSettle, BootErr, hostVars, volVars
  <2>3. ASSUME NEW c \in Calls, TearDown(c) PROVE Kept
    <3>1. CASE DestroyTeardown(c)
      BY <3>1 DEF DestroyTeardown, TInv, TypeOK
    <3> QED BY <2>1, <2>3, <3>1 DEF TearDown, StopSnapshot, StopKill, StopSettle, DestroyDelete, hostVars, volVars
  <2>4. ASSUME NEW c \in Calls, Call(c) PROVE Kept
    BY <2>1, <2>4, ZenonT(40) DEF Call, EnsureNothing, EnsureReserve, Stop, Destroy, hostVars, volVars
  <2>5. ReapList \/ ReapKill \/ Restart \/ (\E p \in Pids : VMMDies(p)) => Kept
    BY <2>1 DEF ReapList, ReapKill, Restart, VMMDies, hostVars, volVars
  <2> QED BY <2>2, <2>3, <2>4, <2>5 DEF Next
<1> QED BY <1>1, InitTyped, StepTyped, InitAlone, StepAlone, PTL DEF Spec, DiskOutlivesFailures

\* What was loaded and is still there is about to be deleted by the call that loaded it.
Consumes == \A m \in restored : \E c \in Calls : job[c].pc = "consume" /\ job[c].m = m

LEMMA StepConsumes == ASSUME Serial = TRUE, MaxRestarts = 0 PROVE TInv /\ AloneInv /\ Consumes /\ [Next]_vars => Consumes'
<1> SUFFICES ASSUME TInv, AloneInv, Consumes, [Next]_vars PROVE Consumes'
  OBVIOUS
<1>1. ASSUME restored' \subseteq restored, \A c \in Calls : job[c].pc = "consume" => job'[c] = job[c] PROVE Consumes'
  BY <1>1 DEF Consumes
<1>2. ASSUME NEW c \in Calls, job[c].pc # "consume", \A d \in Calls : d # c => job'[d] = job[d], restored' \subseteq restored
      PROVE  Consumes'
  BY <1>1, <1>2
<1>3. ASSUME NEW c \in Calls, Call(c) PROVE Consumes'
  <2>1. UNCHANGED restored /\ job[c].pc = "new"
    BY <1>3, ZenonT(40) DEF Call, EnsureNothing, EnsureReserve, Stop, Destroy, hostVars, volVars, MayCall
  <2>2. \A d \in Calls : d # c => job'[d] = job[d]
    BY <1>3, Becomes, ZenonT(40) DEF Call, EnsureNothing, EnsureReserve, Stop, Destroy
  <2> QED BY <1>2, <2>1, <2>2
<1>4. ASSUME NEW c \in Calls, TearDown(c) PROVE Consumes'
  <2>1. restored' \subseteq restored /\ job[c].pc # "consume"
    BY <1>4 DEF TearDown, StopSnapshot, StopKill, StopSettle, DestroyTeardown, DestroyDelete, hostVars, volVars
  <2>2. \A d \in Calls : d # c => job'[d] = job[d]
    BY <1>4, Becomes, ZenonT(40) DEF TearDown, StopSnapshot, StopKill, StopSettle, DestroyTeardown, DestroyDelete, Goto
  <2> QED BY <1>2, <2>1, <2>2
<1>5. ASSUME NEW c \in Calls, Boot(c) PROVE Consumes'
  <2>0. \A d \in Calls : d # c => job'[d] = job[d]
    BY <1>5, Becomes, ZenonT(40) DEF Boot, EnsureUpdate, BootClose, BootWipe, BootMount, BootMountFails, BootLaunch, BootLaunchFails,
          BootPid, BootStart, BootConsume, BootSettle, BootCleanup, BootErr, Goto
  <2>1. CASE BootStart(c)
    <3>1. CASE Goto(c, "consume") /\ restored' = restored \cup {job[c].m}
      <4>1. job'[c].pc = "consume" /\ job'[c].m = job[c].m /\ job[c].pc = "start"
        BY <2>1, <3>1, GoesTo DEF BootStart
      <4> QED BY <2>0, <3>1, <4>1 DEF Consumes
    <3>2. UNCHANGED restored => Consumes'
      BY <1>2, <2>0, <2>1 DEF BootStart
    <3> QED BY <2>1, <3>1, <3>2 DEF BootStart
  <2>2. CASE BootConsume(c)
    <3>1. job[c].m \in mounted /\ job[c].pc = "consume"
      BY <2>2, TurnOf DEF BootConsume, Busy, Relies
    <3>2. restored' = restored \ {job[c].m}
      BY <2>2, <3>1 DEF BootConsume
    <3> QED BY <2>0, <3>2 DEF Consumes
  <2>3. (restored' \subseteq restored /\ job[c].pc # "consume") \/ BootStart(c) \/ BootConsume(c)
    BY <1>5 DEF Boot, EnsureUpdate, BootClose, BootWipe, RemoveJail, BootMount, BootMountFails, BootLaunch, BootLaunchFails,
          BootPid, BootSettle, BootCleanup, BootErr, hostVars, volVars
  <2> QED BY <1>2, <2>0, <2>1, <2>2, <2>3
<1>6. ~Restart
  BY DEF Restart, TInv, TypeOK
<1>7. CASE ReapList \/ ReapKill \/ (\E p \in Pids : VMMDies(p)) \/ UNCHANGED vars
  BY <1>1, <1>7 DEF ReapList, ReapKill, VMMDies, vars, hostVars, volVars
<1> QED BY <1>3, <1>4, <1>5, <1>6, <1>7 DEF Next

\* "Stale guest RAM must never be restored twice": as long as the agent is not
\* restarted no snapshot is loaded that was loaded before, whatever boots, snapshots
\* and VMMs fail and whatever the reaper kills (bootOnce, consumeSnapshot).
THEOREM SnapshotsRestoredOnce == ASSUME Serial = TRUE, MaxRestarts = 0 PROVE Spec => RestoredOnce
<1> DEFINE Fresh == \A c \in Calls : job[c].pc = "start" /\ job'[c].pc = "consume" => job[c].m \notin restored
<1>1. TInv /\ AloneInv /\ Consumes => [Fresh]_vars
  <2> SUFFICES ASSUME AloneInv, Consumes, NEW c \in Calls, job[c].pc = "start", job[c].m \in restored PROVE FALSE
    OBVIOUS
  <2>1. PICK d \in Calls : job[d].pc = "consume" /\ job[d].m = job[c].m
    BY DEF Consumes
  <2> QED BY <2>1 DEF AloneInv, Busy
<1>2. Init => Consumes
  BY DEF Init, Consumes
<1> QED BY <1>1, <1>2, InitTyped, StepTyped, InitAlone, StepAlone, StepConsumes, PTL DEF Spec, RestoredOnce
(***************************************************************************)
(* The settings in a user's machine (GuestSettings), when the calls that   *)
(* write them follow one another (InTurn).  A call holds the rows as they  *)
(* are and has got as far as its place says (Configures); what the agent   *)
(* blanked is marked, or about to be (Marked); and when all calls are over *)
(* the machine is as the last one left it (Applied).  What the user may do *)
(* in the middle of a call matters only to what is read and written back   *)
(* (ReadIsTrue).                                                           *)
(***************************************************************************)
InTurn == "overlap" \notin SettingsMay
\* The guest's agent does not die between the settings and their marker, and rows
\* can be read.
Completed == "crash" \notin SettingsMay /\ "unread" \notin SettingsMay
\* The user does not edit the settings in the middle of a call.
HandsOff == "race" \notin SettingsMay

OnGuest == {"git", "claude", "blank", "clear", "mark", "unmark"}
ConfPc == OnGuest \cup {"idle", "list", "load", "done", "failed"}
Over(k) == spc[k] \in {"idle", "done", "failed"}

SomeIdentity == {S!GitHubDefault} \cup S!Identities

SettingsTypes ==
    /\ attribution \in BOOLEAN /\ schan \in BOOLEAN /\ marker \in BOOLEAN /\ sedits \in Nat
    /\ spc \in [Confs -> ConfPc]
    /\ ident \in SomeIdentity /\ sgot \in [Confs -> [ident : SomeIdentity, attribution : BOOLEAN]]
    /\ settings \in S!Settings /\ sseen \in [Confs -> S!Settings]

OneConf == \A j, k \in Confs : ~Over(j) /\ ~Over(k) => j = k

TurnInv == SettingsTypes /\ OneConf

ReadIsTrue ==
    \A k \in Confs :
        /\ spc[k] \in {"blank", "clear"} => sseen[k] = settings
        /\ spc[k] \in {"clear", "unmark"} => marker

Blanked == settings.attr = "blank" /\ settings.by = "agent"

Configures(k) ==
    /\ spc[k] \in OnGuest => sgot[k].ident = ident /\ sgot[k].attribution = attribution
    /\ spc[k] \in OnGuest \ {"git"} => gitconfig = ident
    /\ spc[k] \in {"blank", "mark"} => ~attribution
    /\ spc[k] \in {"clear", "unmark"} => attribution
    /\ spc[k] = "mark" => (settings.by = "agent" => settings.attr = "blank") /\ (sedits = 0 => settings.by = "agent")
    /\ spc[k] = "unmark" => ~Blanked
    /\ spc[k] = "clear" => marker /\ (sedits = 0 => sseen[k].by = "agent" \/ sseen[k].attr = "absent")

Marked == Blanked => marker \/ \E k \in Confs : spc[k] = "mark"

Applied ==
    S!Quiet /\ schan /\ last = "done" =>
        /\ gitconfig = ident
        /\ sedits = 0 \/ settings.by = "agent" => (settings.attr = "blank" <=> ~attribution)

SettingsInv ==
    /\ TurnInv
    /\ \A k \in Confs : Configures(k)
    /\ Marked /\ Applied
    /\ sedits = 0 => settings.by = "agent" \/ settings.attr = "absent"

settingsVars == <<ident, attribution, schan, sdrops, spc, sgot, last, gitconfig, settings, sseen, marker, sedits>>

\* A call goes on and the others stay where they are.
Moves(k, to) == spc'[k] = to /\ (\A j \in Confs \ {k} : spc'[j] = spc[j]) /\ spc' \in [Confs -> ConfPc]

LEMMA ConfMoves ==
    ASSUME SettingsTypes, NEW k \in Confs, NEW to \in ConfPc, S!Go(k, to)
    PROVE  Moves(k, to)
  BY DEF SettingsTypes, S!Go, Moves

LEMMA ConfEnds ==
    ASSUME SettingsTypes, NEW k \in Confs, NEW how \in {"done", "failed"}, S!End(k, how)
    PROVE  Moves(k, how) /\ last' = how
  BY ConfMoves DEF S!End, ConfPc

\* Only one call is under way.
LEMMA Singly ==
    ASSUME InTurn, TurnInv, NEW k \in Confs, NEW to \in ConfPc, Moves(k, to), spc[k] # "idle" => ~Over(k), spc[k] = "idle" => S!MayCall
    PROVE  OneConf' /\ (\A j \in Confs : j # k => Over(j) /\ spc'[j] = spc[j])
  BY DEF InTurn, TurnInv, SettingsTypes, OneConf, Moves, Over, S!MayCall, S!Quiet

\* The settings as calls write them are settings.
LEMMA WrittenSettings ==
    ASSUME NEW s \in S!Settings
    PROVE  /\ S!BlankKeys(s) \in S!Settings /\ S!DropBlankKeys(s) \in S!Settings
           /\ S!BlankKeys(s).attr = "blank" /\ S!BlankKeys(s).by = "agent"
           /\ S!BlankKeys(s).other = s.other /\ S!BlankKeys(s).valid = s.valid
           /\ S!DropBlankKeys(s).other = s.other /\ S!DropBlankKeys(s).valid = s.valid
           /\ S!DropBlankKeys(s).attr # "blank"
           /\ s.attr = "blank" => S!DropBlankKeys(s).attr = "absent" /\ S!DropBlankKeys(s).by = "agent"
           /\ s.attr # "blank" => S!DropBlankKeys(s) = s
  BY Zenon DEF S!Settings, S!BlankKeys, S!DropBlankKeys

\* What an action keeps of both invariants.
SettingsKeep ==
    /\ TurnInv'
    /\ HandsOff /\ ReadIsTrue => ReadIsTrue'
    /\ Completed /\ SettingsInv => SettingsInv'

LEMMA SettingsInit == S!Init => TurnInv /\ ReadIsTrue /\ SettingsInv
  <1> SUFFICES ASSUME S!Init PROVE TurnInv /\ ReadIsTrue /\ SettingsInv
    OBVIOUS
  <1>1. /\ ident = 0 /\ attribution = TRUE /\ schan = FALSE /\ marker = FALSE /\ sedits = 0 /\ gitconfig = 0
        /\ spc = [k \in Confs |-> "idle"] /\ sgot = [k \in Confs |-> [ident |-> 0, attribution |-> TRUE]]
        /\ settings = [attr |-> "absent", by |-> "user", other |-> 0, valid |-> TRUE] /\ sseen = [k \in Confs |-> settings]
    BY DEF S!Init, S!GitHubDefault
  <1>2. SettingsTypes /\ settings \in S!Settings
    BY <1>1, Zenon DEF SettingsTypes, SomeIdentity, S!Settings, S!GitHubDefault, ConfPc, OnGuest
  <1>3. \A k \in Confs : spc[k] = "idle" /\ Over(k)
    BY <1>1 DEF Over
  <1>4. TurnInv /\ ReadIsTrue
    BY <1>2, <1>3 DEF TurnInv, OneConf, ReadIsTrue
  <1>5. \A k \in Confs : Configures(k)
    BY <1>3 DEF Configures, OnGuest
  <1> QED BY <1>1, <1>4, <1>5 DEF SettingsInv, Marked, Blanked, Applied

\* A call begins, of one kind or another: the user's rows may change, and the
\* channel may be new.
LEMMA CallBegins ==
    ASSUME InTurn, TurnInv, NEW k \in Confs, NEW to \in {"list", "load"}, spc[k] = "idle", S!MayCall, S!Go(k, to),
           ident' \in SomeIdentity, attribution' \in BOOLEAN, schan' \in BOOLEAN,
           UNCHANGED <<sgot, last, gitconfig, settings, sseen, marker, sedits>>
    PROVE  SettingsKeep
  <1>1. Moves(k, to)
    BY ConfMoves DEF TurnInv, ConfPc, OnGuest
  <1>2. OneConf' /\ (\A j \in Confs : j # k => Over(j) /\ spc'[j] = spc[j])
    BY <1>1, Singly DEF Over, ConfPc, OnGuest
  <1>3. \A j \in Confs : spc'[j] \notin OnGuest
    BY <1>1, <1>2 DEF Moves, Over, OnGuest
  <1>4. TurnInv'
    BY <1>1, <1>2 DEF TurnInv, SettingsTypes, Moves
  <1>5. ReadIsTrue' /\ \A j \in Confs : Configures(j)'
    BY <1>3 DEF ReadIsTrue, Configures, OnGuest
  <1>6. Applied'
    BY <1>1 DEF Applied, S!Quiet, Moves
  <1>7. SettingsInv => Marked'
    BY <1>1, <1>2 DEF SettingsInv, Marked, Blanked, Over
  <1>8. SettingsInv => (sedits' = 0 => settings'.by = "agent" \/ settings'.attr = "absent")
    BY DEF SettingsInv
  <1> QED BY <1>4, <1>5, <1>6, <1>7, <1>8 DEF SettingsKeep, SettingsInv

LEMMA BeginKeeps ==
    ASSUME InTurn, TurnInv, NEW k \in Confs,
           (\E i \in S!Identities : S!SetGitIdentity(k, i)) \/ S!SetAttribution(k) \/ S!Connect(k)
    PROVE  SettingsKeep
  <1>1. spc[k] = "idle" /\ S!MayCall /\ (S!Go(k, "list") \/ S!Go(k, "load")) /\ UNCHANGED <<sgot, last, gitconfig, settings, sseen, marker, sedits>>
    BY DEF S!SetGitIdentity, S!SetAttribution, S!Connect, S!guestvars, S!rows
  <1>2. ident' \in SomeIdentity /\ attribution' \in BOOLEAN /\ schan' \in BOOLEAN
    BY Zenon DEF SomeIdentity, S!SetGitIdentity, S!SetAttribution, S!Connect, S!rows, TurnInv, SettingsTypes
  <1> QED BY <1>1, <1>2, CallBegins

\* A call moves on, or ends, and only it knows: nothing is written.
LEMMA CallGoesOn ==
    ASSUME InTurn, TurnInv, NEW k \in Confs, NEW to \in ConfPc \ {"idle"}, ~Over(k), Moves(k, to), SettingsTypes',
           sgot' \in [Confs -> [ident : SomeIdentity, attribution : BOOLEAN]],
           UNCHANGED <<ident, attribution, gitconfig, settings, marker, sedits>>,
           ReadIsTrue => (to \in {"blank", "clear"} => sseen'[k] = settings) /\ (to \in {"clear", "unmark"} => marker),
           \A j \in Confs \ {k} : sseen'[j] = sseen[j] /\ sgot'[j] = sgot[j],
           Completed /\ SettingsInv => Configures(k)' /\ spc[k] # "mark",
           Completed /\ SettingsInv /\ to \in {"done", "failed"} => Applied'
    PROVE  SettingsKeep
  <1>1. OneConf' /\ (\A j \in Confs : j # k => Over(j) /\ spc'[j] = spc[j])
    BY Singly DEF Over
  <1>2. ReadIsTrue => ReadIsTrue'
    BY <1>1 DEF ReadIsTrue, Over, Moves
  <1>3. \A j \in Confs \ {k} : Configures(j)'
    BY <1>1 DEF Configures, Over, OnGuest
  <1>4. to \notin {"done", "failed"} => Applied'
    BY DEF Applied, S!Quiet, Moves
  <1>6. Completed /\ SettingsInv => Marked'
    BY <1>1 DEF SettingsInv, Marked, Blanked, Over, Moves
  <1> QED BY <1>1, <1>2, <1>3, <1>4, <1>6 DEF SettingsKeep, SettingsInv, TurnInv

LEMMA DeleteKeeps == ASSUME InTurn, TurnInv, NEW k \in Confs, S!DeleteGitIdentity(k) PROVE SettingsKeep
  <1>1. spc[k] = "idle" /\ S!MayCall /\ ident' = 0 /\ UNCHANGED <<attribution, schan, sgot, last, gitconfig, settings, sseen, marker, sedits>>
        /\ S!Go(k, IF ident = 0 THEN "done" ELSE "list")
    BY DEF S!DeleteGitIdentity, S!guestvars, S!GitHubDefault
  <1>2. ident' \in SomeIdentity /\ attribution' \in BOOLEAN /\ schan' \in BOOLEAN
    BY <1>1 DEF SomeIdentity, S!GitHubDefault, TurnInv, SettingsTypes
  <1>3. CASE ident # 0
    BY <1>1, <1>2, <1>3, CallBegins
  <1>4. CASE ident = 0
    <2>1. Moves(k, "done")
      BY <1>1, <1>4, ConfMoves DEF TurnInv, ConfPc
    <2>2. OneConf' /\ (\A j \in Confs : j # k => Over(j) /\ spc'[j] = spc[j])
      BY <1>1, <2>1, Singly DEF Over, ConfPc
    <2>3. \A j \in Confs : spc'[j] \notin OnGuest
      BY <2>1, <2>2 DEF Moves, Over, OnGuest
    <2>4. TurnInv'
      BY <1>1, <1>2, <2>1, <2>2 DEF TurnInv, SettingsTypes, Moves
    <2>5. ReadIsTrue' /\ \A j \in Confs : Configures(j)'
      BY <2>3 DEF ReadIsTrue, Configures, OnGuest
    <2>6. S!Quiet
      BY <1>1, <2>2 DEF S!Quiet, Over
    <2>7. SettingsInv => Applied' /\ Marked'
      BY <1>1, <1>4, <2>1, <2>2, <2>6 DEF SettingsInv, Applied, Marked, Blanked, Over, Moves
    <2>8. SettingsInv => (sedits' = 0 => settings'.by = "agent" \/ settings'.attr = "absent")
      BY <1>1 DEF SettingsInv
    <2> QED BY <2>4, <2>5, <2>7, <2>8 DEF SettingsKeep, SettingsInv
  <1> QED BY <1>3, <1>4

LEMMA ReconfigureKeeps == ASSUME InTurn, TurnInv, NEW k \in Confs, S!ReconfigureUser(k) PROVE SettingsKeep
  <1>1. spc[k] = "list" /\ UNCHANGED <<ident, attribution, schan, sgot, gitconfig, settings, sseen, marker, sedits>>
    BY DEF S!ReconfigureUser, S!guestvars, S!rows
  <1>2. PICK to \in {"load", "done"} : Moves(k, to) /\ (to = "done" => ~schan)
    BY ConfMoves, ConfEnds DEF S!ReconfigureUser, TurnInv, ConfPc
  <1>3. to \in ConfPc \ {"idle"}
    BY DEF ConfPc, OnGuest
  <1>4. SettingsTypes' /\ sgot' \in [Confs -> [ident : SomeIdentity, attribution : BOOLEAN]]
    BY <1>1, <1>2 DEF TurnInv, SettingsTypes, Moves
  <1>5. Configures(k)'
    BY <1>1, <1>2 DEF Configures, Moves, OnGuest
  <1> QED BY <1>1, <1>2, <1>3, <1>4, <1>5, CallGoesOn DEF Over, Applied

LEMMA LoadKeeps == ASSUME InTurn, TurnInv, NEW k \in Confs, S!Load(k) PROVE SettingsKeep
  <1>1. PICK i \in S!GetGitIdentity : sgot' = [sgot EXCEPT ![k] = [ident |-> i, attribution |-> attribution]]
    BY Zenon DEF S!Load
  <1>2. spc[k] = "load" /\ UNCHANGED <<ident, attribution, schan, last, gitconfig, settings, sseen, marker, sedits>> /\ S!Go(k, "git")
    BY DEF S!Load, S!guestvars, S!rows
  <1>3. Moves(k, "git") /\ "git" \in ConfPc \ {"idle"}
    BY <1>2, ConfMoves DEF TurnInv, ConfPc, OnGuest
  <1>4. [ident |-> i, attribution |-> attribution] \in [ident : SomeIdentity, attribution : BOOLEAN]
    <2>1. i \in SomeIdentity /\ attribution \in BOOLEAN
      BY DEF S!GetGitIdentity, TurnInv, SettingsTypes, SomeIdentity
    <2> QED BY <2>1
  <1>5. sgot' \in [Confs -> [ident : SomeIdentity, attribution : BOOLEAN]]
    BY <1>1, <1>2, <1>4 DEF TurnInv, SettingsTypes
  <1>6. sgot'[k] = [ident |-> i, attribution |-> attribution] /\ \A j \in Confs \ {k} : sgot'[j] = sgot[j]
    BY <1>1 DEF TurnInv, SettingsTypes
  <1>7. SettingsTypes'
    BY <1>2, <1>3, <1>5 DEF TurnInv, SettingsTypes, Moves
  <1>8. Completed => i = ident
    BY DEF S!GetGitIdentity, Completed
  <1>9. Completed => Configures(k)'
    BY <1>2, <1>3, <1>6, <1>8 DEF Configures, Moves, OnGuest
  <1> QED BY <1>2, <1>3, <1>5, <1>6, <1>7, <1>9, CallGoesOn DEF Over

LEMMA RequestFailsKeeps == ASSUME InTurn, TurnInv, NEW k \in Confs, S!RequestFails(k) PROVE SettingsKeep
  <1>1. spc[k] \in {"git", "claude"} /\ UNCHANGED <<ident, attribution, schan, sgot, gitconfig, settings, sseen, marker, sedits>> /\ S!End(k, "failed")
    BY DEF S!RequestFails, S!guestvars, S!rows
  <1>2. Moves(k, "failed") /\ last' = "failed" /\ "failed" \in ConfPc \ {"idle"}
    BY <1>1, ConfEnds DEF TurnInv, ConfPc, OnGuest
  <1>3. SettingsTypes' /\ sgot' \in [Confs -> [ident : SomeIdentity, attribution : BOOLEAN]]
    BY <1>1, <1>2 DEF TurnInv, SettingsTypes, Moves
  <1>4. Configures(k)'
    BY <1>1, <1>2 DEF Configures, Moves, OnGuest
  <1> QED BY <1>1, <1>2, <1>3, <1>4, CallGoesOn DEF Over, Applied

\* The channel drops, or comes back for a call.
LEMMA DropKeeps == ASSUME TurnInv, S!Drop PROVE SettingsKeep
  <1>1. schan' = FALSE /\ UNCHANGED <<ident, attribution, spc, sgot, last, gitconfig, settings, sseen, marker, sedits>>
    BY DEF S!Drop, S!guestvars, S!rows
  <1>2. TurnInv' /\ (ReadIsTrue => ReadIsTrue')
    BY <1>1, Zenon DEF TurnInv, SettingsTypes, OneConf, Over, ReadIsTrue
  <1>3. SettingsInv => (\A k \in Confs : Configures(k)') /\ Marked' /\ Applied' /\ (sedits' = 0 => settings'.by = "agent" \/ settings'.attr = "absent")
    BY <1>1 DEF SettingsInv, Configures, Marked, Applied, Blanked
  <1> QED BY <1>2, <1>3 DEF SettingsKeep, SettingsInv

LEMMA CrashKeeps == ASSUME InTurn, TurnInv, S!Crash PROVE SettingsKeep
  <1>1. /\ schan' = FALSE /\ UNCHANGED <<ident, attribution, sgot, gitconfig, settings, sseen, marker, sedits>>
        /\ spc' = [k \in Confs |-> IF spc[k] \in OnGuest THEN "failed" ELSE spc[k]]
        /\ Completed => \A k \in Confs : spc[k] # "mark"
    BY DEF S!Crash, S!guestvars, S!rows, OnGuest, Completed
  <1>2. \A k \in Confs : spc'[k] = IF spc[k] \in OnGuest THEN "failed" ELSE spc[k]
    BY <1>1
  <1>3. spc' \in [Confs -> ConfPc]
    BY <1>1 DEF TurnInv, SettingsTypes, ConfPc
  <1>4. TurnInv'
    BY <1>1, <1>2, <1>3, Zenon DEF TurnInv, SettingsTypes, OneConf, Over, OnGuest
  <1>5. ReadIsTrue' /\ \A k \in Confs : Configures(k)'
    BY <1>2 DEF ReadIsTrue, Configures, OnGuest
  <1>6. Completed /\ SettingsInv => Marked' /\ Applied'
    BY <1>1, <1>2 DEF SettingsInv, Marked, Applied, Blanked, OnGuest
  <1>7. SettingsInv => (sedits' = 0 => settings'.by = "agent" \/ settings'.attr = "absent")
    BY <1>1 DEF SettingsInv
  <1> QED BY <1>4, <1>5, <1>6, <1>7 DEF SettingsKeep, SettingsInv

LEMMA GitConfigKeeps == ASSUME InTurn, TurnInv, NEW k \in Confs, S!writeGitConfig(k) PROVE SettingsKeep
  <1>1. spc[k] = "git" /\ gitconfig' = sgot[k].ident /\ UNCHANGED <<ident, attribution, schan, sgot, last, settings, sseen, marker, sedits>> /\ S!Go(k, "claude")
    BY DEF S!writeGitConfig, S!rows
  <1>2. Moves(k, "claude")
    BY <1>1, ConfMoves DEF TurnInv, ConfPc, OnGuest
  <1>3. OneConf' /\ (\A j \in Confs : j # k => Over(j) /\ spc'[j] = spc[j])
    BY <1>1, <1>2, Singly DEF Over, ConfPc, OnGuest
  <1>4. TurnInv'
    BY <1>1, <1>2, <1>3 DEF TurnInv, SettingsTypes, Moves
  <1>5. ReadIsTrue => ReadIsTrue'
    BY <1>1, <1>2, <1>3 DEF ReadIsTrue, Moves, Over
  <1>6. SettingsInv => \A j \in Confs : Configures(j)'
    BY <1>1, <1>2, <1>3 DEF SettingsInv, Configures, Moves, Over, OnGuest
  <1>7. Applied' /\ (SettingsInv => Marked')
    BY <1>1, <1>2, <1>3 DEF SettingsInv, Applied, S!Quiet, Moves, Marked, Blanked, Over
  <1>8. SettingsInv => (sedits' = 0 => settings'.by = "agent" \/ settings'.attr = "absent")
    BY <1>1 DEF SettingsInv
  <1> QED BY <1>4, <1>5, <1>6, <1>7, <1>8 DEF SettingsKeep, SettingsInv

\* The settings are read, or do not parse.
LEMMA SettingsRead ==
    ASSUME InTurn, TurnInv, NEW k \in Confs, NEW to \in {"blank", "clear"}, spc[k] = "claude", S!readClaudeSettings(k, to),
           to = "blank" <=> ~sgot[k].attribution, to = "clear" => marker,
           UNCHANGED <<ident, attribution, schan, sgot, gitconfig, settings, marker, sedits>>
    PROVE  SettingsKeep
  <1>1. CASE settings.valid
    <2>1. sseen' = [sseen EXCEPT ![k] = settings] /\ S!Go(k, to) /\ UNCHANGED last
      BY <1>1 DEF S!readClaudeSettings
    <2>2. Moves(k, to) /\ to \in ConfPc \ {"idle"}
      BY <2>1, ConfMoves DEF TurnInv, ConfPc, OnGuest
    <2>3. SettingsTypes' /\ sseen'[k] = settings /\ \A j \in Confs \ {k} : sseen'[j] = sseen[j]
      BY <2>1, <2>2, Zenon DEF TurnInv, SettingsTypes, Moves
    <2>4. SettingsInv => Configures(k)'
      <3> SUFFICES ASSUME SettingsInv PROVE Configures(k)'
        OBVIOUS
      <3>1. gitconfig = ident /\ sgot[k].ident = ident /\ sgot[k].attribution = attribution
        BY DEF SettingsInv, Configures, OnGuest
      <3>2. sedits = 0 => sseen'[k].by = "agent" \/ sseen'[k].attr = "absent"
        BY <2>3 DEF SettingsInv
      <3> QED BY <2>2, <3>1, <3>2 DEF Configures, Moves, OnGuest
    <2>5. sgot' \in [Confs -> [ident : SomeIdentity, attribution : BOOLEAN]]
      BY DEF TurnInv, SettingsTypes
    <2> QED BY <2>2, <2>3, <2>4, <2>5, CallGoesOn DEF Over
  <1>2. CASE ~settings.valid
    <2>1. S!End(k, "failed") /\ UNCHANGED sseen
      BY <1>2 DEF S!readClaudeSettings
    <2>2. Moves(k, "failed") /\ last' = "failed" /\ "failed" \in ConfPc \ {"idle"}
      BY <2>1, ConfEnds DEF TurnInv, ConfPc
    <2>3. SettingsTypes' /\ sgot' \in [Confs -> [ident : SomeIdentity, attribution : BOOLEAN]]
      BY <2>1, <2>2 DEF TurnInv, SettingsTypes, Moves
    <2>4. Configures(k)'
      BY <2>2 DEF Configures, Moves, OnGuest
    <2> QED BY <2>1, <2>2, <2>3, <2>4, CallGoesOn DEF Over, Applied
  <1> QED BY <1>1, <1>2

LEMMA SuppressKeeps == ASSUME InTurn, TurnInv, NEW k \in Confs, S!suppressClaudeAttribution(k) PROVE SettingsKeep
  BY SettingsRead DEF S!suppressClaudeAttribution, S!rows

\* Without a marker there is nothing the agent blanked.
LEMMA RestoreKeeps == ASSUME InTurn, TurnInv, NEW k \in Confs, S!restoreClaudeAttribution(k) PROVE SettingsKeep
  <1>1. spc[k] = "claude" /\ sgot[k].attribution /\ UNCHANGED <<ident, attribution, schan, sgot, gitconfig, settings, marker, sedits>>
    BY DEF S!restoreClaudeAttribution, S!rows
  <1>2. CASE marker
    BY <1>1, <1>2, SettingsRead DEF S!restoreClaudeAttribution
  <1>3. CASE ~marker
    <2>1. S!End(k, "done") /\ UNCHANGED sseen
      BY <1>3 DEF S!restoreClaudeAttribution
    <2>2. Moves(k, "done") /\ last' = "done" /\ "done" \in ConfPc \ {"idle"}
      BY <2>1, ConfEnds DEF TurnInv, ConfPc
    <2>3. SettingsTypes' /\ sgot' \in [Confs -> [ident : SomeIdentity, attribution : BOOLEAN]]
      BY <1>1, <2>1, <2>2 DEF TurnInv, SettingsTypes, Moves
    <2>4. Configures(k)'
      BY <2>2 DEF Configures, Moves, OnGuest
    <2>5. \A j \in Confs : spc[j] # "mark"
      BY <1>1 DEF TurnInv, OneConf, Over
    <2>6. SettingsInv => Applied'
      <3> SUFFICES ASSUME SettingsInv PROVE Applied'
        OBVIOUS
      <3>1. ~Blanked /\ gitconfig = ident /\ attribution
        BY <1>1, <1>3, <2>5 DEF SettingsInv, Marked, Configures, OnGuest
      <3> QED BY <1>1, <3>1 DEF Applied, Blanked, SettingsInv
    <2> QED BY <1>1, <2>1, <2>2, <2>3, <2>4, <2>6, CallGoesOn DEF Over
  <1> QED BY <1>2, <1>3

\* What was read is written back, with the keys blank or, where they are blank,
\* without them.
LEMMA WriteKeeps == ASSUME InTurn, TurnInv, NEW k \in Confs, S!writeClaudeSettings(k) PROVE SettingsKeep
  <1>1. UNCHANGED <<ident, attribution, schan, sgot, last, gitconfig, sseen, marker, sedits>>
    BY DEF S!writeClaudeSettings, S!rows
  <1>2. PICK to \in {"mark", "unmark"} :
            /\ S!Go(k, to)
            /\ to = "mark" => spc[k] = "blank" /\ settings' = S!BlankKeys(sseen[k])
            /\ to = "unmark" => spc[k] = "clear" /\ settings' = S!DropBlankKeys(sseen[k])
    BY DEF S!writeClaudeSettings
  <1>3. Moves(k, to) /\ spc[k] \in {"blank", "clear"}
    BY <1>2, ConfMoves DEF TurnInv, ConfPc, OnGuest
  <1>4. OneConf' /\ (\A j \in Confs : j # k => Over(j) /\ spc'[j] = spc[j])
    BY <1>3, Singly DEF Over, ConfPc, OnGuest
  <1>5. settings' \in S!Settings /\ (to = "mark" => settings'.attr = "blank" /\ settings'.by = "agent") /\ (to = "unmark" => settings'.attr # "blank")
    BY <1>2, WrittenSettings DEF TurnInv, SettingsTypes
  <1>6. TurnInv'
    BY <1>1, <1>3, <1>4, <1>5 DEF TurnInv, SettingsTypes, Moves
  <1>7. ReadIsTrue => ReadIsTrue'
    BY <1>1, <1>2, <1>3, <1>4 DEF ReadIsTrue, Moves, Over
  <1>8. SettingsInv => \A j \in Confs : Configures(j)'
    BY <1>1, <1>2, <1>3, <1>4, <1>5 DEF SettingsInv, Configures, Moves, Over, OnGuest, Blanked
  <1>9. Applied' /\ Marked'
    BY <1>3, <1>5 DEF Applied, S!Quiet, Moves, Marked, Blanked
  <1>10. SettingsInv => (sedits' = 0 => settings'.by = "agent" \/ settings'.attr = "absent")
    <2>1. CASE to = "mark"
      BY <1>5, <2>1
    <2>2. CASE to = "unmark"
      <3>1. settings' = S!DropBlankKeys(sseen[k]) /\ sseen[k] \in S!Settings /\ spc[k] = "clear"
        BY <1>2, <2>2 DEF TurnInv, SettingsTypes
      <3>2. settings'.attr = "absent" \/ settings' = sseen[k]
        BY <3>1, WrittenSettings
      <3>3. SettingsInv /\ sedits = 0 => sseen[k].by = "agent" \/ sseen[k].attr = "absent"
        BY <3>1 DEF SettingsInv, Configures
      <3> QED BY <1>1, <3>2, <3>3
    <2> QED BY <2>1, <2>2
  <1> QED BY <1>6, <1>7, <1>8, <1>9, <1>10 DEF SettingsKeep, SettingsInv

\* The marker is set or removed, and the call is over.
LEMMA MarkerKeeps == ASSUME InTurn, TurnInv, NEW k \in Confs, S!writeAttributionMarker(k) \/ S!RemoveMarker(k) PROVE SettingsKeep
  <1>1. UNCHANGED <<ident, attribution, schan, sgot, gitconfig, settings, sseen, sedits>> /\ S!End(k, "done")
    BY DEF S!writeAttributionMarker, S!RemoveMarker, S!rows
  <1>2. spc[k] \in {"mark", "unmark"} /\ marker' = (spc[k] = "mark")
    BY Zenon DEF S!writeAttributionMarker, S!RemoveMarker
  <1>3. Moves(k, "done") /\ last' = "done"
    BY <1>1, ConfEnds DEF TurnInv
  <1>4. OneConf' /\ (\A j \in Confs : j # k => Over(j) /\ spc'[j] = spc[j])
    BY <1>2, <1>3, Singly DEF Over, ConfPc
  <1>5. \A j \in Confs : spc'[j] \notin OnGuest
    BY <1>3, <1>4 DEF Moves, Over, OnGuest
  <1>6. TurnInv'
    BY <1>1, <1>2, <1>3, <1>4 DEF TurnInv, SettingsTypes, Moves
  <1>7. ReadIsTrue' /\ \A j \in Confs : Configures(j)'
    BY <1>5 DEF ReadIsTrue, Configures, OnGuest
  <1>8. SettingsInv => Applied' /\ Marked' /\ (sedits' = 0 => settings'.by = "agent" \/ settings'.attr = "absent")
    <2> SUFFICES ASSUME SettingsInv PROVE Applied' /\ Marked' /\ (sedits' = 0 => settings'.by = "agent" \/ settings'.attr = "absent")
      OBVIOUS
    <2>1. Configures(k)
      BY DEF SettingsInv
    <2>2. Marked'
      BY <1>1, <1>2, <2>1, Zenon DEF Marked, Blanked, Configures
    <2>3. gitconfig = ident /\ (attribution <=> spc[k] = "unmark")
      BY <1>2, <2>1 DEF Configures, OnGuest
    <2>4. Applied'
      BY <1>1, <1>2, <2>1, <2>3 DEF Applied, Configures, Blanked, SettingsInv
    <2> QED BY <1>1, <2>2, <2>4 DEF SettingsInv
  <1> QED BY <1>6, <1>7, <1>8 DEF SettingsKeep, SettingsInv

LEMMA UserEditsKeeps == ASSUME InTurn, TurnInv, S!UserEdits PROVE SettingsKeep
  <1>1. /\ UNCHANGED <<ident, attribution, schan, spc, sgot, last, gitconfig, sseen, marker>>
        /\ sedits' = sedits + 1 /\ (HandsOff => S!Quiet)
    BY DEF S!UserEdits, S!rows, HandsOff
  <1>2. settings' \in S!Settings /\ sedits' \in Nat /\ sedits' # 0
        /\ \/ settings'.by = "user"
           \/ settings'.by = settings.by /\ settings'.attr = settings.attr
    <2>1. settings \in S!Settings /\ sedits \in Nat /\ sedits < MaxEdits /\ sedits' \in Nat /\ sedits' # 0
      BY <1>1 DEF S!UserEdits, TurnInv, SettingsTypes
    <2>2. CASE settings' \in {[settings EXCEPT !.attr = "blank", !.by = "user"], [settings EXCEPT !.attr = "text", !.by = "user"]}
      BY <2>1, <2>2, Zenon DEF S!Settings
    <2>3. CASE settings' = [settings EXCEPT !.other = sedits']
      BY <2>1, <2>3 DEF S!Settings
    <2>4. CASE settings' = [settings EXCEPT !.valid = ~@]
      BY <2>1, <2>4, Zenon DEF S!Settings
    <2> QED BY <2>1, <2>2, <2>3, <2>4 DEF S!UserEdits
  <1>3. TurnInv'
    BY <1>1, <1>2 DEF TurnInv, SettingsTypes, OneConf, Over
  <1>4. HandsOff => ReadIsTrue'
    BY <1>1 DEF ReadIsTrue, S!Quiet
  <1>5. SettingsInv => Applied' /\ Marked'
    BY <1>1, <1>2 DEF SettingsInv, Applied, Marked, Blanked, S!Quiet
  <1>6. SettingsInv => \A k \in Confs : Configures(k)'
    BY <1>1, <1>2 DEF SettingsInv, Configures, Blanked
  <1> QED BY <1>2, <1>3, <1>4, <1>5, <1>6 DEF SettingsKeep, SettingsInv

LEMMA SettingsNext == ASSUME InTurn, TurnInv, S!Next \/ UNCHANGED settingsVars PROVE SettingsKeep
  <1>1. ASSUME UNCHANGED settingsVars PROVE SettingsKeep
    <2>1. TurnInv' /\ (ReadIsTrue => ReadIsTrue')
      BY <1>1 DEF settingsVars, TurnInv, SettingsTypes, OneConf, Over, ReadIsTrue
    <2>2. SettingsInv => (\A k \in Confs : Configures(k)') /\ Marked' /\ Applied' /\ (sedits' = 0 => settings'.by = "agent" \/ settings'.attr = "absent")
      BY <1>1 DEF settingsVars, SettingsInv, Configures, Marked, Applied, Blanked, S!Quiet
    <2> QED BY <2>1, <2>2 DEF SettingsKeep, SettingsInv
  <1> QED BY <1>1, BeginKeeps, DeleteKeeps, ReconfigureKeeps, LoadKeeps, RequestFailsKeeps, DropKeeps, CrashKeeps, GitConfigKeeps, SuppressKeeps,
             RestoreKeeps, WriteKeeps, MarkerKeeps, UserEditsKeeps DEF S!Next, S!Configure

LEMMA SettingsHold == SettingsInv => S!IdentityApplied /\ S!AttributionApplied /\ S!OursAreMarked
  BY DEF SettingsInv, Applied, Marked, Blanked, S!IdentityApplied, S!AttributionApplied, S!OursAreMarked, S!Quiet

\* Only the agent's own blanks go, and nothing else of the file.
LEMMA SettingsKept ==
    ASSUME InTurn, TurnInv, ReadIsTrue, S!Next
    PROVE  /\ sedits' = sedits =>
                /\ settings'.other = settings.other /\ settings'.valid = settings.valid
                /\ ~marker /\ attribution /\ settings' # settings => \E k \in Confs : spc[k] = "blank"
           /\ settings.attr = "text" /\ settings'.attr = "absent" => sedits' # sedits
  <1>1. ASSUME NEW k \in Confs, S!writeClaudeSettings(k)
        PROVE  /\ settings'.other = settings.other /\ settings'.valid = settings.valid
               /\ spc[k] = "blank" \/ marker
               /\ settings.attr = "text" => settings'.attr # "absent"
    <2>1. \/ spc[k] = "blank" /\ settings' = S!BlankKeys(settings)
          \/ spc[k] = "clear" /\ settings' = S!DropBlankKeys(settings) /\ marker
      BY <1>1 DEF S!writeClaudeSettings, ReadIsTrue
    <2> QED BY <2>1, WrittenSettings DEF TurnInv, SettingsTypes
  <1>2. S!UserEdits => sedits' # sedits
    BY DEF S!UserEdits, TurnInv, SettingsTypes
  <1>3. S!UserEdits \/ UNCHANGED settings \/ \E k \in Confs : S!writeClaudeSettings(k)
    BY DEF S!Next, S!Configure, S!SetGitIdentity, S!DeleteGitIdentity, S!SetAttribution, S!Connect, S!ReconfigureUser, S!Load, S!RequestFails,
           S!writeGitConfig, S!suppressClaudeAttribution, S!restoreClaudeAttribution, S!writeAttributionMarker, S!RemoveMarker, S!Drop, S!Crash, S!guestvars
  <1> QED BY <1>1, <1>2, <1>3

(***************************************************************************)
(* Pull requests (PullRequests), for every length of the listings, every   *)
(* size of a page and any number of requests at once.  A request is where  *)
(* its operation takes it (Asked), and a listing that goes on has all of   *)
(* its pages so far if they are of one head (Reading).                     *)
(***************************************************************************)
Listed == Items \in [1..MaxHead -> Nat] /\ PageSize \in Nat \ {0} /\ MaxHead \in Nat \ {0}
NoSuchRequest == "none" \notin Reqs

PullPc == {"idle", "call", "gitea", "refresh", "again", "runs", "done"} \cup P!Reviews

PullAnswers ==
    {"none", "opened", "pr_exists", "no_commits", "unsupported_host", "no_remote", "bad_remote", "githost_token_required", "githost_token_invalid",
     "githost_unavailable", "github_unavailable", "reconnect_github", "no_pr", "ok", "not_mergeable", "head_changed", "merge_forbidden"}

PullTypes ==
    /\ ppc \in [Reqs -> PullPc] /\ pop \in [Reqs -> {"none", "open"} \cup P!Reviews] /\ ans \in [Reqs -> PullAnswers]
    /\ page \in [Reqs -> Nat \ {0}] /\ head \in [Reqs -> Nat] /\ got \in [Reqs -> SUBSET (Nat \X Nat)]
    /\ pr \in [state : {"open", "merged"}, head : 1..MaxHead, merged : Nat, by : Reqs \cup {"none"}]

\* The items up to the n-th of commit c.
UpTo(c, n) == {<<c, i>> : i \in {j \in 1..Items[c] : j <= n}}

ReadSoFar(h) ==
    /\ head[h] \in 1..MaxHead
    /\ got[h] = UpTo(head[h], (page[h] - 1) * PageSize) /\ (page[h] - 1) * PageSize <= Items[head[h]]

Reading(h) ==
    /\ pop[h] \notin {"files", "checks"} \/ ppc[h] = "checks" => page[h] = 1 /\ got[h] = {}
    /\ ppc[h] = "files" =>
         \/ page[h] = 1 /\ got[h] = {}
         \/ (\E x \in got[h] : x[1] = head[h]) /\ ((\A x \in got[h] : x[1] = head[h]) => ReadSoFar(h))
    /\ ppc[h] = "runs" => ReadSoFar(h)

Asked(h) ==
    /\ ppc[h] = "idle" <=> pop[h] = "none"
    /\ ppc[h] # "done" => ans[h] = "none"
    /\ ppc[h] \in P!Reviews => pop[h] = ppc[h]
    /\ ppc[h] = "runs" => pop[h] = "checks"
    /\ ppc[h] \in {"call", "refresh", "again"} => pop[h] = "open" /\ remote = "github"
    /\ ppc[h] = "gitea" => pop[h] = "open" /\ remote = "gitea"

MergedBy ==
    /\ pr.state = "open" => pr.by = "none"
    /\ \A h \in Reqs : pr.by = h => pop[h] = "merge" /\ ppc[h] = "done"

Whole(h) ==
    ans[h] = "ok" /\ pop[h] \in {"files", "checks"} /\ (\A x \in got[h] : x[1] = head[h]) =>
        Cardinality(got[h]) = Items[head[h]]

MergeTold(h) ==
    pop[h] = "merge" /\ ppc[h] = "done" =>
        /\ ans[h] = "ok" => pr.by = h
        /\ ans[h] \notin {"ok", "github_unavailable"} => pr.by # h

Served(h) == Asked(h) /\ Reading(h) /\ Whole(h) /\ MergeTold(h)

PullInv == PullTypes /\ MergedBy /\ P!RightProvider /\ \A h \in Reqs : Served(h)

\* Pairs with the numbers of an interval are as many as those.
LEMMA PairsCount ==
    ASSUME NEW c, NEW a \in Int, NEW b \in Int
    PROVE  /\ IsFiniteSet({<<c, i>> : i \in a..b})
           /\ Cardinality({<<c, i>> : i \in a..b}) = IF a > b THEN 0 ELSE b - a + 1
  <1> DEFINE T == {<<c, i>> : i \in a..b}  f == [i \in a..b |-> <<c, i>>]
  <1>1. f \in Bijection(a..b, T)
    <2>1. f \in [a..b -> T] /\ (\A i, j \in a..b : f[i] = f[j] => i = j) /\ (\A x \in T : \E i \in a..b : f[i] = x)
      OBVIOUS
    <2> QED BY <2>1, Zenon DEF Bijection, Injection, Surjection, IsInjective
  <1>2. ExistsBijection(a..b, T)
    BY <1>1 DEF ExistsBijection
  <1> QED BY <1>2, FS_Interval, FS_Bijection

\* What the first pages of a listing hold, and the next one.
LEMMA NextPage ==
    ASSUME Listed, NEW c \in 1..MaxHead, NEW p \in Nat \ {0}
    PROVE  LET q == (p - 1) * PageSize  runs == P!PageOf(c, p)  read == UpTo(c, q) \cup runs IN
           /\ q \in Nat /\ (p + 1 - 1) * PageSize = q + PageSize
           /\ UpTo(c, 0) = {} /\ runs \subseteq {c} \X Nat
           /\ Cardinality(runs) \in Nat /\ (Cardinality(runs) >= PageSize => runs # {})
           /\ q <= Items[c] =>
                /\ read = UpTo(c, q + PageSize)
                /\ Cardinality(runs) < PageSize \/ Cardinality(read) >= Items[c] => Cardinality(read) = Items[c]
                /\ ~(Cardinality(runs) < PageSize) => q + PageSize <= Items[c]
  <1> DEFINE q == (p - 1) * PageSize  n == Items[c]  runs == P!PageOf(c, p)  read == UpTo(c, q) \cup runs
  <1>1. q \in Nat /\ n \in Nat /\ PageSize \in Nat \ {0} /\ p * PageSize = q + PageSize /\ (p + 1 - 1) * PageSize = q + PageSize
    <2>1. p - 1 \in Nat /\ PageSize \in Nat /\ p \in Nat /\ n \in Nat /\ PageSize # 0
      BY DEF Listed
    <2>2. \A i, j \in Nat : i * j \in Nat
      OBVIOUS
    <2>3. p * PageSize = (p - 1) * PageSize + PageSize
      BY <2>1
    <2> QED BY <2>1, <2>2, <2>3
  <1> DEFINE end == IF q + PageSize <= n THEN q + PageSize ELSE n
  <1>2. {j \in 1..n : q < j /\ j <= q + PageSize} = (q + 1)..end
    BY <1>1
  <1>3. runs = {<<c, i>> : i \in (q + 1)..end}
    BY <1>1, <1>2 DEF P!PageOf
  <1>4. end \in Int /\ q + 1 \in Int
    BY <1>1
  <1> HIDE DEF q, end, n
  <1>5. IsFiniteSet(runs) /\ Cardinality(runs) = IF q + 1 > end THEN 0 ELSE end - (q + 1) + 1
    <2>1. \A i, j \in Int : IsFiniteSet({<<c, k>> : k \in i..j}) /\ Cardinality({<<c, k>> : k \in i..j}) = IF i > j THEN 0 ELSE j - i + 1
      BY PairsCount, Zenon
    <2> QED BY <1>3, <1>4, <2>1, Zenon
  <1>6. UpTo(c, 0) = {} /\ runs \subseteq {c} \X Nat
    BY <1>1, <1>3 DEF UpTo
  <1>7. Cardinality(runs) \in Nat /\ (Cardinality(runs) >= PageSize => runs # {})
    BY <1>1, <1>4, <1>5, FS_EmptySet
  <1>8. ASSUME q <= n
        PROVE  /\ read = UpTo(c, q + PageSize)
               /\ Cardinality(runs) < PageSize \/ Cardinality(read) >= n => Cardinality(read) = n
               /\ ~(Cardinality(runs) < PageSize) => q + PageSize <= n
    <2>1. {j \in 1..n : j <= q + PageSize} = 1..end /\ {j \in 1..n : j <= q} = 1..q /\ end \in Nat /\ q <= end
      BY <1>1, <1>8 DEF end
    <2>2. UpTo(c, q) = {<<c, i>> : i \in 1..q} /\ UpTo(c, q + PageSize) = {<<c, i>> : i \in 1..end}
      BY <2>1 DEF UpTo, n
    <2>3. read = {<<c, i>> : i \in 1..end}
      <3>1. 1..end = (1..q) \cup ((q + 1)..end)
        BY <2>1, <1>1
      <3> QED BY <2>2, <3>1, <1>3
    <2>4. Cardinality(read) = end
      <3>1. Cardinality({<<c, i>> : i \in 1..end}) = IF 1 > end THEN 0 ELSE end - 1 + 1
        <4>1. 1 \in Int /\ end \in Int
          BY <1>4
        <4> QED BY <4>1, PairsCount, Zenon
      <3>2. (IF 1 > end THEN 0 ELSE end - 1 + 1) = end
        BY <2>1
      <3> QED BY <2>3, <3>1, <3>2, Zenon
    <2>5. Cardinality(runs) = end - q
      BY <1>1, <1>5, <2>1
    <2> HIDE DEF read, runs
    <2> QED BY <1>1, <2>1, <2>2, <2>3, <2>4, <2>5 DEF end
  <1> QED BY <1>1, <1>6, <1>7, <1>8 DEF q, n

\* The instance counts as this module does.
LEMMA PagesCounted == \A T : P!Cardinality(T) = Cardinality(T)
  BY DEF Cardinality, P!Cardinality

LEMMA PullsHold == PullInv => P!RightProvider /\ P!ListingsWhole /\ P!MergeAnswersTrue
  <1> SUFFICES ASSUME PullInv PROVE P!ListingsWhole /\ P!MergeAnswersTrue
    BY DEF PullInv
  <1>1. \A h \in Reqs : Whole(h) /\ MergeTold(h)
    BY DEF PullInv, Served
  <1>2. P!ListingsWhole
    BY <1>1, PagesCounted DEF Whole, P!ListingsWhole
  <1>3. P!MergeAnswersTrue
    BY <1>1 DEF MergeTold, P!MergeAnswersTrue
  <1> QED BY <1>2, <1>3

\* A step of one request leaves the others as they are.
LEMMA OneServed ==
    ASSUME PullInv, NEW h \in Reqs, PullTypes', MergedBy', P!RightProvider', Served(h)', UNCHANGED remote,
           \A g \in Reqs \ {h} : UNCHANGED <<ppc[g], pop[g], ans[g], page[g], head[g], got[g]>> /\ (pr'.by = g <=> pr.by = g)
    PROVE  PullInv'
  <1>1. ASSUME NEW g \in Reqs \ {h} PROVE Served(g)'
    <2>1. UNCHANGED <<remote, ppc[g], pop[g], ans[g], page[g], head[g], got[g]>> /\ (pr'.by = g <=> pr.by = g)
      OBVIOUS
    <2>2. Served(g)
      BY DEF PullInv
    <2>3. Asked(g)' /\ Whole(g)' /\ MergeTold(g)'
      BY <2>1, <2>2 DEF Served, Asked, Whole, MergeTold
    <2>4. Reading(g)'
      BY <2>1, <2>2 DEF Served, Reading, ReadSoFar
    <2> QED BY <2>3, <2>4 DEF Served
  <1> QED BY <1>1 DEF PullInv

\* A request is answered, or goes on, while the pull request stays as it is.
LEMMA Answers ==
    ASSUME PullInv, NEW h \in Reqs, NEW a \in PullAnswers, a # "ok", ppc[h] \notin {"idle", "done"}, P!Answer(h, a),
           UNCHANGED <<remote, pr, pop, head, page, got>>, P!RightProvider'
    PROVE  PullInv'
  <1>1. ppc' = [ppc EXCEPT ![h] = "done"] /\ ans' = [ans EXCEPT ![h] = a]
    BY DEF P!Answer
  <1>2. PullTypes'
    BY <1>1 DEF PullInv, PullTypes, PullPc
  <1>3. ppc'[h] = "done" /\ ans'[h] = a /\ \A g \in Reqs \ {h} : ppc'[g] = ppc[g] /\ ans'[g] = ans[g]
    BY <1>1 DEF PullInv, PullTypes
  <1>4. Asked(h) /\ Reading(h) /\ (\A g \in Reqs : pr.by = g => ppc[g] = "done")
    BY DEF PullInv, Served, MergedBy
  <1>5. MergedBy'
    BY <1>3 DEF PullInv, MergedBy
  <1>6. Served(h)'
    BY <1>3, <1>4 DEF Served, Asked, Reading, Whole, MergeTold, P!Reviews
  <1> QED BY <1>2, <1>3, <1>5, <1>6, OneServed

LEMMA GoesOn ==
    ASSUME PullInv, NEW h \in Reqs, NEW to \in {"call", "gitea", "refresh", "again", "runs"} \cup P!Reviews, ppc[h] # "done", P!Go(h, to),
           UNCHANGED <<remote, pr, page, got>>, P!RightProvider',
           PullTypes', \A g \in Reqs \ {h} : UNCHANGED <<pop[g], head[g]>>, Asked(h)', Reading(h)'
    PROVE  PullInv'
  <1>1. ppc' = [ppc EXCEPT ![h] = to] /\ ans' = ans
    BY DEF P!Go
  <1>2. ppc'[h] = to /\ \A g \in Reqs \ {h} : ppc'[g] = ppc[g]
    BY <1>1 DEF PullInv, PullTypes
  <1>3. to # "done" /\ ans'[h] = "none" /\ \A g \in Reqs : pr.by = g => ppc[g] = "done" /\ pop[g] = "merge"
    BY <1>1, <1>2 DEF PullInv, Served, Asked, MergedBy, P!Reviews
  <1>4. MergedBy'
    BY <1>2, <1>3 DEF PullInv, MergedBy
  <1>5. Served(h)'
    BY <1>2, <1>3 DEF Served, Whole, MergeTold
  <1> QED BY <1>1, <1>2, <1>4, <1>5, OneServed

LEMMA OpenKeeps == ASSUME PullInv, NEW h \in Reqs, P!OpenPR(h) PROVE PullInv'
  <1>1. UNCHANGED <<remote, pr, head, page, got, calls>> /\ ppc[h] = "idle" /\ pop' = [pop EXCEPT ![h] = "open"]
    BY DEF P!OpenPR, P!grantvars
  <1>2. Asked(h) /\ Reading(h) /\ P!RightProvider' /\ ans[h] = "none" /\ page[h] = 1 /\ got[h] = {}
    BY <1>1 DEF PullInv, Served, Asked, Reading, P!RightProvider
  <1>3. pop'[h] = "open" /\ (\A g \in Reqs \ {h} : pop'[g] = pop[g]) /\ pop' \in [Reqs -> {"none", "open"} \cup P!Reviews]
    BY <1>1 DEF PullInv, PullTypes
  <1>4. ASSUME NEW to \in {"call", "gitea"}, P!Go(h, to), to = "call" => remote = "github", to = "gitea" => remote = "gitea" PROVE PullInv'
    <2>1. ppc' = [ppc EXCEPT ![h] = to] /\ ans' = ans
      BY <1>4 DEF P!Go
    <2>2. PullTypes' /\ ppc'[h] = to
      BY <1>1, <1>3, <2>1 DEF PullInv, PullTypes, PullPc
    <2>3. Asked(h)' /\ Reading(h)'
      BY <1>1, <1>2, <1>3, <1>4, <2>1, <2>2 DEF Asked, Reading, P!Reviews
    <2> QED BY <1>1, <1>2, <1>3, <1>4, <2>2, <2>3, GoesOn
  <1>5. ASSUME NEW a \in {"unsupported_host", "no_remote"}, P!Answer(h, a) PROVE PullInv'
    <2>1. ppc' = [ppc EXCEPT ![h] = "done"] /\ ans' = [ans EXCEPT ![h] = a]
      BY <1>5 DEF P!Answer
    <2>2. PullTypes' /\ ppc'[h] = "done" /\ ans'[h] = a /\ \A g \in Reqs \ {h} : ppc'[g] = ppc[g] /\ ans'[g] = ans[g]
      <3>1. ppc' \in [Reqs -> PullPc] /\ ppc'[h] = "done" /\ \A g \in Reqs \ {h} : ppc'[g] = ppc[g]
        BY <2>1 DEF PullInv, PullTypes, PullPc
      <3>2. ans' \in [Reqs -> PullAnswers] /\ ans'[h] = a /\ \A g \in Reqs \ {h} : ans'[g] = ans[g]
        BY <1>5, <2>1 DEF PullInv, PullTypes, PullAnswers
      <3> QED BY <1>1, <1>3, <3>1, <3>2 DEF PullInv, PullTypes
    <2>3. MergedBy' /\ Served(h)'
      <3>1. MergedBy'
        BY <1>1, <1>3, <2>2 DEF PullInv, MergedBy
      <3>2. Served(h)'
        BY <1>1, <1>2, <1>3, <2>2 DEF Served, Asked, Reading, Whole, MergeTold, P!Reviews
      <3> QED BY <3>1, <3>2
    <2> QED BY <1>1, <1>2, <1>3, <2>2, <2>3, OneServed
  <1>6. \/ \E a \in {"unsupported_host", "no_remote"} : P!Answer(h, a)
        \/ \E to \in {"call", "gitea"} : P!Go(h, to) /\ (to = "call" => remote = "github") /\ (to = "gitea" => remote = "gitea")
    BY DEF P!OpenPR, P!Provider
  <1> QED BY <1>4, <1>5, <1>6

LEMMA CreateKeeps == ASSUME PullInv, NEW h \in Reqs, P!CreateGiteaPR(h) \/ P!CreateGitHubPR(h) PROVE PullInv'
  <1>1. UNCHANGED <<remote, pr, pop, head, page, got>>
    BY DEF P!CreateGiteaPR, P!CreateGitHubPR, P!grantvars
  <1>2. Asked(h) /\ Reading(h) /\ ppc[h] \in {"gitea", "call", "again"} /\ (ppc[h] \in {"call", "again"} => pop[h] = "open")
    BY DEF PullInv, Served, Asked, P!CreateGiteaPR, P!CreateGitHubPR
  <1>3. P!RightProvider'
    BY <1>2 DEF PullInv, P!RightProvider, Asked, P!CreateGiteaPR, P!CreateGitHubPR
  <1>4. ASSUME P!Go(h, "refresh"), ppc[h] = "call" PROVE PullInv'
    <2>1. ppc' = [ppc EXCEPT ![h] = "refresh"] /\ ans' = ans
      BY <1>4 DEF P!Go
    <2>2. PullTypes' /\ ppc'[h] = "refresh"
      BY <1>1, <2>1 DEF PullInv, PullTypes, PullPc
    <2>3. Asked(h)' /\ Reading(h)'
      BY <1>1, <1>2, <1>4, <2>1, <2>2 DEF Asked, Reading, P!Reviews
    <2> QED BY <1>1, <1>3, <1>4, <2>2, <2>3, GoesOn
  <1>5. \/ \E a \in {"opened", "pr_exists", "no_commits", "githost_token_invalid", "bad_remote", "githost_unavailable", "githost_token_required",
                     "github_unavailable", "reconnect_github"} : P!Answer(h, a)
        \/ P!Go(h, "refresh") /\ ppc[h] = "call"
    BY DEF P!CreateGiteaPR, P!CreateGitHubPR
  <1> QED BY <1>1, <1>2, <1>3, <1>4, <1>5, Answers DEF PullAnswers

LEMMA ForceRefreshKeeps == ASSUME PullInv, NEW h \in Reqs, P!ForceRefresh(h) PROVE PullInv'
  <1>1. UNCHANGED <<remote, pr, pop, head, page, got, calls>> /\ ppc[h] = "refresh" /\ P!RightProvider'
    BY DEF P!ForceRefresh, PullInv, P!RightProvider
  <1>2. Asked(h) /\ Reading(h)
    BY DEF PullInv, Served
  <1>3. ASSUME P!Go(h, "again") PROVE PullInv'
    <2>1. ppc' = [ppc EXCEPT ![h] = "again"] /\ ans' = ans
      BY <1>3 DEF P!Go
    <2>2. PullTypes' /\ ppc'[h] = "again"
      BY <1>1, <2>1 DEF PullInv, PullTypes, PullPc
    <2>3. Asked(h)' /\ Reading(h)'
      BY <1>1, <1>2, <2>1, <2>2 DEF Asked, Reading, P!Reviews
    <2> QED BY <1>1, <1>3, <2>2, <2>3, GoesOn
  <1>4. P!Go(h, "again") \/ P!Answer(h, "reconnect_github")
    BY DEF P!ForceRefresh
  <1> QED BY <1>1, <1>3, <1>4, Answers DEF PullAnswers

LEMMA ReviewKeeps == ASSUME PullInv, NEW h \in Reqs, NEW o \in P!Reviews, P!Review(h, o) PROVE PullInv'
  <1>1. /\ UNCHANGED <<remote, pr, head, page, got, calls>> /\ ppc[h] = "idle" /\ P!RightProvider'
        /\ pop' = [pop EXCEPT ![h] = o] /\ P!Go(h, o)
    BY DEF P!Review, PullInv, P!RightProvider
  <1>2. ppc' = [ppc EXCEPT ![h] = o] /\ ans' = ans
    BY <1>1 DEF P!Go
  <1>3. PullTypes' /\ ppc'[h] = o /\ pop'[h] = o /\ \A g \in Reqs \ {h} : pop'[g] = pop[g]
    <2>1. ppc' \in [Reqs -> PullPc] /\ ppc'[h] = o
      BY <1>2 DEF PullInv, PullTypes, PullPc
    <2>2. pop' \in [Reqs -> {"none", "open"} \cup P!Reviews] /\ pop'[h] = o /\ \A g \in Reqs \ {h} : pop'[g] = pop[g]
      BY <1>1 DEF PullInv, PullTypes
    <2> QED BY <1>1, <1>2, <2>1, <2>2 DEF PullInv, PullTypes
  <1>4. page[h] = 1 /\ got[h] = {} /\ ans[h] = "none"
    BY <1>1 DEF PullInv, Served, Asked, Reading
  <1>5. Asked(h)' /\ Reading(h)'
    BY <1>1, <1>2, <1>3, <1>4 DEF Asked, Reading, P!Reviews
  <1> QED BY <1>1, <1>3, <1>5, GoesOn, Zenon

LEMMA RefusedKeeps == ASSUME PullInv, NEW h \in Reqs, P!Rejected(h) \/ P!Unavailable(h) PROVE PullInv'
  <1>1. UNCHANGED <<remote, pr, pop, head, page, got, calls>> /\ ppc[h] \notin {"idle", "done"} /\ P!RightProvider'
    BY DEF P!Rejected, P!Unavailable, PullInv, P!RightProvider, P!Reviews
  <1>2. \E a \in {"reconnect_github", "no_pr", "github_unavailable"} : P!Answer(h, a)
    BY DEF P!Rejected, P!Unavailable
  <1> QED BY <1>1, <1>2, Answers DEF PullAnswers

\* The details are read, or a comment is made.
LEMMA ReadKeeps == ASSUME PullInv, NEW h \in Reqs, P!GetPR(h) \/ P!CommentPR(h) PROVE PullInv'
  <1>1. /\ UNCHANGED <<remote, pr, pop, page, got, calls>> /\ ppc[h] \in {"detail", "comment"} /\ P!RightProvider'
        /\ P!Answer(h, "ok") /\ (head' = [head EXCEPT ![h] = pr.head] \/ UNCHANGED head)
    BY DEF P!GetPR, P!CommentPR, PullInv, P!RightProvider
  <1>2. ppc' = [ppc EXCEPT ![h] = "done"] /\ ans' = [ans EXCEPT ![h] = "ok"]
    BY <1>1 DEF P!Answer
  <1>3. /\ ppc' \in [Reqs -> PullPc] /\ ppc'[h] = "done" /\ ans' \in [Reqs -> PullAnswers] /\ ans'[h] = "ok"
        /\ \A g \in Reqs \ {h} : ppc'[g] = ppc[g] /\ ans'[g] = ans[g]
    BY <1>2 DEF PullInv, PullTypes, PullPc, PullAnswers
  <1>4. head' \in [Reqs -> Nat] /\ \A g \in Reqs \ {h} : head'[g] = head[g]
    BY <1>1 DEF PullInv, PullTypes
  <1>5. PullTypes'
    BY <1>1, <1>3, <1>4 DEF PullInv, PullTypes
  <1>6. Asked(h) /\ Reading(h) /\ pop[h] \in {"detail", "comment"}
    BY <1>1 DEF PullInv, Served, Asked, P!Reviews
  <1>7. MergedBy'
    BY <1>1, <1>3, <1>6 DEF PullInv, MergedBy
  <1>8. Served(h)'
    BY <1>1, <1>3, <1>6 DEF Served, Asked, Reading, Whole, MergeTold, P!Reviews
  <1> QED BY <1>1, <1>3, <1>4, <1>5, <1>7, <1>8, OneServed

LEMMA ChecksHeadKeeps == ASSUME PullInv, Listed, NEW h \in Reqs, P!ChecksHead(h) PROVE PullInv'
  <1>1. /\ UNCHANGED <<remote, pr, pop, page, got, calls>> /\ ppc[h] = "checks" /\ P!RightProvider'
        /\ head' = [head EXCEPT ![h] = pr.head] /\ P!Go(h, "runs")
    BY DEF P!ChecksHead, PullInv, P!RightProvider
  <1>2. ppc' = [ppc EXCEPT ![h] = "runs"] /\ ans' = ans
    BY <1>1 DEF P!Go
  <1>3. pr.head \in 1..MaxHead /\ pr.head \in Nat /\ Items[pr.head] \in Nat
    BY DEF PullInv, PullTypes, Listed
  <1>4. head' \in [Reqs -> Nat] /\ head'[h] = pr.head /\ \A g \in Reqs \ {h} : head'[g] = head[g]
    BY <1>1, <1>3 DEF PullInv, PullTypes
  <1>5. ppc' \in [Reqs -> PullPc] /\ ppc'[h] = "runs"
    BY <1>2 DEF PullInv, PullTypes, PullPc
  <1>6. PullTypes'
    BY <1>1, <1>2, <1>4, <1>5 DEF PullInv, PullTypes
  <1>7. page[h] = 1 /\ got[h] = {} /\ pop[h] = "checks" /\ ans[h] = "none"
    BY <1>1 DEF PullInv, Served, Asked, Reading, P!Reviews
  <1>8. (page[h] - 1) * PageSize = 0 /\ UpTo(pr.head, 0) = {}
    BY <1>3, <1>7, NextPage DEF Listed, UpTo
  <1>9. Asked(h)' /\ Reading(h)'
    BY <1>1, <1>2, <1>3, <1>4, <1>5, <1>7, <1>8 DEF Asked, Reading, ReadSoFar, UpTo, P!Reviews
  <1> QED BY <1>1, <1>4, <1>6, <1>9, GoesOn

\* One more page is read, and the listing goes on or ends with it: in both cases
\* what was read so far of one head is all there is up to there.
LEMMA FilesKeep == ASSUME PullInv, Listed, NEW h \in Reqs, P!ListPRFiles(h) PROVE PullInv'
  <1> DEFINE items == P!PageOf(pr.head, page[h])
  <1>1. /\ UNCHANGED <<remote, pr, pop, calls>> /\ ppc[h] = "files" /\ P!RightProvider'
        /\ got' = [got EXCEPT ![h] = @ \cup items] /\ page' = [page EXCEPT ![h] = @ + 1] /\ head' = [head EXCEPT ![h] = pr.head]
        /\ IF Cardinality(items) < PageSize THEN P!Answer(h, "ok") ELSE UNCHANGED <<ppc, ans>>
    BY PagesCounted DEF P!ListPRFiles, P!LastFiles, PullInv, P!RightProvider
  <1>2. pr.head \in 1..MaxHead /\ pr.head \in Nat /\ page[h] \in Nat \ {0} /\ head[h] \in Nat /\ got[h] \in SUBSET (Nat \X Nat)
    BY DEF PullInv, PullTypes, Listed
  <1>3. PICK q \in Nat :
            /\ q = (page[h] - 1) * PageSize /\ (page[h] + 1 - 1) * PageSize = q + PageSize
            /\ UpTo(pr.head, 0) = {} /\ items \subseteq {pr.head} \X Nat
            /\ Cardinality(items) \in Nat /\ (Cardinality(items) >= PageSize => items # {})
            /\ q <= Items[pr.head] =>
                 /\ UpTo(pr.head, q) \cup items = UpTo(pr.head, q + PageSize)
                 /\ Cardinality(items) < PageSize => Cardinality(UpTo(pr.head, q) \cup items) = Items[pr.head]
                 /\ ~(Cardinality(items) < PageSize) => q + PageSize <= Items[pr.head]
    BY <1>2, NextPage, Zenon
  <1> HIDE DEF items
  <1>4. /\ got'[h] = got[h] \cup items /\ page'[h] = page[h] + 1 /\ head'[h] = pr.head
        /\ \A g \in Reqs \ {h} : got'[g] = got[g] /\ page'[g] = page[g] /\ head'[g] = head[g]
    BY <1>1 DEF PullInv, PullTypes
  <1>5. got' \in [Reqs -> SUBSET (Nat \X Nat)] /\ page' \in [Reqs -> Nat \ {0}] /\ head' \in [Reqs -> Nat]
    <2>1. got[h] \cup items \in SUBSET (Nat \X Nat) /\ page[h] + 1 \in Nat \ {0}
      BY <1>2, <1>3
    <2> QED BY <1>1, <1>2, <2>1 DEF PullInv, PullTypes
  <1>6. pop[h] = "files" /\ ans[h] = "none" /\ Reading(h)
    BY <1>1 DEF PullInv, Served, Asked, P!Reviews
  \* When all that was read is of the head there is now, it is all up to this page.
  <1>7. ASSUME \A x \in got'[h] : x[1] = pr.head
        PROVE  got[h] = UpTo(pr.head, q) /\ q <= Items[pr.head]
    <2>1. CASE page[h] = 1 /\ got[h] = {}
      <3>1. q = 0 /\ Items[pr.head] \in Nat
        BY <1>2, <1>3, <2>1 DEF Listed
      <3> QED BY <1>3, <2>1, <3>1
    <2>2. CASE ~(page[h] = 1 /\ got[h] = {})
      <3>1. PICK x \in got[h] : x[1] = head[h]
        BY <1>1, <1>6, <2>2 DEF Reading
      <3>2. head[h] = pr.head /\ \A y \in got[h] : y[1] = head[h]
        BY <1>4, <1>7, <3>1
      <3>3. ReadSoFar(h)
        BY <1>1, <1>6, <2>2, <3>2 DEF Reading
      <3> QED BY <1>3, <3>2, <3>3 DEF ReadSoFar
    <2> QED BY <2>1, <2>2
  <1>8. CASE Cardinality(items) < PageSize
    <2>1. ppc' = [ppc EXCEPT ![h] = "done"] /\ ans' = [ans EXCEPT ![h] = "ok"]
      BY <1>1, <1>8 DEF P!Answer
    <2>2. /\ ppc' \in [Reqs -> PullPc] /\ ppc'[h] = "done" /\ ans' \in [Reqs -> PullAnswers] /\ ans'[h] = "ok"
          /\ \A g \in Reqs \ {h} : ppc'[g] = ppc[g] /\ ans'[g] = ans[g]
      BY <2>1 DEF PullInv, PullTypes, PullPc, PullAnswers
    <2>3. PullTypes'
      BY <1>1, <1>5, <2>2 DEF PullInv, PullTypes
    <2>4. MergedBy'
      BY <1>1, <1>6, <2>2 DEF PullInv, MergedBy
    <2>5. Whole(h)'
      BY <1>3, <1>4, <1>7, <1>8, Zenon DEF Whole
    <2>6. Served(h)'
      BY <1>1, <1>6, <2>2, <2>5 DEF Served, Asked, Reading, MergeTold, P!Reviews
    <2> QED BY <1>1, <1>4, <2>2, <2>3, <2>4, <2>6, OneServed
  <1>9. CASE ~(Cardinality(items) < PageSize)
    <2>1. UNCHANGED <<ppc, ans>> /\ PullTypes'
      BY <1>1, <1>5, <1>9 DEF PullInv, PullTypes
    <2>2. \E x \in got'[h] : x[1] = pr.head
      <3>1. PageSize \in Nat
        BY DEF Listed
      <3> QED BY <1>3, <1>4, <1>9, <3>1
    <2>3. (\A x \in got'[h] : x[1] = pr.head) => ReadSoFar(h)'
      BY <1>2, <1>3, <1>4, <1>7, <1>9 DEF ReadSoFar, UpTo
    <2>4. Reading(h)'
      BY <1>1, <1>4, <1>6, <2>1, <2>2, <2>3 DEF Reading
    <2>5. Served(h)' /\ MergedBy'
      BY <1>1, <1>6, <2>1, <2>4 DEF PullInv, MergedBy, Served, Asked, Whole, MergeTold, P!Reviews
    <2> QED BY <1>1, <1>4, <2>1, <2>5, OneServed
  <1> QED BY <1>8, <1>9

LEMMA RunsKeep == ASSUME PullInv, Listed, NEW h \in Reqs, P!ListCheckRuns(h) PROVE PullInv'
  <1> DEFINE runs == P!PageOf(head[h], page[h])
  <1>1. /\ UNCHANGED <<remote, pr, pop, head, calls>> /\ ppc[h] = "runs" /\ P!RightProvider'
        /\ got' = [got EXCEPT ![h] = got[h] \cup runs] /\ page' = [page EXCEPT ![h] = @ + 1]
        /\ IF Cardinality(runs) < PageSize \/ Cardinality(got[h] \cup runs) >= Items[head[h]] THEN P!Answer(h, "ok") ELSE UNCHANGED <<ppc, ans>>
    BY PagesCounted DEF P!ListCheckRuns, P!LastRuns, PullInv, P!RightProvider
  <1>2. pop[h] = "checks" /\ ans[h] = "none" /\ ReadSoFar(h)
    BY <1>1 DEF PullInv, Served, Asked, Reading, P!Reviews
  <1>3. head[h] \in 1..MaxHead /\ head[h] \in Nat /\ page[h] \in Nat \ {0} /\ got[h] \in SUBSET (Nat \X Nat)
    BY <1>2 DEF PullInv, PullTypes, ReadSoFar
  <1>4. PICK q \in Nat :
            /\ q = (page[h] - 1) * PageSize /\ (page[h] + 1 - 1) * PageSize = q + PageSize
            /\ runs \subseteq {head[h]} \X Nat
            /\ q <= Items[head[h]] =>
                 /\ UpTo(head[h], q) \cup runs = UpTo(head[h], q + PageSize)
                 /\ Cardinality(runs) < PageSize \/ Cardinality(UpTo(head[h], q) \cup runs) >= Items[head[h]] =>
                      Cardinality(UpTo(head[h], q) \cup runs) = Items[head[h]]
                 /\ ~(Cardinality(runs) < PageSize) => q + PageSize <= Items[head[h]]
    BY <1>3, NextPage, Zenon
  <1> HIDE DEF runs
  <1>5. got[h] = UpTo(head[h], q) /\ q <= Items[head[h]]
    BY <1>2, <1>4 DEF ReadSoFar
  <1>6. got'[h] = got[h] \cup runs /\ page'[h] = page[h] + 1 /\ \A g \in Reqs \ {h} : got'[g] = got[g] /\ page'[g] = page[g]
    BY <1>1 DEF PullInv, PullTypes
  <1>7. got' \in [Reqs -> SUBSET (Nat \X Nat)] /\ page' \in [Reqs -> Nat \ {0}]
    <2>1. got[h] \cup runs \in SUBSET (Nat \X Nat) /\ page[h] + 1 \in Nat \ {0}
      BY <1>3, <1>4
    <2> QED BY <1>1, <2>1 DEF PullInv, PullTypes
  <1>8. CASE Cardinality(runs) < PageSize \/ Cardinality(got[h] \cup runs) >= Items[head[h]]
    <2>1. ppc' = [ppc EXCEPT ![h] = "done"] /\ ans' = [ans EXCEPT ![h] = "ok"]
      BY <1>1, <1>8 DEF P!Answer
    <2>2. /\ ppc' \in [Reqs -> PullPc] /\ ppc'[h] = "done" /\ ans' \in [Reqs -> PullAnswers] /\ ans'[h] = "ok"
          /\ \A g \in Reqs \ {h} : ppc'[g] = ppc[g] /\ ans'[g] = ans[g]
      BY <2>1 DEF PullInv, PullTypes, PullPc, PullAnswers
    <2>3. PullTypes'
      BY <1>1, <1>7, <2>2 DEF PullInv, PullTypes
    <2>4. MergedBy'
      BY <1>1, <1>2, <2>2 DEF PullInv, MergedBy
    <2>5. Whole(h)'
      BY <1>1, <1>4, <1>5, <1>6, <1>8, Zenon DEF Whole
    <2>6. Served(h)'
      BY <1>1, <1>2, <2>2, <2>5 DEF Served, Asked, Reading, MergeTold, P!Reviews
    <2> QED BY <1>1, <1>6, <2>2, <2>3, <2>4, <2>6, OneServed
  <1>9. CASE ~(Cardinality(runs) < PageSize \/ Cardinality(got[h] \cup runs) >= Items[head[h]])
    <2>1. UNCHANGED <<ppc, ans>> /\ PullTypes'
      BY <1>1, <1>7, <1>9 DEF PullInv, PullTypes
    <2>2. ReadSoFar(h)'
      BY <1>1, <1>3, <1>4, <1>5, <1>6, <1>9 DEF ReadSoFar, UpTo
    <2>3. Reading(h)'
      BY <1>1, <1>2, <2>1, <2>2 DEF Reading
    <2>4. Served(h)' /\ MergedBy'
      BY <1>1, <1>2, <2>1, <2>3 DEF PullInv, MergedBy, Served, Asked, Whole, MergeTold, P!Reviews
    <2> QED BY <1>1, <1>6, <2>1, <2>4, OneServed
  <1> QED BY <1>8, <1>9

LEMMA MergeKeeps == ASSUME PullInv, NoSuchRequest, NEW h \in Reqs, P!MergePR(h) PROVE PullInv'
  <1>1. UNCHANGED <<remote, pop, head, page, got, calls>> /\ ppc[h] = "merge" /\ P!RightProvider'
    BY DEF P!MergePR, P!grantvars, PullInv, P!RightProvider
  <1>2. PICK s \in P!MergeStatuses, a \in PullAnswers :
            /\ a \in {P!AnswerTo(s), "github_unavailable"}
            /\ pr' = IF s = "merged" THEN [pr EXCEPT !.state = "merged", !.merged = pr.head, !.by = h] ELSE pr
            /\ P!Answer(h, a)
    <2>1. \A s \in P!MergeStatuses : P!AnswerTo(s) \in PullAnswers
      BY DEF P!MergeStatuses, P!AnswerTo, PullAnswers
    <2> QED BY <2>1 DEF P!MergePR, PullAnswers
  <1>3. a \in {"ok", "not_mergeable", "head_changed", "merge_forbidden", "github_unavailable"} /\ (a = "ok" => s = "merged")
        /\ (a # "ok" /\ a # "github_unavailable" => s # "merged") /\ (s = "merged" => pr.state = "open")
    BY <1>2 DEF P!MergeStatuses, P!AnswerTo
  <1>4. ppc' = [ppc EXCEPT ![h] = "done"] /\ ans' = [ans EXCEPT ![h] = a]
    BY <1>2 DEF P!Answer
  <1>5. /\ ppc' \in [Reqs -> PullPc] /\ ppc'[h] = "done" /\ ans' \in [Reqs -> PullAnswers] /\ ans'[h] = a
        /\ \A g \in Reqs \ {h} : ppc'[g] = ppc[g] /\ ans'[g] = ans[g]
    BY <1>3, <1>4 DEF PullInv, PullTypes, PullPc, PullAnswers
  <1>6. /\ pr' \in [state : {"open", "merged"}, head : 1..MaxHead, merged : Nat, by : Reqs \cup {"none"}]
        /\ s = "merged" => pr'.state = "merged" /\ pr'.by = h
        /\ s # "merged" => pr' = pr
    <2>1. pr \in [state : {"open", "merged"}, head : 1..MaxHead, merged : Nat, by : Reqs \cup {"none"}]
      BY DEF PullInv, PullTypes
    <2>2. pr.head \in Nat /\ h \in Reqs \cup {"none"}
      BY <2>1
    <2>3. CASE s = "merged"
      BY <1>2, <2>1, <2>2, <2>3, Zenon
    <2> QED BY <1>2, <2>1, <2>3
  <1>7. PullTypes'
    BY <1>1, <1>5, <1>6 DEF PullInv, PullTypes
  <1>8. /\ pop[h] = "merge" /\ ans[h] = "none" /\ Reading(h) /\ pr.by # h
        /\ (pr.state = "open" => pr.by = "none") /\ \A g \in Reqs : pr.by = g => pop[g] = "merge" /\ ppc[g] = "done"
    BY <1>1 DEF PullInv, MergedBy, Served, Asked, P!Reviews
  <1>9. \A g \in Reqs \ {h} : pr'.by = g <=> pr.by = g
    BY <1>3, <1>6, <1>8 DEF NoSuchRequest
  <1>10. MergedBy'
    BY <1>1, <1>3, <1>5, <1>6, <1>8 DEF MergedBy
  <1>11. Served(h)'
    BY <1>1, <1>3, <1>5, <1>6, <1>8 DEF Served, Asked, Reading, Whole, MergeTold, P!Reviews
  <1> QED BY <1>1, <1>5, <1>7, <1>9, <1>10, <1>11, OneServed

\* GitHub, the user and the author of the pull request.
LEMMA OutsideKeeps == ASSUME PullInv, Listed, P!Invalidate \/ P!RevokeGrant \/ P!PushHead \/ UNCHANGED P!vars PROVE PullInv'
  <1>1. UNCHANGED <<remote, ppc, pop, head, page, got, ans, calls>>
    BY DEF P!Invalidate, P!RevokeGrant, P!PushHead, P!vars, P!grantvars, P!reqvars
  <1>2. \/ pr' = pr
        \/ pr.head < MaxHead /\ pr' = [pr EXCEPT !.head = pr.head + 1]
    <2>1. P!PushHead => pr.head < MaxHead /\ pr' = [pr EXCEPT !.head = pr.head + 1]
      BY DEF P!PushHead
    <2>2. P!Invalidate \/ P!RevokeGrant \/ UNCHANGED P!vars => pr' = pr
      BY DEF P!Invalidate, P!RevokeGrant, P!vars
    <2> QED BY <2>1, <2>2, Zenon
  <1>3. /\ pr' \in [state : {"open", "merged"}, head : 1..MaxHead, merged : Nat, by : Reqs \cup {"none"}]
        /\ pr'.by = pr.by /\ pr'.state = pr.state
    <2>1. pr \in [state : {"open", "merged"}, head : 1..MaxHead, merged : Nat, by : Reqs \cup {"none"}]
      BY DEF PullInv, PullTypes
    <2>2. pr.head < MaxHead => pr.head + 1 \in 1..MaxHead
      BY <2>1 DEF Listed
    <2> QED BY <1>2, <2>1, <2>2
  <1>4. PullTypes' /\ MergedBy' /\ P!RightProvider'
    BY <1>1, <1>3 DEF PullInv, PullTypes, MergedBy, P!RightProvider
  <1>5. ASSUME NEW h \in Reqs PROVE Served(h)'
    <2>1. Served(h)
      BY DEF PullInv
    <2>2. Asked(h)' /\ Whole(h)' /\ MergeTold(h)'
      BY <1>1, <1>3, <2>1 DEF Served, Asked, Whole, MergeTold
    <2>3. Reading(h)'
      BY <1>1, <2>1 DEF Served, Reading, ReadSoFar
    <2> QED BY <2>2, <2>3 DEF Served
  <1> QED BY <1>4, <1>5 DEF PullInv

LEMMA PullsBegin == ASSUME Listed, NoSuchRequest, P!Init PROVE PullInv
  <1>1. pr \in [state : {"open", "merged"}, head : 1..MaxHead, merged : Nat, by : Reqs \cup {"none"}] /\ pr.by = "none"
    BY DEF P!Init, Listed
  <1>2. PullTypes
    BY <1>1 DEF P!Init, PullTypes, PullPc, PullAnswers, P!NoToken
  <1>3. MergedBy /\ P!RightProvider
    BY <1>1 DEF P!Init, MergedBy, P!RightProvider, NoSuchRequest
  <1>4. ASSUME NEW h \in Reqs PROVE Served(h)
    BY DEF P!Init, Served, Asked, Reading, Whole, MergeTold, P!Reviews
  <1> QED BY <1>2, <1>3, <1>4 DEF PullInv

LEMMA PullsNext == ASSUME Listed, NoSuchRequest, PullInv, P!Next \/ UNCHANGED P!vars PROVE PullInv'
  BY CreateKeeps, ForceRefreshKeeps, RefusedKeeps, ReadKeeps, FilesKeep, ChecksHeadKeeps, RunsKeep, MergeKeeps, OpenKeeps, ReviewKeeps, OutsideKeeps
     DEF P!Next, P!Serve

\* A request asks the user to reconnect after the grant is gone, or on its second
\* try.
LEMMA ReconnectsLast ==
    ASSUME PullInv, P!Next, NEW h \in Reqs, pop[h] = "open", ans[h] = "none", ans'[h] = "reconnect_github"
    PROVE  ~grant \/ ppc[h] = "again"
  <1>1. Asked(h) /\ (\A g \in Reqs : ans \in [Reqs -> PullAnswers])
    BY DEF PullInv, PullTypes, Served
  <1>2. ASSUME NEW g \in Reqs, NEW a \in PullAnswers \ {"reconnect_github"}, P!Answer(g, a) PROVE FALSE
    BY <1>1, <1>2 DEF P!Answer
  <1>3. UNCHANGED ans => FALSE
    OBVIOUS
  <1>4. ASSUME NEW g \in Reqs, g # h, P!Answer(g, "reconnect_github") PROVE FALSE
    BY <1>1, <1>4 DEF P!Answer
  <1>5. PICK g \in Reqs : P!Serve(g) \/ P!OpenPR(g) \/ \E o \in P!Reviews : P!Review(g, o)
    BY <1>3 DEF P!Next, P!Invalidate, P!RevokeGrant, P!PushHead, P!reqvars
  <1>6. ~P!OpenPR(g) /\ ~\E o \in P!Reviews : P!Review(g, o)
    BY <1>2, <1>3 DEF P!OpenPR, P!Review, P!Go, PullAnswers
  <1>7. ~P!CreateGiteaPR(g) /\ ~P!Unavailable(g) /\ ~P!GetPR(g) /\ ~P!CommentPR(g) /\ ~P!ChecksHead(g)
    BY <1>2, <1>3 DEF P!CreateGiteaPR, P!Unavailable, P!GetPR, P!CommentPR, P!ChecksHead, P!Go, PullAnswers
  <1>8. ~P!ListPRFiles(g) /\ ~P!ListCheckRuns(g)
    BY <1>2, <1>3 DEF P!ListPRFiles, P!ListCheckRuns, PullAnswers
  <1>9. ~P!MergePR(g)
    <2>1. \A s \in P!MergeStatuses : P!AnswerTo(s) \in PullAnswers \ {"reconnect_github"}
      BY DEF P!MergeStatuses, P!AnswerTo, PullAnswers
    <2> QED BY <1>2, <2>1 DEF P!MergePR, PullAnswers
  <1>10. ~P!Rejected(g)
    BY <1>1, <1>4 DEF P!Rejected, Asked, P!Reviews
  <1>11. P!CreateGitHubPR(g) \/ P!ForceRefresh(g)
    BY <1>5, <1>6, <1>7, <1>8, <1>9, <1>10 DEF P!Serve
  <1>12. CASE P!CreateGitHubPR(g)
    BY <1>2, <1>3, <1>4, <1>12 DEF P!CreateGitHubPR, P!Go, PullAnswers
  <1>13. CASE P!ForceRefresh(g)
    BY <1>3, <1>13 DEF P!ForceRefresh, P!Go
  <1> QED BY <1>11, <1>12, <1>13

(***************************************************************************)
(* The worktree (Worktree), for any number of requests at once, edits in   *)
(* the middle of them, killed commands and drops of the channel.  The      *)
(* repository is one (RepoInv), and a request has made its one commit      *)
(* exactly when the guest is past it (Commits).                            *)
(***************************************************************************)
NoClone == "clone" \notin Reqs

Trees == [Files -> Nat]
CommitRecords == [tree : Trees, parent : Nat, by : Reqs \cup {"clone"}, paths : SUBSET Files]

RepoInv ==
    /\ work \in Trees /\ index \in Trees /\ edits \in Nat
    /\ commits \in Seq(CommitRecords)
    /\ refs \in [W!Names -> Nat] /\ cur \in W!Names
    /\ refs[cur] # W!Absent /\ \A b \in W!Names : refs[b] # W!Absent => refs[b] \in DOMAIN commits
    /\ \A c \in DOMAIN commits : commits[c].paths # {} => commits[c].parent \in DOMAIN commits
    /\ W!CommitOnlyNamed

Made(h) == {c \in DOMAIN commits : commits[c].by = h}

Commits(h) ==
    /\ cp[h] \in {"idle", "resolve"} => guest[h] = "none"
    /\ cp[h] = "wait" => guest[h] \notin {"none", "done"}
    /\ guest[h] \in {"create", "named"} => req[h].op = "branch"
    /\ guest[h] \in {"staged", "commit", "made"} => req[h].op = "commit"
    /\ guest[h] \in {"none", "start", "staged", "commit"} => Made(h) = {}
    /\ guest[h] = "made" => \E c \in DOMAIN commits : Made(h) = {c}
    /\ req[h].op = "commit" /\ cp[h] = "answered" =>
         /\ res[h].code = "ok" => guest[h] = "done" /\ \E c \in DOMAIN commits : Made(h) = {c}
         /\ res[h].code = "nothing_to_commit" => guest[h] = "done" /\ Made(h) = {}

GuestPc == {"none", "start", "create", "named", "staged", "commit", "made", "done"}

RequestTypes ==
    /\ cp \in [Reqs -> {"idle", "resolve", "wait", "answered"}] /\ guest \in [Reqs -> GuestPc]
    /\ req \in [Reqs -> {[op |-> "none"]} \cup W!Requests] /\ res = [h \in Reqs |-> res[h]]

WorktreeInv == RequestTypes /\ RepoInv /\ \A h \in Reqs : Commits(h)

LEMMA RepoUntouched == ASSUME RepoInv, UNCHANGED <<work, index, commits, refs, cur, edits>> PROVE RepoInv'
  BY DEF RepoInv, W!CommitOnlyNamed

\* The instance counts as this module does.
LEMMA CommitsCounted == \A T : W!Cardinality(T) = Cardinality(T)
  BY DEF Cardinality, W!Cardinality

LEMMA CommitsHold == WorktreeInv => W!CommitOnlyNamed /\ W!AnswersAreTrue
  <1> SUFFICES ASSUME WorktreeInv PROVE W!CommitOnlyNamed /\ W!AnswersAreTrue
    OBVIOUS
  <1>1. ASSUME NEW h \in Reqs, req[h].op = "commit", cp[h] = "answered"
        PROVE  /\ res[h].code = "ok" => Cardinality(Made(h)) = 1
               /\ res[h].code = "nothing_to_commit" => Cardinality(Made(h)) = 0
    <2>1. /\ res[h].code = "ok" => \E c \in DOMAIN commits : Made(h) = {c}
          /\ res[h].code = "nothing_to_commit" => Made(h) = {}
      BY <1>1 DEF WorktreeInv, Commits
    <2> QED BY <2>1, FS_EmptySet, FS_Singleton, Zenon
  <1>2. W!AnswersAreTrue
    BY <1>1, CommitsCounted, Zenon DEF W!AnswersAreTrue, Made
  <1> QED BY <1>2 DEF WorktreeInv, RepoInv

\* A step of one request, and perhaps the end of the channel, where the commits
\* stay as they are: the other requests go on, or are answered that their machine
\* is out of reach.
LEMMA OtherRequests ==
    ASSUME WorktreeInv, NEW h \in Reqs, RequestTypes', RepoInv', Commits(h)', UNCHANGED commits,
           \A g \in Reqs \ {h} :
              /\ UNCHANGED <<req[g], guest[g]>>
              /\ \/ UNCHANGED <<cp[g], res[g]>>
                 \/ cp[g] = "wait" /\ cp'[g] = "answered" /\ res'[g].code = "guest_unreachable"
    PROVE  WorktreeInv'
  <1>1. ASSUME NEW g \in Reqs \ {h} PROVE Commits(g)'
    BY <1>1 DEF WorktreeInv, Commits, Made
  <1> QED BY <1>1 DEF WorktreeInv

\* The guest is done with a request.
LEMMA Replies ==
    ASSUME WorktreeInv, NEW h \in Reqs, NEW r, W!Running(h), W!Reply(h, r), UNCHANGED <<req, commits>>, RepoInv',
           req[h].op = "commit" => /\ r.code = "ok" => \E c \in DOMAIN commits : Made(h) = {c}
                                   /\ r.code = "nothing_to_commit" => Made(h) = {}
    PROVE  WorktreeInv'
  <1>1. /\ guest' = [guest EXCEPT ![h] = "done"]
        /\ IF cp[h] = "wait" THEN cp' = [cp EXCEPT ![h] = "answered"] /\ res' = [res EXCEPT ![h] = r] ELSE UNCHANGED <<cp, res>>
    BY DEF W!Reply, W!Answer
  <1>2. RequestTypes'
    BY <1>1 DEF WorktreeInv, RequestTypes, GuestPc
  <1>3. /\ guest'[h] = "done" /\ (cp[h] = "wait" => cp'[h] = "answered" /\ res'[h] = r) /\ (cp[h] # "wait" => cp'[h] = cp[h] /\ res'[h] = res[h])
        /\ \A g \in Reqs \ {h} : UNCHANGED <<guest[g], cp[g], res[g]>>
    BY <1>1 DEF WorktreeInv, RequestTypes
  <1>4. Commits(h) /\ guest[h] \notin {"none", "done"}
    BY DEF WorktreeInv, W!Running
  <1>5. Commits(h)'
    BY <1>3, <1>4 DEF Commits, Made
  <1> QED BY <1>2, <1>3, <1>5, OtherRequests

LEMMA RequestGoesOn ==
    ASSUME WorktreeInv, NEW h \in Reqs, NEW to \in {"create", "named", "staged", "commit"}, W!Running(h), W!Go(h, to), UNCHANGED <<req, commits>>, RepoInv',
           to \in {"create", "named"} => req[h].op = "branch",
           to \in {"staged", "commit"} => req[h].op = "commit" /\ guest[h] \in {"start", "staged"}
    PROVE  WorktreeInv'
  <1>1. guest' = [guest EXCEPT ![h] = to] /\ UNCHANGED <<cp, res>>
    BY DEF W!Go
  <1>2. RequestTypes'
    BY <1>1 DEF WorktreeInv, RequestTypes, GuestPc
  <1>3. guest'[h] = to /\ \A g \in Reqs \ {h} : guest'[g] = guest[g]
    BY <1>1 DEF WorktreeInv, RequestTypes
  <1>4. Commits(h) /\ guest[h] \notin {"none", "done"}
    BY DEF WorktreeInv, W!Running
  <1>5. Commits(h)'
    BY <1>1, <1>3, <1>4 DEF Commits, Made
  <1> QED BY <1>1, <1>2, <1>3, <1>5, OtherRequests

\* The requests as they are asked, and the channel.
LEMMA AskKeeps == ASSUME WorktreeInv, NEW h \in Reqs, NEW q \in W!Requests, W!Ask(h, q) PROVE WorktreeInv'
  <1>1. /\ UNCHANGED <<guest, work, index, commits, refs, cur, edits>> /\ cp[h] = "idle" /\ req' = [req EXCEPT ![h] = q]
        /\ \/ cp' = [cp EXCEPT ![h] = "resolve"] /\ UNCHANGED res
           \/ cp' = [cp EXCEPT ![h] = "answered"] /\ res' = [res EXCEPT ![h] = [code |-> "machine_not_running"]]
    BY DEF W!Ask, W!Answer, W!repovars
  <1>2. RequestTypes'
    BY <1>1 DEF WorktreeInv, RequestTypes
  <1>3. /\ cp'[h] = "resolve" \/ (cp'[h] = "answered" /\ res'[h].code = "machine_not_running")
        /\ \A g \in Reqs \ {h} : UNCHANGED <<req[g], cp[g], res[g]>>
    BY <1>1 DEF WorktreeInv, RequestTypes
  <1>4. RepoInv'
    BY <1>1, RepoUntouched DEF WorktreeInv
  <1>5. Commits(h) /\ guest[h] = "none"
    BY <1>1 DEF WorktreeInv, Commits
  <1>6. Commits(h)'
    BY <1>1, <1>3, <1>5 DEF Commits, Made
  <1> QED BY <1>1, <1>2, <1>3, <1>4, <1>6, OtherRequests

LEMMA ResolveKeeps == ASSUME WorktreeInv, NEW h \in Reqs, W!Resolve(h) PROVE WorktreeInv'
  <1>1. UNCHANGED <<req, work, index, commits, refs, cur, edits>> /\ cp[h] = "resolve"
    BY DEF W!Resolve, W!repovars
  <1>2. RepoInv' /\ Commits(h) /\ guest[h] = "none"
    BY <1>1, RepoUntouched DEF WorktreeInv, Commits
  <1>3. CASE chan
    <2>1. cp' = [cp EXCEPT ![h] = "wait"] /\ guest' = [guest EXCEPT ![h] = "start"] /\ UNCHANGED res
      BY <1>3 DEF W!Resolve
    <2>2. RequestTypes' /\ cp'[h] = "wait" /\ guest'[h] = "start" /\ \A g \in Reqs \ {h} : UNCHANGED <<cp[g], guest[g]>>
      BY <1>1, <2>1 DEF WorktreeInv, RequestTypes, GuestPc
    <2>3. Commits(h)'
      BY <1>1, <1>2, <2>2 DEF Commits, Made
    <2> QED BY <1>1, <1>2, <2>1, <2>2, <2>3, OtherRequests
  <1>4. CASE ~chan
    <2>1. PICK c \in {"machine_not_running", "guest_unreachable"} :
              cp' = [cp EXCEPT ![h] = "answered"] /\ res' = [res EXCEPT ![h] = [code |-> c]] /\ UNCHANGED guest
      BY <1>4 DEF W!Resolve, W!Answer
    <2>2. RequestTypes' /\ cp'[h] = "answered" /\ res'[h].code = c /\ \A g \in Reqs \ {h} : UNCHANGED <<cp[g], res[g]>>
      BY <1>1, <2>1, Zenon DEF WorktreeInv, RequestTypes
    <2>3. Commits(h)'
      BY <1>1, <1>2, <2>1, <2>2 DEF Commits, Made
    <2> QED BY <1>1, <1>2, <2>1, <2>2, <2>3, OtherRequests
  <1> QED BY <1>3, <1>4

\* The channel ends, and perhaps a request in the guest with it.
LEMMA WaitingFail ==
    ASSUME WorktreeInv, W!FailWaiting, RepoInv', UNCHANGED <<req, commits>>,
           guest' = guest \/ \E h \in Reqs : guest' = [guest EXCEPT ![h] = "done"] /\ cp[h] = "wait" /\ req[h].op = "diff"
    PROVE  WorktreeInv'
  <1>1. /\ cp' = [g \in Reqs |-> IF cp[g] = "wait" THEN "answered" ELSE cp[g]]
        /\ res' = [g \in Reqs |-> IF cp[g] = "wait" THEN [code |-> "guest_unreachable"] ELSE res[g]]
    BY DEF W!FailWaiting
  <1>2. RequestTypes'
    BY <1>1 DEF WorktreeInv, RequestTypes, GuestPc
  <1>3. ASSUME NEW g \in Reqs PROVE Commits(g)'
    <2>1. Commits(g)
      BY DEF WorktreeInv
    <2>2. IF cp[g] = "wait" THEN cp'[g] = "answered" /\ res'[g].code = "guest_unreachable" ELSE cp'[g] = cp[g] /\ res'[g] = res[g]
      BY <1>1 DEF WorktreeInv, RequestTypes
    <2>3. guest'[g] = guest[g] \/ (guest'[g] = "done" /\ cp[g] = "wait" /\ req[g].op = "diff")
      BY DEF WorktreeInv, RequestTypes
    <2> QED BY <2>1, <2>2, <2>3 DEF Commits, Made
  <1> QED BY <1>2, <1>3 DEF WorktreeInv

LEMMA ChannelKeeps == ASSUME WorktreeInv, W!Drop \/ W!Reconnect \/ UNCHANGED W!vars PROVE WorktreeInv'
  <1>1. RepoInv' /\ UNCHANGED <<req, commits, guest>>
    BY RepoUntouched DEF WorktreeInv, W!Drop, W!Reconnect, W!vars, W!reqvars, W!repovars
  <1>2. W!FailWaiting \/ UNCHANGED <<cp, res>>
    BY DEF W!Drop, W!Reconnect, W!vars, W!reqvars
  <1>3. ASSUME UNCHANGED <<cp, res>> PROVE WorktreeInv'
    BY <1>1, <1>3 DEF WorktreeInv, RequestTypes, Commits, Made
  <1> QED BY <1>1, <1>2, <1>3, WaitingFail

LEMMA EditKeeps == ASSUME WorktreeInv, NEW f \in Files, W!Edit(f) PROVE WorktreeInv'
  <1>1. edits' = edits + 1 /\ work' = [work EXCEPT ![f] = edits'] /\ UNCHANGED <<cp, req, res, guest, index, commits, refs, cur>>
    BY DEF W!Edit, W!reqvars
  <1>2. RepoInv'
    <2>1. edits' \in Nat /\ work' \in Trees
      BY <1>1 DEF WorktreeInv, RepoInv, Trees
    <2> QED BY <1>1, <2>1 DEF WorktreeInv, RepoInv, W!CommitOnlyNamed
  <1> QED BY <1>1, <1>2 DEF WorktreeInv, RequestTypes, Commits, Made

\* Requests that read.
LEMMA LooksKeep == ASSUME WorktreeInv, NEW h \in Reqs, W!Status(h) \/ W!Diff(h) PROVE WorktreeInv'
  <1>1. UNCHANGED <<req, work, index, commits, refs, cur, edits>> /\ guest[h] = "start" /\ req[h].op \in {"status", "diff"}
    BY DEF W!Status, W!Diff, W!repovars
  <1>2. RepoInv' /\ W!Running(h)
    BY <1>1, RepoUntouched DEF WorktreeInv, W!Running
  <1>3. ASSUME NEW r, W!Reply(h, r) PROVE WorktreeInv'
    BY <1>1, <1>2, <1>3, Replies
  <1>4. \/ \E r : W!Reply(h, r)
        \/ W!FailWaiting /\ guest' = [guest EXCEPT ![h] = "done"] /\ cp[h] = "wait" /\ req[h].op = "diff"
    BY DEF W!Status, W!Diff
  <1> QED BY <1>1, <1>2, <1>3, <1>4, WaitingFail

\* Commands of a request that change nothing in the repository.
LEMMA ChecksKeep ==
    ASSUME WorktreeInv, NEW h \in Reqs, W!BranchExists(h) \/ W!BranchReply(h) \/ W!NothingStaged(h) \/ W!CommitReply(h) \/ W!Killed(h)
    PROVE  WorktreeInv'
  <1>1. UNCHANGED <<req, work, index, commits, refs, cur, edits>> /\ W!Running(h)
    BY DEF W!BranchExists, W!BranchReply, W!NothingStaged, W!CommitReply, W!Killed, W!repovars, W!Running
  <1>2. RepoInv' /\ Commits(h)
    BY <1>1, RepoUntouched DEF WorktreeInv
  <1>3. ASSUME W!BranchExists(h) PROVE WorktreeInv'
    <2>1. W!Reply(h, [code |-> "branch_exists"]) \/ W!Go(h, "create")
      BY <1>3 DEF W!BranchExists
    <2> QED BY <1>1, <1>2, <1>3, <2>1, Replies, RequestGoesOn DEF W!BranchExists
  <1>4. ASSUME W!BranchReply(h) PROVE WorktreeInv'
    BY <1>1, <1>2, <1>4, Replies DEF W!BranchReply, Commits
  <1>5. ASSUME W!NothingStaged(h) PROVE WorktreeInv'
    <2>1. guest[h] = "staged" /\ (W!Reply(h, [code |-> "nothing_to_commit"]) \/ W!Go(h, "commit"))
      BY <1>5 DEF W!NothingStaged
    <2>2. req[h].op = "commit" /\ Made(h) = {}
      BY <1>2, <2>1 DEF Commits
    <2> QED BY <1>1, <1>2, <2>1, <2>2, Replies, RequestGoesOn
  <1>6. ASSUME W!CommitReply(h) PROVE WorktreeInv'
    BY <1>1, <1>2, <1>6, Replies DEF W!CommitReply, Commits
  <1>7. ASSUME W!Killed(h) PROVE WorktreeInv'
    <2>1. CASE guest[h] \in {"made", "named"} /\ \E r : W!Reply(h, r) /\ r.code = "ok"
      BY <1>1, <1>2, <2>1, Replies DEF Commits
    <2>2. CASE req[h].op = "diff" /\ \E r : W!Reply(h, r)
      BY <1>1, <1>2, <2>2, Replies
    <2>3. CASE \E c \in {"commit_failed", "branch_failed", "guest_unreachable"} : W!Reply(h, [code |-> c])
      BY <1>1, <1>2, <2>3, Replies
    <2> QED BY <1>7, <2>1, <2>2, <2>3 DEF W!Killed
  <1> QED BY <1>3, <1>4, <1>5, <1>6, <1>7

LEMMA HeadIsTree == RepoInv => refs[cur] \in DOMAIN commits /\ W!HeadTree \in Trees /\ \A c \in DOMAIN commits : commits[c] \in CommitRecords
  <1> SUFFICES ASSUME RepoInv PROVE refs[cur] \in DOMAIN commits /\ W!HeadTree \in Trees /\ \A c \in DOMAIN commits : commits[c] \in CommitRecords
    OBVIOUS
  <1>1. refs[cur] \in DOMAIN commits /\ \A c \in DOMAIN commits : commits[c] \in CommitRecords
    BY DEF RepoInv
  <1> QED BY <1>1 DEF W!HeadTree, CommitRecords

\* A branch is created where there was none; with a checkout, files that differ
\* between its start point and HEAD are replaced, which hold what HEAD holds.
LEMMA BranchMade ==
    ASSUME RepoInv, NEW q \in W!BranchRequests, W!Creatable(q), W!CreateBranch(q)
    PROVE  /\ UNCHANGED commits /\ refs'[q.name] \in DOMAIN commits /\ q.name \in W!Names /\ refs' \in [W!Names -> Nat]
           /\ refs[q.name] = W!Absent /\ \A b \in W!Names \ {q.name} : refs'[b] = refs[b]
           /\ cur' \in {cur, q.name} /\ work' \in Trees /\ index' \in Trees
           /\ \A f \in Files : work'[f] # work[f] => work[f] = W!HeadTree[f]
  <1>1. q.name \in W!Names /\ q.from \in W!Names \cup {""}
    BY Zenon DEF W!BranchRequests, W!Names
  <1>2. refs[IF q.from = "" THEN cur ELSE q.from] \in DOMAIN commits
    BY <1>1, HeadIsTree, Zenon DEF RepoInv, W!Creatable
  <1>3. refs' = [refs EXCEPT ![q.name] = refs[IF q.from = "" THEN cur ELSE q.from]] /\ UNCHANGED commits /\ refs[q.name] = W!Absent
        /\ cur' \in {cur, q.name}
    BY Zenon DEF W!CreateBranch, W!Creatable
  <1>4. DOMAIN commits \subseteq Nat /\ refs \in [W!Names -> Nat]
    BY DEF RepoInv
  <1>5. refs' \in [W!Names -> Nat] /\ refs'[q.name] \in DOMAIN commits /\ \A b \in W!Names \ {q.name} : refs'[b] = refs[b]
    BY <1>1, <1>2, <1>3, <1>4, Zenon
  <1> DEFINE over == IF q.checkout THEN W!Differs(q) ELSE {}
             onto(t) == [f \in Files |-> IF f \in over THEN commits[refs[q.from]].tree[f] ELSE t[f]]
  <1>6. work' = onto(work) /\ index' = onto(index)
    BY Zenon DEF W!CreateBranch
  <1>7. over # {} => q.checkout /\ q.from # "" /\ commits[refs[q.from]].tree \in Trees
    BY <1>2, HeadIsTree, Zenon DEF W!Differs, CommitRecords
  <1>8. \A f \in over : work[f] = W!HeadTree[f]
    BY Zenon DEF W!Creatable
  <1>9. ASSUME NEW t \in Trees PROVE onto(t) \in Trees /\ \A f \in Files : onto(t)[f] # t[f] => f \in over
    <2> HIDE DEF over
    <2> QED BY <1>7, Zenon DEF Trees
  <1> HIDE DEF over, onto
  <1>10. work \in Trees /\ index \in Trees
    BY DEF RepoInv
  <1>11. work' \in Trees /\ index' \in Trees /\ \A f \in Files : work'[f] # work[f] => work[f] = W!HeadTree[f]
    BY <1>6, <1>8, <1>9, <1>10
  <1> QED BY <1>1, <1>3, <1>5, <1>11, Zenon

LEMMA RequestOf ==
    ASSUME WorktreeInv, NEW h \in Reqs
    PROVE  /\ req[h].op = "branch" => req[h] \in W!BranchRequests
           /\ req[h].op = "commit" => req[h] \in W!CommitRequests
  <1>1. req[h] \in {[op |-> "none"]} \cup W!CommitRequests \cup W!BranchRequests \cup W!StatusRequests \cup W!DiffRequests
    BY DEF WorktreeInv, RequestTypes, W!Requests
  <1>2. \A q \in W!CommitRequests : q.op = "commit"
    BY DEF W!CommitRequests
  <1>3. \A q \in W!BranchRequests : q.op = "branch"
    BY Zenon DEF W!BranchRequests
  <1>4. \A q \in W!StatusRequests \cup W!DiffRequests \cup {[op |-> "none"]} : q.op \notin {"commit", "branch"}
    BY DEF W!StatusRequests, W!DiffRequests
  <1> QED BY <1>1, <1>2, <1>3, <1>4

LEMMA BranchKeeps == ASSUME WorktreeInv, NEW h \in Reqs, W!Branch(h) PROVE WorktreeInv'
  <1>1. guest[h] = "create" /\ UNCHANGED <<req, edits>> /\ W!Running(h)
    BY DEF W!Branch, W!Running
  <1>2. req[h] \in W!BranchRequests /\ req[h].op = "branch"
    BY <1>1, RequestOf DEF WorktreeInv, Commits
  <1>3. CASE W!Creatable(req[h]) /\ W!CreateBranch(req[h]) /\ W!Go(h, "named")
    <2> DEFINE b0 == req[h].name
    <2>1. /\ UNCHANGED commits /\ refs'[b0] \in DOMAIN commits /\ b0 \in W!Names /\ refs' \in [W!Names -> Nat]
          /\ \A b \in W!Names \ {b0} : refs'[b] = refs[b]
          /\ cur' \in {cur, b0} /\ work' \in Trees /\ index' \in Trees
      BY <1>2, <1>3, BranchMade DEF WorktreeInv
    <2> HIDE DEF b0
    <2>2. refs'[b0] # W!Absent
      BY <2>1 DEF WorktreeInv, RepoInv, W!Absent
    <2>3. RepoInv'
      BY <1>1, <2>1, <2>2, SMTT(30) DEF WorktreeInv, RepoInv, W!CommitOnlyNamed
    <2> QED BY <1>1, <1>2, <1>3, <2>1, <2>3, RequestGoesOn
  <1>4. CASE W!Reply(h, [code |-> "branch_failed"]) /\ UNCHANGED W!repovars
    <2>1. RepoInv' /\ UNCHANGED commits
      BY <1>1, <1>4, RepoUntouched DEF WorktreeInv, W!repovars
    <2> QED BY <1>1, <1>2, <1>4, <2>1, Replies
  <1> QED BY <1>3, <1>4 DEF W!Branch

LEMMA StageKeeps == ASSUME WorktreeInv, NEW h \in Reqs, W!Stage(h) PROVE WorktreeInv'
  <1>1. guest[h] = "start" /\ req[h].op = "commit" /\ UNCHANGED <<req, work, commits, refs, cur, edits>> /\ W!Running(h)
    BY DEF W!Stage, W!Running
  <1>2. CASE W!Go(h, "staged") /\ index' = [f \in Files |-> IF f \in W!Scope(req[h]) THEN work[f] ELSE index[f]]
    <2>1. index' \in Trees
      BY <1>2 DEF WorktreeInv, RepoInv, Trees
    <2>2. RepoInv'
      BY <1>1, <2>1 DEF WorktreeInv, RepoInv, W!CommitOnlyNamed
    <2> QED BY <1>1, <1>2, <2>2, RequestGoesOn
  <1>3. CASE W!Reply(h, [code |-> "commit_failed"]) /\ UNCHANGED index
    <2>1. RepoInv'
      BY <1>1, <1>3, RepoUntouched DEF WorktreeInv
    <2> QED BY <1>1, <1>3, <2>1, Replies
  <1> QED BY <1>2, <1>3 DEF W!Stage

\* A commit takes the place of HEAD's, and differs from it in what it names.
LEMMA CommitMade ==
    ASSUME WorktreeInv, NEW h \in Reqs, req[h] \in W!CommitRequests, W!NewCommit(h), UNCHANGED <<work, cur, edits>>
    PROVE  /\ RepoInv' /\ Len(commits) + 1 \in DOMAIN commits' /\ commits'[Len(commits) + 1].by = h
           /\ DOMAIN commits' = DOMAIN commits \cup {Len(commits) + 1} /\ Len(commits) + 1 \notin DOMAIN commits
           /\ \A c \in DOMAIN commits : commits'[c] = commits[c]
           /\ refs'[cur] = Len(commits) + 1 /\ commits'[Len(commits) + 1].parent = refs[cur]
           /\ \A b \in W!Names \ {cur} : refs'[b] = refs[b]
  <1> DEFINE n == Len(commits) + 1
             new == [tree |-> W!CommitTree(req[h]), parent |-> refs[cur], by |-> h, paths |-> req[h].paths]
  <1>1. commits' = Append(commits, new) /\ refs' = [refs EXCEPT ![cur] = n]
        /\ index' = [f \in Files |-> IF f \in req[h].paths THEN work[f] ELSE index[f]]
    BY DEF W!NewCommit
  <1>2. /\ refs[cur] \in DOMAIN commits /\ refs[cur] \in Nat /\ W!HeadTree \in Trees /\ cur \in W!Names /\ refs \in [W!Names -> Nat]
        /\ req[h].paths \in SUBSET Files /\ work \in Trees /\ index \in Trees /\ commits \in Seq(CommitRecords)
    BY HeadIsTree DEF WorktreeInv, RepoInv, W!CommitRequests
  <1>3. W!CommitTree(req[h]) \in Trees
    BY <1>2 DEF W!CommitTree, Trees
  <1>4. req[h].paths # {} => \A f \in Files \ req[h].paths : W!CommitTree(req[h])[f] = commits[refs[cur]].tree[f]
    BY <1>2 DEF W!CommitTree, W!HeadTree
  <1>5. /\ new \in CommitRecords /\ new.by = h /\ new.parent = refs[cur] /\ new.paths = req[h].paths /\ new.tree = W!CommitTree(req[h])
    BY <1>2, <1>3 DEF CommitRecords
  <1> HIDE DEF new
  <1>6. /\ commits' \in Seq(CommitRecords) /\ commits'[n] = new /\ n \in DOMAIN commits' /\ n \in Nat \ {0} /\ n \notin DOMAIN commits
        /\ DOMAIN commits' = DOMAIN commits \cup {n} /\ \A c \in DOMAIN commits : commits'[c] = commits[c]
    BY <1>1, <1>2, <1>5
  <1>7. index' \in Trees
    BY <1>1, <1>2 DEF Trees
  <1> HIDE DEF n
  <1>8. refs'[cur] = n /\ refs' \in [W!Names -> Nat] /\ \A b \in W!Names \ {cur} : refs'[b] = refs[b]
    BY <1>1, <1>2, <1>6
  <1>9. /\ refs'[cur] # W!Absent /\ \A b \in W!Names : refs'[b] # W!Absent => refs'[b] \in DOMAIN commits'
    BY <1>6, <1>8 DEF WorktreeInv, RepoInv, W!Absent
  <1>10. \A c \in DOMAIN commits' : commits'[c].paths # {} => commits'[c].parent \in DOMAIN commits'
    BY <1>2, <1>5, <1>6, Zenon DEF WorktreeInv, RepoInv
  <1>11. W!CommitOnlyNamed'
    <2> SUFFICES ASSUME NEW c \in DOMAIN commits', commits'[c].paths # {}, NEW f \in Files \ commits'[c].paths
                 PROVE  commits'[c].tree[f] = commits'[commits'[c].parent].tree[f]
      BY DEF W!CommitOnlyNamed
    <2>1. CASE c = n
      BY <1>2, <1>4, <1>5, <1>6, <2>1
    <2>2. CASE c # n
      <3>1. c \in DOMAIN commits /\ commits'[c] = commits[c] /\ commits[c].parent \in DOMAIN commits
        BY <1>6, <2>2 DEF WorktreeInv, RepoInv
      <3>2. commits[c].tree[f] = commits[commits[c].parent].tree[f]
        BY <3>1 DEF WorktreeInv, RepoInv, W!CommitOnlyNamed
      <3> QED BY <1>6, <3>1, <3>2
    <2> QED BY <2>1, <2>2
  <1>12. RepoInv'
    BY <1>2, <1>6, <1>7, <1>8, <1>9, <1>10, <1>11 DEF WorktreeInv, RepoInv
  <1> QED BY <1>5, <1>6, <1>8, <1>12 DEF n

LEMMA CommitKeeps == ASSUME WorktreeInv, NEW h \in Reqs, W!Commit(h) PROVE WorktreeInv'
  <1>1. guest[h] = "commit" /\ UNCHANGED <<req, work, cur, edits>> /\ W!Running(h)
    BY DEF W!Commit, W!Running
  <1>2. req[h] \in W!CommitRequests /\ Made(h) = {} /\ req[h].op = "commit" /\ cp[h] \notin {"idle", "resolve"}
    BY <1>1, RequestOf DEF WorktreeInv, Commits
  <1>3. CASE W!NewCommit(h) /\ W!Go(h, "made")
    <2> DEFINE n == Len(commits) + 1
    <2>1. /\ RepoInv' /\ n \in DOMAIN commits' /\ commits'[n].by = h /\ DOMAIN commits' = DOMAIN commits \cup {n} /\ n \notin DOMAIN commits
          /\ \A c \in DOMAIN commits : commits'[c] = commits[c]
      BY <1>1, <1>2, <1>3, CommitMade, Zenon
    <2> HIDE DEF n
    <2>2. guest' = [guest EXCEPT ![h] = "made"] /\ UNCHANGED <<cp, res>>
      BY <1>3 DEF W!Go
    <2>3. RequestTypes' /\ guest'[h] = "made" /\ \A g \in Reqs \ {h} : guest'[g] = guest[g]
      BY <1>1, <2>2 DEF WorktreeInv, RequestTypes, GuestPc
    <2>4. Made(h)' = {n} /\ \A g \in Reqs \ {h} : Made(g)' = Made(g)
      BY <1>2, <2>1 DEF Made
    <2>5. Commits(h)'
      <3>1. cp[h] = "answered" => res[h].code \notin {"ok", "nothing_to_commit"}
        BY <1>1, <1>2 DEF WorktreeInv, Commits
      <3> QED BY <1>1, <1>2, <2>1, <2>2, <2>3, <2>4, <3>1 DEF Commits
    <2>6. ASSUME NEW g \in Reqs \ {h} PROVE Commits(g)'
      BY <1>1, <2>1, <2>2, <2>3, <2>4 DEF WorktreeInv, Commits
    <2> QED BY <2>1, <2>3, <2>5, <2>6 DEF WorktreeInv
  <1>4. CASE W!Reply(h, [code |-> "commit_failed"]) /\ UNCHANGED <<commits, refs, index>>
    <2>1. RepoInv'
      BY <1>1, <1>4, RepoUntouched DEF WorktreeInv
    <2> QED BY <1>1, <1>4, <2>1, Replies
  <1> QED BY <1>3, <1>4 DEF W!Commit

LEMMA WorktreeNext == ASSUME WorktreeInv, W!Next \/ UNCHANGED W!vars PROVE WorktreeInv'
  BY ResolveKeeps, LooksKeep, ChecksKeep, BranchKeeps, StageKeeps, CommitKeeps, AskKeeps, EditKeeps, ChannelKeeps DEF W!Next, W!Serve

LEMMA WorktreeBegins == ASSUME NoClone, W!Init PROVE WorktreeInv
  <1> DEFINE old == [tree |-> [f \in Files |-> 0], parent |-> W!Absent, by |-> "clone", paths |-> {}]
             main == [tree |-> [f \in Files |-> IF f = CHOOSE g \in Files : TRUE THEN 1 ELSE 0], parent |-> 1, by |-> "clone", paths |-> {}]
  <1>1. commits = <<old, main>> /\ work = commits[2].tree /\ index = work
    BY DEF W!Init
  <1>2. old \in CommitRecords /\ main \in CommitRecords /\ main.tree \in Trees /\ old.by = "clone" /\ main.by = "clone" /\ old.paths = {} /\ main.paths = {}
    BY DEF CommitRecords, Trees, W!Absent
  <1> HIDE DEF old, main
  <1>3. commits \in Seq(CommitRecords) /\ DOMAIN commits = {1, 2} /\ \A c \in DOMAIN commits : commits[c].by = "clone" /\ commits[c].paths = {}
    BY <1>1, <1>2
  <1>4. work \in Trees /\ index \in Trees
    BY <1>1, <1>2
  <1>5. refs \in [W!Names -> Nat] /\ cur \in W!Names /\ refs[cur] = 2 /\ \A b \in W!Names : refs[b] \in {0, 1, 2}
    BY DEF W!Init, W!Names, W!Absent
  <1>6. RepoInv
    <2>1. edits \in Nat
      BY DEF W!Init
    <2>2. W!CommitOnlyNamed
      BY <1>3 DEF W!CommitOnlyNamed
    <2> QED BY <1>3, <1>4, <1>5, <2>1, <2>2 DEF RepoInv, W!Absent
  <1>7. RequestTypes
    BY DEF W!Init, RequestTypes, GuestPc
  <1>8. ASSUME NEW h \in Reqs PROVE Commits(h)
    BY <1>3 DEF W!Init, Commits, Made, NoClone
  <1> QED BY <1>6, <1>7, <1>8 DEF WorktreeInv

\* What moves a branch, and what changes the working tree.
LEMMA BranchesMove ==
    ASSUME WorktreeInv, W!Next
    PROVE  /\ \A b \in W!Names : refs[b] # W!Absent /\ refs'[b] # refs[b] =>
                b = cur /\ commits' # commits /\ commits'[refs'[b]].parent = refs[b]
           /\ \A f \in Files : work'[f] # work[f] => edits' # edits \/ work[f] = W!HeadTree[f]
  <1>1. ASSUME NEW h \in Reqs, W!Branch(h), ~UNCHANGED W!repovars
        PROVE  /\ \A b \in W!Names : refs[b] # W!Absent => refs'[b] = refs[b]
               /\ \A f \in Files : work'[f] # work[f] => work[f] = W!HeadTree[f]
    <2>1. W!Creatable(req[h]) /\ W!CreateBranch(req[h]) /\ guest[h] = "create"
      BY <1>1 DEF W!Branch
    <2>2. req[h] \in W!BranchRequests
      BY <2>1, RequestOf DEF WorktreeInv, Commits
    <2> QED BY <2>1, <2>2, BranchMade DEF WorktreeInv
  <1>2. ASSUME NEW h \in Reqs, W!Commit(h)
        PROVE  /\ \A b \in W!Names : refs'[b] # refs[b] => b = cur /\ commits' # commits /\ commits'[refs'[b]].parent = refs[b]
               /\ UNCHANGED work
    <2>1. UNCHANGED <<work, cur, edits>> /\ guest[h] = "commit" /\ (W!NewCommit(h) \/ UNCHANGED refs)
      BY <1>2 DEF W!Commit
    <2>2. req[h] \in W!CommitRequests
      BY <2>1, RequestOf DEF WorktreeInv, Commits
    <2> QED BY <2>1, <2>2, CommitMade
  <1>3. ASSUME NEW f \in Files, W!Edit(f) PROVE edits' # edits /\ UNCHANGED refs
    BY <1>3 DEF W!Edit, WorktreeInv, RepoInv
  <1>4. \/ \E h \in Reqs : W!Commit(h) \/ (W!Branch(h) /\ ~UNCHANGED W!repovars)
        \/ \E f \in Files : W!Edit(f)
        \/ UNCHANGED <<refs, work>>
    BY ZenonT(40) DEF W!Next, W!Serve, W!Resolve, W!Status, W!Diff, W!BranchExists, W!BranchReply, W!Stage, W!NothingStaged, W!CommitReply, W!Killed, W!Ask,
           W!Drop, W!Reconnect, W!repovars
  <1> QED BY <1>1, <1>2, <1>3, <1>4

(***************************************************************************)
(* The fleet (Fleet), when hosts that have machines stay active and a      *)
(* machine is started again only between sweeps (Undisturbed), for any     *)
(* number of hosts, faults and moves: a machine is on an active host       *)
(* (Placed), and one that runs and that a sweep has read is on a host it   *)
(* has yet to ask, or in its list (Swept).                                 *)
(***************************************************************************)
Undisturbed == "retire" \notin FleetMay /\ "start" \notin FleetMay
HostRows == Hosts \in SUBSET (Nat \ {0})

RowStates == {"none", "starting", "running", "stopped", "error"}

FleetTypes ==
    /\ active \in SUBSET Hosts /\ url \in [Hosts -> Nat] /\ addr \in [Hosts -> Nat]
    /\ row \in [Guests -> [state : RowStates, host : Nat]] /\ vm \in [Guests -> {"none", "running", "stopped", "error"}]
    /\ create = [m \in Guests |-> create[m]]
    /\ \A m \in Guests : create[m] = [pc |-> create[m].pc, left |-> create[m].left, best |-> create[m].best, free |-> create[m].free]
    /\ sweep \in [pc : {"idle", "list"}, rows : SUBSET Guests, left : SUBSET Hosts, urls : [Hosts -> Nat], running : SUBSET Guests]

Placed(m) ==
    /\ row[m].state # "none" => row[m].host \in active
    /\ create[m].pc = "no" => create[m].best = 0
    /\ create[m].pc \in {"query", "insert"} =>
         /\ row[m].state = "none" /\ (create[m].pc = "query" => create[m].left \subseteq active)
         /\ create[m].best \in active \/ (create[m].best = 0 /\ create[m].pc = "query")

Swept(m) ==
    sweep.pc = "list" /\ m \in sweep.rows =>
        /\ row[m].state \in {"running", "stopped", "error"}
        /\ row[m].state = "running" /\ vm[m] = "running" => row[m].host \in sweep.left \/ m \in sweep.running

FleetInv == FleetTypes /\ \A m \in Guests : Placed(m) /\ Swept(m)

\* Every non-empty set of naturals has a least element.
LEMMA Least == ASSUME NEW T \in SUBSET Nat, T # {} PROVE \E x \in T : \A y \in T : x =< y
  <1> DEFINE R == {ss \in Nat \X Nat : ss[1] < ss[2]}
  <1>1. IsWellFoundedOn(R, Nat)
    BY NatLessThanWellFounded DEF OpToRel
  <1> HIDE DEF R
  <1>2. PICK x \in T : \A y \in T : ~(<<y, x>> \in R)
    BY <1>1, WFMin, Zenon
  <1>3. \A y \in T : x =< y
    <2>1. \A y \in T : ~(y < x)
      BY <1>2, Zenon DEF R
    <2> QED BY <1>2, <2>1
  <1> QED BY <1>3

\* Of hosts that are not none, one comes first.
LEMMA FirstHost == ASSUME NEW T \in SUBSET Nat, T # {} PROVE F!Min(T) \in T
  BY Least, Zenon DEF F!Min

\* A call to a host arrives exactly when its agent answers where its row says.
LEMMA CallsArrive ==
    ASSUME NEW h, NEW rowUrl
    PROVE  F!Reaches(h, rowUrl) <=> h \in up /\ rowUrl = addr[h]
  BY DEF F!Reaches, F!clientForHost

\* The same for the machines of a step that leaves the hosts, or the machines,
\* as they are.
LEMMA MachinesKept ==
    ASSUME FleetInv, UNCHANGED <<active, row, vm, create, sweep>>, url' \in [Hosts -> Nat], addr' \in [Hosts -> Nat]
    PROVE  FleetInv'
  BY DEF FleetInv, FleetTypes, Placed, Swept

\* A step of one create, its machine's row as it was.
LEMMA CreateGoesOn ==
    ASSUME FleetInv, NEW m \in Guests, NEW c, UNCHANGED <<active, url, addr, row, vm, sweep>>, create' = [create EXCEPT ![m] = c],
           c = [pc |-> c.pc, left |-> c.left, best |-> c.best, free |-> c.free],
           c.pc = "no" => c.best = 0,
           c.pc \in {"query", "insert"} =>
             /\ row[m].state = "none" /\ (c.pc = "query" => c.left \subseteq active)
             /\ c.best \in active \/ (c.best = 0 /\ c.pc = "query")
    PROVE  FleetInv'
  <1>1. create'[m] = c /\ (\A n \in Guests \ {m} : create'[n] = create[n]) /\ create' = [n \in Guests |-> create'[n]]
    BY DEF FleetInv, FleetTypes
  <1>2. FleetTypes'
    <2>1. \A n \in Guests : create'[n] = [pc |-> create'[n].pc, left |-> create'[n].left, best |-> create'[n].best, free |-> create'[n].free]
      BY <1>1 DEF FleetInv, FleetTypes
    <2> QED BY <1>1, <2>1 DEF FleetInv, FleetTypes
  <1>3. ASSUME NEW n \in Guests PROVE Placed(n)' /\ Swept(n)'
    BY <1>1 DEF FleetInv, Placed, Swept
  <1> QED BY <1>2, <1>3 DEF FleetInv

LEMMA CreateBegins == ASSUME FleetInv, NEW m \in Guests, F!Create(m) PROVE FleetInv'
  <1> DEFINE c == create[m]
             d == IF active = {} THEN [c EXCEPT !.pc = "done"]
                  ELSE IF F!Cardinality(active) = 1 THEN [c EXCEPT !.pc = "insert", !.best = CHOOSE h \in active : TRUE]
                  ELSE [c EXCEPT !.pc = "query", !.left = active]
  <1>1. UNCHANGED <<active, url, addr, row, vm, sweep>> /\ create' = [create EXCEPT ![m] = d] /\ row[m].state = "none" /\ c.pc = "no"
    BY DEF F!Create, F!hostvars
  <1>2. c = [pc |-> c.pc, left |-> c.left, best |-> c.best, free |-> c.free]
    BY DEF FleetInv, FleetTypes
  <1>3. c.best = 0
    BY <1>1 DEF FleetInv, Placed
  <1> HIDE DEF c
  <1>4. CASE active = {}
    <2>1. d = [pc |-> "done", left |-> c.left, best |-> c.best, free |-> c.free]
      BY <1>2, <1>4
    <2> HIDE DEF d
    <2> QED BY <1>1, <2>1, CreateGoesOn, Zenon
  <1>5. CASE active # {} /\ F!Cardinality(active) = 1
    <2>1. PICK h \in active : d = [pc |-> "insert", left |-> c.left, best |-> h, free |-> c.free]
      BY <1>2, <1>5, Zenon
    <2> HIDE DEF d
    <2> QED BY <1>1, <2>1, CreateGoesOn, Zenon
  <1>6. CASE active # {} /\ F!Cardinality(active) # 1
    <2>1. d = [pc |-> "query", left |-> active, best |-> 0, free |-> c.free]
      BY <1>2, <1>3, <1>6, Zenon
    <2> HIDE DEF d
    <2> QED BY <1>1, <2>1, CreateGoesOn, Zenon
  <1> QED BY <1>4, <1>5, <1>6

LEMMA QueryKeeps == ASSUME FleetInv, HostRows, NEW m \in Guests, F!Query(m) \/ F!Choose(m) PROVE FleetInv'
  <1> DEFINE c == create[m]
  <1>1. UNCHANGED <<active, url, addr, row, vm, sweep>> /\ c.pc = "query"
    BY DEF F!Query, F!Choose, F!hostvars
  <1>2. c = [pc |-> c.pc, left |-> c.left, best |-> c.best, free |-> c.free]
    BY DEF FleetInv, FleetTypes
  <1>3. row[m].state = "none" /\ c.left \subseteq active /\ (c.best \in active \/ c.best = 0)
    BY <1>1 DEF FleetInv, Placed
  <1>4. ASSUME F!Query(m) PROVE FleetInv'
    <2> DEFINE h == F!Min(c.left)  rest == [c EXCEPT !.left = @ \ {h}]
               d == IF F!Reaches(h, url[h]) /\ F!Fits(h, m) /\ (rest.best = 0 \/ F!Capacity(h, "mem") > rest.free)
                    THEN [rest EXCEPT !.best = h, !.free = F!Capacity(h, "mem")] ELSE rest
    <2>1. create' = [create EXCEPT ![m] = d] /\ c.left # {}
      BY <1>4 DEF F!Query
    <2>2. h \in active
      BY <1>3, <2>1, FirstHost DEF FleetInv, FleetTypes, HostRows
    <2> HIDE DEF c, h
    <2>3. PICK best, free : d = [pc |-> "query", left |-> c.left \ {h}, best |-> best, free |-> free] /\ best \in {c.best, h}
      BY <1>1, <1>2, Zenon
    <2> HIDE DEF d
    <2>4. c.left \ {h} \subseteq active
      BY <1>3
    <2> QED BY <1>1, <1>3, <2>1, <2>2, <2>3, <2>4, CreateGoesOn, Zenon
  <1>5. ASSUME F!Choose(m) PROVE FleetInv'
    <2>1. PICK to \in {"done", "insert"} : create' = [create EXCEPT ![m].pc = to] /\ (to = "insert" => c.best # 0)
      BY <1>5, Zenon DEF F!Choose
    <2> DEFINE d == [pc |-> to, left |-> c.left, best |-> c.best, free |-> c.free]
    <2>2. create' = [create EXCEPT ![m] = d]
      <3>1. [c EXCEPT !.pc = to] = d
        BY <1>2
      <3> QED BY <2>1, <3>1, Zenon
    <2>3. d.pc = to /\ d.best = c.best /\ d = [pc |-> d.pc, left |-> d.left, best |-> d.best, free |-> d.free]
      OBVIOUS
    <2> HIDE DEF c, d
    <2> QED BY <1>1, <1>3, <2>1, <2>2, <2>3, CreateGoesOn, Zenon
  <1> QED BY <1>4, <1>5

\* The row of one machine changes, its host only when it has none yet.
LEMMA RowChanges ==
    ASSUME FleetInv, NEW m \in Guests, NEW s \in RowStates \ {"none"}, NEW h \in active,
           row' = [row EXCEPT ![m] = [state |-> s, host |-> h]], vm' = vm \/ (\E v \in {"running", "stopped"} : vm' = [vm EXCEPT ![m] = v]),
           create' = create \/ (\E c \in {"ensure", "done"} : create' = [create EXCEPT ![m].pc = c]),
           create'[m].pc \notin {"query", "insert"},
           HostRows, UNCHANGED <<active, url, addr, sweep>>,
           sweep.pc = "list" /\ m \in sweep.rows => s \in {"running", "stopped", "error"},
           sweep.pc = "list" /\ m \in sweep.rows => s # "running"
    PROVE  FleetInv'
  <1>1. row' \in [Guests -> [state : RowStates, host : Nat]] /\ row'[m].state = s /\ row'[m].host = h /\ \A n \in Guests \ {m} : row'[n] = row[n]
    BY DEF FleetInv, FleetTypes, HostRows
  <1>2. vm' \in [Guests -> {"none", "running", "stopped", "error"}] /\ \A n \in Guests \ {m} : vm'[n] = vm[n]
    <2>1. vm \in [Guests -> {"none", "running", "stopped", "error"}]
      BY DEF FleetInv, FleetTypes
    <2>2. ASSUME NEW v \in {"running", "stopped"}, vm' = [vm EXCEPT ![m] = v]
          PROVE  vm' \in [Guests -> {"none", "running", "stopped", "error"}] /\ \A n \in Guests \ {m} : vm'[n] = vm[n]
      BY <2>1, <2>2
    <2> QED BY <2>1, <2>2
  <1>3. /\ create' = [n \in Guests |-> create'[n]] /\ (\A n \in Guests \ {m} : create'[n] = create[n])
        /\ create'[m].best = create[m].best /\ (create'[m].pc \in {"ensure", "done"} \/ create'[m] = create[m])
        /\ create'[m] = [pc |-> create'[m].pc, left |-> create'[m].left, best |-> create'[m].best, free |-> create'[m].free]
    BY DEF FleetInv, FleetTypes
  <1>4. FleetTypes'
    <2>1. \A n \in Guests : create'[n] = [pc |-> create'[n].pc, left |-> create'[n].left, best |-> create'[n].best, free |-> create'[n].free]
      BY <1>3 DEF FleetInv, FleetTypes
    <2> QED BY <1>1, <1>2, <1>3, <2>1 DEF FleetInv, FleetTypes
  <1>5. ASSUME NEW n \in Guests PROVE Placed(n)' /\ Swept(n)'
    <2>1. CASE n = m
      BY <1>1, <1>3, <2>1 DEF FleetInv, Placed, Swept
    <2>2. CASE n # m
      BY <1>1, <1>2, <1>3, <2>2 DEF FleetInv, Placed, Swept
    <2> QED BY <2>1, <2>2
  <1> QED BY <1>4, <1>5 DEF FleetInv

LEMMA CreateMachineKeeps == ASSUME FleetInv, HostRows, NEW m \in Guests, F!CreateMachine(m) PROVE FleetInv'
  <1>1. /\ create[m].pc = "insert" /\ UNCHANGED <<active, url, addr, vm, sweep>>
        /\ row' = [row EXCEPT ![m] = [state |-> "starting", host |-> create[m].best]] /\ create' = [create EXCEPT ![m].pc = "ensure"]
    BY DEF F!CreateMachine, F!hostvars
  <1>2. create[m].best \in active /\ row[m].state = "none" /\ Swept(m)
    BY <1>1 DEF FleetInv, Placed
  <1>3. create'[m].pc = "ensure"
    BY <1>1 DEF FleetInv, FleetTypes
  <1> QED BY <1>1, <1>2, <1>3, RowChanges, Zenon DEF Swept, RowStates

\* A boot, a start and a stop, which leave the machine where it is.
LEMMA OperationsKeep ==
    ASSUME FleetInv, HostRows, Undisturbed, NEW m \in Guests, F!Ensure(m) \/ F!Start(m) \/ F!Stop(m)
    PROVE  FleetInv'
  <1>1. /\ UNCHANGED <<active, url, addr, sweep>> /\ row[m].state # "none"
        /\ vm' = vm \/ (\E v \in {"running", "stopped"} : vm' = [vm EXCEPT ![m] = v])
        /\ create' = create \/ create' = [create EXCEPT ![m].pc = "done"]
    <2>1. CASE F!Reached(m)
      BY <2>1 DEF F!Ensure, F!Start, F!Stop, F!hostvars
    <2>2. CASE ~F!Reached(m)
      <3>1. [vm EXCEPT ![m] = vm[m]] = vm
        BY DEF FleetInv, FleetTypes
      <3> QED BY <2>2, <3>1 DEF F!Ensure, F!Start, F!Stop, F!hostvars
    <2> QED BY <2>1, <2>2
  <1>2. row[m].host \in active /\ create[m].pc \notin {"query", "insert"} /\ Swept(m)
    BY <1>1 DEF FleetInv, Placed
  <1>3. create'[m].pc \notin {"query", "insert"}
    BY <1>1, <1>2 DEF FleetInv, FleetTypes
  <1>4. PICK s \in {"starting", "running", "stopped", "error"} :
            /\ row' = [row EXCEPT ![m].state = s]
            /\ s = "starting" => sweep.pc = "idle"
            /\ s = "running" => row[m].state = "starting"
            /\ s = "error" => row[m].state \in {"starting", "running"}
    BY DEF F!Ensure, F!Start, F!Stop, Undisturbed
  <1>5. row' = [row EXCEPT ![m] = [state |-> s, host |-> row[m].host]]
    <2>1. row[m] \in [state : RowStates, host : Nat]
      BY DEF FleetInv, FleetTypes
    <2>2. [row[m] EXCEPT !.state = s] = [state |-> s, host |-> row[m].host]
      BY <2>1
    <2> QED BY <1>4, <2>2, Zenon
  <1>6. sweep.pc = "list" /\ m \in sweep.rows => s \in {"stopped", "error"}
    BY <1>2, <1>4 DEF Swept
  <1> QED BY <1>1, <1>2, <1>3, <1>5, <1>6, RowChanges, Zenon DEF RowStates

\* Machines taken for lost stay where they are, and the sweep is over.
LEMMA SweepOver == ASSUME FleetInv, NEW lost, F!toError(lost), UNCHANGED <<active, url, addr, vm, create>>, sweep' = F!NoSweep PROVE FleetInv'
  <1>1. /\ row' = [m \in Guests |-> IF m \in lost /\ row[m].state = "running" THEN [row[m] EXCEPT !.state = "error"] ELSE row[m]]
        /\ sweep' = [pc |-> "idle", rows |-> {}, left |-> {}, urls |-> [h \in Hosts |-> 0], running |-> {}]
    BY DEF F!toError, F!NoSweep
  <1>2. \A m \in Guests : row'[m] \in [state : RowStates, host : Nat] /\ row'[m].host = row[m].host /\ (row'[m].state = "none" <=> row[m].state = "none")
    BY <1>1, ZenonT(40) DEF FleetInv, FleetTypes, RowStates
  <1>3. FleetTypes'
    BY <1>1, <1>2 DEF FleetInv, FleetTypes
  <1>4. ASSUME NEW m \in Guests PROVE Placed(m)' /\ Swept(m)'
    BY <1>1, <1>2 DEF FleetInv, Placed, Swept
  <1> QED BY <1>3, <1>4 DEF FleetInv

LEMMA SweepKeeps == ASSUME FleetInv, F!SweepStart \/ F!List \/ F!ListFails \/ F!SweepEnd PROVE FleetInv'
  <1>1. ASSUME F!SweepStart PROVE FleetInv'
    <2>1. UNCHANGED <<active, url, addr, row, vm, create>>
          /\ sweep' = [pc |-> "list", rows |-> F!RunningRows, left |-> active, urls |-> url, running |-> {}]
      BY <1>1 DEF F!SweepStart, F!hostvars
    <2>2. F!RunningRows = {m \in Guests : row[m].state = "running"}
      BY DEF F!RunningRows
    <2>3. FleetTypes'
      BY <2>1, <2>2 DEF FleetInv, FleetTypes
    <2>4. ASSUME NEW m \in Guests PROVE Placed(m)' /\ Swept(m)'
      BY <2>1, <2>2 DEF FleetInv, Placed, Swept
    <2> QED BY <2>3, <2>4 DEF FleetInv
  <1>2. ASSUME F!List PROVE FleetInv'
    <2>1. PICK h : UNCHANGED <<active, url, addr, row, vm, create>>
                   /\ sweep' = [sweep EXCEPT !.left = @ \ {h}, !.running = @ \cup F!OnHost(h)]
      BY <1>2, Zenon DEF F!List, F!hostvars
    <2>2. F!OnHost(h) = {m \in Guests : row[m].host = h /\ vm[m] = "running"}
      BY DEF F!OnHost
    <2>3. /\ sweep' \in [pc : {"idle", "list"}, rows : SUBSET Guests, left : SUBSET Hosts, urls : [Hosts -> Nat], running : SUBSET Guests]
          /\ sweep'.left = sweep.left \ {h} /\ sweep'.running = sweep.running \cup F!OnHost(h) /\ sweep'.pc = sweep.pc /\ sweep'.rows = sweep.rows
      BY <2>1, <2>2, ZenonT(40) DEF FleetInv, FleetTypes
    <2>4. FleetTypes'
      BY <2>1, <2>3 DEF FleetInv, FleetTypes
    <2>5. ASSUME NEW m \in Guests PROVE Placed(m)' /\ Swept(m)'
      BY <2>1, <2>2, <2>3, ZenonT(40) DEF FleetInv, Placed, Swept
    <2> QED BY <2>4, <2>5 DEF FleetInv
  <1>3. ASSUME F!ListFails \/ F!SweepEnd PROVE FleetInv'
    BY <1>3, SweepOver DEF F!ListFails, F!SweepEnd, F!hostvars
  <1> QED BY <1>1, <1>2, <1>3

LEMMA HostsKeep == ASSUME FleetInv, Undisturbed, NEW h \in Hosts, F!AgentDown(h) \/ F!AgentUp(h) \/ F!AgentMoves(h) \/ F!Repoint(h) \/ F!Deactivate(h)
                   PROVE  FleetInv'
  <1>1. UNCHANGED <<row, vm, create, sweep>>
    BY DEF F!AgentDown, F!AgentUp, F!AgentMoves, F!Repoint, F!Deactivate
  <1>2. url' \in [Hosts -> Nat] /\ addr' \in [Hosts -> Nat]
    BY DEF F!AgentDown, F!AgentUp, F!AgentMoves, F!Repoint, F!Deactivate, FleetInv, FleetTypes
  <1>3. ASSUME F!Deactivate(h) PROVE FleetInv'
    <2>1. active' = active \ {h} /\ F!Quiet /\ \A m \in Guests : row[m].host # h
      BY <1>3 DEF F!Deactivate, Undisturbed
    <2>2. FleetTypes'
      BY <1>1, <1>2, <2>1 DEF FleetInv, FleetTypes
    <2>3. ASSUME NEW m \in Guests PROVE Placed(m)' /\ Swept(m)'
      BY <1>1, <2>1 DEF FleetInv, Placed, Swept, F!Quiet
    <2> QED BY <2>2, <2>3 DEF FleetInv
  <1>4. F!Deactivate(h) \/ UNCHANGED active
    BY DEF F!AgentDown, F!AgentUp, F!AgentMoves, F!Repoint
  <1> QED BY <1>1, <1>2, <1>3, <1>4, MachinesKept

LEMMA VMDiesKeeps == ASSUME FleetInv, NEW m \in Guests, F!VMDies(m) PROVE FleetInv'
  <1>1. vm' = [vm EXCEPT ![m] = "error"] /\ UNCHANGED <<active, url, addr, row, create, sweep>>
    BY DEF F!VMDies, F!hostvars
  <1>2. vm' \in [Guests -> {"none", "running", "stopped", "error"}] /\ \A n \in Guests : vm'[n] = "running" => vm[n] = "running"
    BY <1>1 DEF FleetInv, FleetTypes
  <1>3. FleetTypes'
    BY <1>1, <1>2 DEF FleetInv, FleetTypes
  <1>4. ASSUME NEW n \in Guests PROVE Placed(n)' /\ Swept(n)'
    BY <1>1, <1>2 DEF FleetInv, Placed, Swept
  <1> QED BY <1>3, <1>4 DEF FleetInv

LEMMA FleetNext == ASSUME FleetInv, HostRows, Undisturbed, F!Next \/ UNCHANGED F!vars PROVE FleetInv'
  <1>1. ASSUME UNCHANGED F!vars PROVE FleetInv'
    BY <1>1 DEF F!vars, F!hostvars, FleetInv, FleetTypes, Placed, Swept
  <1> QED BY <1>1, CreateBegins, QueryKeeps, CreateMachineKeeps, OperationsKeep, VMDiesKeeps, SweepKeeps, HostsKeep DEF F!Next

LEMMA FleetBegins == ASSUME HostRows, F!Init PROVE FleetInv
  <1>1. \A m \in Guests : create[m] = [pc |-> "no", left |-> {}, best |-> 0, free |-> 0] /\ row[m] = [state |-> "none", host |-> 0]
    BY DEF F!Init, F!NoCall
  <1>2. sweep = [pc |-> "idle", rows |-> {}, left |-> {}, urls |-> [h \in Hosts |-> 0], running |-> {}]
    BY DEF F!Init, F!NoSweep
  <1>3. FleetTypes
    <2>1. row \in [Guests -> [state : RowStates, host : Nat]] /\ create = [m \in Guests |-> create[m]]
      BY DEF F!Init, RowStates
    <2> QED BY <1>1, <1>2, <2>1 DEF F!Init, FleetTypes
  <1> QED BY <1>1, <1>2, <1>3 DEF FleetInv, Placed, Swept

\* What a sweep takes for lost does not run, and a call fails only for its host.
LEMMA FailuresTell ==
    ASSUME FleetInv, F!Next, NEW m \in Guests
    PROVE  /\ sweep.pc = "list" /\ sweep.left = {} /\ sweep' # sweep /\ row[m].state = "running" /\ row'[m].state = "error" => vm[m] # "running"
           /\ row[m].state # "error" /\ row'[m].state = "error" /\ sweep' = sweep => row[m].host \notin up \/ F!Moved(row[m].host)
  <1>1. ASSUME F!SweepEnd PROVE row[m].state = "running" /\ row'[m].state = "error" => vm[m] # "running"
    <2>1. sweep.pc = "list" /\ sweep.left = {} /\ F!toError(sweep.rows \ sweep.running)
      BY <1>1 DEF F!SweepEnd
    <2>2. row'[m].state # row[m].state => m \in sweep.rows \ sweep.running
      BY <2>1 DEF F!toError
    <2> QED BY <2>1, <2>2 DEF FleetInv, Swept
  <1>2. sweep.pc = "list" /\ sweep.left = {} /\ sweep' # sweep => F!SweepEnd
    BY ZenonT(40) DEF F!Next, F!Create, F!Query, F!Choose, F!CreateMachine, F!Ensure, F!Start, F!Stop, F!VMDies, F!SweepStart, F!List, F!ListFails,
           F!AgentDown, F!AgentUp, F!AgentMoves, F!Repoint, F!Deactivate
  <1>3. ASSUME row[m].state # "error", row'[m].state = "error", sweep' = sweep PROVE row[m].host \notin up \/ F!Moved(row[m].host)
    <2>1. ~F!ListFails /\ ~F!SweepEnd
      BY <1>3 DEF F!ListFails, F!SweepEnd, F!NoSweep
    <2>2. PICK n \in Guests : F!CreateMachine(n) \/ F!Ensure(n) \/ F!Start(n) \/ F!Stop(n)
      <3>1. row' # row
        BY <1>3
      <3> QED BY <2>1, <3>1, ZenonT(40) DEF F!Next, F!Create, F!Query, F!Choose, F!VMDies, F!SweepStart, F!List, F!AgentDown, F!AgentUp, F!AgentMoves, F!Repoint,
                                F!Deactivate
    <2>3. \E r : row' = [row EXCEPT ![n] = r] /\ r.state = row'[n].state
      BY <2>2 DEF F!CreateMachine, F!Ensure, F!Start, F!Stop, FleetInv, FleetTypes
    <2>4. n = m
      BY <1>3, <2>3 DEF FleetInv, FleetTypes
    <2>5. row \in [Guests -> [state : RowStates, host : Nat]]
      BY DEF FleetInv, FleetTypes
    <2>6. ~F!Reached(m)
      BY <1>3, <2>2, <2>4, <2>5 DEF F!CreateMachine, F!Ensure, F!Start, F!Stop
    <2> QED BY <2>6, CallsArrive DEF F!Reached, F!Moved
  <1> QED BY <1>1, <1>2, <1>3

(***************************************************************************)
(* Placement (Fleet), when creates come one at a time, a machine is        *)
(* started again where it fits, and there is not one host only, which is   *)
(* placed on without asking its agent (chooseHost).  What is in use of a   *)
(* host is a sum over the machines that run there, in any order            *)
(* (SumOne); the host of the one machine that is to boot has room for it   *)
(* until it does (RoomInv).                                                *)
(***************************************************************************)
\* f sums what the machines of each part of T need.
Adds(f, T, what) ==
    f = [s \in SUBSET T |-> IF s = {} THEN 0 ELSE LET x == CHOOSE x \in s : TRUE IN Need[x][what] + f[s \ {x}]]

Sized ==
    /\ IsFiniteSet(Guests)
    /\ \A what \in {"vcpus", "mem"} : (\A m \in Guests : Need[m][what] \in Nat) /\ (\A h \in Hosts : Total[h][what] \in Nat)

\* Such sums exist.
LEMMA SumsExist == ASSUME NEW T, IsFiniteSet(T), NEW what PROVE \E f : Adds(f, T, what)
  <1> DEFINE Small(k) == {s \in SUBSET T : Cardinality(s) <= k}
             x(s) == CHOOSE x \in s : TRUE
             Partly(f, k) == f = [s \in Small(k) |-> IF s = {} THEN 0 ELSE Need[x(s)][what] + f[s \ {x(s)}]]
             Bad == {k \in Nat : ~\E f : Partly(f, k)}
  <1>1. \A s \in SUBSET T : IsFiniteSet(s) /\ Cardinality(s) \in Nat /\ Cardinality(s) <= Cardinality(T) /\ (Cardinality(s) = 0 <=> s = {})
    BY FS_Subset, FS_CardinalityType, FS_EmptySet
  <1>2. \A s \in SUBSET T : s # {} => x(s) \in s /\ s \ {x(s)} \in SUBSET T /\ Cardinality(s \ {x(s)}) = Cardinality(s) - 1
    BY <1>1, FS_RemoveElement, Zenon
  <1>3. ASSUME Bad # {} PROVE FALSE
    <2>1. PICK k \in Bad : \A j \in Bad : k <= j
      <3>1. Bad \in SUBSET Nat
        OBVIOUS
      <3> HIDE DEF Bad
      <3> QED BY <1>3, <3>1, Least
    <2>2. k # 0
      <3>1. Small(0) = {{}}
        BY <1>1
      <3>2. Partly([s \in Small(0) |-> 0], 0)
        BY <3>1
      <3> HIDE DEF Partly, Small, x
      <3> QED BY <2>1, <3>2
    <2>3. k \in Nat /\ k - 1 \in Nat /\ ~(k <= k - 1)
      BY <2>1, <2>2
    <2>4. PICK g : Partly(g, k - 1)
      <3>1. k - 1 \notin Bad
        BY <2>1, <2>3, Zenon
      <3> QED BY <2>3, <3>1, Zenon
    <2> DEFINE f == [s \in Small(k) |-> IF s = {} THEN 0 ELSE Need[x(s)][what] + g[s \ {x(s)}]]
    <2>5. ASSUME NEW s \in Small(k), s # {} PROVE s \ {x(s)} \in Small(k) /\ f[s \ {x(s)}] = g[s \ {x(s)}]
      <3> DEFINE r == s \ {x(s)}
      <3>1. r \in SUBSET T /\ Cardinality(r) = Cardinality(s) - 1 /\ Cardinality(s) <= k /\ Cardinality(s) \in Nat
        BY <1>1, <1>2, <2>5
      <3>2. r \in Small(k) /\ r \in Small(k - 1)
        BY <2>3, <3>1
      <3> HIDE DEF r
      <3>3. g[r] = IF r = {} THEN 0 ELSE Need[x(r)][what] + g[r \ {x(r)}]
        <4> HIDE DEF x, Small
        <4> QED BY <2>4, <3>2, Zenon
      <3>4. f[r] = IF r = {} THEN 0 ELSE Need[x(r)][what] + g[r \ {x(r)}]
        <4> HIDE DEF x, Small
        <4> QED BY <3>2
      <3> QED BY <3>2, <3>3, <3>4 DEF r
    <2>6. Partly(f, k)
      <3>1. \A s \in Small(k) : f[s] = IF s = {} THEN 0 ELSE Need[x(s)][what] + f[s \ {x(s)}]
        <4> HIDE DEF x, Small
        <4> QED BY <2>5, Zenon
      <3> HIDE DEF x, Small
      <3>2. f = [s \in Small(k) |-> f[s]]
        OBVIOUS
      <3> HIDE DEF f
      <3> QED BY <3>1, <3>2, Zenon
    <2> HIDE DEF f, Partly, Small, x
    <2> QED BY <2>1, <2>6
  <1>4. Cardinality(T) \in Nat
    BY FS_CardinalityType
  <1>5. PICK f : Partly(f, Cardinality(T))
    BY <1>3, <1>4, Zenon
  <1>6. Small(Cardinality(T)) = SUBSET T
    BY <1>1
  <1> QED BY <1>5, <1>6, ZenonT(40) DEF Adds

\* However its machines are counted: each adds what it needs.
Counted(f, s, what) == f[s] \in Nat /\ \A m \in s : f[s] = Need[m][what] + f[s \ {m}]

LEMMA SumAdds ==
    ASSUME Sized, NEW T \in SUBSET Guests, NEW what \in {"vcpus", "mem"}, NEW f, Adds(f, T, what), NEW s \in SUBSET T
    PROVE  Counted(f, s, what)
  <1> DEFINE Good(r) == f[r] \in Nat /\ \A m \in r : f[r] = Need[m][what] + f[r \ {m}]
             Bad == {k \in Nat : \E r \in SUBSET T : Cardinality(r) = k /\ ~Good(r)}
             x(r) == CHOOSE y \in r : TRUE
  <1>0. \A m \in Guests : Need[m][what] \in Nat
    BY DEF Sized
  <1>1. \A r \in SUBSET T : IsFiniteSet(r) /\ Cardinality(r) \in Nat
    BY FS_Subset, FS_CardinalityType DEF Sized
  <1>2. \A r \in SUBSET T : \A y \in r : Cardinality(r \ {y}) = Cardinality(r) - 1
    BY <1>1, FS_RemoveElement, Zenon
  <1>3. f[{}] = 0 /\ \A r \in SUBSET T : r # {} => x(r) \in r /\ f[r] = Need[x(r)][what] + f[r \ {x(r)}]
    <2>1. \A r \in SUBSET T : r # {} => x(r) \in r
      OBVIOUS
    <2>2. \A r \in SUBSET T : f[r] = IF r = {} THEN 0 ELSE Need[x(r)][what] + f[r \ {x(r)}]
      BY DEF Adds
    <2> HIDE DEF x
    <2> QED BY <2>1, <2>2, Zenon
  <1>4. ASSUME Bad # {} PROVE FALSE
    <2>1. PICK k \in Bad : \A j \in Bad : k <= j
      <3>1. Bad \in SUBSET Nat
        OBVIOUS
      <3> HIDE DEF Bad
      <3> QED BY <1>4, <3>1, Least
    <2>2. PICK r \in SUBSET T : Cardinality(r) = k /\ ~Good(r)
      BY <2>1
    <2>3. ASSUME NEW q \in SUBSET T, Cardinality(q) = k - 1 PROVE Good(q)
      <3>1. Cardinality(q) \in Nat /\ ~(k <= k - 1)
        BY <1>1, <2>1, <2>3
      <3> HIDE DEF Good
      <3> QED BY <2>1, <2>3, <3>1
    <2>4. r # {}
      <3>1. Good({})
        BY <1>3
      <3> HIDE DEF Good
      <3> QED BY <2>2, <3>1
    <2> DEFINE y == x(r)
    <2>5. y \in r /\ f[r] = Need[y][what] + f[r \ {y}] /\ y \in Guests
      BY <1>3, <2>4, Zenon
    <2> HIDE DEF x, y
    <2>6. Good(r \ {y})
      <3>1. r \ {y} \in SUBSET T /\ Cardinality(r \ {y}) = k - 1
        BY <1>2, <2>2, <2>5
      <3> HIDE DEF Good
      <3> QED BY <2>3, <3>1
    <2>7. f[r] \in Nat
      BY <1>0, <2>5, <2>6
    <2>8. ASSUME NEW m \in r PROVE f[r] = Need[m][what] + f[r \ {m}]
      <3>1. CASE m = y
        BY <2>5, <3>1
      <3>2. CASE m # y
        <4>1. Good(r \ {m})
          <5>1. r \ {m} \in SUBSET T /\ Cardinality(r \ {m}) = k - 1
            BY <1>2, <2>2
          <5> HIDE DEF Good
          <5> QED BY <2>3, <5>1
        <4>2. f[r \ {y}] = Need[m][what] + f[(r \ {y}) \ {m}]
          BY <2>6, <2>8, <3>2, Zenon
        <4>3. f[r \ {m}] = Need[y][what] + f[(r \ {m}) \ {y}]
          BY <4>1, <2>5, <3>2, Zenon
        <4>4. (r \ {m}) \ {y} = (r \ {y}) \ {m} /\ (r \ {m}) \ {y} \in SUBSET T /\ Cardinality((r \ {m}) \ {y}) + 1 = k - 1
          <5>1. r \ {m} \in SUBSET T /\ y \in r \ {m} /\ Cardinality(r \ {m}) = k - 1
            BY <1>2, <2>2, <2>5, <3>2
          <5> QED BY <5>1, <1>1, <1>2, <2>1
        <4>5. f[(r \ {m}) \ {y}] \in Nat
          <5>1. Cardinality((r \ {m}) \ {y}) \in Nat /\ ~(k <= Cardinality((r \ {m}) \ {y}))
            BY <4>4, <1>1, <2>1
          <5>2. Cardinality((r \ {m}) \ {y}) \notin Bad
            BY <2>1, <5>1, Zenon
          <5>3. Good((r \ {m}) \ {y})
            <6> HIDE DEF Good
            <6> QED BY <4>4, <5>1, <5>2, Zenon
          <5> QED BY <5>3
        <4>6. \A a, b, c \in Nat : a + (b + c) = b + (a + c)
          OBVIOUS
        <4>7. Need[m][what] \in Nat /\ Need[y][what] \in Nat
          BY <1>0, <2>5, <2>8
        <4> DEFINE rest == f[(r \ {m}) \ {y}]
        <4>8. f[r \ {m}] = Need[y][what] + rest /\ f[r] = Need[y][what] + (Need[m][what] + rest) /\ rest \in Nat
          BY <2>5, <4>2, <4>3, <4>4, <4>5
        <4> HIDE DEF rest
        <4> QED BY <4>6, <4>7, <4>8
      <3> QED BY <3>1, <3>2
    <2> QED BY <2>2, <2>7, <2>8
  <1>5. Cardinality(s) \in Nat /\ Cardinality(s) \notin Bad
    BY <1>1, <1>4
  <1>6. Good(s)
    <2> HIDE DEF Good
    <2> QED BY <1>5
  <1> QED BY <1>6 DEF Counted

\* Sums of different sets count a part of both alike.
LEMMA SumsAgree ==
    ASSUME NEW T, NEW U, IsFiniteSet(T), NEW what, NEW f, Adds(f, T, what), NEW g, Adds(g, U, what), NEW s \in SUBSET T, s \in SUBSET U
    PROVE  f[s] = g[s]
  <1> DEFINE Bad == {k \in Nat : \E r \in (SUBSET T) \cap (SUBSET U) : Cardinality(r) = k /\ f[r] # g[r]}
             x(r) == CHOOSE y \in r : TRUE
  <1>1. \A r \in SUBSET T : IsFiniteSet(r) /\ Cardinality(r) \in Nat
    BY FS_Subset, FS_CardinalityType
  <1>2. ASSUME Bad # {} PROVE FALSE
    <2>1. PICK k \in Bad : \A j \in Bad : k <= j
      <3>1. Bad \in SUBSET Nat
        OBVIOUS
      <3> HIDE DEF Bad
      <3> QED BY <1>2, <3>1, Least
    <2>2. PICK r \in (SUBSET T) \cap (SUBSET U) : Cardinality(r) = k /\ f[r] # g[r]
      BY <2>1
    <2>3. /\ f[r] = IF r = {} THEN 0 ELSE Need[x(r)][what] + f[r \ {x(r)}]
          /\ g[r] = IF r = {} THEN 0 ELSE Need[x(r)][what] + g[r \ {x(r)}]
      BY <2>2, Zenon DEF Adds
    <2>4. r # {} /\ x(r) \in r
      BY <2>2, <2>3
    <2>5. r \ {x(r)} \in (SUBSET T) \cap (SUBSET U) /\ Cardinality(r \ {x(r)}) = k - 1 /\ k - 1 \in Nat /\ ~(k <= k - 1)
      <3>1. IsFiniteSet(r) /\ IsFiniteSet(r \ {x(r)})
        BY <1>1, <2>2
      <3>2. Cardinality(r \ {x(r)}) = k - 1
        BY <2>2, <2>4, <3>1, FS_RemoveElement, Zenon
      <3>3. k - 1 \in Nat /\ k \in Nat
        BY <2>1, <3>1, <3>2, FS_CardinalityType
      <3> QED BY <2>2, <3>2, <3>3
    <2>6. f[r \ {x(r)}] = g[r \ {x(r)}]
      <3>1. k - 1 \notin Bad
        BY <2>1, <2>5
      <3> HIDE DEF x
      <3> QED BY <2>5, <3>1
    <2> QED BY <2>2, <2>3, <2>6
  <1>3. Cardinality(s) \in Nat /\ Cardinality(s) \notin Bad
    BY <1>1, <1>2
  <1> QED BY <1>3

SumOf(T, what) == (CHOOSE f : Adds(f, T, what))[T]

LEMMA SumOne ==
    ASSUME Sized, NEW T \in SUBSET Guests, NEW what \in {"vcpus", "mem"}
    PROVE  /\ SumOf(T, what) \in Nat
           /\ SumOf({}, what) = 0
           /\ \A m \in T : SumOf(T, what) = Need[m][what] + SumOf(T \ {m}, what)
  <1>1. IsFiniteSet(T) /\ \A n \in Guests : Need[n][what] \in Nat
    BY FS_Subset DEF Sized
  <1>2. PICK f : Adds(f, T, what) /\ SumOf(T, what) = f[T]
    BY <1>1, SumsExist, Zenon DEF SumOf
  <1>3. f[T] \in Nat /\ \A n \in T : f[T] = Need[n][what] + f[T \ {n}]
    <2>1. T \in SUBSET T
      OBVIOUS
    <2>2. Adds(f, T, what)
      BY <1>2
    <2>3. Counted(f, T, what)
      BY <2>1, <2>2, SumAdds
    <2> QED BY <2>3 DEF Counted
  <1>4. SumOf({}, what) = 0
    <2>1. PICK g : Adds(g, {}, what) /\ SumOf({}, what) = g[{}]
      BY FS_EmptySet, SumsExist, Zenon DEF SumOf
    <2> QED BY <2>1 DEF Adds
  <1>5. ASSUME NEW m \in T PROVE SumOf(T \ {m}, what) = f[T \ {m}]
    <2>1. PICK g : Adds(g, T \ {m}, what) /\ SumOf(T \ {m}, what) = g[T \ {m}]
      BY <1>1, FS_RemoveElement, SumsExist, Zenon DEF SumOf
    <2>2. T \ {m} \in SUBSET T /\ T \ {m} \in SUBSET (T \ {m})
      OBVIOUS
    <2>3. Adds(f, T, what)
      BY <1>2
    <2>4. \A s \in SUBSET T : s \in SUBSET (T \ {m}) => f[s] = g[s]
      BY <1>1, <2>3, <2>1, SumsAgree
    <2>5. g[T \ {m}] = f[T \ {m}]
      BY <2>2, <2>4
    <2> QED BY <2>1, <2>5
  <1> QED BY <1>2, <1>3, <1>4, <1>5, Zenon

\* What is in use of a host.
LEMMA UsedIs == \A h, what : F!Used(h, what) = SumOf(F!OnHost(h), what)
  BY DEF F!Used, F!MapThenSumSet, F!MapThenFoldSet, Adds, SumOf

\* A host that loses a machine at most uses no more.
LEMMA UsedFalls ==
    ASSUME Sized, NEW h, NEW what \in {"vcpus", "mem"}, F!OnHost(h)' = F!OnHost(h) \/ \E m \in Guests : F!OnHost(h)' = F!OnHost(h) \ {m}
    PROVE  F!Used(h, what) \in Nat /\ F!Used(h, what)' \in Nat /\ F!Used(h, what)' <= F!Used(h, what)
  <1> DEFINE T == F!OnHost(h)
  <1>1. T \in SUBSET Guests /\ T' \in SUBSET Guests
    BY DEF F!OnHost
  <1>2. F!Used(h, what) = SumOf(T, what) /\ F!Used(h, what)' = SumOf(T', what)
    BY DEF F!Used, F!MapThenSumSet, F!MapThenFoldSet, Adds, SumOf
  <1> HIDE DEF T
  <1>3. SumOf(T, what) \in Nat
    BY <1>1, SumOne
  <1>4. CASE T' = T
    BY <1>2, <1>3, <1>4
  <1>5. ASSUME NEW m \in Guests, T' = T \ {m} PROVE SumOf(T', what) \in Nat /\ SumOf(T', what) <= SumOf(T, what)
    <2>1. SumOf(T \ {m}, what) \in Nat /\ Need[m][what] \in Nat
      BY <1>1, SumOne DEF Sized
    <2>2. CASE m \in T
      <3>1. SumOf(T, what) = Need[m][what] + SumOf(T \ {m}, what)
        BY <1>1, <2>2, SumOne
      <3> QED BY <1>3, <1>5, <2>1, <3>1
    <2>3. CASE m \notin T
      <3>1. T \ {m} = T
        BY <2>3
      <3> QED BY <1>3, <1>5, <3>1
    <2> QED BY <2>2, <2>3
  <1> QED BY <1>2, <1>3, <1>4, <1>5 DEF T

\* Creates come one at a time, and there is not one host only, which is not asked.
OneAtATime == "overlap" \notin FleetMay /\ Undisturbed
Several == IsFiniteSet(Hosts) /\ Cardinality(Hosts) # 1

ToBoot(m) == create[m].pc \in {"query", "insert", "ensure"} \/ row[m].state = "starting"
Room(h, m) == \A what \in {"vcpus", "mem"} : F!Used(h, what) + Need[m][what] <= Total[h][what]

\* m is to boot at h.
Wants(m, h) ==
    \/ create[m].pc \in {"query", "insert"} /\ create[m].best = h
    \/ row[m].state = "starting" /\ row[m].host = h

Booting(m) ==
    /\ create[m].pc \in {"no", "query", "insert", "ensure", "done"}
    /\ row[m].state = "none" => vm[m] = "none"
    /\ create[m].pc = "ensure" => row[m].state = "starting"

\* One machine at a time is to boot, and its host has room for it.
RoomInv ==
    /\ F!NoOvercommit
    /\ Cardinality(active) # 1
    /\ \A m, n \in Guests : ToBoot(m) /\ ToBoot(n) => m = n
    /\ \A m \in Guests : Booting(m) /\ \A h \in Hosts : Wants(m, h) => Room(h, m)

Fewer == \A h \in Hosts : F!OnHost(h)' = F!OnHost(h) \/ \E m \in Guests : F!OnHost(h)' = F!OnHost(h) \ {m}

\* A step that boots nothing.
LEMMA RoomKept ==
    ASSUME RoomInv, Sized, Fewer, Cardinality(active') # 1,
           \A m, n \in Guests : ToBoot(m)' /\ ToBoot(n)' => m = n,
           \A m \in Guests : Booting(m)' /\ \A h \in Hosts : Wants(m, h)' => Room(h, m)
    PROVE  RoomInv'
  <1>1. ASSUME NEW h \in Hosts, NEW what \in {"vcpus", "mem"}
        PROVE  F!Used(h, what) \in Nat /\ F!Used(h, what)' \in Nat /\ F!Used(h, what)' <= F!Used(h, what)
    BY UsedFalls DEF Fewer
  <1>2. \A what \in {"vcpus", "mem"} : (\A m \in Guests : Need[m][what] \in Nat) /\ (\A h \in Hosts : Total[h][what] \in Nat)
    BY DEF Sized
  <1>3. F!NoOvercommit'
    BY <1>1, <1>2 DEF RoomInv, F!NoOvercommit
  <1>4. ASSUME NEW m \in Guests, NEW h \in Hosts, Wants(m, h)' PROVE Room(h, m)'
    <2>1. Room(h, m)
      BY <1>4
    <2> QED BY <2>1, <1>1, <1>2 DEF Room
  <1> QED BY <1>3, <1>4 DEF RoomInv

\* A host that a machine fits on has room for it.
LEMMA FitHasRoom == ASSUME RoomInv, Sized, NEW h \in Hosts, NEW m \in Guests, F!Fits(h, m) PROVE Room(h, m)
  <1> SUFFICES ASSUME NEW what \in {"vcpus", "mem"} PROVE F!Used(h, what) + Need[m][what] <= Total[h][what]
    BY DEF Room
  <1>1. F!Used(h, what) <= Total[h][what] /\ Need[m][what] <= F!Capacity(h, what)
    BY DEF RoomInv, F!NoOvercommit, F!Fits
  <1>2. F!Used(h, what) \in Nat
    <2>1. F!OnHost(h) \in SUBSET Guests
      BY DEF F!OnHost
    <2> QED BY <2>1, UsedIs, SumOne
  <1>3. Need[m][what] \in Nat /\ Total[h][what] \in Nat
    BY DEF Sized
  <1> QED BY <1>1, <1>2, <1>3 DEF F!Capacity

\* The machines where they were.
LEMMA SamePlaces ==
    ASSUME FleetInv, vm' = vm, \A m \in Guests : row'[m].host = row[m].host \/ vm[m] = "none"
    PROVE  Fewer
  BY DEF Fewer, F!OnHost

\* The instance counts as this module does.
LEMMA HostsCounted == \A T : F!Cardinality(T) = Cardinality(T)
  BY DEF Cardinality, F!Cardinality

\* A step of one create, nothing booted.
LEMMA CreateRoom ==
    ASSUME FleetInv, RoomInv, Sized, NEW m \in Guests, UNCHANGED <<active, row, vm>>, create' = [create EXCEPT ![m] = create'[m]],
           create'[m].pc \in {"query", "insert", "done"}, row[m].state = "none",
           create'[m].pc # "done" => \A n \in Guests : ToBoot(n) => n = m,
           \A h \in Hosts : create'[m].pc \in {"query", "insert"} /\ create'[m].best = h => Room(h, m)
    PROVE  RoomInv'
  <1>1. \A n \in Guests \ {m} : create'[n] = create[n]
    BY DEF FleetInv, FleetTypes
  <1>2. Fewer
    BY SamePlaces
  <1>3. \A n \in Guests : ToBoot(n)' => ToBoot(n) \/ (n = m /\ create'[m].pc # "done")
    BY <1>1 DEF ToBoot
  <1>4. ASSUME NEW n \in Guests PROVE Booting(n)' /\ \A h \in Hosts : Wants(n, h)' => Room(h, n)
    <2>1. CASE n = m
      BY <2>1 DEF RoomInv, Booting, Wants
    <2>2. CASE n # m
      BY <1>1, <2>2 DEF RoomInv, Booting, Wants
    <2> QED BY <2>1, <2>2
  <1>5. \A n, k \in Guests : ToBoot(n)' /\ ToBoot(k)' => n = k
    <2>1. CASE create'[m].pc = "done"
      BY <1>3, <2>1 DEF RoomInv
    <2>2. CASE create'[m].pc # "done"
      BY <1>3, <2>2 DEF RoomInv
    <2> QED BY <2>1, <2>2
  <1>6. Cardinality(active') # 1
    BY DEF RoomInv
  <1> QED BY <1>2, <1>4, <1>5, <1>6, RoomKept

LEMMA CreateFits == ASSUME FleetInv, RoomInv, Sized, HostRows, OneAtATime, NEW m \in Guests, F!Create(m) PROVE RoomInv'
  <1> DEFINE c == create[m]
             d == IF active = {} THEN [c EXCEPT !.pc = "done"]
                  ELSE IF F!Cardinality(active) = 1 THEN [c EXCEPT !.pc = "insert", !.best = CHOOSE h \in active : TRUE]
                  ELSE [c EXCEPT !.pc = "query", !.left = active]
  <1>1. UNCHANGED <<active, row, vm>> /\ create' = [create EXCEPT ![m] = d] /\ row[m].state = "none" /\ c.pc = "no" /\ F!Quiet
    BY DEF F!Create, F!hostvars, OneAtATime
  <1>2. c = [pc |-> c.pc, left |-> c.left, best |-> c.best, free |-> c.free] /\ create'[m] = d
    BY <1>1 DEF FleetInv, FleetTypes
  <1>3. c.best = 0
    BY <1>1 DEF FleetInv, Placed
  <1>4. \A n \in Guests : ~ToBoot(n)
    BY <1>1 DEF F!Quiet, ToBoot
  <1>5. F!Cardinality(active) # 1
    BY HostsCounted DEF RoomInv
  <1> HIDE DEF c
  <1>6. d.pc \in {"query", "done"} /\ d.best = 0
    BY <1>2, <1>3, <1>5
  <1> HIDE DEF d
  <1>7. \A h \in Hosts : h # 0
    BY DEF HostRows
  <1> QED BY <1>1, <1>2, <1>4, <1>6, <1>7, CreateRoom, Zenon

LEMMA QueryFits == ASSUME FleetInv, RoomInv, Sized, HostRows, NEW m \in Guests, F!Query(m) \/ F!Choose(m) PROVE RoomInv'
  <1> DEFINE c == create[m]
  <1>1. UNCHANGED <<active, row, vm>> /\ c.pc = "query"
    BY DEF F!Query, F!Choose, F!hostvars
  <1>2. c = [pc |-> c.pc, left |-> c.left, best |-> c.best, free |-> c.free]
    BY DEF FleetInv, FleetTypes
  <1>3. row[m].state = "none" /\ \A n \in Guests : ToBoot(n) => n = m
    BY <1>1 DEF FleetInv, Placed, RoomInv, ToBoot
  <1>4. \A h \in Hosts : c.best = h => Room(h, m)
    BY <1>1 DEF RoomInv, Wants
  <1>5. ASSUME F!Query(m) PROVE RoomInv'
    <2> DEFINE h == F!Min(c.left)  rest == [c EXCEPT !.left = @ \ {h}]
               d == IF F!Reaches(h, url[h]) /\ F!Fits(h, m) /\ (rest.best = 0 \/ F!Capacity(h, "mem") > rest.free)
                    THEN [rest EXCEPT !.best = h, !.free = F!Capacity(h, "mem")] ELSE rest
    <2>1. create' = [create EXCEPT ![m] = d]
      BY <1>5 DEF F!Query
    <2>2. create'[m] = d
      BY <2>1 DEF FleetInv, FleetTypes
    <2> HIDE DEF c, h
    <2>3. d.pc = "query" /\ (d.best = c.best \/ (d.best = h /\ F!Fits(h, m)))
      BY <1>1, <1>2
    <2> HIDE DEF d
    <2>4. \A g \in Hosts : d.best = g => Room(g, m)
      BY <1>4, <2>3, FitHasRoom
    <2> QED BY <1>1, <1>3, <2>1, <2>2, <2>3, <2>4, CreateRoom, Zenon
  <1>6. ASSUME F!Choose(m) PROVE RoomInv'
    <2>1. PICK to \in {"done", "insert"} : create' = [create EXCEPT ![m].pc = to]
      BY <1>6, Zenon DEF F!Choose
    <2>2. create'[m].pc = to /\ create'[m].best = c.best /\ create' = [create EXCEPT ![m] = create'[m]]
      BY <1>2, <2>1 DEF FleetInv, FleetTypes
    <2> HIDE DEF c
    <2> QED BY <1>1, <1>3, <1>4, <2>1, <2>2, CreateRoom, Zenon
  <1> QED BY <1>5, <1>6

\* The row of the machine that is to boot, and nothing else.
LEMMA InsertFits == ASSUME FleetInv, RoomInv, Sized, NEW m \in Guests, F!CreateMachine(m) PROVE RoomInv'
  <1>1. /\ create[m].pc = "insert" /\ UNCHANGED <<active, vm>>
        /\ row' = [row EXCEPT ![m] = [state |-> "starting", host |-> create[m].best]] /\ create' = [create EXCEPT ![m].pc = "ensure"]
    BY DEF F!CreateMachine, F!hostvars
  <1>2. row[m].state = "none" /\ vm[m] = "none" /\ \A n \in Guests : ToBoot(n) => n = m
    BY <1>1 DEF FleetInv, Placed, RoomInv, Booting, ToBoot
  <1>3. row'[m].state = "starting" /\ row'[m].host = create[m].best /\ create'[m].pc = "ensure"
    BY <1>1 DEF FleetInv, FleetTypes
  <1>4. \A n \in Guests \ {m} : row'[n] = row[n] /\ create'[n] = create[n]
    BY <1>1 DEF FleetInv, FleetTypes
  <1>5. Fewer
    BY <1>1, <1>2, <1>4, SamePlaces
  <1>6. ASSUME NEW n \in Guests PROVE Booting(n)' /\ \A h \in Hosts : Wants(n, h)' => Room(h, n)
    <2>1. CASE n = m
      BY <1>1, <1>3, <2>1 DEF RoomInv, Booting, Wants
    <2>2. CASE n # m
      BY <1>1, <1>4, <2>2 DEF RoomInv, Booting, Wants
    <2> QED BY <2>1, <2>2
  <1>7. \A n \in Guests : ToBoot(n)' => n = m
    BY <1>2, <1>4 DEF ToBoot
  <1>8. Cardinality(active') # 1
    BY <1>1 DEF RoomInv
  <1> QED BY <1>5, <1>6, <1>7, <1>8, RoomKept

\* A machine that leaves its state, and boots nowhere.
LEMMA LeavesRoom ==
    ASSUME FleetInv, RoomInv, Sized, UNCHANGED <<active, create>>,
           \A m \in Guests : /\ row'[m].host = row[m].host /\ (row'[m].state = "none" <=> row[m].state = "none")
                             /\ row'[m].state = "starting" <=> row[m].state = "starting"
                             /\ row[m].state = "none" => vm'[m] = "none",
           vm' = vm \/ \E m \in Guests, v \in {"stopped", "error"} : vm' = [vm EXCEPT ![m] = v]
    PROVE  RoomInv'
  <1>1. Fewer
    <2>1. ASSUME NEW m \in Guests, NEW v \in {"stopped", "error"}, vm' = [vm EXCEPT ![m] = v] PROVE Fewer
      <3>1. vm'[m] # "running" /\ \A n \in Guests \ {m} : vm'[n] = vm[n]
        BY <2>1 DEF FleetInv, FleetTypes
      <3>2. \A h \in Hosts : F!OnHost(h)' = F!OnHost(h) \ {m}
        BY <3>1 DEF F!OnHost
      <3> QED BY <3>2 DEF Fewer
    <2> QED BY <2>1, SamePlaces
  <1>2. \A m \in Guests : (ToBoot(m)' <=> ToBoot(m)) /\ Booting(m)' /\ \A h \in Hosts : Wants(m, h)' => Wants(m, h)
    BY DEF ToBoot, Booting, Wants, RoomInv
  <1> QED BY <1>1, <1>2, RoomKept DEF RoomInv

LEMMA StartFits == ASSUME FleetInv, RoomInv, Sized, OneAtATime, NEW m \in Guests, F!Start(m) PROVE RoomInv'
  <1>1. /\ F!Quiet /\ F!Fits(row[m].host, m) /\ row[m].state # "none"
        /\ row' = [row EXCEPT ![m].state = "starting"] /\ UNCHANGED <<active, vm, create>>
    BY DEF F!Start, F!hostvars, OneAtATime, Undisturbed
  <1>2. row'[m].state = "starting" /\ row'[m].host = row[m].host /\ \A n \in Guests \ {m} : row'[n] = row[n]
    BY <1>1 DEF FleetInv, FleetTypes
  <1>3. Fewer
    <2>1. \A n \in Guests : row'[n].host = row[n].host
      BY <1>2
    <2> QED BY <1>1, <2>1, SamePlaces
  <1>4. \A n \in Guests : ~ToBoot(n) /\ (ToBoot(n)' => n = m)
    BY <1>1, <1>2 DEF F!Quiet, ToBoot
  <1>5. ASSUME NEW n \in Guests PROVE Booting(n)' /\ \A h \in Hosts : Wants(n, h)' => Room(h, n)
    <2>1. CASE n = m
      <3>1. \A h \in Hosts : Wants(m, h)' => row[m].host = h
        BY <1>1, <1>2, <1>4 DEF Wants, ToBoot
      <3>2. \A h \in Hosts : row[m].host = h => Room(h, m)
        BY <1>1, FitHasRoom
      <3>3. Booting(m)'
        BY <1>1, <1>2 DEF RoomInv, Booting
      <3> QED BY <2>1, <3>1, <3>2, <3>3
    <2>2. CASE n # m
      BY <1>1, <1>2, <2>2 DEF RoomInv, Booting, Wants
    <2> QED BY <2>1, <2>2
  <1> QED BY <1>1, <1>3, <1>4, <1>5, RoomKept DEF RoomInv

\* The machine boots where there is room for it.
LEMMA EnsureFits == ASSUME FleetInv, RoomInv, Sized, HostRows, NEW m \in Guests, F!Ensure(m) PROVE RoomInv'
  <1>1. PICK s \in {"running", "error"} :
          /\ row[m].state = "starting" /\ UNCHANGED active
          /\ row' = [row EXCEPT ![m].state = s] /\ create' = [create EXCEPT ![m].pc = "done"]
          /\ vm' = vm \/ vm' = [vm EXCEPT ![m] = "running"]
    <2>1. [vm EXCEPT ![m] = vm[m]] = vm
      BY DEF FleetInv, FleetTypes
    <2> QED BY <2>1, Zenon DEF F!Ensure, F!hostvars
  <1>2. row'[m].state = s /\ row'[m].host = row[m].host /\ create'[m].pc = "done"
    BY <1>1 DEF FleetInv, FleetTypes
  <1>3. \A n \in Guests \ {m} : row'[n] = row[n] /\ create'[n] = create[n] /\ vm'[n] = vm[n]
    BY <1>1 DEF FleetInv, FleetTypes
  <1>4. \A n \in Guests : (ToBoot(n) => n = m) /\ ~ToBoot(n)'
    <2>1. ToBoot(m) /\ \A n \in Guests : ToBoot(n) => n = m
      BY <1>1 DEF RoomInv, ToBoot
    <2>2. ~ToBoot(m)'
      BY <1>2 DEF ToBoot
    <2>3. \A n \in Guests \ {m} : ~ToBoot(n)'
      BY <1>3, <2>1 DEF ToBoot
    <2> QED BY <2>1, <2>2, <2>3
  <1>5. \A n \in Guests : Booting(n)'
    <2>1. Booting(m)'
      BY <1>2 DEF Booting
    <2>2. \A n \in Guests \ {m} : Booting(n)'
      BY <1>3 DEF Booting, RoomInv
    <2> QED BY <2>1, <2>2
  <1>6. \A n \in Guests, h \in Hosts : ~Wants(n, h)'
    BY <1>4 DEF ToBoot, Wants
  <1>7. \A n \in Guests : row'[n].host = row[n].host
    BY <1>2, <1>3
  <1>8. row[m].host \in Hosts /\ \A h \in Hosts : row[m].host = h => Room(h, m)
    BY <1>1 DEF RoomInv, Wants, FleetInv, Placed, FleetTypes
  <1>9. F!NoOvercommit'
    <2> SUFFICES ASSUME NEW h \in Hosts, NEW what \in {"vcpus", "mem"} PROVE F!Used(h, what)' <= Total[h][what]
      BY DEF F!NoOvercommit
    <2>1. F!Used(h, what) <= Total[h][what]
      BY DEF RoomInv, F!NoOvercommit
    <2> DEFINE T == F!OnHost(h)
    <2>2. F!Used(h, what) = SumOf(T, what) /\ F!Used(h, what)' = SumOf(T', what)
      BY DEF F!Used, F!MapThenSumSet, F!MapThenFoldSet, Adds, SumOf
    <2>3. T' = T \/ (T' = T \cup {m} /\ m \notin T /\ row[m].host = h)
      BY <1>1, <1>3, <1>7 DEF F!OnHost, FleetInv, FleetTypes
    <2>4. T \in SUBSET Guests /\ T' \in SUBSET Guests
      BY DEF F!OnHost
    <2> HIDE DEF T
    <2>5. CASE T' = T
      BY <2>1, <2>2, <2>5
    <2>6. CASE T' = T \cup {m} /\ m \notin T /\ row[m].host = h
      <3>1. T' \ {m} = T /\ m \in T'
        BY <2>6
      <3>2. SumOf(T', what) = Need[m][what] + SumOf(T' \ {m}, what)
        BY <2>4, <3>1, SumOne
      <3>3. SumOf(T, what) + Need[m][what] <= Total[h][what]
        BY <1>8, <2>2, <2>6 DEF Room
      <3>4. SumOf(T, what) \in Nat /\ Need[m][what] \in Nat
        BY <2>4, SumOne DEF Sized
      <3> QED BY <2>2, <3>1, <3>2, <3>3, <3>4
    <2> QED BY <2>3, <2>5, <2>6
  <1> QED BY <1>1, <1>4, <1>5, <1>6, <1>9 DEF RoomInv

LEMMA StopFits == ASSUME FleetInv, RoomInv, Sized, NEW m \in Guests, F!Stop(m) \/ F!VMDies(m) PROVE RoomInv'
  <1>1. /\ UNCHANGED <<active, create>> /\ row[m].state # "none"
        /\ row' = row \/ (row[m].state = "running" /\ \E s \in {"stopped", "error"} : row' = [row EXCEPT ![m].state = s])
        /\ vm' = vm \/ \E v \in {"stopped", "error"} : vm' = [vm EXCEPT ![m] = v]
    <2>1. [vm EXCEPT ![m] = vm[m]] = vm
      BY DEF FleetInv, FleetTypes
    <2>2. ASSUME F!VMDies(m) PROVE row[m].state # "none"
      BY <2>2 DEF F!VMDies, RoomInv, Booting
    <2> QED BY <2>1, <2>2 DEF F!Stop, F!VMDies, F!hostvars
  <1>2. \A n \in Guests : /\ row'[n].host = row[n].host /\ (row'[n].state = "none" <=> row[n].state = "none")
                          /\ row'[n].state = "starting" <=> row[n].state = "starting"
    BY <1>1 DEF FleetInv, FleetTypes
  <1>3. \A n \in Guests : row[n].state = "none" => vm'[n] = "none"
    BY <1>1 DEF RoomInv, Booting, FleetInv, FleetTypes
  <1> QED BY <1>1, <1>2, <1>3, LeavesRoom

LEMMA SweepFits == ASSUME FleetInv, RoomInv, Sized, F!SweepStart \/ F!List \/ F!ListFails \/ F!SweepEnd PROVE RoomInv'
  <1>1. /\ UNCHANGED <<active, create, vm>>
        /\ row' = row \/ \E lost : row' = [m \in Guests |-> IF m \in lost /\ row[m].state = "running" THEN [row[m] EXCEPT !.state = "error"] ELSE row[m]]
    BY Zenon DEF F!SweepStart, F!List, F!ListFails, F!SweepEnd, F!hostvars, F!toError
  <1>2. \A n \in Guests : /\ row'[n].host = row[n].host /\ (row'[n].state = "none" <=> row[n].state = "none")
                          /\ row'[n].state = "starting" <=> row[n].state = "starting"
    BY <1>1, SMTT(30) DEF FleetInv, FleetTypes
  <1> QED BY <1>1, <1>2, LeavesRoom DEF RoomInv, Booting

LEMMA HostsFit ==
    ASSUME FleetInv, RoomInv, Sized, Several, OneAtATime, NEW h \in Hosts,
           F!AgentDown(h) \/ F!AgentUp(h) \/ F!AgentMoves(h) \/ F!Repoint(h) \/ F!Deactivate(h)
    PROVE  RoomInv'
  <1>1. UNCHANGED <<row, vm, create>>
    BY DEF F!AgentDown, F!AgentUp, F!AgentMoves, F!Repoint, F!Deactivate
  <1>2. Cardinality(active') # 1
    <2>1. CASE F!Deactivate(h)
      <3>1. active' = active \ {h} /\ Cardinality(active) > 2 /\ h \in active
        BY <2>1, HostsCounted DEF F!Deactivate, OneAtATime, Undisturbed
      <3>2. IsFiniteSet(active) /\ Cardinality(active) \in Nat
        BY FS_Subset, FS_CardinalityType DEF Several, FleetInv, FleetTypes
      <3>3. Cardinality(active') = Cardinality(active) - 1
        BY <3>1, <3>2, FS_RemoveElement
      <3> QED BY <3>1, <3>2, <3>3
    <2>2. CASE ~F!Deactivate(h)
      <3>1. UNCHANGED active
        BY <2>2 DEF F!AgentDown, F!AgentUp, F!AgentMoves, F!Repoint
      <3> QED BY <3>1 DEF RoomInv
    <2> QED BY <2>1, <2>2
  <1>3. Fewer
    BY <1>1, SamePlaces
  <1>4. \A m \in Guests : (ToBoot(m)' <=> ToBoot(m)) /\ (Booting(m)' <=> Booting(m)) /\ \A g \in Hosts : Wants(m, g)' <=> Wants(m, g)
    BY <1>1 DEF ToBoot, Booting, Wants
  <1> QED BY <1>2, <1>3, <1>4, RoomKept DEF RoomInv

LEMMA RoomNext == ASSUME FleetInv, RoomInv, Sized, Several, HostRows, OneAtATime, F!Next \/ UNCHANGED F!vars PROVE RoomInv'
  <1>1. ASSUME UNCHANGED F!vars PROVE RoomInv'
    <2>1. UNCHANGED <<active, row, vm, create>>
      BY <1>1 DEF F!vars, F!hostvars
    <2>2. Fewer
      BY <2>1, SamePlaces
    <2>3. \A m \in Guests : (ToBoot(m)' <=> ToBoot(m)) /\ (Booting(m)' <=> Booting(m)) /\ \A g \in Hosts : Wants(m, g)' <=> Wants(m, g)
      BY <2>1 DEF ToBoot, Booting, Wants
    <2> QED BY <2>1, <2>2, <2>3, RoomKept DEF RoomInv
  <1> QED BY <1>1, CreateFits, QueryFits, InsertFits, EnsureFits, StartFits, StopFits, SweepFits, HostsFit DEF F!Next

LEMMA RoomBegins == ASSUME Sized, Several, HostRows, F!Init PROVE RoomInv
  <1>1. \A m \in Guests : create[m] = [pc |-> "no", left |-> {}, best |-> 0, free |-> 0] /\ row[m] = [state |-> "none", host |-> 0] /\ vm[m] = "none"
    BY DEF F!Init, F!NoCall
  <1>2. F!NoOvercommit
    <2>1. \A h : F!OnHost(h) = {}
      BY <1>1 DEF F!OnHost
    <2>2. ASSUME NEW h \in Hosts, NEW what \in {"vcpus", "mem"} PROVE F!Used(h, what) <= Total[h][what]
      <3>1. F!Used(h, what) = 0
        <4>1. {} \in SUBSET Guests
          OBVIOUS
        <4>2. SumOf({}, what) = 0
          BY <4>1, SumOne
        <4> QED BY <2>1, <4>2, UsedIs
      <3>2. Total[h][what] \in Nat
        BY DEF Sized
      <3> QED BY <3>1, <3>2
    <2> QED BY <2>2 DEF F!NoOvercommit
  <1>3. Cardinality(active) # 1
    BY DEF F!Init, Several
  <1> QED BY <1>1, <1>2, <1>3 DEF RoomInv, ToBoot, Booting, Wants

(***************************************************************************)
(* A dashboard's stream (EventStream), when writers follow one another,    *)
(* no row moves between the list and the replay, no machine is destroyed   *)
(* while the browser is away, no subscription fills and the missed events  *)
(* can be read (Attended).  One writer at most is at work, and t is what   *)
(* it holds (AtHand).  What the browser does not show yet is on its way    *)
(* while it is connected (OnItsWay), and among the events it will ask for  *)
(* before (AskedFor).                                                      *)
(***************************************************************************)
Attended == StreamMay \subseteq {"kind"} /\ Streamers # {}
StreamSizes == MaxEvents \in Nat /\ Buf \in Nat

Rows == {E!NoRow, E!Gone} \cup Nat
Marks == {E!Gone} \cup Nat
Event == [id : Nat \ {0}, m : Guests]
Sends == [pc : {"update"}, m : Guests, ver : Marks, id : Nat]
Writes == [pc : {"commit", "publish", "named", "note", "read"}, m : Guests, ver : Marks, id : Nat]

StreamTypes ==
    /\ erow \in [Guests -> Rows] /\ elog \in SUBSET Event /\ enext \in Nat \ {0}
    /\ ewriter \in [Streamers -> {E!Idle} \cup Writes] /\ sub \in Seq(Sends)
    /\ econn \in {"off", "subscribed", "listed", "live"} /\ list \in [Guests -> Rows]
    /\ sent \in Nat /\ lastId \in Nat /\ view \in [Guests -> Rows] /\ eseen \in SUBSET Nat /\ since \in {-1} \cup Nat

AtHand(t) == \E w \in Streamers : ewriter[w] = t /\ \A v \in Streamers \ {w} : ewriter[v] = E!Idle

Publishes(t, m) == t.pc = "publish" /\ t.m = m
Named(t, m) == t.pc = "named" /\ t.m = m
\* A destroy of m is on its way to the browser.
Going(t, m) ==
    \/ \E i \in DOMAIN sub : sub[i].m = m /\ sub[i].ver = E!Gone
    \/ Publishes(t, m) /\ t.ver = E!Gone

\* The ids that are out: those of transitions that are not committed are not.
Out(t, n) == n < enext /\ (t.pc = "commit" => n < t.id)

\* What the writer holds is of the row as it is.
Holds(t) ==
    /\ t.pc = "commit" => erow[t.m] >= 0 /\ t.ver = erow[t.m] + 1 /\ t.id > 0 /\ t.id < enext
    /\ t.pc \in {"named", "note", "read"} => erow[t.m] >= 0
    /\ t.pc \in {"named", "publish"} => t.ver = erow[t.m]
    /\ t.ver = E!Gone => t.pc = "publish" /\ t.id = 0 /\ \A i \in DOMAIN sub : sub[i].m = t.m => sub[i].ver # E!Gone
    /\ t.pc \in {"publish", "read"} /\ t.ver # E!Gone =>
         /\ [id |-> t.id, m |-> t.m] \in elog
         /\ \A i \in DOMAIN sub : sub[i].ver # E!Gone => sub[i].id < t.id

\* Updates are in the order of their ids, and the last one of a machine is its row.
InOrder(t, i) ==
    LET u == sub[i] IN
    /\ erow[u.m] # E!NoRow /\ Out(t, u.id)
    /\ u.ver = E!Gone => erow[u.m] = E!Gone /\ \A j \in DOMAIN sub : j > i => sub[j].m # u.m
    /\ erow[u.m] = E!Gone => Going(t, u.m)
    /\ erow[u.m] >= 0 => [id |-> u.id, m |-> u.m] \in elog
    /\ u.ver # E!Gone => \A j \in DOMAIN sub : j > i /\ sub[j].ver # E!Gone => u.id < sub[j].id
    /\ \/ u.ver = erow[u.m] \/ Named(t, u.m) \/ Publishes(t, u.m)
       \/ \E j \in DOMAIN sub : j > i /\ sub[j].m = u.m

LogInv(t) ==
    /\ Holds(t)
    /\ \A i \in DOMAIN sub : InOrder(t, i)
    /\ \A e \in elog : Out(t, e.id) /\ erow[e.m] >= 0
    /\ \A d, e \in elog : d.id = e.id => d = e
    /\ Out(t, sent) /\ Out(t, lastId)

\* The row of m is shown.
Shown(m) == (erow[m] > 0 => view[m] = erow[m]) /\ (erow[m] < 0 => view[m] = E!NoRow)

Missed(n) == n > sent /\ n > lastId

OnItsWay(t) ==
    /\ \A m \in Guests :
         \/ Shown(m) \/ Named(t, m)
         \/ erow[m] = E!Gone /\ Going(t, m)
         \/ erow[m] >= 0 /\ \E i \in DOMAIN sub : sub[i].m = m /\ Missed(sub[i].id)
         \/ erow[m] >= 0 /\ Publishes(t, m) /\ Missed(t.id)
    /\ \A e \in elog :
         \/ e.id < since \/ e.id \in eseen
         \/ Missed(e.id) /\ \E i \in DOMAIN sub : sub[i].id = e.id /\ sub[i].ver # E!Gone
         \/ Missed(e.id) /\ t.pc \in {"publish", "read"} /\ t.id = e.id /\ t.ver # E!Gone

AskedFor(t) ==
    /\ econn = "off" => \A m \in Guests : ~Going(t, m)
    /\ \A m \in Guests :
         \/ Shown(m) \/ Named(t, m)
         \/ erow[m] = E!Gone /\ Going(t, m)
         \/ \E e \in elog : e.m = m /\ e.id > lastId
    /\ \A e \in elog : e.id < since \/ e.id \in eseen \/ e.id > lastId

StreamOf(t) ==
    /\ AtHand(t) /\ LogInv(t)
    /\ econn = "off" => sub = <<>>
    /\ econn = "listed" => list = erow
    /\ econn = "live" => OnItsWay(t)
    /\ econn # "live" /\ lastId > 0 => AskedFor(t)

StreamInv == StreamTypes /\ \E t \in {E!Idle} \cup Writes : StreamOf(t)

\* The writer that goes on is the one at work, or starts when nobody is.
LEMMA OneWriter ==
    ASSUME Attended, NEW t, AtHand(t), NEW w \in Streamers, E!MayWrite(w) \/ ewriter[w] # E!Idle
    PROVE  /\ ewriter[w] = t /\ \A v \in Streamers \ {w} : ewriter[v] = E!Idle
           /\ E!MayWrite(w) => t = E!Idle /\ econn # "listed"
  BY DEF Attended, AtHand, E!MayWrite

LEMMA HandedOn ==
    ASSUME StreamTypes, NEW w \in Streamers, \A v \in Streamers \ {w} : ewriter[v] = E!Idle,
           NEW t \in {E!Idle} \cup Writes, ewriter' = [ewriter EXCEPT ![w] = t]
    PROVE  AtHand(t)' /\ ewriter' \in [Streamers -> {E!Idle} \cup Writes]
  <1>1. ewriter'[w] = t /\ ewriter' \in [Streamers -> {E!Idle} \cup Writes] /\ \A v \in Streamers \ {w} : ewriter'[v] = ewriter[v]
    BY DEF StreamTypes
  <1> QED BY <1>1 DEF AtHand

\* What the handler and the browser have.
handed == <<econn, list, sent, lastId, view, eseen, since>>

LEMMA StaysKept == E!Stays => UNCHANGED handed
  BY DEF E!Stays, E!handler, E!browser, handed

LEMMA WritesNamed ==
    /\ E!Idle = [pc |-> "idle", m |-> "none", ver |-> 0, id |-> 0] /\ E!NoRow = -1 /\ E!Gone = -2
  BY DEF E!Idle, E!NoRow, E!Gone

LEMMA CreateRowKeeps == ASSUME StreamInv, Attended, NEW m \in Guests, E!Create(m) PROVE StreamInv'
  <1>1. PICK t \in {E!Idle} \cup Writes : StreamOf(t)
    BY DEF StreamInv
  <1>2. PICK w \in Streamers : E!MayWrite(w)
    BY DEF Attended, E!Create
  <1>3. t = E!Idle /\ econn # "listed"
    BY <1>1, <1>2, OneWriter DEF StreamOf
  <1>4. erow[m] = -1 /\ erow' = [erow EXCEPT ![m] = 0] /\ UNCHANGED <<elog, enext, ewriter, sub>> /\ UNCHANGED handed
    BY StaysKept, WritesNamed DEF E!Create
  <1>5. erow' \in [Guests -> Rows] /\ erow'[m] = 0 /\ \A n \in Guests : n # m => erow'[n] = erow[n]
    BY <1>4 DEF StreamInv, StreamTypes, Rows
  <1>6. StreamTypes'
    BY <1>4, <1>5 DEF StreamInv, StreamTypes, handed
  <1>7. \A i \in DOMAIN sub : sub[i].m # m /\ sub[i] \in Sends
    <2>1. \A i \in DOMAIN sub : erow[sub[i].m] # -1
      BY <1>1, WritesNamed, Zenon DEF StreamOf, LogInv, InOrder
    <2> QED BY <1>4, <2>1 DEF StreamInv, StreamTypes
  <1>8. LogInv(t)'
    <2>1. LogInv(t) /\ Holds(t)'
      BY <1>1, <1>3, WritesNamed DEF StreamOf, Holds
    <2>2. ASSUME NEW i \in DOMAIN sub PROVE InOrder(t, i)'
      <3>1. InOrder(t, i) /\ erow'[sub[i].m] = erow[sub[i].m] /\ Going(t, sub[i].m)' = Going(t, sub[i].m)
        BY <1>4, <1>5, <1>7, <2>1 DEF LogInv, Going, Publishes, Sends
      <3> QED BY <1>4, <3>1 DEF InOrder, Named, Publishes, Out
    <2>3. \A e \in elog : e.m \in Guests /\ erow[e.m] >= 0
      BY <2>1 DEF LogInv, StreamInv, StreamTypes, Event
    <2> QED BY <1>4, <1>5, <2>1, <2>2, <2>3 DEF LogInv, Out, handed
  <1>9. econn = "live" => OnItsWay(t)'
    <2>1. SUFFICES ASSUME econn = "live" PROVE OnItsWay(t)'
      OBVIOUS
    <2>2. OnItsWay(t)
      BY <1>1, <2>1 DEF StreamOf
    <2>3. \A e \in elog' :
            \/ e.id < since' \/ e.id \in eseen'
            \/ Missed(e.id)' /\ \E i \in DOMAIN sub' : sub'[i].id = e.id /\ sub'[i].ver # E!Gone
            \/ Missed(e.id)' /\ t.pc \in {"publish", "read"} /\ t.id = e.id /\ t.ver # E!Gone
      BY <1>4, <2>2, WritesNamed DEF OnItsWay, Missed, handed
    <2> QED BY <1>3, <1>4, <1>5, <1>7, <2>2, <2>3, WritesNamed DEF OnItsWay, Shown, Missed, Going, Named, Publishes, handed
  <1>10. econn # "live" /\ lastId > 0 => AskedFor(t)'
    BY <1>1, <1>3, <1>4, <1>5, <1>7, WritesNamed DEF StreamOf, AskedFor, Shown, Going, Named, Publishes, handed
  <1>11. AtHand(t)'
    BY <1>1, <1>4 DEF StreamOf, AtHand
  <1> QED BY <1>1, <1>3, <1>4, <1>6, <1>8, <1>9, <1>10, <1>11 DEF StreamInv, StreamOf, handed

\* An id that nobody has been told.
New(t, k) == \A n \in Nat : Out(t, n) => n < k

\* A writer goes from t to u, and the row of m becomes r: what it changes it has at
\* hand, in its events or as an update, and nothing else.
Advances(t, u, m, r) ==
    /\ erow[m] >= 0 /\ erow' = [erow EXCEPT ![m] = r] /\ UNCHANGED <<sub, handed>>
    /\ t.pc # "publish" /\ Holds(u)'
    /\ r # erow[m] => econn # "listed"
    /\ \A n \in Guests : Named(t, n) \/ (n = m /\ r # erow[m]) =>
         \/ Named(u, n)
         \/ n = m /\ r = E!Gone
         \/ Publishes(u, n) /\ erow'[n] >= 0 /\ New(t, u.id) /\ [id |-> u.id, m |-> n] \in elog'
    /\ r = E!Gone => Publishes(u, m) /\ u.ver = E!Gone /\ (lastId > 0 => econn # "off")
    /\ u.ver = E!Gone => r = E!Gone
    /\ t.pc = "read" => u.pc = "publish" /\ u.id = t.id /\ u.ver # E!Gone
    /\ \A n \in Nat : Out(t, n) => Out(u, n)'
    /\ \A e \in elog : erow'[e.m] >= 0 => e \in elog'
    /\ \A e \in elog' : erow'[e.m] >= 0 /\ Out(u, e.id)'
    /\ \A e \in elog' : e \in elog \/ (e = [id |-> u.id, m |-> u.m] /\ New(t, u.id) /\ u.pc \in {"publish", "read"} /\ u.ver # E!Gone)

LEMMA WritingKeeps ==
    ASSUME StreamInv, NEW t \in {E!Idle} \cup Writes, StreamOf(t), NEW u \in {E!Idle} \cup Writes, NEW m \in Guests, NEW r \in Marks,
           Advances(t, u, m, r), elog' \in SUBSET Event
    PROVE  /\ erow' \in [Guests -> Rows] /\ LogInv(u)'
           /\ econn = "listed" => list = erow'
           /\ econn = "live" => OnItsWay(u)'
           /\ econn # "live" /\ lastId > 0 => AskedFor(u)'
  <1>1. /\ erow' \in [Guests -> Rows] /\ erow'[m] = r /\ \A n \in Guests \ {m} : erow'[n] = erow[n]
        /\ erow[m] >= 0 /\ erow[m] \in Nat /\ r \in {-2} \cup Nat
    BY WritesNamed DEF Advances, StreamInv, StreamTypes, Rows, Marks
  <1>2. /\ UNCHANGED <<sub, econn, list, sent, lastId, view, eseen, since>> /\ LogInv(t) /\ t.pc # "publish"
        /\ \A i \in DOMAIN sub : sub[i] \in Sends
        /\ \A e \in elog \cup elog' : e.id \in Nat /\ e.m \in Guests
        /\ sent \in Nat /\ lastId \in Nat
    BY DEF Advances, handed, StreamOf, StreamInv, StreamTypes, Event
  <1>3. \A n \in Guests : Going(t, n) => Going(u, n)'
    BY <1>2 DEF Going, Publishes
  <1>4. r = E!Gone => Going(u, m)'
    BY DEF Advances, Going
  <1>5. New(t, u.id) => Missed(u.id)' /\ u.id > lastId
    BY <1>2 DEF New, LogInv, Missed
  <1>6. LogInv(u)'
    <2>1. ASSUME NEW i \in DOMAIN sub PROVE InOrder(u, i)'
      <3> DEFINE s == sub[i]
      <3>1. InOrder(t, i) /\ s \in Sends /\ s.m \in Guests
        BY <1>2 DEF LogInv, Sends
      <3>2. CASE s.m # m
        <4>1. erow'[s.m] = erow[s.m] /\ (Named(t, s.m) => Named(u, s.m) \/ Publishes(u, s.m))
          BY <1>1, <3>1, <3>2, Zenon DEF Advances
        <4>2. Out(u, s.id)' /\ (erow[s.m] >= 0 => [id |-> s.id, m |-> s.m] \in elog')
          <5>1. Out(t, s.id) /\ s.id \in Nat /\ (erow[s.m] >= 0 => [id |-> s.id, m |-> s.m] \in elog)
            BY <3>1 DEF InOrder, Sends
          <5> QED BY <4>1, <5>1 DEF Advances
        <4> QED BY <1>2, <1>3, <3>1, <4>1, <4>2 DEF InOrder, Publishes
      <3>3. CASE s.m = m
        <4>1. s.ver # E!Gone
          BY <1>1, <3>1, <3>3, WritesNamed DEF InOrder
        <4>2. r # erow[m] => Named(u, m) \/ Publishes(u, m)
          BY Zenon DEF Advances
        <4>3. Named(t, m) => Named(u, m) \/ Publishes(u, m)
          BY Zenon DEF Advances
        <4>4. Out(u, s.id)' /\ (r >= 0 => [id |-> s.id, m |-> s.m] \in elog')
          <5>1. Out(t, s.id) /\ s.id \in Nat /\ [id |-> s.id, m |-> s.m] \in elog
            BY <1>1, <3>1, <3>3 DEF InOrder, Sends
          <5> QED BY <1>1, <3>3, <5>1 DEF Advances
        <4>5. erow[m] # E!Gone /\ erow'[m] # E!NoRow
          BY <1>1, WritesNamed
        <4> QED BY <1>1, <1>2, <1>4, <3>1, <3>3, <4>1, <4>2, <4>3, <4>4, <4>5 DEF InOrder, Publishes
      <3> QED BY <3>2, <3>3
    <2>2. \A d, e \in elog' : d.id = e.id => d = e
      <3>1. \A e \in elog : Out(t, e.id)
        BY <1>2 DEF LogInv
      <3>2. \A d, e \in elog : d.id = e.id => d = e
        BY <1>2 DEF LogInv
      <3>3. \A e \in elog : New(t, u.id) => e.id < u.id
        BY <1>2, <3>1 DEF New
      <3> QED BY <1>2, <3>2, <3>3 DEF Advances
    <2>3. Out(u, sent)' /\ Out(u, lastId)'
      <3>1. Out(t, sent) /\ Out(t, lastId)
        BY <1>2 DEF LogInv
      <3>2. Out(u, sent)' = (sent < enext' /\ (u.pc = "commit" => sent < u.id)) /\ Out(u, lastId)' = (lastId < enext' /\ (u.pc = "commit" => lastId < u.id))
        BY <1>2 DEF Out
      <3>3. \A n \in Nat : Out(t, n) => (n < enext' /\ (u.pc = "commit" => n < u.id))
        BY DEF Advances, Out
      <3> QED BY <1>2, <3>1, <3>2, <3>3, Zenon
    <2>4. Holds(u)' /\ \A e \in elog' : Out(u, e.id)' /\ erow'[e.m] >= 0
      BY DEF Advances
    <2> QED BY <1>2, <2>1, <2>2, <2>3, <2>4 DEF LogInv
  <1>7. econn = "listed" => list = erow'
    <2>1. r = erow[m] => [erow EXCEPT ![m] = r] = erow
      BY DEF StreamInv, StreamTypes
    <2> QED BY <2>1 DEF Advances, StreamOf
  <1>8. ASSUME econn = "live" PROVE OnItsWay(u)'
    <2>1. OnItsWay(t)
      BY <1>8 DEF StreamOf
    <2>2. ASSUME NEW n \in Guests
          PROVE  \/ Shown(n)' \/ Named(u, n)
                 \/ erow'[n] = E!Gone /\ Going(u, n)'
                 \/ erow'[n] >= 0 /\ \E i \in DOMAIN sub : sub[i].m = n /\ Missed(sub[i].id)
                 \/ erow'[n] >= 0 /\ Publishes(u, n) /\ Missed(u.id)'
      <3>1. Named(t, n) \/ (n = m /\ r # erow[m]) =>
               Named(u, n) \/ (n = m /\ r = E!Gone) \/ (Publishes(u, n) /\ erow'[n] >= 0 /\ New(t, u.id))
        BY Zenon DEF Advances
      <3>2. CASE Named(t, n) \/ (n = m /\ r # erow[m])
        BY <1>1, <1>4, <1>5, <3>1, <3>2
      <3>3. CASE ~Named(t, n) /\ erow'[n] = erow[n]
        <4>1. Shown(n) => Shown(n)'
          BY <1>2, <3>3 DEF Shown
        <4> QED BY <1>2, <1>3, <2>1, <3>3, <4>1 DEF OnItsWay, Publishes
      <3> QED BY <1>1, <3>2, <3>3
    <2>3. ASSUME NEW e \in elog'
          PROVE  \/ e.id < since \/ e.id \in eseen
                 \/ Missed(e.id) /\ \E i \in DOMAIN sub : sub[i].id = e.id /\ sub[i].ver # E!Gone
                 \/ Missed(e.id) /\ u.pc \in {"publish", "read"} /\ u.id = e.id /\ u.ver # E!Gone
      <3>1. CASE e \in elog
        BY <1>2, <2>1, <3>1 DEF OnItsWay, Advances
      <3>2. CASE e = [id |-> u.id, m |-> u.m] /\ New(t, u.id) /\ u.pc \in {"publish", "read"} /\ u.ver # E!Gone
        BY <1>2, <1>5, <3>2 DEF Missed
      <3> QED BY <3>1, <3>2 DEF Advances
    <2> QED BY <1>2, <2>2, <2>3 DEF OnItsWay, Missed
  <1>9. ASSUME econn # "live", lastId > 0 PROVE AskedFor(u)'
    <2>1. AskedFor(t)
      BY <1>9 DEF StreamOf
    <2>2. ASSUME NEW n \in Guests, econn = "off" PROVE ~Going(u, n)'
      <3>1. ~Going(t, n) /\ r # E!Gone
        BY <1>9, <2>1, <2>2 DEF AskedFor, Advances
      <3> QED BY <1>2, <3>1 DEF Advances, Going
    <2>3. ASSUME NEW n \in Guests
          PROVE  Shown(n)' \/ Named(u, n) \/ (erow'[n] = E!Gone /\ Going(u, n)') \/ \E e \in elog' : e.m = n /\ e.id > lastId
      <3>1. Named(t, n) \/ (n = m /\ r # erow[m]) =>
               Named(u, n) \/ (n = m /\ r = E!Gone) \/ (New(t, u.id) /\ [id |-> u.id, m |-> n] \in elog')
        BY DEF Advances
      <3>2. CASE Named(t, n) \/ (n = m /\ r # erow[m])
        BY <1>1, <1>4, <1>5, <3>1, <3>2
      <3>3. CASE ~Named(t, n) /\ erow'[n] = erow[n]
        <4>1. Shown(n) => Shown(n)'
          BY <1>2, <3>3 DEF Shown
        <4>2. \A e \in elog : e.m = n => e \in elog'
          BY <1>2, <3>3 DEF Advances, LogInv
        <4> QED BY <1>2, <1>3, <2>1, <3>3, <4>1, <4>2 DEF AskedFor
      <3> QED BY <1>1, <3>2, <3>3
    <2>4. \A e \in elog' : e.id < since \/ e.id \in eseen \/ e.id > lastId
      BY <1>2, <1>5, <2>1 DEF AskedFor, Advances
    <2> QED BY <1>2, <2>2, <2>3, <2>4 DEF AskedFor
  <1> QED BY <1>1, <1>6, <1>7, <1>8, <1>9

\* What a writer holds, changed one field after another.
LEMMA IdleBecomes ==
    ASSUME NEW m, NEW v
    PROVE  /\ [E!Idle EXCEPT !.pc = "named", !.m = m, !.ver = v] = [pc |-> "named", m |-> m, ver |-> v, id |-> 0]
           /\ [E!Idle EXCEPT !.pc = "note", !.m = m] = [pc |-> "note", m |-> m, ver |-> 0, id |-> 0]
           /\ [E!Idle EXCEPT !.pc = "publish", !.m = m, !.ver = v] = [pc |-> "publish", m |-> m, ver |-> v, id |-> 0]
  <1> DEFINE Of(a, b, c) == [pc |-> a, m |-> b, ver |-> c, id |-> 0]
  <1>1. PICK a, b, n, p, z : a = "idle" /\ b = "named" /\ n = "note" /\ p = "publish" /\ z = "none"
    OBVIOUS
  <1>2. E!Idle = Of(a, z, 0)
    BY <1>1, WritesNamed
  <1>3. [Of(a, z, 0) EXCEPT !.pc = b] = Of(b, z, 0) /\ [Of(b, z, 0) EXCEPT !.m = m] = Of(b, m, 0) /\ [Of(b, m, 0) EXCEPT !.ver = v] = Of(b, m, v)
    OBVIOUS
  <1>4. [Of(a, z, 0) EXCEPT !.pc = n] = Of(n, z, 0) /\ [Of(n, z, 0) EXCEPT !.m = m] = Of(n, m, 0)
    OBVIOUS
  <1>5. [Of(a, z, 0) EXCEPT !.pc = p] = Of(p, z, 0) /\ [Of(p, z, 0) EXCEPT !.m = m] = Of(p, m, 0) /\ [Of(p, m, 0) EXCEPT !.ver = v] = Of(p, m, v)
    OBVIOUS
  <1>6. [E!Idle EXCEPT !.pc = b, !.m = m, !.ver = v] = Of(b, m, v)
    BY <1>2, <1>3, Zenon
  <1>7. [E!Idle EXCEPT !.pc = n, !.m = m] = Of(n, m, 0)
    BY <1>2, <1>4, Zenon
  <1>8. [E!Idle EXCEPT !.pc = p, !.m = m, !.ver = v] = Of(p, m, v)
    BY <1>2, <1>5, Zenon
  <1> QED BY <1>1, <1>6, <1>7, <1>8

\* A writer that goes on keeps the invariant.
LEMMA WriterKeeps ==
    ASSUME StreamInv, NEW w \in Streamers, NEW t \in {E!Idle} \cup Writes, StreamOf(t), \A v \in Streamers \ {w} : ewriter[v] = E!Idle,
           NEW u \in {E!Idle} \cup Writes, ewriter' = [ewriter EXCEPT ![w] = u], NEW m \in Guests, NEW r \in Marks, Advances(t, u, m, r),
           elog' \in SUBSET Event, enext' \in Nat \ {0}
    PROVE  StreamInv'
  <1>1. AtHand(u)' /\ ewriter' \in [Streamers -> {E!Idle} \cup Writes]
    BY HandedOn, Zenon DEF StreamInv
  <1>2. UNCHANGED <<sub, econn, list, sent, lastId, view, eseen, since>>
    BY DEF Advances, handed
  <1>3. StreamTypes'
    BY <1>1, <1>2, WritingKeeps, Zenon DEF StreamInv, StreamTypes
  <1>4. StreamOf(u)'
    BY <1>1, <1>2, WritingKeeps, Zenon DEF StreamOf
  <1> QED BY <1>3, <1>4 DEF StreamInv

\* The row of a machine that is there, rewritten as it is.
LEMMA RowAsItIs == ASSUME StreamTypes, NEW m \in Guests, erow[m] >= 0 PROVE erow = [erow EXCEPT ![m] = erow[m]] /\ erow[m] \in Nat
  BY WritesNamed DEF StreamTypes, Rows

LEMMA WriteBegins ==
    ASSUME StreamInv, Attended, NEW w \in Streamers, NEW m \in Guests, E!TransitionLog(w, m) \/ E!Rename(w, m) \/ E!Note(w, m) \/ E!Destroy(w, m)
    PROVE  StreamInv'
  <1>1. PICK t \in {E!Idle} \cup Writes : StreamOf(t)
    BY DEF StreamInv
  <1>2. E!MayWrite(w) /\ erow[m] >= 0 /\ UNCHANGED <<sub, handed>>
    BY StaysKept DEF E!TransitionLog, E!Rename, E!Note, E!Destroy, E!Exists
  <1>3. t = E!Idle /\ econn # "listed" /\ \A v \in Streamers \ {w} : ewriter[v] = E!Idle
    BY <1>1, <1>2, OneWriter DEF StreamOf
  <1>4. erow = [erow EXCEPT ![m] = erow[m]] /\ erow[m] \in Nat /\ enext \in Nat \ {0} /\ lastId \in Nat
    BY <1>2, RowAsItIs DEF StreamInv, StreamTypes
  <1>45. PICK r \in Nat : r = erow[m]
    BY <1>4
  <1>5. /\ t.pc = "idle" /\ elog \in SUBSET Event
        /\ \A e \in elog : e.id \in Nat /\ e.m \in Guests /\ erow[e.m] >= 0 /\ e.id < enext
        /\ \A n \in Guests : ~Named(t, n)
        /\ \A n : Out(t, n) <=> n < enext
    BY <1>1, <1>3, WritesNamed DEF StreamOf, LogInv, StreamInv, StreamTypes, Event, Named, Out
  <1>6. ASSUME E!TransitionLog(w, m) PROVE StreamInv'
    <2>0. PICK u \in Writes : u = [pc |-> "commit", m |-> m, ver |-> erow[m] + 1, id |-> enext] /\ ewriter' = [ewriter EXCEPT ![w] = u]
      <3>1. [pc |-> "commit", m |-> m, ver |-> erow[m] + 1, id |-> enext] \in Writes
        BY <1>4 DEF Writes, Marks
      <3> QED BY <1>6, <3>1, Zenon DEF E!TransitionLog
    <2>1. enext' = enext + 1 /\ UNCHANGED <<erow, elog>>
      BY <1>6 DEF E!TransitionLog
    <2>2. u.pc = "commit" /\ u.m = m /\ u.ver = erow[m] + 1 /\ u.id = enext
      BY <2>0
    <2>3. \A n : Out(u, n)' <=> n < enext + 1 /\ n < enext
      BY <2>1, <2>2 DEF Out
    <2>4. Holds(u)'
      BY <1>2, <1>4, <2>1, <2>2, WritesNamed DEF Holds
    <2>5. Advances(t, u, m, r)
      BY <1>2, <1>3, <1>4, <1>5, <1>45, <2>1, <2>2, <2>3, <2>4, WritesNamed DEF Advances, Named
    <2>6. enext' \in Nat \ {0} /\ r \in Marks
      BY <1>4, <2>1 DEF Marks
    <2> QED BY <1>1, <1>3, <1>5, <2>0, <2>1, <2>5, <2>6, WriterKeeps, Zenon
  <1>7. ASSUME E!Rename(w, m) PROVE StreamInv'
    <2>0. PICK u \in Writes : u = [pc |-> "named", m |-> m, ver |-> erow[m] + 1, id |-> 0] /\ ewriter' = [ewriter EXCEPT ![w] = u]
      <3>1. [pc |-> "named", m |-> m, ver |-> erow[m] + 1, id |-> 0] \in Writes
        BY <1>4 DEF Writes, Marks
      <3>2. [E!Idle EXCEPT !.pc = "named", !.m = m, !.ver = erow[m] + 1] = [pc |-> "named", m |-> m, ver |-> erow[m] + 1, id |-> 0]
        BY IdleBecomes, Zenon
      <3>3. ewriter' = [ewriter EXCEPT ![w] = [E!Idle EXCEPT !.pc = "named", !.m = m, !.ver = erow[m] + 1]]
        BY <1>7, Zenon DEF E!Rename
      <3> QED BY <3>1, <3>2, <3>3, Zenon
    <2>1. erow' = [erow EXCEPT ![m] = erow[m] + 1] /\ UNCHANGED <<enext, elog>>
      BY <1>7, WritesNamed DEF E!Rename
    <2>2. u.pc = "named" /\ u.m = m /\ u.ver = erow[m] + 1 /\ u.id = 0 /\ Named(u, m)
      BY <2>0 DEF Publishes, Named
    <2>3. \A n : Out(u, n)' <=> n < enext
      BY <2>1, <2>2 DEF Out
    <2>4. erow'[m] = erow[m] + 1 /\ \A n \in Guests \ {m} : erow'[n] = erow[n]
      BY <2>1 DEF StreamInv, StreamTypes
    <2>5. Holds(u)'
      BY <1>2, <1>4, <2>1, <2>4, <2>2, WritesNamed DEF Holds
    <2>6. Advances(t, u, m, r + 1)
      <3>1. \A e \in elog : erow'[e.m] >= 0
        BY <1>4, <1>5, <2>4
      <3> QED BY <1>2, <1>3, <1>4, <1>5, <1>45, <2>1, <2>2, <2>3, <2>5, <3>1, WritesNamed DEF Advances
    <2>7. r + 1 \in Marks
      BY DEF Marks
    <2> QED BY <1>1, <1>3, <1>4, <1>5, <2>0, <2>1, <2>6, <2>7, WriterKeeps, Zenon
  <1>8. ASSUME E!Note(w, m) PROVE StreamInv'
    <2>0. PICK u \in Writes : u = [pc |-> "note", m |-> m, ver |-> 0, id |-> 0] /\ ewriter' = [ewriter EXCEPT ![w] = u]
      <3>1. [pc |-> "note", m |-> m, ver |-> 0, id |-> 0] \in Writes
        BY <1>4 DEF Writes, Marks
      <3> QED BY <1>8, <3>1, IdleBecomes, Zenon DEF E!Note
    <2>1. UNCHANGED <<erow, elog, enext>>
      BY <1>8 DEF E!Note, E!store
    <2>2. u.pc = "note" /\ u.m = m /\ u.ver = 0 /\ u.id = 0
      BY <2>0
    <2>3. \A n : Out(u, n)' <=> n < enext
      BY <2>1, <2>2 DEF Out
    <2>4. Holds(u)'
      BY <1>2, <1>4, <2>1, <2>2, WritesNamed DEF Holds
    <2>5. Advances(t, u, m, r)
      BY <1>2, <1>3, <1>4, <1>5, <1>45, <2>1, <2>2, <2>3, <2>4, WritesNamed DEF Advances, Named
    <2> QED BY <1>1, <1>3, <1>4, <1>5, <1>45, <2>0, <2>1, <2>2, <2>5, WriterKeeps, Zenon DEF Marks
  <1>9. ASSUME E!Destroy(w, m) PROVE StreamInv'
    <2>0. PICK u \in Writes : u = [pc |-> "publish", m |-> m, ver |-> E!Gone, id |-> 0] /\ ewriter' = [ewriter EXCEPT ![w] = u]
      <3>1. [pc |-> "publish", m |-> m, ver |-> E!Gone, id |-> 0] \in Writes
        BY <1>4 DEF Writes, Marks
      <3>2. [E!Idle EXCEPT !.pc = "publish", !.m = m, !.ver = E!Gone] = [pc |-> "publish", m |-> m, ver |-> E!Gone, id |-> 0]
        BY IdleBecomes, Zenon
      <3>3. ewriter' = [ewriter EXCEPT ![w] = [E!Idle EXCEPT !.pc = "publish", !.m = m, !.ver = E!Gone]]
        BY <1>9, Zenon DEF E!Destroy
      <3> QED BY <3>1, <3>2, <3>3, Zenon
    <2>1. erow' = [erow EXCEPT ![m] = E!Gone] /\ enext' = enext
          /\ elog' = {e \in elog : e.m # m} /\ (econn # "off" \/ lastId = 0)
      BY <1>9, WritesNamed DEF E!Destroy, Attended
    <2>2. u.pc = "publish" /\ u.m = m /\ u.ver = E!Gone /\ u.id = 0 /\ Publishes(u, m)
      BY <2>0 DEF Publishes, Named
    <2>3. \A n : Out(u, n)' <=> n < enext
      BY <2>1, <2>2 DEF Out
    <2>4. erow'[m] = E!Gone /\ \A n \in Guests \ {m} : erow'[n] = erow[n]
      BY <2>1 DEF StreamInv, StreamTypes
    <2>5. Holds(u)'
      <3>1. \A i \in DOMAIN sub : sub[i].m = m => sub[i].ver # E!Gone
        <4>1. \A i \in DOMAIN sub : sub[i].ver = E!Gone => erow[sub[i].m] = E!Gone
          BY <1>1, Zenon DEF StreamOf, LogInv, InOrder
        <4> QED BY <1>2, <4>1, WritesNamed
      <3>2. u.pc = "publish" /\ u.m = m /\ u.ver = E!Gone /\ u.id = 0 /\ erow'[m] = E!Gone /\ sub' = sub
        BY <1>2, <2>2, <2>4
      <3> QED BY <3>1, <3>2 DEF Holds
    <2>6. Advances(t, u, m, E!Gone)
      BY <1>2, <1>3, <1>4, <1>5, <1>45, <2>1, <2>2, <2>3, <2>4, <2>5, WritesNamed DEF Advances
    <2> QED BY <1>1, <1>3, <1>4, <1>5, <1>45, <2>0, <2>1, <2>2, <2>6, WriterKeeps, Zenon DEF Marks
  <1> QED BY <1>6, <1>7, <1>8, <1>9

\* The later steps of a writer, up to the one that publishes.
LEMMA WriteGoesOn ==
    ASSUME StreamInv, Attended, NEW w \in Streamers, E!TransitionCommit(w) \/ E!InsertMachineEvent(w) \/ E!NoteRead(w)
    PROVE  StreamInv'
  <1>1. PICK t \in {E!Idle} \cup Writes : StreamOf(t)
    BY DEF StreamInv
  <1>2. /\ ewriter[w] # E!Idle /\ ewriter[w].pc \in {"commit", "named", "note", "read"}
        /\ (ewriter[w].pc = "commit" => econn # "listed") /\ UNCHANGED <<sub, handed>>
    BY StaysKept, WritesNamed DEF E!TransitionCommit, E!InsertMachineEvent, E!NoteRead, Attended
  <1>3. ewriter[w] = t /\ (\A v \in Streamers \ {w} : ewriter[v] = E!Idle) /\ t \in Writes
    BY <1>1, <1>2, OneWriter DEF StreamOf
  <1>4. /\ t.m \in Guests /\ t.ver \in Marks /\ t.id \in Nat /\ erow[t.m] >= 0 /\ t.ver # E!Gone /\ t.ver \in Nat
        /\ Holds(t) /\ (\A i \in DOMAIN sub : Out(t, sub[i].id) /\ sub[i] \in Sends)
    <2>1. Holds(t) /\ \A i \in DOMAIN sub : InOrder(t, i)
      BY <1>1 DEF StreamOf, LogInv
    <2>2. t.m \in Guests /\ t.ver \in Marks /\ t.id \in Nat /\ t.pc \in {"commit", "named", "note", "read"}
      BY <1>2, <1>3 DEF Writes
    <2>3. erow[t.m] >= 0 /\ t.ver # E!Gone
      BY <2>1, <2>2 DEF Holds
    <2>4. t.ver \in Nat
      BY <2>2, <2>3 DEF Marks
    <2>5. \A i \in DOMAIN sub : Out(t, sub[i].id) /\ sub[i] \in Sends
      <3>1. \A i \in DOMAIN sub : Out(t, sub[i].id)
        BY <2>1, Zenon DEF InOrder
      <3>2. \A i \in DOMAIN sub : sub[i] \in Sends
        BY DEF StreamInv, StreamTypes
      <3> QED BY <3>1, <3>2
    <2> QED BY <2>1, <2>2, <2>3, <2>4, <2>5
  <1>5. /\ erow = [erow EXCEPT ![t.m] = erow[t.m]] /\ erow[t.m] \in Nat /\ enext \in Nat \ {0} /\ elog \in SUBSET Event
        /\ \A e \in elog : e.id \in Nat \ {0} /\ e.m \in Guests /\ erow[e.m] >= 0 /\ Out(t, e.id)
    BY <1>1, <1>4, RowAsItIs DEF StreamOf, LogInv, StreamInv, StreamTypes, Event
  <1>6. PICK r \in Nat : r = erow[t.m]
    BY <1>5
  <1>7. ASSUME E!TransitionCommit(w) PROVE StreamInv'
    <2>1. /\ t.pc = "commit" /\ ewriter' = [ewriter EXCEPT ![w].pc = "publish"] /\ erow' = [erow EXCEPT ![t.m] = t.ver]
          /\ elog' = elog \cup {[id |-> t.id, m |-> t.m]} /\ enext' = enext
      BY <1>3, <1>7 DEF E!TransitionCommit
    <2>2. PICK u \in Writes : u = [pc |-> "publish", m |-> t.m, ver |-> t.ver, id |-> t.id] /\ ewriter' = [ewriter EXCEPT ![w] = u]
      <3>1. [pc |-> "publish", m |-> t.m, ver |-> t.ver, id |-> t.id] \in Writes
        BY <1>4 DEF Writes
      <3>2. [t EXCEPT !.pc = "publish"] = [pc |-> "publish", m |-> t.m, ver |-> t.ver, id |-> t.id]
        BY <1>3 DEF Writes
      <3> QED BY <1>3, <2>1, <3>1, <3>2, Zenon DEF StreamInv, StreamTypes
    <2>3. u.pc = "publish" /\ u.m = t.m /\ u.ver = t.ver /\ u.id = t.id /\ Publishes(u, t.m) /\ \A n \in Guests : ~Named(t, n)
      BY <2>1, <2>2 DEF Publishes, Named
    <2>4. t.ver = r + 1 /\ t.id > 0 /\ t.id < enext
      BY <1>4, <1>6, <2>1 DEF Holds
    <2>5. erow'[t.m] = t.ver /\ \A n \in Guests \ {t.m} : erow'[n] = erow[n]
      BY <1>4, <2>1 DEF StreamInv, StreamTypes
    <2>6. \A n \in Nat : Out(t, n) => n < t.id /\ Out(u, n)'
      BY <2>1, <2>3 DEF Out
    <2>7. Holds(u)'
      BY <1>2, <1>4, <2>1, <2>3, <2>5, <2>6, WritesNamed DEF Holds, Sends
    <2>8. elog' \in SUBSET Event /\ \A e \in elog' : erow'[e.m] >= 0 /\ Out(u, e.id)'
      <3>1. [id |-> t.id, m |-> t.m] \in Event /\ Out(u, t.id)'
        BY <1>4, <2>1, <2>3, <2>4 DEF Event, Out
      <3>2. \A e \in elog : erow'[e.m] >= 0 /\ Out(u, e.id)'
        BY <1>5, <1>4, <2>5, <2>6
      <3> QED BY <1>4, <1>5, <2>1, <2>5, <3>1, <3>2
    <2>9. Advances(t, u, t.m, t.ver)
      BY <1>2, <1>3, <1>4, <1>5, <1>6, <2>1, <2>3, <2>4, <2>5, <2>6, <2>7, <2>8, WritesNamed DEF Advances, New
    <2> QED BY <1>1, <1>3, <1>4, <1>5, <2>1, <2>2, <2>8, <2>9, WriterKeeps, Zenon
  <1>8. ASSUME E!InsertMachineEvent(w) PROVE StreamInv'
    <2>1. /\ t.pc \in {"named", "note"} /\ elog' = elog \cup {[id |-> enext, m |-> t.m]} /\ enext' = enext + 1 /\ erow' = erow
          /\ ewriter' = [ewriter EXCEPT ![w].id = enext, ![w].pc = IF t.pc = "named" THEN "publish" ELSE "read"]
      BY <1>3, <1>4, <1>8 DEF E!InsertMachineEvent, E!Exists
    <2>2. PICK u \in Writes : /\ u = [pc |-> IF t.pc = "named" THEN "publish" ELSE "read", m |-> t.m, ver |-> t.ver, id |-> enext]
                              /\ ewriter' = [ewriter EXCEPT ![w] = u]
      <3>1. [pc |-> IF t.pc = "named" THEN "publish" ELSE "read", m |-> t.m, ver |-> t.ver, id |-> enext] \in Writes
        BY <1>4, <1>5 DEF Writes
      <3>2. [[t EXCEPT !.id = enext] EXCEPT !.pc = IF t.pc = "named" THEN "publish" ELSE "read"] =
                [pc |-> IF t.pc = "named" THEN "publish" ELSE "read", m |-> t.m, ver |-> t.ver, id |-> enext]
        <4>1. PICK p, n, v, i, q : t = [pc |-> p, m |-> n, ver |-> v, id |-> i] /\ t.m = n /\ t.ver = v /\ q = IF t.pc = "named" THEN "publish" ELSE "read"
          BY <1>3 DEF Writes
        <4>2. [[pc |-> p, m |-> n, ver |-> v, id |-> i] EXCEPT !.id = enext] = [pc |-> p, m |-> n, ver |-> v, id |-> enext]
          OBVIOUS
        <4>3. [[pc |-> p, m |-> n, ver |-> v, id |-> enext] EXCEPT !.pc = q] = [pc |-> q, m |-> n, ver |-> v, id |-> enext]
          OBVIOUS
        <4> QED BY <4>1, <4>2, <4>3, Zenon
      <3>3. ewriter \in [Streamers -> {E!Idle} \cup Writes]
        BY DEF StreamInv, StreamTypes
      <3> QED BY <1>3, <2>1, <3>1, <3>2, <3>3
    <2>3. /\ u.m = t.m /\ u.ver = t.ver /\ u.id = enext /\ u.pc = (IF t.pc = "named" THEN "publish" ELSE "read")
          /\ \A n \in Guests : Named(t, n) => n = t.m /\ Publishes(u, n)
      BY <2>1, <2>2 DEF Publishes, Named
    <2>4. \A n \in Nat : (Out(t, n) <=> n < enext) /\ (Out(u, n)' <=> n < enext + 1)
      BY <1>5, <2>1, <2>3 DEF Out
    <2>5. Holds(u)'
      BY <1>2, <1>4, <1>5, <2>1, <2>3, <2>4, WritesNamed DEF Holds, Sends
    <2>6. elog' \in SUBSET Event /\ \A e \in elog' : erow[e.m] >= 0 /\ Out(u, e.id)'
      <3>1. [id |-> enext, m |-> t.m] \in Event
        BY <1>4, <1>5 DEF Event
      <3>2. \A e \in elog : Out(u, e.id)'
        BY <1>5, <2>4
      <3> QED BY <1>4, <1>5, <2>1, <2>4, <3>1, <3>2
    <2>7. Advances(t, u, t.m, r)
      BY <1>2, <1>3, <1>4, <1>5, <1>6, <2>1, <2>3, <2>4, <2>5, <2>6, WritesNamed DEF Advances, New
    <2>8. enext' \in Nat \ {0} /\ r \in Marks
      BY <1>5, <2>1 DEF Marks
    <2> QED BY <1>1, <1>3, <1>4, <2>2, <2>6, <2>7, <2>8, WriterKeeps, Zenon
  <1>9. ASSUME E!NoteRead(w) PROVE StreamInv'
    <2>1. /\ t.pc = "read" /\ UNCHANGED <<erow, elog, enext>>
          /\ ewriter' = [ewriter EXCEPT ![w] = [t EXCEPT !.pc = "publish", !.ver = erow[t.m]]]
      BY <1>3, <1>4, <1>9, Zenon DEF E!NoteRead, E!Exists, E!store
    <2>2. PICK u \in Writes : u = [pc |-> "publish", m |-> t.m, ver |-> r, id |-> t.id] /\ ewriter' = [ewriter EXCEPT ![w] = u]
      <3>1. [pc |-> "publish", m |-> t.m, ver |-> r, id |-> t.id] \in Writes
        BY <1>4 DEF Writes, Marks
      <3>2. [[t EXCEPT !.pc = "publish"] EXCEPT !.ver = r] = [pc |-> "publish", m |-> t.m, ver |-> r, id |-> t.id]
        <4>1. PICK p, n, v, i, q : t = [pc |-> p, m |-> n, ver |-> v, id |-> i] /\ t.m = n /\ t.id = i /\ q = "publish"
          BY <1>3 DEF Writes
        <4>2. [[pc |-> p, m |-> n, ver |-> v, id |-> i] EXCEPT !.pc = q] = [pc |-> q, m |-> n, ver |-> v, id |-> i]
          OBVIOUS
        <4>3. [[pc |-> q, m |-> n, ver |-> v, id |-> i] EXCEPT !.ver = r] = [pc |-> q, m |-> n, ver |-> r, id |-> i]
          OBVIOUS
        <4> QED BY <4>1, <4>2, <4>3, Zenon
      <3> QED BY <1>6, <2>1, <3>1, <3>2, Zenon
    <2>3. u.pc = "publish" /\ u.m = t.m /\ u.ver = r /\ u.id = t.id /\ \A n \in Guests : ~Named(t, n)
      BY <2>1, <2>2 DEF Named
    <2>4. \A n \in Nat : (Out(t, n) <=> n < enext) /\ (Out(u, n)' <=> n < enext)
      BY <2>1, <2>3 DEF Out
    <2>5. Holds(u)'
      BY <1>2, <1>4, <1>6, <2>1, <2>3, WritesNamed DEF Holds
    <2>6. Advances(t, u, t.m, r)
      BY <1>2, <1>3, <1>4, <1>5, <1>6, <2>1, <2>3, <2>4, <2>5, WritesNamed DEF Advances
    <2>7. r \in Marks
      BY DEF Marks
    <2> QED BY <1>1, <1>3, <1>4, <1>5, <2>1, <2>2, <2>6, <2>7, WriterKeeps, Zenon
  <1> QED BY <1>7, <1>8, <1>9

\* The update that a writer publishes is of the row as it is, and the last one.
LEMMA PublishKeeps == ASSUME StreamInv, Attended, StreamSizes, NEW w \in Streamers, E!Publish(w) PROVE StreamInv'
  <1>1. PICK t \in {E!Idle} \cup Writes : StreamOf(t)
    BY DEF StreamInv
  <1>2. ewriter[w].pc = "publish" /\ ewriter[w] # E!Idle /\ UNCHANGED <<erow, elog, enext, handed>>
    BY StaysKept, WritesNamed DEF E!Publish, E!store
  <1>3. ewriter[w] = t /\ (\A v \in Streamers \ {w} : ewriter[v] = E!Idle) /\ t \in Writes /\ t.pc = "publish"
    BY <1>1, <1>2, OneWriter DEF StreamOf
  <1>4. /\ ewriter' = [ewriter EXCEPT ![w] = E!Idle] /\ Len(sub) < Buf
        /\ sub' = IF econn # "off" THEN Append(sub, [t EXCEPT !.pc = "update"]) ELSE sub
    BY <1>3 DEF E!Publish, Attended
  <1>5. UNCHANGED <<erow, elog, enext, econn, list, sent, lastId, view, eseen, since>>
    BY <1>2 DEF handed
  <1>6. E!Idle.pc = "idle" /\ E!Idle.ver # E!Gone /\ AtHand(E!Idle)' /\ ewriter' \in [Streamers -> {E!Idle} \cup Writes]
    <2>1. E!Idle.pc = "idle" /\ E!Idle.ver # E!Gone
      BY WritesNamed
    <2> QED BY <1>3, <1>4, <2>1, HandedOn, Zenon DEF StreamInv
  <1>7. /\ t.m \in Guests /\ t.ver \in Marks /\ t.id \in Nat /\ t.ver = erow[t.m] /\ Holds(t) /\ LogInv(t)
        /\ \A n : Out(t, n) <=> n < enext
        /\ \A n : Out(E!Idle, n)' <=> n < enext
        /\ \A m : ~Named(t, m) /\ ~Publishes(E!Idle, m)
    BY <1>1, <1>3, <1>5, <1>6 DEF Writes, StreamOf, LogInv, Holds, Out, Named, Publishes
  <1>8. CASE econn = "off"
    <2>1. sub' = sub /\ sub = <<>> /\ DOMAIN sub = {}
      BY <1>1, <1>4, <1>8 DEF StreamOf
    <2>2. LogInv(E!Idle)'
      BY <1>5, <1>6, <1>7, <2>1 DEF LogInv, Holds
    <2>3. lastId > 0 => AskedFor(E!Idle)'
      BY <1>1, <1>5, <1>7, <1>8, <2>1 DEF StreamOf, AskedFor, Shown, Going
    <2>4. StreamTypes'
      BY <1>5, <1>6, <2>1 DEF StreamInv, StreamTypes
    <2> QED BY <1>5, <1>6, <1>8, <2>1, <2>2, <2>3, <2>4 DEF StreamInv, StreamOf
  <1>9. CASE econn # "off"
    <2>1. PICK a \in Sends : a = [pc |-> "update", m |-> t.m, ver |-> t.ver, id |-> t.id] /\ sub' = Append(sub, a)
      <3>1. [pc |-> "update", m |-> t.m, ver |-> t.ver, id |-> t.id] \in Sends
        BY <1>7 DEF Sends
      <3>2. [t EXCEPT !.pc = "update"] = [pc |-> "update", m |-> t.m, ver |-> t.ver, id |-> t.id]
        <4>1. PICK p, n, v, i, q : t = [pc |-> p, m |-> n, ver |-> v, id |-> i] /\ t.m = n /\ t.ver = v /\ t.id = i /\ q = "update"
          BY <1>3 DEF Writes
        <4>2. [[pc |-> p, m |-> n, ver |-> v, id |-> i] EXCEPT !.pc = q] = [pc |-> q, m |-> n, ver |-> v, id |-> i]
          OBVIOUS
        <4> QED BY <4>1, <4>2
      <3> QED BY <1>4, <1>9, <3>1, <3>2
    <2>2. PICK L \in Nat : L = Len(sub)
      BY DEF StreamInv, StreamTypes
    <2>3. /\ DOMAIN sub = 1..L /\ DOMAIN sub' = 1..(L + 1) /\ sub' \in Seq(Sends)
          /\ sub'[L + 1] = a /\ \A i \in 1..L : sub'[i] = sub[i] /\ sub[i] \in Sends
      <3>1. sub \in Seq(Sends)
        BY DEF StreamInv, StreamTypes
      <3> QED BY <2>1, <2>2, <3>1
    <2>4. a.m = t.m /\ a.ver = t.ver /\ a.id = t.id /\ \A i \in DOMAIN sub : InOrder(t, i)
      BY <1>7, <2>1 DEF LogInv
    <2>5. \A m \in Guests : Going(t, m) => Going(E!Idle, m)'
      BY <2>3, <2>4 DEF Going, Publishes
    <2>6. LogInv(E!Idle)'
      <3>1. ASSUME NEW i \in 1..L PROVE InOrder(E!Idle, i)'
        <4>1. sub'[i] = sub[i] /\ sub[i].m \in Guests /\ InOrder(t, i)
          BY <2>3, <2>4, Zenon DEF Sends
        <4>2. sub[i].ver = E!Gone => \A j \in DOMAIN sub' : j > i => sub'[j].m # sub[i].m
          BY <1>7, <2>3, <2>4, <4>1 DEF InOrder, Holds
        <4>3. sub[i].ver # E!Gone => \A j \in DOMAIN sub' : j > i /\ sub'[j].ver # E!Gone => sub[i].id < sub'[j].id
          BY <1>3, <1>7, <2>3, <2>4, <4>1, SMTT(30) DEF InOrder, Holds
        <4>4. sub[i].ver = erow[sub[i].m] \/ \E j \in DOMAIN sub' : j > i /\ sub'[j].m = sub[i].m
          BY <1>7, <2>3, <2>4, <4>1 DEF InOrder, Publishes
        <4>5. erow[sub[i].m] = E!Gone => Going(E!Idle, sub[i].m)'
          BY <2>5, <4>1 DEF InOrder
        <4> QED BY <1>5, <1>7, <4>1, <4>2, <4>3, <4>4, <4>5 DEF InOrder
      <3>2. InOrder(E!Idle, L + 1)'
        <4>1. \A j \in DOMAIN sub' : ~(j > L + 1)
          BY <2>3
        <4>2. erow[t.m] # E!NoRow
          BY <1>7, WritesNamed DEF Marks
        <4>3. erow[t.m] = E!Gone => Going(E!Idle, t.m)'
          BY <1>7, <2>3, <2>4 DEF Going
        <4>4. erow[t.m] >= 0 => [id |-> t.id, m |-> t.m] \in elog
          BY <1>3, <1>7, WritesNamed DEF Holds
        <4>5. t.id < enext
          <5>1. CASE t.ver = E!Gone
            BY <1>7, <5>1 DEF Holds, StreamInv, StreamTypes
          <5>2. CASE t.ver # E!Gone
            <6>1. [id |-> t.id, m |-> t.m] \in elog
              BY <1>3, <1>7, <5>2 DEF Holds
            <6> QED BY <1>7, <6>1 DEF LogInv
          <5> QED BY <5>1, <5>2
        <4> QED BY <1>5, <1>7, <2>3, <2>4, <4>1, <4>2, <4>3, <4>4, <4>5 DEF InOrder
      <3>3. \A i \in DOMAIN sub' : InOrder(E!Idle, i)'
        <4>1. \A i \in DOMAIN sub' : i \in 1..L \/ i = L + 1
          BY <2>3
        <4> QED BY <3>1, <3>2, <4>1
      <3> QED BY <1>5, <1>6, <1>7, <3>3 DEF LogInv, Holds
    <2>7. econn = "live" => OnItsWay(E!Idle)'
      <3>1. SUFFICES ASSUME econn = "live" PROVE OnItsWay(E!Idle)'
        OBVIOUS
      <3>2. OnItsWay(t)
        BY <1>1, <3>1 DEF StreamOf
      <3>3. ASSUME NEW m \in Guests
            PROVE  \/ Shown(m)' \/ (erow[m] = E!Gone /\ Going(E!Idle, m)')
                   \/ erow[m] >= 0 /\ \E i \in DOMAIN sub' : sub'[i].m = m /\ Missed(sub'[i].id)
        <4>1. Shown(m)' = Shown(m)
          BY <1>5 DEF Shown
        <4> QED BY <1>7, <2>3, <2>4, <2>5, <3>2, <4>1 DEF OnItsWay, Publishes
      <3>4. ASSUME NEW e \in elog
            PROVE  \/ e.id < since \/ e.id \in eseen
                   \/ Missed(e.id) /\ \E i \in DOMAIN sub' : sub'[i].id = e.id /\ sub'[i].ver # E!Gone
        BY <2>3, <2>4, <3>2 DEF OnItsWay
      <3> QED BY <1>5, <3>3, <3>4 DEF OnItsWay, Missed
    <2>8. econn # "live" /\ lastId > 0 => AskedFor(E!Idle)'
      BY <1>1, <1>5, <1>7, <1>9, <2>5 DEF StreamOf, AskedFor, Shown
    <2>9. StreamTypes'
      BY <1>5, <1>6, <2>3 DEF StreamInv, StreamTypes
    <2> QED BY <1>1, <1>5, <1>6, <1>9, <2>6, <2>7, <2>8, <2>9 DEF StreamInv, StreamOf
  <1> QED BY <1>8, <1>9

\* The handler's steps before it follows the updates leave the log as it is.
LEMMA LogKept ==
    ASSUME NEW t, LogInv(t), UNCHANGED <<erow, elog, enext, sub>>, Out(t, sent'), Out(t, lastId')
    PROVE  LogInv(t)'
  <1>1. \A n : Out(t, n)' = Out(t, n)
    BY DEF Out
  <1>2. Holds(t)' = Holds(t) /\ \A i \in DOMAIN sub : InOrder(t, i)' = InOrder(t, i)
    BY DEF Holds, InOrder, Out, Going, Publishes, Named
  <1> QED BY <1>1, <1>2 DEF LogInv, Out

LEMMA ConnectKeeps == ASSUME StreamInv, E!Subscribe \/ E!List PROVE StreamInv'
  <1>1. PICK t \in {E!Idle} \cup Writes : StreamOf(t)
    BY DEF StreamInv
  <1>2. UNCHANGED <<erow, elog, enext, ewriter, sub, sent, lastId, view, eseen, since>>
    BY <1>1 DEF E!Subscribe, E!List, E!store, E!handler, E!browser, StreamOf
  <1>3. /\ econn # "live" /\ econn' \in {"subscribed", "listed"}
        /\ econn' = "listed" => list' = erow
        /\ list' \in [Guests -> Rows]
    BY DEF E!Subscribe, E!List, E!handler, StreamInv, StreamTypes
  <1>4. LogInv(t)' /\ AtHand(t)'
    BY <1>1, <1>2, LogKept DEF StreamOf, AtHand, LogInv
  <1>5. lastId > 0 => AskedFor(t)'
    BY <1>1, <1>2, <1>3 DEF StreamOf, AskedFor, Shown, Going, Publishes
  <1>6. StreamTypes'
    BY <1>2, <1>3 DEF StreamInv, StreamTypes
  <1> QED BY <1>1, <1>2, <1>3, <1>4, <1>5, <1>6 DEF StreamInv, StreamOf

\* The last of some ids is one of them, and none is later.
LEMMA LastOfIds ==
    ASSUME NEW k \in Nat, NEW ids \in SUBSET Nat, \A i \in ids : i < k, ids # {}
    PROVE  E!MaxId(ids) \in ids /\ \A i \in ids : i <= E!MaxId(ids)
  <1> DEFINE R == {ss \in Nat \X Nat : ss[1] < ss[2]}
             left == {k - i : i \in ids}
  <1>1. IsWellFoundedOn(R, Nat)
    BY NatLessThanWellFounded DEF OpToRel
  <1>2. left \in SUBSET Nat /\ left # {}
    <2>1. \A i \in ids : k - i \in Nat
      OBVIOUS
    <2> QED BY <2>1, Zenon
  <1>3. PICK x \in left : \A y \in left : ~(<<y, x>> \in R)
    <2> HIDE DEF R, left
    <2> QED BY <1>1, <1>2, WFMin, Zenon
  <1>4. PICK i \in ids : x = k - i
    BY <1>3
  <1>5. \A j \in ids : j <= i
    <2>1. ASSUME NEW j \in ids PROVE ~(k - j < k - i)
      BY <1>2, <1>3, <1>4, Zenon
    <2> QED BY <2>1
  <1> QED BY <1>5, Zenon DEF E!MaxId

\* A catch-up sends what the list and the log have.
LEMMA CatchupKeeps == ASSUME StreamInv, Attended, E!Catchup PROVE StreamInv'
  <1>1. PICK t \in {E!Idle} \cup Writes : StreamOf(t)
    BY DEF StreamInv
  <1>2. /\ econn = "listed" /\ econn' = "live" /\ list' = E!NoList /\ UNCHANGED <<erow, elog, enext, ewriter, sub>> /\ list = erow
        /\ E!WriteSnapshot \/ (E!ReplayAfter /\ lastId # 0)
    BY <1>1 DEF E!Catchup, E!NeedsSnapshot, E!store, Attended, StreamOf
  <1>3. /\ LogInv(t) /\ AtHand(t)' /\ Out(t, 0) /\ Out(t, lastId) /\ lastId \in Nat /\ enext \in Nat /\ eseen \in SUBSET Nat
        /\ \A e \in elog : e.id \in Nat /\ e.id > 0 /\ e.m \in Guests /\ e.id < enext /\ Out(t, e.id) /\ erow[e.m] >= 0
        /\ erow \in [Guests -> Rows] /\ view \in [Guests -> Rows] /\ since \in {-1} \cup Nat
    <2>1. LogInv(t) /\ AtHand(t)'
      BY <1>1, <1>2 DEF StreamOf, AtHand
    <2>2. Out(t, 0)
      BY <2>1 DEF LogInv, Holds, Out, StreamInv, StreamTypes
    <2> QED BY <2>1, <2>2 DEF LogInv, Out, StreamInv, StreamTypes, Event
  <1>4. list' \in [Guests -> Rows] /\ E!NoRow \in Rows
    BY <1>2 DEF E!NoList, Rows
  <1>5. SUFFICES /\ sent' \in Nat /\ lastId' \in Nat /\ Out(t, sent') /\ Out(t, lastId')
                 /\ view' \in [Guests -> Rows] /\ eseen' \in SUBSET Nat /\ since' \in {-1} \cup Nat /\ OnItsWay(t)'
    <2>1. LogInv(t)'
      BY <1>2, <1>3, <1>5, LogKept
    <2>2. StreamTypes'
      BY <1>2, <1>4, <1>5 DEF StreamInv, StreamTypes
    <2> QED BY <1>1, <1>2, <1>3, <1>5, <2>1, <2>2 DEF StreamInv, StreamOf
  <1>6. CASE E!WriteSnapshot
    <2>1. PICK ids : /\ ids \subseteq {e.id : e \in elog} /\ sent' = E!MaxId(ids) /\ eseen' = eseen \cup ids
      BY <1>6, Zenon DEF E!WriteSnapshot, E!RecentIds
    <2>2. since' = enext /\ lastId' = lastId /\ view' = [m \in Guests |-> IF erow[m] >= 0 THEN erow[m] ELSE E!NoRow]
      BY <1>2, <1>6 DEF E!WriteSnapshot, E!Listed
    <2>3. ids \in SUBSET Nat /\ \A i \in ids : i < enext /\ Out(t, i)
      BY <1>3, <2>1
    <2>4. sent' \in Nat /\ Out(t, sent')
      <3>1. CASE ids = {}
        BY <1>3, <2>1, <3>1 DEF E!MaxId
      <3>2. CASE ids # {}
        BY <1>3, <2>1, <2>3, <3>2, LastOfIds, Zenon
      <3> QED BY <3>1, <3>2
    <2>5. view' \in [Guests -> Rows] /\ \A m \in Guests : Shown(m)'
      <3>1. \A m \in Guests : erow[m] \in {-1, -2} \cup Nat /\ view'[m] = IF erow[m] >= 0 THEN erow[m] ELSE E!NoRow
        BY <1>3, <2>2, WritesNamed DEF Rows
      <3>2. view' \in [Guests -> Rows]
        BY <1>3, <1>4, <2>2
      <3> QED BY <1>2, <3>1, <3>2 DEF Shown
    <2>6. OnItsWay(t)'
      BY <1>2, <1>3, <2>2, <2>5 DEF OnItsWay
    <2> QED BY <1>3, <2>1, <2>2, <2>3, <2>4, <2>5, <2>6, Zenon
  <1>7. CASE E!ReplayAfter /\ lastId # 0
    <2>1. PICK evs \in SUBSET elog : evs = {e \in elog : e.id > lastId}
      BY Zenon
    <2>2. PICK ids \in SUBSET Nat : ids = {e.id : e \in evs} \cup {lastId}
      BY <1>3, <2>1, Zenon
    <2>3. /\ sent' = E!MaxId(ids) /\ lastId' = E!MaxId(ids) /\ eseen' = eseen \cup {e.id : e \in evs} /\ since' = since
          /\ view' = [m \in Guests |-> IF \E e \in evs : e.m = m THEN erow[m] ELSE view[m]]
      <3>1. {e \in E!After(lastId) : E!Listed(e.m)} = evs
        BY <1>2, <1>3, <2>1 DEF E!After, E!Listed
      <3> QED BY <1>2, <1>7, <2>2, <3>1, Zenon DEF E!ReplayAfter
    <2>4. \A i \in ids : i < enext /\ Out(t, i)
      BY <1>3, <2>1, <2>2 DEF Out
    <2>5. lastId' \in Nat /\ Out(t, lastId')
      BY <1>3, <2>2, <2>3, <2>4, LastOfIds, Zenon
    <2>6. AskedFor(t)
      BY <1>1, <1>2, <1>3, <1>7 DEF StreamOf
    <2>7. view' \in [Guests -> Rows] /\ \A m \in Guests : Shown(m) \/ (\E e \in evs : e.m = m) => Shown(m)'
      <3>1. \A e \in evs : erow[e.m] >= 0
        BY <1>3, <2>1
      <3>2. view' \in [Guests -> Rows]
        BY <1>3, <2>3
      <3>3. \A m \in Guests : IF \E e \in evs : e.m = m THEN erow[m] >= 0 /\ view'[m] = erow[m] ELSE view'[m] = view[m]
        BY <2>3, <3>1
      <3>4. \A m \in Guests : erow[m] \in {-1, -2} \cup Nat
        BY <1>3, WritesNamed DEF Rows
      <3> QED BY <1>2, <3>2, <3>3, <3>4 DEF Shown
    <2>8. OnItsWay(t)'
      <3>1. ASSUME NEW m \in Guests PROVE Shown(m)' \/ Named(t, m) \/ (erow[m] = E!Gone /\ Going(t, m))
        BY <2>1, <2>6, <2>7 DEF AskedFor
      <3>2. ASSUME NEW e \in elog PROVE e.id < since \/ e.id \in eseen'
        BY <2>1, <2>3, <2>6 DEF AskedFor
      <3> QED BY <1>2, <2>3, <3>1, <3>2 DEF OnItsWay, Going, Publishes
    <2> QED BY <1>3, <2>1, <2>2, <2>3, <2>5, <2>7, <2>8, Zenon
  <1> QED BY <1>2, <1>6, <1>7

\* An update that the handler takes is shown, or its row is there already.
LEMMA FollowKeeps == ASSUME StreamInv, E!Follow PROVE StreamInv'
  <1>1. PICK t \in {E!Idle} \cup Writes : StreamOf(t)
    BY DEF StreamInv
  <1>2. PICK u \in Sends, L \in Nat : sub # <<>> /\ u = Head(sub) /\ L + 1 = Len(sub)
    <2>1. sub # <<>> /\ sub \in Seq(Sends)
      BY DEF E!Follow, StreamInv, StreamTypes
    <2>2. Head(sub) \in Sends /\ Len(sub) \in Nat /\ Len(sub) > 0
      BY <2>1
    <2>3. Len(sub) - 1 \in Nat /\ Len(sub) - 1 + 1 = Len(sub)
      BY <2>2
    <2> QED BY <2>1, <2>2, <2>3, ZenonT(40)
  <1>3. /\ DOMAIN sub = 1..(L + 1) /\ DOMAIN sub' = 1..L /\ sub' \in Seq(Sends)
        /\ sub[1] = u /\ \A i \in 1..L : sub'[i] = sub[i + 1] /\ sub[i + 1] \in Sends
    <2>1. sub \in Seq(Sends) /\ sub' = Tail(sub)
      BY DEF E!Follow, StreamInv, StreamTypes
    <2> QED BY <1>2, <2>1
  <1>4. /\ \A i \in DOMAIN sub : i = 1 \/ \E j \in 1..L : sub[i] = sub'[j]
        /\ \A j \in 1..L : sub'[j] = sub[j + 1] /\ j + 1 \in DOMAIN sub /\ j + 1 > 1
        /\ 1 \in DOMAIN sub
    <2>1. \A i \in 1..(L + 1) : i = 1 \/ (i - 1 \in 1..L /\ i = (i - 1) + 1)
      OBVIOUS
    <2>2. \A i \in 1..(L + 1) : i = 1 \/ sub[i] = sub'[i - 1]
      BY <1>3, <2>1
    <2> QED BY <1>3, <2>1, <2>2
  <1>5. /\ econn = "live" /\ UNCHANGED <<erow, elog, enext, ewriter, econn, list, since>>
        /\ \/ u.ver # E!Gone /\ u.id <= sent /\ UNCHANGED <<sent, lastId, view, eseen>>
           \/ u.ver = E!Gone /\ view' = [view EXCEPT ![u.m] = E!NoRow] /\ UNCHANGED <<sent, lastId, eseen>>
           \/ u.ver # E!Gone /\ view' = [view EXCEPT ![u.m] = u.ver] /\ sent' = u.id /\ lastId' = u.id /\ eseen' = eseen \cup {u.id}
    BY <1>2 DEF E!Follow, E!Skips, E!store, E!browser
  <1>6. /\ LogInv(t) /\ OnItsWay(t) /\ AtHand(t)' /\ InOrder(t, 1) /\ Holds(t)
        /\ \A i \in 1..L : InOrder(t, i + 1)
    <2>1. LogInv(t) /\ OnItsWay(t) /\ AtHand(t)'
      BY <1>1, <1>5 DEF StreamOf, AtHand
    <2> QED BY <1>3, <2>1 DEF LogInv
  <1>7. u.m \in Guests /\ u.ver \in Marks /\ u.id \in Nat /\ erow \in [Guests -> Rows] /\ view \in [Guests -> Rows]
    BY DEF Sends, StreamInv, StreamTypes
  <1>8. \A m : Going(t, m) => Going(t, m)' \/ (m = u.m /\ u.ver = E!Gone)
    <2>1. \A i \in DOMAIN sub : sub[i] = u \/ \E j \in DOMAIN sub' : sub[i] = sub'[j]
      BY <1>3, <1>4, Zenon
    <2> QED BY <2>1 DEF Going, Publishes
  \* The head of the queue is before what is behind it.
  <1>9. u.ver # E!Gone => \A i \in 1..L : sub'[i].ver # E!Gone => u.id < sub'[i].id
    <2>1. u.ver # E!Gone => \A j \in DOMAIN sub : j > 1 /\ sub[j].ver # E!Gone => u.id < sub[j].id
      BY <1>3, <1>6 DEF InOrder
    <2> QED BY <1>4, <2>1
  <1>10. u.ver = E!Gone => erow[u.m] = E!Gone /\ \A i \in 1..L : sub'[i].m # u.m
    BY <1>3, <1>4, <1>6 DEF InOrder
  <1>11. /\ t.pc \in {"publish", "read"} /\ t.ver # E!Gone /\ u.ver # E!Gone => u.id < t.id
         /\ t.pc = "publish" => t.ver = erow[t.m]
    BY <1>3, <1>4, <1>6 DEF Holds
  <1>12. StreamTypes'
    <2>1. view' \in [Guests -> Rows]
      BY <1>5, <1>7, WritesNamed DEF Rows, Marks
    <2> QED BY <1>3, <1>5, <1>7, <2>1, Zenon DEF StreamInv, StreamTypes
  <1>13. LogInv(t)'
    <2>1. Holds(t)'
      <3>1. \A j \in DOMAIN sub' : \E i \in DOMAIN sub : sub'[j] = sub[i]
        BY <1>3, <1>4
      <3> QED BY <1>5, <1>6, <3>1 DEF Holds
    <2>2. ASSUME NEW i \in 1..L PROVE InOrder(t, i)'
      <3>1. PICK s \in Sends : s = sub'[i] /\ s = sub[i + 1] /\ InOrder(t, i + 1)
        BY <1>3, <1>6
      <3>2. \A j \in 1..L : j > i => j + 1 > i + 1 /\ j + 1 \in DOMAIN sub /\ sub'[j] = sub[j + 1]
        BY <1>4
      <3>3. \A j \in DOMAIN sub : j > i + 1 => \E k \in 1..L : k > i /\ sub[j] = sub'[k]
        <4>1. \A j \in 1..(L + 1) : j > i + 1 => j - 1 \in 1..L /\ j - 1 > i /\ j = (j - 1) + 1
          OBVIOUS
        <4> QED BY <1>3, <4>1, Zenon
      <3>4. s.m # u.m \/ u.ver # E!Gone
        BY <1>10, <3>1, Zenon
      <3>5. erow[s.m] = E!Gone => Going(t, s.m)'
        <4>1. erow[s.m] = E!Gone => Going(t, s.m)
          BY <3>1 DEF InOrder
        <4> QED BY <1>8, <3>4, <4>1
      <3>6. /\ s.ver = E!Gone => erow[s.m] = E!Gone /\ \A j \in 1..L : j > i => sub'[j].m # s.m
            /\ s.ver # E!Gone => \A j \in 1..L : j > i /\ sub'[j].ver # E!Gone => s.id < sub'[j].id
        BY <3>1, <3>2 DEF InOrder
      <3>7. s.ver = erow[s.m] \/ Named(t, s.m) \/ Publishes(t, s.m) \/ \E j \in 1..L : j > i /\ sub'[j].m = s.m
        BY <3>1, <3>3 DEF InOrder
      <3>8. erow[s.m] # E!NoRow /\ Out(t, s.id) /\ (erow[s.m] >= 0 => [id |-> s.id, m |-> s.m] \in elog)
        BY <3>1 DEF InOrder
      <3>9. Out(t, s.id)' = Out(t, s.id) /\ DOMAIN sub' = 1..L
        BY <1>3, <1>5 DEF Out
      <3> QED BY <1>5, <3>1, <3>5, <3>6, <3>7, <3>8, <3>9 DEF InOrder, Named, Publishes
    <2>3. Out(t, sent)' /\ Out(t, lastId)'
      BY <1>3, <1>5, <1>6 DEF LogInv, InOrder, Out
    <2> QED BY <1>3, <1>5, <1>6, <2>1, <2>2, <2>3 DEF LogInv, Out
  <1>14. /\ \A i \in 1..L : sub'[i].id \in Nat
         /\ t.pc \in {"publish", "read"} => t.id \in Nat
         /\ t.pc = "publish" => t.ver \in Marks
         /\ \A e \in elog : e.id \in Nat
         /\ \A m \in Guests : erow[m] \in {-1, -2} \cup Nat
    <2>1. \A i \in 1..L : sub'[i].id \in Nat
      BY <1>3 DEF Sends
    <2>2. t.pc \in {"publish", "read"} => t.id \in Nat /\ t.ver \in Marks
      BY WritesNamed DEF Writes
    <2>3. (\A e \in elog : e.id \in Nat) /\ \A m \in Guests : erow[m] \in {-1, -2} \cup Nat
      BY <1>7, WritesNamed DEF StreamInv, StreamTypes, Event, Rows
    <2> QED BY <2>1, <2>2, <2>3
  \* What each machine and each event has to be, of what is left.
  <1>15. SUFFICES
           /\ \A m \in Guests :
                \/ Shown(m)' \/ Named(t, m)
                \/ erow[m] = E!Gone /\ Going(t, m)'
                \/ erow[m] >= 0 /\ \E i \in 1..L : sub'[i].m = m /\ sub'[i].id > sent' /\ sub'[i].id > lastId'
                \/ erow[m] >= 0 /\ Publishes(t, m) /\ t.id > sent' /\ t.id > lastId'
           /\ \A e \in elog :
                \/ e.id < since \/ e.id \in eseen'
                \/ e.id > sent' /\ e.id > lastId' /\ \E i \in 1..L : sub'[i].id = e.id /\ sub'[i].ver # E!Gone
                \/ e.id > sent' /\ e.id > lastId' /\ t.pc \in {"publish", "read"} /\ t.id = e.id /\ t.ver # E!Gone
    <2>1. OnItsWay(t)'
      BY <1>3, <1>5, <1>15, Zenon DEF OnItsWay, Missed, Named, Publishes
    <2> QED BY <1>1, <1>5, <1>6, <1>12, <1>13, <2>1 DEF StreamInv, StreamOf
  <1>16. CASE u.ver # E!Gone /\ u.id <= sent /\ UNCHANGED <<sent, lastId, view, eseen>>
    <2>1. ~Missed(u.id) /\ \A m : Shown(m)' = Shown(m)
      BY <1>5, <1>7, <1>16 DEF Missed, Shown, StreamInv, StreamTypes
    <2>2. \A i \in DOMAIN sub : Missed(sub[i].id) => \E j \in 1..L : sub[i] = sub'[j]
      BY <1>3, <1>4, <2>1, Zenon
    <2>3. \A m \in Guests :
            \/ Shown(m)' \/ Named(t, m)
            \/ erow[m] = E!Gone /\ Going(t, m)'
            \/ erow[m] >= 0 /\ \E i \in 1..L : sub'[i].m = m /\ sub'[i].id > sent' /\ sub'[i].id > lastId'
            \/ erow[m] >= 0 /\ Publishes(t, m) /\ t.id > sent' /\ t.id > lastId'
      BY <1>3, <1>6, <1>8, <1>16, <2>1, <2>2, SMTT(30) DEF OnItsWay, Missed
    <2>4. \A e \in elog :
            \/ e.id < since \/ e.id \in eseen'
            \/ e.id > sent' /\ e.id > lastId' /\ \E i \in 1..L : sub'[i].id = e.id /\ sub'[i].ver # E!Gone
            \/ e.id > sent' /\ e.id > lastId' /\ t.pc \in {"publish", "read"} /\ t.id = e.id /\ t.ver # E!Gone
      BY <1>3, <1>5, <1>6, <1>16, <2>2, SMTT(30) DEF OnItsWay, Missed
    <2> QED BY <2>3, <2>4
  <1>17. CASE u.ver = E!Gone /\ view' = [view EXCEPT ![u.m] = E!NoRow] /\ UNCHANGED <<sent, lastId, eseen>>
    <2>1. Shown(u.m)' /\ \A m \in Guests \ {u.m} : Shown(m)' = Shown(m)
      <3>1. view'[u.m] = E!NoRow /\ \A m \in Guests \ {u.m} : view'[m] = view[m]
        BY <1>7, <1>17
      <3> QED BY <1>5, <1>10, <1>17, <3>1, WritesNamed DEF Shown
    <2>2. \A i \in DOMAIN sub : sub[i].m # u.m \/ sub[i].ver # E!Gone => \E j \in 1..L : sub[i] = sub'[j]
      BY <1>3, <1>4, <1>17
    <2>3. ASSUME NEW m \in Guests \ {u.m}
          PROVE  \/ Shown(m)' \/ Named(t, m)
                 \/ erow[m] = E!Gone /\ Going(t, m)'
                 \/ erow[m] >= 0 /\ \E i \in 1..L : sub'[i].m = m /\ sub'[i].id > sent' /\ sub'[i].id > lastId'
                 \/ erow[m] >= 0 /\ Publishes(t, m) /\ t.id > sent' /\ t.id > lastId'
      <3>1. Shown(m)' = Shown(m) /\ (Going(t, m) => Going(t, m)')
        BY <1>8, <2>1
      <3>2. \A i \in DOMAIN sub : sub[i].m = m => \E j \in 1..L : sub[i] = sub'[j]
        BY <2>2
      <3> QED BY <1>6, <1>17, <3>1, <3>2 DEF OnItsWay, Missed
    <2>4. ASSUME NEW e \in elog
          PROVE  \/ e.id < since \/ e.id \in eseen'
                 \/ e.id > sent' /\ e.id > lastId' /\ \E i \in 1..L : sub'[i].id = e.id /\ sub'[i].ver # E!Gone
                 \/ e.id > sent' /\ e.id > lastId' /\ t.pc \in {"publish", "read"} /\ t.id = e.id /\ t.ver # E!Gone
      BY <1>6, <1>17, <2>2 DEF OnItsWay, Missed
    <2> QED BY <2>1, <2>3, <2>4
  <1>18. CASE u.ver # E!Gone /\ view' = [view EXCEPT ![u.m] = u.ver] /\ sent' = u.id /\ lastId' = u.id /\ eseen' = eseen \cup {u.id}
    <2>1. view'[u.m] = u.ver /\ \A m \in Guests \ {u.m} : view'[m] = view[m]
      BY <1>7, <1>18
    <2>2. ASSUME NEW m \in Guests, m # u.m
          PROVE  \/ Shown(m)' \/ Named(t, m)
                 \/ erow[m] = E!Gone /\ Going(t, m)'
                 \/ erow[m] >= 0 /\ \E i \in 1..L : sub'[i].m = m /\ u.id < sub'[i].id
                 \/ erow[m] >= 0 /\ Publishes(t, m) /\ u.id < t.id
      <3>1. Shown(m)' = Shown(m)
        BY <1>5, <2>1, <2>2 DEF Shown
      <3>2. \A i \in DOMAIN sub : sub[i].m = m => \E j \in 1..L : sub[i] = sub'[j]
        BY <1>3, <1>4, <2>2
      <3>3. erow[m] >= 0 => \A i \in 1..L : sub'[i].m = m => u.id < sub'[i].id
        <4>1. \A i \in 1..L : sub'[i].ver = E!Gone => erow[sub'[i].m] = E!Gone
          BY <1>3, <1>6, Zenon DEF InOrder
        <4> QED BY <1>9, <1>18, <4>1, WritesNamed
      <3>4. erow[m] >= 0 /\ Publishes(t, m) => u.id < t.id
        BY <1>11, <1>18, WritesNamed DEF Publishes
      <3> QED BY <1>3, <1>6, <1>8, <2>2, <3>1, <3>2, <3>3, <3>4 DEF OnItsWay
    <2>3. \/ Shown(u.m)' \/ Named(t, u.m)
          \/ erow[u.m] = E!Gone /\ Going(t, u.m)'
          \/ erow[u.m] >= 0 /\ \E i \in 1..L : sub'[i].m = u.m /\ u.id < sub'[i].id
          \/ erow[u.m] >= 0 /\ Publishes(t, u.m) /\ u.id < t.id
      <3>1. CASE u.ver = erow[u.m]
        <4>1. u.ver \in Nat
          BY <1>7, <1>18 DEF Marks
        <4> QED BY <1>5, <2>1, <3>1, <4>1 DEF Shown
      <3>2. CASE erow[u.m] = E!Gone
        BY <1>6, <1>8, <1>18, <1>3, <3>2 DEF InOrder
      <3>3. CASE erow[u.m] >= 0 /\ u.ver # erow[u.m]
        <4>1. Named(t, u.m) \/ Publishes(t, u.m) \/ \E j \in DOMAIN sub : j > 1 /\ sub[j].m = u.m
          BY <1>3, <1>6, <3>3 DEF InOrder
        <4>2. Publishes(t, u.m) => u.id < t.id
          BY <1>11, <1>18, <3>3, WritesNamed DEF Publishes
        <4>3. \A i \in 1..L : sub'[i].ver = E!Gone => erow[sub'[i].m] = E!Gone
          BY <1>3, <1>6, ZenonT(40) DEF InOrder
        <4>4. \A j \in DOMAIN sub : j > 1 => \E i \in 1..L : sub[j] = sub'[i]
          BY <1>3, <1>4
        <4> QED BY <1>9, <1>18, <3>3, <4>1, <4>2, <4>3, <4>4, WritesNamed
      <3>4. erow[u.m] = E!Gone \/ erow[u.m] >= 0
        BY <1>3, <1>6, <1>7, <1>14, WritesNamed DEF InOrder
      <3> QED BY <3>1, <3>2, <3>3, <3>4
    <2>4. ASSUME NEW e \in elog
          PROVE  \/ e.id < since \/ e.id \in eseen'
                 \/ u.id < e.id /\ \E i \in 1..L : sub'[i].id = e.id /\ sub'[i].ver # E!Gone
                 \/ u.id < e.id /\ t.pc \in {"publish", "read"} /\ t.id = e.id /\ t.ver # E!Gone
      <3>1. \A i \in DOMAIN sub : sub[i].id = e.id => e.id \in eseen' \/ \E j \in 1..L : sub[i] = sub'[j]
        BY <1>3, <1>4, <1>18
      <3> QED BY <1>3, <1>6, <1>9, <1>11, <1>18, <3>1 DEF OnItsWay
    <2> QED BY <1>7, <1>14, <1>18, <2>2, <2>3, <2>4
  <1> QED BY <1>5, <1>16, <1>17, <1>18

\* A stream that ends leaves nothing untold that its browser will not ask for.
LEMMA StreamDropKeeps == ASSUME StreamInv, Attended, E!Drop PROVE StreamInv'
  <1>1. PICK t \in {E!Idle} \cup Writes : StreamOf(t)
    BY DEF StreamInv
  <1>2. /\ econn' = "off" /\ sub' = <<>> /\ list' = E!NoList /\ sent' = 0
        /\ UNCHANGED <<erow, elog, enext, ewriter, lastId, view, eseen, since>>
        /\ lastId = 0 \/ ~E!Untold
    BY DEF E!Drop, E!store, E!browser, Attended
  <1>3. DOMAIN sub' = {}
    BY <1>2
  <1>4. LogInv(t) /\ AtHand(t)' /\ AtHand(t)
    BY <1>1, <1>2 DEF StreamOf, AtHand
  <1>5. LogInv(t)'
    <2>1. Out(t, 0) /\ \A n : Out(t, n)' = Out(t, n)
      BY <1>2, <1>4 DEF LogInv, Holds, Out, StreamInv, StreamTypes
    <2> QED BY <1>2, <1>3, <1>4, <2>1 DEF LogInv, Holds, Out
  <1>6. ASSUME lastId > 0 PROVE AskedFor(t)'
    <2>1. (\A i \in DOMAIN sub : sub[i].ver # E!Gone) /\ t.ver # E!Gone
      BY <1>2, <1>4, <1>6 DEF E!Untold, AtHand
    <2>2. \A m : ~Going(t, m) /\ ~Going(t, m)'
      BY <1>3, <2>1 DEF Going
    <2>3. CASE econn # "live"
      BY <1>1, <1>2, <1>6, <2>2, <2>3 DEF StreamOf, AskedFor, Shown
    <2>4. CASE econn = "live"
      <3>1. OnItsWay(t)
        BY <1>1, <2>4 DEF StreamOf
      <3>2. \A i \in DOMAIN sub : erow[sub[i].m] >= 0 => [id |-> sub[i].id, m |-> sub[i].m] \in elog
        BY <1>4 DEF LogInv, InOrder
      <3>3. t.pc = "publish" => \E e \in elog : e.m = t.m /\ e.id = t.id
        <4>1. t.pc = "publish" => [id |-> t.id, m |-> t.m] \in elog
          BY <1>4, <2>1 DEF LogInv, Holds
        <4> QED BY <4>1
      <3>4. ASSUME NEW m \in Guests PROVE Shown(m) \/ Named(t, m) \/ \E e \in elog : e.m = m /\ e.id > lastId
        <4>1. \A i \in DOMAIN sub : sub[i].m = m /\ erow[m] >= 0 => \E e \in elog : e.m = m /\ e.id = sub[i].id
          BY <3>2, Zenon
        <4>2. Publishes(t, m) => \E e \in elog : e.m = m /\ e.id = t.id
          BY <3>3 DEF Publishes
        <4> QED BY <2>2, <3>1, <4>1, <4>2 DEF OnItsWay, Missed
      <3>5. \A e \in elog : e.id < since \/ e.id \in eseen \/ e.id > lastId
        BY <3>1 DEF OnItsWay, Missed
      <3> QED BY <1>2, <2>2, <3>4, <3>5 DEF AskedFor, Shown
    <2> QED BY <2>3, <2>4
  <1>7. StreamTypes'
    <2>1. E!NoList \in [Guests -> Rows] /\ <<>> \in Seq(Sends)
      BY DEF E!NoList, Rows
    <2> QED BY <1>2, <2>1 DEF StreamInv, StreamTypes
  <1> QED BY <1>1, <1>2, <1>4, <1>5, <1>6, <1>7 DEF StreamInv, StreamOf

LEMMA StreamBegins == ASSUME Attended PROVE E!Init => StreamInv
  <1> SUFFICES ASSUME E!Init PROVE StreamInv
    OBVIOUS
  <1>1. StreamTypes
    <2>1. E!NoList \in [Guests -> Rows] /\ <<>> \in Seq(Sends)
      BY DEF E!NoList, Rows
    <2> QED BY <2>1 DEF E!Init, StreamTypes
  <1>2. AtHand(E!Idle)
    BY DEF E!Init, AtHand, Attended
  <1>3. LogInv(E!Idle)
    BY WritesNamed DEF E!Init, LogInv, Holds, Out
  <1> QED BY <1>1, <1>2, <1>3 DEF E!Init, StreamInv, StreamOf

LEMMA StreamNext == ASSUME StreamInv, Attended, StreamSizes, [E!Next]_(E!vars) PROVE StreamInv'
  <1>1. CASE E!Next
    BY <1>1, CreateRowKeeps, WriteBegins, WriteGoesOn, PublishKeeps, ConnectKeeps, CatchupKeeps, FollowKeeps, StreamDropKeeps
       DEF E!Next, E!Write, E!Stream
  <1>2. CASE UNCHANGED E!vars
    <2>1. PICK t \in {E!Idle} \cup Writes : StreamOf(t)
      BY DEF StreamInv
    <2>2. UNCHANGED <<erow, elog, enext, ewriter, econn, sub, list, sent, lastId, view, eseen, since>>
      BY <1>2 DEF E!vars
    <2>3. LogInv(t)' /\ AtHand(t)'
      BY <2>1, <2>2, LogKept DEF StreamOf, AtHand, LogInv
    <2>4. OnItsWay(t)' = OnItsWay(t) /\ AskedFor(t)' = AskedFor(t)
      BY <2>2 DEF OnItsWay, AskedFor, Shown, Missed, Named, Going, Publishes
    <2>5. StreamTypes'
      BY <2>2 DEF StreamInv, StreamTypes
    <2> QED BY <2>1, <2>2, <2>3, <2>4, <2>5 DEF StreamInv, StreamOf
  <1> QED BY <1>1, <1>2

LEMMA StreamHolds == ASSUME StreamInv, Attended PROVE E!ViewIsCurrent /\ E!NoEventLost
  <1> SUFFICES ASSUME E!Quiet PROVE /\ \A m \in Guests : Shown(m)
                                    /\ \A e \in elog : e.id >= since => e.id \in eseen
    BY DEF E!ViewIsCurrent, E!NoEventLost, Shown
  <1>1. PICK t \in {E!Idle} \cup Writes : StreamOf(t)
    BY DEF StreamInv
  <1>2. econn = "live" /\ DOMAIN sub = {} /\ t = E!Idle
    BY <1>1 DEF E!Quiet, StreamOf, AtHand
  <1>3. OnItsWay(t) /\ t.pc = "idle"
    BY <1>1, <1>2, WritesNamed DEF StreamOf
  <1>4. \A m \in Guests : Shown(m)
    BY <1>2, <1>3 DEF OnItsWay, Going, Named, Publishes
  <1>5. \A e \in elog : e.id < since \/ e.id \in eseen
    BY <1>2, <1>3 DEF OnItsWay
  <1> QED BY <1>4, <1>5 DEF StreamInv, StreamTypes, Event

(***************************************************************************)
(* The firewall (HostNetwork), when the chains can be listed and the       *)
(* commands of the shared rules go through.  Of the rules, what is left    *)
(* when some go has the order it had (WithoutThins), so the policy of a    *)
(* machine that runs stays in force while the rules of others come and go  *)
(* (Spares, Enforced).  A job has its machine to itself and what it has    *)
(* deleted is gone (JobOK); while nobody replaces the shared rules, the    *)
(* one for the agent's port is there, once any job has begun (MgmtOK).     *)
(* A policy by names of which none resolves has the rules of the policy    *)
(* without them (Eff), so the proof is about policies whose names resolve. *)
(***************************************************************************)
Modes4 == {"allow_all", "deny_all", "allow_domains", "deny_domains"}

NetNames ==
    /\ {"global", "mgmt", "egress", "none"} \cap Guests = {} /\ "none" \notin Reqs
    /\ \A m \in Guests : Modes[m] \subseteq Modes4

\* The commands of the shared rules go through, and the chains can be listed.
NetCalm == "fail" \notin NetMay /\ "unlisted" \notin NetMay

\* What a rule matches, and with it whether it accepts.
Words == {"est", "agent", "drop", "back", "private", "site", "nosite", "out", "nat"}
RuleRec == [by : Reqs, tag : Guests \cup {"global"}, chain : N!Chains, what : Words]

\* kept keeps, as far as k, what is not gone.
Keep(kept, k, gone) ==
    kept = [i \in 0 .. k |-> IF i = 0 THEN <<>>
                          ELSE IF rules[i] \in gone THEN kept[i - 1] ELSE Append(kept[i - 1], rules[i])]

LEMMA KeptExists ==
    ASSUME NEW gone, NEW top \in Nat
    PROVE  \E kept : Keep(kept, top, gone)
  <1> DEFINE Short == {k \in 0 .. top : ~\E kept : Keep(kept, k, gone)}
  <1> SUFFICES ASSUME Short # {} PROVE FALSE
    OBVIOUS
  <1>1. PICK k \in Short : \A j \in Short : k <= j
    <2>1. Short \in SUBSET Nat
      OBVIOUS
    <2> HIDE DEF Short
    <2> QED BY <2>1, Least
  <1>2. k \in 0 .. top /\ ~\E kept : Keep(kept, k, gone)
    OBVIOUS
  <1>3. k # 0
    <2>1. Keep([i \in 0 .. 0 |-> <<>>], 0, gone)
      BY DEF Keep
    <2> QED BY <1>2, <2>1
  <1>4. PICK G : Keep(G, k - 1, gone)
    <2>1. k - 1 \in 0 .. top /\ ~(k <= k - 1)
      BY <1>2, <1>3
    <2>2. k - 1 \notin Short
      BY <2>1, <1>1
    <2> QED BY <2>1, <2>2
  <1> DEFINE kept == [i \in 0 .. k |-> IF i < k THEN G[i]
                                    ELSE IF rules[k] \in gone THEN G[k - 1] ELSE Append(G[k - 1], rules[k])]
  <1>5. Keep(kept, k, gone)
    <2>1. ASSUME NEW i \in 0 .. k
          PROVE  kept[i] = IF i = 0 THEN <<>>
                        ELSE IF rules[i] \in gone THEN kept[i - 1] ELSE Append(kept[i - 1], rules[i])
      <3>1. CASE i < k
        <4>1. i \in 0 .. k - 1 /\ (i # 0 => i - 1 \in 0 .. k /\ i - 1 < k)
          BY <3>1, <1>2, <1>3
        <4>2. kept[i] = G[i] /\ (i # 0 => kept[i - 1] = G[i - 1])
          BY <4>1, <3>1
        <4>3. G[i] = IF i = 0 THEN <<>>
                     ELSE IF rules[i] \in gone THEN G[i - 1] ELSE Append(G[i - 1], rules[i])
          BY <4>1, <1>4, Zenon DEF Keep
        <4> QED BY <4>2, <4>3
      <3>2. CASE i = k
        <4>1. k - 1 \in 0 .. k /\ k - 1 < k /\ ~(k < k) /\ k \in 0 .. k
          BY <1>2, <1>3
        <4>2. kept[k - 1] = G[k - 1]
          BY <4>1
        <4> QED BY <4>1, <4>2, <3>2, <1>3
      <3> QED BY <3>1, <3>2, <1>2
    <2> QED BY <2>1 DEF Keep
  <1> QED BY <1>2, <1>5

\* t is s as far as k without what is gone, in the same order.
Thinned(t, s, k, gone) ==
    /\ t \in Seq(RuleRec)
    /\ \A i \in 1 .. Len(t) : \E n \in 1 .. k :
          /\ s[n] = t[i] /\ s[n] \notin gone
          /\ \A q \in 1 .. n - 1 : s[q] \notin gone => \E p \in 1 .. i - 1 : t[p] = s[q]
    /\ \A n \in 1 .. k : s[n] \notin gone => \E i \in 1 .. Len(t) : t[i] = s[n]

LEMMA ThinnedOn ==
    ASSUME NEW t, NEW s \in Seq(RuleRec), NEW k \in 0 .. Len(s) - 1, NEW gone, Thinned(t, s, k, gone)
    PROVE  Thinned(IF s[k + 1] \in gone THEN t ELSE Append(t, s[k + 1]), s, k + 1, gone)
  <1>1. k \in Nat /\ k + 1 \in 1 .. Len(s) /\ s[k + 1] \in RuleRec /\ t \in Seq(RuleRec) /\ Len(t) \in Nat
    BY DEF Thinned
  <1>2. \A n \in 1 .. k + 1 : n \in 1 .. k \/ n = k + 1
    BY <1>1
  <1>3. \A n \in 1 .. k : n \in 1 .. k + 1
    BY <1>1
  <1>4. CASE s[k + 1] \in gone
    <2>1. Thinned(t, s, k + 1, gone)
      BY <1>1, <1>2, <1>3, <1>4 DEF Thinned
    <2> QED BY <2>1, <1>4
  <1>5. CASE s[k + 1] \notin gone
    <2> DEFINE u == Append(t, s[k + 1])
               w == Len(t) + 1
    <2>1. u \in Seq(RuleRec) /\ Len(u) = w /\ u[w] = s[k + 1] /\ \A i \in 1 .. Len(t) : u[i] = t[i] /\ i \in 1 .. w
      BY <1>1
    <2>2. w \in 1 .. w /\ \A i \in 1 .. w : i \in 1 .. Len(t) \/ i = w
      BY <1>1
    <2> HIDE DEF u
    <2>3. \A n \in 1 .. k + 1 : s[n] \notin gone => \E i \in 1 .. Len(u) : u[i] = s[n]
      BY <1>1, <1>2, <2>1, <2>2, ZenonT(40) DEF Thinned
    <2>4. ASSUME NEW i \in 1 .. Len(u)
          PROVE  \E n \in 1 .. k + 1 :
                    /\ s[n] = u[i] /\ s[n] \notin gone
                    /\ \A q \in 1 .. n - 1 : s[q] \notin gone => \E p \in 1 .. i - 1 : u[p] = s[q]
      <3>1. CASE i \in 1 .. Len(t)
        <4>1. PICK n \in 1 .. k : s[n] = t[i] /\ s[n] \notin gone
                 /\ \A q \in 1 .. n - 1 : s[q] \notin gone => \E p \in 1 .. i - 1 : t[p] = s[q]
          BY <3>1 DEF Thinned
        <4>2. \A p \in 1 .. i - 1 : p \in 1 .. Len(t)
          BY <3>1, <1>1
        <4>3. \A q \in 1 .. n - 1 : s[q] \notin gone => \E p \in 1 .. i - 1 : u[p] = s[q]
          BY <4>1, <4>2, <2>1
        <4> QED BY <4>1, <4>3, <1>3, <3>1, <2>1, Zenon
      <3>2. CASE i = w
        <4>1. k + 1 - 1 = k /\ i - 1 = Len(t) /\ k + 1 \in 1 .. k + 1
          BY <3>2, <1>1
        <4>2. \A q \in 1 .. k + 1 - 1 : s[q] \notin gone => \E p \in 1 .. i - 1 : u[p] = s[q]
          BY <4>1, <2>1 DEF Thinned
        <4> QED BY <4>1, <4>2, <3>2, <2>1, <1>5
      <3> QED BY <3>1, <3>2, <2>1, <2>2
    <2>5. Thinned(u, s, k + 1, gone)
      BY <2>1, <2>3, <2>4 DEF Thinned
    <2> QED BY <2>5, <1>5 DEF u
  <1> QED BY <1>4, <1>5

\* What Without leaves is thinned.
LEMMA WithoutThins ==
    ASSUME rules \in Seq(RuleRec), NEW gone
    PROVE  Thinned(N!Without(gone), rules, Len(rules), gone)
  <1> DEFINE top == Len(rules)
             kept == CHOOSE kept : Keep(kept, top, gone)
  <1>1. top \in Nat
    OBVIOUS
  <1>2. Keep(kept, top, gone)
    <2>1. PICK G : Keep(G, top, gone)
      BY <1>1, KeptExists
    <2> HIDE DEF top
    <2> QED BY <2>1
  <1>3. N!Without(gone) = kept[top]
    BY DEF N!Without, Keep
  <1> HIDE DEF kept
  <1>4. kept[0] = <<>>
    BY <1>1, <1>2 DEF Keep
  <1>5. \A i \in 1 .. top : kept[i] = IF rules[i] \in gone THEN kept[i - 1] ELSE Append(kept[i - 1], rules[i])
    <2>1. \A i \in 1 .. top : i \in 0 .. top /\ i # 0
      BY <1>1
    <2> QED BY <2>1, <1>2, Zenon DEF Keep
  <1> DEFINE Bad == {k \in 0 .. top : ~Thinned(kept[k], rules, k, gone)}
  <1>6. Thinned(kept[0], rules, 0, gone)
    BY <1>4 DEF Thinned
  <1>7. ASSUME NEW k \in 1 .. top, Thinned(kept[k - 1], rules, k - 1, gone) PROVE Thinned(kept[k], rules, k, gone)
    <2>1. k - 1 \in 0 .. Len(rules) - 1 /\ k - 1 + 1 = k
      BY <1>1
    <2>2. Thinned(IF rules[k] \in gone THEN kept[k - 1] ELSE Append(kept[k - 1], rules[k]), rules, k, gone)
      BY <2>1, <1>7, ThinnedOn
    <2> QED BY <2>2, <1>5
  <1>8. Bad = {}
    <2> SUFFICES ASSUME Bad # {} PROVE FALSE
      OBVIOUS
    <2>1. PICK k \in Bad : \A j \in Bad : k <= j
      <3>1. Bad \in SUBSET Nat
        BY <1>1
      <3> HIDE DEF Bad
      <3> QED BY <3>1, Least
    <2>2. k \in 0 .. top /\ ~Thinned(kept[k], rules, k, gone)
      OBVIOUS
    <2>3. k # 0
      BY <2>2, <1>6
    <2>4. k \in 1 .. top /\ k - 1 \in 0 .. top /\ ~(k <= k - 1)
      BY <2>2, <2>3, <1>1
    <2>5. k - 1 \notin Bad
      BY <2>1, <2>4
    <2> QED BY <2>2, <2>4, <2>5, <1>7
  <1>9. top \in 0 .. top
    BY <1>1
  <1> QED BY <1>3, <1>8, <1>9

\* The rules of a policy, as chain and what is done.
Lines(mode) ==
    {<<"input", "est">>, <<"input", "drop">>, <<"forward", "est">>, <<"forward", "back">>, <<"forward", "private">>,
     <<"postrouting", "nat">>, <<"filter", "out">>, <<"filter", "back">>}
        \cup (CASE mode = "deny_all" -> {}
               [] mode = "allow_domains" -> {<<"forward", "site">>}
               [] mode = "deny_domains" -> {<<"forward", "nosite">>, <<"forward", "out">>}
               [] OTHER -> {<<"forward", "out">>})

OutRule == <<"forward", "out">>
Line == N!Chains \X Words

\* t has the rules of a policy, what is refused before what is let out.
RulesInOrder(t, mode) ==
    /\ t \in Seq(Line) /\ Len(t) > 0
    /\ \A i \in 1 .. Len(t) : t[i] \in Lines(mode)
    /\ \A l \in Lines(mode) : \E i \in 1 .. Len(t) : t[i] = l
    /\ \A i \in 1 .. Len(t) : t[i] = OutRule =>
          /\ \E k \in 1 .. i - 1 : t[k] = <<"forward", "private">>
          /\ mode = "deny_domains" => \E k \in 1 .. i - 1 : t[k] = <<"forward", "nosite">>

LEMMA Joined ==
    ASSUME NEW T, NEW p \in Seq(T), NEW q \in Seq(T)
    PROVE  p \o q \in Seq(T) /\ Len(p \o q) = Len(p) + Len(q)
           /\ \A i \in 1 .. Len(p) + Len(q) : (p \o q)[i] = IF i <= Len(p) THEN p[i] ELSE q[i - Len(p)]
  OBVIOUS

\* Its three pieces: five rules, those of the mode, three rules.
LEMMA Pieces ==
    ASSUME NEW p \in Seq(Line), NEW q \in Seq(Line), NEW r \in Seq(Line), Len(p) = 5, Len(r) = 3
    PROVE  /\ (p \o q) \o r \in Seq(Line) /\ Len((p \o q) \o r) = 8 + Len(q)
           /\ \A i \in 1 .. 5 : ((p \o q) \o r)[i] = p[i]
           /\ \A i \in 1 .. Len(q) : ((p \o q) \o r)[5 + i] = q[i]
           /\ \A i \in 1 .. 3 : ((p \o q) \o r)[(5 + Len(q)) + i] = r[i]
  <1> DEFINE u == p \o q
             v == u \o r
             n == Len(q)
  <1>0. n \in Nat
    OBVIOUS
  <1>1. u \in Seq(Line) /\ Len(u) = 5 + n /\ \A i \in 1 .. 5 + n : u[i] = IF i <= 5 THEN p[i] ELSE q[i - 5]
    <2>1. u \in Seq(Line) /\ Len(u) = Len(p) + Len(q) /\ \A i \in 1 .. Len(p) + Len(q) : u[i] = IF i <= Len(p) THEN p[i] ELSE q[i - Len(p)]
      BY Joined, Zenon
    <2> HIDE DEF u
    <2> QED BY <2>1
  <1> HIDE DEF u, n
  <1>2. v \in Seq(Line) /\ Len(v) = (5 + n) + 3 /\ \A i \in 1 .. (5 + n) + 3 : v[i] = IF i <= 5 + n THEN u[i] ELSE r[i - (5 + n)]
    <2>1. v \in Seq(Line) /\ Len(v) = Len(u) + Len(r) /\ \A i \in 1 .. Len(u) + Len(r) : v[i] = IF i <= Len(u) THEN u[i] ELSE r[i - Len(u)]
      BY <1>1, Joined, Zenon
    <2> QED BY <2>1, <1>1
  <1> HIDE DEF v
  <1>3. ASSUME NEW i \in 1 .. 5 PROVE v[i] = p[i]
    <2>1. i \in 1 .. 5 + n /\ i \in 1 .. (5 + n) + 3 /\ i <= 5 /\ i <= 5 + n
      BY <1>0
    <2> QED BY <2>1, <1>1, <1>2
  <1>4. ASSUME NEW i \in 1 .. n PROVE v[5 + i] = q[i]
    <2>1. 5 + i \in 1 .. 5 + n /\ 5 + i \in 1 .. (5 + n) + 3 /\ ~(5 + i <= 5) /\ 5 + i <= 5 + n /\ (5 + i) - 5 = i
      BY <1>0
    <2>2. u[5 + i] = q[(5 + i) - 5]
      BY <2>1, <1>1
    <2>3. v[5 + i] = u[5 + i]
      BY <2>1, <1>2
    <2> QED BY <2>1, <2>2, <2>3
  <1>5. ASSUME NEW i \in 1 .. 3 PROVE v[(5 + n) + i] = r[i]
    <2>1. (5 + n) + i \in 1 .. (5 + n) + 3 /\ ~((5 + n) + i <= 5 + n) /\ ((5 + n) + i) - (5 + n) = i
      BY <1>0
    <2>2. v[(5 + n) + i] = r[((5 + n) + i) - (5 + n)]
      BY <2>1, <1>2
    <2> QED BY <2>1, <2>2
  <1>6. Len(v) = 8 + n
    BY <1>0, <1>2
  <1> QED BY <1>2, <1>3, <1>4, <1>5, <1>6, Zenon DEF u, v, n

LEMMA LinesIn == {<<"forward", "site">>, <<"forward", "nosite">>, <<"forward", "out">>, <<"input", "est">>, <<"input", "drop">>,
                  <<"forward", "est">>, <<"forward", "back">>, <<"forward", "private">>, <<"postrouting", "nat">>,
                  <<"filter", "out">>, <<"filter", "back">>} \subseteq Line
  <1>1. \A c \in N!Chains, w \in Words : <<c, w>> \in Line
    BY DEF Line
  <1>2. "forward" \in N!Chains /\ "input" \in N!Chains /\ "postrouting" \in N!Chains /\ "filter" \in N!Chains
    BY DEF N!Chains
  <1>3. {"est", "drop", "back", "private", "site", "nosite", "out", "nat"} \subseteq Words
    BY DEF Words
  <1>4. /\ <<"forward", "site">> \in Line
        /\ <<"forward", "nosite">> \in Line
        /\ <<"forward", "out">> \in Line
        /\ <<"input", "est">> \in Line
        /\ <<"input", "drop">> \in Line
        /\ <<"forward", "est">> \in Line
        /\ <<"forward", "back">> \in Line
        /\ <<"forward", "private">> \in Line
        /\ <<"postrouting", "nat">> \in Line
        /\ <<"filter", "out">> \in Line
        /\ <<"filter", "back">> \in Line
    BY <1>1, <1>2, <1>3
  <1> QED BY <1>4

LEMMA Joining == ASSUME NEW a, NEW b PROVE <<a>> \o <<b>> = <<a, b>>
  <1> DEFINE s == <<a>> \o <<b>>
             t == <<a, b>>
  <1>1. <<a>> \in Seq({a, b}) /\ <<b>> \in Seq({a, b}) /\ t \in Seq({a, b})
    OBVIOUS
  <1>2. s \in Seq({a, b}) /\ Len(s) = 2 /\ s[1] = a /\ s[2] = b
    BY <1>1, Joined
  <1>3. t \in Seq({a, b}) /\ Len(t) = 2 /\ t[1] = a /\ t[2] = b
    BY <1>1
  <1> HIDE DEF s, t
  <1>4. s = [i \in 1 .. 2 |-> s[i]] /\ t = [i \in 1 .. 2 |-> t[i]]
    BY <1>2, <1>3
  <1>5. \A i \in 1 .. 2 : s[i] = t[i]
    BY <1>2, <1>3
  <1>6. s = t
    BY <1>4, <1>5, Zenon
  <1> QED BY <1>6 DEF s, t

LEMMA SitesPolicyInOrder == ASSUME NEW mode \in Modes4 PROVE RulesInOrder(N!networkPolicyRules(mode, {"site"}), mode)
  <1> DEFINE a1 == <<"input", "est">>
             a2 == <<"input", "drop">>
             a3 == <<"forward", "est">>
             a4 == <<"forward", "back">>
             a5 == <<"forward", "private">>
             b1 == <<"forward", "site">>
             b2 == <<"forward", "nosite">>
             c1 == <<"postrouting", "nat">>
             c2 == <<"filter", "out">>
             c3 == <<"filter", "back">>
             p == <<a1, a2, a3, a4, a5>>
             q == CASE mode = "deny_all" -> <<>>
                    [] mode = "allow_domains" -> <<b1>>
                    [] mode = "deny_domains" -> <<b2, OutRule>>
                    [] OTHER -> <<OutRule>>
             c == <<c1>>
             d == <<c2, c3>>
  <1>1. N!networkPolicyRules(mode, {"site"}) = ((p \o q) \o c) \o d
    <2>1. N!OfEach({"site"}, "site") = <<b1>> /\ N!OfEach({"site"}, "nosite") = <<b2>>
      BY DEF N!OfEach
    <2>2. <<b2>> \o <<OutRule>> = <<b2, OutRule>>
      BY Joining
    <2>3. q = CASE mode = "deny_all" -> <<>>
                [] mode = "allow_domains" -> N!OfEach({"site"}, "site")
                [] mode = "deny_domains" -> N!OfEach({"site"}, "nosite") \o <<<<"forward", "out">>>>
                [] OTHER -> <<<<"forward", "out">>>>
      BY <2>1, <2>2, Zenon DEF Modes4, OutRule
    <2> HIDE DEF q
    <2> QED BY <2>3 DEF N!networkPolicyRules, N!allowForwardInFilter
  <1>2. {a1, a2, a3, a4, a5, b1, b2, OutRule, c1, c2, c3} \subseteq Line
    BY LinesIn DEF OutRule
  <1>20. Lines(mode) = {a1, a2, a3, a4, a5, c1, c2, c3} \cup (CASE mode = "deny_all" -> {} [] mode = "allow_domains" -> {b1}
               [] mode = "deny_domains" -> {b2, OutRule} [] OTHER -> {OutRule})
    BY DEF Lines, OutRule
  <1>21. OutRule \notin {a1, a2, a3, a4, a5, b1, b2, c1, c2, c3}
    BY DEF OutRule
  <1> HIDE DEF a1, a2, a3, a4, a5, b1, b2, c1, c2, c3
  <1>3. q \in Seq(Line)
        /\ (mode = "deny_all" => Len(q) = 0)
        /\ (mode = "allow_domains" => Len(q) = 1 /\ q[1] = b1)
        /\ (mode = "deny_domains" => Len(q) = 2 /\ q[1] = b2 /\ q[2] = OutRule)
        /\ (mode = "allow_all" => Len(q) = 1 /\ q[1] = OutRule)
    BY <1>2 DEF Modes4
  <1>4. p \in Seq(Line) /\ Len(p) = 5 /\ p[1] = a1 /\ p[2] = a2 /\ p[3] = a3 /\ p[4] = a4 /\ p[5] = a5
    BY <1>2
  <1>5. c \in Seq(Line) /\ d \in Seq(Line) /\ Len(c) = 1 /\ c[1] = c1 /\ Len(d) = 2 /\ d[1] = c2 /\ d[2] = c3
    BY <1>2
  <1> HIDE DEF p, q, c, d
  <1> DEFINE s == c \o d
             t == (p \o q) \o s
  <1>6. s \in Seq(Line) /\ Len(s) = 3 /\ s[1] = c1 /\ s[2] = c2 /\ s[3] = c3
    <2>1. s \in Seq(Line) /\ Len(s) = Len(c) + Len(d) /\ \A i \in 1 .. Len(c) + Len(d) : s[i] = IF i <= Len(c) THEN c[i] ELSE d[i - Len(c)]
      BY <1>5, Joined, Zenon
    <2> HIDE DEF s
    <2> QED BY <2>1, <1>5
  <1>7. N!networkPolicyRules(mode, {"site"}) = t
    <2>1. p \o q \in Seq(Line)
      BY <1>3, <1>4
    <2>2. \A x, y, z \in Seq(Line) : (x \o y) \o z = x \o (y \o z)
      OBVIOUS
    <2> QED BY <2>1, <2>2, <1>1, <1>5, Zenon
  <1>8. /\ t \in Seq(Line) /\ Len(t) = 8 + Len(q)
        /\ \A i \in 1 .. 5 : t[i] = p[i]
        /\ \A i \in 1 .. Len(q) : t[5 + i] = q[i]
        /\ \A i \in 1 .. 3 : t[(5 + Len(q)) + i] = s[i]
    <2>1. p \in Seq(Line) /\ q \in Seq(Line) /\ s \in Seq(Line) /\ Len(p) = 5 /\ Len(s) = 3
      BY <1>3, <1>4, <1>6
    <2> HIDE DEF s
    <2> QED BY <2>1, Pieces, Zenon
  <1> HIDE DEF s, t
  <1>9. t[1] = a1 /\ t[2] = a2 /\ t[3] = a3 /\ t[4] = a4 /\ t[5] = a5
    BY <1>8, <1>4
  <1>10. CASE mode = "deny_all"
    <2>1. Len(t) = 8 /\ t[6] = c1 /\ t[7] = c2 /\ t[8] = c3
      BY <1>10, <1>3, <1>8, <1>6
    <2>2. \A i \in 1 .. Len(t) : i \in {1, 2, 3, 4, 5, 6, 7, 8}
      BY <2>1
    <2>3. Lines(mode) = {a1, a2, a3, a4, a5, c1, c2, c3}
      BY <1>10, <1>20
    <2>4. (\A i \in 1 .. Len(t) : t[i] \in Lines(mode)) /\ \A l \in Lines(mode) : \E i \in 1 .. Len(t) : t[i] = l
      BY <2>1, <2>2, <2>3, <1>9
    <2>5. \A i \in 1 .. Len(t) : t[i] # OutRule
      BY <2>3, <2>4, <1>21
    <2>6. Len(t) > 0
      BY <2>1
    <2>7. RulesInOrder(t, mode)
      BY <2>4, <2>5, <2>6, <1>8 DEF RulesInOrder
    <2> QED BY <2>7, <1>7
  <1>11. CASE mode = "allow_domains"
    <2>1. Len(t) = 9 /\ t[6] = b1 /\ t[7] = c1 /\ t[8] = c2 /\ t[9] = c3
      <3>1. Len(q) = 1 /\ 1 \in 1 .. Len(q)
        BY <1>11, <1>3
      <3>2. t[5 + 1] = q[1] /\ \A i \in 1 .. 3 : t[(5 + 1) + i] = s[i]
        BY <3>1, <1>8
      <3>3. t[7] = s[1] /\ t[8] = s[2] /\ t[9] = s[3]
        BY <3>2
      <3> QED BY <3>1, <3>2, <3>3, <1>6, <1>8, <1>3, <1>11
    <2>2. \A i \in 1 .. Len(t) : i \in {1, 2, 3, 4, 5, 6, 7, 8, 9}
      BY <2>1
    <2>3. Lines(mode) = {a1, a2, a3, a4, a5, c1, c2, c3, b1}
      BY <1>11, <1>20
    <2>4. (\A i \in 1 .. Len(t) : t[i] \in Lines(mode)) /\ \A l \in Lines(mode) : \E i \in 1 .. Len(t) : t[i] = l
      BY <2>1, <2>2, <2>3, <1>9
    <2>5. \A i \in 1 .. Len(t) : t[i] # OutRule
      BY <2>3, <2>4, <1>21
    <2>6. Len(t) > 0
      BY <2>1
    <2>7. RulesInOrder(t, mode)
      BY <2>4, <2>5, <2>6, <1>8 DEF RulesInOrder
    <2> QED BY <2>7, <1>7
  <1>12. CASE mode = "deny_domains"
    <2>1. Len(t) = 10 /\ t[6] = b2 /\ t[7] = OutRule /\ t[8] = c1 /\ t[9] = c2 /\ t[10] = c3
      <3>0. Len(q) = 2
        BY <1>12, <1>3
      <3>1. Len(q) = 2 /\ 1 \in 1 .. Len(q) /\ 2 \in 1 .. Len(q)
        BY <3>0
      <3>2. t[5 + 1] = q[1] /\ t[5 + 2] = q[2] /\ \A i \in 1 .. 3 : t[(5 + 2) + i] = s[i]
        BY <3>1, <1>8
      <3>3. t[8] = s[1] /\ t[9] = s[2] /\ t[10] = s[3]
        BY <3>2
      <3> QED BY <3>1, <3>2, <3>3, <1>6, <1>8, <1>3, <1>12
    <2>2. \A i \in 1 .. Len(t) : i \in {1, 2, 3, 4, 5, 6, 7, 8, 9, 10}
      BY <2>1
    <2>3. Lines(mode) = {a1, a2, a3, a4, a5, c1, c2, c3, b2, OutRule}
      BY <1>12, <1>20
    <2>4. (\A i \in 1 .. Len(t) : t[i] \in Lines(mode)) /\ \A l \in Lines(mode) : \E i \in 1 .. Len(t) : t[i] = l
      BY <2>1, <2>2, <2>3, <1>9
    <2>5. \A i \in 1 .. Len(t) : t[i] = OutRule => i = 7
      BY <2>1, <2>2, <1>9, <1>21
    <2>6. 5 \in 1 .. 7 - 1 /\ 6 \in 1 .. 7 - 1
      OBVIOUS
    <2>7. t[5] = <<"forward", "private">> /\ t[6] = <<"forward", "nosite">>
      BY <2>1, <1>9 DEF a5, b2
    <2>8. \A i \in 1 .. Len(t) : t[i] = OutRule => (\E k \in 1 .. i - 1 : t[k] = <<"forward", "private">>) /\ \E k \in 1 .. i - 1 : t[k] = <<"forward", "nosite">>
      BY <2>5, <2>6, <2>7
    <2>9. Len(t) > 0
      BY <2>1
    <2>10. RulesInOrder(t, mode)
      BY <2>9, <2>4, <2>8, <1>8, Zenon DEF RulesInOrder
    <2> QED BY <2>10, <1>7
  <1>13. CASE mode = "allow_all"
    <2>1. Len(t) = 9 /\ t[6] = OutRule /\ t[7] = c1 /\ t[8] = c2 /\ t[9] = c3
      <3>1. Len(q) = 1 /\ 1 \in 1 .. Len(q)
        BY <1>13, <1>3
      <3>2. t[5 + 1] = q[1] /\ \A i \in 1 .. 3 : t[(5 + 1) + i] = s[i]
        BY <3>1, <1>8
      <3>3. t[7] = s[1] /\ t[8] = s[2] /\ t[9] = s[3]
        BY <3>2
      <3> QED BY <3>1, <3>2, <3>3, <1>6, <1>8, <1>3, <1>13
    <2>2. \A i \in 1 .. Len(t) : i \in {1, 2, 3, 4, 5, 6, 7, 8, 9}
      BY <2>1
    <2>3. Lines(mode) = {a1, a2, a3, a4, a5, c1, c2, c3, OutRule}
      BY <1>13, <1>20
    <2>4. (\A i \in 1 .. Len(t) : t[i] \in Lines(mode)) /\ \A l \in Lines(mode) : \E i \in 1 .. Len(t) : t[i] = l
      BY <2>1, <2>2, <2>3, <1>9
    <2>5. \A i \in 1 .. Len(t) : t[i] = OutRule => i = 6
      BY <2>1, <2>2, <1>9, <1>21
    <2>6. 5 \in 1 .. 6 - 1
      OBVIOUS
    <2>7. t[5] = <<"forward", "private">>
      BY <1>9 DEF a5
    <2>8. \A i \in 1 .. Len(t) : t[i] = OutRule => \E k \in 1 .. i - 1 : t[k] = <<"forward", "private">>
      BY <2>5, <2>6, <2>7
    <2>9. Len(t) > 0 /\ mode # "deny_domains"
      BY <2>1, <1>13
    <2>10. RulesInOrder(t, mode)
      BY <2>9, <2>4, <2>8, <1>8, Zenon DEF RulesInOrder
    <2> QED BY <2>10, <1>7
  <1> QED BY <1>10, <1>11, <1>12, <1>13 DEF Modes4

\* The policy whose rules a policy has, by what its names resolved to.
Eff(mode, ips) ==
    IF ips # {} THEN mode
    ELSE CASE mode = "allow_domains" -> "deny_all" [] mode = "deny_domains" -> "allow_all" [] OTHER -> mode
EffOf(r) == Eff(r.mode, r.ips)

LEMMA EffIn == \A r : r.mode \in Modes4 => EffOf(r) \in Modes4
  BY DEF EffOf, Eff, Modes4

LEMMA EffAllows ==
    ASSUME NEW mode \in Modes4, NEW ips \in SUBSET {"site"}, NEW to \in {"site", "elsewhere"}
    PROVE  N!Allows(Eff(mode, ips), {"site"}, to) <=> N!Allows(mode, ips, to)
  <1>1. ips = {} \/ ips = {"site"}
    OBVIOUS
  <1> QED BY <1>1 DEF N!Allows, Eff, Modes4

LEMMA PolicyInOrder ==
    ASSUME NEW mode \in Modes4, NEW ips \in SUBSET {"site"}
    PROVE  RulesInOrder(N!networkPolicyRules(mode, ips), Eff(mode, ips))
  <1>1. Eff(mode, ips) \in Modes4
    BY DEF Eff, Modes4
  <1>2. CASE ips = {"site"}
    BY <1>2, SitesPolicyInOrder DEF Eff
  <1>3. CASE ips = {}
    <2> DEFINE Middle(md, s) == CASE md = "deny_all" -> <<>>
                            [] md = "allow_domains" -> N!OfEach(s, "site")
                            [] md = "deny_domains" -> N!OfEach(s, "nosite") \o <<<<"forward", "out">>>>
                            [] OTHER -> <<<<"forward", "out">>>>
    <2>1. N!OfEach({}, "site") = <<>> /\ N!OfEach({}, "nosite") = <<>>
      BY DEF N!OfEach
    <2>2. <<>> \o <<<<"forward", "out">>>> = <<<<"forward", "out">>>>
      OBVIOUS
    <2>3. Middle(mode, {}) = Middle(Eff(mode, {}), {"site"})
      BY <2>1, <2>2, Zenon DEF Eff, Modes4
    <2>4. \A md, s : N!networkPolicyRules(md, s) =
              <<<<"input", "est">>, <<"input", "drop">>, <<"forward", "est">>, <<"forward", "back">>, <<"forward", "private">>>>
                  \o Middle(md, s) \o <<<<"postrouting", "nat">>>> \o N!allowForwardInFilter
      BY Zenon DEF N!networkPolicyRules
    <2> HIDE DEF Middle
    <2>5. N!networkPolicyRules(mode, {}) = N!networkPolicyRules(Eff(mode, {}), {"site"})
      BY <2>3, <2>4, Zenon
    <2> QED BY <2>5, <1>1, <1>3, SitesPolicyInOrder
  <1>4. ips = {} \/ ips = {"site"}
    OBVIOUS
  <1> QED BY <1>2, <1>3, <1>4

\* A rule of m for this chain and this match.
Is(r, m, l) == r.tag = m /\ <<r.chain, r.what>> = l

\* The rules of m are those of the policy, what is refused before what is let out.
Enforced(rs, m, mode) ==
    /\ \A i \in 1 .. Len(rs) : rs[i].tag = m => <<rs[i].chain, rs[i].what>> \in Lines(mode)
    /\ \A l \in Lines(mode) : \E i \in 1 .. Len(rs) : Is(rs[i], m, l)
    /\ \A i \in 1 .. Len(rs) : Is(rs[i], m, OutRule) =>
          /\ \E k \in 1 .. i - 1 : Is(rs[k], m, <<"forward", "private">>)
          /\ mode = "deny_domains" => \E k \in 1 .. i - 1 : Is(rs[k], m, <<"forward", "nosite">>)

\* What becomes of the rules of m: none is new, and a policy stays in force.
Spares(rs, us, m) ==
    /\ \A i \in 1 .. Len(us) : us[i].tag = m => \E n \in 1 .. Len(rs) : rs[n] = us[i]
    /\ \A mode \in Modes4 : Enforced(rs, m, mode) => Enforced(us, m, mode)

LEMMA ThinSpares ==
    ASSUME NEW rs \in Seq(RuleRec), NEW us, NEW gone, Thinned(us, rs, Len(rs), gone), NEW m, \A r \in gone : r.tag # m
    PROVE  Spares(rs, us, m)
  <1>1. Len(rs) \in Nat /\ us \in Seq(RuleRec) /\ Len(us) \in Nat
    BY DEF Thinned
  <1>2. \A i \in 1 .. Len(us) : \E n \in 1 .. Len(rs) :
          /\ rs[n] = us[i]
          /\ \A q \in 1 .. n - 1 : rs[q] \notin gone => \E p \in 1 .. i - 1 : us[p] = rs[q]
    BY DEF Thinned
  <1>3. \A n \in 1 .. Len(rs) : rs[n].tag = m => \E i \in 1 .. Len(us) : us[i] = rs[n]
    BY DEF Thinned
  <1>4. ASSUME NEW mode \in Modes4, Enforced(rs, m, mode) PROVE Enforced(us, m, mode)
    <2>1. \A i \in 1 .. Len(us) : us[i].tag = m => <<us[i].chain, us[i].what>> \in Lines(mode)
      BY <1>2, <1>4 DEF Enforced
    <2>2. \A l \in Lines(mode) : \E i \in 1 .. Len(us) : Is(us[i], m, l)
      <3> SUFFICES ASSUME NEW l \in Lines(mode) PROVE \E i \in 1 .. Len(us) : Is(us[i], m, l)
        OBVIOUS
      <3>1. PICK n \in 1 .. Len(rs) : Is(rs[n], m, l)
        BY <1>4 DEF Enforced
      <3>2. PICK i \in 1 .. Len(us) : us[i] = rs[n]
        BY <3>1, <1>3 DEF Is
      <3> QED BY <3>1, <3>2
    <2>3. ASSUME NEW i \in 1 .. Len(us), Is(us[i], m, OutRule)
          PROVE  /\ \E k \in 1 .. i - 1 : Is(us[k], m, <<"forward", "private">>)
                 /\ mode = "deny_domains" => \E k \in 1 .. i - 1 : Is(us[k], m, <<"forward", "nosite">>)
      <3>1. PICK n \in 1 .. Len(rs) : rs[n] = us[i]
               /\ \A q \in 1 .. n - 1 : rs[q] \notin gone => \E p \in 1 .. i - 1 : us[p] = rs[q]
        BY <1>2
      <3>2. /\ \E k \in 1 .. n - 1 : Is(rs[k], m, <<"forward", "private">>)
            /\ mode = "deny_domains" => \E k \in 1 .. n - 1 : Is(rs[k], m, <<"forward", "nosite">>)
        BY <3>1, <2>3, <1>4 DEF Enforced
      <3>3. ASSUME NEW l, \E k \in 1 .. n - 1 : Is(rs[k], m, l) PROVE \E k \in 1 .. i - 1 : Is(us[k], m, l)
        <4>1. PICK k \in 1 .. n - 1 : Is(rs[k], m, l)
          BY <3>3
        <4>2. rs[k] \notin gone
          BY <4>1 DEF Is
        <4>3. PICK p \in 1 .. i - 1 : us[p] = rs[k]
          BY <4>2, <3>1
        <4> QED BY <4>1, <4>3
      <3> QED BY <3>2, <3>3, Zenon
    <2> QED BY <2>1, <2>2, <2>3 DEF Enforced
  <1> QED BY <1>2, <1>4 DEF Spares

LEMMA JoinSpares ==
    ASSUME NEW rs \in Seq(RuleRec), NEW us \in Seq(RuleRec), NEW m, \A i \in 1 .. Len(us) : us[i].tag # m
    PROVE  Spares(rs, rs \o us, m)
  <1> DEFINE ws == rs \o us
             a == Len(rs)
             b == Len(us)
  <1>1. ws \in Seq(RuleRec) /\ Len(ws) = a + b /\ \A i \in 1 .. a + b : ws[i] = IF i <= a THEN rs[i] ELSE us[i - a]
    BY Joined
  <1>2. a \in Nat /\ b \in Nat
    OBVIOUS
  <1>3. \A i \in 1 .. a : i \in 1 .. a + b /\ ws[i] = rs[i]
    BY <1>1, <1>2
  <1>4. \A i \in 1 .. a + b : i \in 1 .. a \/ (~(i <= a) /\ i - a \in 1 .. b)
    BY <1>2
  <1>5. \A i \in 1 .. a + b : ws[i].tag = m => i \in 1 .. a
    BY <1>1, <1>4
  <1> HIDE DEF ws, a
  <1>6. ASSUME NEW mode \in Modes4, Enforced(rs, m, mode) PROVE Enforced(ws, m, mode)
    <2>1. \A i \in 1 .. Len(ws) : ws[i].tag = m => <<ws[i].chain, ws[i].what>> \in Lines(mode)
      BY <1>1, <1>3, <1>5, <1>6, Zenon DEF Enforced, a
    <2>2. \A l \in Lines(mode) : \E i \in 1 .. Len(ws) : Is(ws[i], m, l)
      <3> SUFFICES ASSUME NEW l \in Lines(mode) PROVE \E i \in 1 .. Len(ws) : Is(ws[i], m, l)
        OBVIOUS
      <3>1. PICK n \in 1 .. a : Is(rs[n], m, l)
        BY <1>6 DEF Enforced, a
      <3> QED BY <3>1, <1>3, <1>1
    <2>3. ASSUME NEW i \in 1 .. Len(ws), Is(ws[i], m, OutRule)
          PROVE  /\ \E k \in 1 .. i - 1 : Is(ws[k], m, <<"forward", "private">>)
                 /\ mode = "deny_domains" => \E k \in 1 .. i - 1 : Is(ws[k], m, <<"forward", "nosite">>)
      <3>1. i \in 1 .. a /\ Is(rs[i], m, OutRule)
        BY <2>3, <1>1, <1>3, <1>5 DEF Is
      <3>2. /\ \E k \in 1 .. i - 1 : Is(rs[k], m, <<"forward", "private">>)
            /\ mode = "deny_domains" => \E k \in 1 .. i - 1 : Is(rs[k], m, <<"forward", "nosite">>)
        BY <3>1, <1>6 DEF Enforced, a
      <3>3. \A k \in 1 .. i - 1 : k \in 1 .. a
        BY <3>1, <1>2
      <3> QED BY <3>2, <3>3, <1>3
    <2> QED BY <2>1, <2>2, <2>3 DEF Enforced
  <1>7. \A i \in 1 .. Len(ws) : ws[i].tag = m => \E n \in 1 .. Len(rs) : rs[n] = ws[i]
    BY <1>1, <1>3, <1>5 DEF a
  <1> QED BY <1>6, <1>7 DEF Spares, ws

\* The first n rules of a policy, as a boot adds them.
Added(j, m, t, n) == [i \in 1 .. n |-> N!Rule(j, m, t[i][1], t[i][2])]

LEMMA AddedAre ==
    ASSUME NEW j \in Reqs, NEW m \in Guests, NEW mode, NEW t, RulesInOrder(t, mode), NEW n \in 0 .. Len(t)
    PROVE  /\ Added(j, m, t, n) \in Seq(RuleRec) /\ Len(Added(j, m, t, n)) = n
           /\ \A i \in 1 .. n : Added(j, m, t, n)[i].tag = m /\ <<Added(j, m, t, n)[i].chain, Added(j, m, t, n)[i].what>> = t[i]
  <1> DEFINE us == Added(j, m, t, n)
  <1>1. t \in Seq(Line) /\ Len(t) \in Nat /\ n \in Nat
    BY DEF RulesInOrder
  <1>2. \A i \in 1 .. n : t[i] \in Line
    BY <1>1
  <1>3. \A i \in 1 .. n : t[i][1] \in N!Chains /\ t[i][2] \in Words /\ t[i] = <<t[i][1], t[i][2]>>
    BY <1>2 DEF Line
  <1>4. \A i \in 1 .. n : N!Rule(j, m, t[i][1], t[i][2]) \in RuleRec
    BY <1>3 DEF N!Rule, RuleRec
  <1>5. us \in [1 .. n -> RuleRec]
    BY <1>4 DEF Added
  <1>6. us \in Seq(RuleRec) /\ Len(us) = n
    BY <1>5, <1>1
  <1>7. \A i \in 1 .. n : us[i].tag = m /\ <<us[i].chain, us[i].what>> = t[i]
    BY <1>3 DEF Added, N!Rule
  <1> QED BY <1>6, <1>7

LEMMA AddedEnforce ==
    ASSUME NEW rs \in Seq(RuleRec), NEW j \in Reqs, NEW m \in Guests, NEW mode \in Modes4, NEW t, RulesInOrder(t, mode),
           \A i \in 1 .. Len(rs) : rs[i].tag # m
    PROVE  Enforced(rs \o Added(j, m, t, Len(t)), m, mode)
  <1> DEFINE us == Added(j, m, t, Len(t))
             ws == rs \o us
             a == Len(rs)
             b == Len(t)
  <1>1. a \in Nat /\ b \in Nat /\ b \in 0 .. Len(t)
    BY DEF RulesInOrder
  <1>2. us \in Seq(RuleRec) /\ Len(us) = b /\ \A i \in 1 .. b : us[i].tag = m /\ <<us[i].chain, us[i].what>> = t[i]
    BY <1>1, AddedAre
  <1> HIDE DEF us
  <1>3. Len(ws) = a + b /\ \A i \in 1 .. a + b : ws[i] = IF i <= a THEN rs[i] ELSE us[i - a]
    <2>0. us \in Seq(RuleRec)
      BY <1>2
    <2>1. Len(ws) = Len(rs) + Len(us) /\ \A i \in 1 .. Len(rs) + Len(us) : ws[i] = IF i <= Len(rs) THEN rs[i] ELSE us[i - Len(rs)]
      BY <2>0, Joined
    <2> HIDE DEF ws
    <2> QED BY <2>1, <1>2
  <1> HIDE DEF ws
  <1>4. \A i \in 1 .. b : a + i \in 1 .. a + b /\ ~(a + i <= a) /\ (a + i) - a = i
    BY <1>1
  <1>5. \A i \in 1 .. b : Is(ws[a + i], m, t[i])
    <2> SUFFICES ASSUME NEW i \in 1 .. b PROVE Is(ws[a + i], m, t[i])
      OBVIOUS
    <2>1. ws[a + i] = us[(a + i) - a]
      BY <1>3, <1>4
    <2> QED BY <2>1, <1>2, <1>4 DEF Is
  <1>6. \A i \in 1 .. a + b : ws[i].tag = m => i - a \in 1 .. b /\ a + (i - a) = i
    <2> SUFFICES ASSUME NEW i \in 1 .. a + b, ws[i].tag = m PROVE i - a \in 1 .. b /\ a + (i - a) = i
      OBVIOUS
    <2>1. ~(i <= a)
      <3> SUFFICES ASSUME i <= a PROVE FALSE
        OBVIOUS
      <3>1. i \in 1 .. a /\ ws[i] = rs[i]
        BY <1>1, <1>3
      <3> QED BY <3>1
    <2> QED BY <2>1, <1>1
  <1> HIDE DEF a, b
  <1>7. \A i \in 1 .. Len(ws) : ws[i].tag = m => <<ws[i].chain, ws[i].what>> \in Lines(mode)
    <2> SUFFICES ASSUME NEW i \in 1 .. a + b, ws[i].tag = m PROVE <<ws[i].chain, ws[i].what>> \in Lines(mode)
      BY <1>3
    <2>1. i - a \in 1 .. b /\ a + (i - a) = i
      BY <1>6
    <2>2. Is(ws[i], m, t[i - a])
      BY <2>1, <1>5
    <2> QED BY <2>1, <2>2, Zenon DEF Is, RulesInOrder, b
  <1>8. ASSUME NEW l \in Lines(mode) PROVE \E i \in 1 .. Len(ws) : Is(ws[i], m, l)
    <2>1. PICK i \in 1 .. b : t[i] = l
      BY DEF RulesInOrder, b
    <2> QED BY <2>1, <1>3, <1>4, <1>5
  <1>9. ASSUME NEW i \in 1 .. Len(ws), Is(ws[i], m, OutRule)
        PROVE  /\ \E k \in 1 .. i - 1 : Is(ws[k], m, <<"forward", "private">>)
               /\ mode = "deny_domains" => \E k \in 1 .. i - 1 : Is(ws[k], m, <<"forward", "nosite">>)
    <2> DEFINE n == i - a
    <2>1. n \in 1 .. b /\ a + n = i
      BY <1>9, <1>3, <1>6 DEF Is
    <2>2. t[n] = OutRule
      <3>1. Is(ws[a + n], m, t[n])
        BY <2>1, <1>5
      <3> QED BY <3>1, <2>1, <1>9 DEF Is
    <2> HIDE DEF n
    <2>3. /\ \E k \in 1 .. n - 1 : t[k] = <<"forward", "private">>
          /\ mode = "deny_domains" => \E k \in 1 .. n - 1 : t[k] = <<"forward", "nosite">>
      BY <2>1, <2>2, Zenon DEF RulesInOrder, b
    <2>4. \A k \in 1 .. n - 1 : k \in 1 .. b /\ a + k \in 1 .. i - 1
      BY <2>1, <1>1
    <2>5. ASSUME NEW l, \E k \in 1 .. n - 1 : t[k] = l PROVE \E k \in 1 .. i - 1 : Is(ws[k], m, l)
      BY <2>5, <2>4, <1>5
    <2> QED BY <2>3, <2>5, Zenon
  <1> QED BY <1>7, <1>8, <1>9, Zenon DEF Enforced, ws, us

\* What the names of a policy may resolve to.
Resolved == SUBSET {"site"}

LEMMA NoneResolved == {} \in Resolved
  BY DEF Resolved

\* What a job has left to add.
Lefts == {<<>>, N!mgmtInputRules, <<"agent">>} \cup {N!networkPolicyRules(x, y) : x \in Modes4, y \in Resolved}

LEMMA InLefts ==
    /\ <<>> \in Lefts /\ N!mgmtInputRules \in Lefts /\ <<"agent">> \in Lefts
    /\ \A x \in Modes4, y \in Resolved : N!networkPolicyRules(x, y) \in Lefts
  BY DEF Lefts

JobRec == [pc : {"idle", "shared", "delete", "addshared", "input", "forward", "postrouting", "filter", "link", "add", "done"},
           m : Guests \cup {"none"}, mode : Modes4 \cup {"none"}, ips : Resolved,
           left : Lefts, doomed : SUBSET RuleRec, down : BOOLEAN]

NetTypes ==
    /\ rules \in Seq(RuleRec) /\ link \subseteq Guests
    /\ hup \in [Guests -> Reqs \cup {"none"}] /\ njob \in [Reqs -> JobRec]

\* The chains in which a job has looked for the rules of its machine.
Passed(pc) ==
    CASE pc = "forward" -> {"input"} [] pc = "postrouting" -> {"input", "forward"}
      [] pc = "filter" -> {"input", "forward", "postrouting"} [] pc \in {"link", "add"} -> N!Chains [] OTHER -> {}

\* What a job has at hand.
Shaped(r) ==
    /\ ~r.down => r.mode \in Modes4
    /\ r.pc \in {"shared", "delete", "addshared", "add"} => ~r.down
    /\ r.pc = "delete" => r.left = N!mgmtInputRules
    /\ r.pc = "addshared" => r.left \in {N!mgmtInputRules, <<"agent">>}
    /\ r.pc = "add" => r.left = N!networkPolicyRules(r.mode, r.ips)
    /\ \A x \in r.doomed : x.tag = "global"

\* A job has its machine, which does not run, to itself, and what it has deleted is gone.
JobOK(j) == N!Busy(j) =>
    /\ Shaped(njob[j]) /\ njob[j].m \in Guests /\ hup[njob[j].m] = "none"
    /\ \A k \in Reqs : N!Busy(k) /\ njob[k].m = njob[j].m => k = j
    /\ njob[j].pc = "add" => njob[j].m \in link
    /\ \A i \in 1 .. Len(rules) : rules[i].tag = njob[j].m => rules[i].chain \notin Passed(njob[j].pc)

\* Only the shared rules open the input chain.
Tame(r) ==
    /\ r.tag = "global" => r.chain = "input" /\ r.what \in {"est", "agent"}
    /\ r.tag # "global" => r.what # "agent" /\ (r.chain = "input" => r.what \in {"est", "drop"})

\* A machine with rules has its tap, or a job that is at it.
Belong == \A i \in 1 .. Len(rules) :
    LET m == rules[i].tag IN m = "global" \/ m \in link \/ \E j \in Reqs : N!Busy(j) /\ njob[j].m = m

\* A machine runs behind the policy of its boot.
UpOK(m) == hup[m] # "none" =>
    /\ hup[m] \in Reqs /\ njob[hup[m]].pc = "done" /\ njob[hup[m]].mode \in Modes4
    /\ m \in link /\ Enforced(rules, m, EffOf(njob[hup[m]]))

Agent(rs) == \E i \in 1 .. Len(rs) : rs[i].tag = "global" /\ rs[i].chain = "input" /\ rs[i].what = "agent"

\* The agent's rule is there, or nothing has been done yet.
MgmtOK == N!SharedQuiet =>
    \/ Agent(rules)
    \/ rules = <<>> /\ link = {} /\ \A j \in Reqs : njob[j].pc = "idle"

NetInv ==
    /\ NetTypes
    /\ \A j \in Reqs : JobOK(j)
    /\ \A i \in 1 .. Len(rules) : Tame(rules[i])
    /\ Belong
    /\ \A m \in Guests : UpOK(m)
    /\ MgmtOK

LEMMA IdleIs == N!Idle \in JobRec
  BY NoneResolved, InLefts, Zenon DEF N!Idle, JobRec

LEMMA NetInit == ASSUME NetNames, N!Init PROVE NetInv
  <1>1. rules = <<>> /\ link = {} /\ Len(rules) = 0 /\ \A j \in Reqs : njob[j].pc = "idle"
    BY DEF N!Init, N!Idle
  <1>2. NetTypes
    BY IdleIs DEF N!Init, NetTypes
  <1>3. \A j \in Reqs : JobOK(j)
    BY <1>1 DEF JobOK, N!Busy
  <1>4. \A m \in Guests : UpOK(m)
    BY DEF N!Init, UpOK
  <1>5. MgmtOK
    BY <1>1 DEF MgmtOK
  <1>6. Belong
    BY <1>1 DEF Belong
  <1> QED BY <1>1, <1>2, <1>3, <1>4, <1>5, <1>6 DEF NetInv

\* A job goes on with its machine.
LEMMA JobGoesOn ==
    ASSUME NetInv, NEW j \in Reqs, N!Busy(j), NEW r \in JobRec, N!Set(j, r), r.m = njob[j].m, r.pc \notin {"idle", "done"}, Shaped(r),
           UNCHANGED hup, link' \in SUBSET Guests, link \subseteq link', r.pc = "add" => r.m \in link',
           rules' \in Seq(RuleRec), \A i \in 1 .. Len(rules') : Tame(rules'[i]),
           \A i \in 1 .. Len(rules') : rules'[i].tag = r.m => rules'[i].chain \notin Passed(r.pc),
           \A m \in Guests : m # r.m => Spares(rules, rules', m),
           \A i \in 1 .. Len(rules') : rules'[i].tag \in Guests \cup {"global"},
           MgmtOK'
    PROVE  NetInv'
  <1>1. njob' \in [Reqs -> JobRec] /\ njob'[j] = r /\ \A k \in Reqs : k # j => njob'[k] = njob[k]
    BY DEF N!Set, NetInv, NetTypes
  <1>2. NetTypes'
    BY <1>1 DEF NetInv, NetTypes
  <1>3. \A k \in Reqs : N!Busy(k)' <=> N!Busy(k)
    BY <1>1 DEF N!Busy
  <1>4. \A k \in Reqs : njob'[k].m = njob[k].m
    BY <1>1
  <1>5. ASSUME NEW k \in Reqs, N!Busy(k)' PROVE JobOK(k)'
    <2>1. N!Busy(k) /\ JobOK(k)
      BY <1>3, <1>5 DEF NetInv
    <2>2. \A q \in Reqs : N!Busy(q)' /\ njob'[q].m = njob'[k].m => q = k
      BY <2>1, <1>3, <1>4 DEF JobOK
    <2>3. CASE k = j
      <3>1. njob'[k] = r /\ r.m \in Guests /\ hup'[r.m] = "none"
        BY <1>1, <2>1, <2>3 DEF JobOK
      <3> QED BY <3>1, <2>2 DEF JobOK
    <2>4. CASE k # j
      <3>1. njob'[k] = njob[k] /\ njob[k].m \in Guests /\ njob[k].m # r.m
        BY <1>1, <2>1, <2>4 DEF JobOK, NetInv
      <3>2. \A i \in 1 .. Len(rules') : rules'[i].tag = njob[k].m => rules'[i].chain \notin Passed(njob[k].pc)
        <4> SUFFICES ASSUME NEW i \in 1 .. Len(rules'), rules'[i].tag = njob[k].m PROVE rules'[i].chain \notin Passed(njob[k].pc)
          OBVIOUS
        <4>1. PICK n \in 1 .. Len(rules) : rules[n] = rules'[i]
          BY <3>1 DEF Spares
        <4> QED BY <4>1, <2>1 DEF JobOK
      <3> QED BY <3>1, <3>2, <2>1, <2>2 DEF JobOK
    <2> QED BY <2>3, <2>4
  <1>6. Belong'
    <2> SUFFICES ASSUME NEW i \in 1 .. Len(rules'), NEW m, m = rules'[i].tag
                 PROVE  m = "global" \/ m \in link' \/ \E k \in Reqs : N!Busy(k)' /\ njob'[k].m = m
      BY DEF Belong
    <2>1. CASE m = r.m
      BY <2>1, <1>1, <1>3
    <2>2. CASE m # r.m /\ m \in Guests
      <3>1. PICK n \in 1 .. Len(rules) : rules[n] = rules'[i]
        BY <2>2 DEF Spares
      <3>2. m = "global" \/ m \in link \/ \E k \in Reqs : N!Busy(k) /\ njob[k].m = m
        BY <3>1 DEF NetInv, Belong
      <3> QED BY <3>2, <1>3, <1>4
    <2> QED BY <2>1, <2>2
  <1>7. ASSUME NEW m \in Guests, hup'[m] # "none" PROVE UpOK(m)'
    <2>1. UpOK(m) /\ hup[m] # "none" /\ hup'[m] = hup[m]
      BY <1>7 DEF NetInv
    <2>2. m # r.m
      BY <2>1 DEF NetInv, JobOK
    <2>3. hup[m] # j
      BY <2>1 DEF UpOK, N!Busy
    <2>4. hup[m] \in Reqs /\ njob'[hup[m]] = njob[hup[m]]
      BY <2>1, <2>3, <1>1 DEF UpOK
    <2>5. Enforced(rules', m, EffOf(njob[hup[m]]))
      BY <2>1, <2>2, EffIn DEF UpOK, Spares
    <2> QED BY <2>1, <2>4, <2>5 DEF UpOK
  <1>8. \A k \in Reqs : JobOK(k)'
    BY <1>5 DEF JobOK
  <1>9. \A m \in Guests : UpOK(m)'
    BY <1>7 DEF UpOK
  <1> QED BY <1>2, <1>6, <1>8, <1>9 DEF NetInv

\* Fewer rules.
LEMMA RulesGo ==
    ASSUME NetInv, NEW gone, rules' = N!Without(gone)
    PROVE  /\ rules' \in Seq(RuleRec) /\ \A i \in 1 .. Len(rules') : Tame(rules'[i]) /\ rules'[i].tag \in Guests \cup {"global"}
           /\ \A i \in 1 .. Len(rules') : rules'[i] \notin gone /\ \E n \in 1 .. Len(rules) : rules[n] = rules'[i]
           /\ \A m \in Guests : (\A r \in gone : r.tag # m) => Spares(rules, rules', m)
           /\ (\A r \in gone : r.tag # "global") /\ Agent(rules) => Agent(rules')
  <1>1. rules \in Seq(RuleRec)
    BY DEF NetInv, NetTypes
  <1>2. Thinned(rules', rules, Len(rules), gone)
    BY <1>1, WithoutThins
  <1>3. \A i \in 1 .. Len(rules') : rules'[i] \notin gone /\ \E n \in 1 .. Len(rules) : rules[n] = rules'[i]
    BY <1>2, Zenon DEF Thinned
  <1>4. rules' \in Seq(RuleRec)
    BY <1>2 DEF Thinned
  <1>5. \A n \in 1 .. Len(rules) : Tame(rules[n])
    BY DEF NetInv
  <1>6. \A i \in 1 .. Len(rules') : Tame(rules'[i])
    BY <1>3, <1>5
  <1>7. \A i \in 1 .. Len(rules') : rules'[i].tag \in Guests \cup {"global"}
    <2>1. \A i \in 1 .. Len(rules') : rules'[i] \in RuleRec
      BY <1>4
    <2> QED BY <2>1 DEF RuleRec
  <1>8. \A m \in Guests : (\A r \in gone : r.tag # m) => Spares(rules, rules', m)
    BY <1>1, <1>2, ThinSpares
  <1>9. ASSUME \A r \in gone : r.tag # "global", Agent(rules) PROVE Agent(rules')
    <2>1. PICK n \in 1 .. Len(rules) : rules[n].tag = "global" /\ rules[n].chain = "input" /\ rules[n].what = "agent"
      BY <1>9 DEF Agent
    <2>2. rules[n] \notin gone
      BY <1>9, <2>1
    <2>3. PICK i \in 1 .. Len(rules') : rules'[i] = rules[n]
      BY <1>2, <2>2 DEF Thinned
    <2> QED BY <2>1, <2>3 DEF Agent
  <1> QED BY <1>3, <1>4, <1>6, <1>7, <1>8, <1>9

\* More rules, of one tag.
LEMMA RulesCome ==
    ASSUME NetInv, NEW us \in Seq(RuleRec), rules' = rules \o us, \A i \in 1 .. Len(us) : Tame(us[i])
    PROVE  /\ rules' \in Seq(RuleRec) /\ \A i \in 1 .. Len(rules') : Tame(rules'[i]) /\ rules'[i].tag \in Guests \cup {"global"}
           /\ \A i \in 1 .. Len(rules') : (\E n \in 1 .. Len(rules) : rules[n] = rules'[i]) \/ \E n \in 1 .. Len(us) : us[n] = rules'[i]
           /\ \A n \in 1 .. Len(us) : \E i \in 1 .. Len(rules') : rules'[i] = us[n]
           /\ \A m \in Guests : (\A i \in 1 .. Len(us) : us[i].tag # m) => Spares(rules, rules', m)
           /\ Agent(rules) => Agent(rules')
  <1> DEFINE a == Len(rules)
             b == Len(us)
  <1>1. rules \in Seq(RuleRec) /\ a \in Nat /\ b \in Nat
    BY DEF NetInv, NetTypes
  <1>2. rules' \in Seq(RuleRec) /\ Len(rules') = a + b /\ \A i \in 1 .. a + b : rules'[i] = IF i <= a THEN rules[i] ELSE us[i - a]
    BY <1>1, Joined
  <1> HIDE DEF a, b
  <1>3. \A i \in 1 .. a : i \in 1 .. a + b /\ rules'[i] = rules[i]
    BY <1>1, <1>2
  <1>4. \A i \in 1 .. a + b : i \in 1 .. a \/ (~(i <= a) /\ i - a \in 1 .. b)
    BY <1>1
  <1>5. \A i \in 1 .. Len(rules') : (\E n \in 1 .. Len(rules) : rules[n] = rules'[i]) \/ \E n \in 1 .. Len(us) : us[n] = rules'[i]
    BY <1>2, <1>3, <1>4 DEF a, b
  <1>6. \A i \in 1 .. Len(rules') : Tame(rules'[i])
    BY <1>5 DEF NetInv
  <1>7. \A i \in 1 .. Len(rules') : rules'[i].tag \in Guests \cup {"global"}
    <2>1. \A i \in 1 .. Len(rules') : rules'[i] \in RuleRec
      BY <1>2
    <2> QED BY <2>1 DEF RuleRec
  <1>8. \A m \in Guests : (\A i \in 1 .. Len(us) : us[i].tag # m) => Spares(rules, rules', m)
    BY <1>1, JoinSpares
  <1>9. Agent(rules) => Agent(rules')
    BY <1>2, <1>3 DEF Agent, a
  <1>10. \A n \in 1 .. b : \E i \in 1 .. Len(rules') : rules'[i] = us[n]
    <2> SUFFICES ASSUME NEW n \in 1 .. b PROVE \E i \in 1 .. a + b : rules'[i] = us[n]
      BY <1>2, Zenon
    <2>1. a + n \in 1 .. a + b /\ ~(a + n <= a) /\ (a + n) - a = n
      BY <1>1
    <2>2. rules'[a + n] = us[(a + n) - a]
      BY <2>1, <1>2
    <2> QED BY <2>1, <2>2, Zenon
  <1> QED BY <1>2, <1>5, <1>6, <1>7, <1>8, <1>9, <1>10, Zenon DEF b

LEMMA BootKeeps == ASSUME NetNames, NetInv, NEW j \in Reqs, NEW m \in Guests, NEW mode \in Modes[m], N!Boot(j, m, mode) PROVE NetInv'
  <1> DEFINE r == [N!Idle EXCEPT !.pc = "shared", !.m = m, !.mode = mode]
  <1>1. mode \in Modes4 /\ r \in JobRec /\ r.pc = "shared" /\ r.m = m /\ r.mode = mode /\ r.down = FALSE /\ r.doomed = {}
    BY NoneResolved, InLefts, Zenon DEF NetNames, N!Idle, JobRec
  <1> HIDE DEF r
  <1>2. njob' \in [Reqs -> JobRec] /\ njob'[j] = r /\ \A k \in Reqs : k # j => njob'[k] = njob[k]
    BY <1>1 DEF N!Boot, N!Set, NetInv, NetTypes, r
  <1>3. njob[j].pc = "idle" /\ ~N!Busy(j) /\ hup[m] = "none" /\ N!Free(m)
    BY DEF N!Boot, N!Idle, N!Busy
  <1>4. UNCHANGED <<rules, link, hup>>
    BY DEF N!Boot
  <1>5. NetTypes'
    BY <1>2, <1>4 DEF NetInv, NetTypes
  <1>6. \A k \in Reqs : N!Busy(k)' <=> N!Busy(k) \/ k = j
    BY <1>1, <1>2 DEF N!Busy
  <1>7. ASSUME NEW k \in Reqs PROVE JobOK(k)'
    <2>1. CASE k = j
      <3>1. \A q \in Reqs : N!Busy(q)' /\ njob'[q].m = m => q = j
        BY <1>2, <1>3, <1>6 DEF N!Free
      <3>2. Shaped(r) /\ Passed(r.pc) = {}
        BY <1>1 DEF Shaped, Passed
      <3> QED BY <3>1, <3>2, <2>1, <1>1, <1>2, <1>3, <1>4 DEF JobOK
    <2>2. CASE k # j /\ N!Busy(k)
      <3>1. JobOK(k) /\ njob'[k] = njob[k] /\ njob[k].m # m
        BY <2>2, <1>2, <1>3 DEF NetInv, N!Free
      <3>2. \A q \in Reqs : N!Busy(q)' /\ njob'[q].m = njob'[k].m => q = k
        BY <3>1, <2>2, <1>1, <1>2, <1>6 DEF JobOK
      <3> QED BY <3>1, <3>2, <2>2, <1>4 DEF JobOK
    <2>3. CASE k # j /\ ~N!Busy(k)
      BY <2>3, <1>6 DEF JobOK
    <2> QED BY <2>1, <2>2, <2>3
  <1>8. Belong'
    <2>1. \A k \in Reqs : N!Busy(k) => N!Busy(k)' /\ njob'[k] = njob[k]
      BY <1>2, <1>3, <1>6
    <2> QED BY <2>1, <1>4 DEF NetInv, Belong
  <1>9. \A q \in Guests : UpOK(q)'
    <2> SUFFICES ASSUME NEW q \in Guests, hup[q] # "none" PROVE UpOK(q)'
      BY <1>4 DEF UpOK
    <2>1. UpOK(q) /\ hup[q] # j /\ hup[q] \in Reqs
      BY <1>3 DEF NetInv, UpOK
    <2>2. njob'[hup[q]] = njob[hup[q]] /\ hup' = hup /\ rules' = rules /\ link' = link
      BY <2>1, <1>2, <1>4
    <2> QED BY <2>1, <2>2 DEF UpOK
  <1>10. MgmtOK'
    BY <1>1, <1>2 DEF MgmtOK, N!SharedQuiet
  <1>11. \A i \in 1 .. Len(rules') : Tame(rules'[i])
    BY <1>4 DEF NetInv
  <1> QED BY <1>5, <1>7, <1>8, <1>9, <1>10, <1>11 DEF NetInv

LEMMA DestroyKeeps == ASSUME NetNames, NetInv, NEW j \in Reqs, NEW m \in Guests, N!Destroy(j, m) PROVE NetInv'
  <1> DEFINE r == [N!Idle EXCEPT !.pc = "input", !.m = m, !.down = TRUE]
  <1>1. r \in JobRec /\ r.pc = "input" /\ r.m = m /\ r.down = TRUE /\ r.doomed = {}
    BY NoneResolved, InLefts, Zenon DEF N!Idle, JobRec
  <1> HIDE DEF r
  <1>2. njob' \in [Reqs -> JobRec] /\ njob'[j] = r /\ \A k \in Reqs : k # j => njob'[k] = njob[k]
    BY <1>1 DEF N!Destroy, N!Set, NetInv, NetTypes, r
  <1>3. njob[j].pc = "idle" /\ ~N!Busy(j) /\ N!Free(m) /\ m \in link
    BY DEF N!Destroy, N!Idle, N!Busy
  <1>4. UNCHANGED <<rules, link>> /\ hup' = [hup EXCEPT ![m] = "none"]
    BY DEF N!Destroy
  <1>40. hup' \in [Guests -> Reqs \cup {"none"}] /\ hup'[m] = "none" /\ \A q \in Guests : q # m => hup'[q] = hup[q]
    BY <1>4 DEF NetInv, NetTypes
  <1>5. NetTypes'
    BY <1>2, <1>4, <1>40 DEF NetInv, NetTypes
  <1>6. \A k \in Reqs : N!Busy(k)' <=> N!Busy(k) \/ k = j
    BY <1>1, <1>2 DEF N!Busy
  <1>7. ASSUME NEW k \in Reqs PROVE JobOK(k)'
    <2>1. CASE k = j
      <3>1. \A q \in Reqs : N!Busy(q)' /\ njob'[q].m = m => q = j
        BY <1>2, <1>3, <1>6 DEF N!Free
      <3>2. Shaped(r) /\ Passed(r.pc) = {}
        BY <1>1 DEF Shaped, Passed
      <3> QED BY <3>1, <3>2, <2>1, <1>1, <1>2, <1>3, <1>4, <1>40 DEF JobOK
    <2>2. CASE k # j /\ N!Busy(k)
      <3>1. JobOK(k) /\ njob'[k] = njob[k] /\ njob[k].m # m
        BY <2>2, <1>2, <1>3 DEF NetInv, N!Free
      <3>2. \A q \in Reqs : N!Busy(q)' /\ njob'[q].m = njob'[k].m => q = k
        BY <3>1, <2>2, <1>1, <1>2, <1>6 DEF JobOK
      <3> QED BY <3>1, <3>2, <2>2, <1>4, <1>40 DEF JobOK
    <2>3. CASE k # j /\ ~N!Busy(k)
      BY <2>3, <1>6 DEF JobOK
    <2> QED BY <2>1, <2>2, <2>3
  <1>8. Belong'
    <2>1. \A k \in Reqs : N!Busy(k) => N!Busy(k)' /\ njob'[k] = njob[k]
      BY <1>2, <1>3, <1>6
    <2> QED BY <2>1, <1>4 DEF NetInv, Belong
  <1>9. \A q \in Guests : UpOK(q)'
    <2> SUFFICES ASSUME NEW q \in Guests, hup'[q] # "none" PROVE UpOK(q)'
      BY DEF UpOK
    <2>1. UpOK(q) /\ hup[q] # j /\ hup[q] \in Reqs /\ hup'[q] = hup[q]
      BY <1>3, <1>40 DEF NetInv, UpOK
    <2>2. njob'[hup[q]] = njob[hup[q]] /\ rules' = rules /\ link' = link
      BY <2>1, <1>2, <1>4
    <2> QED BY <2>1, <2>2 DEF UpOK
  <1>10. MgmtOK'
    <2>1. N!SharedQuiet' => N!SharedQuiet
      BY <1>2, <1>3 DEF N!SharedQuiet
    <2>2. link # {}
      BY <1>3
    <2> QED BY <2>1, <2>2, <1>4 DEF NetInv, MgmtOK
  <1>11. \A i \in 1 .. Len(rules') : Tame(rules'[i])
    BY <1>4 DEF NetInv
  <1> QED BY <1>5, <1>7, <1>8, <1>9, <1>10, <1>11 DEF NetInv

LEMMA NetStopKeeps == ASSUME NetInv, NEW m \in Guests, N!Stop(m) PROVE NetInv'
  <1>1. UNCHANGED <<rules, link, njob>> /\ hup' \in [Guests -> Reqs \cup {"none"}] /\ hup'[m] = "none" /\ \A q \in Guests : q # m => hup'[q] = hup[q]
    BY DEF N!Stop, NetInv, NetTypes
  <1>2. NetTypes' /\ MgmtOK' /\ Belong' /\ \A i \in 1 .. Len(rules') : Tame(rules'[i])
    BY <1>1 DEF NetInv, NetTypes, MgmtOK, N!SharedQuiet, Belong, N!Busy
  <1>3. ASSUME NEW k \in Reqs PROVE JobOK(k)'
    BY <1>1 DEF NetInv, JobOK, N!Busy
  <1>4. ASSUME NEW q \in Guests PROVE UpOK(q)'
    BY <1>1 DEF NetInv, UpOK
  <1> QED BY <1>2, <1>3, <1>4 DEF NetInv

LEMMA Untagged == ASSUME NetNames PROVE "global" \notin Guests /\ "mgmt" \notin Guests /\ "egress" \notin Guests /\ "none" \notin Guests
  BY DEF NetNames

LEMMA DeleteTapKeeps == ASSUME NetNames, NetCalm, NetInv, NEW j \in Reqs, N!DeleteTap(j) PROVE NetInv'
  <1> DEFINE gone == N!Tagged(njob[j].pc, njob[j].m)
             r == [njob[j] EXCEPT !.pc = N!After(njob[j].pc)]
             m == njob[j].m
  <1>1. njob[j] \in JobRec /\ njob[j].pc \in N!Chains /\ N!Busy(j) /\ JobOK(j)
    BY DEF N!DeleteTap, N!Busy, N!Chains, NetInv, NetTypes
  <1>2. Shaped(njob[j]) /\ m \in Guests
    BY <1>1 DEF JobOK
  <1>3. rules' = N!Without(gone) /\ N!Set(j, r) /\ UNCHANGED <<link, hup>>
    BY DEF N!DeleteTap, N!Listed, NetCalm
  <1>4. r \in JobRec /\ r.m = m /\ r.down = njob[j].down /\ r.mode = njob[j].mode /\ r.doomed = njob[j].doomed /\ r.pc = N!After(njob[j].pc)
        /\ r.pc \in {"forward", "postrouting", "filter", "link"}
    BY <1>1 DEF JobRec, N!After, N!Chains
  <1>5. \A x \in gone : x.tag = m
    BY DEF N!Tagged
  <1>6. Shaped(r)
    BY <1>2, <1>4 DEF Shaped
  <1>7. rules \in Seq(RuleRec)
    BY DEF NetInv, NetTypes
  <1>8. \A i \in 1 .. Len(rules') : rules'[i].tag = m => rules'[i].chain \notin Passed(r.pc)
    <2> SUFFICES ASSUME NEW i \in 1 .. Len(rules'), rules'[i].tag = m PROVE rules'[i].chain \notin Passed(r.pc)
      OBVIOUS
    <2>1. rules'[i] \notin gone
      BY <1>3, RulesGo
    <2>2. PICK n \in 1 .. Len(rules) : rules[n] = rules'[i]
      BY <1>3, RulesGo
    <2>3. n \in DOMAIN rules
      BY <1>7
    <2>4. rules'[i].chain # njob[j].pc
      BY <2>1, <2>2, <2>3 DEF N!Tagged
    <2>5. rules'[i].chain \notin Passed(njob[j].pc)
      BY <2>2, <1>1 DEF JobOK
    <2>6. Passed(r.pc) \subseteq Passed(njob[j].pc) \cup {njob[j].pc}
      BY <1>1, <1>4 DEF Passed, N!After, N!Chains
    <2> QED BY <2>4, <2>5, <2>6
  <1>9. MgmtOK'
    <2>1. m # "global" /\ \A x \in gone : x.tag # "global"
      BY <1>2, <1>5, Untagged
    <2>2. N!SharedQuiet' => N!SharedQuiet
      BY <1>1, <1>3, <1>4 DEF N!SharedQuiet, N!Set, N!Chains, NetInv, NetTypes
    <2>3. N!SharedQuiet => Agent(rules)
      BY <1>1 DEF NetInv, MgmtOK, N!Busy
    <2> QED BY <2>1, <2>2, <2>3, <1>3, RulesGo DEF MgmtOK
  <1>10. \A q \in Guests : q # m => Spares(rules, rules', q)
    BY <1>3, <1>5, RulesGo
  <1>11. rules' \in Seq(RuleRec) /\ \A i \in 1 .. Len(rules') : Tame(rules'[i]) /\ rules'[i].tag \in Guests \cup {"global"}
    BY <1>3, RulesGo
  <1>12. link' \in SUBSET Guests /\ link \subseteq link' /\ hup' = hup /\ r.pc \notin {"idle", "done"} /\ r.pc # "add"
    BY <1>3, <1>4 DEF NetInv, NetTypes
  <1> HIDE DEF r, gone
  <1> QED BY <1>1, <1>3, <1>4, <1>6, <1>8, <1>9, <1>10, <1>11, <1>12, JobGoesOn

LEMMA ListSharedKeeps == ASSUME NetNames, NetInv, NEW j \in Reqs, N!ListShared(j) PROVE NetInv'
  <1>1. njob[j] \in JobRec /\ njob[j].pc = "shared" /\ N!Busy(j) /\ JobOK(j)
    BY DEF N!ListShared, N!Busy, NetInv, NetTypes
  <1>2. Shaped(njob[j]) /\ njob[j].m \in Guests
    BY <1>1 DEF JobOK
  <1>3. PICK doomed \in N!Listed("input", "global") :
           N!Set(j, [njob[j] EXCEPT !.doomed = doomed, !.pc = "delete", !.left = N!mgmtInputRules])
    BY Zenon DEF N!ListShared
  <1>4. rules \in Seq(RuleRec)
    BY DEF NetInv, NetTypes
  <1>5. doomed \subseteq RuleRec /\ \A x \in doomed : x.tag = "global"
    BY <1>3, <1>4 DEF N!Listed, N!Tagged
  <1> DEFINE r == [njob[j] EXCEPT !.doomed = doomed, !.pc = "delete", !.left = N!mgmtInputRules]
  <1>6. r \in JobRec /\ r.m = njob[j].m /\ r.down = njob[j].down /\ r.mode = njob[j].mode /\ r.doomed = doomed /\ r.pc = "delete"
        /\ r.left = N!mgmtInputRules
    BY <1>1, <1>5, InLefts, Zenon DEF JobRec
  <1>7. N!Set(j, r) /\ UNCHANGED <<rules, link, hup>>
    BY <1>3 DEF N!ListShared
  <1> HIDE DEF r
  <1>8. Shaped(r)
    BY <1>1, <1>2, <1>5, <1>6 DEF Shaped
  <1>9. MgmtOK'
    BY <1>6, <1>7 DEF MgmtOK, N!SharedQuiet, N!Set, NetInv, NetTypes
  <1>10. Passed(r.pc) = {}
    BY <1>6 DEF Passed
  <1>11. \A m \in Guests : Spares(rules, rules', m)
    BY <1>7 DEF Spares
  <1>12. \A i \in 1 .. Len(rules') : rules'[i].tag \in Guests \cup {"global"}
    <2>1. \A i \in 1 .. Len(rules') : rules'[i] \in RuleRec
      BY <1>4, <1>7
    <2> QED BY <2>1 DEF RuleRec
  <1>13. link' \in SUBSET Guests /\ link \subseteq link' /\ hup' = hup /\ r.pc \notin {"idle", "done"} /\ r.pc # "add"
         /\ rules' \in Seq(RuleRec) /\ \A i \in 1 .. Len(rules') : Tame(rules'[i])
    BY <1>6, <1>7 DEF NetInv, NetTypes
  <1> QED BY <1>1, <1>6, <1>7, <1>8, <1>9, <1>10, <1>11, <1>12, <1>13, JobGoesOn

LEMMA DeleteSharedKeeps == ASSUME NetNames, NetInv, NEW j \in Reqs, N!DeleteShared(j) PROVE NetInv'
  <1> DEFINE here == {i \in DOMAIN rules : rules[i] \in njob[j].doomed}
             first == {rules[i] : i \in {i \in here : \A k \in here : i <= k}}
             r == IF here = {} THEN [njob[j] EXCEPT !.doomed = {}, !.pc = "addshared"]
                  ELSE [njob[j] EXCEPT !.doomed = njob[j].doomed \ first]
  <1>1. njob[j] \in JobRec /\ njob[j].pc = "delete" /\ N!Busy(j) /\ JobOK(j)
    BY DEF N!DeleteShared, N!Busy, NetInv, NetTypes
  <1>2. Shaped(njob[j]) /\ njob[j].m \in Guests
    BY <1>1 DEF JobOK
  <1>3. rules' = N!Without(first) /\ N!Set(j, r) /\ UNCHANGED <<link, hup>>
    BY DEF N!DeleteShared
  <1>4. first \subseteq njob[j].doomed
    OBVIOUS
  <1> HIDE DEF first
  <1>5. r \in JobRec /\ r.m = njob[j].m /\ r.down = njob[j].down /\ r.mode = njob[j].mode /\ r.doomed \subseteq njob[j].doomed
        /\ r.left = njob[j].left /\ r.pc \in {"delete", "addshared"}
    BY <1>1, Zenon DEF JobRec
  <1> HIDE DEF r
  <1>6. Shaped(r)
    BY <1>1, <1>2, <1>5 DEF Shaped
  <1>7. MgmtOK'
    BY <1>3, <1>5 DEF MgmtOK, N!SharedQuiet, N!Set, NetInv, NetTypes
  <1>8. Passed(r.pc) = {}
    BY <1>5 DEF Passed
  <1>9. \A x \in first : x.tag = "global"
    BY <1>2, <1>4 DEF Shaped
  <1>10. \A m \in Guests : Spares(rules, rules', m)
    <2>1. \A m \in Guests : \A x \in first : x.tag # m
      BY <1>9, Untagged
    <2> QED BY <2>1, <1>3, RulesGo
  <1>11. rules' \in Seq(RuleRec) /\ \A i \in 1 .. Len(rules') : Tame(rules'[i]) /\ rules'[i].tag \in Guests \cup {"global"}
    BY <1>3, RulesGo
  <1>12. link' \in SUBSET Guests /\ link \subseteq link' /\ hup' = hup /\ r.pc \notin {"idle", "done"} /\ r.pc # "add"
    BY <1>3, <1>5 DEF NetInv, NetTypes
  <1> QED BY <1>1, <1>3, <1>5, <1>6, <1>7, <1>8, <1>10, <1>11, <1>12, JobGoesOn

LEMMA AddSharedKeeps == ASSUME NetNames, NetInv, NEW j \in Reqs, N!AddShared(j) PROVE NetInv'
  <1> DEFINE w == N!Rule(j, "global", "input", Head(njob[j].left))
             r == [njob[j] EXCEPT !.left = Tail(njob[j].left), !.pc = IF Len(njob[j].left) = 1 THEN "input" ELSE njob[j].pc]
  <1>1. njob[j] \in JobRec /\ njob[j].pc = "addshared" /\ N!Busy(j) /\ JobOK(j)
    BY DEF N!AddShared, N!Busy, NetInv, NetTypes
  <1>2. Shaped(njob[j]) /\ njob[j].m \in Guests
    BY <1>1 DEF JobOK
  <1>3. rules' = Append(rules, w) /\ N!Set(j, r) /\ UNCHANGED <<link, hup>>
    BY DEF N!AddShared
  <1>4. \/ Head(njob[j].left) = "est" /\ Tail(njob[j].left) = <<"agent">> /\ Len(njob[j].left) = 2
        \/ Head(njob[j].left) = "agent" /\ Tail(njob[j].left) = <<>> /\ Len(njob[j].left) = 1
    <2>1. CASE njob[j].left = <<"est", "agent">>
      <3>1. Head(<<"est", "agent">>) = "est" /\ Len(<<"est", "agent">>) = 2
        OBVIOUS
      <3>2. Tail(<<"est", "agent">>) = <<"agent">>
        OBVIOUS
      <3> QED BY <3>1, <3>2, <2>1
    <2>2. CASE njob[j].left = <<"agent">>
      <3>1. Head(<<"agent">>) = "agent" /\ Len(<<"agent">>) = 1
        OBVIOUS
      <3>2. Tail(<<"agent">>) = <<>>
        OBVIOUS
      <3> QED BY <3>1, <3>2, <2>2
    <2> QED BY <1>1, <1>2, <2>1, <2>2 DEF Shaped, N!mgmtInputRules
  <1>5. w \in RuleRec /\ w.tag = "global" /\ Tame(w) /\ w.chain = "input" /\ w.what = Head(njob[j].left)
    BY <1>4 DEF N!Rule, RuleRec, Words, N!Chains, Tame
  <1>6. r \in JobRec /\ r.m = njob[j].m /\ r.down = njob[j].down /\ r.mode = njob[j].mode /\ r.doomed = njob[j].doomed
        /\ \/ r.pc = "addshared" /\ r.left = <<"agent">>
           \/ r.pc = "input" /\ w.what = "agent"
    <2>1. CASE Head(njob[j].left) = "est" /\ Tail(njob[j].left) = <<"agent">> /\ Len(njob[j].left) = 2
      <3>0. (IF Len(njob[j].left) = 1 THEN "input" ELSE njob[j].pc) = "addshared"
        BY <2>1, <1>1
      <3>1. r = [njob[j] EXCEPT !.left = <<"agent">>, !.pc = "addshared"]
        BY <2>1, <3>0, Zenon
      <3> HIDE DEF r
      <3> QED BY <3>1, <1>1, InLefts, Zenon DEF JobRec
    <2>2. CASE Head(njob[j].left) = "agent" /\ Tail(njob[j].left) = <<>> /\ Len(njob[j].left) = 1
      <3>1. r = [njob[j] EXCEPT !.left = <<>>, !.pc = "input"]
        BY <2>2, <1>1, Zenon DEF JobRec
      <3> HIDE DEF r
      <3> QED BY <3>1, <2>2, <1>1, <1>5, InLefts, Zenon DEF JobRec
    <2> QED BY <1>4, <2>1, <2>2
  <1>7. Shaped(r)
    BY <1>1, <1>2, <1>6 DEF Shaped
  <1> HIDE DEF r, w
  <1>8. rules' = rules \o <<w>> /\ <<w>> \in Seq(RuleRec) /\ Len(<<w>>) = 1 /\ <<w>>[1] = w
    BY <1>3, <1>5 DEF NetInv, NetTypes
  <1> DEFINE us == <<w>>
  <1>9. us \in Seq(RuleRec) /\ rules' = rules \o us /\ Len(us) = 1 /\ 1 \in 1 .. Len(us) /\ us[1] = w /\ \A i \in 1 .. Len(us) : us[i] = w
    BY <1>8
  <1> HIDE DEF us
  <1>10. \A i \in 1 .. Len(us) : Tame(us[i])
    BY <1>5, <1>9
  <1>11. MgmtOK'
    <2>1. CASE r.pc = "addshared"
      BY <2>1, <1>3 DEF MgmtOK, N!SharedQuiet, N!Set, NetInv, NetTypes
    <2>2. CASE w.what = "agent"
      <3>1. PICK i \in 1 .. Len(rules') : rules'[i] = us[1]
        BY <1>9, <1>10, RulesCome, ZenonT(40)
      <3> QED BY <3>1, <2>2, <1>5, <1>9 DEF MgmtOK, Agent
    <2> QED BY <2>1, <2>2, <1>6
  <1>12. Passed(r.pc) = {}
    BY <1>6 DEF Passed
  <1>13. \A m \in Guests : Spares(rules, rules', m)
    <2>1. \A m \in Guests : \A i \in 1 .. Len(us) : us[i].tag # m
      BY <1>5, <1>9, Untagged
    <2> QED BY <2>1, <1>9, <1>10, RulesCome, Zenon
  <1>14. rules' \in Seq(RuleRec) /\ \A i \in 1 .. Len(rules') : Tame(rules'[i]) /\ rules'[i].tag \in Guests \cup {"global"}
    BY <1>9, <1>10, RulesCome
  <1>15. link' \in SUBSET Guests /\ link \subseteq link' /\ hup' = hup /\ r.pc \notin {"idle", "done"} /\ r.pc # "add"
    BY <1>3, <1>6 DEF NetInv, NetTypes
  <1> QED BY <1>1, <1>3, <1>6, <1>7, <1>11, <1>12, <1>13, <1>14, <1>15, JobGoesOn

LEMMA LinkKeeps == ASSUME NetNames, NetInv, NEW j \in Reqs, N!Link(j) PROVE NetInv'
  <1> DEFINE m == njob[j].m
  <1>1. njob[j] \in JobRec /\ njob[j].pc = "link" /\ N!Busy(j) /\ JobOK(j)
    BY DEF N!Link, N!Busy, NetInv, NetTypes
  <1>2. Shaped(njob[j]) /\ m \in Guests /\ hup[m] = "none" /\ \A k \in Reqs : N!Busy(k) /\ njob[k].m = m => k = j
    BY <1>1 DEF JobOK
  <1>3. UNCHANGED <<rules, hup>> /\ rules \in Seq(RuleRec) /\ link \subseteq Guests
    BY DEF N!Link, NetInv, NetTypes
  <1>4. \A i \in 1 .. Len(rules) : rules[i] \in RuleRec
    BY <1>3
  <1>5. \A i \in 1 .. Len(rules) : rules[i].tag # m
    BY <1>1, <1>4 DEF JobOK, Passed, RuleRec
  <1>6. N!SharedQuiet => Agent(rules)
    BY <1>1 DEF NetInv, MgmtOK
  <1>7. CASE ~njob[j].down
    <2>0. PICK ips \in N!resolveDomainIPs(njob[j].mode) :
              N!Set(j, [njob[j] EXCEPT !.pc = "add", !.ips = ips, !.left = N!networkPolicyRules(njob[j].mode, ips)])
      BY <1>7 DEF N!Link
    <2>a. ips \in Resolved
      BY DEF N!resolveDomainIPs, Resolved
    <2> DEFINE r == [njob[j] EXCEPT !.pc = "add", !.ips = ips, !.left = N!networkPolicyRules(njob[j].mode, ips)]
    <2>1. link' = link \cup {m} /\ N!Set(j, r)
      BY <1>7, <2>0 DEF N!Link
    <2>2. r \in JobRec /\ r.m = m /\ r.down = FALSE /\ r.mode = njob[j].mode /\ r.mode \in Modes4 /\ r.doomed = njob[j].doomed /\ r.pc = "add"
          /\ r.left = N!networkPolicyRules(r.mode, r.ips)
      BY <1>1, <1>2, <1>7, <2>a, InLefts, Zenon DEF JobRec, Shaped
    <2> HIDE DEF r
    <2>3. Shaped(r)
      BY <1>2, <2>2 DEF Shaped
    <2>4. MgmtOK'
      <3>1. N!SharedQuiet' => N!SharedQuiet
        BY <1>1, <2>1, <2>2 DEF N!SharedQuiet, N!Set, NetInv, NetTypes
      <3> QED BY <3>1, <1>3, <1>6 DEF MgmtOK
    <2>5. \A q \in Guests : Spares(rules, rules', q)
      BY <1>3 DEF Spares
    <2>6. link' \in SUBSET Guests /\ link \subseteq link' /\ r.m \in link' /\ hup' = hup /\ r.pc \notin {"idle", "done"}
          /\ rules' \in Seq(RuleRec) /\ \A i \in 1 .. Len(rules') : Tame(rules'[i])
      BY <1>2, <1>3, <2>1, <2>2 DEF NetInv
    <2>7. \A i \in 1 .. Len(rules') : rules'[i].tag \in Guests \cup {"global"}
      BY <1>3, <1>4 DEF RuleRec
    <2>8. \A i \in 1 .. Len(rules') : rules'[i].tag = r.m => rules'[i].chain \notin Passed(r.pc)
      BY <1>3, <1>5, <2>2
    <2> QED BY <1>1, <2>1, <2>2, <2>3, <2>4, <2>5, <2>6, <2>7, <2>8, JobGoesOn
  <1>8. CASE njob[j].down
    <2> DEFINE r == [N!Idle EXCEPT !.pc = "done"]
    <2>1. link' = link \ {m} /\ N!Set(j, r)
      BY <1>8 DEF N!Link
    <2>2. r \in JobRec /\ r.pc = "done" /\ r.m = "none"
      BY NoneResolved, InLefts, Zenon DEF JobRec, N!Idle
    <2> HIDE DEF r
    <2>3. njob' \in [Reqs -> JobRec] /\ njob'[j] = r /\ \A k \in Reqs : k # j => njob'[k] = njob[k]
      BY <2>1, <2>2 DEF N!Set, NetInv, NetTypes
    <2>4. NetTypes'
      BY <1>3, <2>1, <2>3 DEF NetInv, NetTypes
    <2>5. \A k \in Reqs : N!Busy(k)' <=> N!Busy(k) /\ k # j
      BY <2>2, <2>3 DEF N!Busy
    <2>6. ASSUME NEW k \in Reqs PROVE JobOK(k)'
      <3> SUFFICES ASSUME N!Busy(k)' PROVE JobOK(k)'
        BY DEF JobOK
      <3>1. k # j /\ N!Busy(k) /\ JobOK(k) /\ njob'[k] = njob[k] /\ njob[k].m # m
        BY <2>3, <2>5, <1>2 DEF NetInv
      <3>2. \A q \in Reqs : N!Busy(q)' /\ njob'[q].m = njob'[k].m => q = k
        BY <3>1, <2>3, <2>5 DEF JobOK
      <3> QED BY <3>1, <3>2, <1>3, <2>1 DEF JobOK
    <2>7. Belong'
      <3>1. \A i \in 1 .. Len(rules) : LET q == rules[i].tag IN q = "global" \/ q \in link \/ \E k \in Reqs : N!Busy(k) /\ njob[k].m = q
        BY DEF NetInv, Belong
      <3> SUFFICES ASSUME NEW i \in 1 .. Len(rules), NEW q, q = rules[i].tag
                   PROVE  q = "global" \/ q \in link' \/ \E k \in Reqs : N!Busy(k)' /\ njob'[k].m = q
        BY <1>3 DEF Belong
      <3>2. q # m
        BY <1>5
      <3>3. q = "global" \/ q \in link \/ \E k \in Reqs : N!Busy(k) /\ njob[k].m = q
        BY <3>1
      <3>4. \A k \in Reqs : N!Busy(k) /\ njob[k].m = q => N!Busy(k)' /\ njob'[k].m = q
        BY <3>2, <2>3, <2>5
      <3> QED BY <3>2, <3>3, <3>4, <2>1
    <2>8. ASSUME NEW q \in Guests PROVE UpOK(q)'
      <3> SUFFICES ASSUME hup[q] # "none" PROVE UpOK(q)'
        BY <1>3 DEF UpOK
      <3>1. UpOK(q) /\ hup[q] \in Reqs /\ hup[q] # j /\ q # m
        BY <1>1, <1>2 DEF NetInv, UpOK
      <3>2. njob'[hup[q]] = njob[hup[q]] /\ hup' = hup /\ rules' = rules /\ (q \in link => q \in link')
        BY <3>1, <2>1, <2>3, <1>3
      <3> QED BY <3>1, <3>2 DEF UpOK
    <2>9. MgmtOK'
      <3>1. N!SharedQuiet' => N!SharedQuiet
        BY <1>1, <2>3 DEF N!SharedQuiet
      <3> QED BY <3>1, <1>3, <1>6 DEF MgmtOK
    <2>10. \A i \in 1 .. Len(rules') : Tame(rules'[i])
      BY <1>3 DEF NetInv
    <2> QED BY <2>4, <2>6, <2>7, <2>8, <2>9, <2>10 DEF NetInv
  <1> QED BY <1>7, <1>8

\* The rules of a policy leave the shared ones to the others.
LEMMA LinesTame == ASSUME NEW mode \in Modes4, NEW r, r.tag # "global", <<r.chain, r.what>> \in Lines(mode) PROVE Tame(r)
  <1>1. \A c, w : <<c, w>> \in Lines(mode) => w # "agent" /\ (c = "input" => w \in {"est", "drop"})
    BY DEF Lines, Modes4
  <1> QED BY <1>1 DEF Tame

LEMMA AddKeeps == ASSUME NetNames, NetInv, NEW j \in Reqs, N!Add(j) PROVE NetInv'
  <1> DEFINE m == njob[j].m
             mode == EffOf(njob[j])
             t == njob[j].left
             us == Added(j, m, t, Len(t))
             r == [njob[j] EXCEPT !.pc = "done", !.left = <<>>]
  <1>1. njob[j] \in JobRec /\ njob[j].pc = "add" /\ N!Busy(j) /\ JobOK(j)
    BY DEF N!Add, N!Busy, NetInv, NetTypes
  <1>2. Shaped(njob[j]) /\ m \in Guests /\ hup[m] = "none" /\ m \in link /\ \A k \in Reqs : N!Busy(k) /\ njob[k].m = m => k = j
    BY <1>1 DEF JobOK
  <1>3. mode \in Modes4 /\ RulesInOrder(t, mode) /\ t \in Seq(Line) /\ Len(t) \in Nat /\ Len(t) \in 0 .. Len(t)
    <2>1. /\ mode \in Modes4 /\ njob[j].mode \in Modes4 /\ njob[j].ips \in SUBSET {"site"}
          /\ t = N!networkPolicyRules(njob[j].mode, njob[j].ips)
      BY <1>1, <1>2, EffIn DEF Shaped, JobRec, Resolved
    <2>2. RulesInOrder(t, mode)
      BY <2>1, PolicyInOrder DEF EffOf
    <2>3. t \in Seq(Line)
      BY <2>2 DEF RulesInOrder
    <2> QED BY <2>1, <2>2, <2>3
  <1>4. rules' = rules \o us /\ N!Set(j, r) /\ hup' = [hup EXCEPT ![m] = j] /\ link' = link
    <2>1. DOMAIN t = 1 .. Len(t)
      BY <1>3
    <2> QED BY <2>1 DEF N!Add, Added
  <1>5. us \in Seq(RuleRec) /\ Len(us) = Len(t) /\ \A i \in 1 .. Len(t) : us[i].tag = m /\ <<us[i].chain, us[i].what>> = t[i]
    <2> DEFINE n == Len(t)
    <2>1. m \in Guests /\ mode \in Modes4 /\ RulesInOrder(t, mode) /\ n \in 0 .. Len(t) /\ us = Added(j, m, t, n)
      BY <1>2, <1>3
    <2> HIDE DEF m, mode, t, n, us
    <2>2. us \in Seq(RuleRec) /\ Len(us) = n /\ \A i \in 1 .. n : us[i].tag = m /\ <<us[i].chain, us[i].what>> = t[i]
      BY <2>1, AddedAre
    <2> QED BY <2>2 DEF n
  <1>6. r \in JobRec /\ r.pc = "done" /\ r.m = m /\ r.mode \in Modes4 /\ EffOf(r) = mode
    <2>1. r \in JobRec /\ r.pc = "done" /\ r.m = m /\ r.mode = njob[j].mode /\ r.ips = njob[j].ips
      BY <1>1, InLefts, Zenon DEF JobRec
    <2> HIDE DEF r
    <2> QED BY <2>1, <1>1, <1>2 DEF EffOf, Shaped
  <1>7. njob' \in [Reqs -> JobRec] /\ njob'[j] = r /\ \A k \in Reqs : k # j => njob'[k] = njob[k]
    BY <1>4, <1>6 DEF N!Set, NetInv, NetTypes
  <1>8. hup' \in [Guests -> Reqs \cup {"none"}] /\ hup'[m] = j /\ \A q \in Guests : q # m => hup'[q] = hup[q]
    BY <1>2, <1>4 DEF NetInv, NetTypes
  <1> HIDE DEF us, r
  <1>9. \A i \in 1 .. Len(us) : Tame(us[i]) /\ us[i].tag = m
    <2> SUFFICES ASSUME NEW i \in 1 .. Len(us) PROVE Tame(us[i]) /\ us[i].tag = m
      OBVIOUS
    <2>1. us[i].tag = m /\ us[i].tag # "global" /\ <<us[i].chain, us[i].what>> \in Lines(mode)
      <3>1. i \in 1 .. Len(t) /\ m # "global"
        BY <1>2, <1>5, Untagged
      <3>2. t[i] \in Lines(mode)
        BY <3>1, <1>3 DEF RulesInOrder
      <3> QED BY <3>1, <3>2, <1>5, Zenon
    <2> QED BY <2>1, <1>3, LinesTame
  <1>10. rules' \in Seq(RuleRec) /\ \A i \in 1 .. Len(rules') : Tame(rules'[i])
    BY <1>4, <1>5, <1>9, RulesCome
  <1>11. \A i \in 1 .. Len(rules') : (\E n \in 1 .. Len(rules) : rules[n] = rules'[i]) \/ rules'[i].tag = m
    <2>1. \A i \in 1 .. Len(rules') : (\E n \in 1 .. Len(rules) : rules[n] = rules'[i]) \/ \E n \in 1 .. Len(us) : us[n] = rules'[i]
      BY <1>4, <1>5, <1>9, RulesCome
    <2> QED BY <2>1, <1>9
  <1>12. \A q \in Guests : q # m => Spares(rules, rules', q)
    <2>1. \A q \in Guests : q # m => \A i \in 1 .. Len(us) : us[i].tag # q
      BY <1>9
    <2>2. \A q \in Guests : (\A i \in 1 .. Len(us) : us[i].tag # q) => Spares(rules, rules', q)
      BY <1>4, <1>5, <1>9, RulesCome, Zenon
    <2> QED BY <2>1, <2>2
  <1>13. NetTypes'
    BY <1>4, <1>7, <1>8, <1>10 DEF NetInv, NetTypes
  <1>14. \A k \in Reqs : N!Busy(k)' <=> N!Busy(k) /\ k # j
    BY <1>6, <1>7 DEF N!Busy
  <1>15. ASSUME NEW k \in Reqs PROVE JobOK(k)'
    <2> SUFFICES ASSUME N!Busy(k)' PROVE JobOK(k)'
      BY DEF JobOK
    <2>1. k # j /\ N!Busy(k) /\ JobOK(k) /\ njob'[k] = njob[k] /\ njob[k].m # m /\ njob[k].m \in Guests
      BY <1>2, <1>7, <1>14 DEF NetInv, JobOK
    <2>2. \A q \in Reqs : N!Busy(q)' /\ njob'[q].m = njob'[k].m => q = k
      BY <2>1, <1>7, <1>14 DEF JobOK
    <2>3. ASSUME NEW i \in 1 .. Len(rules'), rules'[i].tag = njob[k].m PROVE rules'[i].chain \notin Passed(njob[k].pc)
      <3>1. PICK n \in 1 .. Len(rules) : rules[n] = rules'[i]
        BY <2>1, <2>3, <1>11
      <3> QED BY <3>1, <2>1, <2>3 DEF JobOK
    <2> QED BY <2>1, <2>2, <2>3, <1>4, <1>8 DEF JobOK
  <1>16. Belong'
    <2> SUFFICES ASSUME NEW i \in 1 .. Len(rules'), NEW q, q = rules'[i].tag
                 PROVE  q = "global" \/ q \in link' \/ \E k \in Reqs : N!Busy(k)' /\ njob'[k].m = q
      BY DEF Belong
    <2>1. CASE q = m
      BY <2>1, <1>2, <1>4
    <2>2. CASE q # m
      <3>1. PICK n \in 1 .. Len(rules) : rules[n] = rules'[i]
        BY <2>2, <1>11
      <3>2. q = "global" \/ q \in link \/ \E k \in Reqs : N!Busy(k) /\ njob[k].m = q
        BY <3>1 DEF NetInv, Belong
      <3>3. \A k \in Reqs : N!Busy(k) /\ njob[k].m = q => N!Busy(k)' /\ njob'[k].m = q
        BY <2>2, <1>7, <1>14
      <3> QED BY <3>2, <3>3, <1>4
    <2> QED BY <2>1, <2>2
  <1>17. ASSUME NEW q \in Guests PROVE UpOK(q)'
    <2>1. CASE q = m
      <3>1. \A i \in 1 .. Len(rules) : rules[i].tag # m
        <4>1. \A i \in 1 .. Len(rules) : rules[i] \in RuleRec
          BY DEF NetInv, NetTypes
        <4> QED BY <4>1, <1>1 DEF JobOK, Passed, RuleRec
      <3>2. Enforced(rules', m, mode)
        BY <3>1, <1>2, <1>3, <1>4, AddedEnforce DEF NetInv, NetTypes, us
      <3> QED BY <3>2, <2>1, <1>2, <1>3, <1>4, <1>6, <1>7, <1>8 DEF UpOK
    <2>2. CASE q # m
      <3> SUFFICES ASSUME hup[q] # "none" PROVE UpOK(q)'
        BY <2>2, <1>8 DEF UpOK
      <3>1. UpOK(q) /\ hup[q] \in Reqs /\ hup[q] # j
        BY <1>1 DEF NetInv, UpOK
      <3>2. njob'[hup[q]] = njob[hup[q]] /\ hup'[q] = hup[q]
        BY <3>1, <2>2, <1>7, <1>8
      <3>3. Enforced(rules', q, EffOf(njob[hup[q]]))
        BY <3>1, <2>2, <1>12, EffIn DEF UpOK, Spares
      <3> QED BY <3>1, <3>2, <3>3, <1>4, SMTT(30) DEF UpOK
    <2> QED BY <2>1, <2>2
  <1>18. MgmtOK'
    <2>1. N!SharedQuiet' => N!SharedQuiet
      BY <1>1, <1>7 DEF N!SharedQuiet
    <2>2. N!SharedQuiet => Agent(rules)
      BY <1>1 DEF NetInv, MgmtOK
    <2>3. Agent(rules) => Agent(rules')
      BY <1>4, <1>5, <1>9, RulesCome
    <2> QED BY <2>1, <2>2, <2>3 DEF MgmtOK
  <1> QED BY <1>10, <1>13, <1>15, <1>16, <1>17, <1>18 DEF NetInv

LEMMA FailsKeeps == ASSUME NetNames, NetCalm, NetInv, NEW j \in Reqs, N!Fails(j) PROVE NetInv'
  <1> DEFINE m == njob[j].m
             r == [N!Idle EXCEPT !.pc = "input", !.m = m, !.down = TRUE]
  <1>1. njob[j] \in JobRec /\ njob[j].pc \in {"link", "add"} /\ N!Busy(j) /\ JobOK(j)
    BY DEF N!Fails, N!Busy, NetInv, NetTypes, NetCalm
  <1>2. Shaped(njob[j]) /\ m \in Guests
    BY <1>1, SMTT(30) DEF JobOK
  <1>3. N!Set(j, r) /\ UNCHANGED <<link, hup>>
    BY DEF N!Fails
  <1>4. r \in JobRec /\ r.m = m /\ r.pc = "input" /\ r.down = TRUE /\ r.doomed = {}
    BY <1>2, NoneResolved, InLefts, Zenon DEF JobRec, N!Idle
  <1> HIDE DEF r
  <1>5. Shaped(r) /\ Passed(r.pc) = {}
    BY <1>4 DEF Shaped, Passed
  <1>6. /\ rules' \in Seq(RuleRec) /\ \A i \in 1 .. Len(rules') : Tame(rules'[i]) /\ rules'[i].tag \in Guests \cup {"global"}
        /\ \A q \in Guests : q # m => Spares(rules, rules', q)
        /\ Agent(rules) => Agent(rules')
    <2>1. CASE UNCHANGED rules
      <3>1. rules' \in Seq(RuleRec) /\ \A i \in 1 .. Len(rules') : Tame(rules'[i]) /\ rules'[i] \in RuleRec
        BY <2>1 DEF NetInv, NetTypes
      <3>2. \A q \in Guests : Spares(rules, rules', q)
        BY <2>1 DEF Spares
      <3> QED BY <3>1, <3>2, <2>1 DEF RuleRec
    <2>2. CASE njob[j].pc = "add"
      <3> DEFINE t == njob[j].left
                 mode == EffOf(njob[j])
      <3>1. mode \in Modes4 /\ RulesInOrder(t, mode) /\ t \in Seq(Line) /\ Len(t) \in Nat
        <4>1. /\ mode \in Modes4 /\ njob[j].mode \in Modes4 /\ njob[j].ips \in SUBSET {"site"}
              /\ t = N!networkPolicyRules(njob[j].mode, njob[j].ips)
          BY <2>2, <1>1, <1>2, EffIn DEF Shaped, JobRec, Resolved
        <4>2. RulesInOrder(t, mode)
          BY <4>1, PolicyInOrder DEF EffOf
        <4>3. t \in Seq(Line)
          BY <4>2 DEF RulesInOrder
        <4> QED BY <4>1, <4>2, <4>3
      <3>2. PICK k \in DOMAIN t : rules' = rules \o [i \in 1 .. k - 1 |-> N!Rule(j, m, t[i][1], t[i][2])]
        BY <2>2, Zenon DEF N!Fails
      <3> DEFINE n == k - 1
                 us == Added(j, m, t, n)
      <3>3. n \in 0 .. Len(t) /\ \A i \in 1 .. n : i \in 1 .. Len(t)
        BY <3>1, <3>2
      <3>4. us \in Seq(RuleRec) /\ Len(us) = n /\ \A i \in 1 .. n : us[i].tag = m /\ <<us[i].chain, us[i].what>> = t[i]
        <4>1. RulesInOrder(t, mode) /\ n \in 0 .. Len(t) /\ m \in Guests
          BY <1>2, <3>1, <3>3
        <4> HIDE DEF t, mode, n
        <4> QED BY <4>1, AddedAre
      <3>5. rules' = rules \o us
        BY <3>2 DEF Added
      <3> HIDE DEF us, n
      <3>6. \A i \in 1 .. Len(us) : Tame(us[i]) /\ us[i].tag = m
        <4> SUFFICES ASSUME NEW i \in 1 .. Len(us) PROVE Tame(us[i]) /\ us[i].tag = m
          OBVIOUS
        <4>1. i \in 1 .. n /\ m # "global"
          BY <1>2, <3>4, Untagged
        <4>2. t[i] \in Lines(mode)
          BY <4>1, <3>1, <3>3 DEF RulesInOrder
        <4>3. us[i].tag = m /\ us[i].tag # "global" /\ <<us[i].chain, us[i].what>> \in Lines(mode)
          BY <4>1, <4>2, <3>4
        <4> QED BY <4>3, <3>1, LinesTame
      <3>7. \A q \in Guests : q # m => \A i \in 1 .. Len(us) : us[i].tag # q
        BY <3>6
      <3>8. /\ rules' \in Seq(RuleRec) /\ \A i \in 1 .. Len(rules') : Tame(rules'[i]) /\ rules'[i].tag \in Guests \cup {"global"}
            /\ \A q \in Guests : (\A i \in 1 .. Len(us) : us[i].tag # q) => Spares(rules, rules', q)
            /\ Agent(rules) => Agent(rules')
        BY <3>4, <3>5, <3>6, RulesCome, Zenon
      <3> QED BY <3>7, <3>8
    <2>3. CASE njob[j].pc = "link"
      BY <2>1, <2>3 DEF N!Fails
    <2> QED BY <1>1, <2>2, <2>3
  <1>7. MgmtOK'
    <2>1. N!SharedQuiet' => N!SharedQuiet
      BY <1>1, <1>3, <1>4 DEF N!SharedQuiet, N!Set, NetInv, NetTypes
    <2>2. N!SharedQuiet => Agent(rules)
      BY <1>1 DEF NetInv, MgmtOK
    <2> QED BY <2>1, <2>2, <1>6 DEF MgmtOK
  <1>8. link' \in SUBSET Guests /\ link \subseteq link' /\ hup' = hup /\ r.pc \notin {"idle", "done"} /\ r.pc # "add"
    BY <1>3, <1>4 DEF NetInv, NetTypes
  <1> QED BY <1>1, <1>3, <1>4, <1>5, <1>6, <1>7, <1>8, JobGoesOn

LEMMA NetNext == ASSUME NetNames, NetCalm, NetInv, [N!Next]_nvars PROVE NetInv'
  <1>1. CASE UNCHANGED nvars
    <2>1. UNCHANGED <<rules, link, njob, hup>>
      BY <1>1 DEF nvars
    <2> QED BY <2>1 DEF NetInv, NetTypes, JobOK, N!Busy, Belong, UpOK, MgmtOK, N!SharedQuiet
  <1>2. ASSUME NEW j \in Reqs, N!ListShared(j) \/ N!DeleteShared(j) \/ N!AddShared(j) \/ N!DeleteTap(j) \/ N!Link(j) \/ N!Add(j) \/ N!Fails(j)
        PROVE  NetInv'
    BY <1>2, ListSharedKeeps, DeleteSharedKeeps, AddSharedKeeps, DeleteTapKeeps, LinkKeeps, AddKeeps, FailsKeeps
  <1>3. ASSUME NEW j \in Reqs, NEW m \in Guests, (\E mode \in Modes[m] : N!Boot(j, m, mode)) \/ N!Destroy(j, m) PROVE NetInv'
    BY <1>3, BootKeeps, DestroyKeeps
  <1>4. ASSUME NEW m \in Guests, N!Stop(m) PROVE NetInv'
    BY <1>4, NetStopKeeps
  <1> QED BY <1>1, <1>2, <1>3, <1>4 DEF N!Next

\* Without an accepting rule in front, a packet is dropped.
LEMMA Dropped ==
    ASSUME rules \in Seq(RuleRec), NEW chain, NEW p,
           \A i \in 1 .. Len(rules) : rules[i].chain = chain /\ N!Matches(rules[i], p) /\ rules[i].what \in {"est", "agent", "back", "site", "out"} =>
                \E k \in 1 .. i - 1 : rules[k].chain = chain /\ N!Matches(rules[k], p) /\ rules[k].what \notin {"est", "agent", "back", "site", "out"}
    PROVE  ~N!Accepted(chain, p)
  <1> DEFINE hits == {i \in DOMAIN rules : rules[i].chain = chain /\ N!Matches(rules[i], p)}
             upto == CHOOSE i \in hits : \A k \in hits : i <= k
  <1> SUFFICES ASSUME hits # {}, rules[upto].what \in {"est", "agent", "back", "site", "out"} PROVE FALSE
    BY DEF N!Accepted
  <1>1. DOMAIN rules = 1 .. Len(rules) /\ Len(rules) \in Nat
    OBVIOUS
  <1>2. upto \in hits /\ \A k \in hits : upto <= k
    <2>1. hits \in SUBSET Nat
      BY <1>1
    <2> HIDE DEF hits
    <2>2. \E i \in hits : \A k \in hits : i <= k
      BY <2>1, Least, Zenon
    <2> QED BY <2>2
  <1> HIDE DEF upto
  <1>3. upto \in 1 .. Len(rules) /\ rules[upto].chain = chain /\ N!Matches(rules[upto], p)
    BY <1>1, <1>2
  <1>4. PICK k \in 1 .. upto - 1 : rules[k].chain = chain /\ N!Matches(rules[k], p)
    BY <1>3
  <1>5. k \in hits /\ ~(upto <= k)
    BY <1>1, <1>3, <1>4
  <1> QED BY <1>2, <1>5

\* A packet that a rule matches is accepted if all that match accept.
LEMMA LetThrough ==
    ASSUME rules \in Seq(RuleRec), NEW chain, NEW p,
           \E i \in 1 .. Len(rules) : rules[i].chain = chain /\ N!Matches(rules[i], p),
           \A i \in 1 .. Len(rules) : rules[i].chain = chain /\ N!Matches(rules[i], p) => rules[i].what \in {"est", "agent", "back", "site", "out"}
    PROVE  N!Accepted(chain, p)
  <1> DEFINE hits == {i \in DOMAIN rules : rules[i].chain = chain /\ N!Matches(rules[i], p)}
             upto == CHOOSE i \in hits : \A k \in hits : i <= k
  <1>1. DOMAIN rules = 1 .. Len(rules) /\ Len(rules) \in Nat
    OBVIOUS
  <1>2. hits # {}
    BY <1>1
  <1>3. upto \in hits
    <2>1. hits \in SUBSET Nat
      BY <1>1
    <2> HIDE DEF hits
    <2>2. \E i \in hits : \A k \in hits : i <= k
      BY <1>2, <2>1, Least, Zenon
    <2> QED BY <2>2
  <1> HIDE DEF upto
  <1>4. rules[upto].what \in {"est", "agent", "back", "site", "out"}
    BY <1>1, <1>3
  <1> QED BY <1>2, <1>4 DEF N!Accepted, upto

Accepts == {"est", "agent", "back", "site", "out"}

\* What is in a running machine's policy, and where.
RunsBehind(m, mode) ==
    /\ rules \in Seq(RuleRec) /\ mode \in Modes4 /\ m \in Guests
    /\ Enforced(rules, m, mode)
    /\ \A i \in 1 .. Len(rules) : rules[i] \in RuleRec /\ Tame(rules[i])

LEMMA Behind == ASSUME NetInv, NEW m \in Guests, hup[m] # "none" PROVE RunsBehind(m, EffOf(njob[hup[m]]))
  <1>1. UpOK(m) /\ rules \in Seq(RuleRec)
    BY DEF NetInv, NetTypes
  <1> QED BY <1>1, EffIn DEF NetInv, UpOK, RunsBehind

\* A rule of the chains that packets are routed by, and what it matches.
LEMMA Routed ==
    ASSUME NetNames, NEW m \in Guests, NEW mode, RunsBehind(m, mode), NEW i \in 1 .. Len(rules), rules[i].chain \in {"forward", "filter"},
           NEW to, N!Matches(rules[i], N!New(m, to))
    PROVE  /\ rules[i].tag = m /\ <<rules[i].chain, rules[i].what>> \in Lines(mode)
           /\ rules[i].what \in {"private", "site", "nosite", "out"}
           /\ rules[i].what = "private" => to = "private"
           /\ rules[i].what \in {"site", "nosite"} => to = "site"
  <1>1. rules[i].tag # "global" /\ rules[i].what # "agent" /\ rules[i] \in RuleRec
    BY DEF RunsBehind, Tame
  <1>2. rules[i].what \in Words
    BY <1>1 DEF RuleRec
  <1>3. rules[i].what \notin {"est", "back"} /\ rules[i].tag = m
    BY <1>1, <1>2 DEF N!Matches, N!New, Words
  <1>4. <<rules[i].chain, rules[i].what>> \in Lines(mode)
    BY <1>3 DEF RunsBehind, Enforced
  <1>5. \A c, w : <<c, w>> \in Lines(mode) /\ c \in {"forward", "filter"} => w \in {"est", "back", "private", "site", "nosite", "out"}
    BY DEF Lines, RunsBehind, Modes4
  <1>6. rules[i].what = "private" => to = "private"
    BY DEF N!Matches, N!New
  <1>7. rules[i].what \in {"site", "nosite"} => to = "site"
    BY DEF N!Matches, N!New
  <1> QED BY <1>3, <1>4, <1>5, <1>6, <1>7

\* In the host's own chain all that a machine sends is let through.
LEMMA FilterLets == ASSUME NetNames, NEW m \in Guests, NEW mode, RunsBehind(m, mode), NEW to PROVE N!Accepted("filter", N!New(m, to))
  <1>1. PICK i \in 1 .. Len(rules) : Is(rules[i], m, <<"filter", "out">>)
    BY DEF RunsBehind, Enforced, Lines
  <1>2. rules[i].chain = "filter" /\ N!Matches(rules[i], N!New(m, to))
    BY <1>1 DEF Is, N!Matches, N!New
  <1>3. \A c, w : <<c, w>> \in Lines(mode) /\ c = "filter" => w \in {"out", "back"}
    BY DEF Lines, RunsBehind, Modes4
  <1>4. ASSUME NEW k \in 1 .. Len(rules), rules[k].chain = "filter", N!Matches(rules[k], N!New(m, to)) PROVE rules[k].what \in Accepts
    <2>1. <<rules[k].chain, rules[k].what>> \in Lines(mode)
      BY <1>4, Routed
    <2> QED BY <2>1, <1>3, <1>4 DEF Accepts
  <1> QED BY <1>2, <1>4, LetThrough DEF RunsBehind, Accepts

LEMMA Confined ==
    ASSUME NetNames, NEW m \in Guests, NEW mode, RunsBehind(m, mode)
    PROVE  ~N!Accepted("input", N!New(m, "agent")) /\ ~N!Forwarded(N!New(m, "private"))
  <1>1. ~N!Accepted("input", N!New(m, "agent"))
    <2>1. ASSUME NEW i \in 1 .. Len(rules), rules[i].chain = "input", N!Matches(rules[i], N!New(m, "agent")), rules[i].what \in Accepts PROVE FALSE
      <3>1. rules[i].what \in {"est", "agent"}
        BY <2>1 DEF RunsBehind, Tame, Accepts
      <3>2. m # "mgmt"
        BY Untagged
      <3> QED BY <3>1, <3>2, <2>1 DEF N!Matches, N!New
    <2> QED BY <2>1, Dropped DEF RunsBehind, Accepts
  <1>2. ~N!Accepted("forward", N!New(m, "private"))
    <2>1. ASSUME NEW i \in 1 .. Len(rules), rules[i].chain = "forward", N!Matches(rules[i], N!New(m, "private")), rules[i].what \in Accepts
          PROVE  \E k \in 1 .. i - 1 : rules[k].chain = "forward" /\ N!Matches(rules[k], N!New(m, "private")) /\ rules[k].what \notin Accepts
      <3>1. rules[i].tag = m /\ rules[i].what = "out"
        BY <2>1, Routed, ZenonT(40) DEF Accepts
      <3>2. PICK k \in 1 .. i - 1 : Is(rules[k], m, <<"forward", "private">>)
        BY <3>1, <2>1 DEF RunsBehind, Enforced, Is, OutRule
      <3>3. rules[k].chain = "forward" /\ N!Matches(rules[k], N!New(m, "private")) /\ rules[k].what \notin Accepts
        BY <3>2 DEF Is, N!Matches, N!New, Accepts
      <3> QED BY <3>3
    <2> QED BY <2>1, Dropped DEF RunsBehind, Accepts
  <1> QED BY <1>1, <1>2 DEF N!Forwarded

LEMMA PolicyServed ==
    ASSUME NetNames, NEW m \in Guests, NEW mode, RunsBehind(m, mode), NEW to \in {"site", "elsewhere"}
    PROVE  N!Forwarded(N!New(m, to)) <=> N!Allows(mode, {"site"}, to)
  <1> DEFINE p == N!New(m, to)
             Hit(i) == rules[i].chain = "forward" /\ N!Matches(rules[i], p)
  <1>1. N!Forwarded(p) <=> N!Accepted("forward", p)
    BY FilterLets DEF N!Forwarded
  <1>2. \A i \in 1 .. Len(rules) : Hit(i) => rules[i].tag = m /\ <<"forward", rules[i].what>> \in Lines(mode)
                                             /\ rules[i].what \in {"site", "nosite", "out"} /\ (rules[i].what \in {"site", "nosite"} => to = "site")
    BY Routed
  <1>3. \A l : \A i \in 1 .. Len(rules) : Is(rules[i], m, l) /\ (l = OutRule \/ (to = "site" /\ l \in {<<"forward", "site">>, <<"forward", "nosite">>})) =>
            Hit(i) /\ <<"forward", rules[i].what>> = l
    <2> SUFFICES ASSUME NEW i \in 1 .. Len(rules), NEW l, Is(rules[i], m, l),
                        l = OutRule \/ (to = "site" /\ l \in {<<"forward", "site">>, <<"forward", "nosite">>})
                 PROVE  Hit(i) /\ <<"forward", rules[i].what>> = l
      OBVIOUS
    <2>1. rules[i].tag = m /\ rules[i].chain = "forward" /\ <<"forward", rules[i].what>> = l
      BY DEF Is, OutRule
    <2>2. rules[i].what = "out" \/ (to = "site" /\ rules[i].what \in {"site", "nosite"})
      BY <2>1 DEF OutRule
    <2> QED BY <2>1, <2>2 DEF N!Matches, N!New
  <1>4. mode \in Modes4 /\ rules \in Seq(RuleRec) /\ Enforced(rules, m, mode)
    BY DEF RunsBehind
  <1>5. ASSUME \E l \in Lines(mode) : \E i \in 1 .. Len(rules) : Is(rules[i], m, l) /\ Hit(i),
               \A i \in 1 .. Len(rules) : Hit(i) => rules[i].what \in Accepts
        PROVE  N!Accepted("forward", p)
    BY <1>4, <1>5, LetThrough DEF Accepts
  <1>6. ASSUME \A i \in 1 .. Len(rules) : Hit(i) /\ rules[i].what \in Accepts => \E k \in 1 .. i - 1 : Hit(k) /\ rules[k].what \notin Accepts
        PROVE  ~N!Accepted("forward", p)
    BY <1>4, <1>6, Dropped DEF Accepts
  <1> HIDE DEF p, Hit
  <1>7. CASE mode = "deny_all"
    <2>1. \A i \in 1 .. Len(rules) : ~Hit(i)
      BY <1>2, <1>7 DEF Lines
    <2> QED BY <2>1, <1>1, <1>6, <1>7 DEF N!Allows, p
  <1>8. CASE mode = "allow_all"
    <2>1. OutRule \in Lines(mode)
      BY <1>8 DEF Lines, OutRule
    <2>2. PICK i \in 1 .. Len(rules) : Is(rules[i], m, OutRule)
      BY <2>1, <1>4 DEF Enforced
    <2>3. \A k \in 1 .. Len(rules) : Hit(k) => rules[k].what \in Accepts
      BY <1>2, <1>8 DEF Lines, Accepts
    <2>4. N!Accepted("forward", p)
      BY <2>1, <2>2, <2>3, <1>3, <1>5
    <2> QED BY <2>4, <1>1, <1>8 DEF N!Allows, p
  <1>9. CASE mode = "allow_domains" /\ to = "site"
    <2>1. <<"forward", "site">> \in Lines(mode)
      BY <1>9 DEF Lines
    <2>2. PICK i \in 1 .. Len(rules) : Is(rules[i], m, <<"forward", "site">>)
      BY <2>1, <1>4 DEF Enforced
    <2>3. \A k \in 1 .. Len(rules) : Hit(k) => rules[k].what \in Accepts
      BY <1>2, <1>9 DEF Lines, Accepts
    <2>4. N!Accepted("forward", p)
      BY <2>1, <2>2, <2>3, <1>3, <1>5, <1>9
    <2> QED BY <2>4, <1>1, <1>9 DEF N!Allows, p
  <1>10. CASE mode = "allow_domains" /\ to = "elsewhere"
    <2>1. \A i \in 1 .. Len(rules) : ~Hit(i)
      BY <1>2, <1>10 DEF Lines
    <2> QED BY <2>1, <1>1, <1>6, <1>10 DEF N!Allows, p
  <1>11. CASE mode = "deny_domains" /\ to = "elsewhere"
    <2>1. OutRule \in Lines(mode)
      BY <1>11 DEF Lines, OutRule
    <2>2. PICK i \in 1 .. Len(rules) : Is(rules[i], m, OutRule)
      BY <2>1, <1>4 DEF Enforced
    <2>3. \A k \in 1 .. Len(rules) : Hit(k) => rules[k].what \in Accepts
      BY <1>2, <1>11, Zenon DEF Accepts
    <2>4. N!Accepted("forward", p)
      BY <2>1, <2>2, <2>3, <1>3, <1>5
    <2> QED BY <2>4, <1>1, <1>11 DEF N!Allows, p
  <1>12. CASE mode = "deny_domains" /\ to = "site"
    <2>1. ASSUME NEW i \in 1 .. Len(rules), Hit(i), rules[i].what \in Accepts PROVE \E k \in 1 .. i - 1 : Hit(k) /\ rules[k].what \notin Accepts
      <3>1. rules[i].what = "out" /\ rules[i].tag = m /\ rules[i].chain = "forward"
        <4>1. rules[i].what # "site"
          BY <2>1, <1>2, <1>12 DEF Lines
        <4> QED BY <4>1, <2>1, <1>2, Zenon DEF Accepts, Hit
      <3>2. Is(rules[i], m, OutRule)
        BY <3>1 DEF Is, OutRule
      <3>3. PICK k \in 1 .. i - 1 : Is(rules[k], m, <<"forward", "nosite">>)
        BY <3>2, <1>4, <1>12 DEF Enforced
      <3>4. k \in 1 .. Len(rules)
        BY <1>4
      <3>5. Hit(k) /\ <<"forward", rules[k].what>> = <<"forward", "nosite">>
        BY <3>3, <3>4, <1>3, <1>12
      <3> QED BY <3>5 DEF Accepts
    <2>2. ~N!Accepted("forward", p)
      BY <2>1, <1>6
    <2> QED BY <2>2, <1>1, <1>12 DEF N!Allows, p
  <1> QED BY <1>4, <1>7, <1>8, <1>9, <1>10, <1>11, <1>12 DEF Modes4

\* Answers to what it asked come back, and its addresses are translated.
LEMMA Answered ==
    ASSUME NetNames, NEW m \in Guests, NEW mode, RunsBehind(m, mode)
    PROVE  N!Forwarded(N!Reply("egress", m)) /\ \E i \in DOMAIN rules : rules[i].tag = m /\ rules[i].what = "nat"
  <1>1. rules \in Seq(RuleRec) /\ DOMAIN rules = 1 .. Len(rules)
    BY DEF RunsBehind
  <1>2. ASSUME NEW chain \in {"forward", "filter"} PROVE N!Accepted(chain, N!Reply("egress", m))
    <2>1. PICK i \in 1 .. Len(rules) : Is(rules[i], m, <<chain, "back">>)
      BY <1>2 DEF RunsBehind, Enforced, Lines
    <2>2. rules[i].chain = chain /\ N!Matches(rules[i], N!Reply("egress", m))
      BY <2>1 DEF Is, N!Matches, N!Reply
    <2>3. ASSUME NEW k \in 1 .. Len(rules), rules[k].chain = chain, N!Matches(rules[k], N!Reply("egress", m)) PROVE rules[k].what \in Accepts
      <3>1. rules[k].tag # "global" /\ rules[k] \in RuleRec /\ rules[k].what # "agent"
        BY <2>3 DEF RunsBehind, Tame
      <3>2. rules[k].tag # "egress" /\ rules[k].what \in Words
        BY <3>1, Untagged DEF RuleRec
      <3>3. rules[k].what = "back"
        BY <3>1, <3>2, <2>3 DEF N!Matches, N!Reply, Words
      <3> QED BY <3>3 DEF Accepts
    <2> QED BY <1>1, <2>2, <2>3, LetThrough DEF Accepts
  <1>3. PICK i \in 1 .. Len(rules) : Is(rules[i], m, <<"postrouting", "nat">>)
    BY DEF RunsBehind, Enforced, Lines
  <1> QED BY <1>1, <1>2, <1>3 DEF N!Forwarded, Is

LEMMA NetHolds == ASSUME NetNames, NetInv PROVE N!GuestsConfined /\ N!PolicyHolds /\ N!AgentReachable /\ N!NoRuleLeft
  <1>1. N!GuestsConfined
    BY Behind, Confined DEF N!GuestsConfined
  <1>2. N!PolicyHolds
    <2> SUFFICES ASSUME NEW m \in Guests, hup[m] # "none"
                 PROVE  /\ \A to \in {"site", "elsewhere"} :
                              N!Forwarded(N!New(m, to)) <=> N!Allows(njob[hup[m]].mode, njob[hup[m]].ips, to)
                        /\ N!Forwarded(N!Reply("egress", m))
                        /\ \E i \in DOMAIN rules : rules[i].tag = m /\ rules[i].what = "nat"
      BY Zenon DEF N!PolicyHolds
    <2>1. RunsBehind(m, EffOf(njob[hup[m]]))
      BY Behind
    <2>2. njob[hup[m]].mode \in Modes4 /\ njob[hup[m]].ips \in SUBSET {"site"}
      BY DEF NetInv, NetTypes, UpOK, JobRec, Resolved
    <2>3. \A to \in {"site", "elsewhere"} : N!Forwarded(N!New(m, to)) <=> N!Allows(EffOf(njob[hup[m]]), {"site"}, to)
      BY <2>1, PolicyServed
    <2>4. \A to \in {"site", "elsewhere"} :
              N!Allows(EffOf(njob[hup[m]]), {"site"}, to) <=> N!Allows(njob[hup[m]].mode, njob[hup[m]].ips, to)
      BY <2>2, EffAllows DEF EffOf
    <2> QED BY <2>1, <2>3, <2>4, Answered
  <1>3. N!AgentReachable
    <2> SUFFICES ASSUME rules # <<>>, N!SharedQuiet PROVE N!Accepted("input", N!New("mgmt", "agent"))
      BY DEF N!AgentReachable
    <2>1. rules \in Seq(RuleRec) /\ \A i \in 1 .. Len(rules) : rules[i] \in RuleRec
      BY DEF NetInv, NetTypes
    <2>2. PICK i \in 1 .. Len(rules) : rules[i].tag = "global" /\ rules[i].chain = "input" /\ rules[i].what = "agent"
      BY DEF NetInv, MgmtOK, Agent
    <2>3. N!Matches(rules[i], N!New("mgmt", "agent"))
      BY <2>2 DEF N!Matches, N!New
    <2>4. ASSUME NEW k \in 1 .. Len(rules), rules[k].chain = "input", N!Matches(rules[k], N!New("mgmt", "agent")) PROVE rules[k].what \in Accepts
      <3>1. rules[k].what \in {"est", "agent", "drop"}
        BY <2>4 DEF NetInv, Tame
      <3>2. rules[k].what = "drop" => rules[k].tag = "mgmt"
        BY <2>4 DEF N!Matches, N!New
      <3>3. rules[k].what # "drop"
        BY <3>2, <2>1, Untagged DEF RuleRec
      <3> QED BY <3>1, <3>3 DEF Accepts
    <2> QED BY <2>1, <2>2, <2>3, <2>4, LetThrough DEF Accepts
  <1>4. N!NoRuleLeft
    <2>1. rules \in Seq(RuleRec)
      BY DEF NetInv, NetTypes
    <2>2. DOMAIN rules = 1 .. Len(rules)
      BY <2>1
    <2> QED BY <2>2 DEF NetInv, Belong, N!NoRuleLeft
  <1> QED BY <1>1, <1>2, <1>3, <1>4

(***************************************************************************)
(* The parts in one run.                                                   *)
(***************************************************************************)
LEMMA PartsBegin == ControlInit => F!Init /\ W!Init /\ P!Init /\ S!Init /\ N!Init /\ E!Init
  BY DEF ControlInit

LEMMA PartSteps ==
    ASSUME [ControlNext]_all
    PROVE  [F!Next]_fvars /\ [W!Next]_wvars /\ [P!Next]_pvars /\ [S!Next]_svars /\ [N!Next]_nvars /\ [E!Next]_evars
  BY DEF ControlNext, DriverStep, FleetStep, WorktreeStep, PullsStep, SettingsStep, NetworkStep, StreamStep, all

LEMMA SameVars ==
    /\ UNCHANGED fvars <=> UNCHANGED F!vars
    /\ UNCHANGED wvars <=> UNCHANGED W!vars
    /\ UNCHANGED pvars <=> UNCHANGED P!vars
    /\ UNCHANGED svars <=> UNCHANGED settingsVars
    /\ UNCHANGED svars <=> UNCHANGED S!vars
    /\ UNCHANGED evars <=> UNCHANGED E!vars
  BY DEF fvars, wvars, pvars, svars, evars, settingsVars, F!vars, F!hostvars, W!vars, W!reqvars, W!repovars, P!vars, P!grantvars, P!reqvars,
         S!vars, S!rows, S!guestvars, E!vars

\* With reconfigurations one after another and an agent that does not die between the
\* settings and their marker: for any number of calls, failures and edits, the last call
\* that went through leaves the machine with the identity and the attribution of the
\* rows, and blanks of the agent are marked (Manager.configure, applyClaudeConfig).
THEOREM SettingsFollow == ASSUME InTurn, Completed PROVE ControlSpec => []SettingsApplied
  <1>1. ControlInit => SettingsInv
    BY PartsBegin, SettingsInit
  <1>2. SettingsInv /\ [ControlNext]_all => SettingsInv'
    BY PartSteps, SameVars, SettingsNext DEF SettingsKeep, SettingsInv
  <1>3. SettingsInv => SettingsApplied
    BY SettingsHold DEF SettingsApplied
  <1> QED BY <1>1, <1>2, <1>3, PTL DEF ControlSpec

\* For any number of requests at once, whichever tokens are rejected and wherever the
\* head moves: a pull request is opened at the provider of the remote with that
\* provider's token, a listing of one head is whole for every length and size of a page,
\* and a merge is answered ok by the request that made it (pulls.go, handleGitPR).
THEOREM PullsAreTold == ASSUME Listed, NoSuchRequest PROVE ControlSpec => []PullsTell
  <1>1. ControlInit => PullInv
    BY PartsBegin, PullsBegin
  <1>2. PullInv /\ [ControlNext]_all => PullInv'
    BY PartSteps, SameVars, PullsNext
  <1>3. PullInv => PullsTell
    BY PullsHold DEF PullsTell
  <1> QED BY <1>1, <1>2, <1>3, PTL DEF ControlSpec

\* For any number of requests at once, edits in the middle of them, killed commands and
\* drops: a commit of named paths changes no other, and a request that is answered ok
\* made one commit, one told that there is nothing to commit made none (gitCommit).
THEOREM CommitsAreTold == ASSUME NoClone PROVE ControlSpec => []CommitsTell
  <1>1. ControlInit => WorktreeInv
    BY PartsBegin, WorktreeBegins
  <1>2. WorktreeInv /\ [ControlNext]_all => WorktreeInv'
    BY PartSteps, SameVars, WorktreeNext
  <1>3. WorktreeInv => CommitsTell
    BY CommitsHold DEF CommitsTell
  <1> QED BY <1>1, <1>2, <1>3, PTL DEF ControlSpec

\* Under the same, and when the user does not edit the settings in the middle of a
\* call: a branch moves only by a commit on it, uncommitted work stays, and of the
\* settings only the agent's own blanks go (gitBranch, applyClaudeConfig).
THEOREM UserWorkStays == ASSUME NoClone, InTurn, HandsOff PROVE ControlSpec => UserWorkKept
  <1> DEFINE Inv == WorktreeInv /\ TurnInv /\ ReadIsTrue
             Stays == \A b \in W!Names : refs[b] # W!Absent /\ refs'[b] # refs[b] =>
                         b = cur /\ commits' # commits /\ commits'[refs'[b]].parent = refs[b]
             Safe == \A f \in Files : work'[f] # work[f] => edits' # edits \/ work[f] = W!HeadTree[f]
             Kept == sedits' = sedits =>
                        /\ settings'.other = settings.other /\ settings'.valid = settings.valid
                        /\ ~marker /\ attribution /\ settings' # settings => \E k \in Confs : spc[k] = "blank"
             Theirs == settings.attr = "text" /\ settings'.attr = "absent" => sedits' # sedits
  <1>1. ControlInit => Inv
    BY PartsBegin, WorktreeBegins, SettingsInit
  <1>2. Inv /\ [ControlNext]_all => Inv'
    BY PartSteps, SameVars, WorktreeNext, SettingsNext DEF SettingsKeep
  <1>3. Inv /\ [ControlNext]_all => [Stays]_(W!vars) /\ [Safe]_(W!vars)
    BY PartSteps, SameVars, BranchesMove
  <1>4. Inv /\ [ControlNext]_all => [Kept]_(S!vars) /\ [Theirs]_(S!vars)
    BY PartSteps, SameVars, SettingsKept
  <1> HIDE DEF Inv
  <1> QED BY <1>1, <1>2, <1>3, <1>4, PTL DEF ControlSpec, UserWorkKept, W!BranchStays, W!NoWorkLost, S!UserContentKept, S!TheirTextWins

\* For any number of hosts, machines and requests: a list that went through takes no
\* running machine for lost and a call fails only for its own host, when hosts that have
\* machines stay active and machines are started again between sweeps (Registry); and a
\* user is asked to reconnect when the grant is gone or a fresh token was rejected too
\* (callGitHub).
THEOREM AlarmsAreTrue == ASSUME HostRows, Undisturbed, Listed, NoSuchRequest PROVE ControlSpec => NoFalseAlarm
  <1> DEFINE Inv == FleetInv /\ PullInv
             Lost == \A m \in Guests :
                        sweep.pc = "list" /\ sweep.left = {} /\ sweep' # sweep /\ row[m].state = "running" /\ row'[m].state = "error" => vm[m] # "running"
             Follow == \A m \in Guests :
                          row[m].state # "error" /\ row'[m].state = "error" /\ sweep' = sweep => row[m].host \notin up \/ F!Moved(row[m].host)
             Last == \A h \in Reqs : pop[h] = "open" /\ ans[h] = "none" /\ ans'[h] = "reconnect_github" => ~grant \/ ppc[h] = "again"
  <1>1. ControlInit => Inv
    BY PartsBegin, FleetBegins, PullsBegin
  <1>2. Inv /\ [ControlNext]_all => Inv'
    BY PartSteps, SameVars, FleetNext, PullsNext
  <1>3. Inv /\ [ControlNext]_all => [Lost]_(F!vars) /\ [Follow]_(F!vars)
    BY PartSteps, SameVars, FailuresTell
  <1>4. Inv /\ [ControlNext]_all => [Last]_(P!vars)
    BY PartSteps, SameVars, ReconnectsLast
  <1> HIDE DEF Inv
  <1> QED BY <1>1, <1>2, <1>3, <1>4, PTL DEF ControlSpec, NoFalseAlarm, F!NotMistakenForLost, F!CallsFollowTheRow, P!OpenReconnectsLast

\* For any number of hosts, machines, faults and sizes, when creates come one at a time
\* and machines are started again where they fit: no host runs more than it has,
\* whichever agents went down or moved while they were asked (chooseHost).
THEOREM NoHostOvercommitted == ASSUME Sized, Several, HostRows, OneAtATime PROVE ControlSpec => []NoOvercommit
  <1> DEFINE Inv == FleetInv /\ RoomInv
  <1>1. ControlInit => Inv
    BY PartsBegin, FleetBegins, RoomBegins
  <1>2. Inv /\ [ControlNext]_all => Inv'
    BY PartSteps, SameVars, FleetNext, RoomNext DEF OneAtATime
  <1>3. Inv => NoOvercommit
    BY DEF RoomInv, NoOvercommit
  <1> QED BY <1>1, <1>2, <1>3, PTL DEF ControlSpec

\* For any number of machines, writes, reconnects and failed queries, and any sizes of
\* the subscription, the snapshot and the replay, when writers follow one another, no
\* row moves between the list and the replay, no machine is destroyed while the browser
\* is away, no subscription fills and the missed events can be read: a dashboard that
\* has been sent everything shows every machine as its row is, and none of the events
\* since its snapshot is missing (handleMachineEvents, replayAfter).
THEOREM StreamIsCurrent == ASSUME Attended, StreamSizes PROVE ControlSpec => []StreamCurrent
  <1>1. ControlInit => StreamInv
    BY PartsBegin, StreamBegins
  <1>2. StreamInv /\ [ControlNext]_all => StreamInv'
    BY PartSteps, SameVars, StreamNext
  <1>3. StreamInv => StreamCurrent
    BY StreamHolds DEF StreamCurrent
  <1> QED BY <1>1, <1>2, <1>3, PTL DEF ControlSpec

\* For any number of machines, policies, boots and removals, whichever boots fail and
\* however their commands interleave, when chains can be listed and the commands of the
\* shared rules go through: a machine that runs reaches neither the host nor a private
\* range, it reaches of the internet what its policy says of the addresses its names
\* resolved to when it booted and has the answers, the agent
\* is reachable when nobody replaces the shared rules, and a machine that was removed
\* leaves no rule behind (firecracker/network.go).
THEOREM FirewallHolds == ASSUME NetNames, NetCalm PROVE ControlSpec => []NetworkHolds
  <1>1. ControlInit => NetInv
    BY PartsBegin, NetInit
  <1>2. NetInv /\ [ControlNext]_all => NetInv'
    BY PartSteps, NetNext
  <1>3. NetInv => NetworkHolds
    BY NetHolds DEF NetworkHolds
  <1> QED BY <1>1, <1>2, <1>3, PTL DEF ControlSpec
=============================================================================
