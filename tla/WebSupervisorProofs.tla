------------------------ MODULE WebSupervisorProofs -------------------------
(***************************************************************************)
(* Proofs about three of the parts of MCLiveParts: WebSupervisor, for any  *)
(* connections, processes and waits; GitTransfers, for any operations and  *)
(* repositories; and Tunnel, for any lengths and kinds of stream.  The     *)
(* second and the third are there as the instances G and U.                *)
(*                                                                         *)
(* OneBackend rests on the lock: a connection that is about to start a     *)
(* process holds it and has found none (Holds), and the process that runs  *)
(* is the one the supervisor tracks (Tracked), because the reaper clears   *)
(* cmd only for a process that is dead.  BacksOff rests on Paced: what is  *)
(* left of the wait and what has passed since the last failure make up the *)
(* wait of the failures so far.  What a transfer reports is what became of *)
(* it (TransferInv), and what is between the two ends of a tunnel is one   *)
(* run of numbers, wherever the handshakes have left it (TunnelInv).       *)
(***************************************************************************)
EXTENDS MCLiveParts, Integers, SequenceTheorems, TLAPS

\* The waits are natural numbers, and no connection is called "none".
Sizes == "none" \notin Conns /\ MaxProcs \in Nat /\ MaxWait \in Nat /\ StartTimeout \in Nat

Live(p) == proc[p] \in {"starting", "up"}

Types ==
    /\ pc \in [Conns -> {"new", "backoff", "probe", "dial", "bridged", "dropped"}]
    /\ proc \in [Procs -> {"none", "starting", "up", "dead"}]
    /\ fails \in Nat /\ streak \in Nat /\ wait \in 0..MaxWait /\ since \in 0..MaxWait

\* A connection inside Ensure has the lock, and one that is about to start a
\* process has found none.
Holds == \A c \in Conns :
    /\ pc[c] \in {"backoff", "probe"} => lock = c
    /\ pc[c] = "backoff" => cmd = 0

\* The process that runs is the one in cmd, until Shutdown forgets it.
Tracked == ctx # "ended" => \A p \in Procs : Live(p) => cmd = p

\* The wait that is left and the time since the last failure.
Paced == streak = fails /\ (streak > 0 => wait + since >= Backoff(streak))

IInv == Types /\ Holds /\ Tracked /\ Paced

LEMMA BackoffType == ASSUME Sizes, NEW n PROVE Backoff(n) \in 0..MaxWait
BY DEF Sizes, Backoff

LEMMA InitHolds == ASSUME Sizes PROVE Init => IInv
<1> SUFFICES ASSUME Init PROVE IInv
  OBVIOUS
<1>1. Types
  BY DEF Init, Types, Sizes
<1>2. Holds /\ Tracked
  BY DEF Init, Holds, Tracked, Live
<1>3. Paced
  BY DEF Init, Paced
<1> QED BY <1>1, <1>2, <1>3 DEF IInv

\* A failed attempt starts the wait for the number of failures there are now.
LEMMA FailPaces == ASSUME Sizes, IInv, Fail
                   PROVE  /\ fails' \in Nat /\ streak' \in Nat /\ wait' \in 0..MaxWait /\ since' \in 0..MaxWait
                          /\ Paced'
<1>1. fails' \in Nat /\ streak' \in Nat /\ since' \in 0..MaxWait /\ since' = 0 /\ streak' = fails'
  BY DEF Sizes, IInv, Types, Paced, Fail
<1>2. wait' \in 0..MaxWait /\ wait' = Backoff(streak')
  BY <1>1, BackoffType DEF Fail
<1> QED BY <1>1, <1>2 DEF Paced

LEMMA Inductive == ASSUME Sizes, IInv, [Next]_vars PROVE IInv'
<1> USE DEF IInv
<1>1. ASSUME NEW c \in Conns, Enter(c) PROVE IInv'
  <2>1. Types'
    BY <1>1 DEF Enter, Types, Sizes
  <2>2. Holds' /\ Tracked'
    BY <1>1 DEF Enter, Types, Holds, Tracked, Live, Sizes, Procs, Alive
  <2>3. Paced'
    BY <1>1 DEF Enter, Types, Paced, Backoff
  <2> QED BY <2>1, <2>2, <2>3
<1>2. ASSUME NEW c \in Conns, Start(c) PROVE IInv'
  <2>1. Types'
    BY <1>2 DEF Start, Types, Sizes
  <2>2. Holds' /\ Tracked'
    BY <1>2 DEF Start, Types, Holds, Tracked, Live, Sizes, Procs, Alive
  <2>3. Paced'
    BY <1>2 DEF Start, Types, Paced, Backoff
  <2> QED BY <2>1, <2>2, <2>3
<1>3. ASSUME NEW c \in Conns, ProbeAccepted(c) PROVE IInv'
  <2>1. Types'
    BY <1>3 DEF ProbeAccepted, Return, Types, Sizes
  <2>2. Holds' /\ Tracked'
    BY <1>3 DEF ProbeAccepted, Return, Types, Holds, Tracked, Live, Sizes, Procs, Alive
  <2>3. Paced'
    BY <1>3 DEF ProbeAccepted, Return, Types, Paced, Backoff
  <2> QED BY <2>1, <2>2, <2>3
<1>4. ASSUME NEW c \in Conns, ProbeGivesUp(c) PROVE IInv'
  <2>1. fails' \in Nat /\ streak' \in Nat /\ wait' \in 0..MaxWait /\ since' \in 0..MaxWait /\ Paced'
    <3>1. CASE Fail
      BY <3>1, FailPaces
    <3>2. CASE ~Fail
      BY <1>4, <3>2 DEF ProbeGivesUp, Return, Types, Paced, Backoff
    <3> QED BY <3>1, <3>2
  <2>2. Types'
    BY <1>4, <2>1 DEF ProbeGivesUp, Return, Types
  <2>3. Holds' /\ Tracked'
    BY <1>4 DEF ProbeGivesUp, Return, Types, Holds, Tracked, Live, Sizes
  <2> QED BY <2>1, <2>2, <2>3
<1>5. ASSUME NEW c \in Conns, Cancelled(c) PROVE IInv'
  <2>1. fails' \in Nat /\ streak' \in Nat /\ wait' \in 0..MaxWait /\ since' \in 0..MaxWait /\ Paced'
    <3>1. CASE Fail
      BY <3>1, FailPaces
    <3>2. CASE ~Fail
      BY <1>5, <3>2 DEF Cancelled, Return, Types, Paced, Backoff
    <3> QED BY <3>1, <3>2
  <2>2. Types'
    BY <1>5, <2>1 DEF Cancelled, Return, Types
  <2>3. Holds' /\ Tracked'
    BY <1>5 DEF Cancelled, Return, Types, Holds, Tracked, Live, Sizes
  <2> QED BY <2>1, <2>2, <2>3
<1>6. ASSUME NEW c \in Conns, Handle(c) PROVE IInv'
  <2>1. Types'
    BY <1>6 DEF Handle, Types, Sizes
  <2>2. Holds' /\ Tracked'
    BY <1>6 DEF Handle, Types, Holds, Tracked, Live, Sizes, Procs, Alive
  <2>3. Paced'
    BY <1>6 DEF Handle, Types, Paced, Backoff
  <2> QED BY <2>1, <2>2, <2>3
<1>7. ASSUME NEW c \in Conns, StartFails(c) PROVE IInv'
  <2>1. fails' \in Nat /\ streak' \in Nat /\ wait' \in 0..MaxWait /\ since' \in 0..MaxWait /\ Paced'
    <3>1. CASE Fail
      BY <3>1, FailPaces
    <3>2. CASE ~Fail
      BY <1>7, <3>2 DEF StartFails, Return, Types, Paced, Backoff
    <3> QED BY <3>1, <3>2
  <2>2. Types'
    BY <1>7, <2>1 DEF StartFails, Return, Types
  <2>3. Holds' /\ Tracked'
    BY <1>7 DEF StartFails, Return, Types, Holds, Tracked, Live, Sizes
  <2> QED BY <2>1, <2>2, <2>3
<1>8. ASSUME NEW p \in Procs, Reap(p) PROVE IInv'
  <2>1. Types'
    BY <1>8 DEF Reap, Types
  <2>2. Holds' /\ Tracked'
    BY <1>8 DEF Reap, Types, Holds, Tracked, Live, Sizes
  <2>3. Paced'
    BY <1>8 DEF Reap, Paced, Backoff
  <2> QED BY <2>1, <2>2, <2>3
<1>9. ASSUME NEW p \in Procs, ComesUp(p) PROVE IInv'
  <2>1. Types'
    BY <1>9 DEF ComesUp, Types
  <2>2. Holds' /\ Tracked'
    BY <1>9 DEF ComesUp, Types, Holds, Tracked, Live, Sizes
  <2>3. Paced'
    BY <1>9 DEF ComesUp, Paced, Backoff
  <2> QED BY <2>1, <2>2, <2>3
<1>10. ASSUME NEW p \in Procs, Dies(p) PROVE IInv'
  <2>1. Types'
    BY <1>10 DEF Dies, Types
  <2>2. Holds' /\ Tracked'
    BY <1>10 DEF Dies, Types, Holds, Tracked, Live, Sizes
  <2>3. Paced'
    BY <1>10 DEF Dies, Paced, Backoff
  <2> QED BY <2>1, <2>2, <2>3
<1>11. CASE Tick
  <2>1. Types'
    BY <1>11 DEF Tick, Types, Down, Sizes
  <2>2. Holds' /\ Tracked'
    BY <1>11 DEF Tick, Holds, Tracked, Live
  <2>3. Paced'
    BY <1>11, BackoffType DEF Tick, Types, Paced, Down, Sizes
  <2> QED BY <2>1, <2>2, <2>3
<1>12. CASE AgentStops
  <2>1. Types'
    BY <1>12 DEF AgentStops, Types
  <2>2. Holds' /\ Tracked'
    BY <1>12 DEF AgentStops, Holds, Tracked, Live
  <2>3. Paced'
    BY <1>12 DEF AgentStops, Paced, Backoff
  <2> QED BY <2>1, <2>2, <2>3
<1>13. CASE Shutdown
  <2>1. Types'
    BY <1>13 DEF Shutdown, Types
  <2>2. Holds' /\ Tracked'
    BY <1>13 DEF Shutdown, Holds, Tracked, Live
  <2>3. Paced'
    BY <1>13 DEF Shutdown, Paced, Backoff
  <2> QED BY <2>1, <2>2, <2>3
<1>14. CASE UNCHANGED vars
  BY <1>14 DEF vars, Types, Holds, Tracked, Live, Paced, Backoff
<1> QED BY <1>1, <1>2, <1>3, <1>4, <1>5, <1>6, <1>7, <1>8, <1>9, <1>10, <1>11, <1>12, <1>13, <1>14 DEF Next, Handler

LEMMA Invariant == ASSUME Sizes PROVE Spec => []IInv
<1>1. Init => IInv
  BY InitHolds
<1>2. IInv /\ [Next]_vars => IInv'
  BY Inductive
<1> QED BY <1>1, <1>2, PTL DEF Spec

\* Ensure, start and the reaper: however connections, crashes and give-ups fall,
\* code-server runs at most once until the agent shuts down.
THEOREM BackendAlone == ASSUME Sizes PROVE Spec => []OneBackend
<1>1. IInv => OneBackend
  BY DEF IInv, Tracked, Live, OneBackend
<1> QED BY <1>1, Invariant, PTL

\* fail and the guard in Ensure: an attempt waits for as long as the failures
\* before it ask, whichever connections they were of.
THEOREM AttemptsWait == ASSUME Sizes PROVE Spec => BacksOff
<1>1. ASSUME IInv, [Next]_vars, NEW c \in Conns, pc[c] = "backoff", pc'[c] # "backoff", ctx = "run", streak > 0
      PROVE  since >= Backoff(streak)
  <2>1. wait = 0
    <3>1. Start(c) \/ StartFails(c)
      BY <1>1
         DEF IInv, Types, Next, vars, Handler, Enter, Start, StartFails, ProbeAccepted, ProbeGivesUp, Cancelled, Handle,
             Return, Reap, ComesUp, Dies, Tick, AgentStops, Shutdown
    <3> QED BY <3>1 DEF Start, StartFails
  <2>2. Backoff(streak) \in 0..MaxWait
    BY BackoffType
  <2> QED BY <1>1, <2>1, <2>2 DEF IInv, Paced, Types
<1>2. IInv /\ [Next]_vars => [\A c \in Conns :
          pc[c] = "backoff" /\ pc'[c] # "backoff" /\ ctx = "run" /\ streak > 0 => since >= Backoff(streak)]_vars
  BY <1>1
<1> QED BY <1>2, Invariant, PTL DEF Spec, BacksOff

-----------------------------------------------------------------------------
(***************************************************************************)
(* Clones and pushes (GitTransfers).  An operation's goroutine reports     *)
(* last, and whether its git command succeeded is known from where the     *)
(* goroutine is (Outcome).                                                 *)
(***************************************************************************)
GuestPcs == {"none", "start", "fetch", "good", "bad", "done"}

TransferTypes ==
    /\ guest \in [Ops -> GuestPcs]
    /\ ws = [d \in G!Dirs |-> [repo |-> ws[d].repo, whole |-> ws[d].whole]]
    /\ events \in Seq([op : Ops, ok : BOOLEAN])

Outcome == \A o \in Ops : (guest[o] = "good" => o \in good) /\ (guest[o] \notin {"good", "done"} => o \notin good)

TransferInv == TransferTypes /\ Outcome /\ G!ReportsAreTrue

LEMMA TransferInit == ASSUME G!Init PROVE TransferInv
  <1>1. guest = [o \in Ops |-> "none"] /\ ws = [d \in G!Dirs |-> G!Nothing] /\ good = {} /\ events = <<>>
    BY DEF G!Init
  <1>2. TransferTypes
    <2>1. G!Nothing = [repo |-> G!Nothing.repo, whole |-> G!Nothing.whole]
      BY DEF G!Nothing
    <2>2. guest \in [Ops -> GuestPcs] /\ events \in Seq([op : Ops, ok : BOOLEAN])
      BY <1>1 DEF GuestPcs
    <2>3. ws = [d \in G!Dirs |-> [repo |-> ws[d].repo, whole |-> ws[d].whole]]
      BY <1>1, <2>1
    <2> QED BY <2>2, <2>3 DEF TransferTypes
  <1> QED BY <1>1, <1>2 DEF TransferInv, Outcome, G!ReportsAreTrue, G!EventsOf

\* A step in which no operation is reported.
LEMMA Unreported ==
    ASSUME TransferInv, guest' \in [Ops -> GuestPcs], Outcome', UNCHANGED events,
           ws' = [d \in G!Dirs |-> [repo |-> ws'[d].repo, whole |-> ws'[d].whole]],
           \A o \in Ops : guest[o] = "done" => guest'[o] = "done" /\ (o \in good' <=> o \in good)
    PROVE  TransferInv'
  <1>1. TransferTypes'
    BY DEF TransferInv, TransferTypes
  <1>2. G!ReportsAreTrue'
    BY DEF TransferInv, G!ReportsAreTrue, G!EventsOf
  <1> QED BY <1>1, <1>2 DEF TransferInv

\* A step of o's goroutine up to its report.
LEMMA GoesOn ==
    ASSUME TransferInv, NEW o \in Ops, NEW x \in GuestPcs, guest[o] # "done", guest' = [guest EXCEPT ![o] = x], UNCHANGED events,
           ws' = [d \in G!Dirs |-> [repo |-> ws'[d].repo, whole |-> ws'[d].whole]],
           (x = "good" /\ good' = good \cup {o}) \/ (x # "good" /\ guest[o] # "good" /\ good' = good)
    PROVE  TransferInv'
  <1>1. guest \in [Ops -> GuestPcs]
    BY DEF TransferInv, TransferTypes
  <1>2. guest' \in [Ops -> GuestPcs] /\ guest'[o] = x /\ \A n \in Ops \ {o} : guest'[n] = guest[n]
    BY <1>1
  <1>3. Outcome'
    BY <1>2 DEF TransferInv, Outcome
  <1> QED BY <1>2, <1>3, Unreported

LEMMA CloneStartKeeps == ASSUME TransferInv, NEW o \in Ops, G!CloneStart(o) PROVE TransferInv'
  <1>1. guest[o] = "start" /\ UNCHANGED <<good, events>> /\ \E x \in {"fetch", "bad"} : guest' = [guest EXCEPT ![o] = x]
    BY DEF G!CloneStart, G!Go
  <1>2. ws' = [d \in G!Dirs |-> [repo |-> ws'[d].repo, whole |-> ws'[d].whole]]
    BY DEF G!CloneStart, TransferInv, TransferTypes
  <1> QED BY <1>1, <1>2, GoesOn DEF GuestPcs

LEMMA CloneEndKeeps == ASSUME TransferInv, NEW o \in Ops, G!CloneEnd(o) PROVE TransferInv'
  <1>1. /\ guest[o] = "fetch" /\ UNCHANGED events
        /\ \/ guest' = [guest EXCEPT ![o] = "good"] /\ good' = good \cup {o}
           \/ guest' = [guest EXCEPT ![o] = "bad"] /\ good' = good
    BY DEF G!CloneEnd, G!Go
  <1>2. ws' = [d \in G!Dirs |-> [repo |-> ws'[d].repo, whole |-> ws'[d].whole]]
    <2>1. ws = [d \in G!Dirs |-> [repo |-> ws[d].repo, whole |-> ws[d].whole]]
      BY DEF TransferInv, TransferTypes
    <2>2. G!Nothing = [repo |-> G!Nothing.repo, whole |-> G!Nothing.whole]
      BY DEF G!Nothing
    <2>3. \/ UNCHANGED ws \/ ws' = [ws EXCEPT ![op[o].dir] = G!Nothing]
          \/ ws' = [ws EXCEPT ![op[o].dir] = [ws[op[o].dir] EXCEPT !.whole = TRUE]]
      BY DEF G!CloneEnd
    <2> QED BY <2>1, <2>2, <2>3
  <1> QED BY <1>1, <1>2, GoesOn DEF GuestPcs

LEMMA PushRunKeeps == ASSUME TransferInv, NEW o \in Ops, G!PushRun(o) PROVE TransferInv'
  <1>1. /\ guest[o] = "start" /\ UNCHANGED <<ws, events>>
        /\ \/ guest' = [guest EXCEPT ![o] = "good"] /\ good' = good \cup {o}
           \/ guest' = [guest EXCEPT ![o] = "bad"] /\ good' = good
    BY DEF G!PushRun, G!Go
  <1>2. ws' = [d \in G!Dirs |-> [repo |-> ws'[d].repo, whole |-> ws'[d].whole]]
    BY <1>1 DEF TransferInv, TransferTypes
  <1> QED BY <1>1, <1>2, GoesOn DEF GuestPcs

LEMMA ReportKeeps == ASSUME TransferInv, NEW o \in Ops, G!Report(o) PROVE TransferInv'
  <1> DEFINE ok == guest[o] = "good"
             e == [op |-> o, ok |-> ok]
  <1>1. guest[o] \in {"good", "bad"} /\ guest' = [guest EXCEPT ![o] = "done"] /\ UNCHANGED <<ws, good>>
    BY DEF G!Report, G!Go
  <1>2. events' = Append(events, e) \/ UNCHANGED events
    BY DEF G!Report, G!Record
  <1>3. (o \in good <=> ok) /\ ok \in BOOLEAN
    BY <1>1 DEF TransferInv, Outcome
  <1> HIDE DEF ok
  <1>4. guest \in [Ops -> GuestPcs] /\ events \in Seq([op : Ops, ok : BOOLEAN])
    BY DEF TransferInv, TransferTypes
  <1>5. guest' \in [Ops -> GuestPcs] /\ guest'[o] = "done" /\ \A n \in Ops \ {o} : guest'[n] = guest[n]
    BY <1>1, <1>4 DEF GuestPcs
  <1>6. Outcome'
    BY <1>1, <1>5 DEF TransferInv, Outcome
  <1>7. \A i \in DOMAIN events : events[i].op # o
    BY <1>1, <1>4 DEF TransferInv, G!ReportsAreTrue, G!EventsOf
  <1>8. e \in [op : Ops, ok : BOOLEAN] /\ e.op = o /\ e.ok = ok
    BY <1>3
  <1> HIDE DEF e
  <1>9. CASE events' = Append(events, e)
    <2>1. /\ events' \in Seq([op : Ops, ok : BOOLEAN]) /\ Len(events') = Len(events) + 1 /\ events'[Len(events) + 1] = e
          /\ \A i \in 1 .. Len(events) : events'[i] = events[i]
      BY <1>4, <1>8, <1>9
    <2>2. DOMAIN events = 1 .. Len(events) /\ DOMAIN events' = 1 .. Len(events) + 1 /\ Len(events) \in Nat
      BY <1>4, <2>1
    <2>3. TransferTypes'
      BY <1>1, <1>5, <2>1 DEF TransferInv, TransferTypes
    <2>4. \A i \in DOMAIN events' : IF i = Len(events) + 1 THEN events'[i] = e ELSE i \in DOMAIN events /\ events'[i] = events[i]
      BY <2>1, <2>2
    <2>5. ASSUME NEW n \in Ops, NEW i \in DOMAIN events', events'[i].op = n
          PROVE  guest'[n] = "done" /\ (events'[i].ok <=> n \in good')
      <3>1. CASE i = Len(events) + 1
        BY <1>1, <1>3, <1>5, <1>8, <2>4, <2>5, <3>1
      <3>2. CASE i # Len(events) + 1
        <4>1. i \in DOMAIN events /\ events[i].op = n /\ events'[i] = events[i]
          BY <2>4, <2>5, <3>2
        <4>2. n # o /\ guest[n] = "done" /\ (events[i].ok <=> n \in good)
          BY <1>7, <4>1 DEF TransferInv, G!ReportsAreTrue, G!EventsOf
        <4> QED BY <1>1, <1>5, <4>1, <4>2
      <3> QED BY <3>1, <3>2
    <2>6. ASSUME NEW n \in Ops, NEW i \in DOMAIN events', NEW k \in DOMAIN events', events'[i].op = n, events'[k].op = n PROVE i = k
      <3>1. CASE n = o
        BY <1>7, <2>4, <2>6, <3>1
      <3>2. CASE n # o
        <4>1. i \in DOMAIN events /\ k \in DOMAIN events /\ events[i].op = n /\ events[k].op = n
          BY <1>8, <2>4, <2>6, <3>2
        <4> QED BY <4>1 DEF TransferInv, G!ReportsAreTrue, G!EventsOf
      <3> QED BY <3>1, <3>2
    <2>7. G!ReportsAreTrue'
      BY <2>5, <2>6 DEF G!ReportsAreTrue, G!EventsOf
    <2> QED BY <1>6, <2>3, <2>7 DEF TransferInv
  <1>10. CASE UNCHANGED events
    <2>1. ws' = [d \in G!Dirs |-> [repo |-> ws'[d].repo, whole |-> ws'[d].whole]]
      BY <1>1 DEF TransferInv, TransferTypes
    <2>2. \A n \in Ops : guest[n] = "done" => guest'[n] = "done" /\ (n \in good' <=> n \in good)
      BY <1>1, <1>5
    <2> QED BY <1>5, <1>6, <1>10, <2>1, <2>2, Unreported
  <1> QED BY <1>2, <1>9, <1>10

\* The directories change as DirKeepsRepo allows.
DirsKeep == \A d \in G!Dirs : G!Listed(d) /\ ws'[d] # G!Nothing => ws'[d].repo = ws[d].repo

LEMMA TransferNext == ASSUME TransferInv, [G!Next]_gvars PROVE TransferInv' /\ DirsKeep
  <1>1. ws = [d \in G!Dirs |-> [repo |-> ws[d].repo, whole |-> ws[d].whole]]
    BY DEF TransferInv, TransferTypes
  <1>2. ASSUME UNCHANGED <<guest, ws, good, events>> PROVE TransferInv' /\ DirsKeep
    BY <1>2 DEF TransferInv, TransferTypes, Outcome, G!ReportsAreTrue, G!EventsOf, DirsKeep
  <1>3. ASSUME UNCHANGED ws PROVE DirsKeep
    BY <1>3 DEF DirsKeep
  <1>4. ASSUME NEW o \in Ops, G!Serve(o) PROVE TransferInv' /\ DirsKeep
    <2>1. ASSUME G!AckClone(o) \/ G!AckPush(o) PROVE TransferInv' /\ DirsKeep
      <3>1. guest[o] = "none" /\ UNCHANGED <<ws, good, events>> /\ \E x \in {"start", "done"} : guest' = [guest EXCEPT ![o] = x]
        BY <2>1 DEF G!AckClone, G!AckPush, G!Arrived, G!Accept, G!Go
      <3>2. ws' = [d \in G!Dirs |-> [repo |-> ws'[d].repo, whole |-> ws'[d].whole]]
        BY <1>1, <3>1
      <3> QED BY <1>3, <3>1, <3>2, GoesOn DEF GuestPcs
    <2>2. ASSUME G!CloneStart(o) PROVE DirsKeep
      <3>1. UNCHANGED ws \/ (~G!Listed(op[o].dir) /\ ws' = [ws EXCEPT ![op[o].dir] = [repo |-> op[o].repo, whole |-> FALSE]])
        BY <2>2 DEF G!CloneStart
      <3> QED BY <1>1, <3>1 DEF DirsKeep
    <2>3. ASSUME G!CloneEnd(o) PROVE DirsKeep
      <3>1. \/ UNCHANGED ws \/ ws' = [ws EXCEPT ![op[o].dir] = G!Nothing]
            \/ ws' = [ws EXCEPT ![op[o].dir] = [ws[op[o].dir] EXCEPT !.whole = TRUE]]
        BY <2>3 DEF G!CloneEnd
      <3>2. CASE UNCHANGED ws \/ ws' = [ws EXCEPT ![op[o].dir] = G!Nothing]
        BY <1>1, <3>2 DEF DirsKeep
      <3>3. CASE ws' = [ws EXCEPT ![op[o].dir] = [ws[op[o].dir] EXCEPT !.whole = TRUE]]
        <4> SUFFICES ASSUME NEW d \in G!Dirs PROVE ws'[d].repo = ws[d].repo
          BY DEF DirsKeep
        <4>1. CASE d = op[o].dir
          <5>1. ws[d] = [repo |-> ws[d].repo, whole |-> ws[d].whole]
            BY <1>1
          <5>2. ws'[d] = [ws[d] EXCEPT !.whole = TRUE]
            BY <1>1, <3>3, <4>1
          <5> QED BY <5>1, <5>2
        <4>2. CASE d # op[o].dir
          BY <1>1, <3>3, <4>2
        <4> QED BY <4>1, <4>2
      <3> QED BY <3>1, <3>2, <3>3
    <2>4. ASSUME G!Report(o) \/ G!PushRun(o) PROVE UNCHANGED ws
      BY <2>4 DEF G!Report, G!PushRun
    <2> QED BY <1>3, <1>4, <2>1, <2>2, <2>3, <2>4, CloneStartKeeps, CloneEndKeeps, PushRunKeeps, ReportKeeps
            DEF G!Serve, G!ReportClone, G!ReportPush
  <1>5. ASSUME NEW o \in Ops, G!Lost(o) PROVE TransferInv' /\ DirsKeep
    <2>1. guest[o] = "none" /\ UNCHANGED <<ws, good, events>> /\ guest' = [guest EXCEPT ![o] = "done"]
      BY <1>5 DEF G!Lost, G!Go
    <2>2. ws' = [d \in G!Dirs |-> [repo |-> ws'[d].repo, whole |-> ws'[d].whole]]
      BY <1>1, <2>1
    <2> QED BY <1>3, <2>1, <2>2, GoesOn DEF GuestPcs
  <1>6. ASSUME NEW o \in Ops, G!DispatchFails(o) \/ G!Refused(o) \/ (\E r \in Repos : G!Clone(o, r)) \/ (\E d \in G!Dirs : G!Push(o, d))
        PROVE  UNCHANGED <<guest, ws, good, events>>
    BY <1>6 DEF G!DispatchFails, G!Refused, G!Clone, G!Push
  <1>7. ASSUME NEW d \in G!Dirs, G!RemoveDir(d) PROVE TransferInv' /\ DirsKeep
    <2>1. ws' = [ws EXCEPT ![d] = G!Nothing] /\ UNCHANGED <<guest, good, events>>
      BY <1>7 DEF G!RemoveDir
    <2>2. ws' = [c \in G!Dirs |-> [repo |-> ws'[c].repo, whole |-> ws'[c].whole]]
      BY <1>1, <2>1 DEF G!Nothing
    <2>3. DirsKeep
      BY <1>1, <2>1 DEF DirsKeep
    <2>4. Outcome' /\ guest' \in [Ops -> GuestPcs]
      BY <2>1 DEF TransferInv, Outcome, TransferTypes
    <2> QED BY <2>1, <2>2, <2>3, <2>4, Unreported
  <1>8. ASSUME G!Drop \/ G!Reconnect \/ UNCHANGED gvars PROVE UNCHANGED <<guest, ws, good, events>>
    BY <1>8 DEF G!Drop, G!Reconnect, gvars
  <1> QED BY <1>2, <1>4, <1>5, <1>6, <1>7, <1>8 DEF G!Next

\* A step of the run is a step of the transfers, or leaves them as they are.
LEMMA TransfersMove == ASSUME [LiveNext]_all PROVE [G!Next]_gvars
  BY DEF LiveNext, WebStep, TunnelStep, DevStep, TransfersStep, all

\* A directory of the workspace is not handed from one repository to another while it
\* is there: two repositories of one name do not mix (repoDir, runClone).
THEOREM DirectoriesKeep == LiveSpec => DirKeepsRepo
  <1>1. LiveInit => TransferInv
    BY TransferInit DEF LiveInit
  <1>2. TransferInv /\ [LiveNext]_all => TransferInv' /\ DirsKeep
    BY TransfersMove, TransferNext
  <1>3. DirsKeep => [\A d \in G!Dirs : G!Listed(d) /\ ws'[d] # G!Nothing => ws'[d].repo = ws[d].repo]_(G!vars)
    BY DEF DirsKeep
  <1> QED BY <1>1, <1>2, <1>3, PTL DEF LiveSpec, DirKeepsRepo, G!DirKeepsRepo

-----------------------------------------------------------------------------
(***************************************************************************)
(* The tunnel (Tunnel).  What is on its way to the backend, from what it   *)
(* has received back to the client, is one run of numbers that ends with   *)
(* the last one sent, but for the line that names a preview's port; it is  *)
(* cut where a bridge is done.  Likewise towards the client, with the      *)
(* lines of the two handshakes (Downward, Upward).                         *)
(***************************************************************************)
Items == Nat \cup Ports \cup {"ssh", "OK", "101"}

\* The numbers from a + 1 on; and a handshake's line, followed by those from 1 on.
Run(q, a) == \A i \in 1 .. Len(q) : q[i] = a + i
Line(q, t) == q # <<>> => q[1] = t /\ \A i \in 2 .. Len(q) : q[i] = i - 1
Data(q) == IF q = <<>> THEN 0 ELSE Len(q) - 1

Pcs == [client : {"start", "wait", "open", "refused", "closed"}, agent : {"idle", "connect", "bridge", "done"},
        guest : {"idle", "preamble", "dial", "bridge", "done"}]

TunnelTypes ==
    /\ kind \in Ports \cup {"ssh"} /\ port \in {"none", kind} /\ tpc \in Pcs
    /\ down \in [U!Links -> Seq(Items)] /\ up \in [U!Links -> Seq(Items)]
    /\ buf \in [client : Seq(Items), agent : Seq(Items), guest : Seq(Items)]
    /\ top \in [U!Links -> BOOLEAN] /\ bottom \in [U!Links -> BOOLEAN]
    /\ sent \in [down : Nat, up : Nat] /\ gotDown \in Seq(Items) /\ gotUp \in Seq(Items)
    /\ failed \in BOOLEAN /\ eof \in BOOLEAN

\* Who closes which end.
Closers ==
    /\ top[0] => tpc.client \in {"refused", "closed"}
    /\ bottom[0] => tpc.agent = "done"
    /\ top[1] => tpc.agent = "done"
    /\ bottom[1] => tpc.guest = "done"
    /\ tpc.client = "start" <=> tpc.agent = "idle"
    /\ tpc.agent = "connect" => tpc.client = "wait"
    /\ tpc.guest = "preamble" => kind # "ssh"
    /\ kind # "ssh" /\ tpc.agent \in {"idle", "connect"} => tpc.guest \notin {"dial", "bridge"}
    /\ tpc.guest = "idle" => tpc.agent # "bridge"

\* A preview's line has not been read yet.
Unread(k, g) == k # "ssh" /\ g \in {"idle", "preamble"}

Downward(k, a, g, d0, d1, d2, bg, n, gd) ==
    /\ Run(gd, 0) /\ Run(d2, Len(gd))
    /\ a \in {"idle", "connect"} => d0 = <<>> /\ d1 = <<>> /\ n = 0
    /\ g # "done" =>
        /\ IF Unread(k, g) THEN gd = <<>> /\ d2 = <<>> /\ bg = <<>> /\ Line(d1, k)
           ELSE Run(bg, Len(gd) + Len(d2)) /\ Run(d1, Len(gd) + Len(d2) + Len(bg))
        /\ a # "done" =>
            LET m == IF Unread(k, g) THEN Data(d1) ELSE Len(gd) + Len(d2) + Len(bg) + Len(d1)
            IN  Run(d0, m) /\ m + Len(d0) = n
        /\ a = "bridge" /\ Unread(k, g) => d1 # <<>>

\* What the client has or will have of the first link, and what the agent's bridge
\* has yet to copy.
Ahead(c, u0, bc, gu) == IF c = "open" THEN Len(gu) + Len(bc) + Len(u0) ELSE Data(u0)
Middle(a, u1, ba) == IF a = "bridge" THEN Len(ba) + Len(u1) ELSE Data(u1)

Upward(c, a, g, u0, u1, u2, bc, ba, n, gu, f, p) ==
    c \in {"start", "wait", "open"} =>
        /\ IF c = "open" THEN Run(bc, Len(gu)) /\ Run(u0, Len(gu) + Len(bc)) ELSE gu = <<>> /\ bc = <<>> /\ Line(u0, "101")
        /\ a \in {"idle", "connect"} => u0 = <<>> /\ ba = <<>> /\ Line(u1, "OK") /\ (u1 = <<>> <=> g = "idle")
        /\ a = "bridge" => (c = "wait" => u0 # <<>>) /\ Run(ba, Ahead(c, u0, bc, gu)) /\ Run(u1, Ahead(c, u0, bc, gu) + Len(ba))
        /\ g \notin {"bridge", "done"} => u2 = <<>> /\ n = 0
        /\ a # "done" =>
            LET m == Ahead(c, u0, bc, gu) + Middle(a, u1, ba)
            IN  /\ g # "done" => Run(u2, m) /\ m + Len(u2) = n
                /\ g = "done" /\ ~f /\ p # "none" => m = n
        /\ a = "done" /\ ~f => g = "done" /\ (p # "none" => Ahead(c, u0, bc, gu) = n)

Read == eof => tpc.client = "closed" /\ (~failed => tpc.guest = "done" /\ (port # "none" => Len(gotUp) = sent.up))

TunnelDown ==
    Downward(kind, tpc.agent, tpc.guest, down[0], down[1], down[2], buf.guest, sent.down, gotDown)
TunnelUp ==
    Upward(tpc.client, tpc.agent, tpc.guest, up[0], up[1], up[2], buf.client, buf.agent, sent.up, gotUp, failed, port)

TunnelInv == TunnelTypes /\ Closers /\ Read /\ Run(gotUp, 0) /\ TunnelDown /\ TunnelUp

(* Runs of numbers, and the line before one. *)

LEMMA RunAppend ==
    ASSUME NEW q \in Seq(Items), NEW a \in Nat, Run(q, a)
    PROVE  /\ Append(q, a + Len(q) + 1) \in Seq(Items) /\ Len(Append(q, a + Len(q) + 1)) = Len(q) + 1
           /\ Run(Append(q, a + Len(q) + 1), a)
  BY DEF Run, Items

LEMMA RunTail ==
    ASSUME NEW q \in Seq(Items), NEW a \in Nat, Run(q, a), q # <<>>
    PROVE  /\ Head(q) = a + 1 /\ Tail(q) \in Seq(Items) /\ Len(Tail(q)) = Len(q) - 1 /\ Len(q) \in Nat \ {0}
           /\ Run(Tail(q), a + 1)
  <1>1. Len(q) \in Nat /\ Len(q) # 0 /\ Tail(q) \in Seq(Items) /\ Len(Tail(q)) = Len(q) - 1
    OBVIOUS
  <1>2. Head(q) = q[1] /\ \A i \in 1 .. Len(q) - 1 : Tail(q)[i] = q[i + 1]
    OBVIOUS
  <1> QED BY <1>1, <1>2 DEF Run

LEMMA LineAppend ==
    ASSUME NEW q \in Seq(Items), NEW t \in Items, Line(q, t), q # <<>>
    PROVE  /\ Append(q, Data(q) + 1) \in Seq(Items) /\ Append(q, Data(q) + 1) # <<>>
           /\ Line(Append(q, Data(q) + 1), t) /\ Data(Append(q, Data(q) + 1)) = Data(q) + 1 /\ Data(q) \in Nat
  <1>1. Data(q) = Len(q) - 1 /\ Len(q) \in Nat \ {0}
    BY DEF Data
  <1>2. Append(q, Len(q)) \in Seq(Items) /\ Len(Append(q, Len(q))) = Len(q) + 1
    BY <1>1 DEF Items
  <1>3. Append(q, Len(q)) # <<>>
    BY <1>1, <1>2
  <1> QED BY <1>1, <1>2, <1>3 DEF Line, Data

\* A reader takes the line, and n of the items that came with it.
LEMMA LineSplit ==
    ASSUME NEW q \in Seq(Items), NEW t, Line(q, t), q # <<>>, NEW n \in Nat, n < Len(q)
    PROVE  /\ Head(q) = t /\ U!After(q, n) \in Seq(Items) /\ U!Rest(q, n) \in Seq(Items)
           /\ Len(U!After(q, n)) = n /\ Len(U!Rest(q, n)) = Data(q) - n /\ Data(q) \in Nat
           /\ Run(U!After(q, n), 0) /\ Run(U!Rest(q, n), n)
  <1>1. Len(q) \in Nat \ {0} /\ Head(q) = q[1] /\ Data(q) = Len(q) - 1
    BY DEF Data
  <1>2. /\ U!After(q, n) \in Seq(Items) /\ Len(U!After(q, n)) = n /\ \A i \in 1 .. n : U!After(q, n)[i] = q[i + 1]
    BY <1>1, SubSeqProperties DEF U!After
  <1>3. /\ U!Rest(q, n) \in Seq(Items) /\ Len(U!Rest(q, n)) = Len(q) - (n + 1)
        /\ \A i \in 1 .. Len(q) - (n + 1) : U!Rest(q, n)[i] = q[n + 1 + i]
    BY <1>1, SubSeqProperties DEF U!Rest
  <1>4. q[1] = t /\ \A j \in 2 .. Len(q) : q[j] = j - 1
    BY DEF Line
  <1>5. Run(U!After(q, n), 0)
    <2> SUFFICES ASSUME NEW i \in 1 .. n PROVE U!After(q, n)[i] = 0 + i
      BY <1>2 DEF Run
    <2>1. i + 1 \in 2 .. Len(q) /\ (i + 1) - 1 = i /\ 0 + i = i
      BY <1>1
    <2> QED BY <1>2, <1>4, <2>1
  <1>6. Run(U!Rest(q, n), n)
    <2> SUFFICES ASSUME NEW i \in 1 .. Len(q) - (n + 1) PROVE U!Rest(q, n)[i] = n + i
      BY <1>3 DEF Run
    <2>1. n + 1 + i \in 2 .. Len(q) /\ (n + 1 + i) - 1 = n + i
      BY <1>1
    <2> QED BY <1>3, <1>4, <2>1
  <1> QED BY <1>1, <1>2, <1>3, <1>4, <1>5, <1>6

(* The way to the backend. *)

DownArgs(k, a, g, d0, d1, d2, bg, n, gd) ==
    /\ k \in Items /\ a \in {"idle", "connect", "bridge", "done"} /\ g \in {"idle", "preamble", "dial", "bridge", "done"}
    /\ d0 \in Seq(Items) /\ d1 \in Seq(Items) /\ d2 \in Seq(Items) /\ bg \in Seq(Items) /\ n \in Nat /\ gd \in Seq(Items)

LEMMA DownCopiedByAgent ==
    ASSUME NEW k, NEW g, NEW d0, NEW d1, NEW d2, NEW bg, NEW n, NEW gd,
           DownArgs(k, "bridge", g, d0, d1, d2, bg, n, gd), Downward(k, "bridge", g, d0, d1, d2, bg, n, gd), d0 # <<>>
    PROVE  /\ Head(d0) \in Items /\ Tail(d0) \in Seq(Items) /\ Append(d1, Head(d0)) \in Seq(Items)
           /\ Downward(k, "bridge", g, Tail(d0), Append(d1, Head(d0)), d2, bg, n, gd)
  <1>1. Head(d0) \in Items /\ Tail(d0) \in Seq(Items) /\ Append(d1, Head(d0)) \in Seq(Items)
    BY DEF DownArgs
  <1>2. CASE g = "done"
    BY <1>1, <1>2 DEF Downward
  <1>3. CASE g # "done" /\ Unread(k, g)
    <2>1. gd = <<>> /\ d2 = <<>> /\ bg = <<>> /\ Line(d1, k) /\ d1 # <<>> /\ Run(d0, Data(d1)) /\ Data(d1) + Len(d0) = n
      BY <1>3 DEF Downward
    <2>2. Data(d1) \in Nat
      BY <2>1, LineAppend DEF DownArgs
    <2>3. Head(d0) = Data(d1) + 1 /\ Len(Tail(d0)) = Len(d0) - 1 /\ Len(d0) \in Nat \ {0} /\ Run(Tail(d0), Data(d1) + 1)
      BY <2>1, <2>2, RunTail DEF DownArgs
    <2>4. Append(d1, Head(d0)) # <<>> /\ Line(Append(d1, Head(d0)), k) /\ Data(Append(d1, Head(d0))) = Data(d1) + 1
      BY <2>1, <2>3, LineAppend DEF DownArgs
    <2> QED BY <1>1, <1>3, <2>1, <2>2, <2>3, <2>4 DEF Downward
  <1>4. CASE g # "done" /\ ~Unread(k, g)
    <2> DEFINE m == Len(gd) + Len(d2) + Len(bg)
    <2>1. Run(d1, m) /\ Run(d0, m + Len(d1)) /\ m + Len(d1) + Len(d0) = n /\ m \in Nat /\ Len(d1) \in Nat
      BY <1>4 DEF Downward, DownArgs
    <2>2. /\ Head(d0) = m + Len(d1) + 1 /\ Len(Tail(d0)) = Len(d0) - 1 /\ Len(d0) \in Nat \ {0}
          /\ Run(Tail(d0), m + Len(d1) + 1)
      <3> HIDE DEF m
      <3> DEFINE b == m + Len(d1)
      <3>1. b \in Nat /\ Run(d0, b)
        BY <2>1
      <3> HIDE DEF b
      <3>2. Head(d0) = b + 1 /\ Len(Tail(d0)) = Len(d0) - 1 /\ Len(d0) \in Nat \ {0} /\ Run(Tail(d0), b + 1)
        BY <3>1, RunTail DEF DownArgs
      <3> QED BY <3>2 DEF b
    <2>3. Len(Append(d1, Head(d0))) = Len(d1) + 1 /\ Run(Append(d1, Head(d0)), m)
      <3> HIDE DEF m
      <3> QED BY <2>1, <2>2, RunAppend DEF DownArgs
    <2>4. Run(Tail(d0), m + Len(Append(d1, Head(d0)))) /\ m + Len(Append(d1, Head(d0))) + Len(Tail(d0)) = n
      <3> HIDE DEF m
      <3>1. m + (Len(d1) + 1) = m + Len(d1) + 1
        BY <2>1
      <3> QED BY <2>1, <2>2, <2>3, <3>1
    <2> QED BY <1>1, <1>4, <2>3, <2>4 DEF Downward
  <1> QED BY <1>1, <1>2, <1>3, <1>4

LEMMA DownCopiedByGuest ==
    ASSUME NEW k, NEW a, NEW d0, NEW d1, NEW d2, NEW bg, NEW n, NEW gd,
           DownArgs(k, a, "bridge", d0, d1, d2, bg, n, gd), Downward(k, a, "bridge", d0, d1, d2, bg, n, gd)
    PROVE  /\ bg # <<>> => /\ Append(d2, Head(bg)) \in Seq(Items) /\ Tail(bg) \in Seq(Items)
                           /\ Downward(k, a, "bridge", d0, d1, Append(d2, Head(bg)), Tail(bg), n, gd)
           /\ bg = <<>> /\ d1 # <<>> =>
                /\ Append(d2, Head(d1)) \in Seq(Items) /\ Tail(d1) \in Seq(Items)
                /\ Downward(k, a, "bridge", d0, Tail(d1), Append(d2, Head(d1)), bg, n, gd)
  <1> DEFINE l == Len(gd)
             b == Len(gd) + Len(d2)
  <1>1. /\ Run(gd, 0) /\ Run(d2, l) /\ Run(bg, b) /\ Run(d1, b + Len(bg)) /\ l \in Nat /\ b \in Nat /\ b = l + Len(d2)
        /\ Len(bg) \in Nat /\ Len(d1) \in Nat /\ Len(d0) \in Nat /\ Len(d2) \in Nat
        /\ a \notin {"idle", "connect"} \/ (d0 = <<>> /\ d1 = <<>> /\ n = 0)
        /\ a # "done" => Run(d0, b + Len(bg) + Len(d1)) /\ b + Len(bg) + Len(d1) + Len(d0) = n
    BY DEF Downward, Unread, DownArgs
  <1>2. ASSUME NEW e0, NEW e1, NEW e2, NEW bh, e0 = d0, Run(e2, l), Run(bh, l + Len(e2)), Run(e1, l + Len(e2) + Len(bh)),
               l + Len(e2) + Len(bh) + Len(e1) = b + Len(bg) + Len(d1), d1 = <<>> => e1 = <<>>
        PROVE  Downward(k, a, "bridge", e0, e1, e2, bh, n, gd)
    BY <1>1, <1>2 DEF Downward, Unread
  <1> HIDE DEF l, b
  <1>3. ASSUME bg # <<>>
        PROVE  /\ Append(d2, Head(bg)) \in Seq(Items) /\ Tail(bg) \in Seq(Items)
               /\ Downward(k, a, "bridge", d0, d1, Append(d2, Head(bg)), Tail(bg), n, gd)
    <2>1. Head(bg) = b + 1 /\ Tail(bg) \in Seq(Items) /\ Len(Tail(bg)) = Len(bg) - 1 /\ Run(Tail(bg), b + 1)
      BY <1>1, <1>3, RunTail DEF DownArgs
    <2>2. Append(d2, Head(bg)) \in Seq(Items) /\ Len(Append(d2, Head(bg))) = Len(d2) + 1 /\ Run(Append(d2, Head(bg)), l)
      BY <1>1, <2>1, RunAppend DEF DownArgs
    <2>3. l + Len(Append(d2, Head(bg))) = b + 1 /\ l + Len(Append(d2, Head(bg))) + Len(Tail(bg)) = b + Len(bg)
      BY <1>1, <2>1, <2>2
    <2> QED BY <1>1, <1>2, <2>1, <2>2, <2>3
  <1>4. ASSUME bg = <<>>, d1 # <<>>
        PROVE  /\ Append(d2, Head(d1)) \in Seq(Items) /\ Tail(d1) \in Seq(Items)
               /\ Downward(k, a, "bridge", d0, Tail(d1), Append(d2, Head(d1)), bg, n, gd)
    <2>1. Run(d1, b) /\ Len(bg) = 0
      BY <1>1, <1>4
    <2>2. Head(d1) = b + 1 /\ Tail(d1) \in Seq(Items) /\ Len(Tail(d1)) = Len(d1) - 1 /\ Run(Tail(d1), b + 1)
      BY <1>1, <1>4, <2>1, RunTail DEF DownArgs
    <2>3. Append(d2, Head(d1)) \in Seq(Items) /\ Len(Append(d2, Head(d1))) = Len(d2) + 1 /\ Run(Append(d2, Head(d1)), l)
      BY <1>1, <2>2, RunAppend DEF DownArgs
    <2>4. /\ l + Len(Append(d2, Head(d1))) = b + 1 /\ l + Len(Append(d2, Head(d1))) + Len(bg) = b + 1
          /\ l + Len(Append(d2, Head(d1))) + Len(bg) + Len(Tail(d1)) = b + Len(bg) + Len(d1)
      BY <1>1, <2>1, <2>2, <2>3
    <2>5. Run(bg, b + 1)
      BY <1>4 DEF Run
    <2> QED BY <1>1, <1>2, <1>4, <2>2, <2>3, <2>4, <2>5
  <1> QED BY <1>3, <1>4

LEMMA DownReceived ==
    ASSUME NEW k, NEW a, NEW g, NEW d0, NEW d1, NEW d2, NEW bg, NEW n, NEW gd,
           DownArgs(k, a, g, d0, d1, d2, bg, n, gd), Downward(k, a, g, d0, d1, d2, bg, n, gd), d2 # <<>>
    PROVE  /\ Append(gd, Head(d2)) \in Seq(Items) /\ Tail(d2) \in Seq(Items)
           /\ Downward(k, a, g, d0, d1, Tail(d2), bg, n, Append(gd, Head(d2)))
  <1>1. Run(gd, 0) /\ Run(d2, Len(gd)) /\ Len(gd) \in Nat /\ (g # "done" => ~Unread(k, g))
    BY DEF Downward, DownArgs
  <1>2. Head(d2) = Len(gd) + 1 /\ Tail(d2) \in Seq(Items) /\ Len(Tail(d2)) = Len(d2) - 1 /\ Run(Tail(d2), Len(gd) + 1)
        /\ Len(d2) \in Nat
    BY <1>1, RunTail DEF DownArgs
  <1>3. Append(gd, Head(d2)) \in Seq(Items) /\ Len(Append(gd, Head(d2))) = Len(gd) + 1 /\ Run(Append(gd, Head(d2)), 0)
    BY <1>1, <1>2, RunAppend DEF DownArgs
  <1>4. Len(Append(gd, Head(d2))) + Len(Tail(d2)) = Len(gd) + Len(d2)
    BY <1>1, <1>2, <1>3
  <1> QED BY <1>1, <1>2, <1>3, <1>4 DEF Downward

LEMMA DownSent ==
    ASSUME NEW k, NEW a, NEW g, NEW d0, NEW d1, NEW d2, NEW bg, NEW n, NEW gd,
           DownArgs(k, a, g, d0, d1, d2, bg, n, gd), Downward(k, a, g, d0, d1, d2, bg, n, gd), a \notin {"idle", "connect"}
    PROVE  /\ Append(d0, n + 1) \in Seq(Items)
           /\ Downward(k, a, g, Append(d0, n + 1), d1, d2, bg, n + 1, gd)
  <1> DEFINE m == IF Unread(k, g) THEN Data(d1) ELSE Len(gd) + Len(d2) + Len(bg) + Len(d1)
  <1>1. m \in Nat /\ n \in Nat
    BY DEF DownArgs, Data
  <1>2. Append(d0, n + 1) \in Seq(Items)
    BY <1>1 DEF DownArgs, Items
  <1>3. g # "done" /\ a # "done" => Run(d0, m) /\ m + Len(d0) = n
    BY DEF Downward
  <1> HIDE DEF m
  <1>4. g # "done" /\ a # "done" => Run(Append(d0, n + 1), m) /\ m + Len(Append(d0, n + 1)) = n + 1
    BY <1>1, <1>3, RunAppend DEF DownArgs
  <1> QED BY <1>2, <1>4 DEF Downward, m

\* The forwarder of a preview has read the line that names the port.
LEMMA DownLineRead ==
    ASSUME NEW k, NEW a, NEW d0, NEW d1, NEW d2, NEW bg, NEW n, NEW gd, NEW i \in Nat, i < Len(d1), d1 # <<>>, k # "ssh",
           DownArgs(k, a, "preamble", d0, d1, d2, bg, n, gd), Downward(k, a, "preamble", d0, d1, d2, bg, n, gd)
    PROVE  /\ Head(d1) = k /\ U!After(d1, i) \in Seq(Items) /\ U!Rest(d1, i) \in Seq(Items)
           /\ Downward(k, a, "dial", d0, U!Rest(d1, i), d2, U!After(d1, i), n, gd)
  <1>1. /\ Unread(k, "preamble") /\ ~Unread(k, "dial") /\ gd = <<>> /\ d2 = <<>> /\ Line(d1, k)
        /\ a # "done" => Run(d0, Data(d1)) /\ Data(d1) + Len(d0) = n
        /\ a \notin {"idle", "connect"}
    BY DEF Downward, Unread
  <1>2. /\ Head(d1) = k /\ U!After(d1, i) \in Seq(Items) /\ U!Rest(d1, i) \in Seq(Items)
        /\ Len(U!After(d1, i)) = i /\ Len(U!Rest(d1, i)) = Data(d1) - i /\ Data(d1) \in Nat
        /\ Run(U!After(d1, i), 0) /\ Run(U!Rest(d1, i), i)
    BY <1>1, LineSplit DEF DownArgs
  <1>3. Len(gd) = 0 /\ Len(d2) = 0 /\ 0 + 0 + Len(U!After(d1, i)) + Len(U!Rest(d1, i)) = Data(d1) /\ 0 + 0 + i = i
    BY <1>1, <1>2
  <1> QED BY <1>1, <1>2, <1>3 DEF Downward, Run

\* The agent begins its bridge, with the line that names a preview's port.
LEMMA DownBegins ==
    ASSUME NEW k, NEW g, NEW d0, NEW d1, NEW d2, NEW bg, NEW n, NEW gd,
           DownArgs(k, "connect", g, d0, d1, d2, bg, n, gd), Downward(k, "connect", g, d0, d1, d2, bg, n, gd),
           k = "ssh" \/ Unread(k, g) \/ g = "done"
    PROVE  /\ Append(d1, k) \in Seq(Items)
           /\ Downward(k, "bridge", g, d0, IF k = "ssh" THEN d1 ELSE Append(d1, k), d2, bg, n, gd)
  <1>1. Append(d1, k) \in Seq(Items)
    BY DEF DownArgs
  <1>2. d0 = <<>> /\ d1 = <<>> /\ n = 0
    BY DEF Downward
  <1>3. CASE g = "done"
    BY <1>1, <1>3 DEF Downward
  <1>4. CASE g # "done" /\ k = "ssh"
    BY <1>1, <1>4 DEF Downward, Unread
  <1>5. CASE g # "done" /\ k # "ssh"
    <2>1. Append(d1, k) # <<>> /\ Len(Append(d1, k)) = 1 /\ Append(d1, k)[1] = k
      BY <1>2 DEF DownArgs
    <2>2. Line(Append(d1, k), k) /\ Data(Append(d1, k)) = 0 /\ Data(d1) = 0
      BY <1>2, <2>1 DEF Line, Data
    <2> QED BY <1>1, <1>2, <1>5, <2>1, <2>2 DEF Downward
  <1> QED BY <1>1, <1>3, <1>4, <1>5

\* The forwarder takes the connection, and dials: nothing moves.
LEMMA DownAccepted ==
    ASSUME NEW k, NEW a, NEW d0, NEW d1, NEW d2, NEW bg, NEW n, NEW gd, NEW g, NEW h,
           <<g, h>> = <<"idle", IF k = "ssh" THEN "dial" ELSE "preamble">> \/ <<g, h>> = <<"dial", "bridge">>,
           Downward(k, a, g, d0, d1, d2, bg, n, gd)
    PROVE  Downward(k, a, h, d0, d1, d2, bg, n, gd)
  BY DEF Downward, Unread

\* A bridge that is done copies no more, and the client's dial moves nothing.
LEMMA DownEnds ==
    ASSUME NEW k, NEW a, NEW d0, NEW d1, NEW d2, NEW bg, NEW n, NEW gd, NEW g,
           Downward(k, a, g, d0, d1, d2, bg, n, gd)
    PROVE  /\ Downward(k, "done", g, d0, d1, d2, bg, n, gd)
           /\ a = "idle" => Downward(k, "connect", g, d0, d1, d2, bg, n, gd)
           /\ \A e0, e1, bh : (a \in {"idle", "connect"} => e0 = d0 /\ e1 = d1)
                                   => Downward(k, a, "done", e0, e1, d2, bh, n, gd)
           /\ \A e0, e1, bh : Downward(k, "done", "done", e0, e1, d2, bh, n, gd)
  <1>1. Downward(k, "done", g, d0, d1, d2, bg, n, gd)
    BY DEF Downward
  <1> QED BY <1>1 DEF Downward

(* The way to the client. *)

UpArgs(c, a, g, u0, u1, u2, bc, ba, n, gu, f, p) ==
    /\ c \in {"start", "wait", "open", "refused", "closed"} /\ f \in BOOLEAN
    /\ a \in {"idle", "connect", "bridge", "done"} /\ g \in {"idle", "preamble", "dial", "bridge", "done"}
    /\ u0 \in Seq(Items) /\ u1 \in Seq(Items) /\ u2 \in Seq(Items) /\ bc \in Seq(Items) /\ ba \in Seq(Items)
    /\ n \in Nat /\ gu \in Seq(Items)

\* The agent copies x to the first link.
LEMMA UpCopied ==
    ASSUME NEW c, NEW g, NEW u0, NEW u1, NEW u2, NEW bc, NEW ba, NEW n, NEW gu, NEW f, NEW p, c \in {"start", "wait", "open"},
           UpArgs(c, "bridge", g, u0, u1, u2, bc, ba, n, gu, f, p), Upward(c, "bridge", g, u0, u1, u2, bc, ba, n, gu, f, p),
           NEW x, x = Ahead(c, u0, bc, gu) + 1, c # "start"
    PROVE  /\ Append(u0, x) \in Seq(Items) /\ Append(u0, x) # <<>> /\ Ahead(c, u0, bc, gu) \in Nat
           /\ Ahead(c, Append(u0, x), bc, gu) = Ahead(c, u0, bc, gu) + 1
           /\ IF c = "open" THEN Run(bc, Len(gu)) /\ Run(Append(u0, x), Len(gu) + Len(bc))
              ELSE gu = <<>> /\ bc = <<>> /\ Line(Append(u0, x), "101")
  <1>1. CASE c = "open"
    <2> DEFINE b == Len(gu) + Len(bc)
    <2>1. Run(bc, Len(gu)) /\ Run(u0, b) /\ b \in Nat /\ x = b + Len(u0) + 1 /\ Ahead(c, u0, bc, gu) = b + Len(u0) /\ Len(u0) \in Nat
      BY <1>1 DEF Upward, UpArgs, Ahead
    <2> HIDE DEF b
    <2>2. Append(u0, x) \in Seq(Items) /\ Run(Append(u0, x), b) /\ Len(Append(u0, x)) = Len(u0) + 1
      BY <2>1, RunAppend DEF UpArgs
    <2>3. Append(u0, x) # <<>>
      BY <2>1, <2>2
    <2>4. Ahead(c, Append(u0, x), bc, gu) = b + (Len(u0) + 1)
      BY <1>1, <2>2 DEF Ahead, b
    <2>5. Ahead(c, u0, bc, gu) \in Nat /\ b + (Len(u0) + 1) = b + Len(u0) + 1
      BY <2>1
    <2>6. Run(bc, Len(gu)) /\ Run(Append(u0, x), Len(gu) + Len(bc))
      BY <2>1, <2>2 DEF b
    <2> QED BY <1>1, <2>1, <2>2, <2>3, <2>4, <2>5, <2>6
  <1>2. CASE c = "wait"
    <2>1. gu = <<>> /\ bc = <<>> /\ Line(u0, "101") /\ u0 # <<>> /\ x = Data(u0) + 1 /\ "101" \in Items
      BY <1>2 DEF Upward, Ahead, Items
    <2>2. Append(u0, x) \in Seq(Items) /\ Append(u0, x) # <<>> /\ Line(Append(u0, x), "101")
          /\ Data(Append(u0, x)) = Data(u0) + 1 /\ Data(u0) \in Nat
      BY <2>1, LineAppend DEF UpArgs
    <2> QED BY <1>2, <2>1, <2>2 DEF Ahead
  <1> QED BY <1>1, <1>2

LEMMA UpCopiedByAgent ==
    ASSUME NEW c, NEW g, NEW u0, NEW u1, NEW u2, NEW bc, NEW ba, NEW n, NEW gu, NEW f, NEW p, c \in {"wait", "open"},
           UpArgs(c, "bridge", g, u0, u1, u2, bc, ba, n, gu, f, p), Upward(c, "bridge", g, u0, u1, u2, bc, ba, n, gu, f, p)
    PROVE  /\ ba # <<>> => /\ Append(u0, Head(ba)) \in Seq(Items) /\ Tail(ba) \in Seq(Items)
                           /\ Upward(c, "bridge", g, Append(u0, Head(ba)), u1, u2, bc, Tail(ba), n, gu, f, p)
           /\ ba = <<>> /\ u1 # <<>> =>
                /\ Append(u0, Head(u1)) \in Seq(Items) /\ Tail(u1) \in Seq(Items)
                /\ Upward(c, "bridge", g, Append(u0, Head(u1)), Tail(u1), u2, bc, ba, n, gu, f, p)
  <1> DEFINE h == Ahead(c, u0, bc, gu)
  <1>1. /\ Run(ba, h) /\ Run(u1, h + Len(ba)) /\ Len(ba) \in Nat /\ Len(u1) \in Nat /\ Len(u2) \in Nat
        /\ g \notin {"bridge", "done"} => u2 = <<>> /\ n = 0
        /\ g # "done" => Run(u2, h + (Len(ba) + Len(u1))) /\ h + (Len(ba) + Len(u1)) + Len(u2) = n
        /\ g = "done" /\ ~f /\ p # "none" => h + (Len(ba) + Len(u1)) = n
    BY DEF Upward, Middle, UpArgs
  <1>2. h \in Nat
    BY DEF Upward, Ahead, Data, UpArgs
  <1>3. /\ Append(u0, h + 1) \in Seq(Items) /\ Append(u0, h + 1) # <<>> /\ Ahead(c, Append(u0, h + 1), bc, gu) = h + 1
        /\ IF c = "open" THEN Run(bc, Len(gu)) /\ Run(Append(u0, h + 1), Len(gu) + Len(bc))
           ELSE gu = <<>> /\ bc = <<>> /\ Line(Append(u0, h + 1), "101")
    BY UpCopied
  <1> HIDE DEF h
  <1>4. ASSUME NEW v1, NEW bb, Run(bb, h + 1), Run(v1, h + 1 + Len(bb)), h + 1 + (Len(bb) + Len(v1)) = h + (Len(ba) + Len(u1))
        PROVE  Upward(c, "bridge", g, Append(u0, h + 1), v1, u2, bc, bb, n, gu, f, p)
    BY <1>1, <1>3, <1>4 DEF Upward, Middle
  <1>5. ASSUME ba # <<>>
        PROVE  /\ Append(u0, Head(ba)) \in Seq(Items) /\ Tail(ba) \in Seq(Items)
               /\ Upward(c, "bridge", g, Append(u0, Head(ba)), u1, u2, bc, Tail(ba), n, gu, f, p)
    <2>1. Head(ba) = h + 1 /\ Tail(ba) \in Seq(Items) /\ Len(Tail(ba)) = Len(ba) - 1 /\ Run(Tail(ba), h + 1)
      BY <1>1, <1>2, <1>5, RunTail DEF UpArgs
    <2>2. h + 1 + Len(Tail(ba)) = h + Len(ba) /\ h + 1 + (Len(Tail(ba)) + Len(u1)) = h + (Len(ba) + Len(u1))
      BY <1>1, <1>2, <2>1
    <2> QED BY <1>1, <1>3, <1>4, <2>1, <2>2
  <1>6. ASSUME ba = <<>>, u1 # <<>>
        PROVE  /\ Append(u0, Head(u1)) \in Seq(Items) /\ Tail(u1) \in Seq(Items)
               /\ Upward(c, "bridge", g, Append(u0, Head(u1)), Tail(u1), u2, bc, ba, n, gu, f, p)
    <2>1. Len(ba) = 0 /\ Run(u1, h) /\ Run(ba, h + 1)
      BY <1>1, <1>2, <1>6 DEF Run
    <2>2. Head(u1) = h + 1 /\ Tail(u1) \in Seq(Items) /\ Len(Tail(u1)) = Len(u1) - 1 /\ Run(Tail(u1), h + 1)
      BY <1>1, <1>2, <1>6, <2>1, RunTail DEF UpArgs
    <2>3. h + 1 + Len(ba) = h + 1 /\ h + 1 + (Len(ba) + Len(Tail(u1))) = h + (Len(ba) + Len(u1))
      BY <1>1, <1>2, <2>1, <2>2
    <2> QED BY <1>3, <1>4, <2>1, <2>2, <2>3
  <1> QED BY <1>5, <1>6

\* The forwarder copies what the backend sent.
LEMMA UpCopiedByGuest ==
    ASSUME NEW c, NEW a, NEW u0, NEW u1, NEW u2, NEW bc, NEW ba, NEW n, NEW gu, NEW f, NEW p, c \in {"start", "wait", "open"},
           UpArgs(c, a, "bridge", u0, u1, u2, bc, ba, n, gu, f, p), Upward(c, a, "bridge", u0, u1, u2, bc, ba, n, gu, f, p),
           u2 # <<>>, c = "open" => a \notin {"idle", "connect"}
    PROVE  /\ Append(u1, Head(u2)) \in Seq(Items) /\ Tail(u2) \in Seq(Items)
           /\ Upward(c, a, "bridge", u0, Append(u1, Head(u2)), Tail(u2), bc, ba, n, gu, f, p)
  <1>1. Head(u2) \in Items /\ Append(u1, Head(u2)) \in Seq(Items) /\ Tail(u2) \in Seq(Items)
    BY DEF UpArgs
  <1>2. CASE a = "done"
    BY <1>1, <1>2 DEF Upward
  <1> DEFINE h == Ahead(c, u0, bc, gu)
             m == h + Middle(a, u1, ba)
  <1>3. h \in Nat /\ Middle(a, u1, ba) \in Nat /\ Len(ba) \in Nat /\ Len(u1) \in Nat
    BY DEF Ahead, Data, Middle, UpArgs
  <1>4. /\ IF c = "open" THEN Run(bc, Len(gu)) /\ Run(u0, Len(gu) + Len(bc)) ELSE gu = <<>> /\ bc = <<>> /\ Line(u0, "101")
        /\ a # "done" => Run(u2, m) /\ m + Len(u2) = n
        /\ a = "bridge" => (c = "wait" => u0 # <<>>) /\ Run(ba, h) /\ Run(u1, h + Len(ba))
        /\ a \in {"idle", "connect"} => u0 = <<>> /\ ba = <<>> /\ Line(u1, "OK") /\ u1 # <<>>
    BY DEF Upward
  <1>5. a = "bridge" => m = h + (Len(ba) + Len(u1))
    BY DEF Middle
  <1>6. a \in {"idle", "connect"} => h = 0 /\ Middle(a, u1, ba) = Data(u1)
    <2> SUFFICES ASSUME a \in {"idle", "connect"} PROVE h = 0 /\ Middle(a, u1, ba) = Data(u1)
      OBVIOUS
    <2>1. u0 = <<>> /\ c # "open"
      BY <1>4
    <2> QED BY <2>1 DEF Ahead, Data, Middle
  <1>7. CASE a # "done"
    <2> HIDE DEF h, m
    <2>1. m \in Nat
      BY <1>3 DEF m
    <2>2. Head(u2) = m + 1 /\ Len(Tail(u2)) = Len(u2) - 1 /\ Run(Tail(u2), m + 1) /\ Len(u2) \in Nat
      BY <1>4, <1>7, <2>1, RunTail DEF UpArgs
    <2>3. m + 1 + Len(Tail(u2)) = m + Len(u2)
      BY <2>1, <2>2
    <2>4. CASE a = "bridge"
      <3> DEFINE b == h + Len(ba)
      <3>1. b \in Nat /\ Run(u1, b) /\ m + 1 = b + Len(u1) + 1
        BY <1>3, <1>4, <1>5, <2>4
      <3> HIDE DEF b
      <3>2. Len(Append(u1, Head(u2))) = Len(u1) + 1 /\ Run(Append(u1, Head(u2)), b)
        BY <2>2, <3>1, RunAppend DEF UpArgs
      <3>3. h + (Len(ba) + Len(Append(u1, Head(u2)))) = m + 1
        BY <1>3, <1>5, <2>4, <3>2
      <3> QED BY <1>1, <1>4, <2>2, <2>3, <2>4, <3>2, <3>3 DEF Upward, Middle, h, b
    <2>5. CASE a \in {"idle", "connect"}
      <3>1. m = Data(u1) /\ "OK" \in Items
        BY <1>3, <1>6, <2>5 DEF m, Items
      <3>2. /\ Append(u1, Head(u2)) # <<>> /\ Line(Append(u1, Head(u2)), "OK") /\ Data(Append(u1, Head(u2))) = Data(u1) + 1
        BY <1>4, <2>2, <2>5, <3>1, LineAppend DEF UpArgs
      <3>3. h + Data(Append(u1, Head(u2))) = m + 1
        BY <1>3, <1>6, <2>5, <2>1, <3>1, <3>2
      <3> QED BY <1>1, <1>4, <2>2, <2>3, <2>5, <3>2, <3>3 DEF Upward, Middle, h
    <2> QED BY <1>7, <2>4, <2>5 DEF UpArgs
  <1> QED BY <1>1, <1>2, <1>7

LEMMA UpSent ==
    ASSUME NEW c, NEW a, NEW g, NEW u0, NEW u1, NEW u2, NEW bc, NEW ba, NEW n, NEW gu, NEW f, NEW p, g = "bridge",
           UpArgs(c, a, g, u0, u1, u2, bc, ba, n, gu, f, p), Upward(c, a, g, u0, u1, u2, bc, ba, n, gu, f, p)
    PROVE  Append(u2, n + 1) \in Seq(Items) /\ Upward(c, a, g, u0, u1, Append(u2, n + 1), bc, ba, n + 1, gu, f, p)
  <1> DEFINE m == Ahead(c, u0, bc, gu) + Middle(a, u1, ba)
  <1>1. m \in Nat /\ n \in Nat
    <2>1. Ahead(c, u0, bc, gu) \in Nat /\ Middle(a, u1, ba) \in Nat /\ n \in Nat
      BY DEF Ahead, Middle, Data, UpArgs
    <2> QED BY <2>1
  <1>2. Append(u2, n + 1) \in Seq(Items)
    BY <1>1 DEF UpArgs, Items
  <1>3. c \in {"start", "wait", "open"} /\ a # "done" => Run(u2, m) /\ m + Len(u2) = n
    BY DEF Upward
  <1> HIDE DEF m
  <1>4. c \in {"start", "wait", "open"} /\ a # "done" => Run(Append(u2, n + 1), m) /\ m + Len(Append(u2, n + 1)) = n + 1
    BY <1>1, <1>3, RunAppend DEF UpArgs
  <1> QED BY <1>2, <1>4 DEF Upward, m

\* The client reads from the buffer of its handshake first, then from the link.
LEMMA UpReceived ==
    ASSUME NEW a, NEW g, NEW u0, NEW u1, NEW u2, NEW bc, NEW ba, NEW n, NEW gu, NEW f, NEW p,
           UpArgs("open", a, g, u0, u1, u2, bc, ba, n, gu, f, p), Upward("open", a, g, u0, u1, u2, bc, ba, n, gu, f, p),
           Run(gu, 0)
    PROVE  /\ bc # <<>> => /\ Append(gu, Head(bc)) \in Seq(Items) /\ Tail(bc) \in Seq(Items) /\ Run(Append(gu, Head(bc)), 0)
                           /\ Upward("open", a, g, u0, u1, u2, Tail(bc), ba, n, Append(gu, Head(bc)), f, p)
           /\ bc = <<>> /\ u0 # <<>> =>
                /\ Append(gu, Head(u0)) \in Seq(Items) /\ Tail(u0) \in Seq(Items) /\ Run(Append(gu, Head(u0)), 0)
                /\ a \in {"bridge", "done"} => Upward("open", a, g, Tail(u0), u1, u2, bc, ba, n, Append(gu, Head(u0)), f, p)
  <1> DEFINE l == Len(gu)
  <1>1. Run(bc, l) /\ Run(u0, l + Len(bc)) /\ l \in Nat /\ Len(bc) \in Nat /\ Len(u0) \in Nat
    BY DEF Upward, UpArgs
  <1>2. ASSUME NEW v0, NEW bb, NEW gv, Run(bb, Len(gv)), Run(v0, Len(gv) + Len(bb)),
               Len(gv) + Len(bb) + Len(v0) = l + Len(bc) + Len(u0), a \in {"idle", "connect"} => v0 = u0
        PROVE  Upward("open", a, g, v0, u1, u2, bb, ba, n, gv, f, p)
    <2>1. Ahead("open", v0, bb, gv) = Ahead("open", u0, bc, gu)
      BY <1>2 DEF Ahead
    <2> QED BY <1>2, <2>1 DEF Upward
  <1> HIDE DEF l
  <1>3. ASSUME bc # <<>>
        PROVE  /\ Append(gu, Head(bc)) \in Seq(Items) /\ Tail(bc) \in Seq(Items) /\ Run(Append(gu, Head(bc)), 0)
               /\ Upward("open", a, g, u0, u1, u2, Tail(bc), ba, n, Append(gu, Head(bc)), f, p)
    <2>1. Head(bc) = l + 1 /\ Tail(bc) \in Seq(Items) /\ Len(Tail(bc)) = Len(bc) - 1 /\ Run(Tail(bc), l + 1)
      BY <1>1, <1>3, RunTail DEF UpArgs
    <2>2. Append(gu, Head(bc)) \in Seq(Items) /\ Len(Append(gu, Head(bc))) = l + 1 /\ Run(Append(gu, Head(bc)), 0)
      BY <2>1, RunAppend DEF UpArgs, l
    <2>3. l + 1 + Len(Tail(bc)) = l + Len(bc)
      BY <1>1, <2>1
    <2> QED BY <1>1, <1>2, <2>1, <2>2, <2>3
  <1>4. ASSUME bc = <<>>, u0 # <<>>
        PROVE  /\ Append(gu, Head(u0)) \in Seq(Items) /\ Tail(u0) \in Seq(Items) /\ Run(Append(gu, Head(u0)), 0)
               /\ a \in {"bridge", "done"} => Upward("open", a, g, Tail(u0), u1, u2, bc, ba, n, Append(gu, Head(u0)), f, p)
    <2>1. Len(bc) = 0 /\ Run(u0, l) /\ Run(bc, l + 1)
      BY <1>1, <1>4 DEF Run
    <2>2. Head(u0) = l + 1 /\ Tail(u0) \in Seq(Items) /\ Len(Tail(u0)) = Len(u0) - 1 /\ Run(Tail(u0), l + 1)
      BY <1>1, <1>4, <2>1, RunTail DEF UpArgs
    <2>3. Append(gu, Head(u0)) \in Seq(Items) /\ Len(Append(gu, Head(u0))) = l + 1 /\ Run(Append(gu, Head(u0)), 0)
      BY <2>2, RunAppend DEF UpArgs, l
    <2>4. l + 1 + Len(bc) = l + 1 /\ l + 1 + Len(bc) + Len(Tail(u0)) = l + Len(bc) + Len(u0)
      BY <1>1, <2>1, <2>2
    <2> QED BY <1>2, <2>1, <2>2, <2>3, <2>4
  <1> QED BY <1>3, <1>4

\* The client has read the response headers, and i items that came with them.
LEMMA UpLineRead ==
    ASSUME NEW a, NEW g, NEW u0, NEW u1, NEW u2, NEW bc, NEW ba, NEW n, NEW gu, NEW f, NEW p, NEW i \in Nat, i < Len(u0), u0 # <<>>,
           UpArgs("wait", a, g, u0, u1, u2, bc, ba, n, gu, f, p), Upward("wait", a, g, u0, u1, u2, bc, ba, n, gu, f, p)
    PROVE  /\ U!After(u0, i) \in Seq(Items) /\ U!Rest(u0, i) \in Seq(Items)
           /\ Upward("open", a, g, U!Rest(u0, i), u1, u2, U!After(u0, i), ba, n, gu, f, p)
  <1>1. gu = <<>> /\ bc = <<>> /\ Line(u0, "101") /\ a \notin {"idle", "connect"} /\ Ahead("wait", u0, bc, gu) = Data(u0)
    BY DEF Upward, Ahead
  <1>2. /\ U!After(u0, i) \in Seq(Items) /\ U!Rest(u0, i) \in Seq(Items)
        /\ Len(U!After(u0, i)) = i /\ Len(U!Rest(u0, i)) = Data(u0) - i /\ Data(u0) \in Nat
        /\ Run(U!After(u0, i), 0) /\ Run(U!Rest(u0, i), i)
    BY <1>1, LineSplit DEF UpArgs
  <1>3. Len(gu) = 0 /\ 0 + i = i /\ Ahead("open", U!Rest(u0, i), U!After(u0, i), gu) = Data(u0)
    BY <1>1, <1>2 DEF Ahead
  <1> QED BY <1>1, <1>2, <1>3 DEF Upward

\* The agent has read the OK line, keeps the i items that came with it, and answers.
LEMMA UpBegins ==
    ASSUME NEW c, NEW g, NEW u0, NEW u1, NEW u2, NEW bc, NEW ba, NEW n, NEW gu, NEW f, NEW p, NEW i \in Nat, i < Len(u1), u1 # <<>>,
           c = "wait", UpArgs(c, "connect", g, u0, u1, u2, bc, ba, n, gu, f, p), Upward(c, "connect", g, u0, u1, u2, bc, ba, n, gu, f, p)
    PROVE  /\ U!After(u1, i) \in Seq(Items) /\ U!Rest(u1, i) \in Seq(Items) /\ Append(u0, "101") \in Seq(Items)
           /\ Upward(c, "bridge", g, Append(u0, "101"), U!Rest(u1, i), u2, bc, U!After(u1, i), n, gu, f, p)
  <1>1. gu = <<>> /\ bc = <<>> /\ u0 = <<>> /\ Line(u1, "OK") /\ Ahead(c, u0, bc, gu) = 0 /\ Middle("connect", u1, ba) = Data(u1)
    BY DEF Upward, Ahead, Middle, Data
  <1>2. /\ U!After(u1, i) \in Seq(Items) /\ U!Rest(u1, i) \in Seq(Items)
        /\ Len(U!After(u1, i)) = i /\ Len(U!Rest(u1, i)) = Data(u1) - i /\ Data(u1) \in Nat
        /\ Run(U!After(u1, i), 0) /\ Run(U!Rest(u1, i), i)
    BY <1>1, LineSplit DEF UpArgs
  <1>3. /\ Append(u0, "101") \in Seq(Items) /\ Append(u0, "101") # <<>> /\ Len(Append(u0, "101")) = 1
        /\ Append(u0, "101")[1] = "101"
    BY <1>1 DEF UpArgs, Items
  <1>4. Line(Append(u0, "101"), "101") /\ Ahead(c, Append(u0, "101"), bc, gu) = 0
    BY <1>3 DEF Line, Ahead, Data
  <1>5. Middle("bridge", U!Rest(u1, i), U!After(u1, i)) = Data(u1)
    BY <1>2 DEF Middle
  <1> QED BY <1>1, <1>2, <1>3, <1>4, <1>5 DEF Upward

\* The forwarder takes the connection, and Firecracker answers OK.
LEMMA UpAccepted ==
    ASSUME NEW c, NEW h \in {"dial", "preamble"}, NEW u0, NEW u1, NEW u2, NEW bc, NEW ba, NEW n, NEW gu, NEW f, NEW p, c = "wait",
           UpArgs(c, "connect", "idle", u0, u1, u2, bc, ba, n, gu, f, p), Upward(c, "connect", "idle", u0, u1, u2, bc, ba, n, gu, f, p)
    PROVE  Append(u1, "OK") \in Seq(Items) /\ Upward(c, "connect", h, u0, Append(u1, "OK"), u2, bc, ba, n, gu, f, p)
  <1>1. gu = <<>> /\ bc = <<>> /\ u0 = <<>> /\ u1 = <<>> /\ u2 = <<>> /\ n = 0 /\ ba = <<>> /\ Line(u0, "101") /\ "OK" \in Items
    BY DEF Upward, Items
  <1>2. Append(u1, "OK") \in Seq(Items) /\ Append(u1, "OK") # <<>> /\ Len(Append(u1, "OK")) = 1 /\ Append(u1, "OK")[1] = "OK"
    BY <1>1 DEF UpArgs
  <1>3. Line(Append(u1, "OK"), "OK") /\ Middle("connect", Append(u1, "OK"), ba) = 0 /\ Ahead(c, u0, bc, gu) = 0
    BY <1>1, <1>2 DEF Line, Data, Middle, Ahead
  <1> QED BY <1>1, <1>2, <1>3 DEF Upward, Run

\* The client dials; the forwarder reads its line and dials its backend: nothing moves.
LEMMA UpDialled ==
    ASSUME NEW c, NEW a, NEW g, NEW u0, NEW u1, NEW u2, NEW bc, NEW ba, NEW n, NEW gu, NEW f, NEW p, NEW r,
           Upward(c, a, g, u0, u1, u2, bc, ba, n, gu, f, p)
    PROVE  /\ c = "start" /\ a = "idle" => Upward("wait", "connect", g, u0, u1, u2, bc, ba, n, gu, f, p)
           /\ g = "preamble" => Upward(c, a, "dial", u0, u1, u2, bc, ba, n, gu, f, r)
           /\ g = "dial" => Upward(c, a, "bridge", u0, u1, u2, bc, ba, n, gu, f, r)
  BY DEF Upward, Ahead, Middle

\* The forwarder is done: it dialled in vain, it has copied all the backend sent, or a
\* write to the backend failed.
LEMMA UpGuestEnds ==
    ASSUME NEW c, NEW a, NEW g, NEW u0, NEW u1, NEW u2, NEW bc, NEW ba, NEW n, NEW gu, NEW f, NEW p,
           UpArgs(c, a, g, u0, u1, u2, bc, ba, n, gu, f, p), Upward(c, a, g, u0, u1, u2, bc, ba, n, gu, f, p),
           g \in {"preamble", "dial", "bridge"}
    PROVE  /\ Upward(c, a, "done", u0, u1, u2, bc, ba, n, gu, f, "none")
           /\ u2 = <<>> => Upward(c, a, "done", u0, u1, u2, bc, ba, n, gu, f, p)
           /\ Upward(c, a, "done", u0, u1, u2, bc, ba, n, gu, TRUE, p)
  <1>1. Ahead(c, u0, bc, gu) + Middle(a, u1, ba) \in Nat
    <2>1. Ahead(c, u0, bc, gu) \in Nat /\ Middle(a, u1, ba) \in Nat
      BY DEF Ahead, Middle, Data, UpArgs
    <2> QED BY <2>1
  <1>2. /\ Upward(c, a, "done", u0, u1, u2, bc, ba, n, gu, f, "none")
        /\ Upward(c, a, "done", u0, u1, u2, bc, ba, n, gu, TRUE, p)
    BY DEF Upward
  <1>3. u2 = <<>> => Upward(c, a, "done", u0, u1, u2, bc, ba, n, gu, f, p)
    BY <1>1 DEF Upward
  <1> QED BY <1>2, <1>3

\* The agent's bridge is done already.
LEMMA UpBothEnd ==
    ASSUME NEW c, NEW a, NEW g, NEW u0, NEW u1, NEW u2, NEW bc, NEW ba, NEW n, NEW gu, NEW f, NEW p, NEW v1, NEW v2,
           Upward(c, a, g, u0, u1, u2, bc, ba, n, gu, f, p), g \in {"preamble", "dial", "bridge"}, a = "done"
    PROVE  Upward(c, a, "done", u0, v1, v2, bc, ba, n, gu, f, p)
  BY DEF Upward

\* The agent's bridge is done: a write met a closed connection, or the forwarder is
\* done and all it sent has been copied.
LEMMA UpAgentEnds ==
    ASSUME NEW c, NEW g, NEW u0, NEW u1, NEW u2, NEW bc, NEW ba, NEW n, NEW gu, NEW f, NEW p,
           UpArgs(c, "bridge", g, u0, u1, u2, bc, ba, n, gu, f, p), Upward(c, "bridge", g, u0, u1, u2, bc, ba, n, gu, f, p)
    PROVE  /\ Upward(c, "done", g, u0, u1, u2, bc, ba, n, gu, TRUE, p)
           /\ g = "done" /\ ba = <<>> /\ u1 = <<>> => Upward(c, "done", g, u0, u1, u2, bc, ba, n, gu, f, p)
  <1>1. Upward(c, "done", g, u0, u1, u2, bc, ba, n, gu, TRUE, p)
    BY DEF Upward
  <1>2. ba = <<>> /\ u1 = <<>> => Ahead(c, u0, bc, gu) \in Nat /\ Ahead(c, u0, bc, gu) + Middle("bridge", u1, ba) = Ahead(c, u0, bc, gu)
    BY DEF Ahead, Middle, Data, UpArgs
  <1>3. g = "done" /\ ba = <<>> /\ u1 = <<>> => Upward(c, "done", g, u0, u1, u2, bc, ba, n, gu, f, p)
    BY <1>2 DEF Upward
  <1> QED BY <1>1, <1>3

\* Nothing is promised to a client that has gone.
LEMMA UpGone ==
    ASSUME NEW c \in {"refused", "closed"}, NEW a, NEW g, NEW u0, NEW u1, NEW u2, NEW bc, NEW ba, NEW n, NEW gu, NEW f, NEW p
    PROVE  Upward(c, a, g, u0, u1, u2, bc, ba, n, gu, f, p)
  BY DEF Upward

(* The steps. *)

LEMMA TunnelInit == ASSUME U!Init PROVE TunnelInv
  <1>1. /\ kind \in Ports \cup {"ssh"} /\ tpc = [client |-> "start", agent |-> "idle", guest |-> "idle"] /\ port = "none"
        /\ \A l \in U!Links : down[l] = <<>> /\ up[l] = <<>> /\ ~top[l] /\ ~bottom[l]
        /\ buf = [client |-> <<>>, agent |-> <<>>, guest |-> <<>>]
        /\ sent = [down |-> 0, up |-> 0] /\ gotDown = <<>> /\ gotUp = <<>> /\ failed = FALSE /\ eof = FALSE /\ U!Links = 0 .. 2
    BY DEF U!Init, U!Links
  <1>2. TunnelTypes
    <2>1. <<>> \in Seq(Items) /\ 0 \in Nat /\ U!Links = 0 .. 2
      BY <1>1
    <2>2. down \in [U!Links -> Seq(Items)] /\ up \in [U!Links -> Seq(Items)]
      BY <2>1 DEF U!Init
    <2>3. top \in [U!Links -> BOOLEAN] /\ bottom \in [U!Links -> BOOLEAN]
      BY DEF U!Init
    <2>4. buf \in [client : Seq(Items), agent : Seq(Items), guest : Seq(Items)] /\ sent \in [down : Nat, up : Nat]
      BY <1>1, <2>1
    <2>5. tpc \in Pcs
      BY <1>1 DEF Pcs
    <2> QED BY <1>1, <2>1, <2>2, <2>3, <2>4, <2>5 DEF TunnelTypes
  <1>3. Closers /\ Read /\ Run(gotUp, 0)
    BY <1>1 DEF Closers, Read, Run
  <1>4. Len(<<>>) = 0 /\ Data(<<>>) = 0 /\ (\A i : Run(<<>>, i)) /\ (\A t : Line(<<>>, t))
    BY DEF Run, Line, Data
  <1>5. \A k : Downward(k, "idle", "idle", <<>>, <<>>, <<>>, <<>>, 0, <<>>)
    BY <1>4 DEF Downward
  <1>6. Upward("start", "idle", "idle", <<>>, <<>>, <<>>, <<>>, <<>>, 0, <<>>, FALSE, "none")
    BY <1>4 DEF Upward, Ahead, Middle
  <1>7. TunnelDown
    BY <1>1, <1>5 DEF TunnelDown
  <1>8. TunnelUp
    <2>1. /\ tpc.client = "start" /\ tpc.agent = "idle" /\ tpc.guest = "idle" /\ up[0] = <<>> /\ up[1] = <<>> /\ up[2] = <<>>
          /\ buf.client = <<>> /\ buf.agent = <<>> /\ sent.up = 0
      BY <1>1
    <2>2. gotUp = <<>> /\ failed = FALSE /\ port = "none"
      BY <1>1, Zenon
    <2> QED BY <1>6, <2>1, <2>2, Zenon DEF TunnelUp
  <1> QED BY <1>2, <1>3, <1>7, <1>8 DEF TunnelInv

LEMMA TunnelStays == ASSUME TunnelInv, UNCHANGED uvars PROVE TunnelInv'
  BY DEF uvars, TunnelInv, TunnelTypes, Closers, Read, TunnelDown, TunnelUp, Run

LEMMA Flags ==
    ASSUME TunnelTypes
    PROVE  U!Links = 0 .. 2 /\ top \in [0 .. 2 -> BOOLEAN] /\ bottom \in [0 .. 2 -> BOOLEAN]
  BY DEF TunnelTypes, U!Links

Put(r, q, i, x) == r = [q EXCEPT ![i] = x]

LEMMA PutLink ==
    ASSUME NEW q \in [U!Links -> Seq(Items)], NEW i \in {0, 1, 2}, NEW x \in Seq(Items), NEW r, Put(r, q, i, x)
    PROVE  /\ r \in [U!Links -> Seq(Items)] /\ r[i] = x
           /\ i # 0 => r[0] = q[0]
           /\ i # 1 => r[1] = q[1]
           /\ i # 2 => r[2] = q[2]
  BY DEF U!Links, Put

LEMMA TunnelArgs ==
    ASSUME TunnelInv
    PROVE  /\ DownArgs(kind, tpc.agent, tpc.guest, down[0], down[1], down[2], buf.guest, sent.down, gotDown)
           /\ UpArgs(tpc.client, tpc.agent, tpc.guest, up[0], up[1], up[2], buf.client, buf.agent, sent.up, gotUp, failed, port)
  <1>1. U!Links = 0 .. 2 /\ kind \in Items
    BY DEF U!Links, TunnelInv, TunnelTypes, Items
  <1> QED BY <1>1 DEF TunnelInv, TunnelTypes, Pcs, DownArgs, UpArgs

LEMMA DialAgentKeeps == ASSUME TunnelInv, U!DialAgent PROVE TunnelInv'
  <1>1. /\ tpc.client = "start" /\ tpc.agent = "idle" /\ tpc' = [tpc EXCEPT !.client = "wait", !.agent = "connect"]
        /\ UNCHANGED <<kind, down, up, buf, top, bottom, port, sent, gotDown, gotUp, failed, eof>>
    BY DEF U!DialAgent, TunnelInv, Closers
  <1>2. tpc' \in Pcs /\ tpc'.client = "wait" /\ tpc'.agent = "connect" /\ tpc'.guest = tpc.guest
    BY <1>1 DEF TunnelInv, TunnelTypes, Pcs
  <1>3. TunnelTypes' /\ Read' /\ Run(gotUp, 0)'
    BY <1>1, <1>2 DEF TunnelInv, TunnelTypes, Read, Run
  <1>4. Closers'
    BY <1>1, <1>2 DEF TunnelInv, Closers
  <1>5. TunnelDown'
    BY <1>1, <1>2, DownEnds DEF TunnelInv, TunnelDown
  <1>6. TunnelUp'
    BY <1>1, <1>2, UpDialled DEF TunnelInv, TunnelUp
  <1> QED BY <1>3, <1>4, <1>5, <1>6 DEF TunnelInv

LEMMA RefuseKeeps == ASSUME TunnelInv, U!Refuse PROVE TunnelInv'
  <1>1. /\ tpc.agent = "connect" /\ tpc.client = "wait" /\ tpc' = [tpc EXCEPT !.client = "refused", !.agent = "done"]
        /\ top' = [top EXCEPT ![0] = TRUE, ![1] = tpc.guest # "idle"] /\ bottom' = [bottom EXCEPT ![0] = TRUE]
        /\ UNCHANGED <<kind, down, up, buf, port, sent, gotDown, gotUp, failed, eof>>
    BY DEF U!Refuse, TunnelInv, Closers
  <1>2. tpc' \in Pcs /\ tpc'.client = "refused" /\ tpc'.agent = "done" /\ tpc'.guest = tpc.guest
    BY <1>1 DEF TunnelInv, TunnelTypes, Pcs
  <1>3. TunnelTypes' /\ Read' /\ Run(gotUp, 0)'
    <2>1. top' \in [U!Links -> BOOLEAN] /\ bottom' \in [U!Links -> BOOLEAN]
      BY <1>1 DEF TunnelInv, TunnelTypes
    <2> QED BY <1>1, <1>2, <2>1 DEF TunnelInv, TunnelTypes, Read, Run
  <1>4. Closers'
    BY <1>1, <1>2 DEF TunnelInv, TunnelTypes, U!Links, Closers
  <1>5. TunnelDown'
    BY <1>1, <1>2, DownEnds DEF TunnelInv, TunnelDown
  <1>6. TunnelUp'
    BY <1>1, <1>2, UpGone DEF TunnelInv, TunnelUp
  <1> QED BY <1>3, <1>4, <1>5, <1>6 DEF TunnelInv

LEMMA ConnectKeeps == ASSUME TunnelInv, U!Connect PROVE TunnelInv'
  <1>1. /\ tpc.agent = "connect" /\ tpc.guest = "idle" /\ tpc.client = "wait" /\ up' = [up EXCEPT ![1] = Append(@, "OK")]
        /\ tpc' = [tpc EXCEPT !.guest = IF kind = "ssh" THEN "dial" ELSE "preamble"]
        /\ UNCHANGED <<kind, down, buf, top, bottom, port, sent, gotDown, gotUp, failed, eof>>
    BY DEF U!Connect, U!Accepted, TunnelInv, Closers
  <1>2. /\ tpc' \in Pcs /\ tpc'.client = "wait" /\ tpc'.agent = "connect"
        /\ tpc'.guest = IF kind = "ssh" THEN "dial" ELSE "preamble"
    BY <1>1 DEF TunnelInv, TunnelTypes, Pcs
  <1>3. /\ Append(up[1], "OK") \in Seq(Items)
        /\ Upward(tpc.client, "connect", IF kind = "ssh" THEN "dial" ELSE "preamble", up[0], Append(up[1], "OK"), up[2],
                  buf.client, buf.agent, sent.up, gotUp, failed, port)
    BY <1>1, TunnelArgs, UpAccepted DEF TunnelInv, TunnelUp
  <1>4. up' \in [U!Links -> Seq(Items)] /\ up'[0] = up[0] /\ up'[1] = Append(up[1], "OK") /\ up'[2] = up[2]
    <2>1. PICK z : z = Append(up[1], "OK")
      OBVIOUS
    <2>2. z \in Seq(Items) /\ Put(up', up, 1, z) /\ up \in [U!Links -> Seq(Items)]
      BY <1>1, <1>3, <2>1 DEF Put, TunnelInv, TunnelTypes
    <2>3. up' \in [U!Links -> Seq(Items)] /\ up'[0] = up[0] /\ up'[1] = z /\ up'[2] = up[2]
      BY <2>2, PutLink
    <2> QED BY <2>1, <2>3
  <1>5. TunnelTypes' /\ Read' /\ Run(gotUp, 0)'
    BY <1>1, <1>2, <1>4 DEF TunnelInv, TunnelTypes, Read, Run
  <1>6. Closers'
    BY <1>1, <1>2 DEF TunnelInv, Closers
  <1>7. TunnelDown'
    BY <1>1, <1>2, DownAccepted DEF TunnelInv, TunnelDown
  <1>8. TunnelUp'
    BY <1>1, <1>2, <1>3, <1>4 DEF TunnelUp
  <1> QED BY <1>5, <1>6, <1>7, <1>8 DEF TunnelInv

LEMMA ReadOKKeeps == ASSUME TunnelInv, NEW n \in Nat, U!ReadOK(n) PROVE TunnelInv'
  <1>1. /\ tpc.agent = "connect" /\ tpc.client = "wait" /\ up[1] # <<>> /\ n < Len(up[1]) /\ tpc' = [tpc EXCEPT !.agent = "bridge"]
        /\ buf' = [buf EXCEPT !.agent = U!After(up[1], n)]
        /\ up' = [up EXCEPT ![1] = U!Rest(@, n), ![0] = Append(@, "101")]
        /\ down' = [down EXCEPT ![1] = IF kind = "ssh" THEN @ ELSE Append(@, kind)]
        /\ UNCHANGED <<kind, top, bottom, port, sent, gotDown, gotUp, failed, eof>>
    BY DEF U!ReadOK, TunnelInv, Closers
  <1>2. tpc' \in Pcs /\ tpc'.client = "wait" /\ tpc'.agent = "bridge" /\ tpc'.guest = tpc.guest
    BY <1>1 DEF TunnelInv, TunnelTypes, Pcs
  <1>3. /\ U!After(up[1], n) \in Seq(Items) /\ U!Rest(up[1], n) \in Seq(Items) /\ Append(up[0], "101") \in Seq(Items)
        /\ Upward(tpc.client, "bridge", tpc.guest, Append(up[0], "101"), U!Rest(up[1], n), up[2],
                  buf.client, U!After(up[1], n), sent.up, gotUp, failed, port)
    BY <1>1, TunnelArgs, UpBegins DEF TunnelInv, TunnelUp
  <1>4. tpc.guest # "idle"
    BY <1>1 DEF TunnelInv, TunnelUp, Upward
  <1>5. tpc.guest \in {"preamble", "dial", "bridge", "done"} /\ (tpc.guest = "preamble" => kind # "ssh")
    BY <1>4 DEF TunnelInv, TunnelTypes, Pcs, Closers
  <1>6. kind = "ssh" \/ Unread(kind, tpc.guest) \/ tpc.guest = "done"
    BY <1>1, <1>5 DEF TunnelInv, Closers, Unread
  <1>7. /\ Append(down[1], kind) \in Seq(Items)
        /\ Downward(kind, "bridge", tpc.guest, down[0], IF kind = "ssh" THEN down[1] ELSE Append(down[1], kind), down[2],
                    buf.guest, sent.down, gotDown)
    BY <1>1, <1>6, TunnelArgs, DownBegins DEF TunnelInv, TunnelDown
  <1>8. up' \in [U!Links -> Seq(Items)] /\ up'[0] = Append(up[0], "101") /\ up'[1] = U!Rest(up[1], n) /\ up'[2] = up[2]
    <2>1. up \in [U!Links -> Seq(Items)]
      BY DEF TunnelInv, TunnelTypes
    <2>2. PICK u : Put(u, up, 1, U!Rest(up[1], n))
      BY DEF Put
    <2>3. u \in [U!Links -> Seq(Items)] /\ u[0] = up[0] /\ u[1] = U!Rest(up[1], n) /\ u[2] = up[2]
      BY <1>3, <2>1, <2>2, PutLink
    <2>4. up' = [[up EXCEPT ![1] = U!Rest(up[1], n)] EXCEPT ![0] = Append(up[0], "101")]
      BY <1>1, <2>1, <2>3
    <2>5. PICK x : x = Append(up[0], "101") /\ x \in Seq(Items)
      BY <1>3
    <2>6. Put(up', u, 0, x)
      BY <2>2, <2>4, <2>5, Zenon DEF Put
    <2>7. up' \in [U!Links -> Seq(Items)] /\ up'[0] = x /\ up'[1] = u[1] /\ up'[2] = u[2]
      <3>1. u \in [U!Links -> Seq(Items)] /\ x \in Seq(Items)
        BY <2>3, <2>5
      <3> QED BY <3>1, <2>6, PutLink
    <2> QED BY <2>3, <2>5, <2>7
  <1>9. /\ down' \in [U!Links -> Seq(Items)] /\ down'[0] = down[0] /\ down'[2] = down[2]
        /\ down'[1] = IF kind = "ssh" THEN down[1] ELSE Append(down[1], kind)
    <2> DEFINE x == IF kind = "ssh" THEN down[1] ELSE Append(down[1], kind)
    <2>1. down \in [U!Links -> Seq(Items)] /\ down[1] \in Seq(Items)
      BY DEF TunnelInv, TunnelTypes, U!Links
    <2>2. x \in Seq(Items) /\ Put(down', down, 1, x)
      BY <1>1, <1>7, <2>1 DEF Put
    <2> HIDE DEF x
    <2>3. down' \in [U!Links -> Seq(Items)] /\ down'[0] = down[0] /\ down'[2] = down[2] /\ down'[1] = x
      BY <2>1, <2>2, PutLink
    <2> QED BY <2>3 DEF x
  <1>10. /\ buf' \in [client : Seq(Items), agent : Seq(Items), guest : Seq(Items)]
         /\ buf'.client = buf.client /\ buf'.agent = U!After(up[1], n) /\ buf'.guest = buf.guest
    BY <1>1, <1>3 DEF TunnelInv, TunnelTypes
  <1>11. TunnelTypes' /\ Read' /\ Run(gotUp, 0)'
    BY <1>1, <1>2, <1>8, <1>9, <1>10 DEF TunnelInv, TunnelTypes, Read, Run
  <1>12. Closers'
    BY <1>1, <1>2, <1>4 DEF TunnelInv, Closers
  <1>13. TunnelDown'
    BY <1>1, <1>2, <1>7, <1>9, <1>10 DEF TunnelDown
  <1>14. TunnelUp'
    BY <1>1, <1>2, <1>3, <1>8, <1>10 DEF TunnelUp
  <1> QED BY <1>11, <1>12, <1>13, <1>14 DEF TunnelInv

LEMMA Read101Keeps == ASSUME TunnelInv, NEW n \in Nat, U!Read101(n) PROVE TunnelInv'
  <1>1. /\ tpc.client = "wait" /\ up[0] # <<>> /\ n < Len(up[0]) /\ tpc' = [tpc EXCEPT !.client = "open"]
        /\ buf' = [buf EXCEPT !.client = U!After(up[0], n)] /\ up' = [up EXCEPT ![0] = U!Rest(@, n)]
        /\ UNCHANGED <<kind, down, top, bottom, port, sent, gotDown, gotUp, failed, eof>>
    BY DEF U!Read101
  <1>2. tpc' \in Pcs /\ tpc'.client = "open" /\ tpc'.agent = tpc.agent /\ tpc'.guest = tpc.guest
    BY <1>1 DEF TunnelInv, TunnelTypes, Pcs
  <1>3. /\ U!After(up[0], n) \in Seq(Items) /\ U!Rest(up[0], n) \in Seq(Items)
        /\ Upward("open", tpc.agent, tpc.guest, U!Rest(up[0], n), up[1], up[2],
                  U!After(up[0], n), buf.agent, sent.up, gotUp, failed, port)
    BY <1>1, TunnelArgs, UpLineRead DEF TunnelInv, TunnelUp
  <1>4. tpc.agent \notin {"idle", "connect"}
    BY <1>1 DEF TunnelInv, TunnelUp, Upward
  <1>5. up' \in [U!Links -> Seq(Items)] /\ up'[0] = U!Rest(up[0], n) /\ up'[1] = up[1] /\ up'[2] = up[2]
    <2>1. up \in [U!Links -> Seq(Items)]
      BY DEF TunnelInv, TunnelTypes
    <2>2. Put(up', up, 0, U!Rest(up[0], n))
      BY <1>1 DEF Put
    <2> QED BY <1>3, <2>1, <2>2, PutLink
  <1>6. /\ buf' \in [client : Seq(Items), agent : Seq(Items), guest : Seq(Items)]
        /\ buf'.client = U!After(up[0], n) /\ buf'.agent = buf.agent /\ buf'.guest = buf.guest
    BY <1>1, <1>3 DEF TunnelInv, TunnelTypes
  <1>7. TunnelTypes' /\ Read' /\ Run(gotUp, 0)'
    BY <1>1, <1>2, <1>5, <1>6 DEF TunnelInv, TunnelTypes, Read, Run
  <1>8. Closers'
    BY <1>1, <1>2, <1>4 DEF TunnelInv, Closers
  <1>9. TunnelDown'
    BY <1>1, <1>2, <1>6 DEF TunnelInv, TunnelDown
  <1>10. TunnelUp'
    BY <1>1, <1>2, <1>3, <1>5, <1>6 DEF TunnelUp
  <1> QED BY <1>7, <1>8, <1>9, <1>10 DEF TunnelInv

LEMMA ReadPreambleKeeps == ASSUME TunnelInv, NEW n \in Nat, U!ReadPreamble(n) PROVE TunnelInv'
  <1>1. /\ tpc.guest = "preamble" /\ kind # "ssh" /\ down[1] # <<>> /\ n < Len(down[1]) /\ tpc' = [tpc EXCEPT !.guest = "dial"]
        /\ port' = Head(down[1]) /\ buf' = [buf EXCEPT !.guest = U!After(down[1], n)]
        /\ down' = [down EXCEPT ![1] = U!Rest(@, n)]
        /\ UNCHANGED <<kind, up, top, bottom, sent, gotDown, gotUp, failed, eof>>
    BY DEF U!ReadPreamble, TunnelInv, Closers
  <1>2. tpc' \in Pcs /\ tpc'.client = tpc.client /\ tpc'.agent = tpc.agent /\ tpc'.guest = "dial"
    BY <1>1 DEF TunnelInv, TunnelTypes, Pcs
  <1>3. /\ Head(down[1]) = kind /\ U!After(down[1], n) \in Seq(Items) /\ U!Rest(down[1], n) \in Seq(Items)
        /\ Downward(kind, tpc.agent, "dial", down[0], U!Rest(down[1], n), down[2], U!After(down[1], n), sent.down, gotDown)
    BY <1>1, TunnelArgs, DownLineRead DEF TunnelInv, TunnelDown
  <1>4. down' \in [U!Links -> Seq(Items)] /\ down'[0] = down[0] /\ down'[1] = U!Rest(down[1], n) /\ down'[2] = down[2]
    <2>1. down \in [U!Links -> Seq(Items)]
      BY DEF TunnelInv, TunnelTypes
    <2>2. Put(down', down, 1, U!Rest(down[1], n))
      BY <1>1 DEF Put
    <2> QED BY <1>3, <2>1, <2>2, PutLink
  <1>5. /\ buf' \in [client : Seq(Items), agent : Seq(Items), guest : Seq(Items)]
        /\ buf'.client = buf.client /\ buf'.agent = buf.agent /\ buf'.guest = U!After(down[1], n)
    BY <1>1, <1>3 DEF TunnelInv, TunnelTypes
  <1>6. TunnelTypes' /\ Run(gotUp, 0)'
    BY <1>1, <1>2, <1>3, <1>4, <1>5 DEF TunnelInv, TunnelTypes, Run
  <1>7. Read'
    BY <1>1, <1>2 DEF TunnelInv, Read
  <1>8. Closers'
    <2>1. tpc.agent \notin {"idle", "connect"}
      BY <1>1 DEF TunnelInv, TunnelDown, Downward
    <2> QED BY <1>1, <1>2, <2>1 DEF TunnelInv, Closers
  <1>9. TunnelDown'
    BY <1>1, <1>2, <1>3, <1>4, <1>5 DEF TunnelDown
  <1>10. TunnelUp'
    BY <1>1, <1>2, <1>5, UpDialled DEF TunnelInv, TunnelUp
  <1> QED BY <1>6, <1>7, <1>8, <1>9, <1>10 DEF TunnelInv

LEMMA NoPreambleKeeps == ASSUME TunnelInv, U!NoPreamble PROVE TunnelInv'
  <1>1. /\ tpc.guest = "preamble" /\ tpc.agent = "done" /\ tpc' = [tpc EXCEPT !.guest = "done"]
        /\ bottom' = [bottom EXCEPT ![1] = TRUE]
        /\ UNCHANGED <<kind, down, up, buf, top, port, sent, gotDown, gotUp, failed, eof>>
    BY DEF U!NoPreamble, TunnelInv, Closers
  <1>2. tpc' \in Pcs /\ tpc'.client = tpc.client /\ tpc'.agent = tpc.agent /\ tpc'.guest = "done"
    BY <1>1 DEF TunnelInv, TunnelTypes, Pcs
  <1>3. bottom' \in [U!Links -> BOOLEAN] /\ bottom'[0] = bottom[0] /\ bottom'[1]
    BY <1>1, Flags DEF TunnelInv
  <1>4. TunnelTypes' /\ Run(gotUp, 0)' /\ Read'
    BY <1>1, <1>2, <1>3 DEF TunnelInv, TunnelTypes, Run, Read
  <1>5. Closers'
    BY <1>1, <1>2, <1>3 DEF TunnelInv, Closers
  <1>6. TunnelDown'
    BY <1>1, <1>2, DownEnds DEF TunnelInv, TunnelDown
  <1>7. TunnelUp'
    <2>1. /\ UpArgs(tpc.client, "done", "preamble", up[0], up[1], up[2], buf.client, buf.agent, sent.up, gotUp, failed, port)
          /\ Upward(tpc.client, "done", "preamble", up[0], up[1], up[2], buf.client, buf.agent, sent.up, gotUp, failed, port)
      BY <1>1, TunnelArgs DEF TunnelInv, TunnelUp
    <2>2. Upward(tpc.client, "done", "done", up[0], up[1], up[2], buf.client, buf.agent, sent.up, gotUp, failed, port)
      BY <2>1, UpBothEnd
    <2> QED BY <1>1, <1>2, <2>2 DEF TunnelUp
  <1> QED BY <1>4, <1>5, <1>6, <1>7 DEF TunnelInv

LEMMA DialBackendKeeps == ASSUME TunnelInv, U!DialBackend PROVE TunnelInv'
  <1>1. /\ tpc.guest = "dial" /\ (~eof \/ failed)
        /\ UNCHANGED <<kind, down, up, buf, top, sent, gotDown, gotUp, failed, eof>>
    BY DEF U!DialBackend, TunnelInv, Read
  <1>2. CASE tpc' = [tpc EXCEPT !.guest = "bridge"] /\ UNCHANGED bottom /\ port' = IF kind = "ssh" THEN "ssh" ELSE port
    <2>1. tpc' \in Pcs /\ tpc'.client = tpc.client /\ tpc'.agent = tpc.agent /\ tpc'.guest = "bridge"
      BY <1>2 DEF TunnelInv, TunnelTypes, Pcs
    <2>2. TunnelTypes' /\ Run(gotUp, 0)' /\ Read'
      BY <1>1, <1>2, <2>1 DEF TunnelInv, TunnelTypes, Run, Read
    <2>3. Closers'
      BY <1>1, <1>2, <2>1 DEF U!DialBackend, TunnelInv, Closers
    <2>4. TunnelDown'
      BY <1>1, <2>1, DownAccepted DEF U!DialBackend, TunnelInv, TunnelDown
    <2>5. TunnelUp'
      BY <1>1, <2>1, UpDialled DEF U!DialBackend, TunnelInv, TunnelUp
    <2> QED BY <2>2, <2>3, <2>4, <2>5 DEF TunnelInv
  <1>3. CASE tpc' = [tpc EXCEPT !.guest = "done"] /\ bottom' = [bottom EXCEPT ![1] = TRUE] /\ port' = "none"
    <2>1. tpc' \in Pcs /\ tpc'.client = tpc.client /\ tpc'.agent = tpc.agent /\ tpc'.guest = "done"
      BY <1>3 DEF TunnelInv, TunnelTypes, Pcs
    <2>2. bottom' \in [U!Links -> BOOLEAN] /\ bottom'[0] = bottom[0] /\ bottom'[1]
      BY <1>3, Flags DEF TunnelInv
    <2>3. TunnelTypes' /\ Run(gotUp, 0)' /\ Read'
      BY <1>1, <1>3, <2>1, <2>2 DEF TunnelInv, TunnelTypes, Run, Read
    <2>4. Closers'
      BY <1>1, <2>1, <2>2 DEF TunnelInv, Closers
    <2>5. TunnelDown'
      BY <1>1, <2>1, DownEnds DEF TunnelInv, TunnelDown
    <2>6. TunnelUp'
      <3>1. Upward(tpc.client, tpc.agent, "done", up[0], up[1], up[2], buf.client, buf.agent, sent.up, gotUp, failed, "none")
        BY <1>1, TunnelArgs, UpGuestEnds DEF U!DialBackend, TunnelInv, TunnelUp
      <3> QED BY <1>1, <1>3, <2>1, <3>1 DEF TunnelUp
    <2> QED BY <2>3, <2>4, <2>5, <2>6 DEF TunnelInv
  <1> QED BY <1>2, <1>3 DEF U!DialBackend

LEMMA ClientSendsKeeps == ASSUME TunnelInv, U!ClientSends PROVE TunnelInv'
  <1>1. /\ tpc.client = "open" /\ tpc.agent \notin {"idle", "connect"}
        /\ down' = [down EXCEPT ![0] = Append(@, sent.down + 1)] /\ sent' = [sent EXCEPT !.down = @ + 1]
        /\ UNCHANGED <<kind, tpc, up, buf, top, bottom, port, gotDown, gotUp, failed, eof>>
    BY DEF U!ClientSends, TunnelInv, Closers
  <1>2. /\ Append(down[0], sent.down + 1) \in Seq(Items)
        /\ Downward(kind, tpc.agent, tpc.guest, Append(down[0], sent.down + 1), down[1], down[2], buf.guest, sent.down + 1, gotDown)
    BY <1>1, TunnelArgs, DownSent DEF TunnelInv, TunnelDown
  <1>3. down' \in [U!Links -> Seq(Items)] /\ down'[0] = Append(down[0], sent.down + 1) /\ down'[1] = down[1] /\ down'[2] = down[2]
    <2>1. PICK x : x = Append(down[0], sent.down + 1)
      OBVIOUS
    <2>2. x \in Seq(Items) /\ Put(down', down, 0, x) /\ down \in [U!Links -> Seq(Items)]
      BY <1>1, <1>2, <2>1 DEF Put, TunnelInv, TunnelTypes
    <2>3. down' \in [U!Links -> Seq(Items)] /\ down'[0] = x /\ down'[1] = down[1] /\ down'[2] = down[2]
      BY <2>2, PutLink
    <2> QED BY <2>1, <2>3
  <1>4. sent' \in [down : Nat, up : Nat] /\ sent'.down = sent.down + 1 /\ sent'.up = sent.up
    <2>1. sent \in [down : Nat, up : Nat]
      BY DEF TunnelInv, TunnelTypes
    <2> QED BY <1>1, <2>1
  <1>5. TunnelTypes' /\ Run(gotUp, 0)' /\ Read'
    BY <1>1, <1>3, <1>4 DEF TunnelInv, TunnelTypes, Run, Read
  <1>6. Closers'
    BY <1>1 DEF TunnelInv, Closers
  <1>7. TunnelDown'
    BY <1>1, <1>2, <1>3, <1>4 DEF TunnelDown
  <1>8. TunnelUp'
    BY <1>1, <1>4 DEF TunnelInv, TunnelUp
  <1> QED BY <1>5, <1>6, <1>7, <1>8 DEF TunnelInv

LEMMA BackendSendsKeeps == ASSUME TunnelInv, U!BackendSends PROVE TunnelInv'
  <1>1. /\ tpc.guest = "bridge" /\ (~eof \/ failed)
        /\ up' = [up EXCEPT ![2] = Append(@, sent.up + 1)] /\ sent' = [sent EXCEPT !.up = @ + 1]
        /\ UNCHANGED <<kind, tpc, down, buf, top, bottom, port, gotDown, gotUp, failed, eof>>
    BY DEF U!BackendSends, TunnelInv, Read
  <1>2. /\ Append(up[2], sent.up + 1) \in Seq(Items)
        /\ Upward(tpc.client, tpc.agent, tpc.guest, up[0], up[1], Append(up[2], sent.up + 1),
                  buf.client, buf.agent, sent.up + 1, gotUp, failed, port)
    BY <1>1, TunnelArgs, UpSent DEF U!BackendSends, TunnelInv, TunnelUp
  <1>3. up' \in [U!Links -> Seq(Items)] /\ up'[2] = Append(up[2], sent.up + 1) /\ up'[0] = up[0] /\ up'[1] = up[1]
    <2>1. PICK x : x = Append(up[2], sent.up + 1)
      OBVIOUS
    <2>2. x \in Seq(Items) /\ Put(up', up, 2, x) /\ up \in [U!Links -> Seq(Items)]
      BY <1>1, <1>2, <2>1 DEF Put, TunnelInv, TunnelTypes
    <2>3. up' \in [U!Links -> Seq(Items)] /\ up'[2] = x /\ up'[0] = up[0] /\ up'[1] = up[1]
      BY <2>2, PutLink
    <2> QED BY <2>1, <2>3
  <1>4. sent' \in [down : Nat, up : Nat] /\ sent'.down = sent.down /\ sent'.up = sent.up + 1
    <2>1. sent \in [down : Nat, up : Nat]
      BY DEF TunnelInv, TunnelTypes
    <2> QED BY <1>1, <2>1
  <1>5. TunnelTypes' /\ Run(gotUp, 0)' /\ Read'
    BY <1>1, <1>3, <1>4 DEF TunnelInv, TunnelTypes, Run, Read
  <1>6. Closers'
    BY <1>1 DEF TunnelInv, Closers
  <1>7. TunnelDown'
    BY <1>1, <1>4 DEF TunnelInv, TunnelDown
  <1>8. TunnelUp'
    BY <1>1, <1>2, <1>3, <1>4 DEF TunnelUp
  <1> QED BY <1>5, <1>6, <1>7, <1>8 DEF TunnelInv

LEMMA TearDownKeeps ==
    ASSUME TunnelTypes, Closers, NEW b \in {0, 1}, U!TearDown(b), tpc[U!Who(b)] = "bridge", UNCHANGED kind
    PROVE  /\ tpc' \in Pcs /\ top' \in [U!Links -> BOOLEAN] /\ bottom' \in [U!Links -> BOOLEAN] /\ Closers'
           /\ tpc'.client = tpc.client
           /\ b = 0 => tpc.agent = "bridge" /\ tpc'.agent = "done" /\ tpc'.guest = tpc.guest
           /\ b = 1 => tpc.guest = "bridge" /\ tpc'.agent = tpc.agent /\ tpc'.guest = "done"
  <1>1. CASE b = 0
    <2>1. U!Who(b) = "agent"
      BY <1>1 DEF U!Who
    <2>2. tpc' = [tpc EXCEPT !["agent"] = "done"] /\ tpc["agent"] = "bridge"
      BY <2>1 DEF U!TearDown
    <2>3. tpc' \in Pcs /\ tpc'.client = tpc.client /\ tpc.agent = "bridge" /\ tpc'.agent = "done" /\ tpc'.guest = tpc.guest
      BY <2>2 DEF TunnelTypes, Pcs
    <2>4. /\ bottom' = [bottom EXCEPT ![0] = TRUE] /\ top' = [top EXCEPT ![1] = TRUE]
      BY <1>1 DEF U!TearDown
    <2>5. /\ top' \in [U!Links -> BOOLEAN] /\ bottom' \in [U!Links -> BOOLEAN] /\ top'[0] = top[0] /\ bottom'[1] = bottom[1]
      BY <2>4, Flags
    <2> QED BY <1>1, <2>3, <2>5 DEF Closers
  <1>2. CASE b = 1
    <2>1. U!Who(b) = "guest"
      BY <1>2 DEF U!Who
    <2>2. tpc' = [tpc EXCEPT !["guest"] = "done"] /\ tpc["guest"] = "bridge"
      BY <2>1 DEF U!TearDown
    <2>3. tpc' \in Pcs /\ tpc'.client = tpc.client /\ tpc.guest = "bridge" /\ tpc'.guest = "done" /\ tpc'.agent = tpc.agent
      BY <2>2 DEF TunnelTypes, Pcs
    <2>4. /\ bottom' = [bottom EXCEPT ![1] = TRUE] /\ top' = [top EXCEPT ![2] = TRUE]
      BY <1>2 DEF U!TearDown
    <2>5. /\ top' \in [U!Links -> BOOLEAN] /\ bottom' \in [U!Links -> BOOLEAN] /\ top'[0] = top[0] /\ top'[1] = top[1]
          /\ bottom'[0] = bottom[0]
      BY <2>4, Flags
    <2> QED BY <1>2, <2>3, <2>5 DEF Closers
  <1> QED BY <1>1, <1>2

LEMMA EndCopyKeeps == ASSUME TunnelInv, NEW b \in {0, 1}, U!EndCopy(b) PROVE TunnelInv'
  <1>1. /\ tpc[U!Who(b)] = "bridge" /\ U!TearDown(b)
        /\ (U!DownSource(b) = <<>> /\ top[b]) \/ (U!UpSource(b) = <<>> /\ bottom[b + 1])
        /\ UNCHANGED <<kind, down, up, buf, port, sent, gotDown, gotUp, failed, eof>>
    BY DEF U!EndCopy
  <1>2. /\ tpc' \in Pcs /\ top' \in [U!Links -> BOOLEAN] /\ bottom' \in [U!Links -> BOOLEAN] /\ Closers'
        /\ tpc'.client = tpc.client
        /\ b = 0 => tpc.agent = "bridge" /\ tpc'.agent = "done" /\ tpc'.guest = tpc.guest
        /\ b = 1 => tpc.guest = "bridge" /\ tpc'.agent = tpc.agent /\ tpc'.guest = "done"
    BY <1>1, TearDownKeeps DEF TunnelInv
  <1>3. TunnelTypes' /\ Run(gotUp, 0)' /\ Read'
    BY <1>1, <1>2 DEF TunnelInv, TunnelTypes, Run, Read
  <1>4. /\ UpArgs(tpc.client, tpc.agent, tpc.guest, up[0], up[1], up[2], buf.client, buf.agent, sent.up, gotUp, failed, port)
        /\ Upward(tpc.client, tpc.agent, tpc.guest, up[0], up[1], up[2], buf.client, buf.agent, sent.up, gotUp, failed, port)
        /\ tpc.client \in {"start", "wait", "open"} \/ tpc.client \in {"refused", "closed"}
    BY TunnelArgs DEF TunnelInv, TunnelUp, UpArgs
  <1>5. CASE b = 0
    <2>1. TunnelDown'
      BY <1>1, <1>2, <1>5, DownEnds DEF TunnelInv, TunnelDown
    <2>2. tpc.client \in {"refused", "closed"} \/ (buf.agent = <<>> /\ up[1] = <<>> /\ tpc.guest = "done")
      <3>1. top[0] \/ (buf.agent \o up[1] = <<>> /\ bottom[1])
        BY <1>1, <1>5 DEF U!UpSource
      <3>2. buf.agent \o up[1] = <<>> => buf.agent = <<>> /\ up[1] = <<>>
        BY <1>4 DEF UpArgs
      <3> QED BY <3>1, <3>2 DEF TunnelInv, Closers
    <2>3. Upward(tpc.client, "done", tpc.guest, up[0], up[1], up[2], buf.client, buf.agent, sent.up, gotUp, failed, port)
      <3>1. CASE tpc.client \in {"refused", "closed"}
        BY <3>1 DEF Upward
      <3>2. CASE buf.agent = <<>> /\ up[1] = <<>> /\ tpc.guest = "done"
        BY <1>2, <1>4, <1>5, <3>2, UpAgentEnds
      <3> QED BY <2>2, <3>1, <3>2
    <2>4. TunnelUp'
      BY <1>1, <1>2, <1>5, <2>3 DEF TunnelUp
    <2> QED BY <1>2, <1>3, <2>1, <2>4 DEF TunnelInv
  <1>6. CASE b = 1
    <2>1. TunnelDown'
      BY <1>1, <1>2, <1>6, DownEnds DEF TunnelInv, TunnelDown
    <2>2. tpc.agent = "done" \/ up[2] = <<>>
      <3>1. top[1] \/ <<>> \o up[2] = <<>>
        BY <1>1, <1>6 DEF U!UpSource
      <3>2. <<>> \o up[2] = up[2]
        BY <1>4 DEF UpArgs
      <3> QED BY <3>1, <3>2 DEF TunnelInv, Closers
    <2>3. Upward(tpc.client, tpc.agent, "done", up[0], up[1], up[2], buf.client, buf.agent, sent.up, gotUp, failed, port)
      <3>1. tpc.guest = "bridge"
        BY <1>2, <1>6
      <3>2. CASE tpc.agent = "done"
        BY <1>4, <3>1, <3>2, UpBothEnd
      <3>3. CASE up[2] = <<>>
        BY <1>4, <3>1, <3>3, UpGuestEnds
      <3> QED BY <2>2, <3>2, <3>3
    <2>4. TunnelUp'
      BY <1>1, <1>2, <1>6, <2>3 DEF TunnelUp
    <2> QED BY <1>2, <1>3, <2>1, <2>4 DEF TunnelInv
  <1> QED BY <1>5, <1>6

LEMMA HeadOfJoin ==
    ASSUME NEW q \in Seq(Items), NEW r \in Seq(Items), q # <<>>
    PROVE  Head(q \o r) = Head(q) /\ q \o r # <<>>
  <1>1. Len(q) \in Nat \ {0} /\ Len(r) \in Nat /\ Len(q \o r) = Len(q) + Len(r)
    OBVIOUS
  <1>2. (q \o r)[1] = q[1] /\ q \o r # <<>> /\ q \o r \in Seq(Items)
    BY <1>1
  <1> QED BY <1>2

LEMMA CopyDownKeeps == ASSUME TunnelInv, NEW b \in {0, 1}, U!CopyDown(b) PROVE TunnelInv'
  <1> DEFINE x == Head(U!DownSource(b))
             fromBuf == b = 1 /\ buf.guest # <<>>
             rest == IF fromBuf THEN down ELSE [down EXCEPT ![b] = Tail(@)]
  <1>1. /\ tpc[U!Who(b)] = "bridge" /\ U!DownSource(b) # <<>>
        /\ buf' = IF fromBuf THEN [buf EXCEPT !.guest = Tail(@)] ELSE buf
        /\ IF bottom[b + 1] THEN down' = rest /\ failed' = TRUE /\ U!TearDown(b)
           ELSE down' = [rest EXCEPT ![b + 1] = Append(@, x)] /\ UNCHANGED <<failed, top, bottom, tpc>>
        /\ UNCHANGED <<kind, up, port, sent, gotDown, gotUp, eof>>
    BY DEF U!CopyDown
  <1>2. U!DownSource(0) = down[0] /\ U!DownSource(1) = buf.guest \o down[1]
    <2>1. U!DownSource(0) = <<>> \o down[0] /\ U!DownSource(1) = buf.guest \o down[1]
      BY DEF U!DownSource
    <2>2. <<>> \o down[0] = down[0]
      BY TunnelArgs DEF DownArgs
    <2> QED BY <2>1, <2>2
  <1>3. /\ DownArgs(kind, tpc.agent, tpc.guest, down[0], down[1], down[2], buf.guest, sent.down, gotDown)
        /\ Downward(kind, tpc.agent, tpc.guest, down[0], down[1], down[2], buf.guest, sent.down, gotDown)
        /\ UpArgs(tpc.client, tpc.agent, tpc.guest, up[0], up[1], up[2], buf.client, buf.agent, sent.up, gotUp, failed, port)
        /\ Upward(tpc.client, tpc.agent, tpc.guest, up[0], up[1], up[2], buf.client, buf.agent, sent.up, gotUp, failed, port)
    BY TunnelArgs DEF TunnelInv, TunnelDown, TunnelUp
  <1>4. /\ b = 0 => tpc.agent = "bridge"
        /\ b = 1 => tpc.guest = "bridge"
    BY <1>1 DEF U!Who
  <1>5. /\ down[0] \in Seq(Items) /\ down[1] \in Seq(Items) /\ down[2] \in Seq(Items) /\ buf.guest \in Seq(Items)
    BY <1>3 DEF DownArgs
  \* What is taken, and from where.
  <1>6. PICK r : r = rest
    OBVIOUS
  <1>7. /\ b = 0 => down[0] # <<>> /\ x = Head(down[0]) /\ Put(r, down, 0, Tail(down[0])) /\ buf' = buf
        /\ b = 1 /\ buf.guest # <<>> => x = Head(buf.guest) /\ r = down /\ buf' = [buf EXCEPT !.guest = Tail(@)]
        /\ b = 1 /\ buf.guest = <<>> => down[1] # <<>> /\ x = Head(down[1]) /\ Put(r, down, 1, Tail(down[1])) /\ buf' = buf
    <2>1. CASE b = 0
      BY <1>1, <1>2, <1>6, <2>1 DEF Put
    <2>2. CASE b = 1 /\ buf.guest # <<>>
      <3>1. Head(buf.guest \o down[1]) = Head(buf.guest)
        BY <1>5, <2>2, HeadOfJoin
      <3> QED BY <1>1, <1>2, <1>6, <2>2, <3>1
    <2>3. CASE b = 1 /\ buf.guest = <<>>
      <3>1. buf.guest \o down[1] = down[1]
        BY <1>5, <2>3
      <3> QED BY <1>1, <1>2, <1>6, <2>3, <3>1 DEF Put
    <2> QED BY <2>1, <2>2, <2>3
  <1>8. /\ r \in [U!Links -> Seq(Items)] /\ buf' \in [client : Seq(Items), agent : Seq(Items), guest : Seq(Items)]
        /\ buf'.client = buf.client /\ buf'.agent = buf.agent
        /\ r[2] = down[2] /\ (b = 0 => r[1] = down[1]) /\ (b = 1 => r[0] = down[0])
        /\ b = 0 => buf'.guest = buf.guest /\ r[0] = Tail(down[0])
        /\ b = 1 /\ buf.guest # <<>> => buf'.guest = Tail(buf.guest) /\ r[1] = down[1]
        /\ b = 1 /\ buf.guest = <<>> => buf'.guest = buf.guest /\ r[1] = Tail(down[1])
    <2>1. CASE b = 0
      <3>1. Tail(down[0]) \in Seq(Items) /\ Put(r, down, 0, Tail(down[0]))
        BY <1>5, <1>7, <2>1
      <3>2. r \in [U!Links -> Seq(Items)] /\ r[0] = Tail(down[0]) /\ r[1] = down[1] /\ r[2] = down[2]
        <4>1. down \in [U!Links -> Seq(Items)]
          BY DEF TunnelInv, TunnelTypes
        <4>2. PICK z : z = Tail(down[0])
          OBVIOUS
        <4>3. z \in Seq(Items) /\ Put(r, down, 0, z)
          BY <3>1, <4>2
        <4>4. r \in [U!Links -> Seq(Items)] /\ r[0] = z /\ r[1] = down[1] /\ r[2] = down[2]
          BY <4>1, <4>3, PutLink
        <4> QED BY <4>2, <4>4
      <3>3. buf \in [client : Seq(Items), agent : Seq(Items), guest : Seq(Items)]
        BY DEF TunnelInv, TunnelTypes
      <3> QED BY <1>7, <2>1, <3>2, <3>3
    <2>2. CASE b = 1 /\ buf.guest # <<>>
      <3>1. Tail(buf.guest) \in Seq(Items)
        BY <1>5, <2>2
      <3>2. /\ buf \in [client : Seq(Items), agent : Seq(Items), guest : Seq(Items)]
            /\ down \in [U!Links -> Seq(Items)] /\ r = down /\ buf' = [buf EXCEPT !.guest = Tail(buf.guest)]
        BY <1>7, <2>2 DEF TunnelInv, TunnelTypes
      <3>3. /\ buf' \in [client : Seq(Items), agent : Seq(Items), guest : Seq(Items)]
            /\ buf'.client = buf.client /\ buf'.agent = buf.agent /\ buf'.guest = Tail(buf.guest)
        BY <3>1, <3>2
      <3> QED BY <2>2, <3>2, <3>3
    <2>3. CASE b = 1 /\ buf.guest = <<>>
      <3>1. Tail(down[1]) \in Seq(Items) /\ Put(r, down, 1, Tail(down[1]))
        BY <1>5, <1>7, <2>3
      <3>2. r \in [U!Links -> Seq(Items)] /\ r[1] = Tail(down[1]) /\ r[0] = down[0] /\ r[2] = down[2]
        <4>1. down \in [U!Links -> Seq(Items)]
          BY DEF TunnelInv, TunnelTypes
        <4>2. PICK z : z = Tail(down[1])
          OBVIOUS
        <4>3. z \in Seq(Items) /\ Put(r, down, 1, z)
          BY <3>1, <4>2
        <4>4. r \in [U!Links -> Seq(Items)] /\ r[1] = z /\ r[0] = down[0] /\ r[2] = down[2]
          BY <4>1, <4>3, PutLink
        <4> QED BY <4>2, <4>4
      <3>3. buf \in [client : Seq(Items), agent : Seq(Items), guest : Seq(Items)]
        BY DEF TunnelInv, TunnelTypes
      <3> QED BY <1>7, <2>3, <3>2, <3>3
    <2> QED BY <2>1, <2>2, <2>3
  <1> HIDE DEF fromBuf
  \* The write to the other side meets a closed connection.
  <1>9. CASE bottom[b + 1]
    <2>1. down' = r /\ failed' = TRUE /\ U!TearDown(b)
      BY <1>1, <1>6, <1>9
    <2>2. /\ tpc' \in Pcs /\ top' \in [U!Links -> BOOLEAN] /\ bottom' \in [U!Links -> BOOLEAN] /\ Closers'
          /\ tpc'.client = tpc.client
          /\ b = 0 => tpc'.agent = "done" /\ tpc'.guest = tpc.guest
          /\ b = 1 => tpc'.agent = tpc.agent /\ tpc'.guest = "done"
      BY <1>1, <2>1, TearDownKeeps DEF TunnelInv
    <2>3. TunnelTypes' /\ Run(gotUp, 0)' /\ Read'
      BY <1>1, <1>8, <2>1, <2>2 DEF TunnelInv, TunnelTypes, Run, Read
    <2>4. CASE b = 0
      <3>1. tpc.guest = "done"
        BY <1>9, <2>4 DEF TunnelInv, Closers
      <3>2. Downward(kind, "done", "done", r[0], r[1], down[2], buf'.guest, sent.down, gotDown)
        BY <1>3, DownEnds
      <3>3. TunnelDown'
        BY <1>1, <1>8, <2>1, <2>2, <2>4, <3>1, <3>2 DEF TunnelDown
      <3>4. Upward(tpc.client, "done", tpc.guest, up[0], up[1], up[2], buf.client, buf.agent, sent.up, gotUp, TRUE, port)
        BY <1>3, <1>4, <2>4, UpAgentEnds
      <3>5. TunnelUp'
        <4>1. failed' = TRUE
          BY <2>1, Zenon
        <4>2. tpc'.client = tpc.client /\ tpc'.agent = "done" /\ tpc'.guest = tpc.guest /\ buf'.client = buf.client
              /\ buf'.agent = buf.agent /\ up' = up /\ sent' = sent /\ gotUp' = gotUp /\ port' = port
          BY <1>1, <1>8, <2>2, <2>4
        <4> QED BY <3>4, <4>1, <4>2, Zenon DEF TunnelUp
      <3> QED BY <2>2, <2>3, <3>3, <3>5 DEF TunnelInv
    <2>5. CASE b = 1
      <3>1. tpc.agent \in {"idle", "connect"} => down[0] = <<>> /\ down[1] = <<>>
        BY <1>3 DEF Downward
      <3>2. tpc.agent \in {"idle", "connect"} => r[0] = down[0] /\ r[1] = down[1]
        <4>1. tpc.agent \in {"idle", "connect"} => buf.guest # <<>>
          BY <1>7, <2>5, <3>1
        <4> QED BY <1>8, <2>5, <4>1
      <3>3. Downward(kind, tpc.agent, "done", r[0], r[1], down[2], buf'.guest, sent.down, gotDown)
        BY <1>3, <3>2, DownEnds
      <3>4. TunnelDown'
        BY <1>1, <1>8, <2>1, <2>2, <2>5, <3>3 DEF TunnelDown
      <3>5. Upward(tpc.client, tpc.agent, "done", up[0], up[1], up[2], buf.client, buf.agent, sent.up, gotUp, TRUE, port)
        BY <1>3, <1>4, <2>5, UpGuestEnds
      <3>6. TunnelUp'
        <4>1. failed' = TRUE
          BY <2>1, Zenon
        <4>2. tpc'.client = tpc.client /\ tpc'.agent = tpc.agent /\ tpc'.guest = "done" /\ buf'.client = buf.client
              /\ buf'.agent = buf.agent /\ up' = up /\ sent' = sent /\ gotUp' = gotUp /\ port' = port
          BY <1>1, <1>8, <2>2, <2>5
        <4> QED BY <3>5, <4>1, <4>2, Zenon DEF TunnelUp
      <3> QED BY <2>2, <2>3, <3>4, <3>6 DEF TunnelInv
    <2> QED BY <2>4, <2>5
  <1>10. CASE ~bottom[b + 1]
    <2>1. down' = [r EXCEPT ![b + 1] = Append(@, x)] /\ UNCHANGED <<failed, top, bottom, tpc>>
      BY <1>1, <1>6, <1>10
    <2>2. PICK y : y = x
      OBVIOUS
    <2>3. CASE b = 0
      <3>1. /\ y = Head(down[0]) /\ Append(down[1], y) \in Seq(Items)
            /\ Downward(kind, "bridge", tpc.guest, r[0], Append(down[1], y), down[2], buf'.guest, sent.down, gotDown)
        BY <1>3, <1>4, <1>7, <1>8, <2>2, <2>3, DownCopiedByAgent
      <3>2. Put(down', r, 1, Append(down[1], y))
        <4>1. b + 1 = 1 /\ r[1] = down[1]
          BY <1>8, <2>3
        <4> QED BY <2>1, <2>2, <4>1, Zenon DEF Put
      <3>3. down' \in [U!Links -> Seq(Items)] /\ down'[1] = Append(down[1], y) /\ down'[0] = r[0] /\ down'[2] = down[2]
        <4>1. Append(down[1], y) \in Seq(Items) /\ r \in [U!Links -> Seq(Items)]
          BY <1>8, <3>1
        <4>2. down' \in [U!Links -> Seq(Items)] /\ down'[1] = Append(down[1], y) /\ down'[0] = r[0] /\ down'[2] = r[2]
          <5>1. PICK z : z = Append(down[1], y)
            OBVIOUS
          <5>2. z \in Seq(Items) /\ Put(down', r, 1, z) /\ r \in [U!Links -> Seq(Items)]
            BY <3>2, <4>1, <5>1
          <5>3. down' \in [U!Links -> Seq(Items)] /\ down'[1] = z /\ down'[0] = r[0] /\ down'[2] = r[2]
            BY <5>2, PutLink
          <5> QED BY <5>1, <5>3
        <4> QED BY <1>8, <4>2
      <3>4. TunnelDown'
        BY <1>1, <1>4, <2>1, <2>3, <3>1, <3>3 DEF TunnelDown
      <3>5. TunnelUp'
        BY <1>1, <1>3, <1>8, <2>1 DEF TunnelUp
      <3>6. TunnelTypes'
        BY <1>1, <1>8, <2>1, <3>3 DEF TunnelInv, TunnelTypes
      <3>7. Run(gotUp, 0)' /\ Read' /\ Closers'
        BY <1>1, <2>1 DEF TunnelInv, Run, Read, Closers
      <3> QED BY <3>4, <3>5, <3>6, <3>7 DEF TunnelInv
    <2>4. CASE b = 1
      <3>1. /\ Append(down[2], y) \in Seq(Items)
            /\ Downward(kind, tpc.agent, tpc.guest, r[0], r[1], Append(down[2], y), buf'.guest, sent.down, gotDown)
        <4> tpc.guest = "bridge"
          BY <1>4, <2>4
        <4>1. CASE buf.guest # <<>>
          <5>1. /\ Append(down[2], Head(buf.guest)) \in Seq(Items)
                /\ Downward(kind, tpc.agent, "bridge", down[0], down[1], Append(down[2], Head(buf.guest)), Tail(buf.guest),
                            sent.down, gotDown)
            BY <1>3, <4>1, DownCopiedByGuest
          <5>2. y = Head(buf.guest) /\ buf'.guest = Tail(buf.guest) /\ r[0] = down[0] /\ r[1] = down[1]
            BY <1>7, <1>8, <2>2, <2>4, <4>1
          <5> QED BY <5>1, <5>2
        <4>2. CASE buf.guest = <<>>
          <5>1. down[1] # <<>> /\ y = Head(down[1]) /\ buf'.guest = buf.guest /\ r[0] = down[0] /\ r[1] = Tail(down[1])
            BY <1>7, <1>8, <2>2, <2>4, <4>2
          <5>2. /\ Append(down[2], Head(down[1])) \in Seq(Items)
                /\ Downward(kind, tpc.agent, "bridge", down[0], Tail(down[1]), Append(down[2], Head(down[1])), buf.guest,
                            sent.down, gotDown)
            BY <1>3, <4>2, <5>1, DownCopiedByGuest
          <5> QED BY <5>1, <5>2
        <4> QED BY <4>1, <4>2
      <3>2. Put(down', r, 2, Append(down[2], y))
        <4>1. b + 1 = 2 /\ r[2] = down[2]
          BY <1>8, <2>4
        <4> QED BY <2>1, <2>2, <4>1, Zenon DEF Put
      <3>3. down' \in [U!Links -> Seq(Items)] /\ down'[2] = Append(down[2], y) /\ down'[0] = r[0] /\ down'[1] = r[1]
        <4>1. Append(down[2], y) \in Seq(Items) /\ r \in [U!Links -> Seq(Items)]
          BY <1>8, <3>1
        <4>2. down' \in [U!Links -> Seq(Items)] /\ down'[2] = Append(down[2], y) /\ down'[0] = r[0] /\ down'[1] = r[1]
          <5>1. PICK z : z = Append(down[2], y)
            OBVIOUS
          <5>2. z \in Seq(Items) /\ Put(down', r, 2, z) /\ r \in [U!Links -> Seq(Items)]
            BY <3>2, <4>1, <5>1
          <5>3. down' \in [U!Links -> Seq(Items)] /\ down'[2] = z /\ down'[0] = r[0] /\ down'[1] = r[1]
            BY <5>2, PutLink
          <5> QED BY <5>1, <5>3
        <4> QED BY <4>2
      <3>4. TunnelDown'
        BY <1>1, <1>4, <2>1, <2>4, <3>1, <3>3 DEF TunnelDown
      <3>5. TunnelUp'
        BY <1>1, <1>3, <1>8, <2>1 DEF TunnelUp
      <3>6. TunnelTypes'
        BY <1>1, <1>8, <2>1, <3>3 DEF TunnelInv, TunnelTypes
      <3>7. Run(gotUp, 0)' /\ Read' /\ Closers'
        BY <1>1, <2>1 DEF TunnelInv, Run, Read, Closers
      <3> QED BY <3>4, <3>5, <3>6, <3>7 DEF TunnelInv
    <2> QED BY <2>3, <2>4
  <1> QED BY <1>9, <1>10

LEMMA CopyUpKeeps == ASSUME TunnelInv, NEW b \in {0, 1}, U!CopyUp(b) PROVE TunnelInv'
  <1> DEFINE x == Head(U!UpSource(b))
             fromBuf == b = 0 /\ buf.agent # <<>>
             rest == IF fromBuf THEN up ELSE [up EXCEPT ![b + 1] = Tail(@)]
  <1>1. /\ tpc[U!Who(b)] = "bridge" /\ U!UpSource(b) # <<>>
        /\ buf' = IF fromBuf THEN [buf EXCEPT !.agent = Tail(@)] ELSE buf
        /\ IF top[b] THEN up' = rest /\ U!TearDown(b)
           ELSE up' = [rest EXCEPT ![b] = Append(@, x)] /\ UNCHANGED <<top, bottom, tpc>>
        /\ UNCHANGED <<kind, down, port, sent, gotDown, gotUp, failed, eof>>
    BY DEF U!CopyUp
  <1>2. U!UpSource(1) = up[2] /\ U!UpSource(0) = buf.agent \o up[1]
    <2>1. U!UpSource(1) = <<>> \o up[2] /\ U!UpSource(0) = buf.agent \o up[1]
      BY DEF U!UpSource
    <2>2. <<>> \o up[2] = up[2]
      BY TunnelArgs DEF UpArgs
    <2> QED BY <2>1, <2>2
  <1>3. /\ Downward(kind, tpc.agent, tpc.guest, down[0], down[1], down[2], buf.guest, sent.down, gotDown)
        /\ UpArgs(tpc.client, tpc.agent, tpc.guest, up[0], up[1], up[2], buf.client, buf.agent, sent.up, gotUp, failed, port)
        /\ Upward(tpc.client, tpc.agent, tpc.guest, up[0], up[1], up[2], buf.client, buf.agent, sent.up, gotUp, failed, port)
    BY TunnelArgs DEF TunnelInv, TunnelDown, TunnelUp
  <1>4. /\ b = 0 => tpc.agent = "bridge"
        /\ b = 1 => tpc.guest = "bridge"
    BY <1>1 DEF U!Who
  <1>5. up[0] \in Seq(Items) /\ up[1] \in Seq(Items) /\ up[2] \in Seq(Items) /\ buf.agent \in Seq(Items)
    BY <1>3 DEF UpArgs
  <1>6. /\ up \in [U!Links -> Seq(Items)] /\ buf \in [client : Seq(Items), agent : Seq(Items), guest : Seq(Items)]
        /\ tpc.client \in {"start", "wait", "open"} \/ tpc.client \in {"refused", "closed"}
    BY <1>3 DEF TunnelInv, TunnelTypes, UpArgs
  \* What is taken, and from where.
  <1>7. PICK r : r = rest
    OBVIOUS
  <1>8. /\ b = 1 => up[2] # <<>> /\ x = Head(up[2]) /\ Put(r, up, 2, Tail(up[2])) /\ buf' = buf
        /\ b = 0 /\ buf.agent # <<>> => x = Head(buf.agent) /\ r = up /\ buf' = [buf EXCEPT !.agent = Tail(@)]
        /\ b = 0 /\ buf.agent = <<>> => up[1] # <<>> /\ x = Head(up[1]) /\ Put(r, up, 1, Tail(up[1])) /\ buf' = buf
    <2>1. CASE b = 1
      BY <1>1, <1>2, <1>7, <2>1 DEF Put
    <2>2. CASE b = 0 /\ buf.agent # <<>>
      <3>1. Head(buf.agent \o up[1]) = Head(buf.agent)
        BY <1>5, <2>2, HeadOfJoin
      <3> QED BY <1>1, <1>2, <1>7, <2>2, <3>1
    <2>3. CASE b = 0 /\ buf.agent = <<>>
      <3>1. buf.agent \o up[1] = up[1]
        BY <1>5, <2>3
      <3> QED BY <1>1, <1>2, <1>7, <2>3, <3>1 DEF Put
    <2> QED BY <2>1, <2>2, <2>3
  <1>9. /\ r \in [U!Links -> Seq(Items)] /\ buf' \in [client : Seq(Items), agent : Seq(Items), guest : Seq(Items)]
        /\ buf'.client = buf.client /\ buf'.guest = buf.guest
        /\ r[0] = up[0] /\ (b = 1 => r[1] = up[1]) /\ (b = 0 => r[2] = up[2])
        /\ b = 1 => buf'.agent = buf.agent /\ r[2] = Tail(up[2])
        /\ b = 0 /\ buf.agent # <<>> => buf'.agent = Tail(buf.agent) /\ r[1] = up[1]
        /\ b = 0 /\ buf.agent = <<>> => buf'.agent = buf.agent /\ r[1] = Tail(up[1])
    <2>1. CASE b = 1
      <3>1. PICK z : z = Tail(up[2])
        OBVIOUS
      <3>2. z \in Seq(Items) /\ Put(r, up, 2, z)
        BY <1>5, <1>8, <2>1, <3>1
      <3>3. r \in [U!Links -> Seq(Items)] /\ r[2] = z /\ r[0] = up[0] /\ r[1] = up[1]
        <4>1. up \in [U!Links -> Seq(Items)]
          BY <1>6
        <4> QED BY <3>2, <4>1, PutLink
      <3> QED BY <1>6, <1>8, <2>1, <3>1, <3>3
    <2>2. CASE b = 0 /\ buf.agent # <<>>
      <3>1. Tail(buf.agent) \in Seq(Items) /\ r = up /\ buf' = [buf EXCEPT !.agent = Tail(buf.agent)]
        BY <1>5, <1>8, <2>2
      <3>2. /\ buf' \in [client : Seq(Items), agent : Seq(Items), guest : Seq(Items)]
            /\ buf'.client = buf.client /\ buf'.guest = buf.guest /\ buf'.agent = Tail(buf.agent)
        BY <1>6, <3>1
      <3> QED BY <1>6, <2>2, <3>1, <3>2
    <2>3. CASE b = 0 /\ buf.agent = <<>>
      <3>1. PICK z : z = Tail(up[1])
        OBVIOUS
      <3>2. z \in Seq(Items) /\ Put(r, up, 1, z)
        BY <1>5, <1>8, <2>3, <3>1
      <3>3. r \in [U!Links -> Seq(Items)] /\ r[1] = z /\ r[0] = up[0] /\ r[2] = up[2]
        <4>1. up \in [U!Links -> Seq(Items)]
          BY <1>6
        <4> QED BY <3>2, <4>1, PutLink
      <3> QED BY <1>6, <1>8, <2>3, <3>1, <3>3
    <2> QED BY <2>1, <2>2, <2>3
  <1> HIDE DEF fromBuf
  \* The write to the other side meets a closed connection.
  <1>10. CASE top[b]
    <2>1. up' = r /\ U!TearDown(b)
      BY <1>1, <1>7, <1>10
    <2>2. /\ tpc' \in Pcs /\ top' \in [U!Links -> BOOLEAN] /\ bottom' \in [U!Links -> BOOLEAN] /\ Closers'
          /\ tpc'.client = tpc.client
          /\ b = 0 => tpc'.agent = "done" /\ tpc'.guest = tpc.guest
          /\ b = 1 => tpc'.agent = tpc.agent /\ tpc'.guest = "done"
      BY <1>1, <2>1, TearDownKeeps DEF TunnelInv
    <2>3. TunnelTypes' /\ Run(gotUp, 0)' /\ Read'
      BY <1>1, <1>9, <2>1, <2>2 DEF TunnelInv, TunnelTypes, Run, Read
    <2>4. CASE b = 0
      <3>1. tpc.client \in {"refused", "closed"}
        BY <1>10, <2>4 DEF TunnelInv, Closers
      <3>2. TunnelDown'
        BY <1>1, <1>3, <1>9, <2>2, <2>4, DownEnds DEF TunnelDown
      <3>3. TunnelUp'
        BY <2>2, <3>1, UpGone DEF TunnelUp
      <3> QED BY <2>2, <2>3, <3>2, <3>3 DEF TunnelInv
    <2>5. CASE b = 1
      <3>1. tpc.agent = "done" /\ tpc.guest = "bridge"
        BY <1>4, <1>10, <2>5 DEF TunnelInv, Closers
      <3>2. TunnelDown'
        BY <1>1, <1>3, <1>9, <2>2, <2>5, DownEnds DEF TunnelDown
      <3>3. Upward(tpc.client, tpc.agent, "done", up[0], r[1], r[2], buf.client, buf.agent, sent.up, gotUp, failed, port)
        BY <1>3, <3>1, UpBothEnd
      <3>4. TunnelUp'
        BY <1>1, <1>9, <2>1, <2>2, <2>5, <3>3 DEF TunnelUp
      <3> QED BY <2>2, <2>3, <3>2, <3>4 DEF TunnelInv
    <2> QED BY <2>4, <2>5
  <1>11. CASE ~top[b]
    <2>1. up' = [r EXCEPT ![b] = Append(@, x)] /\ UNCHANGED <<top, bottom, tpc>>
      BY <1>1, <1>7, <1>11
    <2>2. PICK y : y = x
      OBVIOUS
    <2>3. TunnelDown'
      BY <1>1, <1>3, <1>9, <2>1 DEF TunnelDown
    <2>4. CASE b = 0
      <3>1. /\ Append(up[0], y) \in Seq(Items)
            /\ Upward(tpc.client, tpc.agent, tpc.guest, Append(up[0], y), r[1], up[2], buf.client, buf'.agent, sent.up, gotUp, failed, port)
        <4> tpc.agent = "bridge"
          BY <1>4, <2>4
        <4>1. CASE buf.agent # <<>>
          <5>1. y = Head(buf.agent) /\ buf'.agent = Tail(buf.agent) /\ r[1] = up[1]
            BY <1>8, <1>9, <2>2, <2>4, <4>1
          <5>2. Append(up[0], Head(buf.agent)) \in Seq(Items)
            BY <1>5, <4>1
          <5>3. tpc.client \in {"wait", "open"} =>
                    Upward(tpc.client, "bridge", tpc.guest, Append(up[0], Head(buf.agent)), up[1], up[2],
                           buf.client, Tail(buf.agent), sent.up, gotUp, failed, port)
            BY <1>3, <4>1, UpCopiedByAgent
          <5>4. tpc.client # "start"
            BY DEF TunnelInv, Closers
          <5> QED BY <1>6, <5>1, <5>2, <5>3, <5>4, UpGone
        <4>2. CASE buf.agent = <<>>
          <5>1. up[1] # <<>> /\ y = Head(up[1]) /\ buf'.agent = buf.agent /\ r[1] = Tail(up[1])
            BY <1>8, <1>9, <2>2, <2>4, <4>2
          <5>2. Append(up[0], Head(up[1])) \in Seq(Items)
            BY <1>5, <5>1
          <5>3. tpc.client \in {"wait", "open"} =>
                    Upward(tpc.client, "bridge", tpc.guest, Append(up[0], Head(up[1])), Tail(up[1]), up[2],
                           buf.client, buf.agent, sent.up, gotUp, failed, port)
            BY <1>3, <4>2, <5>1, UpCopiedByAgent
          <5>4. tpc.client # "start"
            BY DEF TunnelInv, Closers
          <5> QED BY <1>6, <5>1, <5>2, <5>3, <5>4, UpGone
        <4> QED BY <4>1, <4>2
      <3>2. Put(up', r, 0, Append(up[0], y))
        <4>1. r[b] = up[0]
          BY <1>9, <2>4
        <4> QED BY <2>1, <2>2, <2>4, <4>1, Zenon DEF Put
      <3>3. up' \in [U!Links -> Seq(Items)] /\ up'[0] = Append(up[0], y) /\ up'[1] = r[1] /\ up'[2] = up[2]
        <4>1. PICK z : z = Append(up[0], y)
          OBVIOUS
        <4>2. z \in Seq(Items) /\ Put(up', r, 0, z) /\ r \in [U!Links -> Seq(Items)]
          BY <1>9, <3>1, <3>2, <4>1
        <4>3. up' \in [U!Links -> Seq(Items)] /\ up'[0] = z /\ up'[1] = r[1] /\ up'[2] = r[2]
          BY <4>2, PutLink
        <4> QED BY <1>9, <2>4, <4>1, <4>3
      <3>4. TunnelUp'
        BY <1>1, <1>9, <2>1, <3>1, <3>3 DEF TunnelUp
      <3>5. TunnelTypes'
        BY <1>1, <1>9, <2>1, <3>3 DEF TunnelInv, TunnelTypes
      <3>6. Run(gotUp, 0)' /\ Read' /\ Closers'
        BY <1>1, <2>1 DEF TunnelInv, Run, Read, Closers
      <3> QED BY <2>3, <3>4, <3>5, <3>6 DEF TunnelInv
    <2>5. CASE b = 1
      <3>1. /\ Append(up[1], y) \in Seq(Items)
            /\ Upward(tpc.client, tpc.agent, tpc.guest, up[0], Append(up[1], y), r[2], buf.client, buf.agent, sent.up, gotUp, failed, port)
        <4> tpc.guest = "bridge"
          BY <1>4, <2>5
        <4>1. up[2] # <<>> /\ y = Head(up[2]) /\ r[2] = Tail(up[2])
          BY <1>8, <1>9, <2>2, <2>5
        <4>2. Append(up[1], Head(up[2])) \in Seq(Items)
          BY <1>5, <4>1
        <4>3. tpc.client = "open" => tpc.agent \notin {"idle", "connect"}
          BY DEF TunnelInv, Closers
        <4>4. tpc.client \in {"start", "wait", "open"} =>
                  Upward(tpc.client, tpc.agent, "bridge", up[0], Append(up[1], Head(up[2])), Tail(up[2]),
                         buf.client, buf.agent, sent.up, gotUp, failed, port)
          BY <1>3, <4>1, <4>3, UpCopiedByGuest
        <4> QED BY <1>6, <4>1, <4>2, <4>4, UpGone
      <3>2. Put(up', r, 1, Append(up[1], y))
        <4>1. r[b] = up[1]
          BY <1>9, <2>5
        <4> QED BY <2>1, <2>2, <2>5, <4>1, Zenon DEF Put
      <3>3. up' \in [U!Links -> Seq(Items)] /\ up'[1] = Append(up[1], y) /\ up'[0] = up[0] /\ up'[2] = r[2]
        <4>1. PICK z : z = Append(up[1], y)
          OBVIOUS
        <4>2. z \in Seq(Items) /\ Put(up', r, 1, z) /\ r \in [U!Links -> Seq(Items)]
          BY <1>9, <3>1, <3>2, <4>1
        <4>3. up' \in [U!Links -> Seq(Items)] /\ up'[1] = z /\ up'[0] = r[0] /\ up'[2] = r[2]
          BY <4>2, PutLink
        <4> QED BY <1>9, <4>1, <4>3
      <3>4. TunnelUp'
        BY <1>1, <1>9, <2>1, <2>5, <3>1, <3>3 DEF TunnelUp
      <3>5. TunnelTypes'
        BY <1>1, <1>9, <2>1, <3>3 DEF TunnelInv, TunnelTypes
      <3>6. Run(gotUp, 0)' /\ Read' /\ Closers'
        BY <1>1, <2>1 DEF TunnelInv, Run, Read, Closers
      <3> QED BY <2>3, <3>4, <3>5, <3>6 DEF TunnelInv
    <2> QED BY <2>4, <2>5
  <1> QED BY <1>10, <1>11

LEMMA ClientReadsKeeps == ASSUME TunnelInv, U!ClientReads PROVE TunnelInv'
  <1>1. /\ tpc.client = "open" /\ buf.client \o up[0] # <<>> /\ gotUp' = Append(gotUp, Head(buf.client \o up[0]))
        /\ UNCHANGED <<kind, tpc, down, top, bottom, port, sent, gotDown, failed, eof>>
    BY DEF U!ClientReads
  <1>2. /\ Downward(kind, tpc.agent, tpc.guest, down[0], down[1], down[2], buf.guest, sent.down, gotDown)
        /\ UpArgs("open", tpc.agent, tpc.guest, up[0], up[1], up[2], buf.client, buf.agent, sent.up, gotUp, failed, port)
        /\ Upward("open", tpc.agent, tpc.guest, up[0], up[1], up[2], buf.client, buf.agent, sent.up, gotUp, failed, port)
        /\ Run(gotUp, 0)
    BY <1>1, TunnelArgs DEF TunnelInv, TunnelDown, TunnelUp
  <1>3. up[0] \in Seq(Items) /\ buf.client \in Seq(Items)
    BY <1>2 DEF UpArgs
  <1>4. tpc.agent \in {"bridge", "done"}
    BY <1>1 DEF TunnelInv, TunnelTypes, Pcs, Closers
  <1>5. /\ up \in [U!Links -> Seq(Items)] /\ buf \in [client : Seq(Items), agent : Seq(Items), guest : Seq(Items)]
    BY DEF TunnelInv, TunnelTypes
  <1>6. ~eof
    BY <1>1 DEF TunnelInv, Read
  <1>7. CASE buf.client # <<>>
    <2>1. gotUp' = Append(gotUp, Head(buf.client)) /\ up' = up /\ buf' = [buf EXCEPT !.client = Tail(buf.client)]
      BY <1>1, <1>3, <1>7, HeadOfJoin DEF U!ClientReads
    <2>2. /\ Append(gotUp, Head(buf.client)) \in Seq(Items) /\ Tail(buf.client) \in Seq(Items) /\ Run(Append(gotUp, Head(buf.client)), 0)
          /\ Upward("open", tpc.agent, tpc.guest, up[0], up[1], up[2], Tail(buf.client), buf.agent, sent.up,
                    Append(gotUp, Head(buf.client)), failed, port)
      BY <1>2, <1>7, UpReceived
    <2>3. /\ buf' \in [client : Seq(Items), agent : Seq(Items), guest : Seq(Items)]
          /\ buf'.client = Tail(buf.client) /\ buf'.agent = buf.agent /\ buf'.guest = buf.guest
      BY <1>5, <2>1, <2>2
    <2>4. TunnelUp'
      BY <1>1, <2>1, <2>2, <2>3 DEF TunnelUp
    <2>5. TunnelDown' /\ Run(gotUp, 0)'
      BY <1>1, <1>2, <2>1, <2>2, <2>3 DEF TunnelDown
    <2>6. TunnelTypes' /\ Read' /\ Closers'
      BY <1>1, <1>6, <2>1, <2>2, <2>3 DEF TunnelInv, TunnelTypes, Read, Closers
    <2> QED BY <2>4, <2>5, <2>6 DEF TunnelInv
  <1>8. CASE buf.client = <<>>
    <2>1. buf.client \o up[0] = up[0]
      BY <1>3, <1>8
    <2>2. up[0] # <<>> /\ gotUp' = Append(gotUp, Head(up[0])) /\ buf' = buf /\ Put(up', up, 0, Tail(up[0]))
      BY <1>1, <1>8, <2>1 DEF U!ClientReads, Put
    <2>3. /\ Append(gotUp, Head(up[0])) \in Seq(Items) /\ Tail(up[0]) \in Seq(Items) /\ Run(Append(gotUp, Head(up[0])), 0)
          /\ Upward("open", tpc.agent, tpc.guest, Tail(up[0]), up[1], up[2], buf.client, buf.agent, sent.up,
                    Append(gotUp, Head(up[0])), failed, port)
      BY <1>2, <1>4, <1>8, <2>2, UpReceived
    <2>4. up' \in [U!Links -> Seq(Items)] /\ up'[0] = Tail(up[0]) /\ up'[1] = up[1] /\ up'[2] = up[2]
      <3>1. PICK z : z = Tail(up[0])
        OBVIOUS
      <3>2. z \in Seq(Items) /\ Put(up', up, 0, z) /\ up \in [U!Links -> Seq(Items)]
        BY <1>5, <2>2, <2>3, <3>1
      <3>3. up' \in [U!Links -> Seq(Items)] /\ up'[0] = z /\ up'[1] = up[1] /\ up'[2] = up[2]
        BY <3>2, PutLink
      <3> QED BY <3>1, <3>3
    <2>5. TunnelUp'
      BY <1>1, <2>2, <2>3, <2>4 DEF TunnelUp
    <2>6. TunnelDown' /\ Run(gotUp, 0)'
      BY <1>1, <1>2, <2>2, <2>3 DEF TunnelDown
    <2>7. TunnelTypes' /\ Read' /\ Closers'
      BY <1>1, <1>6, <2>2, <2>3, <2>4 DEF TunnelInv, TunnelTypes, Read, Closers
    <2> QED BY <2>5, <2>6, <2>7 DEF TunnelInv
  <1> QED BY <1>7, <1>8

LEMMA ClientEndsKeeps == ASSUME TunnelInv, U!ClientEOF \/ U!ClientCloses PROVE TunnelInv'
  <1>1. /\ tpc.client = "open" /\ tpc' = [tpc EXCEPT !.client = "closed"] /\ top' = [top EXCEPT ![0] = TRUE]
        /\ UNCHANGED <<kind, down, up, buf, bottom, port, sent, gotDown, gotUp, failed>>
        /\ eof' = eof \/ (eof' /\ buf.client \o up[0] = <<>> /\ bottom[0])
    BY DEF U!ClientEOF, U!ClientCloses
  <1>2. /\ tpc' \in Pcs /\ tpc'.client = "closed" /\ tpc'.agent = tpc.agent /\ tpc'.guest = tpc.guest
        /\ tpc.agent \notin {"idle", "connect"}
    BY <1>1 DEF TunnelInv, TunnelTypes, Pcs, Closers
  <1>3. top' \in [U!Links -> BOOLEAN] /\ top'[1] = top[1] /\ eof' \in BOOLEAN
    <2>1. eof' \in BOOLEAN
      BY DEF U!ClientEOF, U!ClientCloses, TunnelInv, TunnelTypes
    <2>2. top \in [0 .. 2 -> BOOLEAN]
      BY DEF TunnelInv, TunnelTypes, U!Links
    <2> QED BY <1>1, <2>1, <2>2 DEF U!Links
  <1>4. TunnelTypes' /\ Run(gotUp, 0)'
    BY <1>1, <1>2, <1>3 DEF TunnelInv, TunnelTypes, Run
  <1>5. Closers'
    BY <1>1, <1>2, <1>3 DEF TunnelInv, Closers
  <1>6. Read'
    <2>1. ASSUME buf.client \o up[0] = <<>>, bottom[0], ~failed
          PROVE  tpc.guest = "done" /\ (port # "none" => Len(gotUp) = sent.up)
      <3>1. buf.client = <<>> /\ up[0] = <<>> /\ Len(gotUp) \in Nat
        BY <2>1, TunnelArgs DEF UpArgs
      <3>2. tpc.agent = "done"
        BY <2>1 DEF TunnelInv, Closers
      <3>3. tpc.guest = "done" /\ (port # "none" => Ahead("open", <<>>, <<>>, gotUp) = sent.up)
        BY <1>1, <2>1, <3>1, <3>2 DEF TunnelInv, TunnelUp, Upward
      <3>4. Ahead("open", <<>>, <<>>, gotUp) = Len(gotUp)
        BY <3>1 DEF Ahead
      <3> QED BY <3>3, <3>4
    <2> QED BY <1>1, <1>2, <2>1 DEF TunnelInv, Read
  <1>7. TunnelDown'
    BY <1>1, <1>2 DEF TunnelInv, TunnelDown
  <1>8. TunnelUp'
    BY <1>2, UpGone DEF TunnelUp
  <1> QED BY <1>4, <1>5, <1>6, <1>7, <1>8 DEF TunnelInv

LEMMA BackendReadsKeeps == ASSUME TunnelInv, U!BackendReads PROVE TunnelInv'
  <1>1. /\ down[2] # <<>> /\ gotDown' = Append(gotDown, Head(down[2])) /\ Put(down', down, 2, Tail(down[2]))
        /\ UNCHANGED <<kind, tpc, up, buf, top, bottom, port, sent, gotUp, failed, eof>>
    BY DEF U!BackendReads, Put
  <1>2. /\ Append(gotDown, Head(down[2])) \in Seq(Items) /\ Tail(down[2]) \in Seq(Items)
        /\ Downward(kind, tpc.agent, tpc.guest, down[0], down[1], Tail(down[2]), buf.guest, sent.down, Append(gotDown, Head(down[2])))
    BY <1>1, TunnelArgs, DownReceived DEF TunnelInv, TunnelDown
  <1>3. down' \in [U!Links -> Seq(Items)] /\ down'[2] = Tail(down[2]) /\ down'[0] = down[0] /\ down'[1] = down[1]
    <2>1. PICK z : z = Tail(down[2])
      OBVIOUS
    <2>2. z \in Seq(Items) /\ Put(down', down, 2, z) /\ down \in [U!Links -> Seq(Items)]
      BY <1>1, <1>2, <2>1 DEF TunnelInv, TunnelTypes
    <2>3. down' \in [U!Links -> Seq(Items)] /\ down'[2] = z /\ down'[0] = down[0] /\ down'[1] = down[1]
      BY <2>2, PutLink
    <2> QED BY <2>1, <2>3
  <1>4. TunnelTypes'
    BY <1>1, <1>2, <1>3 DEF TunnelInv, TunnelTypes
  <1>5. TunnelDown'
    BY <1>1, <1>2, <1>3 DEF TunnelDown
  <1>6. TunnelUp'
    BY <1>1 DEF TunnelInv, TunnelUp
  <1>7. Read' /\ Closers' /\ Run(gotUp, 0)'
    BY <1>1 DEF TunnelInv, Read, Closers
  <1> QED BY <1>4, <1>5, <1>6, <1>7 DEF TunnelInv

LEMMA BackendEndsKeeps == ASSUME TunnelInv, U!BackendCloses \/ U!BackendEOF PROVE TunnelInv'
  <1>1. /\ bottom' = [bottom EXCEPT ![2] = TRUE]
        /\ UNCHANGED <<kind, tpc, down, up, buf, top, port, sent, gotDown, gotUp, failed, eof>>
    BY DEF U!BackendCloses, U!BackendEOF
  <1>2. bottom' \in [U!Links -> BOOLEAN] /\ bottom'[0] = bottom[0] /\ bottom'[1] = bottom[1]
    <2>1. bottom \in [0 .. 2 -> BOOLEAN]
      BY DEF TunnelInv, TunnelTypes, U!Links
    <2> QED BY <1>1, <2>1 DEF U!Links
  <1>3. TunnelTypes' /\ Read' /\ Closers' /\ Run(gotUp, 0)'
    BY <1>1, <1>2 DEF TunnelInv, TunnelTypes, Read, Closers
  <1>4. TunnelDown' /\ TunnelUp'
    BY <1>1 DEF TunnelInv, TunnelDown, TunnelUp
  <1> QED BY <1>3, <1>4 DEF TunnelInv

LEMMA TunnelNext == ASSUME TunnelInv, U!Next \/ UNCHANGED uvars PROVE TunnelInv'
  <1>1. ASSUME U!Use PROVE TunnelInv'
    BY <1>1, DialAgentKeeps, RefuseKeeps, ClientSendsKeeps, ClientEndsKeeps, BackendSendsKeeps, BackendEndsKeeps DEF U!Use
  <1>2. 0 .. MaxUp \subseteq Nat /\ 0 .. MaxDown \subseteq Nat /\ 0 .. 1 = {0, 1}
    OBVIOUS
  <1>3. ASSUME U!Flow PROVE TunnelInv'
    BY <1>2, <1>3, ConnectKeeps, ReadOKKeeps, Read101Keeps, ReadPreambleKeeps, NoPreambleKeeps, DialBackendKeeps, CopyDownKeeps,
       CopyUpKeeps, EndCopyKeeps, ClientReadsKeeps, ClientEndsKeeps, BackendReadsKeeps, BackendEndsKeeps DEF U!Flow
  <1> QED BY <1>1, <1>3, TunnelStays DEF U!Next

\* A step of the run is a step of the tunnel, or leaves it as it is.
LEMMA TunnelMoves == ASSUME [LiveNext]_all PROVE U!Next \/ UNCHANGED uvars
  BY DEF LiveNext, WebStep, TunnelStep, DevStep, TransfersStep, all

LEMMA TunnelHolds == ASSUME TunnelInv PROVE U!StreamsAreWhole /\ U!ReplyIsWhole
  <1>1. U!Counting(gotDown) /\ U!Counting(gotUp)
    <2>1. Run(gotDown, 0) /\ Run(gotUp, 0)
      BY DEF TunnelInv, TunnelDown, Downward
    <2> QED BY <2>1 DEF Run, U!Counting
  <1>2. port # "none" => port = kind
    BY DEF TunnelInv, TunnelTypes
  <1>3. U!ReplyIsWhole
    BY DEF TunnelInv, Read, U!ReplyIsWhole
  <1> QED BY <1>1, <1>2, <1>3 DEF U!StreamsAreWhole

LEMMA ReportsHold == ASSUME TransferInv PROVE G!ReportsAreTrue
  BY DEF TransferInv, Outcome, G!ReportsAreTrue

\* What goes through a tunnel arrives whole and at the backend that was asked for, the
\* reply to the client included (bridge), and the end of a clone or a push is reported
\* once and as it was (reportClone, reportPush): for any number of items.
THEOREM NothingIsLost == LiveSpec => []TransfersWhole
  <1> DEFINE Inv == TunnelInv /\ TransferInv
  <1>1. LiveInit => Inv
    BY TransferInit, TunnelInit DEF LiveInit
  <1>2. Inv /\ [LiveNext]_all => Inv'
    BY TransfersMove, TransferNext, TunnelMoves, TunnelNext
  <1>3. Inv => TransfersWhole
    BY TunnelHolds, ReportsHold DEF TransfersWhole
  <1> HIDE DEF Inv
  <1> QED BY <1>1, <1>2, <1>3, PTL DEF LiveSpec
=============================================================================
