----------------------------- MODULE LaneProofs -----------------------------
(***************************************************************************)
(* Proofs about TaskLane, of the specification of its run, for any number  *)
(* of turns, events, cancels, restarts and viewers.                        *)
(*                                                                         *)
(* Both instances take steps of one relation (Moves), which leaves open    *)
(* how long the ring is.  For it, types are kept, no frame is out of order *)
(* in the ring (Sorted), and notifications are counted (Counted): while no *)
(* subscription is full, or if none can ever be, none of what is published *)
(* is lost to a client that is connected.  The calm instance has one turn  *)
(* at a time (Line); how far it is says what can be on the wire.           *)
(***************************************************************************)
EXTENDS MCTaskLane, Integers, FiniteSetTheorems, WellFoundedInduction, TLAPS

\* No subscription is full.
Room == \A v \in Viewers : view[v].pc = "live" => Len(view[v].chan) < SubBuf

\* A subscription has room for the frames of all turns.
Roomy == LastTurn * (MaxEvents + 1) <= SubBuf

-----------------------------------------------------------------------------
(* The frames of the ring after the n-th.                                  *)

Sorted ==
    /\ \A i \in DOMAIN hub.buf : hub.buf[i].seq <= hub.seq
    /\ \A i, j \in DOMAIN hub.buf : i < j => hub.buf[i].seq < hub.buf[j].seq

\* F has what Later collects, as far as k.
Collects(F, k, n) ==
    F = [i \in 0 .. k |-> IF i = 0 THEN <<>>
                          ELSE IF hub.buf[i].seq > n THEN Append(F[i - 1], hub.buf[i]) ELSE F[i - 1]]

\* Every non-empty set of naturals has a least element.
LEMMA Least ==
    ASSUME NEW T \in SUBSET Nat, T # {}
    PROVE  \E x \in T : \A y \in T : x <= y
  <1> DEFINE R == OpToRel(<, Nat)
  <1>1. IsWellFoundedOn(R, Nat)
    BY NatLessThanWellFounded
  <1>2. \A y, x \in Nat : y < x => <<y, x>> \in R
    BY DEF OpToRel
  <1> HIDE DEF R
  <1>3. PICK x \in T : \A y \in T : ~(<<y, x>> \in R)
    BY <1>1, WFMin
  <1>4. ASSUME NEW y \in T PROVE x <= y
    <2>1. x \in Nat /\ y \in Nat
      OBVIOUS
    <2>2. ~(y < x)
      BY <2>1, <1>2, <1>3
    <2> QED BY <2>1, <2>2
  <1> QED BY <1>4

LEMMA Collected ==
    ASSUME NEW n, NEW top \in Nat
    PROVE  \E F : Collects(F, top, n)
  <1> DEFINE Short == {k \in 0 .. top : ~\E F : Collects(F, k, n)}
  <1> SUFFICES ASSUME Short # {} PROVE FALSE
    OBVIOUS
  <1>1. PICK k \in Short : \A j \in Short : k <= j
    <2>1. Short \in SUBSET Nat
      OBVIOUS
    <2> HIDE DEF Short
    <2> QED BY <2>1, Least
  <1>2. k \in 0 .. top /\ ~\E F : Collects(F, k, n)
    OBVIOUS
  <1>3. k # 0
    <2>1. Collects([i \in 0 .. 0 |-> <<>>], 0, n)
      BY DEF Collects
    <2> QED BY <1>2, <2>1
  <1>4. PICK G : Collects(G, k - 1, n)
    <2>1. k - 1 \in 0 .. top /\ ~(k <= k - 1)
      BY <1>2, <1>3
    <2>2. k - 1 \notin Short
      BY <2>1, <1>1
    <2> QED BY <2>1, <2>2
  <1> DEFINE F == [i \in 0 .. k |-> IF i < k THEN G[i]
                                    ELSE IF hub.buf[k].seq > n THEN Append(G[k - 1], hub.buf[k]) ELSE G[k - 1]]
  <1>5. Collects(F, k, n)
    <2>1. ASSUME NEW i \in 0 .. k
          PROVE  F[i] = IF i = 0 THEN <<>>
                        ELSE IF hub.buf[i].seq > n THEN Append(F[i - 1], hub.buf[i]) ELSE F[i - 1]
      <3>1. CASE i < k
        <4>1. i \in 0 .. k - 1 /\ (i # 0 => i - 1 \in 0 .. k /\ i - 1 < k)
          BY <3>1, <1>2, <1>3
        <4>2. F[i] = G[i] /\ (i # 0 => F[i - 1] = G[i - 1])
          BY <4>1, <3>1
        <4>3. G[i] = IF i = 0 THEN <<>>
                     ELSE IF hub.buf[i].seq > n THEN Append(G[i - 1], hub.buf[i]) ELSE G[i - 1]
          BY <4>1, <1>4 DEF Collects
        <4> QED BY <4>2, <4>3
      <3>2. CASE i = k
        <4>1. k - 1 \in 0 .. k /\ k - 1 < k /\ ~(k < k) /\ k \in 0 .. k
          BY <1>2, <1>3
        <4>2. F[k - 1] = G[k - 1]
          BY <4>1
        <4> QED BY <4>1, <4>2, <3>2, <1>3
      <3> QED BY <3>1, <3>2, <1>2
    <2> QED BY <2>1 DEF Collects
  <1> QED BY <1>2, <1>5

\* They are frames of the ring; without one there is none after the n-th, and the
\* last of them is the last of the ring.
LEMMA LaterFrames ==
    ASSUME hub.buf \in Seq(Frame), Sorted, NEW n \in Nat, NEW b, b = Later(n)
    PROVE  /\ b \in Seq(Frame)
           /\ \A i \in DOMAIN hub.buf : hub.buf[i].seq > n => b # <<>> /\ hub.buf[i].seq <= b[Len(b)].seq
           /\ \A i \in DOMAIN b : b[i].seq > n
  <1> DEFINE top == Len(hub.buf)
             F == CHOOSE F : Collects(F, top, n)
  <1>1. top \in Nat /\ DOMAIN hub.buf = 1 .. top /\ \A i \in 1 .. top : hub.buf[i] \in Frame /\ hub.buf[i].seq \in Nat
    <2>1. \A f \in Frame : f.seq \in Nat
      BY DEF Frame
    <2> QED BY <2>1
  <1>2. Collects(F, top, n)
    <2>1. PICK G : Collects(G, top, n)
      BY <1>1, Collected
    <2> HIDE DEF top
    <2> QED BY <2>1
  <1>3. Later(n) = F[top]
    BY DEF Later, Collects
  <1> HIDE DEF F
  <1>4. F[0] = <<>>
    BY <1>1, <1>2 DEF Collects
  <1>5. \A i \in 1 .. top : F[i] = IF hub.buf[i].seq > n THEN Append(F[i - 1], hub.buf[i]) ELSE F[i - 1]
    <2>1. \A i \in 1 .. top : i \in 0 .. top /\ i # 0
      BY <1>1
    <2> QED BY <2>1, <1>2 DEF Collects
  <1> DEFINE Good(k) ==
        /\ F[k] \in Seq(Frame)
        /\ \A i \in 1 .. k : hub.buf[i].seq > n => F[k] # <<>> /\ hub.buf[i].seq <= F[k][Len(F[k])].seq
        /\ \A i \in DOMAIN F[k] : F[k][i].seq > n
      Bad == {k \in 0 .. top : ~Good(k)}
  <1>6. Good(0)
    BY <1>4
  <1>7. ASSUME NEW k \in 1 .. top, Good(k - 1) PROVE Good(k)
    <2> DEFINE f == hub.buf[k] 
               g == F[k - 1]
    <2>1. f \in Frame /\ f.seq \in Nat /\ g \in Seq(Frame) /\ k \in Nat /\ k >= 1
      BY <1>1, <1>7
    <2>2. \A i \in 1 .. k : i \in 1 .. k - 1 \/ i = k
      BY <2>1
    <2>3. \A i \in 1 .. k - 1 : hub.buf[i].seq <= f.seq /\ i \in 1 .. top /\ i \in 1 .. k
      <3> SUFFICES ASSUME NEW i \in 1 .. k - 1 PROVE hub.buf[i].seq <= f.seq /\ i \in 1 .. top /\ i \in 1 .. k
        OBVIOUS
      <3>1. i \in 1 .. top /\ i < k /\ i \in 1 .. k
        BY <1>1, <2>1
      <3>2. hub.buf[i].seq < f.seq
        BY <3>1, <1>1 DEF Sorted
      <3> QED BY <3>1, <3>2, <1>1, <2>1
    <2>4. CASE f.seq > n
      <3>1. F[k] = Append(g, f)
        BY <1>5, <2>4
      <3>2. /\ F[k] \in Seq(Frame) /\ F[k] # <<>> /\ F[k][Len(F[k])] = f
            /\ DOMAIN F[k] = 1 .. Len(g) + 1 /\ Len(g) \in Nat /\ DOMAIN g = 1 .. Len(g)
            /\ \A i \in 1 .. Len(g) : F[k][i] = g[i]
            /\ F[k][Len(g) + 1] = f
        BY <3>1, <2>1
      <3>3. \A i \in 1 .. k : hub.buf[i].seq <= f.seq
        BY <2>2, <2>3, <2>1
      <3>4. ASSUME NEW i \in DOMAIN F[k] PROVE F[k][i].seq > n
        <4>1. CASE i = Len(g) + 1
          BY <4>1, <3>2, <2>4
        <4>2. CASE i \in DOMAIN g
          BY <4>2, <1>7, <3>2
        <4> QED BY <4>1, <4>2, <3>2
      <3> QED BY <3>2, <3>3, <3>4
    <2>5. CASE ~(f.seq > n)
      <3>1. F[k] = g
        BY <1>5, <2>5
      <3>2. \A i \in 1 .. k : hub.buf[i].seq > n => i \in 1 .. k - 1
        BY <2>2, <2>5
      <3> HIDE DEF g
      <3> QED BY <3>1, <3>2, <2>3, <1>7, <2>1 DEF g
    <2> QED BY <2>4, <2>5
  <1>8. Bad = {}
    <2> SUFFICES ASSUME Bad # {} PROVE FALSE
      OBVIOUS
    <2>1. PICK k \in Bad : \A j \in Bad : k <= j
      <3>1. Bad \in SUBSET Nat
        OBVIOUS
      <3> HIDE DEF Bad
      <3> QED BY <3>1, Least
    <2>2. k \in 0 .. top /\ ~Good(k)
      OBVIOUS
    <2> HIDE DEF Good
    <2>3. k # 0
      BY <2>2, <1>6
    <2>4. k - 1 \in 0 .. top /\ k \in 1 .. top /\ ~(k <= k - 1)
      BY <2>2, <2>3, <1>1
    <2>5. Good(k - 1)
      BY <2>4, <2>1
    <2> QED BY <2>2, <2>4, <2>5, <1>7
  <1>9. top \in 0 .. top
    BY <1>1
  <1>10. Good(top)
    <2> HIDE DEF Good
    <2> QED BY <1>8, <1>9
  <1>11. b = F[top]
    BY <1>3
  <1> HIDE DEF top
  <1> QED BY <1>10, <1>11, <1>1

-----------------------------------------------------------------------------
(* The steps of both instances.                                            *)

\* A frame is published, whatever becomes of the oldest of the ring.
Sends(t, terminal) ==
    LET f == [seq |-> hub.seq + 1, t |-> t, terminal |-> terminal]
        b == Append(hub.buf, f)
    IN  /\ \E kept \in {b, Tail(b)} :
              hub' = [exists |-> TRUE, seq |-> f.seq, turnStart |-> hub.turnStart, buf |-> kept,
                      terminal |-> hub.terminal \/ terminal, reaper |-> hub.reaper \/ terminal]
        /\ view' = [v \in Viewers |->
                     IF view[v].pc = "live" /\ Len(view[v].chan) < SubBuf
                     THEN [view[v] EXCEPT !.chan = Append(@, f)] ELSE view[v]]

Event(i) ==
    /\ wire[i].kind = "event" /\ wire' = Without(i) /\ Sends(wire[i].t, FALSE)
    /\ UNCHANGED <<task, call, guestVars, cancel, finishing, reopened, restarts>>

Result(f) ==
    /\ finishing' = finishing \ {f} /\ Sends(f.t, TRUE)
    /\ UNCHANGED <<task, call, guestVars, cancel, wire, reopened, restarts>>

Moves ==
    \/ \E t \in Turns : Handler(t) \/ Guest(t)
    \/ CancelRead \/ CancelLands
    \/ \E i \in DOMAIN wire : Event(i) \/ HandleDone(i)
    \/ (\E f \in finishing : Result(f)) \/ Reap
    \/ \E v \in Viewers : Viewing(v) \/ ViewBreaks(v) \/ ViewAgain(v)
    \/ Restart

LEMMA CalmMoves == ASSUME TypeOK, CalmStep PROVE Moves
  <1>1. \A n : Calm!Later(n) = Later(n)
    BY DEF Calm!Later, Later
  <1>2. \A n : Calm!Backlog(n) = Backlog(n)
    BY <1>1 DEF Calm!Backlog, Backlog, Calm!Larger, Larger
  <1>3. ASSUME NEW t \in Turns, Calm!Handler(t) PROVE Handler(t)
    BY <1>3 DEF Handler, CreateInsert, CreateMark, MessageRead, Dispatch, DispatchFails, Refused, MessageReopen, MessageRestart,
        Orderly, Writes, MarkAgentTaskRunning, FinishAgentTask, RestartAgentTask, guestVars, hubVars, Turns,
        Calm!Handler, Calm!CreateInsert, Calm!CreateMark, Calm!MessageRead, Calm!Dispatch, Calm!DispatchFails, Calm!Refused,
        Calm!MessageReopen, Calm!MessageRestart, Calm!Orderly, Calm!Writes, Calm!MarkAgentTaskRunning, Calm!FinishAgentTask,
        Calm!RestartAgentTask, Calm!guestVars, Calm!hubVars, Calm!Turns, Calm!Terminal, Terminal
  <1>4. ASSUME NEW t \in Turns, Calm!Guest(t) PROVE Guest(t)
    BY <1>4 DEF Guest, RunEmits, RunEnds, RunReports, RunUnregisters, Notify, WasCanceled, guestVars, hubVars, Terminal,
        Calm!Guest, Calm!RunEmits, Calm!RunEnds, Calm!RunReports, Calm!RunUnregisters, Calm!Notify, Calm!WasCanceled,
        Calm!guestVars, Calm!hubVars, Calm!Terminal
  <1>5. ASSUME NEW t, NEW x, Calm!Publish(t, x) PROVE Sends(t, x)
    BY <1>5 DEF Sends, Calm!Publish
  <1>6. ASSUME NEW i \in Calm!Arrivals, Calm!HandleEvent(i) PROVE i \in DOMAIN wire /\ Event(i)
    BY <1>5, <1>6 DEF Event, Calm!HandleEvent, Calm!Arrivals, Calm!Without, Without, Calm!guestVars, guestVars
  <1>7. ASSUME NEW i \in Calm!Arrivals, Calm!HandleDone(i) PROVE i \in DOMAIN wire /\ HandleDone(i)
    BY <1>7 DEF HandleDone, Calm!HandleDone, Calm!Arrivals, Calm!Without, Without, Calm!guestVars, guestVars, Calm!hubVars, hubVars,
        Calm!Writes, Writes, Calm!FinishAgentTask, FinishAgentTask
  <1>8. ASSUME NEW f, Calm!PublishResult(f) PROVE Result(f)
    BY <1>5, <1>8 DEF Result, Calm!PublishResult, Calm!guestVars, guestVars
  <1>9. ASSUME NEW v \in Viewers, Calm!Viewing(v) PROVE Viewing(v)
    <2>1. Calm!ViewSubscribe(v) => ViewSubscribe(v)
      <3>1. \A w, x : Calm!Closes(w, x) = Closes(w, x)
        BY DEF Calm!Closes, Closes
      <3>2. \A fs : Calm!ResultIn(fs) = ResultIn(fs)
        BY DEF Calm!ResultIn, ResultIn
      <3>3. Calm!NobodyBut(v) = NobodyBut(v) /\ Calm!Terminal = Terminal
        BY DEF Calm!NobodyBut, NobodyBut, Calm!Terminal, Terminal
      <3> QED BY <1>2, <3>1, <3>2, <3>3 DEF ViewSubscribe, Calm!ViewSubscribe, Calm!guestVars, guestVars
    <2>2. Calm!ViewRead(v) => ViewRead(v)
      BY DEF ViewRead, Calm!ViewRead, Calm!guestVars, guestVars
    <2>3. Calm!ViewReceive(v) => ViewReceive(v)
      BY DEF ViewReceive, Calm!ViewReceive, Calm!guestVars, guestVars, Calm!Closes, Closes, Calm!NobodyBut, NobodyBut
    <2> QED BY <1>9, <2>1, <2>2, <2>3 DEF Viewing, Calm!Viewing
  <1>10. ASSUME NEW v \in Viewers, Calm!ViewBreaks(v) \/ Calm!ViewAgain(v) PROVE ViewBreaks(v) \/ ViewAgain(v)
    BY <1>10 DEF Calm!ViewBreaks, Calm!ViewAgain, ViewBreaks, ViewAgain, Calm!guestVars, guestVars, Calm!NobodyBut, NobodyBut, Calm!NewView, NewView
  <1>11. /\ Calm!CancelRead => CancelRead
         /\ Calm!CancelLands => CancelLands
         /\ ~Calm!Reap
    BY DEF Calm!CancelRead, CancelRead, Calm!CancelLands, CancelLands, Calm!Reap, Calm!guestVars, guestVars, Calm!hubVars, hubVars
  <1>12. ~Calm!Restart
    <2>1. restarts \in 0 .. MaxRestarts
      BY DEF TypeOK
    <2>2. ~(restarts < 0)
      BY <2>1, LaneAssumption
    <2> QED BY <2>2 DEF Calm!Restart
  <1>13. Calm!Turns = Turns
    BY DEF Calm!Turns, Turns
  <1>14. CASE \E t \in Turns : Calm!Handler(t) \/ Calm!Guest(t)
    BY <1>14, <1>3, <1>4 DEF Moves
  <1>15. CASE Calm!CancelRead \/ Calm!CancelLands
    BY <1>15, <1>11 DEF Moves
  <1>16. CASE Calm!Handle
    BY <1>16, <1>6, <1>7 DEF Moves, Calm!Handle
  <1>17. CASE \E f \in finishing : Calm!PublishResult(f)
    BY <1>17, <1>8 DEF Moves
  <1>18. CASE \E v \in Viewers : Calm!Viewing(v) \/ Calm!ViewBreaks(v) \/ Calm!ViewAgain(v)
    BY <1>18, <1>9, <1>10 DEF Moves
  <1> QED BY <1>11, <1>12, <1>13, <1>14, <1>15, <1>16, <1>17, <1>18 DEF CalmStep, Calm!Next

LEMMA RoughMoves == ASSUME TypeOK, RoughStep PROVE Moves
  <1>1. \A n : Rough!Later(n) = Later(n)
    BY DEF Rough!Later, Later
  <1>2. \A n : Rough!Backlog(n) = Backlog(n)
    BY <1>1 DEF Rough!Backlog, Backlog, Rough!Larger, Larger
  <1>3. ASSUME NEW t \in Turns, Rough!Handler(t) PROVE Handler(t)
    BY <1>3 DEF Handler, CreateInsert, CreateMark, MessageRead, Dispatch, DispatchFails, Refused, MessageReopen, MessageRestart,
        Orderly, Writes, MarkAgentTaskRunning, FinishAgentTask, RestartAgentTask, guestVars, hubVars, Turns,
        Rough!Handler, Rough!CreateInsert, Rough!CreateMark, Rough!MessageRead, Rough!Dispatch, Rough!DispatchFails, Rough!Refused,
        Rough!MessageReopen, Rough!MessageRestart, Rough!Orderly, Rough!Writes, Rough!MarkAgentTaskRunning, Rough!FinishAgentTask,
        Rough!RestartAgentTask, Rough!guestVars, Rough!hubVars, Rough!Turns, Rough!Terminal, Terminal
  <1>4. ASSUME NEW t \in Turns, Rough!Guest(t) PROVE Guest(t)
    <2>1. ~Rough!RunEmits(t)
      <3>1. run[t].events \in 0 .. MaxEvents
        BY DEF TypeOK
      <3>2. ~(run[t].events < 0)
        BY <3>1, LaneAssumption
      <3> QED BY <3>2 DEF Rough!RunEmits
    <2>2. Rough!RunReports(t) => RunReports(t)
      BY DEF RunReports, Rough!RunReports, Notify, Rough!Notify, WasCanceled, Rough!WasCanceled, hubVars, Rough!hubVars, Terminal, Rough!Terminal
    <2>3. Rough!RunEnds(t) \/ Rough!RunUnregisters(t) => RunEnds(t) \/ RunUnregisters(t)
      BY DEF RunEnds, Rough!RunEnds, RunUnregisters, Rough!RunUnregisters, hubVars, Rough!hubVars
    <2> QED BY <1>4, <2>1, <2>2, <2>3 DEF Guest, Rough!Guest
  <1>5. ASSUME NEW t, NEW x, Rough!Publish(t, x) PROVE Sends(t, x)
    BY <1>5 DEF Sends, Rough!Publish
  <1>6. ASSUME NEW i \in Rough!Arrivals, Rough!HandleEvent(i) PROVE i \in DOMAIN wire /\ Event(i)
    BY <1>5, <1>6 DEF Event, Rough!HandleEvent, Rough!Arrivals, Rough!Without, Without, Rough!guestVars, guestVars
  <1>7. ASSUME NEW i \in Rough!Arrivals, Rough!HandleDone(i) PROVE i \in DOMAIN wire /\ HandleDone(i)
    BY <1>7 DEF HandleDone, Rough!HandleDone, Rough!Arrivals, Rough!Without, Without, Rough!guestVars, guestVars, Rough!hubVars, hubVars,
        Rough!Writes, Writes, Rough!FinishAgentTask, FinishAgentTask
  <1>8. ASSUME NEW f, Rough!PublishResult(f) PROVE Result(f)
    BY <1>5, <1>8 DEF Result, Rough!PublishResult, Rough!guestVars, guestVars
  <1>9. ASSUME NEW v \in Viewers, Rough!Viewing(v) PROVE Viewing(v)
    <2>1. Rough!ViewSubscribe(v) => ViewSubscribe(v)
      <3>1. \A w, x : Rough!Closes(w, x) = Closes(w, x)
        BY DEF Rough!Closes, Closes
      <3>2. \A fs : Rough!ResultIn(fs) = ResultIn(fs)
        BY DEF Rough!ResultIn, ResultIn
      <3>3. Rough!NobodyBut(v) = NobodyBut(v) /\ Rough!Terminal = Terminal
        BY DEF Rough!NobodyBut, NobodyBut, Rough!Terminal, Terminal
      <3> QED BY <1>2, <3>1, <3>2, <3>3 DEF ViewSubscribe, Rough!ViewSubscribe, Rough!guestVars, guestVars
    <2>2. Rough!ViewRead(v) => ViewRead(v)
      BY DEF ViewRead, Rough!ViewRead, Rough!guestVars, guestVars
    <2>3. Rough!ViewReceive(v) => ViewReceive(v)
      BY DEF ViewReceive, Rough!ViewReceive, Rough!guestVars, guestVars, Rough!Closes, Closes, Rough!NobodyBut, NobodyBut
    <2> QED BY <1>9, <2>1, <2>2, <2>3 DEF Viewing, Rough!Viewing
  <1>10. ASSUME NEW v \in Viewers, Rough!ViewBreaks(v) \/ Rough!ViewAgain(v) PROVE ViewBreaks(v) \/ ViewAgain(v)
    BY <1>10 DEF Rough!ViewBreaks, Rough!ViewAgain, ViewBreaks, ViewAgain, Rough!guestVars, guestVars, Rough!NobodyBut, NobodyBut, Rough!NewView, NewView
  <1>11. ~Rough!CancelRead
    BY LaneAssumption DEF Rough!CancelRead, TypeOK
  <1>12. /\ Rough!CancelLands => CancelLands
         /\ Rough!Reap => Reap
         /\ Rough!Restart => Restart
    BY DEF Rough!CancelLands, CancelLands, Rough!Reap, Reap, Rough!Restart, Restart, Rough!guestVars, guestVars, Rough!hubVars, hubVars,
        Rough!NoStream, NoStream, Rough!Turns, Turns
  <1>13. Rough!Turns = Turns
    BY DEF Rough!Turns, Turns
  <1>14. CASE \E t \in Turns : Rough!Handler(t) \/ Rough!Guest(t)
    BY <1>14, <1>3, <1>4 DEF Moves
  <1>15. CASE Rough!CancelRead \/ Rough!CancelLands
    BY <1>15, <1>11, <1>12 DEF Moves
  <1>16. CASE Rough!Handle
    BY <1>16, <1>6, <1>7 DEF Moves, Rough!Handle
  <1>17. CASE (\E f \in finishing : Rough!PublishResult(f)) \/ Rough!Reap \/ Rough!Restart
    BY <1>17, <1>8, <1>12 DEF Moves
  <1>18. CASE \E v \in Viewers : Rough!Viewing(v) \/ Rough!ViewBreaks(v) \/ Rough!ViewAgain(v)
    BY <1>18, <1>9, <1>10 DEF Moves
  <1> QED BY <1>13, <1>14, <1>15, <1>16, <1>17, <1>18 DEF RoughStep, Rough!Next

-----------------------------------------------------------------------------
(* What both instances keep.                                               *)

TaskRows == [status : Statuses, session : BOOLEAN, turn : 0 .. LastTurn]
Calls == {"new", "dispatch", "acked", "refused", "restart", "over"}
RunRecs == [pc : {"none", "working", "report", "unregister", "over"}, canceled : BOOLEAN, events : 0 .. MaxEvents]
Streams(n) == [exists : BOOLEAN, seq : Nat, turnStart : 0 .. n, buf : Seq(Frame), terminal : BOOLEAN, reaper : BOOLEAN]
Views == [pc : {"off", "read", "live", "got"}, status : Statuses, turn : 0 .. LastTurn,
          sent : Nat, chan : Seq(Frame), shown : 0 .. LastTurn, want : 0 .. LastTurn]

\* A turn is dispatched once.
Fresh == \A t \in Turns : call[t] \in {"new", "dispatch"} => run[t].pc = "none"

\* The notifications that the runs have sent: their events, and 0 for the result.
Sent == {x \in Turns \X (0 .. MaxEvents) :
            IF x[2] = 0 THEN run[x[1]].pc \in {"unregister", "over"} ELSE x[2] <= run[x[1]].events}

\* Each is on the wire, being finished, or published, at most once; a subscription
\* has at most what was published.
Counted ==
    /\ IsFiniteSet(finishing)
    /\ hub.seq + Len(wire) + Cardinality(finishing) <= Cardinality(Sent)
    /\ \A v \in Viewers : IF view[v].pc = "live" THEN Len(view[v].chan) <= hub.seq ELSE view[v].chan = <<>>

LaneInv == TypeOK /\ Sorted /\ Fresh /\ Counted /\ NothingMissed

LEMMA SentBounded == Cardinality(Sent) \in Nat /\ IsFiniteSet(Sent) /\ (Roomy => Cardinality(Sent) <= SubBuf)
  <1>1. IsFiniteSet(Turns) /\ Cardinality(Turns) = LastTurn
    BY FS_Interval, LaneAssumption DEF Turns
  <1>2. IsFiniteSet(0 .. MaxEvents) /\ Cardinality(0 .. MaxEvents) = MaxEvents + 1
    BY FS_Interval, LaneAssumption
  <1> DEFINE all == Turns \X (0 .. MaxEvents)
  <1>3. IsFiniteSet(all) /\ Cardinality(all) = LastTurn * (MaxEvents + 1)
    BY <1>1, <1>2, FS_Product
  <1>4. Sent \in SUBSET all
    BY DEF Sent
  <1> HIDE DEF all
  <1>5. IsFiniteSet(Sent) /\ Cardinality(Sent) <= Cardinality(all)
    BY <1>3, <1>4, FS_Subset
  <1>6. Cardinality(Sent) \in Nat
    BY <1>5, FS_CardinalityType
  <1>7. LastTurn * (MaxEvents + 1) \in Nat /\ SubBuf \in Nat
    BY LaneAssumption
  <1> QED BY <1>3, <1>5, <1>6, <1>7 DEF Roomy

LEMMA TaskTyped ==
    ASSUME TypeOK
    PROVE  /\ task \in TaskRows
           /\ \A s \in Statuses : [task EXCEPT !.status = s] \in TaskRows
           /\ MarkAgentTaskRunning \in TaskRows /\ RestartAgentTask \in TaskRows
           /\ \A d : d.status \in Terminal /\ d.t \in Turns /\ d.session \in BOOLEAN => FinishAgentTask(d) \in TaskRows
  <1>1. task \in TaskRows /\ task.status \in Statuses /\ task.session \in BOOLEAN /\ {"queued", "running"} \subseteq Statuses
    BY DEF TypeOK, TaskRows, Statuses
  <1>2. \A s \in Statuses : [task EXCEPT !.status = s] \in TaskRows
    BY <1>1 DEF TaskRows
  <1>3. MarkAgentTaskRunning \in TaskRows /\ RestartAgentTask \in TaskRows
    <2>1. CASE task.status = "queued"
      BY <2>1, <1>1, <1>2 DEF MarkAgentTaskRunning, RestartAgentTask
    <2>2. CASE task.status # "queued"
      BY <2>2, <1>1, <1>2 DEF MarkAgentTaskRunning, RestartAgentTask
    <2> QED BY <2>1, <2>2
  <1>4. ASSUME NEW d, d.status \in Terminal, d.t \in Turns, d.session \in BOOLEAN PROVE FinishAgentTask(d) \in TaskRows
    <2>1. d.t \in 0 .. LastTurn /\ d.status \in Statuses /\ (task.session \/ d.session) \in BOOLEAN
      BY <1>4, <1>1, LaneAssumption DEF Turns, Statuses
    <2> QED BY <2>1 DEF FinishAgentTask, TaskRows
  <1> QED BY <1>1, <1>2, <1>3, <1>4

LEMMA WritesTyped == ASSUME TypeOK, NEW row \in TaskRows, Writes(row) PROVE task' \in TaskRows
  BY TaskTyped DEF Writes

LEMMA CallGoes ==
    ASSUME TypeOK, NEW t \in Turns, NEW to \in Calls, call' = [call EXCEPT ![t] = to]
    PROVE  call' \in [Turns -> Calls] /\ call'[t] = to /\ \A s \in Turns \ {t} : call'[s] = call[s]
  BY DEF TypeOK, Calls

\* A step that changes only rows and handlers.
LEMMA RowsOnly ==
    ASSUME LaneInv, task' \in TaskRows, call' \in [Turns -> Calls], Fresh',
           UNCHANGED <<guestVars, cancel, wire, finishing, hubVars, restarts>>
    PROVE  LaneInv'
  <1>1. TypeOK'
    BY DEF LaneInv, TypeOK, TaskRows, Calls, guestVars, hubVars
  <1>2. Counted' /\ Sorted' /\ NothingMissed'
    BY DEF LaneInv, Counted, Sorted, NothingMissed, Sent, guestVars, hubVars
  <1> QED BY <1>1, <1>2 DEF LaneInv

LEMMA HandlerKeeps == ASSUME LaneInv, NEW t \in Turns, Handler(t) PROVE LaneInv'
  <1>0. TypeOK /\ Fresh /\ run \in [Turns -> RunRecs]
    BY DEF LaneInv, TypeOK, RunRecs
  <1>1. CASE t = 1 /\ CreateInsert
    <2>1. task' \in TaskRows
      BY <1>0, <1>1, TaskTyped DEF CreateInsert, Statuses
    <2>2. call' \in [Turns -> Calls] /\ Fresh'
      BY <1>0, <1>1, CallGoes DEF CreateInsert, Calls, Fresh, guestVars
    <2> QED BY <2>1, <2>2, <1>1, RowsOnly DEF CreateInsert
  <1>2. CASE t = 1 /\ CreateMark
    <2>1. task' \in TaskRows
      BY <1>0, <1>2, TaskTyped, WritesTyped DEF CreateMark
    <2>2. call' \in [Turns -> Calls] /\ Fresh'
      BY <1>0, <1>2, CallGoes DEF CreateMark, Calls, Fresh, guestVars
    <2> QED BY <2>1, <2>2, <1>2, RowsOnly DEF CreateMark
  <1>3. CASE MessageRead(t)
    <2>1. call' \in [Turns -> Calls] /\ Fresh'
      BY <1>0, <1>3, CallGoes DEF MessageRead, Calls, Fresh, guestVars
    <2> QED BY <2>1, <1>0, <1>3, RowsOnly, TaskTyped DEF MessageRead
  <1>4. CASE DispatchFails(t)
    <2>1. call' \in [Turns -> Calls] /\ Fresh'
      BY <1>0, <1>4, CallGoes DEF DispatchFails, Calls, Fresh, guestVars
    <2> QED BY <2>1, <1>0, <1>4, RowsOnly, TaskTyped DEF DispatchFails
  <1>5. CASE Refused(t)
    <2>1. call' \in [Turns -> Calls] /\ Fresh'
      BY <1>0, <1>5, CallGoes DEF Refused, Calls, Fresh, guestVars
    <2>2. task' \in TaskRows
      <3>1. FinishAgentTask([t |-> 1, status |-> "failed", session |-> FALSE]) \in TaskRows
        <4>1. 1 \in Turns
          BY LaneAssumption DEF Turns
        <4> QED BY <4>1, <1>0, TaskTyped DEF Terminal
      <3> QED BY <3>1, <1>0, <1>5, TaskTyped, WritesTyped DEF Refused
    <2> QED BY <2>1, <2>2, <1>5, RowsOnly DEF Refused
  <1>6. CASE MessageRestart(t)
    <2>1. call' \in [Turns -> Calls] /\ Fresh'
      BY <1>0, <1>6, CallGoes DEF MessageRestart, Calls, Fresh, guestVars
    <2> QED BY <2>1, <1>0, <1>6, RowsOnly, TaskTyped, WritesTyped DEF MessageRestart
  <1>7. CASE Dispatch(t)
    <2>1. /\ call[t] = "dispatch" /\ registry' = t /\ run' = [run EXCEPT ![t].pc = "working"]
          /\ UNCHANGED <<task, cancel, wire, finishing, hub, reopened, view, restarts>>
      BY <1>7 DEF Dispatch, hubVars
    <2>2. PICK r \in {"acked", "refused"} : call' = [call EXCEPT ![t] = r]
      BY <1>7 DEF Dispatch
    <2>3. call' \in [Turns -> Calls] /\ call'[t] = r /\ \A s \in Turns \ {t} : call'[s] = call[s]
      BY <2>2, <1>0, CallGoes DEF Calls
    <2>4. /\ run' \in [Turns -> RunRecs] /\ run[t].pc = "none" /\ run'[t].pc = "working"
          /\ \A s \in Turns : run'[s].events = run[s].events /\ (s # t => run'[s] = run[s])
      BY <2>1, <1>0 DEF Fresh, RunRecs
    <2>5. Sent' = Sent
      BY <2>4 DEF Sent
    <2>6. registry' \in 0 .. LastTurn
      BY <2>1, LaneAssumption DEF Turns
    <2>7. TypeOK'
      BY <2>1, <2>3, <2>4, <2>6, <1>0 DEF TypeOK, Calls, RunRecs
    <2>8. Fresh'
      BY <2>2, <2>3, <2>4, <1>0 DEF Fresh
    <2>9. Counted' /\ Sorted' /\ NothingMissed'
      BY <2>1, <2>5 DEF LaneInv, Counted, Sorted, NothingMissed
    <2> QED BY <2>7, <2>8, <2>9 DEF LaneInv
  <1>8. CASE MessageReopen(t)
    <2>1. /\ call' = [call EXCEPT ![t] = "restart"] /\ reopened' = t
          /\ hub' = [hub EXCEPT !.exists = TRUE, !.terminal = FALSE, !.turnStart = hub.seq, !.reaper = FALSE]
          /\ UNCHANGED <<task, run, registry, cancel, wire, finishing, view, restarts>>
      BY <1>8 DEF MessageReopen, guestVars
    <2>2. call' \in [Turns -> Calls] /\ Fresh'
      BY <2>1, <1>0, CallGoes DEF Calls, Fresh
    <2>3. hub \in Streams(hub.seq) /\ hub.seq \in Nat /\ hub.turnStart \in 0 .. hub.seq /\ hub.buf \in Seq(Frame)
      BY <1>0 DEF TypeOK, Streams
    <2>4. hub' \in Streams(hub.seq) /\ hub'.seq = hub.seq /\ hub'.buf = hub.buf /\ hub'.turnStart = hub.seq
      <3>1. hub' = [exists |-> TRUE, seq |-> hub.seq, turnStart |-> hub.seq, buf |-> hub.buf, terminal |-> FALSE, reaper |-> FALSE]
        BY <2>1, <2>3 DEF Streams
      <3>2. hub.seq \in 0 .. hub.seq
        BY <2>3
      <3> QED BY <3>1, <3>2, <2>3 DEF Streams
    <2>5. TypeOK'
      BY <2>1, <2>2, <2>4, <1>0 DEF TypeOK, Calls, Streams
    <2>6. Counted' /\ Sorted'
      BY <2>1, <2>4 DEF LaneInv, Counted, Sorted, Sent
    <2>7. NothingMissed'
      <3>1. \A v \in Viewers : view[v].sent \in Nat
        BY <1>0 DEF TypeOK
      <3>2. \A i \in DOMAIN hub.buf : hub.buf[i].seq \in Nat
        <4>1. \A f \in Frame : f.seq \in Nat
          BY DEF Frame
        <4> QED BY <2>3, <4>1
      <3>3. \A v \in Viewers, i \in DOMAIN hub.buf : hub.buf[i].seq > Larger(view[v].sent, hub.turnStart)' =>
                 hub.buf[i].seq > Larger(view[v].sent, hub.turnStart)
        BY <2>1, <2>3, <2>4, <3>1, <3>2 DEF Larger
      <3> QED BY <2>1, <2>4, <3>3 DEF LaneInv, NothingMissed
    <2> QED BY <2>2, <2>5, <2>6, <2>7 DEF LaneInv
  <1> QED BY <1>1, <1>2, <1>3, <1>4, <1>5, <1>6, <1>7, <1>8 DEF Handler

\* What becomes of a run.
LEMMA RunGoes ==
    ASSUME run \in [Turns -> RunRecs], NEW t \in Turns,
           NEW to \in {"none", "working", "report", "unregister", "over"}, run' = [run EXCEPT ![t].pc = to]
    PROVE  /\ run' \in [Turns -> RunRecs] /\ run'[t].pc = to
           /\ \A s \in Turns : run'[s].events = run[s].events /\ (s # t => run'[s] = run[s])
  BY DEF RunRecs

\* A step of a run that was dispatched.
LEMMA RunOnly ==
    ASSUME LaneInv, NEW t \in Turns, run[t].pc # "none", run' \in [Turns -> RunRecs], \A s \in Turns \ {t} : run'[s] = run[s],
           registry' \in 0 .. LastTurn, wire' \in Seq(Notice),
           hub.seq + Len(wire') + Cardinality(finishing) <= Cardinality(Sent'),
           UNCHANGED <<task, call, cancel, finishing, hubVars, restarts>>
    PROVE  LaneInv'
  <1>1. TypeOK'
    BY DEF LaneInv, TypeOK, RunRecs, hubVars
  <1>2. Fresh'
    BY DEF LaneInv, Fresh
  <1>3. Counted' /\ Sorted' /\ NothingMissed'
    BY DEF LaneInv, Counted, Sorted, NothingMissed, hubVars
  <1> QED BY <1>1, <1>2, <1>3 DEF LaneInv

LEMMA NotifyOne ==
    ASSUME TypeOK, NEW n \in Notice, Notify(n)
    PROVE  /\ wire' \in Seq(Notice) /\ Len(wire) \in Nat /\ Len(wire') \in Nat /\ Len(wire') <= Len(wire) + 1
  <1>1. wire \in Seq(Notice) /\ (wire' = Append(wire, n) \/ wire' = wire)
    BY DEF TypeOK, Notify
  <1> QED BY <1>1

\* Another notification was sent.
LEMMA SentOneMore ==
    ASSUME LaneInv, NEW x, x \notin Sent, Sent' = Sent \cup {x}, Len(wire') \in Nat, Len(wire') <= Len(wire) + 1
    PROVE  hub.seq + Len(wire') + Cardinality(finishing) <= Cardinality(Sent')
  <1>1. Cardinality(Sent') = Cardinality(Sent) + 1 /\ Cardinality(Sent) \in Nat
    BY SentBounded, FS_AddElement
  <1>2. hub.seq \in Nat /\ Len(wire) \in Nat /\ Cardinality(finishing) \in Nat /\ hub.seq + Len(wire) + Cardinality(finishing) <= Cardinality(Sent)
    BY FS_CardinalityType DEF LaneInv, TypeOK, Counted
  <1>3. \A a, b, c, d, e \in Nat : a + b + c <= d /\ e <= b + 1 => a + e + c <= d + 1
    OBVIOUS
  <1> QED BY <1>1, <1>2, <1>3

LEMMA GuestKeeps == ASSUME LaneInv, NEW t \in Turns, Guest(t) PROVE LaneInv'
  <1>0. TypeOK /\ run \in [Turns -> RunRecs] /\ registry \in 0 .. LastTurn /\ wire \in Seq(Notice) /\ run[t] \in RunRecs
        /\ hub.seq + Len(wire) + Cardinality(finishing) <= Cardinality(Sent)
    BY DEF LaneInv, TypeOK, RunRecs, Counted
  <1>1. CASE RunEmits(t)
    <2> DEFINE n == run[t].events + 1
               f == [kind |-> "event", t |-> t, n |-> n, status |-> "done", session |-> FALSE]
    <2>1. /\ run[t].pc = "working" /\ run[t].events < MaxEvents /\ run' = [run EXCEPT ![t].events = @ + 1] /\ Notify(f)
          /\ UNCHANGED <<task, call, registry, cancel, finishing, hubVars, restarts>>
      BY <1>1 DEF RunEmits
    <2>2. run[t].events \in 0 .. MaxEvents /\ n \in 1 .. MaxEvents /\ n \in 0 .. MaxEvents
      BY <1>0, <2>1, LaneAssumption DEF RunRecs
    <2>3. /\ run' \in [Turns -> RunRecs] /\ run'[t].events = n /\ run'[t].pc = "working"
          /\ \A s \in Turns \ {t} : run'[s] = run[s]
      BY <1>0, <2>1, <2>2 DEF RunRecs
    <2>4. f \in Notice
      BY <2>2 DEF Notice, Terminal
    <2>5. wire' \in Seq(Notice) /\ Len(wire') \in Nat /\ Len(wire') <= Len(wire) + 1
      <3> HIDE DEF f
      <3> QED BY <1>0, <2>1, <2>4, NotifyOne
    <2>6. Sent' = Sent \cup {<<t, n>>} /\ <<t, n>> \notin Sent
      <3> HIDE DEF f
      <3>1. \A k \in 0 .. MaxEvents : k # 0 => (k <= n <=> k <= run[t].events \/ k = n)
        BY <2>2, LaneAssumption
      <3>2. Sent' = Sent \cup {<<t, n>>}
        <4>1. ASSUME NEW x \in Turns \X (0 .. MaxEvents) PROVE x \in Sent' <=> x \in Sent \cup {<<t, n>>}
          <5>1. CASE x[1] = t /\ x[2] # 0
            <6>1. x = <<t, x[2]>> /\ x[2] \in 0 .. MaxEvents
              BY <5>1
            <6> HIDE DEF n
            <6>2. x \in Sent' <=> x[2] <= n
              BY <5>1, <2>3 DEF Sent
            <6>3. x \in Sent <=> x[2] <= run[t].events
              BY <5>1 DEF Sent
            <6> QED BY <6>1, <6>2, <6>3, <5>1, <3>1
          <5>2. CASE x[1] = t /\ x[2] = 0
            <6>1. n # 0
              BY <2>2
            <6> HIDE DEF n
            <6> QED BY <6>1, <5>2, <2>1, <2>3 DEF Sent
          <5>3. CASE x[1] # t
            BY <5>3, <2>3 DEF Sent
          <5> QED BY <5>1, <5>2, <5>3
        <4>2. <<t, n>> \in Turns \X (0 .. MaxEvents)
          BY <2>2
        <4>3. Sent \subseteq Turns \X (0 .. MaxEvents) /\ Sent' \subseteq Turns \X (0 .. MaxEvents)
          BY DEF Sent
        <4> HIDE DEF n
        <4> QED BY <4>1, <4>2, <4>3
      <3>3. <<t, n>> \notin Sent
        <4>1. n # 0 /\ ~(n <= run[t].events)
          BY <2>2, LaneAssumption
        <4> HIDE DEF n
        <4> QED BY <4>1 DEF Sent
      <3> QED BY <3>2, <3>3
    <2> HIDE DEF n, f
    <2>7. hub.seq + Len(wire') + Cardinality(finishing) <= Cardinality(Sent')
      BY <2>5, <2>6, SentOneMore
    <2>8. run[t].pc # "none" /\ registry' \in 0 .. LastTurn
      BY <2>1, <1>0
    <2> QED BY <2>1, <2>3, <2>5, <2>7, <2>8, RunOnly
  <1>2. CASE RunEnds(t)
    <2>1. /\ run[t].pc = "working" /\ run' = [run EXCEPT ![t].pc = "report"]
          /\ UNCHANGED <<task, call, registry, cancel, wire, finishing, hubVars, restarts>>
      BY <1>2 DEF RunEnds
    <2>2. /\ run' \in [Turns -> RunRecs] /\ run'[t].pc = "report"
          /\ \A s \in Turns : run'[s].events = run[s].events /\ (s # t => run'[s] = run[s])
      BY <1>0, <2>1, RunGoes
    <2>3. Sent' = Sent
      BY <2>1, <2>2 DEF Sent
    <2>4. hub.seq + Len(wire') + Cardinality(finishing) <= Cardinality(Sent')
      BY <1>0, <2>1, <2>3
    <2> QED BY <2>1, <2>2, <2>4, <1>0, RunOnly
  <1>3. CASE RunReports(t)
    <2>1. /\ run[t].pc = "report" /\ run' = [run EXCEPT ![t].pc = "unregister"]
          /\ UNCHANGED <<task, call, registry, cancel, finishing, hubVars, restarts>>
      BY <1>3 DEF RunReports
    <2>2. PICK s \in Terminal, b \in BOOLEAN : Notify([kind |-> "done", t |-> t, n |-> 0, status |-> s, session |-> b])
      BY <1>3 DEF RunReports
    <2>3. /\ run' \in [Turns -> RunRecs] /\ run'[t].pc = "unregister"
          /\ \A u \in Turns : run'[u].events = run[u].events /\ (u # t => run'[u] = run[u])
      BY <1>0, <2>1, RunGoes
    <2>4. [kind |-> "done", t |-> t, n |-> 0, status |-> s, session |-> b] \in Notice
      <3>1. 0 \in 0 .. MaxEvents
        BY LaneAssumption
      <3> QED BY <3>1 DEF Notice
    <2>5. wire' \in Seq(Notice) /\ Len(wire') \in Nat /\ Len(wire') <= Len(wire) + 1
      BY <1>0, <2>2, <2>4, NotifyOne
    <2>6. 0 \in 0 .. MaxEvents
      BY LaneAssumption
    <2>7. <<t, 0>> \notin Sent
      BY <2>1 DEF Sent
    <2>8. Sent' = Sent \cup {<<t, 0>>}
      <3>1. ASSUME NEW x \in Turns \X (0 .. MaxEvents) PROVE x \in Sent' <=> x \in Sent \cup {<<t, 0>>}
        <4>1. CASE x = <<t, 0>>
          BY <4>1, <2>3 DEF Sent
        <4>2. CASE x # <<t, 0>>
          <5>1. x[1] # t \/ x[2] # 0
            BY <4>2
          <5> QED BY <4>2, <5>1, <2>3 DEF Sent
        <4> QED BY <4>1, <4>2
      <3>2. <<t, 0>> \in Turns \X (0 .. MaxEvents)
        BY <2>6
      <3>3. Sent \subseteq Turns \X (0 .. MaxEvents) /\ Sent' \subseteq Turns \X (0 .. MaxEvents)
        BY DEF Sent
      <3> QED BY <3>1, <3>2, <3>3
    <2>9. hub.seq + Len(wire') + Cardinality(finishing) <= Cardinality(Sent')
      BY <2>5, <2>7, <2>8, SentOneMore
    <2> QED BY <2>1, <2>3, <2>5, <2>9, <1>0, RunOnly
  <1>4. CASE RunUnregisters(t)
    <2>1. /\ run[t].pc = "unregister" /\ run' = [run EXCEPT ![t].pc = "over"] /\ registry' = 0
          /\ UNCHANGED <<task, call, cancel, wire, finishing, hubVars, restarts>>
      BY <1>4 DEF RunUnregisters
    <2>2. /\ run' \in [Turns -> RunRecs] /\ run'[t].pc = "over"
          /\ \A s \in Turns : run'[s].events = run[s].events /\ (s # t => run'[s] = run[s])
      BY <1>0, <2>1, RunGoes
    <2>3. Sent' = Sent
      BY <2>1, <2>2 DEF Sent
    <2>4. hub.seq + Len(wire') + Cardinality(finishing) <= Cardinality(Sent') /\ registry' \in 0 .. LastTurn
      BY <1>0, <2>1, <2>3, LaneAssumption
    <2> QED BY <2>1, <2>2, <2>4, <1>0, RunOnly
  <1> QED BY <1>1, <1>2, <1>3, <1>4 DEF Guest

LEMMA CancelKeeps == ASSUME LaneInv, CancelRead \/ CancelLands PROVE LaneInv'
  <1>0. TypeOK /\ run \in [Turns -> RunRecs] /\ registry \in 0 .. LastTurn
        /\ cancel \in [pc : {"idle", "sent"}, n : 0 .. MaxCancels]
    BY DEF LaneInv, TypeOK, RunRecs
  <1>1. CASE CancelRead
    <2>1. /\ cancel.n < MaxCancels /\ cancel' = [pc |-> "sent", n |-> cancel.n + 1]
          /\ UNCHANGED <<task, call, run, registry, wire, finishing, hub, reopened, view, restarts>>
      BY <1>1 DEF CancelRead, guestVars, hubVars
    <2>2. cancel' \in [pc : {"idle", "sent"}, n : 0 .. MaxCancels]
      BY <1>0, <2>1, LaneAssumption
    <2>3. TypeOK'
      BY <1>0, <2>1, <2>2 DEF TypeOK
    <2> QED BY <2>1, <2>3 DEF LaneInv, Sorted, Fresh, Counted, Sent, NothingMissed
  <1>2. CASE CancelLands
    <2>1. /\ cancel' = [cancel EXCEPT !.pc = "idle"]
          /\ run' = IF registry = 0 THEN run ELSE [run EXCEPT ![registry].canceled = TRUE]
          /\ UNCHANGED <<task, call, registry, wire, finishing, hub, reopened, view, restarts>>
      BY <1>2 DEF CancelLands, hubVars
    <2>2. cancel' \in [pc : {"idle", "sent"}, n : 0 .. MaxCancels]
      BY <1>0, <2>1
    <2>3. run' \in [Turns -> RunRecs] /\ \A s \in Turns : run'[s].pc = run[s].pc /\ run'[s].events = run[s].events
      BY <1>0, <2>1 DEF RunRecs
    <2>4. TypeOK'
      BY <1>0, <2>1, <2>2, <2>3 DEF TypeOK, RunRecs
    <2>5. Sent' = Sent /\ Fresh'
      BY <2>1, <2>3 DEF Sent, LaneInv, Fresh
    <2> QED BY <2>1, <2>4, <2>5 DEF LaneInv, Sorted, Counted, NothingMissed
  <1> QED BY <1>1, <1>2

\* A notification is taken from the wire.
LEMMA OneLess ==
    ASSUME TypeOK, NEW i \in DOMAIN wire
    PROVE  /\ Without(i) \in Seq(Notice) /\ Len(Without(i)) = Len(wire) - 1 /\ Len(wire) \in Nat \ {0}
           /\ wire[i] \in Notice
  <1>1. wire \in Seq(Notice) /\ i \in 1 .. Len(wire) /\ Len(wire) \in Nat
    BY DEF TypeOK
  <1>2. SubSeq(wire, 1, i - 1) \in Seq(Notice) /\ Len(SubSeq(wire, 1, i - 1)) = i - 1
    BY <1>1
  <1>3. SubSeq(wire, i + 1, Len(wire)) \in Seq(Notice) /\ Len(SubSeq(wire, i + 1, Len(wire))) = Len(wire) - i
    BY <1>1
  <1>4. Without(i) \in Seq(Notice) /\ Len(Without(i)) = (i - 1) + (Len(wire) - i)
    BY <1>1, <1>2, <1>3 DEF Without
  <1>5. (i - 1) + (Len(wire) - i) = Len(wire) - 1 /\ Len(wire) # 0
    BY <1>1
  <1> QED BY <1>1, <1>4, <1>5

LEMMA DoneKeeps == ASSUME LaneInv, NEW i \in DOMAIN wire, HandleDone(i) PROVE LaneInv'
  <1>0. TypeOK /\ IsFiniteSet(finishing) /\ hub.seq \in Nat /\ finishing \subseteq Notice
        /\ hub.seq + Len(wire) + Cardinality(finishing) <= Cardinality(Sent)
    BY DEF LaneInv, TypeOK, Counted
  <1>1. /\ wire' = Without(i) /\ finishing' = finishing \cup {wire[i]} /\ Writes(FinishAgentTask(wire[i]))
        /\ UNCHANGED <<call, run, registry, cancel, hub, reopened, view, restarts>>
    BY DEF HandleDone, guestVars, hubVars
  <1>2. wire' \in Seq(Notice) /\ Len(wire') = Len(wire) - 1 /\ Len(wire) \in Nat \ {0} /\ wire[i] \in Notice
    BY <1>0, <1>1, OneLess
  <1>3. task' \in TaskRows
    <2>1. wire[i].status \in Terminal /\ wire[i].t \in Turns /\ wire[i].session \in BOOLEAN
      BY <1>2 DEF Notice
    <2> QED BY <2>1, <1>0, <1>1, TaskTyped, WritesTyped
  <1>4. /\ IsFiniteSet(finishing') /\ Cardinality(finishing') \in Nat /\ Cardinality(finishing) \in Nat
        /\ Cardinality(finishing') <= Cardinality(finishing) + 1
    <2>1. /\ IsFiniteSet(finishing')
          /\ Cardinality(finishing') = IF wire[i] \in finishing THEN Cardinality(finishing) ELSE Cardinality(finishing) + 1
      BY <1>0, <1>1, FS_AddElement
    <2>2. Cardinality(finishing) \in Nat
      BY <1>0, FS_CardinalityType
    <2> QED BY <2>1, <2>2
  <1>5. TypeOK'
    BY <1>0, <1>1, <1>2, <1>3 DEF TypeOK, TaskRows
  <1>6. Sent' = Sent /\ Cardinality(Sent) \in Nat
    BY <1>1, SentBounded DEF Sent
  <1>7. hub.seq + Len(wire') + Cardinality(finishing') <= Cardinality(Sent')
    <2>1. \A a, b, c, d, e, g \in Nat : a + b + c <= d /\ e = b - 1 /\ g <= c + 1 => a + e + g <= d
      OBVIOUS
    <2>2. Len(wire') \in Nat
      BY <1>2
    <2> QED BY <1>0, <1>2, <1>4, <1>6, <2>1, <2>2
  <1> QED BY <1>1, <1>4, <1>5, <1>7 DEF LaneInv, Sorted, Fresh, Counted, NothingMissed

\* Publishing: the frame is the last of the ring, and every client that is connected
\* gets it, having room.
LEMMA SendsKeep ==
    ASSUME LaneInv, Room \/ Roomy, NEW t \in Turns, NEW x \in BOOLEAN, Sends(t, x), hub.seq + 1 <= Cardinality(Sent)
    PROVE  /\ hub' \in Streams(hub.seq + 1) /\ hub'.seq = hub.seq + 1 /\ view' \in [Viewers -> Views]
           /\ Sorted' /\ NothingMissed'
           /\ \A v \in Viewers : IF view'[v].pc = "live" THEN Len(view'[v].chan) <= hub'.seq ELSE view'[v].chan = <<>>
  <1> DEFINE f == [seq |-> hub.seq + 1, t |-> t, terminal |-> x]
  <1>1. /\ hub.buf \in Seq(Frame) /\ hub.seq \in Nat /\ hub.turnStart \in 0 .. hub.seq /\ hub.terminal \in BOOLEAN /\ hub.reaper \in BOOLEAN
        /\ view \in [Viewers -> Views] /\ SubBuf \in Nat \ {0}
    BY LaneAssumption DEF LaneInv, TypeOK, Views
  <1>2. f \in Frame /\ f.seq = hub.seq + 1
    BY <1>1 DEF Frame
  <1>3. PICK kept \in {Append(hub.buf, f), Tail(Append(hub.buf, f))} :
           hub' = [exists |-> TRUE, seq |-> f.seq, turnStart |-> hub.turnStart, buf |-> kept,
                   terminal |-> hub.terminal \/ x, reaper |-> hub.reaper \/ x]
    BY DEF Sends
  <1>4. view' = [v \in Viewers |-> IF view[v].pc = "live" /\ Len(view[v].chan) < SubBuf
                                  THEN [view[v] EXCEPT !.chan = Append(@, f)] ELSE view[v]]
    BY DEF Sends
  <1>5. ASSUME NEW v \in Viewers, view[v].pc = "live" PROVE Len(view[v].chan) < SubBuf
    <2>1. CASE Roomy
      <3>1. Cardinality(Sent) \in Nat /\ Cardinality(Sent) <= SubBuf
        BY <2>1, SentBounded
      <3>2. Len(view[v].chan) \in Nat /\ Len(view[v].chan) <= hub.seq
        BY <1>1, <1>5 DEF LaneInv, Counted, Views
      <3> QED BY <3>1, <3>2, <1>1
    <2>2. CASE Room
      BY <2>2, <1>5 DEF Room
    <2> QED BY <2>1, <2>2
  <1> HIDE DEF f
  <1>6. /\ hub'.seq = hub.seq + 1 /\ hub'.turnStart = hub.turnStart /\ hub'.buf = kept
    BY <1>2, <1>3
  <1>7. /\ kept \in Seq(Frame) /\ Len(hub.buf) \in Nat
        /\ \E d \in {0, 1} : Len(kept) = Len(hub.buf) + 1 - d /\ \A i \in DOMAIN kept :
             /\ i + d \in 1 .. Len(hub.buf) + 1
             /\ kept[i] = IF i + d = Len(hub.buf) + 1 THEN f ELSE hub.buf[i + d]
    <2>1. /\ Append(hub.buf, f) \in Seq(Frame) /\ Len(Append(hub.buf, f)) = Len(hub.buf) + 1 /\ Len(hub.buf) \in Nat
          /\ \A i \in 1 .. Len(hub.buf) + 1 : Append(hub.buf, f)[i] = IF i = Len(hub.buf) + 1 THEN f ELSE hub.buf[i]
      BY <1>1, <1>2
    <2>2. CASE kept = Append(hub.buf, f)
      BY <2>1, <2>2
    <2>3. CASE kept = Tail(Append(hub.buf, f))
      <3>1. /\ kept \in Seq(Frame) /\ Len(kept) = Len(hub.buf)
            /\ \A i \in DOMAIN kept : i + 1 \in 1 .. Len(hub.buf) + 1 /\ kept[i] = Append(hub.buf, f)[i + 1]
        <4> DEFINE b == Append(hub.buf, f)
        <4>1. b \in Seq(Frame) /\ b # <<>> /\ Len(b) = Len(hub.buf) + 1 /\ kept = Tail(b)
          BY <2>1, <2>3
        <4> HIDE DEF b
        <4>2. Tail(b) \in Seq(Frame) /\ Len(Tail(b)) = Len(b) - 1 /\ \A i \in 1 .. Len(b) - 1 : Tail(b)[i] = b[i + 1]
          BY <4>1
        <4> QED BY <4>1, <4>2, <2>1 DEF b
      <3> QED BY <3>1, <2>1
    <2> QED BY <2>2, <2>3
  <1>8. hub' \in Streams(hub.seq + 1)
    <2>1. hub.turnStart \in 0 .. hub.seq + 1 /\ f.seq \in Nat /\ (hub.terminal \/ x) \in BOOLEAN /\ (hub.reaper \/ x) \in BOOLEAN
      BY <1>1, <1>2
    <2> QED BY <2>1, <1>3, <1>7 DEF Streams
  <1>9. PICK d \in {0, 1} : Len(kept) = Len(hub.buf) + 1 - d /\ \A i \in DOMAIN kept :
             /\ i + d \in 1 .. Len(hub.buf) + 1
             /\ kept[i] = IF i + d = Len(hub.buf) + 1 THEN f ELSE hub.buf[i + d]
    BY <1>7
  <1>10. \A i \in DOMAIN hub.buf : hub.buf[i] \in Frame /\ hub.buf[i].seq \in Nat /\ hub.buf[i].seq <= hub.seq
    <2>1. \A g \in Frame : g.seq \in Nat
      BY DEF Frame
    <2> QED BY <2>1, <1>1 DEF LaneInv, Sorted
  <1>11. Sorted'
    <2>1. ASSUME NEW i \in DOMAIN kept PROVE kept[i].seq <= hub.seq + 1
      <3>1. CASE i + d = Len(hub.buf) + 1
        BY <3>1, <1>9, <1>2, <1>1
      <3>2. CASE i + d # Len(hub.buf) + 1
        <4>1. i + d \in DOMAIN hub.buf /\ kept[i] = hub.buf[i + d]
          BY <3>2, <1>9, <1>1, <1>7
        <4> QED BY <4>1, <1>10, <1>1
      <3> QED BY <3>1, <3>2
    <2>2. ASSUME NEW i \in DOMAIN kept, NEW j \in DOMAIN kept, i < j PROVE kept[i].seq < kept[j].seq
      <3> DEFINE p == i + d
                 q == j + d
                 n == Len(hub.buf)
      <3>1. /\ p \in 1 .. n + 1 /\ q \in 1 .. n + 1 /\ p < q /\ n \in Nat /\ DOMAIN hub.buf = 1 .. n
            /\ kept[i] = (IF p = n + 1 THEN f ELSE hub.buf[p]) /\ kept[j] = (IF q = n + 1 THEN f ELSE hub.buf[q])
        BY <2>2, <1>9, <1>7, <1>1
      <3> HIDE DEF p, q, n
      <3>2. p # n + 1 /\ p \in DOMAIN hub.buf /\ kept[i] = hub.buf[p]
        BY <3>1
      <3>3. CASE q = n + 1
        BY <3>1, <3>2, <3>3, <1>2, <1>10, <1>1
      <3>4. CASE q # n + 1
        <4>1. q \in DOMAIN hub.buf /\ kept[j] = hub.buf[q]
          <5>1. q \in 1 .. n
            <6>1. \A a, b \in Nat : a \in 1 .. b + 1 /\ a # b + 1 => a \in 1 .. b
              OBVIOUS
            <6>2. q \in Nat /\ n \in Nat
              BY <3>1
            <6> QED BY <6>1, <6>2, <3>1, <3>4
          <5>2. kept[j] = hub.buf[q]
            BY <3>1, <3>4
          <5> QED BY <5>1, <5>2, <3>1
        <4> QED BY <4>1, <3>1, <3>2 DEF LaneInv, Sorted
      <3> QED BY <3>3, <3>4
    <2> QED BY <2>1, <2>2, <1>6 DEF Sorted
  <1>12. ASSUME NEW v \in Viewers, view[v].pc = "live"
         PROVE  /\ view'[v] \in Views /\ view'[v].pc = "live" /\ view'[v].sent = view[v].sent
                /\ view[v].chan \in Seq(Frame) /\ view'[v].chan = Append(view[v].chan, f) /\ Len(view'[v].chan) <= hub.seq + 1
    <2>1. view[v] \in Views /\ view[v].chan \in Seq(Frame) /\ Len(view[v].chan) \in Nat /\ Len(view[v].chan) <= hub.seq
      BY <1>1, <1>12 DEF LaneInv, Counted, Views
    <2>2. Len(view[v].chan) < SubBuf
      BY <1>5, <1>12
    <2>3. view'[v] = [view[v] EXCEPT !.chan = Append(view[v].chan, f)]
      BY <2>2, <1>4, <1>12
    <2>4. Append(view[v].chan, f) \in Seq(Frame) /\ Len(Append(view[v].chan, f)) = Len(view[v].chan) + 1
      BY <2>1, <1>2
    <2>5. /\ view'[v] \in Views /\ view'[v].pc = view[v].pc /\ view'[v].sent = view[v].sent
          /\ view'[v].chan = Append(view[v].chan, f)
      <3> DEFINE b == Append(view[v].chan, f)
      <3> HIDE DEF b
      <3>1. b \in Seq(Frame) /\ view'[v] = [view[v] EXCEPT !.chan = b]
        BY <2>3, <2>4 DEF b
      <3>2. /\ view'[v] \in Views /\ view'[v].pc = view[v].pc /\ view'[v].sent = view[v].sent /\ view'[v].chan = b
        BY <3>1, <2>1 DEF Views
      <3> QED BY <3>2 DEF b
    <2> QED BY <2>1, <2>4, <2>5, <1>12, <1>1
  <1>13. ASSUME NEW v \in Viewers, view[v].pc # "live" PROVE view'[v] = view[v]
    BY <1>4, <1>13
  <1>14. view' \in [Viewers -> Views]
    <2>1. \A v \in Viewers : view'[v] \in Views
      BY <1>12, <1>13, <1>1
    <2>2. view' = [v \in Viewers |-> view'[v]]
      BY <1>4
    <2> QED BY <2>1, <2>2
  <1>15. ASSUME NEW v \in Viewers PROVE IF view'[v].pc = "live" THEN Len(view'[v].chan) <= hub'.seq ELSE view'[v].chan = <<>>
    <2>1. CASE view[v].pc = "live"
      BY <2>1, <1>12, <1>6
    <2>2. CASE view[v].pc # "live"
      BY <2>2, <1>13 DEF LaneInv, Counted
    <2> QED BY <2>1, <2>2
  <1>16. NothingMissed'
    <2>1. SUFFICES ASSUME NEW v \in Viewers, view'[v].pc = "live", NEW i \in DOMAIN kept,
                          kept[i].seq > Larger(view'[v].sent, hub.turnStart)
                   PROVE  \E j \in DOMAIN view'[v].chan : view'[v].chan[j] = kept[i]
      BY <1>6 DEF NothingMissed, Larger
    <2>2. view[v].pc = "live"
      BY <2>1, <1>13
    <2> DEFINE c == view[v].chan
    <2>3. /\ c \in Seq(Frame) /\ view'[v].chan = Append(c, f) /\ view'[v].sent = view[v].sent
          /\ Len(c) \in Nat
      BY <2>2, <1>12
    <2> HIDE DEF c
    <2>4. /\ DOMAIN Append(c, f) = 1 .. Len(c) + 1 /\ Append(c, f)[Len(c) + 1] = f
          /\ \A j \in DOMAIN c : j \in 1 .. Len(c) /\ Append(c, f)[j] = c[j]
      BY <2>3, <1>2
    <2>5. CASE i + d = Len(hub.buf) + 1
      <3>1. kept[i] = f /\ Len(c) + 1 \in 1 .. Len(c) + 1
        BY <2>5, <1>9, <2>3
      <3> QED BY <3>1, <2>3, <2>4
    <2>6. CASE i + d # Len(hub.buf) + 1
      <3>1. i + d \in DOMAIN hub.buf /\ kept[i] = hub.buf[i + d]
        BY <2>6, <1>9, <1>1, <1>7
      <3>2. PICK j \in DOMAIN c : c[j] = hub.buf[i + d]
        BY <3>1, <2>1, <2>2, <2>3 DEF LaneInv, NothingMissed, c
      <3>3. j \in 1 .. Len(c) + 1
        BY <2>3, <2>4
      <3> QED BY <3>1, <3>2, <3>3, <2>3, <2>4
    <2> QED BY <2>5, <2>6
  <1> QED BY <1>6, <1>8, <1>11, <1>14, <1>15, <1>16

LEMMA EventKeeps == ASSUME LaneInv, Room \/ Roomy, NEW i \in DOMAIN wire, Event(i) PROVE LaneInv'
  <1>0. TypeOK /\ IsFiniteSet(finishing) /\ hub.seq \in Nat
        /\ hub.seq + Len(wire) + Cardinality(finishing) <= Cardinality(Sent)
    BY DEF LaneInv, TypeOK, Counted
  <1>1. /\ wire' = Without(i) /\ Sends(wire[i].t, FALSE)
        /\ UNCHANGED <<task, call, run, registry, cancel, finishing, reopened, restarts>>
    BY DEF Event, guestVars
  <1>2. wire' \in Seq(Notice) /\ Len(wire') = Len(wire) - 1 /\ Len(wire) \in Nat \ {0} /\ wire[i].t \in Turns
    BY <1>0, <1>1, OneLess DEF Notice
  <1>3. Cardinality(finishing) \in Nat /\ Cardinality(Sent) \in Nat /\ hub.seq + 1 <= Cardinality(Sent)
    <2>1. Cardinality(finishing) \in Nat /\ Cardinality(Sent) \in Nat
      BY <1>0, SentBounded, FS_CardinalityType
    <2>2. \A a, b, c, d \in Nat : a + b + c <= d /\ b # 0 => a + 1 <= d
      OBVIOUS
    <2> QED BY <2>1, <2>2, <1>0, <1>2
  <1>4. /\ hub' \in Streams(hub.seq + 1) /\ hub'.seq = hub.seq + 1 /\ view' \in [Viewers -> Views]
        /\ Sorted' /\ NothingMissed'
        /\ \A v \in Viewers : IF view'[v].pc = "live" THEN Len(view'[v].chan) <= hub'.seq ELSE view'[v].chan = <<>>
    BY <1>1, <1>2, <1>3, SendsKeep
  <1>5. Sent' = Sent /\ Fresh'
    BY <1>1 DEF Sent, LaneInv, Fresh
  <1>6. hub'.seq + Len(wire') + Cardinality(finishing') <= Cardinality(Sent')
    <2>1. \A a, b, c, d, e \in Nat : a + b + c <= d /\ b # 0 /\ e = b - 1 => a + 1 + e + c <= d
      OBVIOUS
    <2>2. Len(wire') \in Nat
      BY <1>2
    <2> QED BY <2>1, <2>2, <1>0, <1>1, <1>2, <1>3, <1>4, <1>5
  <1>7. TypeOK'
    BY <1>0, <1>1, <1>2, <1>4 DEF TypeOK, Streams, Views
  <1> QED BY <1>0, <1>1, <1>4, <1>5, <1>6, <1>7 DEF LaneInv, Counted

LEMMA ResultKeeps == ASSUME LaneInv, Room \/ Roomy, NEW f \in finishing, Result(f) PROVE LaneInv'
  <1>0. TypeOK /\ IsFiniteSet(finishing) /\ hub.seq \in Nat /\ finishing \subseteq Notice /\ wire \in Seq(Notice) /\ Len(wire) \in Nat
        /\ hub.seq + Len(wire) + Cardinality(finishing) <= Cardinality(Sent)
    BY DEF LaneInv, TypeOK, Counted
  <1>1. /\ finishing' = finishing \ {f} /\ Sends(f.t, TRUE)
        /\ UNCHANGED <<task, call, run, registry, cancel, wire, reopened, restarts>>
    BY DEF Result, guestVars
  <1>2. f.t \in Turns
    BY <1>0 DEF Notice
  <1>3. /\ Cardinality(finishing) \in Nat \ {0} /\ IsFiniteSet(finishing') /\ Cardinality(finishing') \in Nat
        /\ Cardinality(finishing') = Cardinality(finishing) - 1 /\ Cardinality(Sent) \in Nat
    <2>1. IsFiniteSet(finishing') /\ Cardinality(finishing') = Cardinality(finishing) - 1
      BY <1>0, <1>1, FS_RemoveElement
    <2>2. Cardinality(finishing) \in Nat /\ Cardinality(finishing') \in Nat
      BY <1>0, <2>1, FS_CardinalityType
    <2> QED BY <2>1, <2>2, SentBounded
  <1>4. hub.seq + 1 <= Cardinality(Sent)
    <2>1. \A a, b, c, d \in Nat : a + b + c <= d /\ c # 0 => a + 1 <= d
      OBVIOUS
    <2> QED BY <2>1, <1>0, <1>3
  <1>5. /\ hub' \in Streams(hub.seq + 1) /\ hub'.seq = hub.seq + 1 /\ view' \in [Viewers -> Views]
        /\ Sorted' /\ NothingMissed'
        /\ \A v \in Viewers : IF view'[v].pc = "live" THEN Len(view'[v].chan) <= hub'.seq ELSE view'[v].chan = <<>>
    BY <1>1, <1>2, <1>4, SendsKeep
  <1>6. Sent' = Sent /\ Fresh'
    BY <1>1 DEF Sent, LaneInv, Fresh
  <1>7. hub'.seq + Len(wire') + Cardinality(finishing') <= Cardinality(Sent')
    <2>1. \A a, b, c, d, e \in Nat : a + b + c <= d /\ e = c - 1 => a + 1 + b + e <= d
      OBVIOUS
    <2> QED BY <2>1, <1>0, <1>1, <1>3, <1>5, <1>6
  <1>8. TypeOK'
    BY <1>0, <1>1, <1>5 DEF TypeOK, Streams, Views
  <1> QED BY <1>3, <1>5, <1>6, <1>7, <1>8 DEF LaneInv, Counted

\* A step of one client, with or without its handler's effect on the stream.
LEMMA ViewOnly ==
    ASSUME LaneInv, NEW v \in Viewers, NEW w \in Views, view' = [view EXCEPT ![v] = w],
           hub' \in Streams(hub.seq), hub'.seq = hub.seq, hub'.buf = hub.buf, hub'.turnStart = hub.turnStart,
           UNCHANGED <<task, call, guestVars, cancel, wire, finishing, reopened, restarts>>,
           IF w.pc = "live" THEN Len(w.chan) <= hub.seq ELSE w.chan = <<>>,
           w.pc = "live" => \A i \in DOMAIN hub.buf : hub.buf[i].seq > Larger(w.sent, hub.turnStart) =>
                                \E j \in DOMAIN w.chan : w.chan[j] = hub.buf[i]
    PROVE  LaneInv'
  <1>1. view' \in [Viewers -> Views] /\ view'[v] = w /\ \A u \in Viewers \ {v} : view'[u] = view[u]
    BY DEF LaneInv, TypeOK, Views
  <1>2. TypeOK'
    BY <1>1 DEF LaneInv, TypeOK, Streams, Views, guestVars
  <1>3. Sorted' /\ Fresh'
    BY DEF LaneInv, Sorted, Fresh, guestVars
  <1>4. Counted'
    BY <1>1 DEF LaneInv, Counted, Sent, guestVars
  <1>5. NothingMissed'
    <2>1. \A n : Larger(n, hub.turnStart)' = Larger(n', hub.turnStart)
      BY DEF Larger
    <2> QED BY <1>1, <2>1 DEF LaneInv, NothingMissed, Larger
  <1> QED BY <1>2, <1>3, <1>4, <1>5 DEF LaneInv

LEMMA ViewTyped ==
    ASSUME LaneInv
    PROVE  /\ view \in [Viewers -> Views] /\ hub \in Streams(hub.seq) /\ hub.seq \in Nat
           /\ hub.turnStart \in 0 .. hub.seq /\ hub.buf \in Seq(Frame) /\ task \in TaskRows
           /\ hub.terminal \in BOOLEAN /\ hub.reaper \in BOOLEAN
  BY DEF LaneInv, TypeOK, Views, Streams, TaskRows

\* What a handler does to the stream's flags.
LEMMA FlagsOnly ==
    ASSUME LaneInv, NEW b \in BOOLEAN, hub' \in {[hub EXCEPT !.reaper = b], [hub EXCEPT !.exists = TRUE, !.reaper = b], hub}
    PROVE  hub' \in Streams(hub.seq) /\ hub'.seq = hub.seq /\ hub'.buf = hub.buf /\ hub'.turnStart = hub.turnStart
  <1>1. hub = [exists |-> hub.exists, seq |-> hub.seq, turnStart |-> hub.turnStart, buf |-> hub.buf,
               terminal |-> hub.terminal, reaper |-> hub.reaper] /\ hub.exists \in BOOLEAN
        /\ hub.seq \in Nat /\ hub.turnStart \in 0 .. hub.seq /\ hub.buf \in Seq(Frame) /\ hub.terminal \in BOOLEAN /\ hub.reaper \in BOOLEAN
    BY ViewTyped DEF Streams
  <1>2. \E e \in BOOLEAN, r \in BOOLEAN :
           hub' = [exists |-> e, seq |-> hub.seq, turnStart |-> hub.turnStart, buf |-> hub.buf, terminal |-> hub.terminal, reaper |-> r]
    <2>1. CASE hub' = [hub EXCEPT !.reaper = b]
      BY <2>1, <1>1
    <2>2. CASE hub' = [hub EXCEPT !.exists = TRUE, !.reaper = b]
      BY <2>2, <1>1
    <2>3. CASE hub' = hub
      BY <2>3, <1>1
    <2> QED BY <2>1, <2>2, <2>3
  <1>3. PICK e \in BOOLEAN, r \in BOOLEAN :
           hub' = [exists |-> e, seq |-> hub.seq, turnStart |-> hub.turnStart, buf |-> hub.buf, terminal |-> hub.terminal, reaper |-> r]
    BY <1>2
  <1>4. hub' \in Streams(hub.seq)
    BY <1>1, <1>3 DEF Streams
  <1> QED BY <1>3, <1>4

LEMMA ClosesTyped ==
    ASSUME NEW w \in Views, NEW shown \in 0 .. LastTurn
    PROVE  Closes(w, shown) \in Views /\ Closes(w, shown).pc # "live" /\ Closes(w, shown).chan = <<>>
  <1> DEFINE p == IF shown = 0 THEN "off" ELSE "got"
  <1>1. p \in {"off", "got"} /\ <<>> \in Seq(Frame)
    OBVIOUS
  <1>2. Closes(w, shown) = [w EXCEPT !.pc = p, !.shown = shown, !.chan = <<>>]
    BY DEF Closes
  <1> HIDE DEF p
  <1>3. Closes(w, shown) = [pc |-> p, status |-> w.status, turn |-> w.turn, sent |-> w.sent, chan |-> <<>>,
                            shown |-> shown, want |-> w.want]
    BY <1>2 DEF Views
  <1> QED BY <1>1, <1>3 DEF Views

LEMMA ResultTyped == ASSUME NEW fs \in Seq(Frame) PROVE ResultIn(fs) \in 0 .. LastTurn
  <1>1. CASE \E i \in DOMAIN fs : fs[i].terminal
    <2> DEFINE f == CHOOSE f \in {fs[i] : i \in DOMAIN fs} : f.terminal
    <2>1. f \in {fs[i] : i \in DOMAIN fs}
      BY <1>1
    <2>2. f \in Frame
      <3>1. PICK i \in DOMAIN fs : f = fs[i]
        BY <2>1
      <3> HIDE DEF f
      <3> QED BY <3>1
    <2>3. ResultIn(fs) = f.t
      BY <1>1 DEF ResultIn
    <2> HIDE DEF f
    <2>4. f.t \in Turns
      BY <2>2 DEF Frame
    <2> QED BY <2>3, <2>4, LaneAssumption DEF Turns
  <1>2. CASE ~\E i \in DOMAIN fs : fs[i].terminal
    BY <1>2, LaneAssumption DEF ResultIn
  <1> QED BY <1>1, <1>2

LEMMA ReadKeeps == ASSUME LaneInv, NEW v \in Viewers, ViewRead(v) PROVE LaneInv'
  <1>1. /\ view[v].pc = "off" /\ view' = [view EXCEPT ![v].pc = "read", ![v].status = task.status, ![v].turn = task.turn]
        /\ UNCHANGED <<task, call, guestVars, cancel, wire, finishing, hub, reopened, restarts>>
    BY DEF ViewRead
  <1>2. view[v] \in Views /\ task \in TaskRows /\ view \in [Viewers -> Views] /\ view[v].chan = <<>>
    BY <1>1, ViewTyped DEF LaneInv, Counted
  <1>3. PICK w1 : w1 = [view[v] EXCEPT !.pc = "read"]
    OBVIOUS
  <1>4. w1 \in Views /\ w1.pc # "live" /\ w1.chan = <<>>
    BY <1>2, <1>3 DEF Views
  <1>5. PICK w2 : w2 = [w1 EXCEPT !.status = task.status]
    OBVIOUS
  <1>6. w2 \in Views /\ w2.pc # "live" /\ w2.chan = <<>>
    BY <1>2, <1>4, <1>5 DEF Views, TaskRows
  <1>7. PICK w : w = [w2 EXCEPT !.turn = task.turn]
    OBVIOUS
  <1>8. w \in Views /\ w.pc # "live" /\ w.chan = <<>>
    BY <1>2, <1>6, <1>7 DEF Views, TaskRows
  <1>9. view' = [view EXCEPT ![v] = w]
    <2>1. view' = [view EXCEPT ![v] = [view[v] EXCEPT !.pc = "read", !.status = task.status, !.turn = task.turn]]
      BY <1>1, <1>2
    <2> QED BY <2>1, <1>3, <1>5, <1>7
  <1>10. hub' \in Streams(hub.seq) /\ hub'.seq = hub.seq /\ hub'.buf = hub.buf /\ hub'.turnStart = hub.turnStart
    BY <1>1, ViewTyped
  <1> QED BY <1>1, <1>8, <1>9, <1>10, ViewOnly

LEMMA SubscribeKeeps == ASSUME LaneInv, NEW v \in Viewers, ViewSubscribe(v) PROVE LaneInv'
  <1> DEFINE w == view[v]
             b == Backlog(w.sent)
             last == IF b = <<>> THEN w.sent ELSE b[Len(b)].seq
             at == [w EXCEPT !.sent = last, !.want = reopened]
             n == Larger(w.sent, hub.turnStart)
  <1>1. /\ w.pc = "read" /\ UNCHANGED <<task, call, guestVars, cancel, wire, finishing, reopened, restarts>>
        /\ \/ /\ view' = [view EXCEPT ![v] = Closes(at, ResultIn(b))]
              /\ hub' = [hub EXCEPT !.reaper = NobodyBut(v)]
           \/ /\ view' = [view EXCEPT ![v] = Closes(at, w.turn)]
              /\ hub' = [hub EXCEPT !.exists = TRUE, !.reaper = FALSE]
           \/ /\ view' = [view EXCEPT ![v] = [at EXCEPT !.pc = "live"]]
              /\ hub' = [hub EXCEPT !.exists = TRUE, !.reaper = FALSE]
    BY DEF ViewSubscribe
  <1>2. /\ w \in Views /\ hub.buf \in Seq(Frame) /\ w.sent \in Nat /\ w.turn \in 0 .. LastTurn /\ hub.turnStart \in Nat
        /\ w.chan = <<>> /\ reopened \in Turns /\ hub.seq \in Nat /\ Sorted
    <2>1. w \in Views /\ hub.buf \in Seq(Frame) /\ hub.turnStart \in Nat /\ hub.seq \in Nat
      BY ViewTyped
    <2>2. w.sent \in Nat /\ w.turn \in 0 .. LastTurn
      BY <2>1 DEF Views
    <2>3. reopened \in Turns /\ Sorted
      BY DEF LaneInv, TypeOK
    <2>4. w.chan = <<>>
      BY <1>1 DEF LaneInv, Counted
    <2> QED BY <2>1, <2>2, <2>3, <2>4
  <1>3. n \in Nat /\ n >= w.sent /\ n >= hub.turnStart /\ b = Later(n)
    BY <1>2 DEF Larger, Backlog
  <1> HIDE DEF b, n, w
  <1>4. /\ b \in Seq(Frame)
        /\ \A i \in DOMAIN hub.buf : hub.buf[i].seq > n => b # <<>> /\ hub.buf[i].seq <= b[Len(b)].seq
        /\ \A i \in DOMAIN b : b[i].seq > n
    BY <1>2, <1>3, LaterFrames
  <1>5. /\ last \in Nat
        /\ b # <<>> => last = b[Len(b)].seq
    <2>1. CASE b = <<>>
      BY <2>1, <1>2
    <2>2. CASE b # <<>>
      <3>1. b[Len(b)] \in Frame
        BY <2>2, <1>4
      <3> QED BY <3>1, <2>2 DEF Frame
    <2> QED BY <2>1, <2>2
  <1>6. ~\E i \in DOMAIN hub.buf : hub.buf[i].seq > Larger(last, hub.turnStart)
    <2> SUFFICES ASSUME NEW i \in DOMAIN hub.buf, hub.buf[i].seq > Larger(last, hub.turnStart) PROVE FALSE
      OBVIOUS
    <2>1. hub.buf[i].seq \in Nat
      <3>1. \A f \in Frame : f.seq \in Nat
        BY DEF Frame
      <3> QED BY <3>1, <1>2
    <2>2. CASE hub.buf[i].seq > n
      <3>1. hub.buf[i].seq <= last
        BY <2>2, <1>4, <1>5
      <3> HIDE DEF last
      <3> QED BY <3>1, <2>1, <1>5, <1>2 DEF Larger
    <2>3. CASE ~(hub.buf[i].seq > n) /\ b = <<>>
      <3>1. last = w.sent
        BY <2>3
      <3>2. Larger(last, hub.turnStart) = n
        BY <3>1 DEF n, w
      <3> QED BY <3>2, <2>3
    <2>4. CASE ~(hub.buf[i].seq > n) /\ b # <<>>
      <3>1. last > n
        <4>1. Len(b) \in DOMAIN b
          BY <2>4, <1>4
        <4> QED BY <4>1, <1>5, <2>4, <1>4
      <3> HIDE DEF last
      <3> QED BY <3>1, <2>4, <2>1, <1>3, <1>5, <1>2 DEF Larger
    <2> QED BY <2>2, <2>3, <2>4
  <1> HIDE DEF last
  <1>7. /\ at \in Views /\ at.pc = "read" /\ at.chan = <<>> /\ at.sent = last
        /\ [at EXCEPT !.pc = "live"] \in Views /\ [at EXCEPT !.pc = "live"].pc = "live"
        /\ [at EXCEPT !.pc = "live"].chan = <<>> /\ [at EXCEPT !.pc = "live"].sent = last
    <2>1. reopened \in 0 .. LastTurn
      BY <1>2, LaneAssumption DEF Turns
    <2>2. PICK m : m = [w EXCEPT !.sent = last]
      OBVIOUS
    <2>3. m \in Views /\ m.pc = "read" /\ m.chan = <<>> /\ m.sent = last
      BY <1>1, <1>2, <1>5, <2>2 DEF Views
    <2>4. at = [m EXCEPT !.want = reopened]
      BY <2>2
    <2>5. at \in Views /\ at.pc = "read" /\ at.chan = <<>> /\ at.sent = last
      BY <2>1, <2>3, <2>4 DEF Views
    <2> HIDE DEF at
    <2>6. /\ [at EXCEPT !.pc = "live"] \in Views /\ [at EXCEPT !.pc = "live"].pc = "live"
          /\ [at EXCEPT !.pc = "live"].chan = <<>> /\ [at EXCEPT !.pc = "live"].sent = last
      BY <2>5 DEF Views
    <2> QED BY <2>5, <2>6
  <1> HIDE DEF at
  <1>8. PICK c \in BOOLEAN : c = NobodyBut(v)
    BY DEF NobodyBut
  <1>9. hub' \in Streams(hub.seq) /\ hub'.seq = hub.seq /\ hub'.buf = hub.buf /\ hub'.turnStart = hub.turnStart
    <2>1. hub' = [hub EXCEPT !.reaper = c] \/ hub' = [hub EXCEPT !.exists = TRUE, !.reaper = FALSE]
      BY <1>1, <1>8
    <2> QED BY <2>1, FlagsOnly
  <1>10. PICK to \in {Closes(at, ResultIn(b)), Closes(at, w.turn), [at EXCEPT !.pc = "live"]} : view' = [view EXCEPT ![v] = to]
    BY <1>1
  <1>11. to \in Views /\ to.chan = <<>> /\ (to.pc = "live" => to.sent = last)
    <2>1. CASE to = Closes(at, ResultIn(b))
      BY <2>1, <1>4, <1>7, ClosesTyped, ResultTyped
    <2>2. CASE to = Closes(at, w.turn)
      BY <2>2, <1>2, <1>7, ClosesTyped
    <2>3. CASE to = [at EXCEPT !.pc = "live"]
      BY <2>3, <1>7
    <2> QED BY <1>10, <2>1, <2>2, <2>3
  <1>12. IF to.pc = "live" THEN Len(to.chan) <= hub.seq ELSE to.chan = <<>>
    BY <1>11, <1>2
  <1>13. to.pc = "live" => \A i \in DOMAIN hub.buf : hub.buf[i].seq > Larger(to.sent, hub.turnStart) =>
                                \E j \in DOMAIN to.chan : to.chan[j] = hub.buf[i]
    BY <1>11, <1>6
  <1> HIDE DEF w
  <1> QED BY <1>1, <1>9, <1>10, <1>11, <1>12, <1>13, ViewOnly

LEMMA ReceiveKeeps == ASSUME LaneInv, NEW v \in Viewers, ViewReceive(v) PROVE LaneInv'
  <1> DEFINE w == view[v]
             f == Head(w.chan)
             rest == [w EXCEPT !.chan = Tail(w.chan)]
             seen == [rest EXCEPT !.sent = f.seq]
  <1>1. /\ w.pc = "live" /\ w.chan # <<>> /\ UNCHANGED <<task, call, guestVars, cancel, wire, finishing, reopened, restarts>>
        /\ \/ f.seq <= w.sent /\ view' = [view EXCEPT ![v] = rest] /\ UNCHANGED hub
           \/ f.seq > w.sent /\ view' = [view EXCEPT ![v] = seen] /\ UNCHANGED hub
           \/ view' = [view EXCEPT ![v] = Closes(seen, f.t)] /\ hub' = [hub EXCEPT !.reaper = @ \/ (hub.terminal /\ NobodyBut(v))]
    BY DEF ViewReceive
  <1>2. /\ w \in Views /\ w.chan \in Seq(Frame) /\ w.sent \in Nat /\ hub.seq \in Nat /\ Len(w.chan) <= hub.seq
        /\ hub.reaper \in BOOLEAN /\ hub.terminal \in BOOLEAN /\ hub.turnStart \in Nat /\ hub.buf \in Seq(Frame)
    BY <1>1, ViewTyped DEF LaneInv, Counted, Views
  <1>3. /\ f \in Frame /\ Tail(w.chan) \in Seq(Frame) /\ Len(Tail(w.chan)) = Len(w.chan) - 1 /\ Len(w.chan) \in Nat \ {0}
        /\ \A j \in DOMAIN w.chan : w.chan[j] = f \/ \E k \in DOMAIN Tail(w.chan) : Tail(w.chan)[k] = w.chan[j]
    <2>1. /\ f \in Frame /\ Tail(w.chan) \in Seq(Frame) /\ Len(Tail(w.chan)) = Len(w.chan) - 1 /\ Len(w.chan) \in Nat \ {0}
      BY <1>1, <1>2
    <2>2. ASSUME NEW j \in DOMAIN w.chan, w.chan[j] # f PROVE \E k \in DOMAIN Tail(w.chan) : Tail(w.chan)[k] = w.chan[j]
      <3>1. j # 1
        BY <1>1, <1>2, <2>2
      <3>2. j - 1 \in DOMAIN Tail(w.chan) /\ Tail(w.chan)[j - 1] = w.chan[j]
        BY <1>1, <1>2, <2>2, <3>1
      <3> QED BY <3>2
    <2> QED BY <2>1, <2>2
  <1>4. f.seq \in Nat /\ f.t \in 0 .. LastTurn
    BY <1>3, LaneAssumption DEF Frame, Turns
  <1> DEFINE c == Tail(w.chan)
  <1> HIDE DEF c
  <1>5. c \in Seq(Frame) /\ Len(c) = Len(w.chan) - 1 /\ \A j \in DOMAIN w.chan : w.chan[j] = f \/ \E k \in DOMAIN c : c[k] = w.chan[j]
    BY <1>3 DEF c
  <1>6. rest = [w EXCEPT !.chan = c]
    BY DEF c
  <1> HIDE DEF f
  <1>8. rest \in Views /\ rest.pc = "live" /\ rest.chan = c /\ rest.sent = w.sent
    BY <1>1, <1>2, <1>5, <1>6 DEF Views
  <1> HIDE DEF rest
  <1>9. seen \in Views /\ seen.pc = "live" /\ seen.chan = c /\ seen.sent = f.seq
    BY <1>4, <1>8 DEF Views
  <1> HIDE DEF seen
  <1>10. \A i \in DOMAIN hub.buf : hub.buf[i].seq \in Nat
    <2>1. \A g \in Frame : g.seq \in Nat
      BY DEF Frame
    <2> QED BY <2>1, <1>2
  <1>11. \A i \in DOMAIN hub.buf : hub.buf[i].seq > Larger(w.sent, hub.turnStart) => \E j \in DOMAIN w.chan : w.chan[j] = hub.buf[i]
    BY <1>1 DEF LaneInv, NothingMissed
  <1>12. ASSUME NEW n \in Nat, n >= w.sent, n >= f.seq, NEW i \in DOMAIN hub.buf, hub.buf[i].seq > Larger(n, hub.turnStart)
         PROVE  \E k \in DOMAIN c : c[k] = hub.buf[i]
    <2>1. hub.buf[i].seq > Larger(w.sent, hub.turnStart) /\ hub.buf[i].seq # f.seq
      BY <1>12, <1>10, <1>2, <1>4 DEF Larger
    <2>2. PICK j \in DOMAIN w.chan : w.chan[j] = hub.buf[i]
      BY <2>1, <1>11
    <2>3. w.chan[j] # f
      BY <2>1, <2>2
    <2> QED BY <2>2, <2>3, <1>5
  <1>13. Len(c) <= hub.seq
    BY <1>2, <1>3, <1>5
  <1>14. CASE f.seq <= w.sent /\ view' = [view EXCEPT ![v] = rest] /\ UNCHANGED hub
    <2>1. \A i \in DOMAIN hub.buf : hub.buf[i].seq > Larger(rest.sent, hub.turnStart) => \E j \in DOMAIN rest.chan : rest.chan[j] = hub.buf[i]
      BY <1>2, <1>4, <1>8, <1>12, <1>14
    <2>2. hub' \in Streams(hub.seq) /\ hub'.seq = hub.seq /\ hub'.buf = hub.buf /\ hub'.turnStart = hub.turnStart
      BY <1>14, ViewTyped
    <2> QED BY <2>1, <2>2, <1>1, <1>8, <1>13, <1>14, ViewOnly
  <1>15. CASE f.seq > w.sent /\ view' = [view EXCEPT ![v] = seen] /\ UNCHANGED hub
    <2>1. f.seq >= w.sent /\ f.seq >= f.seq
      BY <1>2, <1>4, <1>15
    <2>2. \A i \in DOMAIN hub.buf : hub.buf[i].seq > Larger(seen.sent, hub.turnStart) => \E j \in DOMAIN seen.chan : seen.chan[j] = hub.buf[i]
      BY <2>1, <1>4, <1>9, <1>12
    <2>3. hub' \in Streams(hub.seq) /\ hub'.seq = hub.seq /\ hub'.buf = hub.buf /\ hub'.turnStart = hub.turnStart
      BY <1>15, ViewTyped
    <2> QED BY <2>2, <2>3, <1>1, <1>9, <1>13, <1>15, ViewOnly
  <1>16. CASE view' = [view EXCEPT ![v] = Closes(seen, f.t)] /\ hub' = [hub EXCEPT !.reaper = @ \/ (hub.terminal /\ NobodyBut(v))]
    <2>1. Closes(seen, f.t) \in Views /\ Closes(seen, f.t).pc # "live" /\ Closes(seen, f.t).chan = <<>>
      BY <1>4, <1>9, ClosesTyped
    <2>2. PICK b \in BOOLEAN : b = (hub.reaper \/ (hub.terminal /\ NobodyBut(v)))
      BY <1>2 DEF NobodyBut
    <2>3. hub' = [hub EXCEPT !.reaper = b]
      BY <1>16, <2>2
    <2>4. hub' \in Streams(hub.seq) /\ hub'.seq = hub.seq /\ hub'.buf = hub.buf /\ hub'.turnStart = hub.turnStart
      BY <2>3, FlagsOnly
    <2> QED BY <2>1, <2>4, <1>1, <1>16, ViewOnly
  <1> HIDE DEF w
  <1> QED BY <1>1, <1>14, <1>15, <1>16

LEMMA LeaveKeeps == ASSUME LaneInv, NEW v \in Viewers, ViewBreaks(v) \/ ViewAgain(v) PROVE LaneInv'
  <1>0. view \in [Viewers -> Views] /\ view[v] \in Views /\ hub.reaper \in BOOLEAN /\ hub.terminal \in BOOLEAN
    BY ViewTyped
  <1>1. CASE ViewBreaks(v)
    <2>1. PICK m : m = [view[v] EXCEPT !.pc = "off"]
      OBVIOUS
    <2>2. m \in Views /\ m.pc = "off"
      BY <1>0, <2>1 DEF Views
    <2>3. PICK e \in Seq(Frame) : e = <<>>
      <3>1. <<>> \in Seq(Frame)
        OBVIOUS
      <3> QED BY <3>1
    <2>9. PICK w : w = [m EXCEPT !.chan = e]
      OBVIOUS
    <2>7. w \in Views /\ w.pc # "live" /\ w.chan = <<>>
      <3>1. w \in Views /\ w.pc # "live" /\ w.chan = e
        BY <2>2, <2>9 DEF Views
      <3> QED BY <3>1, <2>3
    <2>8. view' = [view EXCEPT ![v] = w]
      <3>1. view' = [view EXCEPT ![v].pc = "off", ![v].chan = <<>>]
        BY <1>1 DEF ViewBreaks
      <3>2. view' = [view EXCEPT ![v] = [view[v] EXCEPT !.pc = "off", !.chan = <<>>]]
        BY <3>1, <1>0
      <3> QED BY <3>2, <2>1, <2>3, <2>9
    <2>4. PICK b \in BOOLEAN : b = (hub.reaper \/ (hub.terminal /\ NobodyBut(v)))
      BY <1>0 DEF NobodyBut
    <2>5. hub' = [hub EXCEPT !.reaper = b]
      BY <1>1, <2>4 DEF ViewBreaks
    <2>6. hub' \in Streams(hub.seq) /\ hub'.seq = hub.seq /\ hub'.buf = hub.buf /\ hub'.turnStart = hub.turnStart
      BY <2>5, FlagsOnly
    <2> QED BY <2>6, <2>7, <2>8, <1>1, ViewOnly DEF ViewBreaks
  <1>2. CASE ViewAgain(v)
    <2>1. NewView \in Views /\ NewView.pc # "live" /\ NewView.chan = <<>>
      BY LaneAssumption DEF NewView, Views, Statuses
    <2>2. /\ view' = [view EXCEPT ![v] = NewView]
          /\ UNCHANGED <<task, call, guestVars, cancel, wire, finishing, hub, reopened, restarts>>
      BY <1>2 DEF ViewAgain
    <2>3. hub' \in Streams(hub.seq) /\ hub'.seq = hub.seq /\ hub'.buf = hub.buf /\ hub'.turnStart = hub.turnStart
      BY <2>2, ViewTyped
    <2> QED BY <2>1, <2>2, <2>3, ViewOnly
  <1> QED BY <1>1, <1>2

LEMMA NoStreamTyped == NoStream \in Streams(0) /\ NoStream.seq = 0 /\ NoStream.buf = <<>> /\ NoStream.turnStart = 0
  BY DEF NoStream, Streams

LEMMA ReapKeeps == ASSUME LaneInv, Reap PROVE LaneInv'
  <1>1. /\ \A v \in Viewers : view[v].pc # "live"
        /\ hub' = NoStream /\ UNCHANGED <<task, call, run, registry, cancel, wire, finishing, reopened, view, restarts>>
    BY DEF Reap, guestVars
  <1>2. TypeOK'
    BY <1>1, NoStreamTyped DEF LaneInv, TypeOK, Streams
  <1>3. Sorted' /\ NothingMissed' /\ Fresh' /\ Sent' = Sent
    BY <1>1, NoStreamTyped DEF LaneInv, Sorted, NothingMissed, Fresh, Sent
  <1>4. Len(wire) + Cardinality(finishing) <= Cardinality(Sent)
    <2>1. hub.seq \in Nat /\ Len(wire) \in Nat /\ Cardinality(finishing) \in Nat /\ Cardinality(Sent) \in Nat
          /\ hub.seq + Len(wire) + Cardinality(finishing) <= Cardinality(Sent)
      BY SentBounded, FS_CardinalityType DEF LaneInv, TypeOK, Counted
    <2> QED BY <2>1
  <1>5. 0 + Len(wire) = Len(wire)
    <2>1. Len(wire) \in Nat
      BY DEF LaneInv, TypeOK
    <2> QED BY <2>1
  <1> QED BY <1>1, <1>2, <1>3, <1>4, <1>5, NoStreamTyped DEF LaneInv, Counted

LEMMA RestartKeeps == ASSUME LaneInv, Restart PROVE LaneInv'
  <1>1. /\ restarts < MaxRestarts /\ restarts' = restarts + 1
        /\ call' = [t \in Turns |-> IF call[t] = "new" THEN "new" ELSE "over"]
        /\ cancel' = [cancel EXCEPT !.pc = "idle"] /\ wire' = <<>> /\ finishing' = {} /\ hub' = NoStream
        /\ view' = [v \in Viewers |-> IF view[v].pc = "got" THEN view[v] ELSE [view[v] EXCEPT !.pc = "off", !.chan = <<>>]]
        /\ UNCHANGED <<task, run, registry, reopened>>
    BY DEF Restart, guestVars
  <1>2. restarts' \in 0 .. MaxRestarts /\ cancel' \in [pc : {"idle", "sent"}, n : 0 .. MaxCancels]
    <2>1. restarts \in 0 .. MaxRestarts /\ cancel \in [pc : {"idle", "sent"}, n : 0 .. MaxCancels] /\ MaxRestarts \in Nat
      BY LaneAssumption DEF LaneInv, TypeOK
    <2>2. restarts' \in 0 .. MaxRestarts
      <3>1. \A r \in 0 .. MaxRestarts : r < MaxRestarts => r + 1 \in 0 .. MaxRestarts
        BY LaneAssumption
      <3>2. restarts < MaxRestarts /\ restarts' = restarts + 1
        BY <1>1
      <3> QED BY <2>1, <3>1, <3>2
    <2>3. cancel' \in [pc : {"idle", "sent"}, n : 0 .. MaxCancels]
      <3>1. \A c \in [pc : {"idle", "sent"}, n : 0 .. MaxCancels] : [c EXCEPT !.pc = "idle"] \in [pc : {"idle", "sent"}, n : 0 .. MaxCancels]
        OBVIOUS
      <3> QED BY <1>1, <2>1, <3>1
    <2> QED BY <2>2, <2>3
  <1>3. call' \in [Turns -> Calls]
    BY <1>1 DEF Calls
  <1>4. ASSUME NEW v \in Viewers PROVE view'[v] \in Views /\ view'[v].pc # "live" /\ view'[v].chan = <<>>
    <2>1. view[v] \in Views /\ (view[v].pc # "live" => view[v].chan = <<>>)
      BY ViewTyped DEF LaneInv, Counted
    <2>2. CASE view[v].pc = "got"
      BY <2>1, <2>2, <1>1
    <2>3. CASE view[v].pc # "got"
      <3>1. view'[v] = [view[v] EXCEPT !.pc = "off", !.chan = <<>>]
        BY <2>3, <1>1
      <3>2. PICK m : m = [view[v] EXCEPT !.pc = "off"]
        OBVIOUS
      <3>3. m \in Views /\ m.pc = "off"
        BY <2>1, <3>2 DEF Views
      <3>4. PICK e \in Seq(Frame) : e = <<>>
        <4>1. <<>> \in Seq(Frame)
          OBVIOUS
        <4> QED BY <4>1
      <3>5. view'[v] = [m EXCEPT !.chan = e]
        BY <3>1, <3>2, <3>4
      <3>6. [m EXCEPT !.chan = e] \in Views /\ [m EXCEPT !.chan = e].pc = "off" /\ [m EXCEPT !.chan = e].chan = e
        BY <3>3 DEF Views
      <3> QED BY <3>4, <3>5, <3>6
    <2> QED BY <2>2, <2>3
  <1>5. view' \in [Viewers -> Views]
    <2>1. view' = [v \in Viewers |-> view'[v]]
      BY <1>1
    <2> QED BY <2>1, <1>4
  <1>6. TypeOK'
    <2>1. hub' \in Streams(0) /\ hub'.seq = 0
      BY <1>1, NoStreamTyped
    <2>2. wire' \in Seq(Notice) /\ finishing' \subseteq Notice
      <3>1. <<>> \in Seq(Notice) /\ {} \subseteq Notice
        OBVIOUS
      <3> QED BY <1>1, <3>1
    <2> QED BY <1>1, <1>2, <1>3, <1>5, <2>1, <2>2 DEF LaneInv, TypeOK, Streams, Views, Calls
  <1>7. Sorted' /\ NothingMissed' /\ Sent' = Sent
    <2>1. Sorted'
      <3>1. hub'.buf = <<>>
        BY <1>1, NoStreamTyped
      <3> QED BY <3>1 DEF Sorted
    <2>2. NothingMissed'
      BY <1>4 DEF NothingMissed
    <2>3. Sent' = Sent
      BY <1>1 DEF Sent
    <2> QED BY <2>1, <2>2, <2>3
  <1>8. Fresh'
    BY <1>1 DEF LaneInv, Fresh
  <1>9. Counted'
    <2>1. IsFiniteSet({}) /\ Cardinality({}) = 0 /\ Cardinality(Sent) \in Nat
      BY FS_EmptySet, SentBounded
    <2>2. hub'.seq = 0 /\ Len(wire') = 0
      BY <1>1, NoStreamTyped
    <2>3. Cardinality(finishing') = 0 /\ IsFiniteSet(finishing')
      BY <2>1, <1>1
    <2>4. 0 <= Cardinality(Sent)
      BY <2>1
    <2> QED BY <2>2, <2>3, <2>4, <1>4, <1>7 DEF Counted
  <1> QED BY <1>6, <1>7, <1>8, <1>9 DEF LaneInv

LEMMA MovesKeep == ASSUME LaneInv, Room \/ Roomy, Moves PROVE LaneInv'
  BY HandlerKeeps, GuestKeeps, CancelKeeps, EventKeeps, DoneKeeps, ResultKeeps, ReapKeeps, ReadKeeps, SubscribeKeeps,
     ReceiveKeeps, LeaveKeeps, RestartKeeps DEF Moves, Viewing

LEMMA LaneBegins == ASSUME Init PROVE LaneInv
  <1>1. TypeOK
    BY LaneAssumption DEF Init, TypeOK, Statuses, Turns, NoRun, NoStream, NewView, Terminal
  <1>2. Sorted /\ Fresh /\ NothingMissed
    BY DEF Init, Sorted, Fresh, NothingMissed, NoRun, NoStream, NewView
  <1>3. Counted
    <2>1. IsFiniteSet({}) /\ Cardinality({}) = 0 /\ Cardinality(Sent) \in Nat
      BY FS_EmptySet, SentBounded
    <2> QED BY <2>1 DEF Init, Counted, NoStream, NewView
  <1> QED BY <1>1, <1>2, <1>3 DEF LaneInv


-----------------------------------------------------------------------------
(* The calm instance: one turn after the other.                            *)

Ended == {"unregister", "over"}

\* Turns that are not begun, and turns that are over.
Others(c) == \A s \in Turns \ {c} :
    \/ call[s] = "new" /\ run[s].pc = "none"
    \/ call[s] = "over" /\ run[s].pc \in Ended

\* On the wire are events of turn c, and then its result when it has reported.
OnWire(c) == \A i \in DOMAIN wire :
    wire[i].t = c /\ (wire[i].kind = "done" <=> i = Len(wire) /\ run[c].pc \in Ended)

\* How far turn c is. Only when its result has left the wire may the row say that
\* it is over, as far as a handler can tell who reads it.
Stage(c) ==
    /\ finishing # {} => wire = <<>> /\ run[c].pc \in Ended /\ \E f : finishing = {f} /\ f.t = c
    /\ run[c].pc = "none" => call[c] \in {"new", "dispatch"} /\ wire = <<>>
    /\ run[c].pc # "none" => call[c] \in {"acked", "restart", "over"}
    /\ run[c].pc \in {"report"} \cup Ended => call[c] = "over"
    /\ call[c] = "over" /\ (run[c].pc \notin Ended \/ wire # <<>>) => task.status \in {"queued", "running"}
    /\ c = 1 /\ call[c] \in {"dispatch", "acked"} => task.status \in {"queued", "running"}
    /\ task.status = "none" <=> call[c] = "new"

\* A turn whose result is in the ring has nothing more to send.
Closed(c) == \A i \in DOMAIN hub.buf : hub.buf[i].terminal =>
    /\ run[hub.buf[i].t].pc \in Ended
    /\ hub.buf[i].t = c => wire = <<>> /\ finishing = {}

Line(c) == Others(c) /\ OnWire(c) /\ Stage(c) /\ Closed(c)

\* A step of the handler of the turn, or of nobody.
LEMMA LineStays ==
    ASSUME LaneInv, NEW c \in Turns, Line(c),
           UNCHANGED <<run, wire, finishing>>, hub'.buf = hub.buf,
           Others(c)', Stage(c)'
    PROVE  Line(c)'
  BY DEF Line, OnWire, Closed

LEMMA CalmHandler ==
    ASSUME LaneInv, NEW c \in Turns, Line(c), NEW t \in Turns, Calm!Handler(t)
    PROVE  \E d \in Turns : Line(d)'
  <1>0. /\ call \in [Turns -> Calls] /\ run \in [Turns -> RunRecs] /\ task \in TaskRows /\ Fresh
        /\ Others(c) /\ OnWire(c) /\ Stage(c) /\ Closed(c)
    BY DEF LaneInv, TypeOK, Calls, RunRecs, TaskRows, Line
  <1>1. call[t] \notin {"new", "over"} => t = c
    BY <1>0 DEF Others
  <1>2. CASE t = 1 /\ Calm!CreateInsert
    <2>1. /\ call[1] = "new" /\ task.status = "none" /\ task' = [task EXCEPT !.status = "queued"]
          /\ call' = [call EXCEPT ![1] = "dispatch"] /\ UNCHANGED <<run, wire, finishing, hub>>
      BY <1>2 DEF Calm!CreateInsert, Calm!guestVars, Calm!hubVars
    <2>2. /\ task'.status = "queued" /\ call'[t] = "dispatch" /\ \A s \in Turns \ {t} : call'[s] = call[s]
      BY <2>1, <1>0, <1>2 DEF TaskRows
    <2>3. call[c] = "new" /\ run[c].pc = "none" /\ wire = <<>> /\ finishing = {} /\ run[t].pc = "none"
      BY <2>1, <1>0, <1>2 DEF Stage, Fresh, Ended
    <2>4. Others(t)'
      BY <2>1, <2>2, <2>3, <1>0 DEF Others
    <2>5. Stage(t)' /\ OnWire(t)'
      BY <2>1, <2>2, <2>3, <1>0 DEF Stage, OnWire, Ended
    <2>6. Closed(t)'
      BY <2>1, <2>3, <1>0 DEF Closed
    <2> QED BY <2>4, <2>5, <2>6 DEF Line
  <1>3. CASE t = 1 /\ Calm!CreateMark
    <2>1. /\ call[1] = "acked" /\ call' = [call EXCEPT ![1] = "over"] /\ task' = Calm!MarkAgentTaskRunning
          /\ UNCHANGED <<run, wire, finishing, hub>>
      BY <1>3 DEF Calm!CreateMark, Calm!guestVars, Calm!hubVars, Calm!Writes
    <2>2. t = c
      BY <2>1, <1>1, <1>3
    <2>3. call'[c] = "over" /\ \A s \in Turns \ {c} : call'[s] = call[s]
      BY <2>1, <2>2, <1>0, <1>3
    <2>4. task.status \in {"queued", "running"} /\ run[c].pc # "none"
      BY <2>1, <2>2, <1>0, <1>3 DEF Stage
    <2>5. task'.status \in {"queued", "running"}
      <3>1. CASE task.status = "queued"
        BY <3>1, <2>1, <1>0 DEF Calm!MarkAgentTaskRunning, TaskRows
      <3>2. CASE task.status = "running"
        BY <3>2, <2>1, <1>0 DEF Calm!MarkAgentTaskRunning, TaskRows
      <3> QED BY <3>1, <3>2, <2>4
    <2>6. Others(c)' /\ Stage(c)'
      BY <2>1, <2>3, <2>4, <2>5, <1>0 DEF Others, Stage, Ended
    <2> QED BY <2>1, <2>6, LineStays
  <1>4. CASE Calm!MessageRead(t)
    <2>1. /\ t > 1 /\ call[t] = "new" /\ finishing = {} /\ \A s \in Turns \ {t} : call[s] \in {"new", "over"}
          /\ task.status \in Terminal /\ call' = [call EXCEPT ![t] = "dispatch"]
          /\ UNCHANGED <<task, run, wire, finishing, hub>>
      BY <1>4 DEF Calm!MessageRead, Calm!guestVars, Calm!hubVars, Calm!Orderly, Calm!Turns, Turns, Calm!Terminal, Terminal
    <2>2. task.status \notin {"none", "queued", "running"}
      BY <2>1 DEF Terminal
    <2>3. call[c] # "new" /\ t # c
      BY <2>1, <2>2, <1>0 DEF Stage
    <2>4. call[c] = "over" /\ run[c].pc \in Ended /\ wire = <<>>
      <3>1. call[c] = "over"
        BY <2>1, <2>3
      <3> QED BY <3>1, <2>2, <1>0 DEF Stage
    <2>5. run[t].pc = "none" /\ call'[t] = "dispatch" /\ \A s \in Turns \ {t} : call'[s] = call[s]
      BY <2>1, <1>0 DEF Fresh
    <2>6. Others(t)'
      BY <2>1, <2>4, <2>5, <1>0 DEF Others
    <2>7. t # 1
      BY <2>1 DEF Turns
    <2>8. Stage(t)' /\ OnWire(t)'
      BY <2>1, <2>2, <2>4, <2>5, <2>7 DEF Stage, OnWire, Ended
    <2>9. Closed(t)'
      BY <2>1, <2>4, <2>5, <1>0 DEF Closed
    <2> QED BY <2>6, <2>8, <2>9 DEF Line
  <1>5. CASE Calm!Dispatch(t)
    <2>1. /\ call[t] = "dispatch" /\ run' = [run EXCEPT ![t].pc = "working"] /\ call' = [call EXCEPT ![t] = "acked"]
          /\ UNCHANGED <<task, wire, finishing, hub>>
      BY <1>5 DEF Calm!Dispatch, Calm!hubVars
    <2>2. t = c
      BY <2>1, <1>1
    <2>3. /\ call'[c] = "acked" /\ \A s \in Turns \ {c} : call'[s] = call[s] /\ run'[s] = run[s]
          /\ run[c].pc = "none" /\ run'[c].pc = "working"
      BY <2>1, <2>2, <1>0 DEF Fresh, RunRecs
    <2>4. wire = <<>> /\ finishing = {}
      BY <2>3, <1>0 DEF Stage, Ended
    <2>5. Others(c)' /\ OnWire(c)'
      BY <2>1, <2>3, <2>4, <1>0 DEF Others, OnWire
    <2>6. Stage(c)'
      BY <2>1, <2>2, <2>3, <2>4, <1>0 DEF Stage, Ended
    <2>7. Closed(c)'
      <3>1. \A i \in DOMAIN hub.buf : hub.buf[i].terminal => hub.buf[i].t # c /\ hub.buf[i].t \in Turns
        <4>1. \A i \in DOMAIN hub.buf : hub.buf[i] \in Frame
          BY DEF LaneInv, TypeOK
        <4>2. \A i \in DOMAIN hub.buf : hub.buf[i].t \in Turns
          BY <4>1 DEF Frame
        <4> QED BY <4>2, <2>3, <1>0 DEF Closed, Ended
      <3> QED BY <3>1, <2>1, <2>3, <1>0 DEF Closed
    <2> QED BY <2>5, <2>6, <2>7 DEF Line
  <1>6. ~Calm!DispatchFails(t)
    BY DEF Calm!DispatchFails
  <1>7. ~Calm!Refused(t)
    <2>1. call[t] # "refused"
      BY <1>0, <1>1 DEF Stage
    <2> QED BY <2>1 DEF Calm!Refused
  <1>8. CASE Calm!MessageReopen(t)
    <2>1. /\ t > 1 /\ call[t] = "acked" /\ call' = [call EXCEPT ![t] = "restart"]
          /\ hub' = [hub EXCEPT !.exists = TRUE, !.terminal = FALSE, !.turnStart = hub.seq, !.reaper = FALSE]
          /\ UNCHANGED <<task, run, wire, finishing>>
      BY <1>8 DEF Calm!MessageReopen, Calm!guestVars
    <2>2. t = c
      BY <2>1, <1>1
    <2>3. call'[c] = "restart" /\ \A s \in Turns \ {c} : call'[s] = call[s]
      BY <2>1, <2>2, <1>0
    <2>4. hub'.buf = hub.buf
      <3>1. hub \in Streams(hub.seq)
        BY ViewTyped
      <3> QED BY <3>1, <2>1 DEF Streams
    <2>5. Others(c)' /\ Stage(c)'
      BY <2>1, <2>2, <2>3, <1>0 DEF Others, Stage, Ended
    <2> QED BY <2>1, <2>4, <2>5, LineStays
  <1>9. CASE Calm!MessageRestart(t)
    <2>1. /\ call[t] = "restart" /\ call' = [call EXCEPT ![t] = "over"] /\ task' = [task EXCEPT !.status = "running"]
          /\ UNCHANGED <<run, wire, finishing, hub>>
      BY <1>9 DEF Calm!MessageRestart, Calm!guestVars, Calm!hubVars, Calm!Writes, Calm!RestartAgentTask
    <2>2. t = c
      BY <2>1, <1>1
    <2>3. call'[c] = "over" /\ (\A s \in Turns \ {c} : call'[s] = call[s]) /\ task'.status = "running" /\ run[c].pc # "none"
      BY <2>1, <2>2, <1>0 DEF TaskRows, Stage
    <2>4. Others(c)' /\ Stage(c)'
      BY <2>1, <2>3, <1>0 DEF Others, Stage, Ended
    <2> QED BY <2>1, <2>4, LineStays
  <1> QED BY <1>2, <1>3, <1>4, <1>5, <1>6, <1>7, <1>8, <1>9 DEF Calm!Handler

LEMMA WireTyped == ASSUME LaneInv PROVE wire \in Seq(Notice) /\ hub.buf \in Seq(Frame) /\ hub.seq \in Nat /\ Len(wire) \in Nat
  BY DEF LaneInv, TypeOK

LEMMA CalmGuest ==
    ASSUME LaneInv, NEW c \in Turns, Line(c), NEW t \in Turns, Calm!Guest(t)
    PROVE  Line(c)' /\ hub' = hub
  <1>0. /\ run \in [Turns -> RunRecs] /\ wire \in Seq(Notice) /\ Len(wire) \in Nat
        /\ Others(c) /\ OnWire(c) /\ Stage(c) /\ Closed(c)
        /\ \A i \in DOMAIN hub.buf : hub.buf[i] \in Frame /\ hub.buf[i].t \in Turns
    <2>1. \A f \in Frame : f.t \in Turns
      BY DEF Frame
    <2> QED BY <2>1, WireTyped DEF LaneInv, TypeOK, RunRecs, Line
  <1>1. run[t].pc \in {"working", "report"} => t = c
    BY <1>0 DEF Others, Ended
  <1>2. CASE Calm!RunEmits(t)
    <2>1. /\ run[t].pc = "working" /\ run' = [run EXCEPT ![t].events = @ + 1]
          /\ wire' = Append(wire, [kind |-> "event", t |-> t, n |-> run[t].events + 1, status |-> "done", session |-> FALSE])
          /\ UNCHANGED <<task, call, finishing, hub>>
      BY <1>2 DEF Calm!RunEmits, Calm!Notify, Calm!hubVars
    <2>2. t = c /\ \A s \in Turns : run'[s].pc = run[s].pc
      BY <2>1, <1>0, <1>1 DEF RunRecs
    <2>3. OnWire(c)'
      <3> DEFINE e == [kind |-> "event", t |-> t, n |-> run[t].events + 1, status |-> "done", session |-> FALSE]
      <3>1. e.t = c /\ e.kind # "done"
        BY <2>2
      <3>2. wire' = Append(wire, e)
        BY <2>1
      <3> HIDE DEF e
      <3>3. \A i \in DOMAIN wire' : wire'[i] = e \/ (i \in DOMAIN wire /\ wire'[i] = wire[i])
        BY <3>2, <1>0
      <3> QED BY <3>1, <3>3, <2>1, <2>2, <1>0 DEF OnWire, Ended
    <2>4. Others(c)' /\ Stage(c)'
      <3>1. run[c].pc = "working"
        BY <2>1, <2>2
      <3> QED BY <3>1, <2>1, <2>2, <1>0 DEF Others, Stage, Ended
    <2>5. Closed(c)'
      BY <2>1, <2>2, <1>0 DEF Closed, Ended
    <2> QED BY <2>1, <2>3, <2>4, <2>5 DEF Line
  <1>3. CASE Calm!RunEnds(t)
    <2>1. /\ run[t].pc = "working" /\ call[t] = "over" /\ run' = [run EXCEPT ![t].pc = "report"]
          /\ UNCHANGED <<task, call, wire, finishing, hub>>
      BY <1>3 DEF Calm!RunEnds, Calm!hubVars
    <2>2. t = c /\ run'[c].pc = "report" /\ \A s \in Turns \ {c} : run'[s] = run[s]
      BY <2>1, <1>0, <1>1 DEF RunRecs
    <2>3. Others(c)' /\ OnWire(c)' /\ Stage(c)'
      BY <2>1, <2>2, <1>0 DEF Others, OnWire, Stage, Ended
    <2>4. Closed(c)'
      BY <2>1, <2>2, <1>0 DEF Closed, Ended
    <2> QED BY <2>1, <2>3, <2>4 DEF Line
  <1>4. CASE Calm!RunReports(t)
    <2>1. /\ run[t].pc = "report" /\ run' = [run EXCEPT ![t].pc = "unregister"] /\ UNCHANGED <<task, call, finishing, hub>>
          /\ \E s, b : wire' = Append(wire, [kind |-> "done", t |-> t, n |-> 0, status |-> s, session |-> b])
      BY <1>4 DEF Calm!RunReports, Calm!Notify, Calm!hubVars
    <2>2. t = c /\ run'[c].pc = "unregister" /\ run[c].pc = "report" /\ \A s \in Turns \ {c} : run'[s] = run[s]
      BY <2>1, <1>0, <1>1 DEF RunRecs
    <2>3. PICK e : e.t = c /\ e.kind = "done" /\ wire' = Append(wire, e)
      BY <2>1, <2>2
    <2>4. OnWire(c)'
      <3>1. Len(wire') = Len(wire) + 1 /\ \A i \in DOMAIN wire' : IF i = Len(wire) + 1 THEN wire'[i] = e ELSE i \in DOMAIN wire /\ wire'[i] = wire[i]
        BY <2>3, <1>0
      <3> QED BY <3>1, <2>2, <2>3, <1>0 DEF OnWire, Ended
    <2>5. finishing = {} /\ call[c] = "over" /\ task.status \in {"queued", "running"}
      BY <2>2, <1>0 DEF Stage, Ended
    <2>6. Others(c)' /\ Stage(c)'
      BY <2>1, <2>2, <2>5, <1>0 DEF Others, Stage, Ended
    <2>7. Closed(c)'
      BY <2>1, <2>2, <1>0 DEF Closed, Ended
    <2> QED BY <2>1, <2>4, <2>6, <2>7 DEF Line
  <1>5. CASE Calm!RunUnregisters(t)
    <2>1. /\ run[t].pc = "unregister" /\ run' = [run EXCEPT ![t].pc = "over"] /\ UNCHANGED <<task, call, wire, finishing, hub>>
      BY <1>5 DEF Calm!RunUnregisters, Calm!hubVars
    <2>2. run'[t].pc = "over" /\ \A s \in Turns \ {t} : run'[s] = run[s]
      BY <2>1, <1>0 DEF RunRecs
    <2>3. \A s \in Turns : run'[s].pc = run[s].pc \/ (run'[s].pc \in Ended /\ run[s].pc \in Ended)
      BY <2>1, <2>2 DEF Ended
    <2>4. Others(c)' /\ OnWire(c)' /\ Stage(c)'
      BY <2>1, <2>3, <1>0 DEF Others, OnWire, Stage, Ended
    <2>5. Closed(c)'
      BY <2>1, <2>3, <1>0 DEF Closed, Ended
    <2> QED BY <2>1, <2>4, <2>5 DEF Line
  <1> QED BY <1>2, <1>3, <1>4, <1>5 DEF Calm!Guest

LEMMA CalmCancel ==
    ASSUME LaneInv, NEW c \in Turns, Line(c), Calm!CancelRead \/ Calm!CancelLands
    PROVE  Line(c)' /\ hub' = hub
  <1>1. UNCHANGED <<task, call, wire, finishing, hub>>
    BY DEF Calm!CancelRead, Calm!CancelLands, Calm!guestVars, Calm!hubVars
  <1>2. \A s \in Turns : run'[s].pc = run[s].pc
    <2>1. run \in [Turns -> RunRecs]
      BY DEF LaneInv, TypeOK, RunRecs
    <2>2. run' = run \/ run' = [run EXCEPT ![registry].canceled = TRUE]
      BY DEF Calm!CancelRead, Calm!CancelLands, Calm!guestVars
    <2> QED BY <2>1, <2>2 DEF RunRecs
  <1>3. \A i \in DOMAIN hub.buf : hub.buf[i] \in Frame /\ hub.buf[i].t \in Turns
    <2>1. \A f \in Frame : f.t \in Turns
      BY DEF Frame
    <2> QED BY <2>1, WireTyped
  <1>4. Others(c)' /\ OnWire(c)' /\ Stage(c)'
    BY <1>1, <1>2 DEF Line, Others, OnWire, Stage
  <1>5. Closed(c)'
    BY <1>1, <1>2, <1>3 DEF Line, Closed
  <1> QED BY <1>1, <1>4, <1>5 DEF Line

\* The frames of the ring after a frame was published.
LEMMA SendsLast ==
    ASSUME LaneInv, NEW t \in Turns, NEW x \in BOOLEAN, Calm!Publish(t, x)
    PROVE  \E d \in Nat : \A i \in DOMAIN hub'.buf :
              /\ i \in Nat /\ i + d \in 1 .. Len(hub.buf) + 1
              /\ hub'.buf[i] = IF i + d = Len(hub.buf) + 1 THEN [seq |-> hub.seq + 1, t |-> t, terminal |-> x] ELSE hub.buf[i + d]
  <1> DEFINE f == [seq |-> hub.seq + 1, t |-> t, terminal |-> x]
             b == Append(hub.buf, f)
  <1>1. hub.buf \in Seq(Frame) /\ f \in Frame
    BY WireTyped DEF Frame
  <1>2. hub'.buf = b \/ hub'.buf = Tail(b)
    BY DEF Calm!Publish
  <1> HIDE DEF f
  <1>3. /\ b \in Seq(Frame) /\ Len(b) = Len(hub.buf) + 1 /\ Len(hub.buf) \in Nat /\ DOMAIN b = 1 .. Len(hub.buf) + 1
        /\ \A i \in 1 .. Len(hub.buf) + 1 : b[i] = IF i = Len(hub.buf) + 1 THEN f ELSE hub.buf[i]
    BY <1>1
  <1> HIDE DEF b
  <1>4. CASE hub'.buf = b
    <2>1. \A i \in DOMAIN b : i \in Nat /\ i + 0 = i
      BY <1>3
    <2>2. \A i \in DOMAIN b : i + 0 \in 1 .. Len(hub.buf) + 1 /\ b[i] = IF i + 0 = Len(hub.buf) + 1 THEN f ELSE hub.buf[i + 0]
      BY <1>3, <2>1
    <2>3. 0 \in Nat
      OBVIOUS
    <2> QED BY <1>4, <2>1, <2>2, <2>3 DEF f
  <1>5. CASE hub'.buf = Tail(b)
    <2>1. \A i \in DOMAIN Tail(b) : i \in Nat /\ i + 1 \in DOMAIN b /\ Tail(b)[i] = b[i + 1]
      BY <1>3
    <2> QED BY <1>3, <1>5, <2>1 DEF f
  <1> QED BY <1>2, <1>4, <1>5

LEMMA CalmEvent ==
    ASSUME LaneInv, NEW c \in Turns, Line(c), ResultIsLast, NEW i \in Calm!Arrivals, Calm!HandleEvent(i)
    PROVE  Line(c)' /\ ResultIsLast'
  <1>0. /\ wire \in Seq(Notice) /\ Len(wire) \in Nat /\ Others(c) /\ OnWire(c) /\ Stage(c) /\ Closed(c)
        /\ hub.buf \in Seq(Frame) /\ Len(hub.buf) \in Nat
    BY WireTyped DEF Line
  <1>1. i = 1 /\ i \in DOMAIN wire /\ wire[1].kind = "event" /\ wire' = Calm!Without(1) /\ Calm!Publish(wire[1].t, FALSE)
        /\ UNCHANGED <<task, call, run, finishing>>
    BY DEF Calm!HandleEvent, Calm!Arrivals, Calm!guestVars
  <1>2. wire[1].t = c /\ wire # <<>> /\ Len(wire) >= 1
    BY <1>0, <1>1 DEF OnWire
  <1>3. wire' = Tail(wire)
    <2>1. SubSeq(wire, 1, 1 - 1) = <<>> /\ SubSeq(wire, 1 + 1, Len(wire)) = Tail(wire)
      BY <1>0, <1>2
    <2>2. Tail(wire) \in Seq(Notice)
      BY <1>0, <1>2
    <2>3. <<>> \o Tail(wire) = Tail(wire)
      BY <2>2
    <2> QED BY <1>1, <2>1, <2>3 DEF Calm!Without
  <1>4. Len(wire') = Len(wire) - 1 /\ \A j \in DOMAIN wire' : j + 1 \in DOMAIN wire /\ wire'[j] = wire[j + 1] /\ j \in Nat
    BY <1>0, <1>2, <1>3
  <1>5. OnWire(c)'
    <2>1. \A j \in DOMAIN wire' : j + 1 = Len(wire) <=> j = Len(wire')
      BY <1>0, <1>4
    <2> QED BY <1>0, <1>1, <1>4, <2>1 DEF OnWire
  <1>6. finishing = {} /\ \A j \in DOMAIN hub.buf : hub.buf[j].terminal => hub.buf[j].t # c
    BY <1>0, <1>2 DEF Stage, Closed
  <1>7. Others(c)' /\ Stage(c)'
    <2>1. run[c].pc # "none"
      BY <1>0, <1>2 DEF Stage
    <2> QED BY <1>0, <1>1, <1>2, <1>6, <2>1 DEF Others, Stage
  <1>8. PICK d \in Nat : \A k \in DOMAIN hub'.buf :
              /\ k \in Nat /\ k + d \in 1 .. Len(hub.buf) + 1
              /\ hub'.buf[k] = IF k + d = Len(hub.buf) + 1 THEN [seq |-> hub.seq + 1, t |-> c, terminal |-> FALSE] ELSE hub.buf[k + d]
    BY <1>1, <1>2, SendsLast
  <1>9. \A k \in DOMAIN hub'.buf : k + d # Len(hub.buf) + 1 => k + d \in DOMAIN hub.buf /\ hub'.buf[k] = hub.buf[k + d]
    BY <1>0, <1>8
  <1>10. \A k \in DOMAIN hub'.buf : hub'.buf[k].terminal => k + d \in DOMAIN hub.buf /\ hub'.buf[k] = hub.buf[k + d]
    BY <1>8, <1>9
  <1>11. Closed(c)'
    BY <1>0, <1>1, <1>6, <1>10 DEF Closed
  <1>12. ASSUME NEW j \in DOMAIN hub'.buf, NEW k \in DOMAIN hub'.buf, j < k, hub'.buf[j].terminal PROVE hub'.buf[j].t # hub'.buf[k].t
    <2>1. j + d \in DOMAIN hub.buf /\ hub'.buf[j] = hub.buf[j + d]
      BY <1>10, <1>12
    <2>2. CASE k + d = Len(hub.buf) + 1
      <3>1. hub'.buf[k].t = c
        BY <1>8, <2>2
      <3> QED BY <3>1, <2>1, <1>6, <1>12
    <2>3. CASE k + d # Len(hub.buf) + 1
      <3>1. k + d \in DOMAIN hub.buf /\ hub'.buf[k] = hub.buf[k + d]
        BY <1>9, <2>3
      <3>2. j + d < k + d
        BY <1>8, <1>12
      <3> QED BY <3>1, <3>2, <2>1, <1>12 DEF ResultIsLast
    <2> QED BY <2>2, <2>3
  <1> QED BY <1>5, <1>7, <1>11, <1>12 DEF Line, ResultIsLast

LEMMA CalmDone ==
    ASSUME LaneInv, NEW c \in Turns, Line(c), NEW i \in Calm!Arrivals, Calm!HandleDone(i)
    PROVE  Line(c)' /\ hub' = hub
  <1>0. /\ wire \in Seq(Notice) /\ Len(wire) \in Nat /\ Others(c) /\ OnWire(c) /\ Stage(c) /\ Closed(c)
    BY WireTyped DEF Line
  <1>1. i = 1 /\ i \in DOMAIN wire /\ wire[1].kind = "done" /\ wire' = Calm!Without(1) /\ finishing' = finishing \cup {wire[1]}
        /\ task' = Calm!FinishAgentTask(wire[1]) /\ UNCHANGED <<call, run, hub>>
    BY DEF Calm!HandleDone, Calm!Arrivals, Calm!guestVars, Calm!hubVars, Calm!Writes
  <1>2. wire[1].t = c /\ wire # <<>> /\ Len(wire) = 1 /\ run[c].pc \in Ended
    <2>1. 1 \in DOMAIN wire
      BY <1>1
    <2>2. wire[1].t = c /\ 1 = Len(wire) /\ run[c].pc \in Ended
      BY <1>0, <1>1, <2>1 DEF OnWire
    <2> QED BY <2>1, <2>2
  <1>3. wire' = <<>>
    <2>1. SubSeq(wire, 1, 1 - 1) = <<>> /\ SubSeq(wire, 1 + 1, Len(wire)) = <<>>
      BY <1>0, <1>2
    <2>2. <<>> \o <<>> = <<>>
      OBVIOUS
    <2> QED BY <1>1, <2>1, <2>2 DEF Calm!Without
  <1>4. finishing = {} /\ finishing' = {wire[1]}
    BY <1>0, <1>1, <1>2 DEF Stage
  <1>5. task'.status \notin {"none", "queued", "running"}
    <2>1. wire[1] \in Notice
      BY <1>0, <1>1
    <2>2. wire[1].status \in Terminal
      BY <2>1 DEF Notice
    <2> QED BY <1>1, <2>2 DEF Calm!FinishAgentTask, Terminal
  <1>6. call[c] = "over" /\ run[c].pc # "none"
    BY <1>0, <1>2 DEF Stage, Ended
  <1>7. Others(c)' /\ OnWire(c)'
    BY <1>0, <1>1, <1>3 DEF Others, OnWire
  <1>8. Stage(c)'
    BY <1>0, <1>1, <1>2, <1>3, <1>4, <1>5, <1>6 DEF Stage
  <1>9. Closed(c)'
    BY <1>0, <1>1, <1>2 DEF Closed
  <1> QED BY <1>1, <1>7, <1>8, <1>9 DEF Line

LEMMA CalmResult ==
    ASSUME LaneInv, NEW c \in Turns, Line(c), ResultIsLast, NEW f \in finishing, Calm!PublishResult(f)
    PROVE  Line(c)' /\ ResultIsLast'
  <1>0. /\ Others(c) /\ OnWire(c) /\ Stage(c) /\ Closed(c) /\ hub.buf \in Seq(Frame) /\ Len(hub.buf) \in Nat
    BY WireTyped DEF Line
  <1>1. finishing' = finishing \ {f} /\ Calm!Publish(f.t, TRUE) /\ UNCHANGED <<task, call, run, wire>>
    BY DEF Calm!PublishResult, Calm!guestVars
  <1>2. wire = <<>> /\ run[c].pc \in Ended /\ f.t = c /\ finishing' = {}
    BY <1>0, <1>1 DEF Stage
  <1>3. \A j \in DOMAIN hub.buf : hub.buf[j].terminal => hub.buf[j].t # c
    BY <1>0 DEF Closed
  <1>4. Others(c)' /\ OnWire(c)' /\ Stage(c)'
    BY <1>0, <1>1, <1>2 DEF Others, OnWire, Stage
  <1>5. PICK d \in Nat : \A k \in DOMAIN hub'.buf :
              /\ k \in Nat /\ k + d \in 1 .. Len(hub.buf) + 1
              /\ hub'.buf[k] = IF k + d = Len(hub.buf) + 1 THEN [seq |-> hub.seq + 1, t |-> c, terminal |-> TRUE] ELSE hub.buf[k + d]
    BY <1>1, <1>2, SendsLast
  <1>6. \A k \in DOMAIN hub'.buf : k + d # Len(hub.buf) + 1 => k + d \in DOMAIN hub.buf /\ hub'.buf[k] = hub.buf[k + d]
    <2>1. \A k \in DOMAIN hub'.buf : k + d \in 1 .. Len(hub.buf) + 1
      BY <1>5
    <2>2. \A x \in 1 .. Len(hub.buf) + 1 : x # Len(hub.buf) + 1 => x \in DOMAIN hub.buf
      BY <1>0
    <2> QED BY <1>5, <2>1, <2>2
  <1>7. \A k \in DOMAIN hub'.buf : k + d = Len(hub.buf) + 1 => hub'.buf[k].t = c
    BY <1>5
  <1>8. Closed(c)'
    <2> SUFFICES ASSUME NEW k \in DOMAIN hub'.buf, hub'.buf[k].terminal PROVE run'[hub'.buf[k].t].pc \in Ended
      BY <1>1, <1>2 DEF Closed
    <2>1. CASE k + d = Len(hub.buf) + 1
      BY <2>1, <1>1, <1>2, <1>7
    <2>2. CASE k + d # Len(hub.buf) + 1
      BY <2>2, <1>0, <1>1, <1>6 DEF Closed
    <2> QED BY <2>1, <2>2
  <1>9. ASSUME NEW j \in DOMAIN hub'.buf, NEW k \in DOMAIN hub'.buf, j < k, hub'.buf[j].terminal PROVE hub'.buf[j].t # hub'.buf[k].t
    <2>1. j + d < k + d /\ j + d # Len(hub.buf) + 1
      BY <1>0, <1>5, <1>9
    <2>2. j + d \in DOMAIN hub.buf /\ hub'.buf[j] = hub.buf[j + d]
      BY <2>1, <1>6
    <2>3. CASE k + d = Len(hub.buf) + 1
      BY <2>2, <2>3, <1>3, <1>7, <1>9
    <2>4. CASE k + d # Len(hub.buf) + 1
      <3>1. k + d \in DOMAIN hub.buf /\ hub'.buf[k] = hub.buf[k + d]
        BY <1>6, <2>4
      <3> QED BY <3>1, <2>1, <2>2, <1>9 DEF ResultIsLast
    <2> QED BY <2>3, <2>4
  <1> QED BY <1>4, <1>8, <1>9 DEF Line, ResultIsLast

LEMMA CalmView ==
    ASSUME LaneInv, NEW c \in Turns, Line(c), NEW v \in Viewers, Calm!Viewing(v) \/ Calm!ViewBreaks(v) \/ Calm!ViewAgain(v)
    PROVE  Line(c)' /\ hub'.buf = hub.buf
  <1>1. UNCHANGED <<task, call, run, wire, finishing>>
    BY DEF Calm!Viewing, Calm!ViewRead, Calm!ViewSubscribe, Calm!ViewReceive, Calm!ViewBreaks, Calm!ViewAgain, Calm!guestVars
  <1>2. \E b : hub' \in {[hub EXCEPT !.reaper = b], [hub EXCEPT !.exists = TRUE, !.reaper = b], hub}
    BY DEF Calm!Viewing, Calm!ViewRead, Calm!ViewSubscribe, Calm!ViewReceive, Calm!ViewBreaks, Calm!ViewAgain
  <1>3. hub'.buf = hub.buf
    <2>1. hub \in Streams(hub.seq)
      BY ViewTyped
    <2> QED BY <1>2, <2>1 DEF Streams
  <1>4. Others(c)' /\ Stage(c)'
    BY <1>1 DEF Line, Others, Stage
  <1> QED BY <1>1, <1>3, <1>4, LineStays

LEMMA CalmKeeps ==
    ASSUME LaneInv, CalmStep, NEW c \in Turns, Line(c), ResultIsLast
    PROVE  (\E d \in Turns : Line(d)') /\ ResultIsLast'
  <1>0. hub'.buf = hub.buf => ResultIsLast'
    BY DEF ResultIsLast
  <1>1. CASE \E t \in Turns : Calm!Handler(t)
    <2>1. PICK t \in Turns : Calm!Handler(t)
      BY <1>1
    <2>2. hub'.buf = hub.buf
      <3>1. hub' = hub \/ hub' = [hub EXCEPT !.exists = TRUE, !.terminal = FALSE, !.turnStart = hub.seq, !.reaper = FALSE]
        BY <2>1 DEF Calm!Handler, Calm!CreateInsert, Calm!CreateMark, Calm!MessageRead, Calm!Dispatch, Calm!DispatchFails, Calm!Refused,
           Calm!MessageReopen, Calm!MessageRestart, Calm!hubVars
      <3>2. hub \in Streams(hub.seq)
        BY ViewTyped
      <3> QED BY <3>1, <3>2 DEF Streams
    <2> QED BY <2>1, <2>2, <1>0, CalmHandler
  <1>2. CASE \E t \in Turns : Calm!Guest(t)
    BY <1>2, <1>0, CalmGuest
  <1>3. CASE Calm!CancelRead \/ Calm!CancelLands
    BY <1>3, <1>0, CalmCancel
  <1>4. CASE Calm!Handle
    BY <1>4, <1>0, CalmEvent, CalmDone DEF Calm!Handle
  <1>5. CASE \E f \in finishing : Calm!PublishResult(f)
    BY <1>5, CalmResult
  <1>6. CASE \E v \in Viewers : Calm!Viewing(v) \/ Calm!ViewBreaks(v) \/ Calm!ViewAgain(v)
    BY <1>6, <1>0, CalmView
  <1>7. ~Calm!Reap /\ ~Calm!Restart
    <2>1. restarts \in 0 .. MaxRestarts /\ MaxRestarts \in Nat
      BY LaneAssumption DEF LaneInv, TypeOK
    <2>2. ~(restarts < 0)
      BY <2>1
    <2> QED BY <2>2 DEF Calm!Reap, Calm!Restart
  <1>8. Calm!Turns = Turns
    BY DEF Calm!Turns, Turns
  <1> QED BY <1>1, <1>2, <1>3, <1>4, <1>5, <1>6, <1>7, <1>8 DEF CalmStep, Calm!Next

\* The invariant of both instances.
WholeLane == LaneInv /\ (calm => ResultIsLast /\ \E c \in Turns : Line(c))

LEMMA WholeBegins == ASSUME MCInit PROVE WholeLane
  <1>1. Init /\ LaneInv
    BY LaneBegins DEF MCInit
  <1>2. ResultIsLast
    BY <1>1 DEF Init, NoStream, ResultIsLast
  <1>3. 1 \in Turns
    BY LaneAssumption DEF Turns
  <1>4. Line(1)
    <2>1. /\ task.status = "none" /\ wire = <<>> /\ finishing = {} /\ hub.buf = <<>>
          /\ \A s \in Turns : call[s] = "new" /\ run[s].pc = "none"
      BY <1>1 DEF Init, NoStream, NoRun
    <2>2. Others(1) /\ Stage(1)
      BY <1>3, <2>1 DEF Others, Stage, Ended
    <2>3. OnWire(1) /\ Closed(1)
      BY <2>1 DEF OnWire, Closed
    <2> QED BY <2>2, <2>3 DEF Line
  <1> QED BY <1>1, <1>2, <1>3, <1>4 DEF WholeLane

LEMMA WholeStays == ASSUME WholeLane, Room \/ Roomy, [CalmStep \/ RoughStep]_MCVars PROVE WholeLane'
  <1>0. LaneInv /\ TypeOK
    BY DEF WholeLane, LaneInv
  <1>1. CASE CalmStep
    <2>1. LaneInv'
      BY <1>0, <1>1, CalmMoves, MovesKeep
    <2>2. calm /\ calm' = calm
      BY <1>1 DEF CalmStep
    <2>3. PICK c \in Turns : Line(c)
      BY <2>2 DEF WholeLane
    <2>4. (\E d \in Turns : Line(d)') /\ ResultIsLast'
      BY <1>0, <1>1, <2>2, <2>3, CalmKeeps DEF WholeLane
    <2>5. Turns' = Turns
      BY DEF Turns
    <2> QED BY <2>1, <2>4, <2>5 DEF WholeLane
  <1>2. CASE RoughStep
    <2>1. LaneInv'
      BY <1>0, <1>2, RoughMoves, MovesKeep
    <2> QED BY <2>1, <1>2 DEF WholeLane, RoughStep
  <1>3. CASE UNCHANGED MCVars
    <2>1. UNCHANGED <<task, call, run, registry, cancel, wire, finishing, hub, reopened, view, restarts, calm>>
      BY <1>3 DEF MCVars, vars, guestVars, hubVars
    <2>2. LaneInv'
      <3>1. TypeOK' /\ Sorted' /\ Fresh'
        BY <2>1, <1>0 DEF LaneInv, TypeOK, Sorted, Fresh
      <3>2. Counted' /\ NothingMissed'
        BY <2>1, <1>0 DEF LaneInv, Counted, Sent, NothingMissed, Larger
      <3> QED BY <3>1, <3>2 DEF LaneInv
    <2>3. \A c \in Turns : Line(c) => Line(c)'
      BY <2>1 DEF Line, Others, OnWire, Stage, Closed
    <2>4. ResultIsLast => ResultIsLast'
      BY <2>1 DEF ResultIsLast
    <2>5. Turns' = Turns
      BY DEF Turns
    <2> QED BY <2>1, <2>2, <2>3, <2>4, <2>5 DEF WholeLane
  <1> QED BY <1>1, <1>2, <1>3

LEMMA WholeIsSound == ASSUME WholeLane PROVE LaneSound
  <1>1. TypeOK /\ NothingMissed
    BY DEF WholeLane, LaneInv
  <1>2. OneRunAtATime
    <2> SUFFICES ASSUME calm PROVE OneRun
      BY DEF OneRunAtATime
    <2>1. PICK c \in Turns : Line(c)
      BY DEF WholeLane
    <2>2. \A s \in Turns : run[s].pc = "working" => s = c
      BY <2>1 DEF Line, Others, Ended
    <2> QED BY <2>2 DEF OneRun
  <1>3. ResultCloses
    BY DEF WholeLane, ResultCloses
  <1> QED BY <1>1, <1>2, <1>3 DEF LaneSound

\* Whatever is lost, and over any restarts, what the ring of a task holds beyond
\* what a connected client was sent is on its way to that client (Hub.Publish,
\* Subscribe), as long as no subscription is full; and if nothing is lost, the guest
\* has one run of a task at a time and no frame of a run follows its result.
THEOREM LaneIsSound == MCSpec /\ []Room => []LaneSound
  <1>1. MCInit => WholeLane
    BY WholeBegins
  <1>2. WholeLane /\ Room /\ [CalmStep \/ RoughStep]_MCVars => WholeLane'
    BY WholeStays
  <1>3. WholeLane => LaneSound
    BY WholeIsSound
  <1> QED BY <1>1, <1>2, <1>3, PTL DEF MCSpec

\* The same of the run, whose subscriptions have room for all frames of its turns:
\* none is ever full, since no notification of a run is published twice.
THEOREM RoomyLaneIsSound == ASSUME Roomy PROVE MCSpec => []LaneSound
  <1>1. MCInit => WholeLane
    BY WholeBegins
  <1>2. WholeLane /\ [CalmStep \/ RoughStep]_MCVars => WholeLane'
    BY WholeStays
  <1>3. WholeLane => LaneSound
    BY WholeIsSound
  <1> QED BY <1>1, <1>2, <1>3, PTL DEF MCSpec
=============================================================================
