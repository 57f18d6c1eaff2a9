--------------------------- MODULE ControlConnProofs ---------------------------
(***************************************************************************)
(* Answers reach the request they are for, and nobody is forgotten, for    *)
(* any number of calls. The invariant says who owns an id: whatever        *)
(* carries an id of an end (a frame, a job of the peer, a waiter, a call   *)
(* about to write) names the call that the end gave that id to. Ids are    *)
(* never given twice, so an answer and the waiter it finds name the same   *)
(* call.                                                                   *)
(***************************************************************************)
EXTENDS MCChannel, TLAPS

\* i is an id among those issued and was given to call c.
Owns(ids, i, c) == i \in 1 .. Len(ids) /\ ids[i] = c

\* The end that gave a frame on its way to e its id.
Issuer(e, f) == IF f.kind = "req" THEN Peer(e) ELSE e

FramesOwned == \A e \in Ends : \A k \in 1 .. Len(wire[e]) :
                  Owns(issued[Issuer(e, wire[e][k])], wire[e][k].id, wire[e][k].body)
JobsOwned == \A e \in Ends : \A j \in handling[e] : Owns(issued[Peer(e)], j.id, j.body)
WaitersOwned == \A e \in Ends : \A w \in waiters[e] : Owns(issued[e], w.id, w.call) /\ w.call \in Requests
CallsOwned == \A c \in Calls :
                /\ pc[c] \in {"write", "wait", "leave"} => Owns(issued[EndOf(c)], id[c], c)
                /\ pc[c] = "idle" => box[c] = "empty"
                /\ pc[c] \in {"wait", "leave"} => c \in Requests
BoxesOwned == \A c \in Calls : box[c] = "full" => reply[c] = c

\* A request that is about to write and whose channel is empty has its entry, too.
Entered == \A c \in Requests : pc[c] \in {"write", "wait"} /\ box[c] = "empty" =>
                [id |-> id[c], call |-> c] \in waiters[EndOf(c)]
NoneWhenClosed == \A e \in Ends : closed[e] => waiters[e] = {}

ConnInv == /\ TypeOK /\ FramesOwned /\ JobsOwned /\ WaitersOwned /\ CallsOwned /\ BoxesOwned
           /\ WaitersAreCalls /\ Entered /\ NoneWhenClosed /\ ReplyToOwn

-----------------------------------------------------------------------------
\* The two ends are each other's peers.
LEMMA EndFacts ==
    /\ \A e \in Ends : Peer(e) \in Ends /\ Peer(e) # e /\ Peer(Peer(e)) = e
    /\ \A c : EndOf(c) \in Ends
  BY DEF Ends, Peer, EndOf

\* What an end has issued stays issued when it issues another id (Issue).
LEMMA IssueKeeps ==
    ASSUME TypeOK, NEW c \in Calls, Issue(c)
    PROVE  /\ \A e \in Ends : \A i, d : Owns(issued[e], i, d) => Owns(issued'[e], i, d)
           /\ Owns(issued'[EndOf(c)], id'[c], c)
           /\ issued' \in [Ends -> Seq(Calls)]
           /\ id' \in [Calls -> Nat] /\ id'[c] = Len(issued[EndOf(c)]) + 1
           /\ \A d \in Calls \ {c} : id'[d] = id[d]
  <1>1. issued \in [Ends -> Seq(Calls)] /\ id \in [Calls -> Nat] /\ EndOf(c) \in Ends
    BY EndFacts DEF TypeOK
  <1>2. /\ \A e \in Ends \ {EndOf(c)} : issued'[e] = issued[e]
        /\ issued'[EndOf(c)] = Append(issued[EndOf(c)], c)
        /\ issued' \in [Ends -> Seq(Calls)]
    BY <1>1 DEF Issue
  <1>3. /\ Len(issued'[EndOf(c)]) = Len(issued[EndOf(c)]) + 1
        /\ \A i \in 1 .. Len(issued[EndOf(c)]) : issued'[EndOf(c)][i] = issued[EndOf(c)][i]
        /\ issued'[EndOf(c)][Len(issued[EndOf(c)]) + 1] = c
    BY <1>1, <1>2
  <1>4. id' \in [Calls -> Nat] /\ id'[c] = Len(issued[EndOf(c)]) + 1 /\ \A d \in Calls \ {c} : id'[d] = id[d]
    BY <1>1 DEF Issue
  <1>5. \A e \in Ends : Len(issued[e]) \in Nat
    BY <1>1
  <1>6. \A e \in Ends : \A i, d : Owns(issued[e], i, d) => Owns(issued'[e], i, d)
    <2> SUFFICES ASSUME NEW e \in Ends, NEW i, NEW d, Owns(issued[e], i, d)
                 PROVE  Owns(issued'[e], i, d)
      OBVIOUS
    <2>1. CASE e # EndOf(c)
      BY <1>2, <2>1
    <2>2. CASE e = EndOf(c)
      BY <1>1, <1>3, <1>5, <2>2 DEF Owns
    <2> QED BY <2>1, <2>2
  <1>7. Owns(issued'[EndOf(c)], id'[c], c)
    BY <1>1, <1>3, <1>4, <1>5 DEF Owns
  <1> QED BY <1>2, <1>4, <1>6, <1>7

\* Appending an owned frame keeps the wire owned (Write, Respond).
LEMMA SendKeeps ==
    ASSUME TypeOK, FramesOwned, NEW e \in Ends, NEW f \in Frame, Owns(issued[Issuer(e, f)], f.id, f.body),
           wire' = [wire EXCEPT ![e] = Append(@, f)], issued' = issued
    PROVE  FramesOwned' /\ wire' \in [Ends -> Seq(Frame)]
  <1>1. wire \in [Ends -> Seq(Frame)]
    BY DEF TypeOK
  <1>2. wire' \in [Ends -> Seq(Frame)] /\ wire'[e] = Append(wire[e], f) /\ \A d \in Ends \ {e} : wire'[d] = wire[d]
    BY <1>1
  <1>3. /\ Len(wire'[e]) = Len(wire[e]) + 1 /\ wire'[e][Len(wire[e]) + 1] = f
        /\ \A k \in 1 .. Len(wire[e]) : wire'[e][k] = wire[e][k]
        /\ Len(wire[e]) \in Nat
    BY <1>1, <1>2
  <1>4. ASSUME NEW d \in Ends, NEW k \in 1 .. Len(wire'[d])
        PROVE  Owns(issued[Issuer(d, wire'[d][k])], wire'[d][k].id, wire'[d][k].body)
    <2>1. CASE d # e
      BY <1>2, <1>4, <2>1 DEF FramesOwned, Owns, Issuer
    <2>2. CASE d = e /\ k \in 1 .. Len(wire[e])
      BY <1>3, <2>2 DEF FramesOwned, Owns, Issuer
    <2>3. CASE d = e /\ k = Len(wire[e]) + 1
      BY <1>3, <2>3 DEF Owns, Issuer
    <2> QED BY <1>3, <1>4, <2>1, <2>2, <2>3
  <1> QED BY <1>2, <1>4 DEF FramesOwned, Owns, Issuer

\* Taking the first frame keeps the wire owned, and the frame was (the read loop).
LEMMA ReadKeeps ==
    ASSUME TypeOK, FramesOwned, NEW e \in Ends, wire[e] # <<>>,
           wire' = [wire EXCEPT ![e] = Tail(@)], issued' = issued
    PROVE  /\ FramesOwned' /\ wire' \in [Ends -> Seq(Frame)]
           /\ Head(wire[e]) \in Frame
           /\ Owns(issued[Issuer(e, Head(wire[e]))], Head(wire[e]).id, Head(wire[e]).body)
  <1>1. wire \in [Ends -> Seq(Frame)]
    BY DEF TypeOK
  <1>2. wire[e] \in Seq(Frame) /\ Len(wire[e]) \in Nat /\ Len(wire[e]) > 0
    BY <1>1
  <1>3. Head(wire[e]) = wire[e][1] /\ Head(wire[e]) \in Frame
    BY <1>2
  <1>4. wire' \in [Ends -> Seq(Frame)] /\ wire'[e] = Tail(wire[e]) /\ \A d \in Ends \ {e} : wire'[d] = wire[d]
    BY <1>1, <1>2
  <1>5. Len(wire'[e]) = Len(wire[e]) - 1 /\ \A k \in 1 .. Len(wire'[e]) : wire'[e][k] = wire[e][k + 1]
    BY <1>2, <1>4
  <1>6. Owns(issued[Issuer(e, Head(wire[e]))], Head(wire[e]).id, Head(wire[e]).body)
    BY <1>2, <1>3 DEF FramesOwned
  <1>7. ASSUME NEW d \in Ends, NEW k \in 1 .. Len(wire'[d])
        PROVE  Owns(issued[Issuer(d, wire'[d][k])], wire'[d][k].id, wire'[d][k].body)
    <2>1. CASE d # e
      BY <1>4, <1>7, <2>1 DEF FramesOwned, Owns, Issuer
    <2>2. CASE d = e
      <3>1. k + 1 \in 1 .. Len(wire[e]) /\ wire'[d][k] = wire[e][k + 1]
        BY <1>2, <1>5, <1>7, <2>2
      <3>2. Owns(issued[Issuer(e, wire[e][k + 1])], wire[e][k + 1].id, wire[e][k + 1].body)
        BY <3>1 DEF FramesOwned
      <3> QED BY <2>2, <3>1, <3>2
    <2> QED BY <2>1, <2>2
  <1>8. FramesOwned'
    BY <1>7 DEF FramesOwned, Issuer
  <1> QED BY <1>3, <1>4, <1>6, <1>8

-----------------------------------------------------------------------------
\* A step of a call that gives it an id keeps what is owned, owned (Request and
\* Notify).
LEMMA IssueOwned ==
    ASSUME ConnInv, NEW c \in Calls, pc[c] = "idle", Issue(c),
           UNCHANGED <<link, wire, closed, handling, box, reply, result>>
    PROVE  /\ FramesOwned' /\ JobsOwned' /\ CallsOwned' /\ BoxesOwned' /\ ReplyToOwn'
           /\ \A e \in Ends : \A w \in waiters[e] : Owns(issued'[e], w.id, w.call) /\ w.call \in Requests \ {c}
           /\ pc' \in [Calls -> {"idle", "write", "wait", "leave", "over"}]
           /\ pc'[c] = "write" /\ \A d \in Calls \ {c} : pc'[d] = pc[d]
  <1> USE DEF ConnInv
  <1>1. /\ pc' \in [Calls -> {"idle", "write", "wait", "leave", "over"}]
        /\ pc'[c] = "write" /\ \A d \in Calls \ {c} : pc'[d] = pc[d]
    BY DEF TypeOK, Issue
  <1>2. /\ \A e \in Ends : \A i, d : Owns(issued[e], i, d) => Owns(issued'[e], i, d)
        /\ Owns(issued'[EndOf(c)], id'[c], c)
        /\ \A d \in Calls \ {c} : id'[d] = id[d]
    BY IssueKeeps
  <1>3. FramesOwned'
    <2>1. \A e \in Ends : \A k \in 1 .. Len(wire[e]) : Issuer(e, wire[e][k]) \in Ends
      BY EndFacts DEF Issuer
    <2> QED BY <1>2, <2>1 DEF FramesOwned, Issuer
  <1>4. JobsOwned'
    BY <1>2, EndFacts DEF JobsOwned
  <1>5. CallsOwned'
    BY <1>1, <1>2, EndFacts DEF CallsOwned
  <1>6. BoxesOwned' /\ ReplyToOwn'
    BY DEF BoxesOwned, ReplyToOwn
  <1>7. \A e \in Ends : \A w \in waiters[e] : Owns(issued'[e], w.id, w.call) /\ w.call \in Requests \ {c}
    BY <1>2 DEF WaitersOwned, WaitersAreCalls
  <1> QED BY <1>1, <1>3, <1>4, <1>5, <1>6, <1>7

\* The invariant holds in every state.
THEOREM ConnInvariant == Spec => []ConnInv
  <1>1. Init => ConnInv
    <2> SUFFICES ASSUME Init PROVE ConnInv
      OBVIOUS
    <2>1. TypeOK
      BY DEF Init, TypeOK
    <2>2. FramesOwned /\ JobsOwned /\ WaitersOwned /\ CallsOwned /\ BoxesOwned
      BY DEF Init, FramesOwned, JobsOwned, WaitersOwned, CallsOwned, BoxesOwned
    <2>3. WaitersAreCalls /\ Entered /\ NoneWhenClosed /\ ReplyToOwn
      BY DEF Init, WaitersAreCalls, Entered, NoneWhenClosed, ReplyToOwn, Requests, Calls
    <2> QED BY <2>1, <2>2, <2>3 DEF ConnInv
  <1>2. ConnInv /\ [Next]_vars => ConnInv'
    <2> SUFFICES ASSUME ConnInv, [Next]_vars PROVE ConnInv'
      OBVIOUS
    <2> USE DEF ConnInv
    <2>1. ASSUME NEW c \in Calls, Request(c) PROVE ConnInv'
      <3> DEFINE new == [id |-> Len(issued[EndOf(c)]) + 1, call |-> c]
      <3>1. /\ FramesOwned' /\ JobsOwned' /\ CallsOwned' /\ BoxesOwned' /\ ReplyToOwn'
            /\ \A e \in Ends : \A w \in waiters[e] : Owns(issued'[e], w.id, w.call) /\ w.call \in Requests \ {c}
            /\ pc' \in [Calls -> {"idle", "write", "wait", "leave", "over"}]
            /\ pc'[c] = "write" /\ \A d \in Calls \ {c} : pc'[d] = pc[d]
        BY <2>1, IssueOwned DEF Request
      <3>2. /\ Owns(issued'[EndOf(c)], id'[c], c)
            /\ issued' \in [Ends -> Seq(Calls)]
            /\ id' \in [Calls -> Nat] /\ id'[c] = Len(issued[EndOf(c)]) + 1
            /\ \A d \in Calls \ {c} : id'[d] = id[d]
        BY <2>1, IssueKeeps DEF Request
      <3>3. EndOf(c) \in Ends /\ new \in Waiter
        BY EndFacts, <3>2 DEF Waiter
      <3>4. /\ waiters'[EndOf(c)] = waiters[EndOf(c)] \cup {new}
            /\ \A e \in Ends \ {EndOf(c)} : waiters'[e] = waiters[e]
            /\ waiters' \in [Ends -> SUBSET Waiter]
        BY <2>1, <3>3 DEF Request, Register, TypeOK
      <3>5. WaitersOwned'
        <4>1. new.id = id'[c] /\ new.call = c /\ c \in Requests
          BY <2>1, <3>2 DEF Request
        <4>2. \A e \in Ends : \A w \in waiters'[e] : w \in waiters[e] \/ (e = EndOf(c) /\ w = new)
          BY <3>4
        <4> HIDE DEF new
        <4> QED BY <3>1, <3>2, <4>1, <4>2 DEF WaitersOwned
      <3>6. TypeOK'
        <4>1. \A e \in Ends : \A w \in waiters'[e] : w.id \in 1 .. Len(issued'[e])
          BY <3>5 DEF WaitersOwned, Owns
        <4> QED BY <2>1, <3>1, <3>2, <3>4, <4>1 DEF TypeOK, Request
      <3>7. WaitersAreCalls'
        <4>1. box[c] = "empty" /\ box' = box
          BY <2>1 DEF Request, CallsOwned
        <4>2. \A e \in Ends : \A w \in waiters[e] : w.call \in Calls \ {c}
          BY <3>1 DEF TypeOK, Waiter
        <4>3. new.id = id'[c] /\ new.call = c
          BY <3>2
        <4>4. \A e \in Ends : \A w \in waiters'[e] : w \in waiters[e] \/ (e = EndOf(c) /\ w = new)
          BY <3>4
        <4> HIDE DEF new
        <4> SUFFICES ASSUME NEW e \in Ends, NEW w \in waiters'[e]
                     PROVE  /\ EndOf(w.call) = e /\ w.id = id'[w.call]
                            /\ pc'[w.call] \in {"write", "wait", "leave"} /\ box'[w.call] = "empty"
          BY DEF WaitersAreCalls
        <4>5. CASE w \in waiters[e]
          <5>1. /\ EndOf(w.call) = e /\ w.id = id[w.call]
                /\ pc[w.call] \in {"write", "wait", "leave"} /\ box[w.call] = "empty"
            BY <4>5 DEF WaitersAreCalls
          <5> QED BY <3>1, <3>2, <4>1, <4>2, <4>5, <5>1
        <4>6. CASE e = EndOf(c) /\ w = new
          BY <3>1, <4>1, <4>3, <4>6
        <4> QED BY <4>4, <4>5, <4>6
      <3>8. Entered'
        <4>1. [id |-> id'[c], call |-> c] \in waiters'[EndOf(c)]
          BY <3>2, <3>4
        <4>2. \A d \in Requests \ {c} : pc'[d] = pc[d] /\ id'[d] = id[d] /\ box' = box
          BY <2>1, <3>1, <3>2 DEF Request, Calls, Requests
        <4>3. \A d \in Requests : waiters[EndOf(d)] \subseteq waiters'[EndOf(d)]
          BY <3>4, EndFacts
        <4> QED BY <4>1, <4>2, <4>3 DEF Entered
      <3>9. NoneWhenClosed'
        BY <2>1, <3>4 DEF Request, NoneWhenClosed
      <3> QED BY <3>1, <3>5, <3>6, <3>7, <3>8, <3>9
    <2>2. ASSUME NEW c \in Calls, Notify(c) PROVE ConnInv'
      <3>1. /\ FramesOwned' /\ JobsOwned' /\ CallsOwned' /\ BoxesOwned' /\ ReplyToOwn'
            /\ \A e \in Ends : \A w \in waiters[e] : Owns(issued'[e], w.id, w.call) /\ w.call \in Requests \ {c}
            /\ pc' \in [Calls -> {"idle", "write", "wait", "leave", "over"}]
            /\ pc'[c] = "write" /\ \A d \in Calls \ {c} : pc'[d] = pc[d]
        BY <2>2, IssueOwned DEF Notify
      <3>2. /\ issued' \in [Ends -> Seq(Calls)] /\ id' \in [Calls -> Nat]
            /\ \A d \in Calls \ {c} : id'[d] = id[d]
        BY <2>2, IssueKeeps DEF Notify
      <3>3. WaitersOwned'
        BY <2>2, <3>1 DEF WaitersOwned, Notify
      <3>4. TypeOK'
        <4>1. \A e \in Ends : \A w \in waiters'[e] : w.id \in 1 .. Len(issued'[e])
          BY <3>3 DEF WaitersOwned, Owns
        <4> QED BY <2>2, <3>1, <3>2, <4>1 DEF TypeOK, Notify
      <3>5. WaitersAreCalls'
        <4>1. \A e \in Ends : \A w \in waiters[e] : w.call \in Calls \ {c}
          BY <3>1 DEF TypeOK, Waiter
        <4> QED BY <2>2, <3>1, <3>2, <4>1 DEF WaitersAreCalls, Notify
      <3>6. Entered'
        <4>1. c \notin Requests /\ Requests \subseteq Calls
          BY <2>2, CallsAssumption DEF Notify, Requests, Calls
        <4> QED BY <2>2, <3>1, <3>2, <4>1 DEF Entered, Notify
      <3>7. NoneWhenClosed'
        BY <2>2 DEF Notify, NoneWhenClosed
      <3> QED BY <3>1, <3>3, <3>4, <3>5, <3>6, <3>7
    <2>3. ASSUME NEW c \in Calls, RequestRefused(c) PROVE ConnInv'
      <3>1. \A d \in Calls : pc'[d] = pc[d] \/ (d = c /\ pc'[d] = "over")
        BY <2>3 DEF RequestRefused, connVars, TypeOK
      <3>2. TypeOK'
        BY <2>3 DEF RequestRefused, connVars, TypeOK
      <3>3. WaitersAreCalls'
        <4>1. \A e \in Ends : \A w \in waiters[e] : w.call \in Calls \ {c}
          <5>1. \A e \in Ends : \A w \in waiters[e] : w.call \in Calls
            BY DEF TypeOK, Waiter
          <5>2. pc[c] = "idle"
            BY <2>3 DEF RequestRefused
          <5> QED BY <5>1, <5>2 DEF WaitersAreCalls
        <4> QED BY <2>3, <3>1, <4>1 DEF RequestRefused, connVars, WaitersAreCalls
      <3>4. FramesOwned' /\ JobsOwned' /\ WaitersOwned' /\ BoxesOwned' /\ NoneWhenClosed' /\ ReplyToOwn'
        BY <2>3 DEF RequestRefused, connVars, FramesOwned, JobsOwned, WaitersOwned, BoxesOwned, NoneWhenClosed, ReplyToOwn, Issuer
      <3>5. CallsOwned' /\ Entered'
        BY <2>3, <3>1 DEF RequestRefused, connVars, CallsOwned, Entered, Calls, Requests
      <3> QED BY <3>2, <3>3, <3>4, <3>5
    <2>4. ASSUME NEW c \in Calls, Write(c) PROVE ConnInv'
      <3> DEFINE f == [kind |-> "req", id |-> id[c], body |-> c]
      <3>1. /\ EndOf(c) \in Ends /\ Peer(EndOf(c)) \in Ends /\ Peer(Peer(EndOf(c))) = EndOf(c)
            /\ Owns(issued[EndOf(c)], id[c], c) /\ f \in Frame
        BY <2>4, EndFacts DEF Write, connVars, CallsOwned, Frame, TypeOK
      <3>2. FramesOwned' /\ wire' \in [Ends -> Seq(Frame)]
        <4>1. CASE wire' = wire
          BY <2>4, <4>1 DEF Write, connVars, FramesOwned, Issuer, TypeOK
        <4>2. CASE wire' = [wire EXCEPT ![Peer(EndOf(c))] = Append(@, f)]
          <5>1. Issuer(Peer(EndOf(c)), f) = EndOf(c)
            BY <3>1 DEF Issuer
          <5> HIDE DEF f
          <5>2. f.id = id[c] /\ f.body = c
            BY DEF f
          <5> QED BY <2>4, <3>1, <4>2, <5>1, <5>2, SendKeeps DEF Write, connVars
        <4> QED BY <2>4, <4>1, <4>2 DEF Write
      <3>3. /\ \A d \in Calls \ {c} : pc'[d] = pc[d]
            /\ pc'[c] \in {"wait", "leave", "over"}
            /\ pc'[c] = "over" <=> c \in Notes
            /\ pc' \in [Calls -> {"idle", "write", "wait", "leave", "over"}]
        BY <2>4 DEF Write, connVars, TypeOK
      <3>4. TypeOK'
        BY <2>4, <3>2, <3>3 DEF Write, connVars, TypeOK
      <3>5. JobsOwned' /\ WaitersOwned' /\ BoxesOwned' /\ NoneWhenClosed' /\ ReplyToOwn'
        BY <2>4 DEF Write, connVars, JobsOwned, WaitersOwned, BoxesOwned, NoneWhenClosed, ReplyToOwn
      <3>6. CallsOwned'
        <4>1. c \in Notes \/ c \in Requests
          BY DEF Calls, Requests
        <4> QED BY <2>4, <3>1, <3>3, <4>1 DEF Write, connVars, CallsOwned
      <3>7. WaitersAreCalls'
        <4>1. \A e \in Ends : \A w \in waiters[e] : w.call \in Calls /\ w.call \notin Notes
          BY CallsAssumption DEF TypeOK, Waiter, WaitersOwned, Requests
        <4> QED BY <2>4, <3>3, <4>1 DEF Write, connVars, WaitersAreCalls
      <3>8. Entered'
        BY <2>4, <3>3 DEF Write, connVars, Entered, Calls, Requests
      <3> QED BY <3>2, <3>4, <3>5, <3>6, <3>7, <3>8
    <2>5. ASSUME NEW c \in Calls, Receive(c) \/ TimeOut(c) PROVE ConnInv'
      <3>1. /\ \A d \in Calls \ {c} : pc'[d] = pc[d] /\ result'[d] = result[d]
            /\ pc[c] = "wait" /\ pc'[c] = "leave"
            /\ result'[c] \in {result[c], None} \/ (box[c] = "full" /\ result'[c] = reply[c])
            /\ pc' \in [Calls -> {"idle", "write", "wait", "leave", "over"}]
            /\ result' \in [Calls -> Calls \cup {None}]
            /\ UNCHANGED <<link, wire, connVars, handling, id, box, reply>>
        BY <2>5 DEF Receive, TimeOut, TypeOK
      <3>2. TypeOK'
        BY <3>1 DEF TypeOK, connVars
      <3>3. FramesOwned' /\ JobsOwned' /\ WaitersOwned' /\ BoxesOwned' /\ NoneWhenClosed'
        BY <3>1 DEF connVars, FramesOwned, JobsOwned, WaitersOwned, BoxesOwned, NoneWhenClosed, Issuer
      <3>4. CallsOwned' /\ Entered'
        BY <3>1 DEF connVars, CallsOwned, Entered, Calls, Requests
      <3>5. WaitersAreCalls'
        <4>1. \A e \in Ends : \A w \in waiters[e] : w.call \in Calls
          BY DEF TypeOK, Waiter
        <4> QED BY <3>1, <4>1 DEF connVars, WaitersAreCalls
      <3>6. ReplyToOwn'
        BY <3>1 DEF ReplyToOwn, BoxesOwned
      <3> QED BY <3>2, <3>3, <3>4, <3>5, <3>6
    <2>6. ASSUME NEW c \in Calls, Leave(c) PROVE ConnInv'
      <3>1. /\ \A d \in Calls \ {c} : pc'[d] = pc[d]
            /\ pc[c] = "leave" /\ pc'[c] = "over"
            /\ pc' \in [Calls -> {"idle", "write", "wait", "leave", "over"}]
            /\ EndOf(c) \in Ends
        BY <2>6, EndFacts DEF Leave, TypeOK
      <3>2. /\ waiters'[EndOf(c)] = {w \in waiters[EndOf(c)] : w.id # id[c]}
            /\ \A e \in Ends \ {EndOf(c)} : waiters'[e] = waiters[e]
            /\ waiters' \in [Ends -> SUBSET Waiter]
        BY <2>6, <3>1 DEF Leave, TypeOK
      <3>3. \A e \in Ends : waiters'[e] \subseteq waiters[e]
        BY <3>2
      <3>4. TypeOK'
        BY <2>6, <3>1, <3>2, <3>3 DEF Leave, TypeOK
      <3>5. FramesOwned' /\ JobsOwned' /\ WaitersOwned' /\ BoxesOwned' /\ NoneWhenClosed' /\ ReplyToOwn'
        BY <2>6, <3>3 DEF Leave, FramesOwned, JobsOwned, WaitersOwned, BoxesOwned, NoneWhenClosed, ReplyToOwn, Issuer
      <3>6. CallsOwned'
        BY <2>6, <3>1 DEF Leave, CallsOwned
      <3>7. WaitersAreCalls'
        <4>1. \A e \in Ends : \A w \in waiters'[e] : w.call \in Calls \ {c}
          BY <3>2, <3>3 DEF WaitersAreCalls, TypeOK, Waiter
        <4> QED BY <2>6, <3>1, <3>3, <4>1 DEF Leave, WaitersAreCalls
      <3>8. Entered'
        <4> SUFFICES ASSUME NEW d \in Requests, pc'[d] \in {"write", "wait"}, box'[d] = "empty"
                     PROVE  [id |-> id'[d], call |-> d] \in waiters'[EndOf(d)]
          BY DEF Entered
        <4>1. d \in Calls \ {c} /\ pc[d] \in {"write", "wait"} /\ id' = id /\ box' = box
          BY <2>6, <3>1 DEF Leave, Calls, Requests
        <4>2. [id |-> id[d], call |-> d] \in waiters[EndOf(d)] /\ EndOf(d) \in Ends
          BY <4>1, EndFacts DEF Entered
        <4>3. Owns(issued[EndOf(d)], id[d], d) /\ Owns(issued[EndOf(c)], id[c], c)
          BY <3>1, <4>1 DEF CallsOwned
        <4>4. EndOf(d) = EndOf(c) => id[d] # id[c]
          BY <4>1, <4>3 DEF Owns
        <4> QED BY <3>2, <4>1, <4>2, <4>4
      <3> QED BY <3>4, <3>5, <3>6, <3>7, <3>8
    <2>7. ASSUME NEW e \in Ends, ReadRequest(e) PROVE ConnInv'
      <3> DEFINE f == Head(wire[e])
                 j == [id |-> f.id, body |-> f.body]
      <3>1. /\ FramesOwned' /\ wire' \in [Ends -> Seq(Frame)] /\ f \in Frame
            /\ Owns(issued[Issuer(e, f)], f.id, f.body)
        BY <2>7, ReadKeeps DEF ReadRequest, connVars
      <3>2. f.kind = "req" /\ Issuer(e, f) = Peer(e) /\ j \in Job
        BY <2>7, <3>1 DEF ReadRequest, Issuer, Frame, Job
      <3>3. /\ handling'[e] = handling[e] \cup {j} /\ \A d \in Ends \ {e} : handling'[d] = handling[d]
            /\ handling' \in [Ends -> SUBSET Job]
        BY <2>7, <3>2 DEF ReadRequest, TypeOK
      <3>4. UNCHANGED <<link, issued, waiters, closed, pc, id, box, reply, result>>
        BY <2>7 DEF ReadRequest, connVars, callVars
      <3>5. JobsOwned'
        <4>1. Owns(issued[Peer(e)], j.id, j.body)
          BY <3>1, <3>2
        <4> HIDE DEF j
        <4> QED BY <3>3, <3>4, <4>1 DEF JobsOwned
      <3>6. TypeOK'
        BY <3>1, <3>3, <3>4 DEF TypeOK
      <3>7. WaitersOwned' /\ CallsOwned' /\ BoxesOwned' /\ WaitersAreCalls' /\ Entered' /\ NoneWhenClosed' /\ ReplyToOwn'
        BY <3>4 DEF WaitersOwned, CallsOwned, BoxesOwned, WaitersAreCalls, Entered, NoneWhenClosed, ReplyToOwn
      <3> QED BY <3>1, <3>5, <3>6, <3>7
    <2>8. ASSUME NEW e \in Ends, ReadReply(e) PROVE ConnInv'
      <3> DEFINE f == Head(wire[e])
                 to == {w \in waiters[e] : w.id = f.id}
      <3>1. /\ FramesOwned' /\ wire' \in [Ends -> Seq(Frame)] /\ f \in Frame
            /\ Owns(issued[Issuer(e, f)], f.id, f.body)
        BY <2>8, ReadKeeps DEF ReadReply
      <3>2. Owns(issued[e], f.id, f.body) /\ f.body \in Calls
        BY <2>8, <3>1 DEF ReadReply, Issuer, Frame
      <3>3. \A w \in to : w.call = f.body /\ w \in waiters[e]
        BY <3>2 DEF WaitersOwned, Owns
      <3>4. /\ waiters'[e] = waiters[e] \ to /\ \A d \in Ends \ {e} : waiters'[d] = waiters[d]
            /\ waiters' \in [Ends -> SUBSET Waiter]
        BY <2>8 DEF ReadReply, TypeOK
      <3>5. /\ box' = [c \in Calls |-> IF \E w \in to : w.call = c THEN "full" ELSE box[c]]
            /\ reply' = [c \in Calls |-> IF \E w \in to : w.call = c THEN f.body ELSE reply[c]]
            /\ UNCHANGED <<link, issued, closed, handling, pc, id, result>>
        BY <2>8 DEF ReadReply
      <3> HIDE DEF f
      <3>6. /\ box' \in [Calls -> {"empty", "full", "closed"}] /\ reply' \in [Calls -> Calls \cup {None}]
            /\ \A c \in Calls : (\E w \in to : w.call = c) => box'[c] = "full" /\ reply'[c] = c
            /\ \A c \in Calls : (~ \E w \in to : w.call = c) => box'[c] = box[c] /\ reply'[c] = reply[c]
        BY <3>2, <3>3, <3>5 DEF TypeOK
      <3>7. TypeOK'
        BY <3>1, <3>4, <3>5, <3>6 DEF TypeOK
      <3>8. JobsOwned' /\ WaitersOwned' /\ NoneWhenClosed' /\ ReplyToOwn'
        BY <3>4, <3>5 DEF JobsOwned, WaitersOwned, NoneWhenClosed, ReplyToOwn
      <3>9. BoxesOwned'
        BY <3>6 DEF BoxesOwned
      <3>10. CallsOwned'
        <4>1. \A w \in to : pc[w.call] \in {"write", "wait", "leave"}
          BY <3>3 DEF WaitersAreCalls
        <4> HIDE DEF to
        <4> QED BY <3>5, <3>6, <4>1 DEF CallsOwned
      <3>11. WaitersAreCalls'
        <4> SUFFICES ASSUME NEW d \in Ends, NEW w \in waiters'[d]
                     PROVE  /\ EndOf(w.call) = d /\ w.id = id[w.call]
                            /\ pc[w.call] \in {"write", "wait", "leave"} /\ box'[w.call] = "empty"
          BY <3>5 DEF WaitersAreCalls
        <4>1. w \in waiters[d] /\ w \notin to /\ w.call \in Calls
          BY <3>3, <3>4 DEF TypeOK, Waiter, WaitersAreCalls
        <4>2. /\ EndOf(w.call) = d /\ w.id = id[w.call]
              /\ pc[w.call] \in {"write", "wait", "leave"} /\ box[w.call] = "empty"
          BY <4>1 DEF WaitersAreCalls
        <4>3. ~ \E u \in to : u.call = w.call
          BY <4>1, <4>2 DEF WaitersAreCalls
        <4> QED BY <3>6, <4>1, <4>2, <4>3
      <3>12. Entered'
        <4> SUFFICES ASSUME NEW c \in Requests, pc[c] \in {"write", "wait"}, box'[c] = "empty"
                     PROVE  [id |-> id[c], call |-> c] \in waiters'[EndOf(c)]
          BY <3>5 DEF Entered
        <4>1. c \in Calls /\ EndOf(c) \in Ends
          BY EndFacts DEF Calls, Requests
        <4>2. (~ \E w \in to : w.call = c) /\ box[c] = "empty"
          BY <3>6, <4>1
        <4>3. [id |-> id[c], call |-> c] \in waiters[EndOf(c)]
          BY <4>2 DEF Entered
        <4>4. [id |-> id[c], call |-> c] \notin to
          BY <4>2
        <4> QED BY <3>4, <4>1, <4>3, <4>4
      <3> QED BY <3>1, <3>7, <3>8, <3>9, <3>10, <3>11, <3>12
    <2>9. ASSUME NEW e \in Ends, NEW j \in handling[e], Respond(e, j) PROVE ConnInv'
      <3> DEFINE f == [kind |-> "resp", id |-> j.id, body |-> j.body]
      <3>1. j \in Job /\ f \in Frame /\ Peer(e) \in Ends /\ Owns(issued[Peer(e)], j.id, j.body)
        BY EndFacts DEF TypeOK, Job, Frame, JobsOwned
      <3>2. /\ handling'[e] = handling[e] \ {j} /\ \A d \in Ends \ {e} : handling'[d] = handling[d]
            /\ handling' \in [Ends -> SUBSET Job]
        BY <2>9 DEF Respond, TypeOK
      <3>3. UNCHANGED <<link, issued, waiters, closed, pc, id, box, reply, result>>
        BY <2>9 DEF Respond, connVars, callVars
      <3>4. FramesOwned' /\ wire' \in [Ends -> Seq(Frame)]
        <4>1. CASE wire' = wire
          BY <3>3, <4>1 DEF FramesOwned, Issuer, TypeOK
        <4>2. CASE wire' = [wire EXCEPT ![Peer(e)] = Append(@, f)]
          <5>1. Issuer(Peer(e), f) = Peer(e) /\ f.id = j.id /\ f.body = j.body
            BY DEF Issuer
          <5> HIDE DEF f
          <5> QED BY <3>1, <3>3, <4>2, <5>1, SendKeeps
        <4> QED BY <2>9, <4>1, <4>2 DEF Respond
      <3>5. TypeOK'
        BY <3>2, <3>3, <3>4 DEF TypeOK
      <3>6. JobsOwned'
        BY <3>2, <3>3 DEF JobsOwned
      <3>7. WaitersOwned' /\ CallsOwned' /\ BoxesOwned' /\ WaitersAreCalls' /\ Entered' /\ NoneWhenClosed' /\ ReplyToOwn'
        BY <3>3 DEF WaitersOwned, CallsOwned, BoxesOwned, WaitersAreCalls, Entered, NoneWhenClosed, ReplyToOwn
      <3> QED BY <3>4, <3>5, <3>6, <3>7
    <2>10. ASSUME NEW e \in Ends, Fail(e) PROVE ConnInv'
      <3>1. /\ waiters'[e] = {} /\ \A d \in Ends \ {e} : waiters'[d] = waiters[d]
            /\ waiters' \in [Ends -> SUBSET Waiter]
            /\ closed' \in [Ends -> BOOLEAN] /\ \A d \in Ends \ {e} : closed'[d] = closed[d]
        BY <2>10 DEF Fail, TypeOK
      <3>2. /\ box' \in [Calls -> {"empty", "full", "closed"}]
            /\ \A c \in Calls : (\E w \in waiters[e] : w.call = c) => box'[c] = "closed"
            /\ \A c \in Calls : (~ \E w \in waiters[e] : w.call = c) => box'[c] = box[c]
        BY <2>10 DEF Fail, TypeOK
      <3>3. UNCHANGED <<link, wire, issued, handling, pc, id, reply, result>>
        BY <2>10 DEF Fail
      <3>4. TypeOK'
        BY <3>1, <3>2, <3>3 DEF TypeOK
      <3>5. FramesOwned' /\ JobsOwned' /\ WaitersOwned' /\ NoneWhenClosed' /\ ReplyToOwn'
        BY <3>1, <3>3 DEF FramesOwned, JobsOwned, WaitersOwned, NoneWhenClosed, ReplyToOwn, Issuer
      <3>6. BoxesOwned'
        BY <3>2, <3>3 DEF BoxesOwned
      <3>7. CallsOwned'
        BY <3>2, <3>3 DEF CallsOwned, WaitersAreCalls
      <3>8. WaitersAreCalls'
        <4> SUFFICES ASSUME NEW d \in Ends, NEW w \in waiters'[d]
                     PROVE  /\ EndOf(w.call) = d /\ w.id = id[w.call]
                            /\ pc[w.call] \in {"write", "wait", "leave"} /\ box'[w.call] = "empty"
          BY <3>3 DEF WaitersAreCalls
        <4>1. d # e /\ w \in waiters[d] /\ w.call \in Calls
          BY <3>1 DEF TypeOK, Waiter
        <4>2. /\ EndOf(w.call) = d /\ w.id = id[w.call]
              /\ pc[w.call] \in {"write", "wait", "leave"} /\ box[w.call] = "empty"
          BY <4>1 DEF WaitersAreCalls
        <4>3. ~ \E u \in waiters[e] : u.call = w.call
          BY <4>1, <4>2 DEF WaitersAreCalls
        <4> QED BY <3>2, <4>1, <4>2, <4>3
      <3>9. Entered'
        <4> SUFFICES ASSUME NEW c \in Requests, pc[c] \in {"write", "wait"}, box'[c] = "empty"
                     PROVE  [id |-> id[c], call |-> c] \in waiters'[EndOf(c)]
          BY <3>3 DEF Entered
        <4>1. c \in Calls /\ EndOf(c) \in Ends
          BY EndFacts DEF Calls, Requests
        <4>2. (~ \E w \in waiters[e] : w.call = c) /\ box[c] = "empty"
          BY <3>2, <4>1
        <4>3. [id |-> id[c], call |-> c] \in waiters[EndOf(c)]
          BY <4>2 DEF Entered
        <4> QED BY <3>1, <4>1, <4>2, <4>3
      <3> QED BY <3>4, <3>5, <3>6, <3>7, <3>8, <3>9
    <2>11. CASE Break \/ UNCHANGED vars
      <3>1. link' \in BOOLEAN /\ UNCHANGED <<wire, issued, waiters, closed, handling, pc, id, box, reply, result>>
        BY <2>11 DEF Break, vars, connVars, callVars, TypeOK
      <3>2. TypeOK'
        BY <3>1 DEF TypeOK
      <3>3. FramesOwned' /\ JobsOwned' /\ WaitersOwned' /\ CallsOwned' /\ BoxesOwned'
        BY <3>1 DEF FramesOwned, JobsOwned, WaitersOwned, CallsOwned, BoxesOwned, Issuer
      <3>4. WaitersAreCalls' /\ Entered' /\ NoneWhenClosed' /\ ReplyToOwn'
        BY <3>1 DEF WaitersAreCalls, Entered, NoneWhenClosed, ReplyToOwn
      <3> QED BY <3>2, <3>3, <3>4
    <2> QED
      BY <2>1, <2>2, <2>3, <2>4, <2>5, <2>6, <2>7, <2>8, <2>9, <2>10, <2>11 DEF Next, Call, Reader
  <1> QED BY <1>1, <1>2, PTL DEF Spec

\* Frames, ids, waiters and the goroutines of calls keep their types, for all
\* calls; in particular no waiter is under an id that was not issued.
THEOREM ConnTypes == Spec => []TypeOK
  BY ConnInvariant, PTL DEF ConnInv

\* For all calls, however they are interleaved, time out or break off: what a
\* request returns is the answer to it.
THEOREM AnswersMatch == Spec => []ReplyToOwn
  BY ConnInvariant, PTL DEF ConnInv

\* No entry of waiters outlives its call.
THEOREM NoLeaks == Spec => []WaitersAreCalls
  BY ConnInvariant, PTL DEF ConnInv

\* Nobody waits without an entry, and a failed session has none.
THEOREM NoneForgotten == Spec => []NobodyForgotten
  <1>1. ConnInv => NobodyForgotten
    BY DEF ConnInv, NobodyForgotten, Entered, NoneWhenClosed, CallsOwned
  <1> QED BY <1>1, ConnInvariant, PTL

\* Requests and answers fit together at both ends, for any number of calls.
THEOREM ConnIsSound == Spec => []ConnSound
  BY ConnTypes, AnswersMatch, NoLeaks, NoneForgotten, PTL DEF ConnSound
(***************************************************************************)
(* The same run also has the manager that keeps the channels, on an        *)
(* instance of GuestChannels; its proofs are those of GuestChannelsProofs, *)
(* carried over to the run's specification.                                *)
(***************************************************************************)
MP == INSTANCE GuestChannelsProofs WITH
        Machines <- {"m1", "m2"}, Writers <- {"w1"}, Sups <- {"i1", "i2"}, None <- "none", Buffer <- 3, May <- ManagerMay, MaxWrites <- 3

\* M of the run and MP, the same module with its proofs, mean the same.
LEMMA SameInit == ChannelInit => MP!Init
  BY DEF ChannelInit, M!Init, MP!Init, M!Free, MP!Free, M!Idle, MP!Idle, M!States, MP!States

LEMMA SameSteps == [M!Next]_mvars => [MP!Next]_(MP!vars)
  BY DEF mvars,
      M!Next, MP!Next, M!vars, MP!vars, M!ManagerStep, MP!ManagerStep, M!WriterStep, MP!WriterStep,
      M!SupStep, MP!SupStep, M!rowVars, MP!rowVars, M!mgrVars, MP!mgrVars, M!RunList, MP!RunList,
      M!RunEnsure, MP!RunEnsure, M!RunSubscribe, MP!RunSubscribe, M!RunUpdate, MP!RunUpdate, M!Touch,
      MP!Touch, M!DestroyRead, MP!DestroyRead, M!States, MP!States, M!Commit, MP!Commit, M!DestroyRow,
      MP!DestroyRow, M!Publish, MP!Publish, M!DialSucceeds, MP!DialSucceeds, M!DialFails, MP!DialFails,
      M!SessionEnds, MP!SessionEnds, M!BackoffEnds, MP!BackoffEnds, M!SupervisorExits, MP!SupervisorExits,
      M!Ensure, MP!Ensure, M!Prompt, MP!Prompt, M!DownStates, MP!DownStates, M!Teardown, MP!Teardown,
      M!MayWrite, MP!MayWrite, M!Holds, MP!Holds, M!CanTransition, MP!CanTransition, M!Idle, MP!Idle,
      M!Reachable, MP!Reachable, M!AfterSession, MP!AfterSession, M!Free, MP!Free, M!allowed, MP!allowed

\* The manager keeps one channel per running machine, and one that is up is found,
\* provided that a cancelled supervisor returns before the manager goes on.
THEOREM ManagerKeepsOneChannel ==
    ASSUME ManagerMay \subseteq M!Happenings, "late" \notin ManagerMay
    PROVE  ChannelSpec => []OneChannel
  <1> DEFINE Inv == MP!PromptInv /\ MP!OwnChannel
  <1>0. MP!ChannelsAssumption
    BY DEF MP!ChannelsAssumption, M!Happenings, MP!Happenings
  <1>1. ChannelInit => Inv
    <2>1. MP!Init => MP!OwnChannel
      BY DEF MP!Init, MP!Free, MP!OwnChannel
    <2> QED BY <1>0, <2>1, SameInit, MP!PromptInvInit DEF MP!ChannelsAssumption
  <1>2. Inv /\ [ChannelNext]_all => Inv'
    <2> SUFFICES ASSUME Inv, [ChannelNext]_all PROVE Inv'
      OBVIOUS
    <2>1. [M!Next]_mvars
      BY DEF ChannelNext, ConnStep, ManagerStep, all
    <2> QED BY <1>0, <2>1, SameSteps, MP!PromptInvNext, MP!OwnChannelNext DEF MP!ChannelsAssumption
  <1>3. Inv => OneChannel
    BY DEF MP!PromptInv, MP!OwnChannel, OneChannel, M!OneSupervisor, M!ChannelKnown, M!Serving
  <1> QED BY <1>1, <1>2, <1>3, PTL DEF ChannelSpec
=============================================================================
