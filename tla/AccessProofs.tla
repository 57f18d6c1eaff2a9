---------------------------- MODULE AccessProofs ----------------------------
(***************************************************************************)
(* Theorems about the components that decide who gets in: the gateway, the *)
(* token buckets, the admin console, sessions and tokens, and sign-in.     *)
(* Each part has the sizes it assumes (...Sizes), its inductive invariant  *)
(* (...Inv) and one lemma per action; the last section puts them together  *)
(* for the properties of the run.                                          *)
(***************************************************************************)
EXTENDS MCAccess, Integers, Sequences, TLAPS

-----------------------------------------------------------------------------
(***************************************************************************)
(* The gateway (Gateway, extended), for any sessions, machines, ports and  *)
(* connections.  The invariant is about one connection at a time           *)
(* (Guarded).  A request that has passed the check of its session and is   *)
(* not registered yet is of a session whose closers have not been taken,   *)
(* or was on its way when they were.  Every wire that is open is           *)
(* registered, so the closers that SessionRevoked takes are those of all   *)
(* the open wires, and none is opened after it but by a request that was   *)
(* on its way.  A second invariant (CInv) is about the machines: as        *)
(* long as reads of the row succeed (NoFail), what a request has seen of   *)
(* its machine says how often it was stopped since, and so which close     *)
(* code is true.                                                           *)
(***************************************************************************)
\* The marks for no session and no machine are neither.
Apart == NoSession \notin Sessions /\ "none" \notin Machines

Fields == {"kind", "pc", "sess", "m", "port", "on", "wire", "reg", "end", "code", "offs"}
Shape(r) == r = [f \in Fields |-> r[f]]
TokenOf(r) == [sess |-> r.sess, m |-> r.m, port |-> r.port]
Unregistered == {"auth", "resolved", "machine", "upgrade"}

Tables ==
    /\ conns = [c \in Conns |-> conns[c]]
    /\ sessions \in [Sessions -> {"live", "revoked"}]
    /\ revoking = [s \in Sessions |-> [pc |-> revoking[s].pc, left |-> revoking[s].left, missed |-> revoking[s].missed]]
    /\ cookies = [o \in Origins |-> cookies[o]]

\* Tokens are of owners, cookies are tokens, and only a revoked session has a
\* Revoke under way.
Grants ==
    /\ \A t \in tokens : t = TokenOf(t) /\ t.sess \in Sessions /\ Owner[t.sess] = Owner[t.m]
    /\ \A o \in Origins : cookies[o].m = o[1] => cookies[o] \in tokens
    /\ \A s \in Sessions : revoking[s].pc # "idle" => sessions[s] = "revoked"

\* Revoke has not taken the closers, or they do not include that of c.
NotYetTaken(c, s) == revoking[s].pc \in {"idle", "notify"} \/ c \in revoking[s].missed
\* Revoke has not come to the wire of connection c, if it is open.
NotYetClosed(c, s) == NotYetTaken(c, s) \/ (revoking[s].pc = "close" /\ c \in revoking[s].left)

Guarded(c, r) ==
    /\ Shape(r)
    /\ r.pc = "over" => r.wire # "open"
    /\ r.sess \in Sessions /\ r.pc \in Unregistered => NotYetTaken(c, r.sess)
    /\ r.sess \in Sessions /\ r.wire = "open" => r.reg = TRUE
    /\ r.sess \in Sessions /\ r.wire = "open" => NotYetClosed(c, r.sess)
    /\ r.kind = "web" /\ r.pc # "over" => TokenOf(r) \in tokens

IInv == Tables /\ Grants /\ \A c \in Conns : Guarded(c, conns[c])

-----------------------------------------------------------------------------
\* What the updates of a connection's record do to its fields.

LEMMA UnusedShape == Shape(Unused) /\ Unused.wire = "none" /\ Unused.kind = "none" /\ Unused.pc = "idle" /\ Unused.sess = NoSession
BY DEF Unused, Shape, Fields

LEMMA ClosedFields ==
    ASSUME NEW r, Shape(r), NEW code
    PROVE  LET n == Closed(r, code) IN
           /\ Shape(n) /\ n.wire # "open"
           /\ n.pc = r.pc /\ n.sess = r.sess /\ n.kind = r.kind /\ n.m = r.m /\ n.port = r.port
<1>1. CASE r.wire = "open"
  BY <1>1 DEF Shape, Fields, Closed
<1>2. CASE r.wire # "open"
  BY <1>2 DEF Closed
<1> QED BY <1>1, <1>2

\* A connection whose record is replaced by a sound one leaves the others sound.
LEMMA PutKeeps ==
    ASSUME IInv, NEW c \in Conns, NEW n, Guarded(c, n), Put(c, n), UNCHANGED <<sessions, revoking, tokens, cookies>>
    PROVE  IInv'
<1>1. conns' = [conns EXCEPT ![c] = n]
  BY DEF Put
<1>2. Tables' /\ Grants'
  BY <1>1 DEF IInv, Tables, Grants, TokenOf
<1>3. \A d \in Conns : conns'[d] = IF d = c THEN n ELSE conns[d]
  BY <1>1 DEF IInv, Tables
<1>4. ASSUME NEW d \in Conns PROVE Guarded(d, conns[d])'
  <2>1. Guarded(d, conns'[d])
    BY <1>3 DEF IInv
  <2> QED BY <2>1 DEF Guarded, NotYetTaken, NotYetClosed, Shape, TokenOf, Unregistered
<1> QED BY <1>2, <1>4 DEF IInv

\* The handler refuses, or returns: the wire is closed or was never open.
LEMMA RefuseSound == ASSUME Apart, NEW c \in Conns PROVE Guarded(c, [Unused EXCEPT !.pc = "over"])
<1>1. LET n == [Unused EXCEPT !.pc = "over"] IN Shape(n) /\ n.wire = "none" /\ n.pc = "over" /\ n.sess = NoSession
  BY UnusedShape DEF Shape, Fields
<1> QED BY <1>1 DEF Guarded, Apart

LEMMA RefuseKeeps ==
    ASSUME Apart, IInv, NEW c \in Conns, Refuse(c), UNCHANGED <<sessions, revoking, tokens, cookies>>
    PROVE  IInv'
BY RefuseSound, PutKeeps DEF Refuse

LEMMA OverKeeps ==
    ASSUME Apart, IInv, NEW c \in Conns, NEW end, NEW code, OverBy(c, end, code),
           UNCHANGED <<sessions, revoking, tokens, cookies>>
    PROVE  IInv'
<1> DEFINE r == Closed(conns[c], code)
           n == [r EXCEPT !.pc = "over", !.reg = FALSE, !.sess = NoSession, !.port = 0, !.end = end]
<1>1. Shape(r) /\ r.wire # "open"
  BY ClosedFields DEF IInv, Guarded
<1> HIDE DEF r
<1>2. Shape(n) /\ n.wire # "open" /\ n.pc = "over" /\ n.sess = NoSession
  BY <1>1 DEF Shape, Fields
<1>3. Guarded(c, n)
  BY <1>2 DEF Guarded, Apart
<1>4. Put(c, n)
  BY DEF OverBy, r
<1> QED BY <1>3, <1>4, PutKeeps

\* What a sound connection allows for, when only its step and its end change.
LEMMA StepSound ==
    ASSUME NEW c \in Conns, NEW r, Guarded(c, r), NEW n, Shape(n),
           n.wire = r.wire \/ n.wire # "open", n.reg = r.reg, n.sess = r.sess, n.kind = r.kind, n.m = r.m, n.port = r.port,
           n.pc = r.pc \/ (n.pc \notin Unregistered \cup {"over"} /\ r.pc # "over")
                      \/ (r.pc \in Unregistered /\ n.pc \in Unregistered)
    PROVE  Guarded(c, n)
BY DEF Guarded, NotYetTaken, NotYetClosed, TokenOf, Unregistered

-----------------------------------------------------------------------------
\* The steps of a connection.

LEMMA ConnectionKeeps ==
    ASSUME Apart, IInv, NEW c \in Conns,
           \/ Resolve(c) \/ Accept(c) \/ Dial(c) \/ Handshake(c) \/ GuestEnds(c) \/ Leave(c) \/ ClientEnds(c) \/ Finish(c)
           \/ SessionOwner(c) \/ MachineOwner(c) \/ Hijack(c)
    PROVE  IInv'
<1> DEFINE r == conns[c]
<1>r. Guarded(c, r) /\ Shape(r)
  BY DEF IInv, Guarded
<1>s. UNCHANGED <<sessions, revoking, tokens, cookies>>
  BY DEF Resolve, Accept, Dial, Handshake, GuestEnds, Leave, ClientEnds, Finish, SessionOwner, MachineOwner, Hijack, others
<1>1. CASE Resolve(c)
  <2>1. CASE Refuse(c)
    BY <2>1, <1>s, RefuseKeeps
  <2>2. CASE ~Refuse(c)
    <3> DEFINE n == [r EXCEPT !.pc = "resolved", !.on = FALSE, !.offs = Seen(conns[c].m)]
    <3>1. r.pc = "auth" /\ Put(c, n)
      BY <1>1, <2>2 DEF Resolve, At
    <3>2. Guarded(c, n)
      <4>1. /\ Shape(n) /\ n.pc = "resolved" /\ n.wire = r.wire /\ n.reg = r.reg
            /\ n.sess = r.sess /\ n.kind = r.kind /\ n.m = r.m /\ n.port = r.port
        BY <1>r DEF Shape, Fields
      <4> HIDE DEF n
      <4> QED BY <1>r, <3>1, <4>1, StepSound DEF Unregistered
    <3> QED BY <1>s, <3>1, <3>2, PutKeeps
  <2> QED BY <2>1, <2>2
<1>2. CASE Accept(c)
  <2> DEFINE n == [r EXCEPT !.pc = "dial", !.wire = "open", !.reg = conns[c].sess # NoSession]
  <2>1. r.pc = "resolved" /\ Put(c, n)
    BY <1>2 DEF Accept, At
  <2>2. /\ Shape(n) /\ n.pc = "dial" /\ n.wire = "open" /\ n.reg = (r.sess # NoSession)
        /\ n.sess = r.sess /\ n.kind = r.kind /\ n.m = r.m /\ n.port = r.port
    BY <1>r DEF Shape, Fields
  <2>3. n.sess \in Sessions => NotYetTaken(c, n.sess)
    BY <1>r, <2>1, <2>2 DEF Guarded, Unregistered
  <2>4. Guarded(c, n)
    <3> HIDE DEF n
    <3> QED BY <1>r, <2>1, <2>2, <2>3 DEF Guarded, NotYetTaken, NotYetClosed, TokenOf, Unregistered, Apart
  <2> QED BY <1>s, <2>1, <2>4, PutKeeps
<1>3. CASE Dial(c) \/ Handshake(c)
  <2>1. CASE \E end, code : OverBy(c, end, code)
    BY <1>s, <2>1, OverKeeps
  <2>2. CASE ~\E end, code : OverBy(c, end, code)
    <3>1. PICK pc \in {"handshake", "relay"} : r.pc \in {"dial", "handshake"} /\ Put(c, [r EXCEPT !.pc = pc])
      BY <1>3, <2>2 DEF Dial, Handshake, At, Over
    <3> DEFINE n == [r EXCEPT !.pc = pc]
    <3>2. Guarded(c, n)
      <4>1. /\ Shape(n) /\ n.pc = pc /\ n.wire = r.wire /\ n.reg = r.reg
            /\ n.sess = r.sess /\ n.kind = r.kind /\ n.m = r.m /\ n.port = r.port
        BY <1>r DEF Shape, Fields
      <4> HIDE DEF n
      <4> QED BY <1>r, <3>1, <4>1, StepSound DEF Unregistered
    <3> QED BY <1>s, <3>1, <3>2, PutKeeps
  <2> QED BY <2>1, <2>2
<1>4. CASE GuestEnds(c) \/ ClientEnds(c)
  <2>1. PICK end : r.pc = "relay" /\ Put(c, [r EXCEPT !.pc = "ended", !.end = end])
    BY <1>4 DEF GuestEnds, ClientEnds, At
  <2> DEFINE n == [r EXCEPT !.pc = "ended", !.end = end]
  <2>2. Guarded(c, n)
    <3>1. /\ Shape(n) /\ n.pc = "ended" /\ n.wire = r.wire /\ n.reg = r.reg
          /\ n.sess = r.sess /\ n.kind = r.kind /\ n.m = r.m /\ n.port = r.port
      BY <1>r DEF Shape, Fields
    <3> HIDE DEF n
    <3> QED BY <1>r, <2>1, <3>1, StepSound DEF Unregistered
  <2> QED BY <1>s, <2>1, <2>2, PutKeeps
<1>5. CASE Leave(c)
  <2> DEFINE n == Closed(r, "left")
  <2>1. /\ Shape(n) /\ n.pc = r.pc /\ n.wire # "open"
        /\ n.sess = r.sess /\ n.kind = r.kind /\ n.m = r.m /\ n.port = r.port
    BY <1>r, ClosedFields
  <2>2. Put(c, n)
    BY <1>5 DEF Leave
  <2>3. Guarded(c, n)
    <3> HIDE DEF n
    <3> QED BY <1>r, <2>1 DEF Guarded, TokenOf
  <2> QED BY <1>s, <2>2, <2>3, PutKeeps
<1>6. CASE Finish(c)
  <2>1. PICK code : OverBy(c, conns[c].end, code)
    BY <1>6 DEF Finish, Over
  <2> QED BY <1>s, <2>1, OverKeeps
<1>7. CASE SessionOwner(c)
  <2>1. CASE Refuse(c)
    BY <2>1, <1>s, RefuseKeeps
  <2>2. CASE ~Refuse(c)
    <3> DEFINE n == [r EXCEPT !.pc = "machine"]
    <3>1. r.pc = "session" /\ Alive(r.sess) /\ Put(c, n)
      BY <1>7, <2>2 DEF SessionOwner, At
    <3>a. r.sess \in Sessions => NotYetTaken(c, r.sess)
      BY <3>1 DEF IInv, Grants, NotYetTaken, Alive
    <3>2. /\ Shape(n) /\ n.pc = "machine" /\ n.wire = r.wire /\ n.reg = r.reg
          /\ n.sess = r.sess /\ n.kind = r.kind /\ n.m = r.m /\ n.port = r.port
      BY <1>r DEF Shape, Fields
    <3>3. Guarded(c, n)
      <4> HIDE DEF n
      <4> QED BY <1>r, <3>1, <3>a, <3>2 DEF Guarded, NotYetTaken, NotYetClosed, TokenOf, Unregistered
    <3> QED BY <1>s, <3>1, <3>3, PutKeeps
  <2> QED BY <2>1, <2>2
<1>8. CASE MachineOwner(c)
  <2>1. CASE Refuse(c)
    BY <2>1, <1>s, RefuseKeeps
  <2>2. CASE ~Refuse(c)
    <3> DEFINE n == [r EXCEPT !.pc = "upgrade", !.offs = Seen(conns[c].m)]
    <3>1. r.pc = "machine" /\ Put(c, n)
      BY <1>8, <2>2 DEF MachineOwner, At
    <3>2. Guarded(c, n)
      <4>1. /\ Shape(n) /\ n.pc = "upgrade" /\ n.wire = r.wire /\ n.reg = r.reg
            /\ n.sess = r.sess /\ n.kind = r.kind /\ n.m = r.m /\ n.port = r.port
        BY <1>r DEF Shape, Fields
      <4> HIDE DEF n
      <4> QED BY <1>r, <3>1, <4>1, StepSound DEF Unregistered
    <3> QED BY <1>s, <3>1, <3>2, PutKeeps
  <2> QED BY <2>1, <2>2
<1>9. CASE Hijack(c)
  <2>1. CASE Refuse(c)
    BY <2>1, <1>s, RefuseKeeps
  <2>2. CASE ~Refuse(c)
    <3> DEFINE n == [r EXCEPT !.pc = "relay", !.wire = "open", !.reg = TRUE]
    <3>1. r.pc = "upgrade" /\ Put(c, n)
      BY <1>9, <2>2 DEF Hijack, At
    <3>2. /\ Shape(n) /\ n.pc = "relay" /\ n.wire = "open" /\ n.reg = TRUE
          /\ n.sess = r.sess /\ n.kind = r.kind /\ n.m = r.m /\ n.port = r.port
      BY <1>r DEF Shape, Fields
    <3>3. n.sess \in Sessions => NotYetTaken(c, n.sess)
      BY <1>r, <3>1, <3>2 DEF Guarded, Unregistered
    <3>4. Guarded(c, n)
      <4> HIDE DEF n
      <4> QED BY <1>r, <3>1, <3>2, <3>3 DEF Guarded, NotYetTaken, NotYetClosed, TokenOf, Unregistered
    <3> QED BY <1>s, <3>1, <3>4, PutKeeps
  <2> QED BY <2>1, <2>2
<1> QED BY <1>1, <1>2, <1>3, <1>4, <1>5, <1>6, <1>7, <1>8, <1>9

\* A new request, of a live session, of a bearer, or with a cookie.
LEMMA RequestKeeps ==
    ASSUME Apart, IInv, NEW c \in Conns,
           \/ \E s \in Sessions, m \in Machines, kind \in {"term", "ssh"} : Authenticate(c, kind, s, m)
           \/ \E m \in Machines : AuthenticateBearer(c, m)
           \/ \E o \in Origins : Proxy(c, o)
    PROVE  IInv'
<1>s. UNCHANGED <<sessions, revoking, tokens, cookies>>
  BY Zenon DEF Authenticate, AuthenticateBearer, Proxy, others
<1>1. ASSUME NEW s \in Sessions, NEW m \in Machines, NEW kind \in {"term", "ssh"}, Authenticate(c, kind, s, m)
      PROVE  IInv'
  <2> DEFINE n == [Unused EXCEPT !.kind = kind, !.pc = "auth", !.sess = s, !.m = m, !.on = sshOn]
  <2>1. Alive(s) /\ Put(c, n)
    BY <1>1 DEF Authenticate
  <2>2. Shape(n) /\ n.kind = kind /\ n.pc = "auth" /\ n.sess = s /\ n.wire = "none"
    BY UnusedShape DEF Shape, Fields
  <2>3. Guarded(c, n)
    <3>1. NotYetTaken(c, s)
      BY <2>1 DEF IInv, Grants, NotYetTaken, Alive
    <3> HIDE DEF n
    <3> QED BY <2>2, <3>1 DEF Guarded
  <2> QED BY <1>s, <2>1, <2>3, PutKeeps
<1>2. ASSUME NEW m \in Machines, AuthenticateBearer(c, m) PROVE IInv'
  <2>1. PICK on : Put(c, [Unused EXCEPT !.kind = "ssh", !.pc = "auth", !.m = m, !.on = on])
    BY <1>2 DEF AuthenticateBearer
  <2> DEFINE n == [Unused EXCEPT !.kind = "ssh", !.pc = "auth", !.m = m, !.on = on]
  <2>2. Shape(n) /\ n.kind = "ssh" /\ n.pc = "auth" /\ n.sess = NoSession /\ n.wire = "none"
    BY UnusedShape DEF Shape, Fields
  <2>3. Guarded(c, n)
    <3> HIDE DEF n
    <3> QED BY <2>2 DEF Guarded, Apart
  <2> QED BY <1>s, <2>1, <2>3, PutKeeps
<1>3. ASSUME NEW o \in Origins, Proxy(c, o) PROVE IInv'
  <2> DEFINE n == [Unused EXCEPT !.kind = "web", !.pc = "session", !.sess = cookies[o].sess, !.m = o[1], !.port = o[2]]
  <2>1. cookies[o].m = o[1] /\ cookies[o].port = o[2] /\ Put(c, n)
    BY <1>3 DEF Proxy
  <2>2. /\ Shape(n) /\ n.kind = "web" /\ n.pc = "session" /\ n.wire = "none"
        /\ n.sess = cookies[o].sess /\ n.m = o[1] /\ n.port = o[2]
    BY UnusedShape DEF Shape, Fields
  <2>3. cookies[o] \in tokens /\ cookies[o] = TokenOf(cookies[o])
    BY <2>1 DEF IInv, Grants
  <2>4. Guarded(c, n)
    <3>1. TokenOf(n) = cookies[o]
      BY <2>1, <2>2, <2>3 DEF TokenOf
    <3> HIDE DEF n
    <3> QED BY <2>2, <2>3, <3>1 DEF Guarded, Unregistered
  <2> QED BY <1>s, <2>1, <2>4, PutKeeps
<1> QED BY <1>1, <1>2, <1>3

-----------------------------------------------------------------------------
\* Revocation, and what a session is given.

LEMMA RevokeKeeps == ASSUME Apart, IInv, NEW s \in Sessions, Revoke(s) PROVE IInv'
<1>1. /\ conns' = conns /\ tokens' = tokens /\ cookies' = cookies
      /\ sessions' = [sessions EXCEPT ![s] = "revoked"] /\ revoking' = [revoking EXCEPT ![s].pc = "notify"]
  BY DEF Revoke, others
<1>2. \A t \in Sessions : /\ revoking'[t].pc = IF t = s THEN "notify" ELSE revoking[t].pc
                          /\ revoking'[t].left = revoking[t].left /\ revoking'[t].missed = revoking[t].missed
  BY <1>1 DEF IInv, Tables
<1>3. Tables' /\ Grants'
  <2>1. Tables'
    BY <1>1 DEF IInv, Tables
  <2>2. Grants'
    BY <1>1, <1>2 DEF IInv, Tables, Grants, TokenOf
  <2> QED BY <2>1, <2>2
<1>4. ASSUME NEW c \in Conns PROVE Guarded(c, conns[c])'
  <2>1. Guarded(c, conns[c])
    BY DEF IInv
  <2>2. \A t \in Sessions : /\ NotYetTaken(c, t) => NotYetTaken(c, t)'
                            /\ NotYetClosed(c, t) => NotYetClosed(c, t)'
    BY <1>2 DEF NotYetTaken, NotYetClosed
  <2> QED BY <1>1, <2>1, <2>2 DEF Guarded, Shape, TokenOf, Unregistered
<1> QED BY <1>3, <1>4 DEF IInv

LEMMA SessionRevokedKeeps == ASSUME IInv, NEW s \in Sessions, SessionRevoked(s) PROVE IInv'
<1> DEFINE closers == {c \in Conns : conns[c].reg /\ conns[c].sess = s}
<1>1. /\ conns' = conns /\ tokens' = tokens /\ cookies' = cookies /\ sessions' = sessions /\ revoking[s].pc = "notify"
      /\ revoking' = [revoking EXCEPT ![s] = [pc |-> "close", left |-> closers, missed |-> OnTheirWay(s)]]
  BY DEF SessionRevoked, others
<1>2. \A t \in Sessions : /\ revoking'[t].pc = IF t = s THEN "close" ELSE revoking[t].pc
                          /\ revoking'[t].left = IF t = s THEN closers ELSE revoking[t].left
                          /\ revoking'[t].missed = IF t = s THEN OnTheirWay(s) ELSE revoking[t].missed
  BY <1>1 DEF IInv, Tables
<1>3. Tables' /\ Grants'
  <2> HIDE DEF closers
  <2> QED BY <1>1, <1>2 DEF IInv, Tables, Grants, TokenOf
<1>4. ASSUME NEW c \in Conns PROVE Guarded(c, conns[c])'
  <2>1. Guarded(c, conns[c])
    BY DEF IInv
  <2>2. conns[c].reg = TRUE /\ conns[c].sess = s => c \in closers
    BY Zenon
  <2>3. conns[c].sess \in Sessions /\ conns[c].wire = "open" => NotYetClosed(c, conns[c].sess)'
    <3> SUFFICES ASSUME conns[c].sess \in Sessions, conns[c].wire = "open" PROVE NotYetClosed(c, conns[c].sess)'
      OBVIOUS
    <3>1. conns[c].reg = TRUE /\ NotYetClosed(c, conns[c].sess)
      BY <2>1 DEF Guarded
    <3> HIDE DEF closers
    <3>2. CASE conns[c].sess = s
      <4>1. revoking'[s].pc = "close" /\ revoking'[s].left = closers /\ c \in closers
        BY <1>2, <2>2, <3>1, <3>2
      <4> QED BY <1>1, <3>2, <4>1 DEF NotYetTaken, NotYetClosed
    <3>3. CASE conns[c].sess # s
      BY <1>1, <1>2, <3>1, <3>3 DEF NotYetTaken, NotYetClosed
    <3> QED BY <3>2, <3>3
  <2>4. conns[c].sess \in Sessions /\ conns[c].pc \in Unregistered => NotYetTaken(c, conns[c].sess)'
    <3>1. CASE conns[c].sess = s /\ conns[c].pc \in Unregistered
      <4>1. c \in OnTheirWay(s)
        BY <3>1 DEF OnTheirWay, Unregistered
      <4> QED BY <1>1, <1>2, <3>1, <4>1 DEF NotYetTaken
    <3>2. CASE conns[c].sess # s
      BY <1>1, <1>2, <2>1, <3>2 DEF Guarded, NotYetTaken
    <3> QED BY <3>1, <3>2
  <2> QED BY <1>1, <2>1, <2>3, <2>4 DEF Guarded, Shape, TokenOf, Unregistered
<1> QED BY <1>3, <1>4 DEF IInv

LEMMA CloseOneKeeps == ASSUME IInv, NEW s \in Sessions, NEW c \in Conns, CloseOne(s, c) PROVE IInv'
<1> DEFINE q == Closed(conns[c], "session_revoked")
           n == [q EXCEPT !.reg = IF conns[c].kind = "web" THEN FALSE ELSE @]
<1>1. /\ tokens' = tokens /\ cookies' = cookies /\ sessions' = sessions
      /\ conns' = [conns EXCEPT ![c] = n] /\ revoking' = [revoking EXCEPT ![s].left = @ \ {c}]
  BY DEF CloseOne, others, Put
<1>2. /\ Shape(q) /\ q.wire # "open" /\ q.pc = conns[c].pc
      /\ q.sess = conns[c].sess /\ q.kind = conns[c].kind /\ q.m = conns[c].m /\ q.port = conns[c].port
  BY ClosedFields DEF IInv, Guarded
<1> HIDE DEF q
<1>3. /\ Shape(n) /\ n.wire # "open" /\ n.pc = conns[c].pc
      /\ n.sess = conns[c].sess /\ n.kind = conns[c].kind /\ n.m = conns[c].m /\ n.port = conns[c].port
  BY <1>2 DEF Shape, Fields
<1> HIDE DEF n
<1>4. /\ revoking' = [t \in Sessions |->
                         [pc |-> revoking'[t].pc, left |-> revoking'[t].left, missed |-> revoking'[t].missed]]
      /\ \A t \in Sessions : /\ revoking'[t].pc = revoking[t].pc /\ revoking'[t].missed = revoking[t].missed
                             /\ revoking'[t].left = IF t = s THEN revoking[t].left \ {c} ELSE revoking[t].left
  <2> DEFINE left == revoking[s].left \ {c}
  <2>1. revoking' = [revoking EXCEPT ![s] = [revoking[s] EXCEPT !.left = left]]
    BY <1>1
  <2> HIDE DEF left
  <2>2. revoking[s] = [pc |-> revoking[s].pc, left |-> revoking[s].left, missed |-> revoking[s].missed]
    BY DEF IInv, Tables
  <2>3. [revoking[s] EXCEPT !.left = left] = [pc |-> revoking[s].pc, left |-> left, missed |-> revoking[s].missed]
    BY <2>2
  <2>4. revoking' = [revoking EXCEPT ![s] = [pc |-> revoking[s].pc, left |-> left, missed |-> revoking[s].missed]]
    BY <2>1, <2>3
  <2>5. /\ revoking' = [t \in Sessions |->
                          [pc |-> revoking'[t].pc, left |-> revoking'[t].left, missed |-> revoking'[t].missed]]
        /\ \A t \in Sessions : /\ revoking'[t].pc = revoking[t].pc /\ revoking'[t].missed = revoking[t].missed
                               /\ revoking'[t].left = IF t = s THEN left ELSE revoking[t].left
    BY <2>4 DEF IInv, Tables
  <2> QED BY <2>5 DEF left
<1>5. \A d \in Conns : conns'[d] = IF d = c THEN n ELSE conns[d]
  BY <1>1 DEF IInv, Tables
<1>6. Tables' /\ Grants'
  BY <1>1, <1>4 DEF IInv, Tables, Grants, TokenOf
<1>7. ASSUME NEW d \in Conns PROVE Guarded(d, conns[d])'
  <2>1. Guarded(d, conns[d])
    BY DEF IInv
  <2>0. \A t \in Sessions : NotYetTaken(d, t) => NotYetTaken(d, t)'
    BY <1>4 DEF NotYetTaken
  <2>2. CASE d = c
    BY <1>1, <1>3, <1>5, <2>0, <2>1, <2>2 DEF Guarded, TokenOf, Shape, Unregistered
  <2>3. CASE d # c
    <3>1. \A t \in Sessions : NotYetClosed(d, t) => NotYetClosed(d, t)'
      BY <1>4, <2>0, <2>3 DEF NotYetTaken, NotYetClosed
    <3> QED BY <1>1, <1>5, <2>0, <2>1, <2>3, <3>1 DEF Guarded, TokenOf, Shape, Unregistered
  <2> QED BY <2>2, <2>3
<1> QED BY <1>6, <1>7 DEF IInv

\* Once the closers have run, no wire of the session is left open.
LEMMA RevokeDoneKeeps == ASSUME IInv, NEW s \in Sessions, RevokeDone(s) PROVE IInv'
<1>1. /\ conns' = conns /\ tokens' = tokens /\ cookies' = cookies /\ sessions' = sessions
      /\ revoking[s].pc = "close" /\ revoking[s].left = {} /\ revoking' = [revoking EXCEPT ![s].pc = "done"]
  BY DEF RevokeDone, others
<1>2. \A t \in Sessions : /\ revoking'[t].pc = IF t = s THEN "done" ELSE revoking[t].pc
                          /\ revoking'[t].left = revoking[t].left /\ revoking'[t].missed = revoking[t].missed
  BY <1>1 DEF IInv, Tables
<1>3. Tables' /\ Grants'
  <2>1. Tables'
    <3>1. revoking' = [t \in Sessions |->
                          [pc |-> revoking'[t].pc, left |-> revoking'[t].left, missed |-> revoking'[t].missed]]
      BY <1>1 DEF IInv, Tables
    <3> QED BY <1>1, <3>1 DEF IInv, Tables
  <2>2. \A t \in Sessions : revoking'[t].pc # "idle" => sessions'[t] = "revoked"
    BY <1>1, <1>2 DEF IInv, Grants
  <2>3. Grants'
    BY <1>1, <2>2 DEF IInv, Grants, TokenOf
  <2> QED BY <2>1, <2>3
<1>4. ASSUME NEW c \in Conns PROVE Guarded(c, conns[c])'
  <2>1. Guarded(c, conns[c])
    BY DEF IInv
  <2>2. \A t \in Sessions : /\ NotYetTaken(c, t) => NotYetTaken(c, t)'
                            /\ NotYetClosed(c, t) => NotYetClosed(c, t)'
    BY <1>1, <1>2 DEF NotYetTaken, NotYetClosed
  <2> QED BY <1>1, <2>1, <2>2 DEF Guarded, Shape, TokenOf, Unregistered
<1> QED BY <1>3, <1>4 DEF IInv

LEMMA MintKeeps == ASSUME IInv, NEW s \in Sessions, NEW o \in Origins, Mint(s, o[1], o[2]) PROVE IInv'
<1> DEFINE t == [sess |-> s, m |-> o[1], port |-> o[2]]
<1>1. /\ tokens' = tokens \cup {t} /\ Owner[s] = Owner[o[1]]
      /\ conns' = conns /\ cookies' = cookies /\ sessions' = sessions /\ revoking' = revoking
  BY DEF Mint
<1>2. t = TokenOf(t) /\ t.sess = s /\ t.m = o[1]
  BY DEF TokenOf
<1> HIDE DEF t
<1>3. Tables' /\ Grants'
  BY <1>1, <1>2 DEF IInv, Tables, Grants, TokenOf
<1>4. ASSUME NEW c \in Conns PROVE Guarded(c, conns[c])'
  BY <1>1 DEF IInv, Guarded, Shape, TokenOf, Unregistered, NotYetTaken, NotYetClosed
<1> QED BY <1>3, <1>4 DEF IInv

LEMMA HandleAuthKeeps == ASSUME IInv, NEW t \in tokens, NEW o \in Origins, HandleAuth(t, o) PROVE IInv'
<1>1. /\ cookies' = [cookies EXCEPT ![o] = t]
      /\ conns' = conns /\ tokens' = tokens /\ sessions' = sessions /\ revoking' = revoking
  BY DEF HandleAuth
<1>2. Tables' /\ Grants'
  BY <1>1 DEF IInv, Tables, Grants, TokenOf
<1>3. ASSUME NEW c \in Conns PROVE Guarded(c, conns[c])'
  BY <1>1 DEF IInv, Guarded, Shape, TokenOf, Unregistered, NotYetTaken, NotYetClosed
<1> QED BY <1>2, <1>3 DEF IInv

\* Machines come and go without a change of any of this.
LEMMA OtherwiseKeeps == ASSUME IInv, UNCHANGED <<sessions, revoking, conns, tokens, cookies>> PROVE IInv'
<1>1. Tables' /\ Grants'
  BY DEF IInv, Tables, Grants, TokenOf
<1>2. ASSUME NEW c \in Conns PROVE Guarded(c, conns[c])'
  BY DEF IInv, Guarded, Shape, TokenOf, Unregistered, NotYetTaken, NotYetClosed
<1> QED BY <1>1, <1>2 DEF IInv

LEMMA InitHolds == ASSUME Apart PROVE Init => IInv
<1> SUFFICES ASSUME Init PROVE IInv
  OBVIOUS
<1>1. \A s \in Sessions : revoking[s] = Quiet
  BY DEF Init
<1>2. Tables
  BY <1>1 DEF Init, Tables, Quiet
<1>3. Grants
  BY <1>1 DEF Init, Grants, Quiet, NoCookie, Apart, Origins
<1>4. ASSUME NEW c \in Conns PROVE Guarded(c, conns[c])
  BY UnusedShape DEF Init, Guarded, Apart
<1> QED BY <1>2, <1>3, <1>4 DEF IInv

LEMMA Inductive == ASSUME Apart, IInv, [Next]_vars PROVE IInv'
<1>1. CASE SwitchOff \/ (\E m \in Machines : Stop(m) \/ Down(m) \/ Start(m)) \/ UNCHANGED vars
  <2>1. UNCHANGED <<sessions, revoking, conns, tokens, cookies>>
    BY <1>1 DEF SwitchOff, Stop, Down, Start, vars
  <2> QED BY <2>1, OtherwiseKeeps
<1>2. CASE \E s \in Sessions :
          \/ Revoke(s) \/ SessionRevoked(s) \/ RevokeDone(s)
          \/ (\E c \in Conns : CloseOne(s, c)) \/ (\E o \in Origins : Mint(s, o[1], o[2]))
  BY <1>2, RevokeKeeps, SessionRevokedKeeps, RevokeDoneKeeps, CloseOneKeeps, MintKeeps
<1>3. CASE \E t \in tokens : \E o \in Origins : HandleAuth(t, o)
  BY <1>3, HandleAuthKeeps
<1>4. ASSUME NEW c \in Conns,
             \/ \E s \in Sessions, m \in Machines, kind \in {"term", "ssh"} : Authenticate(c, kind, s, m)
             \/ \E m \in Machines : AuthenticateBearer(c, m)
             \/ \E o \in Origins : Proxy(c, o)
      PROVE  IInv'
  BY <1>4, RequestKeeps
<1>5. ASSUME NEW c \in Conns,
             \/ Resolve(c) \/ Accept(c) \/ Dial(c) \/ Handshake(c) \/ GuestEnds(c) \/ Leave(c) \/ ClientEnds(c) \/ Finish(c)
             \/ SessionOwner(c) \/ MachineOwner(c) \/ Hijack(c)
      PROVE  IInv'
  BY <1>5, ConnectionKeeps
<1> QED BY <1>1, <1>2, <1>3, <1>4, <1>5 DEF Next

LEMMA Invariant == ASSUME Apart PROVE Spec => []IInv
<1>1. Init => IInv
  BY InitHolds
<1>2. IInv /\ [Next]_vars => IInv'
  BY Inductive
<1> QED BY <1>1, <1>2, PTL DEF Spec

-----------------------------------------------------------------------------
\* registry.go: when a logout returns, every terminal, tunnel and web socket of
\* its session is closed, at whatever step of theirs it came, but those of the
\* requests that were between the check of the session and Register when the
\* closers were taken.
THEOREM LogoutCloses == ASSUME Apart PROVE Spec => []RevokedIsClosed
<1>1. IInv => RevokedIsClosed
  BY DEF IInv, Guarded, NotYetTaken, NotYetClosed, RevokedIsClosed
<1> QED BY <1>1, Invariant, PTL

\* handleAuth, handleProxy: a web socket is open only on the origin its session
\* was given by an owner of the machine.
THEOREM OriginsKeptApart == ASSUME Apart PROVE Spec => []OriginsApart
<1>1. IInv => OriginsApart
  <2> SUFFICES ASSUME IInv, NEW c \in Conns, conns[c].kind = "web", conns[c].wire = "open"
               PROVE  TokenOf(conns[c]) \in tokens /\ Owner[conns[c].sess] = Owner[conns[c].m]
    BY DEF OriginsApart, TokenOf
  <2>1. TokenOf(conns[c]) \in tokens
    BY DEF IInv, Guarded
  <2>2. TokenOf(conns[c]).sess = conns[c].sess /\ TokenOf(conns[c]).m = conns[c].m
    BY DEF TokenOf
  <2> QED BY <2>1, <2>2 DEF IInv, Grants
<1> QED BY <1>1, Invariant, PTL

\* Both: what a session has open or opens ends with it, save what was on its way past
\* the registry, and is what it was given.
THEOREM GatewayIsGuarded == ASSUME Apart PROVE Spec => []GatewayGuards
BY LogoutCloses, OriginsKeptApart, PTL DEF GatewayGuards
-----------------------------------------------------------------------------
(* What a client is told when its connection ends.  A handler that has     *)
(* found its machine running remembers, in the history field offs, the     *)
(* stops before it; from then on a machine that is not up has stopped once *)
(* more (Told).  The reads of the machine are assumed to succeed (NoFail): *)
(* one that fails is taken for a stop.                                     *)

NoFail == "fail" \notin May

Served == {"resolved", "upgrade", "dial", "handshake", "relay", "ended"}

MachineTables ==
    /\ row \in [Machines -> BOOLEAN] /\ vm \in [Machines -> BOOLEAN]
    /\ offs \in [Machines -> Int]

Told(r) ==
    /\ r.pc \notin {"idle", "over"} => r.m \in Machines
    /\ r.pc \notin {"ended", "over"} => r.end # "stopped"
    /\ r.pc # "over" => r.code \in {"none", "left", "session_revoked"}
    /\ r.pc \in Served => r.offs \in Int /\ offs[r.m] >= r.offs /\ (~row[r.m] \/ ~vm[r.m] => offs[r.m] > r.offs)
    /\ r.end = "stopped" \/ r.code = "machine_stopped" =>
          r.m \in Machines /\ r.offs \in Int /\ offs[r.m] > r.offs
    /\ r.pc = "over" /\ r.end = "stopped" /\ r.code \in {"internal", "normal"} => row[r.m] \/ offs[r.m] > r.offs + 1

CInv == MachineTables /\ \A c \in Conns : Told(conns[c])

LEMMA UnusedTold ==
    /\ Unused.wire = "none" /\ Unused.pc = "idle" /\ Unused.end = "none" /\ Unused.code = "none"
    /\ Told(Unused) /\ Told([Unused EXCEPT !.pc = "over"])
<1>1. /\ Unused.wire = "none" /\ Unused.pc = "idle" /\ Unused.end = "none" /\ Unused.code = "none"
  BY DEF Unused
<1>2. LET n == [Unused EXCEPT !.pc = "over"] IN n.pc = "over" /\ n.end = "none" /\ n.code = "none"
  BY DEF Unused
<1> QED BY <1>1, <1>2 DEF Told, Served

LEMMA PutTold ==
    ASSUME Tables, CInv, NEW c \in Conns, NEW n, Told(n), Put(c, n), UNCHANGED <<row, vm, offs>>
    PROVE  CInv'
<1>1. \A d \in Conns : conns'[d] = IF d = c THEN n ELSE conns[d]
  BY DEF Put, Tables
<1>2. ASSUME NEW d \in Conns PROVE Told(conns[d])'
  <2>1. Told(conns'[d])
    BY <1>1 DEF CInv
  <2> QED BY <2>1 DEF Told
<1> QED BY <1>2 DEF CInv, MachineTables

\* A step that leaves the machine, the end and the code of a connection alone.
LEMMA StepTold ==
    ASSUME NEW r, Told(r), NEW n, n.m = r.m, n.end = r.end, n.code = r.code,
           r.pc \notin {"idle", "ended", "over"}, n.pc \notin {"idle", "over"},
           \/ r.pc \in Served /\ n.offs = r.offs
           \/ n.pc \notin Served
           \/ MachineTables /\ row[r.m] /\ n.offs = Seen(r.m)
    PROVE  Told(n)
<1>1. r.m \in Machines /\ r.end # "stopped" /\ r.code # "machine_stopped"
  BY DEF Told
<1>2. CASE MachineTables /\ row[r.m] /\ n.offs = Seen(r.m)
  <2>1. n.offs \in Int /\ offs[r.m] >= n.offs /\ (~row[r.m] \/ ~vm[r.m] => offs[r.m] > n.offs)
    BY <1>1, <1>2 DEF MachineTables, Seen
  <2> QED BY <1>1, <2>1 DEF Told
<1> QED BY <1>1, <1>2 DEF Told

\* The handler returns with a code; a connection that was closed before keeps the
\* code it was closed with.
LEMMA OverTold ==
    ASSUME IInv, CInv, NEW c \in Conns, NEW end, NEW code, OverBy(c, end, code), UNCHANGED <<row, vm, offs>>,
           conns[c].pc \in Served,
           code = "machine_stopped" => ~row[conns[c].m] \/ ~vm[conns[c].m],
           end = "stopped" => conns[c].end = "stopped",
           end = "stopped" /\ code \in {"internal", "normal"} => row[conns[c].m]
    PROVE  CInv'
<1> DEFINE r == conns[c]
           q == Closed(r, code)
           n == [q EXCEPT !.pc = "over", !.reg = FALSE, !.sess = NoSession, !.port = 0, !.end = end]
<1>1. Shape(r) /\ Told(r)
  BY DEF IInv, Guarded, CInv
<1>2. /\ Shape(q) /\ q.m = r.m /\ q.end = r.end /\ q.offs = r.offs
      /\ q.code = IF r.wire = "open" THEN code ELSE r.code
  BY <1>1 DEF Closed, Shape, Fields
<1>3. Put(c, n)
  BY DEF OverBy
<1> HIDE DEF q
<1>4. /\ n.pc = "over" /\ n.m = r.m /\ n.end = end /\ n.offs = r.offs
      /\ n.code = IF r.wire = "open" THEN code ELSE r.code
  BY <1>2 DEF Shape, Fields
<1> HIDE DEF n
<1>5. /\ r.m \in Machines /\ r.offs \in Int /\ (~row[r.m] \/ ~vm[r.m] => offs[r.m] > r.offs)
      /\ r.code \notin {"machine_stopped", "internal", "normal"} /\ (r.end = "stopped" => offs[r.m] > r.offs)
  BY <1>1 DEF Told, Served
<1>6. Told(n)
  BY <1>4, <1>5 DEF Told, Served
<1> QED BY <1>3, <1>6, PutTold DEF IInv

\* The wire is closed by the client or by a logout, before the handler returns.
LEMMA ClosedTold ==
    ASSUME NEW c \in Conns, NEW r, Guarded(c, r), Told(r), NEW code \in {"left", "session_revoked"}
    PROVE  Told(Closed(r, code)) /\ Closed(r, code).pc = r.pc
<1>1. CASE r.wire = "open"
  <2> DEFINE n == [r EXCEPT !.wire = "closed", !.code = code]
  <2>1. n.pc = r.pc /\ n.m = r.m /\ n.end = r.end /\ n.offs = r.offs /\ n.code = code
    BY DEF Guarded, Shape, Fields
  <2>2. Closed(r, code) = n /\ r.pc # "over"
    BY <1>1 DEF Closed, Guarded
  <2> HIDE DEF n
  <2>3. Told(n)
    BY <2>1, <2>2 DEF Told, Served
  <2> QED BY <2>1, <2>2, <2>3
<1>2. CASE r.wire # "open"
  BY <1>2 DEF Closed
<1> QED BY <1>1, <1>2

LEMMA ConnectionTold ==
    ASSUME NoFail, IInv, CInv, NEW c \in Conns,
           \/ Resolve(c) \/ Accept(c) \/ Dial(c) \/ Handshake(c) \/ GuestEnds(c) \/ Leave(c) \/ ClientEnds(c) \/ Finish(c)
           \/ SessionOwner(c) \/ MachineOwner(c) \/ Hijack(c)
    PROVE  CInv'
<1> DEFINE r == conns[c]
<1>r. Guarded(c, r) /\ Shape(r) /\ Told(r) /\ MachineTables /\ Tables
  BY DEF IInv, Guarded, CInv
<1>s. UNCHANGED <<row, vm, offs>>
  BY DEF Resolve, Accept, Dial, Handshake, GuestEnds, Leave, ClientEnds, Finish, SessionOwner, MachineOwner, Hijack, others
<1>0. CASE Refuse(c)
  BY <1>0, <1>r, <1>s, UnusedTold, PutTold DEF Refuse
<1>1. CASE ~Refuse(c) /\ (Resolve(c) \/ MachineOwner(c))
  <2>1. PICK pc \in {"resolved", "upgrade"}, on \in {FALSE, r.on} :
            /\ r.pc \in {"auth", "machine"} /\ row[r.m]
            /\ Put(c, [r EXCEPT !.pc = pc, !.on = on, !.offs = Seen(r.m)])
    <3>1. CASE Resolve(c)
      BY <1>1, <3>1 DEF Resolve, At
    <3>2. CASE MachineOwner(c)
      <4>1. [r EXCEPT !.pc = "upgrade", !.offs = Seen(r.m)] = [r EXCEPT !.pc = "upgrade", !.on = r.on, !.offs = Seen(r.m)]
        BY <1>r DEF Shape, Fields
      <4> QED BY <1>1, <3>2, <4>1 DEF MachineOwner, At
    <3> QED BY <1>1, <3>1, <3>2
  <2> DEFINE n == [r EXCEPT !.pc = pc, !.on = on, !.offs = Seen(r.m)]
  <2>2. n.pc = pc /\ n.m = r.m /\ n.end = r.end /\ n.code = r.code /\ n.offs = Seen(r.m)
    BY <1>r DEF Shape, Fields
  <2> HIDE DEF n
  <2>3. Told(n)
    BY <1>r, <2>1, <2>2, StepTold
  <2> QED BY <1>r, <1>s, <2>1, <2>3, PutTold DEF n
<1>2. CASE Accept(c)
  <2> DEFINE n == [r EXCEPT !.pc = "dial", !.wire = "open", !.reg = conns[c].sess # NoSession]
  <2>1. r.pc = "resolved" /\ Put(c, n)
    BY <1>2 DEF Accept, At
  <2>2. n.pc = "dial" /\ n.m = r.m /\ n.end = r.end /\ n.code = r.code /\ n.offs = r.offs
    BY <1>r DEF Shape, Fields
  <2> HIDE DEF n
  <2>3. Told(n)
    BY <1>r, <2>1, <2>2, StepTold DEF Served
  <2> QED BY <1>r, <1>s, <2>1, <2>3, PutTold
<1>3. CASE Dial(c) \/ Handshake(c)
  <2>0. r.pc \in {"dial", "handshake"} /\ r.end # "stopped"
    BY <1>3, <1>r DEF Dial, Handshake, At, Told
  <2>1. ASSUME NEW end, NEW code, OverBy(c, end, code), end # "stopped",
               code = "machine_stopped" => ~row[r.m] \/ ~vm[r.m]
        PROVE  CInv'
    BY <1>s, <2>0, <2>1, OverTold DEF Served
  <2>2. CASE \/ \E code \in DialError(c) : Over(c, code)
             \/ ~vm[r.m] /\ Over(c, "machine_stopped")
             \/ OverBy(c, IF row[r.m] \/ vm[r.m] THEN "broken" ELSE "early", "internal")
    <3>1. CASE \E code \in DialError(c) : Over(c, code)
      <4>1. PICK code \in DialError(c) : OverBy(c, r.end, code)
        BY <3>1 DEF Over
      <4>2. code = "machine_stopped" => ~row[r.m]
        BY <4>1 DEF DialError
      <4> QED BY <2>0, <2>1, <4>1, <4>2
    <3>2. CASE ~vm[r.m] /\ Over(c, "machine_stopped")
      BY <2>0, <2>1, <3>2 DEF Over
    <3>3. CASE OverBy(c, IF row[r.m] \/ vm[r.m] THEN "broken" ELSE "early", "internal")
      BY <2>1, <3>3
    <3> QED BY <2>2, <3>1, <3>2, <3>3
  <2>3. ASSUME NEW pc \in {"handshake", "relay"}, Put(c, [r EXCEPT !.pc = pc]) PROVE CInv'
    <3> DEFINE n == [r EXCEPT !.pc = pc]
    <3>1. n.pc = pc /\ n.m = r.m /\ n.end = r.end /\ n.code = r.code /\ n.offs = r.offs
      BY <1>r DEF Shape, Fields
    <3> HIDE DEF n
    <3>2. Told(n)
      BY <1>r, <2>0, <3>1, StepTold DEF Served
    <3> QED BY <1>r, <1>s, <2>3, <3>2, PutTold DEF n
  <2> QED BY <1>3, <2>2, <2>3 DEF Dial, Handshake
<1>4. CASE GuestEnds(c) \/ ClientEnds(c)
  <2>1. PICK end : /\ r.pc = "relay" /\ (end = "stopped" => ~row[r.m] /\ ~vm[r.m])
                   /\ Put(c, [r EXCEPT !.pc = "ended", !.end = end])
    <3>1. CASE GuestEnds(c)
      <4>1. PICK end \in IF vm[r.m] THEN {"exit", "refused", "broken"} ELSE {IF row[r.m] THEN "broken" ELSE "stopped"} :
                Put(c, [r EXCEPT !.pc = "ended", !.end = end])
        BY <3>1 DEF GuestEnds
      <4>2. end = "stopped" => ~row[r.m] /\ ~vm[r.m]
        OBVIOUS
      <4> QED BY <3>1, <4>1, <4>2 DEF GuestEnds, At
    <3>2. CASE ClientEnds(c)
      BY <3>2 DEF ClientEnds, At
    <3> QED BY <1>4, <3>1, <3>2
  <2> DEFINE n == [r EXCEPT !.pc = "ended", !.end = end]
  <2>2. n.pc = "ended" /\ n.m = r.m /\ n.end = end /\ n.code = r.code /\ n.offs = r.offs
    BY <1>r DEF Shape, Fields
  <2> HIDE DEF n
  <2>3. Told(n)
    BY <1>r, <2>1, <2>2 DEF Told, Served
  <2> QED BY <1>r, <1>s, <2>1, <2>3, PutTold DEF n
<1>5. CASE Leave(c)
  BY <1>5, <1>r, <1>s, ClosedTold, PutTold DEF Leave
<1>6. CASE Finish(c)
  <2> DEFINE told == CASE r.kind = "term" -> BrowserCloseFor(r.end, row[r.m])
                       [] r.kind = "ssh" -> SshCloseFor(r.end, row[r.m])
                       [] OTHER -> "dropped"
  <2>1. r.pc = "ended" /\ OverBy(c, r.end, told)
    BY <1>6 DEF Finish, At, Refresh, NoFail, Over
  <2>2. told = "machine_stopped" => ~row[r.m]
    BY DEF BrowserCloseFor, SshCloseFor
  <2>3. r.end = "stopped" /\ told \in {"internal", "normal"} => row[r.m]
    BY DEF BrowserCloseFor, SshCloseFor
  <2> HIDE DEF told
  <2> QED BY <1>r, <1>s, <2>1, <2>2, <2>3, OverTold DEF Served
<1>7. CASE ~Refuse(c) /\ SessionOwner(c)
  <2> DEFINE n == [r EXCEPT !.pc = "machine"]
  <2>1. r.pc = "session" /\ Put(c, n)
    BY <1>7 DEF SessionOwner, At
  <2>2. n.pc = "machine" /\ n.m = r.m /\ n.end = r.end /\ n.code = r.code
    BY <1>r DEF Shape, Fields
  <2> HIDE DEF n
  <2>3. Told(n)
    BY <1>r, <2>1, <2>2, StepTold DEF Served
  <2> QED BY <1>r, <1>s, <2>1, <2>3, PutTold
<1>8. CASE ~Refuse(c) /\ Hijack(c)
  <2> DEFINE n == [r EXCEPT !.pc = "relay", !.wire = "open", !.reg = TRUE]
  <2>1. r.pc = "upgrade" /\ Put(c, n)
    BY <1>8 DEF Hijack, At
  <2>2. n.pc = "relay" /\ n.m = r.m /\ n.end = r.end /\ n.code = r.code /\ n.offs = r.offs
    BY <1>r DEF Shape, Fields
  <2> HIDE DEF n
  <2>3. Told(n)
    BY <1>r, <2>1, <2>2, StepTold DEF Served
  <2> QED BY <1>r, <1>s, <2>1, <2>3, PutTold
<1> QED BY <1>0, <1>1, <1>2, <1>3, <1>4, <1>5, <1>6, <1>7, <1>8

LEMMA RequestTold ==
    ASSUME IInv, CInv, NEW c \in Conns,
           \/ \E s \in Sessions, m \in Machines, kind \in {"term", "ssh"} : Authenticate(c, kind, s, m)
           \/ \E m \in Machines : AuthenticateBearer(c, m)
           \/ \E o \in Origins : Proxy(c, o)
    PROVE  CInv'
<1>1. UNCHANGED <<row, vm, offs>>
  BY DEF Authenticate, AuthenticateBearer, Proxy, others
<1>2. ASSUME NEW n, Put(c, n), n.pc \in {"auth", "session"}, n.m \in Machines, n.end = "none", n.code = "none"
      PROVE  CInv'
  <2>1. Told(n)
    BY <1>2 DEF Told, Served
  <2> QED BY <1>1, <1>2, <2>1, PutTold DEF IInv
<1>3. ASSUME NEW s \in Sessions, NEW m \in Machines, NEW kind \in {"term", "ssh"}, Authenticate(c, kind, s, m) PROVE CInv'
  <2> DEFINE n == [Unused EXCEPT !.kind = kind, !.pc = "auth", !.sess = s, !.m = m, !.on = sshOn]
  <2>1. n.pc = "auth" /\ n.m = m /\ n.end = "none" /\ n.code = "none"
    BY DEF Unused
  <2>2. Put(c, n)
    BY <1>3 DEF Authenticate
  <2> HIDE DEF n
  <2> QED BY <1>2, <2>1, <2>2
<1>4. ASSUME NEW m \in Machines, AuthenticateBearer(c, m) PROVE CInv'
  <2>1. PICK on : Put(c, [Unused EXCEPT !.kind = "ssh", !.pc = "auth", !.m = m, !.on = on])
    BY <1>4 DEF AuthenticateBearer
  <2> DEFINE n == [Unused EXCEPT !.kind = "ssh", !.pc = "auth", !.m = m, !.on = on]
  <2>2. n.pc = "auth" /\ n.m = m /\ n.end = "none" /\ n.code = "none"
    BY DEF Unused
  <2>3. Put(c, n)
    BY <2>1
  <2> HIDE DEF n
  <2> QED BY <1>2, <2>2, <2>3
<1>5. ASSUME NEW o \in Origins, Proxy(c, o) PROVE CInv'
  <2> DEFINE n == [Unused EXCEPT !.kind = "web", !.pc = "session", !.sess = cookies[o].sess, !.m = o[1], !.port = o[2]]
  <2>1. n.pc = "session" /\ n.m = o[1] /\ n.end = "none" /\ n.code = "none"
    BY DEF Unused
  <2>2. Put(c, n)
    BY <1>5 DEF Proxy
  <2>3. o[1] \in Machines
    BY DEF Origins
  <2> HIDE DEF n
  <2> QED BY <1>2, <2>1, <2>2, <2>3
<1> QED BY <1>3, <1>4, <1>5

\* A logout closes wires; the code of a connection that is over stays.
LEMMA CloseOneTold == ASSUME IInv, CInv, NEW s \in Sessions, NEW c \in Conns, CloseOne(s, c) PROVE CInv'
<1> DEFINE q == Closed(conns[c], "session_revoked")
           n == [q EXCEPT !.reg = IF conns[c].kind = "web" THEN FALSE ELSE @]
<1>1. Told(q) /\ Shape(q)
  BY ClosedTold, ClosedFields DEF IInv, CInv, Guarded
<1>2. Put(c, n) /\ UNCHANGED <<row, vm, offs>>
  BY DEF CloseOne, others
<1> HIDE DEF q
<1>3. n.pc = q.pc /\ n.m = q.m /\ n.end = q.end /\ n.code = q.code /\ n.offs = q.offs
  BY <1>1 DEF Shape, Fields
<1> HIDE DEF n
<1>4. Told(n)
  BY <1>1, <1>3 DEF Told
<1> QED BY <1>2, <1>4, PutTold DEF IInv

\* A machine that leaves running has stopped once more; one that goes down after its
\* row has left running has been counted.
LEMMA MachineTold == ASSUME CInv, NEW m \in Machines, Stop(m) \/ Down(m) \/ Start(m) PROVE CInv'
<1>1. MachineTables' /\ conns' = conns
  <2>1. CASE Stop(m)
    BY <2>1 DEF CInv, MachineTables, Stop
  <2>2. CASE Down(m)
    BY <2>2 DEF CInv, MachineTables, Down
  <2>3. CASE Start(m)
    BY <2>3 DEF CInv, MachineTables, Start
  <2> QED BY <2>1, <2>2, <2>3
<1>2. ASSUME NEW k \in Machines
      PROVE  /\ offs'[k] >= offs[k]
             /\ ~row'[k] /\ row[k] => offs'[k] = offs[k] + 1
             /\ ~vm'[k] /\ vm[k] => ~row[k] \/ offs'[k] = offs[k] + 1
             /\ row'[k] /\ ~row[k] => vm'[k]
             /\ vm'[k] /\ ~vm[k] => row'[k]
  <2>1. CASE Stop(m)
    BY <2>1 DEF CInv, MachineTables, Stop
  <2>2. CASE Down(m)
    BY <2>2 DEF CInv, MachineTables, Down
  <2>3. CASE Start(m)
    BY <2>3 DEF CInv, MachineTables, Start
  <2> QED BY <2>1, <2>2, <2>3
<1>3. ASSUME NEW c \in Conns PROVE Told(conns[c])'
  <2> DEFINE r == conns[c]
  <2>1. Told(r)
    BY DEF CInv
  <2>2. r.m \in Machines => offs[r.m] \in Int /\ offs'[r.m] \in Int
    BY <1>1 DEF CInv, MachineTables
  <2>3. r.pc \in Served => r.m \in Machines /\ r.offs \in Int /\ offs'[r.m] >= r.offs /\ (~row'[r.m] \/ ~vm'[r.m] => offs'[r.m] > r.offs)
    <3> SUFFICES ASSUME r.pc \in Served
                 PROVE  r.m \in Machines /\ r.offs \in Int /\ offs'[r.m] >= r.offs /\ (~row'[r.m] \/ ~vm'[r.m] => offs'[r.m] > r.offs)
      OBVIOUS
    <3>1. r.m \in Machines /\ r.offs \in Int /\ offs[r.m] >= r.offs /\ (~row[r.m] \/ ~vm[r.m] => offs[r.m] > r.offs)
      BY <2>1 DEF Told, Served
    <3>2. offs[r.m] \in Int /\ offs'[r.m] \in Int /\ row[r.m] \in BOOLEAN /\ vm[r.m] \in BOOLEAN
      BY <1>1, <3>1 DEF CInv, MachineTables
    <3> QED BY <1>2, <3>1, <3>2
  <2>4. r.end = "stopped" \/ r.code = "machine_stopped" => r.m \in Machines /\ r.offs \in Int /\ offs'[r.m] > r.offs
    BY <1>2, <2>1, <2>2 DEF Told
  <2>5. r.pc = "over" /\ r.end = "stopped" /\ r.code \in {"internal", "normal"} => row'[r.m] \/ offs'[r.m] > r.offs + 1
    BY <1>2, <2>1, <2>2 DEF Told
  <2> QED BY <1>1, <2>1, <2>3, <2>4, <2>5 DEF Told
<1> QED BY <1>1, <1>3 DEF CInv

LEMMA ToldOtherwise == ASSUME CInv, UNCHANGED <<row, vm, offs, conns>> PROVE CInv'
<1>1. ASSUME NEW c \in Conns PROVE Told(conns[c])'
  BY DEF CInv, Told
<1> QED BY <1>1 DEF CInv, MachineTables

LEMMA ToldInit == Init => CInv
<1> SUFFICES ASSUME Init PROVE CInv
  OBVIOUS
<1>1. MachineTables
  BY DEF Init, MachineTables
<1>2. ASSUME NEW c \in Conns PROVE Told(conns[c])
  BY UnusedTold DEF Init
<1> QED BY <1>1, <1>2 DEF CInv

LEMMA ToldInductive == ASSUME NoFail, IInv, CInv, [Next]_vars PROVE CInv'
<1>1. CASE \E m \in Machines : Stop(m) \/ Down(m) \/ Start(m)
  BY <1>1, MachineTold
<1>2. CASE \/ SwitchOff \/ UNCHANGED vars
           \/ \E s \in Sessions : Revoke(s) \/ SessionRevoked(s) \/ RevokeDone(s) \/ (\E o \in Origins : Mint(s, o[1], o[2]))
           \/ \E t \in tokens : \E o \in Origins : HandleAuth(t, o)
  <2>1. UNCHANGED <<row, vm, offs, conns>>
    BY <1>2 DEF SwitchOff, vars, Revoke, SessionRevoked, RevokeDone, Mint, HandleAuth, others
  <2> QED BY <2>1, ToldOtherwise
<1>3. CASE \E s \in Sessions, c \in Conns : CloseOne(s, c)
  BY <1>3, CloseOneTold
<1>4. ASSUME NEW c \in Conns,
             \/ \E s \in Sessions, m \in Machines, kind \in {"term", "ssh"} : Authenticate(c, kind, s, m)
             \/ \E m \in Machines : AuthenticateBearer(c, m)
             \/ \E o \in Origins : Proxy(c, o)
      PROVE  CInv'
  BY <1>4, RequestTold
<1>5. ASSUME NEW c \in Conns,
             \/ Resolve(c) \/ Accept(c) \/ Dial(c) \/ Handshake(c) \/ GuestEnds(c) \/ Leave(c) \/ ClientEnds(c) \/ Finish(c)
             \/ SessionOwner(c) \/ MachineOwner(c) \/ Hijack(c)
      PROVE  CInv'
  BY <1>5, ConnectionTold
<1> QED BY <1>1, <1>2, <1>3, <1>4, <1>5 DEF Next

\* browserCloseFor, sshCloseFor, closeForDialError: if reads of the machine succeed, a
\* client is told that the machine stopped only if it has since the request, and one
\* whose relay the stop ended is told so unless the machine has been started again.
THEOREM ClientIsTold == ASSUME Apart, NoFail PROVE Spec => []CloseTells
<1>1. Init => CInv
  BY ToldInit
<1>2. IInv /\ CInv /\ [Next]_vars => CInv'
  BY ToldInductive
<1>3. CInv => CloseTells
  BY DEF CInv, Told, CloseTells
<1> QED BY <1>1, <1>2, <1>3, Invariant, PTL DEF Spec

-----------------------------------------------------------------------------
(***************************************************************************)
(* The token buckets (RateLimit).  A bucket accounts for what passed: what *)
(* it holds and what it let through since any instant is no more than the  *)
(* burst and the refill since then (Spent), and no less than the burst     *)
(* overall (Unspent).  Nothing passes without the bucket taking the time   *)
(* (Still).                                                                *)
(***************************************************************************)
LimitSizes == Unit \in Nat /\ Capacity \in Nat /\ Rate \in Nat /\ LimitClock \in Nat

Instants == 0 .. LimitClock

LimitTypes ==
    /\ now \in Instants
    /\ DOMAIN buckets \subseteq Keys
    /\ \A k \in DOMAIN buckets : buckets[k] \in [tokens : 0 .. Capacity, last : 0 .. now]
    /\ passed \in [Keys -> [Instants -> Nat]]
    /\ \A k \in Keys \ DOMAIN buckets : \A t \in Instants : passed[k][t] = 0

\* What the bucket of k, holding n tokens since instant at, says of the counts p.
Still(p, at) == \A t \in Instants : t >= at => p[t] = p[at]
Since(p, a) == IF a = 0 THEN 0 ELSE p[a - 1]
Spent(p, n, at) == \A a \in 0 .. at : Unit * (p[at] - Since(p, a)) + n <= Capacity + (at - a) * Rate
Unspent(p, n, at) == n + Unit * p[at] >= Capacity
Accounts(p, b) == Still(p, b.last) /\ Spent(p, b.tokens, b.last) /\ Unspent(p, b.tokens, b.last)

LimitInv == LimitTypes /\ (\A k \in DOMAIN buckets : Accounts(passed[k], buckets[k])) /\ R!RateHolds

LEMMA Adds == \A x, y, z, r \in Int : (x - y) * r + (y - z) * r = (x - z) * r
  OBVIOUS
LEMMA Scales == \A x, y \in Int, r \in Nat : x <= y => x * r <= y * r
  OBVIOUS
LEMMA OneMore == \A x, y \in Int, r \in Nat : r * ((x + 1) - y) = r * (x - y) + r
  OBVIOUS

\* A new bucket is full and nothing has passed.
LEMMA NewAccounts ==
    ASSUME LimitSizes, NEW p \in [Instants -> Nat], \A t \in Instants : p[t] = 0, now \in Instants
    PROVE  Accounts(p, R!NewBucket)
  <1>1. R!NewBucket.tokens = Capacity /\ R!NewBucket.last = now
    BY DEF R!NewBucket
  <1>2. Still(p, now)
    BY DEF Still
  <1>3. Spent(p, Capacity, now)
    <2> SUFFICES ASSUME NEW a \in 0 .. now PROVE Unit * (p[now] - Since(p, a)) + Capacity <= Capacity + (now - a) * Rate
      BY DEF Spent
    <2>1. p[now] = 0 /\ Since(p, a) = 0
      BY DEF Since, Instants, LimitSizes
    <2>2. Unit * 0 = 0 /\ (now - a) * Rate >= 0 /\ (now - a) * Rate \in Nat
      BY Scales DEF LimitSizes, Instants
    <2> QED BY <2>1, <2>2 DEF LimitSizes
  <1>4. Unspent(p, Capacity, now)
    BY DEF Unspent, LimitSizes
  <1> QED BY <1>1, <1>2, <1>3, <1>4 DEF Accounts

\* A refill accounts for the time that has passed.
LEMMA RefillAccounts ==
    ASSUME LimitSizes, now \in Instants, NEW p \in [Instants -> Nat],
           NEW b \in [tokens : 0 .. Capacity, last : 0 .. now], Accounts(p, b)
    PROVE  LET n == R!Refilled(b) IN n \in 0 .. Capacity /\ Still(p, now) /\ Spent(p, n, now) /\ Unspent(p, n, now)
  <1> DEFINE n == R!Refilled(b)
             in == (now - b.last) * Rate
  <1>1. b.tokens \in 0 .. Capacity /\ b.last \in 0 .. now /\ now - b.last \in Nat /\ b.last \in Instants
    BY DEF Instants, LimitSizes
  <1>2. in \in Nat
    BY <1>1, Scales DEF LimitSizes
  <1> HIDE DEF in
  <1>3. n = IF b.tokens + in > Capacity THEN Capacity ELSE b.tokens + in
    BY DEF R!Refilled, in
  <1>4. n \in 0 .. Capacity /\ n <= b.tokens + in /\ (n = Capacity \/ n >= b.tokens)
    BY <1>1, <1>2, <1>3 DEF LimitSizes
  <1> HIDE DEF n
  <1>5. Still(p, now)
    BY <1>1 DEF Accounts, Still, Instants, LimitSizes
  <1>6. p[now] = p[b.last]
    BY <1>1 DEF Accounts, Still, Instants, LimitSizes
  <1>7. Spent(p, n, now)
    <2> SUFFICES ASSUME NEW a \in 0 .. now PROVE Unit * (p[now] - Since(p, a)) + n <= Capacity + (now - a) * Rate
      BY DEF Spent
    <2>1. Since(p, a) \in Nat /\ p[now] \in Nat
      BY DEF Since, Instants, LimitSizes
    <2>2. CASE a <= b.last
      <3>1. Unit * (p[b.last] - Since(p, a)) + b.tokens <= Capacity + (b.last - a) * Rate
        BY <1>1, <2>2 DEF Accounts, Spent, LimitSizes, Instants
      <3>2. in + (b.last - a) * Rate = (now - a) * Rate
        BY <1>1, Adds DEF in, LimitSizes, Instants
      <3>3. /\ b.last - a \in Int /\ now - a \in Int /\ p[now] - Since(p, a) \in Int
            /\ Rate \in Int /\ Unit \in Int
        BY <1>1, <2>1 DEF LimitSizes, Instants
      <3>4. (b.last - a) * Rate \in Int /\ (now - a) * Rate \in Int /\ Unit * (p[now] - Since(p, a)) \in Int
        BY <3>3
      <3> QED BY <1>1, <1>2, <1>4, <1>6, <3>1, <3>2, <3>4 DEF LimitSizes
    <2>3. CASE a > b.last
      <3>1. Since(p, a) = p[now]
        BY <1>1, <1>6, <2>3 DEF Since, Accounts, Still, Instants, LimitSizes
      <3>2. Unit * (p[now] - Since(p, a)) = 0
        BY <2>1, <3>1 DEF LimitSizes
      <3>3. (now - a) * Rate \in Nat
        BY Scales DEF LimitSizes, Instants
      <3> QED BY <1>4, <3>2, <3>3 DEF LimitSizes
    <2> QED BY <1>1, <2>2, <2>3 DEF LimitSizes, Instants
  <1>8. Unspent(p, n, now)
    <2>1. Unit * p[now] \in Nat
      BY DEF LimitSizes
    <2>2. b.tokens + Unit * p[now] >= Capacity
      BY <1>6 DEF Accounts, Unspent
    <2> QED BY <1>1, <1>4, <2>1, <2>2 DEF Unspent, LimitSizes
  <1> QED BY <1>4, <1>5, <1>7, <1>8 DEF n

\* A request that passes costs a token.
LEMMA PassAccounts ==
    ASSUME LimitSizes, now \in Instants, NEW p \in [Instants -> Nat], NEW n \in Nat,
           Still(p, now), Spent(p, n, now), Unspent(p, n, now)
    PROVE  LET q == R!Counted(p) IN
           q \in [Instants -> Nat] /\ Still(q, now) /\ Spent(q, n - Unit, now) /\ Unspent(q, n - Unit, now)
  <1> DEFINE q == R!Counted(p)
  <1>1. q \in [Instants -> Nat] /\ \A t \in Instants : q[t] = IF t >= now THEN p[t] + 1 ELSE p[t]
    BY DEF R!Counted, Instants, LimitSizes
  <1> HIDE DEF q
  <1>2. Still(q, now)
    BY <1>1 DEF Still, Instants, LimitSizes
  <1>3. q[now] = p[now] + 1 /\ p[now] \in Nat
    BY <1>1 DEF Instants, LimitSizes
  <1>4. ASSUME NEW a \in 0 .. now
        PROVE  Unit * (q[now] - Since(q, a)) + (n - Unit) <= Capacity + (now - a) * Rate
    <2>1. Since(q, a) = Since(p, a) /\ Since(p, a) \in Nat
      BY <1>1 DEF Since, Instants, LimitSizes
    <2>2. Unit * (q[now] - Since(q, a)) = Unit * (p[now] - Since(p, a)) + Unit
      BY <1>3, <2>1, OneMore DEF LimitSizes
    <2>3. Unit * (p[now] - Since(p, a)) + n <= Capacity + (now - a) * Rate
      BY DEF Spent
    <2>4. Unit * (p[now] - Since(p, a)) \in Int /\ (now - a) * Rate \in Int
      BY <1>3, <2>1 DEF LimitSizes, Instants
    <2> QED BY <2>2, <2>3, <2>4 DEF LimitSizes
  <1>5. (n - Unit) + Unit * q[now] >= Capacity
    <2>1. Unit * q[now] = Unit * p[now] + Unit
      BY <1>3 DEF LimitSizes
    <2>2. Unit * p[now] \in Int
      BY <1>3 DEF LimitSizes
    <2> QED BY <2>1, <2>2 DEF Unspent, LimitSizes
  <1> QED BY <1>1, <1>2, <1>4, <1>5 DEF q, Spent, Unspent

\* The rate holds for a key whose bucket has just taken the time, if it held before.
LEMMA RateKept ==
    ASSUME LimitSizes, now \in Instants, NEW p \in [Instants -> Nat], NEW q \in [Instants -> Nat],
           NEW n \in Nat, Still(q, now), Spent(q, n, now),
           \A t \in Instants : t < now => q[t] = p[t],
           NEW a \in Instants, NEW b \in a .. LimitClock,
           Unit * (p[b] - Since(p, a)) <= Capacity + (b - a) * Rate
    PROVE  Unit * (q[b] - Since(q, a)) <= Capacity + (b - a) * Rate
  <1>1. /\ b \in Instants /\ Since(q, a) \in Nat /\ q[b] \in Nat /\ q[now] \in Nat /\ b - a \in Nat
        /\ a \in Int /\ now \in Int
    BY DEF Since, Instants, LimitSizes
  <1>2. CASE b < now
    BY <1>1, <1>2 DEF Since, Instants, LimitSizes
  <1>3. CASE b >= now /\ a <= now
    <2>1. q[b] = q[now]
      BY <1>1, <1>3 DEF Still
    <2>2. Unit * (q[now] - Since(q, a)) + n <= Capacity + (now - a) * Rate
      BY <1>1, <1>3 DEF Spent, Instants
    <2>3. (now - a) * Rate <= (b - a) * Rate
      BY <1>1, <1>3, Scales DEF LimitSizes
    <2>4. (now - a) * Rate \in Int /\ (b - a) * Rate \in Int /\ Unit * (q[now] - Since(q, a)) \in Int
      BY <1>1 DEF LimitSizes
    <2> QED BY <2>1, <2>2, <2>3, <2>4 DEF LimitSizes
  <1>4. CASE b >= now /\ a > now
    <2>1. q[b] = q[now] /\ Since(q, a) = q[now]
      BY <1>1, <1>4 DEF Still, Since, Instants, LimitSizes
    <2>2. Unit * (q[b] - Since(q, a)) = 0
      BY <1>1, <2>1 DEF LimitSizes
    <2>3. (b - a) * Rate \in Nat
      BY <1>1, Scales DEF LimitSizes
    <2> QED BY <2>2, <2>3 DEF LimitSizes
  <1> QED BY <1>1, <1>2, <1>3, <1>4

LEMMA LimitInit == ASSUME LimitSizes, R!Init PROVE LimitInv
  <1>1. DOMAIN buckets = {} /\ now = 0
    BY DEF R!Init
  <1>2. passed = [k \in Keys |-> [t \in Instants |-> 0]]
    BY DEF R!Init, Instants
  <1>3. LimitTypes
    BY <1>1, <1>2 DEF LimitTypes, Instants, LimitSizes
  <1>4. R!RateHolds
    <2> SUFFICES ASSUME NEW k \in Keys, NEW a \in Instants, NEW b \in a .. LimitClock
                 PROVE  Unit * R!Passed(k, a, b) <= Capacity + (b - a) * Rate
      BY DEF R!RateHolds, Instants
    <2>1. R!Passed(k, a, b) = 0
      BY <1>2 DEF R!Passed, Instants, LimitSizes
    <2>2. Unit * 0 = 0 /\ b - a \in Nat
      BY DEF LimitSizes, Instants
    <2>3. (b - a) * Rate \in Nat
      BY <2>2, Scales DEF LimitSizes
    <2> QED BY <2>1, <2>2, <2>3 DEF LimitSizes
  <1> QED BY <1>1, <1>3, <1>4 DEF LimitInv

LEMMA LimitTickKeeps == ASSUME LimitSizes, LimitInv, R!Tick PROVE LimitInv'
  <1>1. now \in Nat /\ now < LimitClock /\ now' = now + 1 /\ UNCHANGED <<buckets, passed>>
    BY DEF R!Tick, LimitInv, LimitTypes, Instants, LimitSizes
  <1>2. LimitTypes'
    <2>1. ASSUME NEW k \in DOMAIN buckets PROVE buckets[k] \in [tokens : 0 .. Capacity, last : 0 .. now + 1]
      BY <1>1, <2>1 DEF LimitInv, LimitTypes
    <2> QED BY <1>1, <2>1 DEF LimitInv, LimitTypes, Instants, LimitSizes
  <1>3. R!RateHolds'
    BY <1>1 DEF LimitInv, R!RateHolds, R!Passed
  <1>4. \A k \in DOMAIN buckets' : Accounts(passed[k], buckets[k])'
    BY <1>1 DEF LimitInv, Accounts, Still, Spent, Unspent, Since
  <1> QED BY <1>2, <1>3, <1>4 DEF LimitInv

LEMMA AllowKeeps == ASSUME LimitSizes, LimitInv, NEW k \in Keys, R!Allow(k) PROVE LimitInv'
  <1> DEFINE b == R!BucketOf(k)
             n == R!Refilled(b)
             c == IF n < Unit THEN n ELSE n - Unit
             p == passed[k]
             q == IF n < Unit THEN p ELSE R!Counted(p)
  <1>1. now \in Instants /\ p \in [Instants -> Nat] /\ now' = now /\ now \in Nat
    BY DEF LimitInv, LimitTypes, R!Allow, Instants
  <1>2. b \in [tokens : 0 .. Capacity, last : 0 .. now] /\ Accounts(p, b)
    <2>1. CASE k \in DOMAIN buckets
      BY <2>1 DEF LimitInv, LimitTypes, R!BucketOf
    <2>2. CASE k \notin DOMAIN buckets
      <3>1. b = R!NewBucket /\ \A t \in Instants : p[t] = 0
        BY <2>2 DEF R!BucketOf, LimitInv, LimitTypes
      <3>2. R!NewBucket \in [tokens : 0 .. Capacity, last : 0 .. now]
        BY <1>1 DEF R!NewBucket, LimitSizes
      <3> QED BY <1>1, <3>1, <3>2, NewAccounts
    <2> QED BY <2>1, <2>2
  <1> HIDE DEF b
  <1>3. n \in 0 .. Capacity /\ Still(p, now) /\ Spent(p, n, now) /\ Unspent(p, n, now)
    BY <1>1, <1>2, RefillAccounts
  <1> HIDE DEF n
  <1>4. q \in [Instants -> Nat] /\ Still(q, now) /\ Spent(q, c, now) /\ Unspent(q, c, now)
    BY <1>1, <1>3, PassAccounts DEF LimitSizes
  <1>5. c \in 0 .. Capacity
    BY <1>3 DEF LimitSizes
  <1>6. \A t \in Instants : t < now => q[t] = p[t]
    BY <1>1 DEF R!Counted, Instants, LimitSizes
  <1>7. /\ buckets' = [j \in DOMAIN buckets \cup {k} |-> IF j = k THEN [tokens |-> c, last |-> now] ELSE buckets[j]]
        /\ passed' = [passed EXCEPT ![k] = q]
    BY DEF R!Allow, b, n, LimitInv, LimitTypes
  <1> HIDE DEF c, q, p
  <1>8. /\ DOMAIN buckets' = DOMAIN buckets \cup {k} /\ buckets'[k] = [tokens |-> c, last |-> now]
        /\ \A j \in DOMAIN buckets \ {k} : buckets'[j] = buckets[j]
        /\ passed'[k] = q /\ \A j \in Keys \ {k} : passed'[j] = passed[j]
        /\ passed' \in [Keys -> [Instants -> Nat]]
    BY <1>4, <1>7 DEF LimitInv, LimitTypes
  <1>9. LimitTypes'
    <2>1. buckets'[k] \in [tokens : 0 .. Capacity, last : 0 .. now]
      BY <1>1, <1>5, <1>8
    <2>2. \A j \in DOMAIN buckets' : buckets'[j] \in [tokens : 0 .. Capacity, last : 0 .. now]
      BY <1>8, <2>1 DEF LimitInv, LimitTypes
    <2>3. DOMAIN buckets' \subseteq Keys /\ \A j \in Keys \ DOMAIN buckets' : \A t \in Instants : passed'[j][t] = 0
      BY <1>8 DEF LimitInv, LimitTypes
    <2> QED BY <1>1, <1>8, <2>2, <2>3 DEF LimitTypes
  <1>10. ASSUME NEW j \in DOMAIN buckets' PROVE Accounts(passed'[j], buckets'[j])
    BY <1>4, <1>8, <1>10 DEF Accounts, LimitInv, LimitTypes
  <1>11. R!RateHolds'
    <2> SUFFICES ASSUME NEW j \in Keys, NEW a \in Instants, NEW z \in a .. LimitClock
                 PROVE  Unit * (passed'[j][z] - Since(passed'[j], a)) <= Capacity + (z - a) * Rate
      BY DEF R!RateHolds, R!Passed, Since, Instants
    <2>1. Unit * (passed[j][z] - Since(passed[j], a)) <= Capacity + (z - a) * Rate
      BY DEF LimitInv, R!RateHolds, R!Passed, Since, Instants
    <2>2. CASE j = k
      <3>1. c \in Nat /\ Unit * (p[z] - Since(p, a)) <= Capacity + (z - a) * Rate
        BY <1>5, <2>1, <2>2 DEF LimitSizes, p
      <3>2. Unit * (q[z] - Since(q, a)) <= Capacity + (z - a) * Rate
        BY <1>1, <1>4, <1>6, <3>1, RateKept
      <3> QED BY <1>8, <2>2, <3>2
    <2>3. CASE j # k
      BY <1>8, <2>1, <2>3
    <2> QED BY <2>2, <2>3
  <1>12. \A j \in DOMAIN buckets' : Accounts(passed[j], buckets[j])'
    BY <1>10 DEF Accounts, Still, Spent, Unspent, Since
  <1> QED BY <1>9, <1>11, <1>12 DEF LimitInv

LEMMA LimitNext == ASSUME LimitSizes, LimitInv, [R!Next]_rvars PROVE LimitInv'
  <1>1. CASE UNCHANGED rvars
    BY <1>1 DEF rvars, LimitInv, LimitTypes, Accounts, Still, Spent, Unspent, Since, R!RateHolds, R!Passed
  <1> QED BY <1>1, LimitTickKeeps, AllowKeeps DEF R!Next

\* What the limiter promises follows.
LEMMA LimitsFollow == ASSUME LimitSizes, LimitInv PROVE R!RateHolds /\ R!QuietRefills
  <1> SUFFICES ASSUME NEW k \in DOMAIN buckets
               PROVE  /\ (now - buckets[k].last) * Rate >= Capacity => R!Refilled(buckets[k]) = Capacity
                      /\ R!Refilled(buckets[k]) + Unit * passed[k][LimitClock] >= Capacity
    BY DEF LimitInv, R!QuietRefills
  <1> DEFINE b == buckets[k]
             p == passed[k]
  <1>1. now \in Instants /\ b \in [tokens : 0 .. Capacity, last : 0 .. now] /\ p \in [Instants -> Nat] /\ Accounts(p, b)
    BY DEF LimitInv, LimitTypes
  <1> HIDE DEF b, p
  <1>2. R!Refilled(b) \in 0 .. Capacity /\ Still(p, now) /\ Unspent(p, R!Refilled(b), now)
    BY <1>1, RefillAccounts
  <1>3. p[LimitClock] = p[now]
    BY <1>1, <1>2 DEF Still, Instants, LimitSizes
  <1>4. ASSUME (now - b.last) * Rate >= Capacity PROVE R!Refilled(b) = Capacity
    <2>1. b.tokens \in 0 .. Capacity /\ (now - b.last) * Rate \in Int
      BY <1>1 DEF Instants, LimitSizes
    <2> QED BY <1>4, <2>1 DEF R!Refilled, LimitSizes
  <1> QED BY <1>2, <1>3, <1>4 DEF Unspent, b, p

-----------------------------------------------------------------------------
(***************************************************************************)
(* The overview of the admin console (AdminConsole).  While it is put      *)
(* together, the fleet is as far from the total it began with as there     *)
(* were changes since.                                                     *)
(***************************************************************************)
ConsoleSizes == Cap \in Nat /\ MaxFleet \in Nat

View == [pc : {"idle", "users", "list", "done"}, total : Nat, listed : Nat, truncated : BOOLEAN, since : Nat, upto : Nat]

\* x and y are at most d apart.
Near(x, y, d) == x <= y + d /\ y <= x + d

ConsoleInv ==
    /\ fleet \in Nat /\ changes \in Nat /\ view \in View
    /\ view.pc \in {"users", "list"} => view.since <= changes /\ Near(fleet, view.total, changes - view.since)
    /\ A!OverviewAddsUp

LEMMA ConsoleInit == ASSUME ConsoleSizes, A!Init PROVE ConsoleInv
  BY DEF ConsoleSizes, A!Init, A!NoView, ConsoleInv, View, A!OverviewAddsUp

LEMMA ConsoleNext == ASSUME ConsoleSizes, ConsoleInv, [A!Next]_avars PROVE ConsoleInv'
  <1>1. CASE A!Change
    <2>1. changes' = changes + 1 /\ view' = view
      BY <1>1 DEF A!Change
    <2>2. PICK n \in 0 .. MaxFleet : fleet' = n /\ (n = fleet + 1 \/ n + 1 = fleet)
      BY <1>1 DEF A!Change
    <2>3. view.since \in Nat /\ view.total \in Nat /\ fleet \in Nat /\ changes \in Nat /\ n \in Nat
      BY DEF ConsoleInv, View, ConsoleSizes
    <2>4. A!OverviewAddsUp'
      BY <2>1 DEF ConsoleInv, A!OverviewAddsUp
    <2>5. ASSUME view.pc \in {"users", "list"}
          PROVE  view.since <= changes + 1 /\ Near(n, view.total, (changes + 1) - view.since)
      <3>1. view.since <= changes /\ Near(fleet, view.total, changes - view.since)
        BY <2>5 DEF ConsoleInv
      <3> QED BY <2>2, <2>3, <3>1 DEF Near
    <2> QED BY <2>1, <2>2, <2>3, <2>4, <2>5 DEF ConsoleInv
  <1>2. CASE A!CountMachines
    <2>1. /\ view' = [pc |-> "users", total |-> fleet, listed |-> 0, truncated |-> FALSE, since |-> changes, upto |-> 0]
          /\ UNCHANGED <<fleet, changes>>
      BY <1>2 DEF A!CountMachines, A!NoView
    <2> QED BY <2>1 DEF ConsoleInv, View, Near, A!OverviewAddsUp
  <1>3. CASE A!CountUsers
    BY <1>3 DEF A!CountUsers, ConsoleInv, View, Near, A!OverviewAddsUp
  <1>4. CASE A!ListMachines
    <2> DEFINE cut == A!Listed > Cap
               shown == IF cut THEN Cap ELSE A!Listed
    <2>1. view.pc = "list" /\ UNCHANGED <<fleet, changes>> /\ view \in View /\ fleet \in Nat /\ changes \in Nat
      BY <1>4 DEF A!ListMachines, ConsoleInv
    <2>2. view' = [view EXCEPT !.pc = "done", !.truncated = cut, !.upto = changes, !.listed = shown]
      BY <1>4 DEF A!ListMachines
    <2>3. A!Listed \in Nat /\ (A!Listed > Cap => fleet > Cap) /\ (~(A!Listed > Cap) => A!Listed = fleet)
      BY <2>1 DEF A!Listed, A!Limit, ConsoleSizes
    <2>4. /\ view'.pc = "done" /\ view'.truncated = cut /\ view'.upto = changes
          /\ view'.listed = shown /\ view'.total = view.total /\ view'.since = view.since /\ view' \in View
      <3>1. cut \in BOOLEAN /\ shown \in Nat
        BY <2>3 DEF ConsoleSizes
      <3> HIDE DEF cut, shown
      <3> QED BY <2>1, <2>2, <3>1 DEF View
    <2>5. view.since <= changes /\ Near(fleet, view.total, changes - view.since)
      BY <2>1 DEF ConsoleInv
    <2>6. A!OverviewAddsUp'
      BY <2>1, <2>3, <2>4, <2>5 DEF A!OverviewAddsUp, Near, View, ConsoleSizes
    <2> QED BY <2>1, <2>4, <2>6 DEF ConsoleInv
  <1>5. CASE UNCHANGED avars
    BY <1>5 DEF avars, ConsoleInv, A!OverviewAddsUp
  <1> QED BY <1>1, <1>2, <1>3, <1>4, <1>5 DEF A!Next

-----------------------------------------------------------------------------
(***************************************************************************)
(* The rows behind a credential (Credentials).  A row is written in a step *)
(* after the one that read it, so between the two it may say less than it  *)
(* should.  What holds at every instant is Due: a request that is about to *)
(* write a row has just used it.  From that, a row with no such request    *)
(* around is as fresh as its threshold asks (Slides, Tells).               *)
(***************************************************************************)

\* The tables of sessions and of tokens are apart, their ids are no request's
\* mark of having nothing to write, and times are natural numbers.
CredSizes ==
    /\ Sess \cap Pats = {} /\ C!NoReq \notin Sess \cup Pats /\ "none" \notin Users
    /\ SessionTTL \in Nat /\ RefreshThreshold \in Nat /\ TouchThreshold \in Nat /\ MaxNow \in Nat
    /\ Lives \subseteq Nat

Rows == Sess \cup Pats
Row == [owner : Users \cup {"none"}, live : BOOLEAN, exp : Nat, used : Nat]

CredTypes ==
    /\ time \in Nat
    /\ creds \in [Rows -> Row]
    /\ reqs \in [Requests -> Rows \cup {C!NoReq}]
    /\ last \in [Rows -> Nat]

\* A request that is about to write has used the row at this instant.
Due == \A r \in Requests : reqs[r] # C!NoReq => last[reqs[r]] = time

\* Nothing was done with a token before it was created.
Fresh == \A n \in Pats : creds[n] = C!NoRow => last[n] = C!Never /\ C!Settled(n)

\* SessionSlides, also of a session that is between its read and its write.
Slides ==
    \A n \in Sess : creds[n].live =>
        /\ C!Settled(n) => creds[n].exp + RefreshThreshold >= last[n] + SessionTTL
        /\ creds[n].exp <= last[n] + SessionTTL

\* What LastUsedTells says of the recorded use, of every token.
Tells ==
    \A n \in Pats :
        /\ C!Settled(n) => last[n] <= creds[n].used + TouchThreshold
        /\ creds[n].used <= last[n]

\* No row was used in the future.
Past == \A n \in Rows : last[n] <= time

CredInv == CredTypes /\ Due /\ Fresh /\ Slides /\ Tells /\ Past

LEMMA NewRowType ==
    ASSUME NEW u \in Users, NEW exp \in Nat
    PROVE  C!NewRow(u, exp) \in Row /\ C!NewRow(u, exp) # C!NoRow
<1>1. C!NewRow(u, exp) \in Row
  BY DEF C!NewRow, Row, C!Never
<1>2. C!NewRow(u, exp).live = TRUE /\ C!NoRow.live = FALSE
  BY DEF C!NewRow, C!NoRow
<1> QED BY <1>1, <1>2

\* No row, session or token, was there at the start.
LEMMA CredInit == ASSUME CredSizes, C!Init PROVE CredInv
<1>1. C!NoRow \in Row
  BY DEF C!NoRow, Row, C!Never
<1>2. CredTypes
  BY <1>1 DEF C!Init, CredTypes, Rows, C!Never
<1> QED BY <1>2 DEF C!Init, CredInv, Due, Fresh, Slides, Tells, Past, C!Settled, C!NoRow, C!Never, CredSizes, Rows

\* The clock waits for the requests that are about to write.
LEMMA CredTickKeeps == ASSUME CredSizes, CredInv, C!Tick PROVE CredInv'
  BY DEF C!Tick, CredInv, CredTypes, Due, Fresh, Slides, Tells, Past, C!Settled, CredSizes

\* A new session has its whole life before it.
LEMMA CreateSessionKeeps ==
    ASSUME CredSizes, CredInv, NEW n \in Sess, NEW u \in Users, C!CreateSession(n, u)
    PROVE  CredInv'
<1> DEFINE new == C!NewRow(u, time + SessionTTL)
<1>1. new = [owner |-> u, live |-> TRUE, exp |-> time + SessionTTL, used |-> 0]
  BY DEF C!NewRow, C!Never
<1>2. new \in Row
  <2>1. time + SessionTTL \in Nat
    BY DEF CredInv, CredTypes, CredSizes
  <2> QED BY <2>1, NewRowType
<1>3. /\ creds' = [creds EXCEPT ![n] = new] /\ last' = [last EXCEPT ![n] = time]
      /\ UNCHANGED <<time, reqs>> /\ n \in Rows /\ n \notin Pats
  BY DEF C!CreateSession, C!Create, Rows, CredSizes
<1> HIDE DEF new
<1>4. \A x \in Rows : /\ creds'[x] = IF x = n THEN new ELSE creds[x]
                      /\ last'[x] = IF x = n THEN time ELSE last[x]
  BY <1>3 DEF CredInv, CredTypes
<1>5. CredTypes'
  BY <1>2, <1>3 DEF CredInv, CredTypes
<1>6. Due' /\ Past'
  BY <1>3, <1>4 DEF CredInv, CredTypes, Due, Past
<1>7. Fresh' /\ Tells'
  BY <1>3, <1>4 DEF CredInv, CredTypes, Fresh, Tells, C!Settled, Rows
<1>8. Slides'
  BY <1>1, <1>3, <1>4 DEF CredInv, CredTypes, Slides, C!Settled, Rows, CredSizes
<1> QED BY <1>5, <1>6, <1>7, <1>8 DEF CredInv

\* A new token was never used.
LEMMA CreatePATKeeps ==
    ASSUME CredSizes, CredInv, NEW n \in Pats, NEW u \in Users, NEW life \in Lives, C!CreatePAT(n, u, life)
    PROVE  CredInv'
<1> DEFINE new == C!NewRow(u, IF life = 0 THEN C!Never ELSE time + life)
<1>1. new = [owner |-> u, live |-> TRUE, exp |-> IF life = 0 THEN 0 ELSE time + life, used |-> 0]
  BY DEF C!NewRow, C!Never
<1>2. new \in Row /\ new # C!NoRow
  <2>1. (IF life = 0 THEN C!Never ELSE time + life) \in Nat
    BY DEF CredInv, CredTypes, CredSizes, C!Never
  <2> QED BY <2>1, NewRowType
<1>3. /\ creds' = [creds EXCEPT ![n] = new] /\ UNCHANGED <<time, reqs, last>>
      /\ n \in Rows /\ n \notin Sess /\ creds[n] = C!NoRow
  BY DEF C!CreatePAT, Rows, CredSizes
<1> HIDE DEF new
<1>4. \A x \in Rows : creds'[x] = IF x = n THEN new ELSE creds[x]
  BY <1>3 DEF CredInv, CredTypes
<1>5. CredTypes'
  BY <1>2, <1>3 DEF CredInv, CredTypes
<1>6. Due' /\ Past' /\ Slides'
  BY <1>3, <1>4 DEF CredInv, CredTypes, Due, Past, Slides, C!Settled, Rows
<1>7. Fresh'
  BY <1>2, <1>3, <1>4 DEF CredInv, Fresh, C!Settled, Rows
<1>8. Tells'
  BY <1>1, <1>3, <1>4 DEF CredInv, CredTypes, Fresh, Tells, C!Settled, Rows, C!Never, CredSizes
<1> QED BY <1>5, <1>6, <1>7, <1>8 DEF CredInv

\* A request uses a row; if it is not due, the row is as fresh as it must be.
LEMMA AuthenticateKeeps ==
    ASSUME CredSizes, CredInv, NEW r \in Requests, NEW n \in Rows, C!Authenticate(r, n)
    PROVE  CredInv'
<1> DEFINE due == IF n \in Sess THEN C!SessionDue(n) ELSE C!PatDue(n)
<1>1. /\ reqs[r] = C!NoReq /\ last' = [last EXCEPT ![n] = time] /\ UNCHANGED <<time, creds>>
      /\ reqs' = [reqs EXCEPT ![r] = IF due THEN n ELSE C!NoReq]
      /\ creds[n].live
  BY DEF C!Authenticate, C!SessionAlive, C!PatAlive
<1>2. n # C!NoReq /\ creds[n] # C!NoRow
  BY <1>1 DEF CredSizes, Rows, C!NoRow
<1>3. /\ \A x \in Rows : last'[x] = IF x = n THEN time ELSE last[x]
      /\ \A q \in Requests : reqs'[q] = IF q = r THEN (IF due THEN n ELSE C!NoReq) ELSE reqs[q]
  BY <1>1 DEF CredInv, CredTypes
<1>4. n \in Sess /\ ~due => ~C!SessionDue(n)
  OBVIOUS
<1>5. n \in Pats /\ ~due => ~C!PatDue(n)
  BY DEF CredSizes
<1> HIDE DEF due
<1>6. CredTypes'
  BY <1>1 DEF CredInv, CredTypes
<1>7. Due' /\ Past'
  BY <1>1, <1>3 DEF CredInv, CredTypes, Due, Past
<1>8. \A x \in Rows : C!Settled(x)' => (C!Settled(x) /\ (x = n => ~due))
  BY <1>1, <1>2, <1>3 DEF C!Settled, CredInv, CredTypes, CredSizes, Rows
<1>9. Fresh'
  BY <1>1, <1>2, <1>3 DEF CredInv, Fresh, C!Settled, Rows
<1>10. Slides'
  <2> SUFFICES ASSUME NEW x \in Sess, creds'[x].live
               PROVE  /\ C!Settled(x)' => creds'[x].exp + RefreshThreshold >= last'[x] + SessionTTL
                      /\ creds'[x].exp <= last'[x] + SessionTTL
    BY DEF Slides
  <2>1. /\ x \in Rows /\ creds'[x] = creds[x] /\ creds[x].exp \in Nat
        /\ time \in Nat /\ last[x] \in Nat /\ last[x] <= time
    BY <1>1 DEF CredInv, CredTypes, Rows, Row, Past
  <2>2. CASE x = n
    <3>1. C!Settled(x)' => ~C!SessionDue(x)
      BY <1>4, <1>8, <2>1, <2>2
    <3> QED BY <3>1, <2>1, <2>2, <1>3 DEF CredInv, Slides, C!SessionDue, CredSizes
  <2>3. CASE x # n
    BY <2>1, <2>3, <1>3, <1>8 DEF CredInv, Slides
  <2> QED BY <2>2, <2>3
<1>11. Tells'
  <2> SUFFICES ASSUME NEW x \in Pats
               PROVE  /\ C!Settled(x)' => last'[x] <= creds'[x].used + TouchThreshold
                      /\ creds'[x].used <= last'[x]
    BY DEF Tells
  <2>1. /\ x \in Rows /\ creds'[x] = creds[x] /\ creds[x].used \in Nat
        /\ time \in Nat /\ last[x] \in Nat /\ last[x] <= time
    BY <1>1 DEF CredInv, CredTypes, Rows, Row, Past
  <2>2. CASE x = n
    <3>1. C!Settled(x)' => ~C!PatDue(x)
      BY <1>5, <1>8, <2>1, <2>2
    <3> QED BY <3>1, <2>1, <2>2, <1>3 DEF CredInv, Tells, C!PatDue, CredSizes
  <2>3. CASE x # n
    BY <2>1, <2>3, <1>3, <1>8 DEF CredInv, Tells
  <2> QED BY <2>2, <2>3
<1> QED BY <1>6, <1>7, <1>9, <1>10, <1>11 DEF CredInv

\* The write of a request that is due, by row alone: the row is as fresh as can
\* be, whatever other requests have done since it was read.
LEMMA TouchKeeps ==
    ASSUME CredSizes, CredInv, NEW r \in Requests, C!Touch(r)
    PROVE  CredInv'
<1> DEFINE n == reqs[r]
<1>1. /\ n \in Rows /\ last[n] = time /\ UNCHANGED <<time, last>>
      /\ reqs' = [reqs EXCEPT ![r] = C!NoReq]
      /\ n \in Sess => creds' = [creds EXCEPT ![n].exp = time + SessionTTL]
      /\ n \in Pats => creds' = [creds EXCEPT ![n].used = time]
  BY DEF C!Touch, C!TouchSession, C!TouchPAT, CredInv, CredTypes, Due, Rows, CredSizes
<1>2. /\ \A x \in Rows : creds'[x].live = creds[x].live
      /\ \A x \in Rows : creds'[x].exp = IF x = n /\ n \in Sess THEN time + SessionTTL ELSE creds[x].exp
      /\ \A x \in Rows : creds'[x].used = IF x = n /\ n \in Pats THEN time ELSE creds[x].used
      /\ \A x \in Rows : x # n => creds'[x] = creds[x]
  BY <1>1 DEF CredInv, CredTypes, Rows, Row, CredSizes
<1>3. \A q \in Requests : reqs'[q] = IF q = r THEN C!NoReq ELSE reqs[q]
  BY <1>1 DEF CredInv, CredTypes
<1>4. \A x \in Rows : x # n /\ C!Settled(x)' => C!Settled(x)
  BY <1>1, <1>3 DEF C!Settled, CredInv, CredTypes
<1>5. CredTypes'
  <2>1. time \in Nat /\ time + SessionTTL \in Nat
    BY DEF CredInv, CredTypes, CredSizes
  <2>2. creds' \in [Rows -> Row]
    BY <1>1, <2>1 DEF CredInv, CredTypes, Rows, Row
  <2> QED BY <1>1, <2>2 DEF CredInv, CredTypes
<1>6. Due' /\ Past'
  BY <1>1, <1>3 DEF CredInv, Due, Past
<1>7. Fresh'
  <2>1. n \in Pats => creds[n] # C!NoRow
    BY <1>1 DEF CredInv, Fresh, C!Settled
  <2> SUFFICES ASSUME NEW x \in Pats, creds'[x] = C!NoRow
               PROVE  last'[x] = C!Never /\ C!Settled(x)'
    BY DEF Fresh
  <2>2. CASE x = n
    <3>1. time # C!Never => creds'[x].used # C!NoRow.used
      BY <1>1, <1>2, <2>2 DEF C!NoRow, C!Never, Rows
    <3>2. creds[n].used \in Nat /\ creds[n].used <= last[n] /\ last[n] \in Nat
      BY <1>1, <2>2 DEF CredInv, Tells, CredTypes, Row, Rows
    <3>3. time = 0
      BY <3>1 DEF C!Never
    <3>4. creds[n] = C!NoRow
      BY <1>1, <2>2, <3>2, <3>3 DEF CredInv, CredTypes, Row, Rows, C!NoRow, C!Never
    <3> QED BY <3>4, <2>1, <2>2
  <2>3. CASE x # n
    <3>1. creds[x] = C!NoRow /\ last[x] = C!Never /\ C!Settled(x)
      BY <1>2, <2>3 DEF CredInv, Fresh, Rows
    <3>2. x # C!NoReq
      BY DEF CredSizes
    <3> QED BY <1>1, <1>3, <3>1, <3>2 DEF C!Settled
  <2> QED BY <2>2, <2>3
<1>8. Slides'
  <2> SUFFICES ASSUME NEW x \in Sess, creds'[x].live
               PROVE  /\ C!Settled(x)' => creds'[x].exp + RefreshThreshold >= last'[x] + SessionTTL
                      /\ creds'[x].exp <= last'[x] + SessionTTL
    BY DEF Slides
  <2>1. CASE x = n
    <3>1. creds'[x].exp = last'[x] + SessionTTL /\ last'[x] \in Nat
      BY <1>1, <1>2, <2>1 DEF CredInv, CredTypes, Rows
    <3> QED BY <3>1 DEF CredSizes
  <2>2. CASE x # n
    BY <1>1, <1>2, <1>4, <2>2 DEF CredInv, Slides, Rows
  <2> QED BY <2>1, <2>2
<1>9. Tells'
  <2> SUFFICES ASSUME NEW x \in Pats
               PROVE  /\ C!Settled(x)' => last'[x] <= creds'[x].used + TouchThreshold
                      /\ creds'[x].used <= last'[x]
    BY DEF Tells
  <2>1. CASE x = n
    <3>1. creds'[x].used = last'[x] /\ last'[x] \in Nat
      BY <1>1, <1>2, <2>1 DEF CredInv, CredTypes, Rows
    <3> QED BY <3>1 DEF CredSizes
  <2>2. CASE x # n
    BY <1>1, <1>2, <1>4, <2>2 DEF CredInv, Tells, Rows
  <2> QED BY <2>1, <2>2
<1> QED BY <1>5, <1>6, <1>7, <1>8, <1>9 DEF CredInv

\* A revoked row is kept, and counts for nothing that sessions are owed.
LEMMA CredRevokeKeeps ==
    ASSUME CredSizes, CredInv, NEW n \in Rows, NEW u \in Users, C!Revoke(n, u)
    PROVE  CredInv'
<1>1. /\ creds[n].live /\ creds' = [creds EXCEPT ![n].live = FALSE] /\ UNCHANGED <<time, reqs, last>>
      /\ n \in Pats => creds[n].owner = u
  BY DEF C!Revoke
<1>2. \A x \in Rows : /\ creds'[x].exp = creds[x].exp /\ creds'[x].used = creds[x].used
                      /\ creds'[x].owner = creds[x].owner
                      /\ creds'[x].live => creds[x].live
                      /\ x # n => creds'[x] = creds[x]
  BY <1>1 DEF CredInv, CredTypes, Row
<1>3. CredTypes'
  BY <1>1 DEF CredInv, CredTypes, Row
<1>4. Due' /\ Past' /\ Slides' /\ Tells'
  BY <1>1, <1>2 DEF CredInv, Due, Past, Slides, Tells, C!Settled, Rows
<1>5. Fresh'
  <2>1. n \in Pats => creds'[n].owner # C!NoRow.owner
    BY <1>1, <1>2 DEF CredSizes, C!NoRow
  <2>2. \A x \in Pats : creds'[x] = C!NoRow => creds[x] = C!NoRow
    BY <1>2, <2>1 DEF Rows
  <2>3. \A x \in Pats : C!Settled(x)' <=> C!Settled(x)
    BY <1>1 DEF C!Settled
  <2> QED BY <1>1, <2>2, <2>3 DEF CredInv, Fresh
<1> QED BY <1>3, <1>4, <1>5 DEF CredInv

\* Every step keeps the invariant.
LEMMA CredNext == ASSUME CredSizes, CredInv, [C!Next]_cvars PROVE CredInv'
<1>1. CASE UNCHANGED cvars
  BY <1>1 DEF cvars, CredInv, CredTypes, Due, Fresh, Slides, Tells, Past, C!Settled
<1>2. CASE C!Tick
  BY <1>2, CredTickKeeps
<1>3. ASSUME NEW u \in Users, NEW n \in Sess, C!CreateSession(n, u) PROVE CredInv'
  BY <1>3, CreateSessionKeeps
<1>4. ASSUME NEW u \in Users, NEW n \in Pats, NEW life \in Lives, C!CreatePAT(n, u, life) PROVE CredInv'
  BY <1>4, CreatePATKeeps
<1>5. ASSUME NEW u \in Users, NEW n \in Rows, C!Revoke(n, u) PROVE CredInv'
  BY <1>5, CredRevokeKeeps
<1>6. ASSUME NEW r \in Requests, C!Touch(r) PROVE CredInv'
  BY <1>6, TouchKeeps
<1>7. ASSUME NEW r \in Requests, NEW n \in Rows, C!Authenticate(r, n) PROVE CredInv'
  BY <1>7, AuthenticateKeeps
<1> QED BY <1>1, <1>2, <1>3, <1>4, <1>5, <1>6, <1>7 DEF C!Next, Rows

LEMMA CredInvariant == ASSUME CredSizes PROVE C!Spec => []CredInv
<1>1. C!Init => CredInv
  BY CredInit
<1>2. CredInv /\ [C!Next]_cvars => CredInv'
  BY CredNext
<1> QED BY <1>1, <1>2, PTL DEF C!Spec, C!vars, cvars

\* Manager.Authenticate: whoever uses a session keeps all of its life but the
\* threshold, and whoever does not loses it when its life is over, however the
\* requests that use it interleave.
THEOREM SessionsSlide == ASSUME CredSizes PROVE C!Spec => []C!SessionSlides
<1>1. CredInv => C!SessionSlides
  BY DEF CredInv, Slides, C!SessionSlides
<1> QED BY <1>1, CredInvariant, PTL

\* The list of tokens has every token that gets in, and shows its last use up to
\* the threshold.
THEOREM ListedAsUsed == ASSUME CredSizes PROVE C!Spec => []C!LastUsedTells
<1>1. CredInv => C!LastUsedTells
  BY DEF CredInv, Tells, C!LastUsedTells, C!ListTokens, C!PatAlive
<1> QED BY <1>1, CredInvariant, PTL

-----------------------------------------------------------------------------
(***************************************************************************)
(* Sign-in (SignIn).  An invariant about every resolution under way        *)
(* (Sound): once the IdP has answered, what it said was true no longer ago *)
(* than the resolution takes; a row it has arrived at is of its subject;   *)
(* and its path is the one of its login.  Rows, sessions and cached        *)
(* bearers follow.  All of it holds whatever may fail and overlap.         *)
(***************************************************************************)
SignSizes ==
    /\ S!NoSub \notin Subjects
    /\ Old \in Nat /\ TTL \in Nat /\ Slow \in Nat

Resolved == {"lookup", "update", "list", "link", "create", "done"}
Flow == [kind : {"idle", "login", "bearer"}, pc : Resolved \cup {"idle", "info"}, sub : Subjects \cup {S!NoSub},
         admin : BOOLEAN, row : Nat, login : Nat, next : S!Paths, since : Nat]
UserRow == [sub : Subjects \cup {S!NoSub}, admin : BOOLEAN]
Entry == [row : Nat, admin : BOOLEAN, until : Nat]

SignTypes ==
    /\ clock \in Nat
    /\ idp \in [admins : SUBSET Subjects, live : SUBSET Subjects, roleEnd : [Subjects -> Nat], tokenEnd : [Subjects -> Nat]]
    /\ rows \in Seq(UserRow)
    /\ browser \in [state : Nat, next : S!Paths] /\ asked \in Seq(S!Paths)
    /\ flows \in [Flows -> Flow]
    /\ sess \subseteq [row : Nat, sub : Subjects]
    /\ cache \in [Subjects -> Entry]
    /\ learned \subseteq Subjects

\* A path is where login n asked to land, if that is not the dashboard.
Lands(path, n) == n # 0 => n \in DOMAIN asked /\ (asked[n] # "/" => path = asked[n])

\* Row n is the account of subject s.
IsOf(n, s) == n \in DOMAIN rows /\ rows[n].sub = s

\* The token of s was live, and it had the role, at instant t or later.
WasLive(s, t) == s \in idp.live \/ t <= idp.tokenEnd[s]
HadRole(s, t) == s \in idp.admins \/ t <= idp.roleEnd[s]

Timely(w) == w.sub \in Subjects /\ w.since <= clock /\ clock <= w.since + Slow
Answered(w) ==
    /\ w.kind = "bearer" => WasLive(w.sub, w.since)
    /\ w.admin => HadRole(w.sub, w.since)
    /\ ~w.admin => w.sub \notin idp.admins
Arrived(w) ==
    /\ w.pc \in {"update", "done"} => IsOf(w.row, w.sub)
    /\ w.pc = "link" => w.row \in DOMAIN rows

Sound(w) ==
    /\ w.pc = "idle" => w = S!Idle
    /\ w.pc # "idle" => Timely(w)
    /\ w.pc \in Resolved => Answered(w)
    /\ Arrived(w)
    /\ Lands(w.next, w.login)

\* An entry of the bearer cache is of its subject's row, and as old as its life and
\* the resolution that made it.
Kept(s, e) ==
    e.row # 0 =>
        /\ IsOf(e.row, s)
        /\ e.until <= clock + TTL
        /\ s \in idp.live \/ e.until <= idp.tokenEnd[s] + TTL + Slow
        /\ e.admin => s \in idp.admins \/ e.until <= idp.roleEnd[s] + TTL + Slow

OneRow == \A m, n \in DOMAIN rows : rows[m].sub = rows[n].sub /\ rows[m].sub # S!NoSub => m = n

SignInv ==
    /\ SignTypes /\ OneRow
    /\ \A f \in Flows : Sound(flows[f])
    /\ \A s \in sess : IsOf(s.row, s.sub)
    /\ \A s \in Subjects : Kept(s, cache[s])
    /\ Lands(browser.next, browser.state)

(***************************************************************************)
(* That a withdrawn role is gone with the next sign-in needs more: no      *)
(* grant changes between the IdP's answer and the row that mirrors it, and *)
(* the row is written (Steady).                                            *)
(***************************************************************************)
Steady == "overlap" \notin SignInMay /\ "fail" \notin SignInMay

RoleInv ==
    /\ \A f \in Flows : flows[f].pc \in Resolved /\ flows[f].admin => flows[f].sub \in idp.admins
    /\ \A f \in Flows : flows[f].pc = "done" /\ ~flows[f].admin => ~rows[flows[f].row].admin
    /\ \A n \in DOMAIN rows : rows[n].sub \in learned \ idp.admins => ~rows[n].admin

-----------------------------------------------------------------------------
\* What a step may do to the state that a resolution relies on: paths asked for stay,
\* rows stay their subjects', and what the IdP withdraws it withdraws now.
Carries ==
    /\ \A n \in DOMAIN asked : n \in DOMAIN asked' /\ asked'[n] = asked[n]
    /\ DOMAIN rows \subseteq DOMAIN rows'
    /\ \A n \in DOMAIN rows : rows[n].sub # S!NoSub => rows'[n].sub = rows[n].sub
    /\ idp'.admins \subseteq idp.admins
    /\ \A s \in Subjects : \A t \in Nat : t <= clock =>
          /\ WasLive(s, t) => s \in idp'.live \/ t <= idp'.tokenEnd[s]
          /\ HadRole(s, t) => s \in idp'.admins \/ t <= idp'.roleEnd[s]

LEMMA Stays == ASSUME UNCHANGED <<idp, rows, asked>> PROVE Carries
  BY DEF Carries, WasLive, HadRole

LEMMA IdleSound == S!Idle \in Flow /\ S!Idle.pc = "idle" /\ S!Idle.login = 0 /\ Sound(S!Idle)
  <1>1. S!Idle \in Flow /\ S!Idle.pc = "idle" /\ S!Idle.login = 0
    BY DEF S!Idle, Flow, Resolved, S!Paths
  <1> QED BY <1>1 DEF Sound, Resolved, Arrived, Lands

\* A resolution that does not move stays sound.
LEMMA OtherSound ==
    ASSUME SignSizes, SignInv, Carries, NEW f \in Flows, flows'[f] = flows[f],
           clock' = clock \/ (clock' = clock + 1 /\ (flows[f] # S!Idle => clock < flows[f].since + Slow))
    PROVE  Sound(flows[f])'
  <1> DEFINE w == flows[f]
  <1>1. w \in Flow /\ Sound(w) /\ clock \in Nat /\ w.since \in Nat /\ w.login \in Nat
    BY DEF SignInv, SignTypes, Flow
  <1>2. w.pc # "idle" => w.sub \in Subjects /\ w.since <= clock
    BY <1>1 DEF Sound, Timely
  <1>3. w.pc # "idle" => Timely(w)'
    <2> SUFFICES ASSUME w.pc # "idle" PROVE w.sub \in Subjects /\ w.since <= clock' /\ clock' <= w.since + Slow
      BY DEF Timely
    <2>1. w # S!Idle /\ w.sub \in Subjects /\ w.since <= clock /\ clock <= w.since + Slow
      BY <1>1, IdleSound DEF Sound, Timely
    <2> QED BY <1>1, <2>1 DEF SignSizes
  <1>4. w.pc \in Resolved => Answered(w)'
    <2> SUFFICES ASSUME w.pc \in Resolved PROVE Answered(w)'
      OBVIOUS
    <2>1. w.pc # "idle" /\ Answered(w)
      BY <1>1 DEF Sound, Resolved
    <2> QED BY <1>1, <1>2, <2>1 DEF Answered, WasLive, HadRole, Carries
  <1>5. Arrived(w)'
    <2>1. w.pc \in {"update", "done", "link"} => w.sub \in Subjects /\ w.sub # S!NoSub
      BY <1>2 DEF SignSizes
    <2> QED BY <1>1, <2>1 DEF Sound, Arrived, IsOf, Carries
  <1>6. Lands(w.next, w.login)'
    BY <1>1 DEF Sound, Lands, Carries
  <1>7. w.pc = "idle" => w = S!Idle
    BY <1>1 DEF Sound
  <1> HIDE DEF w
  <1>8. w' = w
    BY DEF w
  <1> QED BY <1>3, <1>4, <1>5, <1>6, <1>7, <1>8 DEF Sound, w

\* What is kept of the rest when rows only come and get their subjects, and time and
\* the IdP stand still.
LEMMA RestKept ==
    ASSUME SignSizes, SignInv, Carries, UNCHANGED <<clock, idp>>
    PROVE  /\ \A s \in sess : IsOf(s.row, s.sub)'
           /\ \A s \in Subjects : Kept(s, cache[s]) /\ cache'[s] = cache[s] => Kept(s, cache[s])'
  <1>1. \A n, s : IsOf(n, s) /\ s \in Subjects => n \in DOMAIN rows' /\ rows'[n].sub = s
    BY DEF IsOf, Carries, SignSizes
  <1>2. \A s \in sess : s.sub \in Subjects /\ IsOf(s.row, s.sub)
    BY DEF SignInv, SignTypes
  <1>3. ASSUME NEW s \in sess PROVE IsOf(s.row, s.sub)'
    BY <1>1, <1>2, <1>3 DEF IsOf
  <1>4. ASSUME NEW s \in Subjects, Kept(s, cache[s]), cache'[s] = cache[s] PROVE Kept(s, cache[s])'
    BY <1>1, <1>4 DEF Kept, IsOf
  <1> QED BY <1>3, <1>4

\* A resolution moves, or begins or ends, and nothing else does that it relies on.
LEMMA FlowMoves ==
    ASSUME SignSizes, SignInv, NEW f \in Flows, NEW w \in Flow, Sound(w), flows' = [flows EXCEPT ![f] = w],
           UNCHANGED <<clock, idp, rows, asked>>
    PROVE  flows' \in [Flows -> Flow] /\ \A g \in Flows : Sound(flows[g])'
  <1>1. flows \in [Flows -> Flow]
    BY DEF SignInv, SignTypes
  <1>2. flows' \in [Flows -> Flow] /\ flows'[f] = w /\ \A g \in Flows \ {f} : flows'[g] = flows[g]
    BY <1>1
  <1>3. Sound(flows[f])'
    BY <1>2 DEF Sound, Timely, Answered, WasLive, HadRole, Arrived, IsOf, Lands
  <1>4. ASSUME NEW g \in Flows \ {f} PROVE Sound(flows[g])'
    BY <1>2, Stays, OtherSound
  <1> QED BY <1>2, <1>3, <1>4

\* ... and the rest is as it was.
LEMMA FlowStep ==
    ASSUME SignSizes, SignInv, NEW f \in Flows, NEW w \in Flow, Sound(w), S!Put(f, w),
           UNCHANGED <<clock, idp, rows, asked, browser, sess, cache, learned>>
    PROVE  SignInv'
  <1>1. flows' \in [Flows -> Flow] /\ \A g \in Flows : Sound(flows[g])'
    BY FlowMoves DEF S!Put
  <1>2. SignTypes'
    BY <1>1 DEF SignInv, SignTypes
  <1>3. (\A s \in sess : IsOf(s.row, s.sub)') /\ \A s \in Subjects : Kept(s, cache[s])'
    BY Stays, RestKept DEF SignInv
  <1>4. OneRow' /\ Lands(browser.next, browser.state)'
    BY DEF SignInv, OneRow, Lands
  <1>5. \A s \in sess' : IsOf(s.row, s.sub)'
    BY <1>3
  <1> QED BY <1>1, <1>2, <1>3, <1>4, <1>5 DEF SignInv

LEMMA SignInit == ASSUME SignSizes, S!Init PROVE SignInv
  <1>1. /\ clock = 1 /\ sess = {} /\ learned = {} /\ asked = <<>>
        /\ idp = [admins |-> Subjects, live |-> Subjects, roleEnd |-> [s \in Subjects |-> 0], tokenEnd |-> [s \in Subjects |-> 0]]
        /\ rows = [n \in 1 .. Old |-> [sub |-> S!NoSub, admin |-> FALSE]]
        /\ browser = [state |-> 0, next |-> "/"] /\ flows = [f \in Flows |-> S!Idle]
        /\ cache = [s \in Subjects |-> [row |-> 0, admin |-> FALSE, until |-> 0]]
    BY DEF S!Init, S!NoCookies, S!NoEntry
  <1>2. rows \in Seq(UserRow)
    BY <1>1 DEF UserRow, SignSizes
  <1>3. flows \in [Flows -> Flow] /\ \A f \in Flows : Sound(flows[f])
    BY <1>1, IdleSound
  <1>4. SignTypes
    BY <1>1, <1>2, <1>3 DEF SignTypes, S!Paths, Entry
  <1>5. OneRow
    BY <1>1 DEF OneRow
  <1>6. \A s \in Subjects : Kept(s, cache[s])
    BY <1>1 DEF Kept
  <1>7. Lands(browser.next, browser.state)
    BY <1>1 DEF Lands
  <1> QED BY <1>1, <1>3, <1>4, <1>5, <1>6, <1>7 DEF SignInv

\* The IdP answers: the role is as it is now, and a bearer's token is live.
LEMMA GetUserInfoKeeps == ASSUME SignSizes, SignInv, NEW f \in Flows, S!GetUserInfo(f) PROVE SignInv'
  <1> DEFINE w == flows[f]
             has == S!HasRole(w.sub)
             n == [w EXCEPT !.pc = "lookup", !.admin = has]
  <1>1. w \in Flow /\ Sound(w) /\ w.pc = "info"
    BY DEF SignInv, SignTypes, S!GetUserInfo, S!At
  <1>2. UNCHANGED <<clock, idp, rows, asked, browser, sess, cache, learned>>
    BY DEF S!GetUserInfo
  <1>3. CASE S!Put(f, S!Idle)
    BY <1>2, <1>3, IdleSound, FlowStep
  <1>4. CASE S!Put(f, n) /\ (w.kind = "bearer" => w.sub \in idp.live)
    <2>1. n \in Flow /\ n.pc = "lookup" /\ n.sub = w.sub /\ n.since = w.since /\ n.kind = w.kind /\ n.next = w.next /\ n.login = w.login
      <3>1. has \in BOOLEAN
        BY DEF S!HasRole
      <3> HIDE DEF has
      <3> QED BY <1>1, <3>1 DEF Flow, Resolved
    <2>2. n.admin <=> w.sub \in idp.admins
      BY <1>1 DEF Flow, S!HasRole
    <2> HIDE DEF n
    <2>3. Sound(n)
      BY <1>1, <1>4, <2>1, <2>2 DEF Sound, Timely, Answered, WasLive, HadRole, Arrived, Lands
    <2> QED BY <1>2, <1>4, <2>1, <2>3, FlowStep
  <1> QED BY <1>3, <1>4 DEF S!GetUserInfo

\* A resolution that has its answer goes on, to a row of its subject if any.
LEMMA MovesOn ==
    ASSUME SignSizes, SignInv, NEW f \in Flows, flows[f].pc \in Resolved, NEW w \in Flow,
           w.pc \in Resolved, w.sub = flows[f].sub, w.since = flows[f].since, w.kind = flows[f].kind,
           w.admin = flows[f].admin, w.next = flows[f].next, w.login = flows[f].login, Arrived(w)
    PROVE  Sound(w)
  <1>1. Sound(flows[f])
    BY DEF SignInv
  <1>2. w.pc # "idle" /\ flows[f].pc # "idle"
    BY DEF Resolved
  <1> QED BY <1>1, <1>2 DEF Sound, Timely, Answered, Lands

LEMMA GetUserByOIDCKeeps == ASSUME SignSizes, SignInv, NEW f \in Flows, S!GetUserByOIDC(f) PROVE SignInv'
  <1> DEFINE w == flows[f]
  <1>1. w \in Flow /\ w.pc = "lookup" /\ w.pc \in Resolved
    BY DEF SignInv, SignTypes, S!GetUserByOIDC, S!At, Resolved
  <1>2. UNCHANGED <<clock, idp, rows, asked, browser, sess, cache, learned>>
    BY DEF S!GetUserByOIDC
  <1>3. CASE S!RowsOf(w.sub) # {} /\ S!Put(f, [w EXCEPT !.pc = "update", !.row = CHOOSE n \in S!RowsOf(w.sub) : TRUE])
    <2> DEFINE r == CHOOSE n \in S!RowsOf(w.sub) : TRUE
               n == [w EXCEPT !.pc = "update", !.row = r]
    <2>1. r \in S!RowsOf(w.sub)
      BY <1>3
    <2>2. r \in DOMAIN rows /\ rows[r].sub = w.sub /\ r \in Nat
      BY <2>1 DEF S!RowsOf, SignInv, SignTypes
    <2> HIDE DEF r
    <2>3. /\ n \in Flow /\ n.pc = "update" /\ n.sub = w.sub /\ n.since = w.since /\ n.kind = w.kind
          /\ n.admin = w.admin /\ n.next = w.next /\ n.login = w.login /\ n.row = r
      BY <1>1, <2>2 DEF Flow, Resolved
    <2>4. S!Put(f, n)
      BY <1>3 DEF r
    <2> HIDE DEF n
    <2>5. Sound(n)
      BY <1>1, <2>2, <2>3, MovesOn DEF Arrived, IsOf, Resolved
    <2> QED BY <1>2, <2>3, <2>4, <2>5, FlowStep
  <1>4. ASSUME NEW pc \in {"list", "create"}, S!Put(f, [w EXCEPT !.pc = pc]) PROVE SignInv'
    <2> DEFINE n == [w EXCEPT !.pc = pc]
    <2>1. /\ n \in Flow /\ n.pc = pc /\ n.sub = w.sub /\ n.since = w.since /\ n.kind = w.kind
          /\ n.admin = w.admin /\ n.next = w.next /\ n.login = w.login
      BY <1>1 DEF Flow, Resolved
    <2>2. S!Put(f, n)
      BY <1>4
    <2> HIDE DEF n
    <2>3. Sound(n)
      BY <1>1, <2>1, MovesOn DEF Arrived, Resolved
    <2> QED BY <1>2, <2>1, <2>2, <2>3, FlowStep
  <1>5. CASE S!Put(f, [w EXCEPT !.pc = IF w.sub \in Verified THEN "list" ELSE "create"])
    BY <1>4, <1>5
  <1> QED BY <1>3, <1>5 DEF S!GetUserByOIDC

LEMMA ListLinkableKeeps == ASSUME SignSizes, SignInv, NEW f \in Flows, S!ListLinkableUsersByEmail(f) PROVE SignInv'
  <1> DEFINE w == flows[f]
  <1>1. w \in Flow /\ w.pc = "list" /\ w.pc \in Resolved
    BY DEF SignInv, SignTypes, S!ListLinkableUsersByEmail, S!At, Resolved
  <1>2. UNCHANGED <<clock, idp, rows, asked, browser, sess, cache, learned>>
    BY DEF S!ListLinkableUsersByEmail
  <1>3. CASE S!Put(f, S!Idle)
    BY <1>2, <1>3, IdleSound, FlowStep
  <1>4. CASE S!Put(f, [w EXCEPT !.pc = "create"])
    <2> DEFINE n == [w EXCEPT !.pc = "create"]
    <2>1. /\ n \in Flow /\ n.pc = "create" /\ n.sub = w.sub /\ n.since = w.since /\ n.kind = w.kind
          /\ n.admin = w.admin /\ n.next = w.next /\ n.login = w.login
      BY <1>1 DEF Flow, Resolved
    <2>2. S!Put(f, n)
      BY <1>4
    <2> HIDE DEF n
    <2>3. Sound(n)
      BY <1>1, <2>1, MovesOn DEF Arrived, Resolved
    <2> QED BY <1>2, <2>1, <2>2, <2>3, FlowStep
  <1>5. CASE S!Linkable # {} /\ S!Put(f, [w EXCEPT !.pc = "link", !.row = CHOOSE n \in S!Linkable : TRUE])
    <2> DEFINE r == CHOOSE n \in S!Linkable : TRUE
               n == [w EXCEPT !.pc = "link", !.row = r]
    <2>1. r \in S!Linkable
      BY <1>5
    <2>2. r \in DOMAIN rows /\ r \in Nat
      BY <2>1 DEF S!Linkable, S!RowsOf, SignInv, SignTypes
    <2> HIDE DEF r
    <2>3. /\ n \in Flow /\ n.pc = "link" /\ n.sub = w.sub /\ n.since = w.since /\ n.kind = w.kind
          /\ n.admin = w.admin /\ n.next = w.next /\ n.login = w.login /\ n.row = r
      BY <1>1, <2>2 DEF Flow, Resolved
    <2>4. S!Put(f, n)
      BY <1>5 DEF r
    <2> HIDE DEF n
    <2>5. Sound(n)
      BY <1>1, <2>2, <2>3, MovesOn DEF Arrived, Resolved
    <2> QED BY <1>2, <2>3, <2>4, <2>5, FlowStep
  <1> QED BY <1>3, <1>4, <1>5 DEF S!ListLinkableUsersByEmail

\* Rows change under one resolution, which arrives at row r.
LEMMA RowStep ==
    ASSUME SignSizes, SignInv, Carries, NEW f \in Flows, NEW w \in Flow, flows' = [flows EXCEPT ![f] = w],
           flows[f].pc \in Resolved, w.pc = "done", w.sub = flows[f].sub, w.since = flows[f].since,
           w.kind = flows[f].kind, w.admin = flows[f].admin, w.next = flows[f].next, w.login = flows[f].login,
           w.row \in DOMAIN rows', rows'[w.row].sub = w.sub, rows' \in Seq(UserRow), OneRow',
           UNCHANGED <<clock, idp, asked, browser, sess, cache, learned>>
    PROVE  SignInv'
  <1>1. flows' \in [Flows -> Flow] /\ flows'[f] = w /\ \A g \in Flows \ {f} : flows'[g] = flows[g]
    BY DEF SignInv, SignTypes
  <1>2. Sound(flows[f])'
    <2>1. Sound(flows[f]) /\ flows[f].pc # "idle" /\ w.pc # "idle" /\ w.pc \in Resolved
      BY DEF SignInv, Resolved
    <2> QED BY <1>1, <2>1 DEF Sound, Timely, Answered, WasLive, HadRole, Arrived, IsOf, Lands
  <1>3. ASSUME NEW g \in Flows \ {f} PROVE Sound(flows[g])'
    BY <1>1, OtherSound
  <1>4. SignTypes'
    BY <1>1 DEF SignInv, SignTypes
  <1>5. (\A s \in sess' : IsOf(s.row, s.sub)') /\ \A s \in Subjects : Kept(s, cache[s])'
    BY RestKept DEF SignInv
  <1>6. Lands(browser.next, browser.state)'
    BY DEF SignInv, Lands
  <1> QED BY <1>2, <1>3, <1>4, <1>5, <1>6 DEF SignInv

\* The fields of a resolution that is done.
LEMMA DoneFields ==
    ASSUME NEW v \in Flow, NEW r \in Nat
    PROVE  /\ LET w == [v EXCEPT !.pc = "done"] IN
              /\ w \in Flow /\ w.pc = "done" /\ w.row = v.row /\ w.sub = v.sub /\ w.since = v.since
              /\ w.kind = v.kind /\ w.admin = v.admin /\ w.next = v.next /\ w.login = v.login
           /\ LET w == [v EXCEPT !.pc = "done", !.row = r] IN
              /\ w \in Flow /\ w.pc = "done" /\ w.row = r /\ w.sub = v.sub /\ w.since = v.since
              /\ w.kind = v.kind /\ w.admin = v.admin /\ w.next = v.next /\ w.login = v.login
  BY DEF Flow, Resolved

LEMMA UpdateKeeps == ASSUME SignSizes, SignInv, NEW f \in Flows, S!UpdateOIDCUserProfile(f) PROVE SignInv'
  <1> DEFINE w == flows[f]
             n == [w EXCEPT !.pc = "done"]
  <1>1. w \in Flow /\ w.pc = "update" /\ w.pc \in Resolved /\ IsOf(w.row, w.sub) /\ rows \in Seq(UserRow) /\ w.admin \in BOOLEAN
    BY DEF SignInv, SignTypes, S!UpdateOIDCUserProfile, S!At, Resolved, Sound, Arrived, Flow
  <1>2. UNCHANGED <<clock, idp, asked, browser, sess, cache, learned>> /\ flows' = [flows EXCEPT ![f] = n]
    BY DEF S!UpdateOIDCUserProfile, S!Put
  <1>3. rows' = rows \/ rows' = [rows EXCEPT ![w.row] = [rows[w.row] EXCEPT !.admin = w.admin]]
    BY DEF S!UpdateOIDCUserProfile, S!Profile
  <1>4. DOMAIN rows' = DOMAIN rows /\ rows' \in Seq(UserRow) /\ \A m \in DOMAIN rows : rows'[m].sub = rows[m].sub
    <2>1. CASE rows' = rows
      BY <1>1, <2>1
    <2>2. CASE rows' = [rows EXCEPT ![w.row] = [rows[w.row] EXCEPT !.admin = w.admin]]
      <3> DEFINE x == [rows[w.row] EXCEPT !.admin = w.admin]
      <3>1. w.row \in 1 .. Len(rows) /\ rows[w.row] \in UserRow /\ DOMAIN rows = 1 .. Len(rows)
        BY <1>1 DEF IsOf
      <3>2. x \in UserRow /\ x.sub = rows[w.row].sub
        BY <1>1, <3>1 DEF UserRow
      <3> HIDE DEF x
      <3>3. rows' = [rows EXCEPT ![w.row] = x]
        BY <2>2 DEF x
      <3> QED BY <1>1, <3>1, <3>2, <3>3
    <2> QED BY <1>3, <2>1, <2>2
  <1>5. Carries
    BY <1>2, <1>4 DEF Carries, WasLive, HadRole
  <1>6. OneRow'
    BY <1>4 DEF SignInv, OneRow
  <1>7. /\ n \in Flow /\ n.pc = "done" /\ n.row = w.row /\ n.sub = w.sub /\ n.since = w.since
        /\ n.kind = w.kind /\ n.admin = w.admin /\ n.next = w.next /\ n.login = w.login
    BY <1>1, DoneFields
  <1>8. n.row \in DOMAIN rows' /\ rows'[n.row].sub = n.sub
    BY <1>1, <1>4, <1>7 DEF IsOf
  <1> HIDE DEF n
  <1> QED BY <1>1, <1>2, <1>4, <1>5, <1>6, <1>7, <1>8, RowStep

LEMMA LinkKeeps == ASSUME SignSizes, SignInv, NEW f \in Flows, S!LinkUserOIDC(f) PROVE SignInv'
  <1> DEFINE w == flows[f]
             n == [w EXCEPT !.pc = "done"]
             x == [sub |-> w.sub, admin |-> w.admin]
  <1>1. /\ w \in Flow /\ w.pc = "link" /\ w.pc \in Resolved /\ w.row \in DOMAIN rows /\ rows \in Seq(UserRow)
        /\ w.sub \in Subjects /\ w.sub # S!NoSub
    BY DEF SignInv, SignTypes, S!LinkUserOIDC, S!At, Resolved, Sound, Arrived, Timely, SignSizes
  <1>2. UNCHANGED <<clock, idp, asked, browser, sess, cache, learned>>
    BY DEF S!LinkUserOIDC
  <1>3. CASE S!Put(f, S!Idle) /\ UNCHANGED rows
    BY <1>2, <1>3, IdleSound, FlowStep
  <1>4. CASE S!StillFree(w.row) /\ S!IdentityIsFree(w.sub) /\ rows' = [rows EXCEPT ![w.row] = x] /\ S!Put(f, n)
    <2>1. rows[w.row].sub = S!NoSub /\ \A m \in DOMAIN rows : rows[m].sub # w.sub
      BY <1>4 DEF S!StillFree, S!IdentityIsFree, S!RowsOf
    <2>2. x \in UserRow /\ x.sub = w.sub
      BY <1>1 DEF UserRow, Flow
    <2> HIDE DEF x
    <2>3. /\ rows' \in Seq(UserRow) /\ DOMAIN rows' = DOMAIN rows /\ rows'[w.row].sub = w.sub
          /\ \A m \in DOMAIN rows \ {w.row} : rows'[m] = rows[m]
      BY <1>1, <1>4, <2>2
    <2>4. Carries
      BY <1>2, <2>1, <2>3 DEF Carries, WasLive, HadRole
    <2>5. OneRow'
      BY <2>1, <2>3 DEF SignInv, OneRow
    <2>6. /\ n \in Flow /\ n.pc = "done" /\ n.row = w.row /\ n.sub = w.sub /\ n.since = w.since
          /\ n.kind = w.kind /\ n.admin = w.admin /\ n.next = w.next /\ n.login = w.login
      BY <1>1, DoneFields
    <2>7. flows' = [flows EXCEPT ![f] = n]
      BY <1>4 DEF S!Put
    <2> HIDE DEF n
    <2> QED BY <1>1, <1>2, <2>3, <2>4, <2>5, <2>6, <2>7, RowStep
  <1> QED BY <1>3, <1>4 DEF S!LinkUserOIDC

LEMMA CreateKeeps == ASSUME SignSizes, SignInv, NEW f \in Flows, S!CreateOIDCUser(f) PROVE SignInv'
  <1> DEFINE w == flows[f]
             k == Len(rows) + 1
             n == [w EXCEPT !.pc = "done", !.row = k]
             x == [sub |-> w.sub, admin |-> w.admin]
  <1>1. /\ w \in Flow /\ w.pc = "create" /\ w.pc \in Resolved /\ rows \in Seq(UserRow)
        /\ w.sub \in Subjects /\ w.sub # S!NoSub
    BY DEF SignInv, SignTypes, S!CreateOIDCUser, S!At, Resolved, Sound, Arrived, Timely, SignSizes
  <1>2. UNCHANGED <<clock, idp, asked, browser, sess, cache, learned>>
    BY DEF S!CreateOIDCUser
  <1>3. CASE S!Put(f, S!Idle) /\ UNCHANGED rows
    BY <1>2, <1>3, IdleSound, FlowStep
  <1>4. CASE S!IdentityIsFree(w.sub) /\ rows' = Append(rows, x) /\ S!Put(f, n)
    <2>1. \A m \in DOMAIN rows : rows[m].sub # w.sub
      BY <1>4 DEF S!IdentityIsFree, S!RowsOf
    <2>2. x \in UserRow /\ x.sub = w.sub
      BY <1>1 DEF UserRow, Flow
    <2> HIDE DEF x
    <2>3. /\ rows' \in Seq(UserRow) /\ DOMAIN rows = 1 .. Len(rows) /\ DOMAIN rows' = 1 .. Len(rows) + 1 /\ Len(rows) \in Nat
          /\ rows'[Len(rows) + 1] = x /\ \A m \in 1 .. Len(rows) : rows'[m] = rows[m]
      BY <1>1, <1>4, <2>2
    <2>4. Carries
      BY <1>2, <2>3 DEF Carries, WasLive, HadRole
    <2>5. OneRow'
      BY <2>1, <2>2, <2>3 DEF SignInv, OneRow
    <2>8. k \in Nat /\ k \in DOMAIN rows' /\ rows'[k] = x
      BY <2>3
    <2> HIDE DEF k
    <2>6. /\ n \in Flow /\ n.pc = "done" /\ n.row = k /\ n.sub = w.sub /\ n.since = w.since
          /\ n.kind = w.kind /\ n.admin = w.admin /\ n.next = w.next /\ n.login = w.login
      <3>1. w \in Flow /\ k \in Nat
        BY <1>1, <2>8
      <3> HIDE DEF w
      <3> QED BY <3>1, DoneFields
    <2>7. flows' = [flows EXCEPT ![f] = n] /\ n.row \in DOMAIN rows' /\ rows'[n.row].sub = n.sub
      BY <1>4, <2>2, <2>6, <2>8 DEF S!Put, k
    <2> HIDE DEF n
    <2> QED BY <1>1, <1>2, <2>3, <2>4, <2>5, <2>6, <2>7, RowStep
  <1> QED BY <1>3, <1>4 DEF S!CreateOIDCUser

\* A login begins, and its next path is remembered.
LEMMA LoginKeeps == ASSUME SignSizes, SignInv, NEW next \in S!Paths, S!Login(next) PROVE SignInv'
  <1>1. UNCHANGED <<clock, idp, rows, flows, sess, cache, learned>> /\ asked \in Seq(S!Paths) /\ browser \in [state : Nat, next : S!Paths]
    BY DEF S!Login, SignInv, SignTypes
  <1>2. \/ asked' = asked /\ browser' = browser
        \/ asked' = Append(asked, next) /\ browser' = [state |-> Len(asked) + 1, next |-> IF next = "/" THEN browser.next ELSE next]
    BY DEF S!Login, S!SetFlowCookies
  <1>3. asked' \in Seq(S!Paths) /\ browser' \in [state : Nat, next : S!Paths]
    <2> DEFINE p == IF next = "/" THEN browser.next ELSE next
    <2>1. p \in S!Paths /\ Len(asked) + 1 \in Nat
      BY <1>1
    <2> HIDE DEF p
    <2>2. [state |-> Len(asked) + 1, next |-> p] \in [state : Nat, next : S!Paths]
      BY <2>1
    <2>3. Append(asked, next) \in Seq(S!Paths)
      BY <1>1
    <2> QED BY <1>1, <1>2, <2>2, <2>3 DEF p
  <1>4. \A n \in DOMAIN asked : n \in DOMAIN asked' /\ asked'[n] = asked[n]
    BY <1>1, <1>2
  <1>5. Carries
    BY <1>1, <1>4 DEF Carries, WasLive, HadRole
  <1>6. \A f \in Flows : Sound(flows[f])'
    BY <1>1, <1>5, OtherSound
  <1>7. Lands(browser.next, browser.state)'
    <2>1. CASE asked' = asked /\ browser' = browser
      BY <2>1 DEF SignInv, Lands
    <2>2. CASE asked' = Append(asked, next) /\ browser' = [state |-> Len(asked) + 1, next |-> IF next = "/" THEN browser.next ELSE next]
      <3>1. browser'.state = Len(asked) + 1 /\ (next # "/" => browser'.next = next)
        BY <2>2
      <3>2. Len(asked) + 1 \in DOMAIN asked' /\ asked'[Len(asked) + 1] = next
        BY <1>1, <2>2
      <3> QED BY <3>1, <3>2 DEF Lands
    <2> QED BY <1>2, <2>1, <2>2
  <1>8. (\A s \in sess' : IsOf(s.row, s.sub)') /\ \A s \in Subjects : Kept(s, cache[s])'
    BY <1>1, <1>5, RestKept DEF SignInv
  <1>9. SignTypes' /\ OneRow'
    BY <1>1, <1>3 DEF SignInv, SignTypes, OneRow
  <1> QED BY <1>6, <1>7, <1>8, <1>9 DEF SignInv

LEMMA ForgetKeeps == ASSUME SignSizes, SignInv, S!ForgetCookies PROVE SignInv'
  <1>1. UNCHANGED <<clock, idp, rows, asked, flows, sess, cache, learned>> /\ browser' = [state |-> 0, next |-> "/"]
    BY DEF S!ForgetCookies, S!NoCookies
  <1>2. Carries
    BY <1>1, Stays
  <1>3. \A f \in Flows : Sound(flows[f])'
    BY <1>1, <1>2, OtherSound
  <1>4. Lands(browser.next, browser.state)'
    BY <1>1 DEF Lands
  <1>5. (\A s \in sess' : IsOf(s.row, s.sub)') /\ \A s \in Subjects : Kept(s, cache[s])'
    BY <1>1, <1>2, RestKept DEF SignInv
  <1>6. SignTypes' /\ OneRow'
    BY <1>1 DEF SignInv, SignTypes, OneRow, S!Paths
  <1> QED BY <1>3, <1>4, <1>5, <1>6 DEF SignInv

\* The browser is back from the IdP, with the cookies of the login it began last.
LEMMA CallbackKeeps ==
    ASSUME SignSizes, SignInv, NEW f \in Flows, NEW s \in Subjects, NEW n \in 1 .. Len(asked), S!Callback(f, n, s)
    PROVE  SignInv'
  <1>1. UNCHANGED <<clock, idp, rows, asked, sess, cache, learned>> /\ browser' = [state |-> 0, next |-> "/"]
    BY DEF S!Callback, S!NoCookies
  <1>2. /\ clock \in Nat /\ n \in Nat /\ browser.next \in S!Paths /\ asked \in Seq(S!Paths)
        /\ Lands(browser.next, browser.state)
    BY DEF SignInv, SignTypes
  <1>3. (\A g \in Flows : Sound(flows[g])') /\ flows' \in [Flows -> Flow]
    <2>1. CASE flows' = flows
      BY <1>1, <2>1, Stays, OtherSound DEF SignInv, SignTypes
    <2>2. CASE browser.state = n /\ S!Put(f, [S!Idle EXCEPT !.kind = "login", !.pc = "info", !.sub = s, !.login = n, !.next = browser.next, !.since = clock])
      <3> DEFINE w == [S!Idle EXCEPT !.kind = "login", !.pc = "info", !.sub = s, !.login = n, !.next = browser.next, !.since = clock]
      <3>1. w \in Flow /\ w.pc = "info" /\ w.sub = s /\ w.since = clock /\ w.next = browser.next /\ w.login = n
        BY <1>2 DEF Flow, Resolved, S!Idle
      <3>2. S!Put(f, w)
        BY <2>2
      <3> HIDE DEF w
      <3>3. Sound(w)
        BY <1>2, <2>2, <3>1 DEF Sound, Timely, Arrived, Resolved, SignSizes
      <3> QED BY <1>1, <3>1, <3>2, <3>3, FlowMoves DEF S!Put
    <2> QED BY <2>1, <2>2 DEF S!Callback, S!NextPath
  <1>4. Lands(browser.next, browser.state)'
    BY <1>1 DEF Lands
  <1>5. (\A t \in sess' : IsOf(t.row, t.sub)') /\ \A t \in Subjects : Kept(t, cache[t])'
    BY <1>1, Stays, RestKept DEF SignInv
  <1>6. SignTypes' /\ OneRow'
    BY <1>1, <1>3 DEF SignInv, SignTypes, OneRow, S!Paths
  <1> QED BY <1>3, <1>4, <1>5, <1>6 DEF SignInv

\* A resolution begins or ends, and with it what the cache and the sessions hold.
LEMMA EndStep ==
    ASSUME SignSizes, SignInv, NEW f \in Flows, NEW w \in Flow, Sound(w), S!Put(f, w),
           UNCHANGED <<clock, idp, rows, asked, browser>>,
           sess' \subseteq [row : Nat, sub : Subjects], \A s \in sess' : IsOf(s.row, s.sub),
           cache' \in [Subjects -> Entry], \A s \in Subjects : Kept(s, cache'[s]), learned' \subseteq Subjects
    PROVE  SignInv'
  <1>1. flows' \in [Flows -> Flow] /\ \A g \in Flows : Sound(flows[g])'
    BY FlowMoves DEF S!Put
  <1>2. SignTypes'
    BY <1>1 DEF SignInv, SignTypes
  <1>3. \A s \in Subjects : Kept(s, cache[s])'
    BY DEF Kept, IsOf
  <1>4. \A s \in sess' : IsOf(s.row, s.sub)'
    BY DEF IsOf
  <1>5. OneRow' /\ Lands(browser.next, browser.state)'
    BY DEF SignInv, OneRow, Lands
  <1> QED BY <1>1, <1>2, <1>3, <1>4, <1>5 DEF SignInv

LEMMA NothingKept == S!NoEntry \in Entry /\ \A s : Kept(s, S!NoEntry)
  BY DEF S!NoEntry, Entry, Kept

LEMMA AuthenticateBearerKeeps ==
    ASSUME SignSizes, SignInv, NEW f \in Flows, NEW s \in Subjects, S!AuthenticateBearer(f, s)
    PROVE  SignInv'
  <1> DEFINE w == [S!Idle EXCEPT !.kind = "bearer", !.pc = "info", !.sub = s, !.since = clock]
  <1>1. UNCHANGED <<clock, idp, rows, asked, browser, sess, learned>> /\ cache' = [cache EXCEPT ![s] = S!NoEntry] /\ S!Put(f, w)
    BY DEF S!AuthenticateBearer
  <1>2. clock \in Nat /\ cache \in [Subjects -> Entry] /\ \A t \in Subjects : Kept(t, cache[t])
    BY DEF SignInv, SignTypes
  <1>3. w \in Flow /\ w.pc = "info" /\ w.sub = s /\ w.since = clock /\ w.login = 0
    BY <1>2 DEF Flow, Resolved, S!Idle, S!Paths
  <1> HIDE DEF w
  <1>4. Sound(w)
    BY <1>2, <1>3 DEF Sound, Timely, Arrived, Resolved, Lands, SignSizes
  <1>5. cache' \in [Subjects -> Entry] /\ \A t \in Subjects : Kept(t, cache'[t])
    <2>1. cache' \in [Subjects -> Entry] /\ cache'[s] = S!NoEntry /\ \A t \in Subjects \ {s} : cache'[t] = cache[t]
      BY <1>1, <1>2, NothingKept
    <2> QED BY <1>2, <2>1, NothingKept
  <1>6. /\ sess' \subseteq [row : Nat, sub : Subjects] /\ learned' \subseteq Subjects
        /\ \A t \in sess' : IsOf(t.row, t.sub)
    BY <1>1 DEF SignInv, SignTypes
  <1> QED BY <1>1, <1>3, <1>4, <1>5, <1>6, EndStep

LEMMA SessionBegins == ASSUME SignSizes, SignInv, NEW f \in Flows, S!CreateSession(f) PROVE SignInv'
  <1> DEFINE w == flows[f]
  <1>1. UNCHANGED <<clock, idp, rows, asked, browser, cache>> /\ S!Put(f, S!Idle)
    BY DEF S!CreateSession
  <1>2. w \in Flow /\ w.pc = "done" /\ IsOf(w.row, w.sub) /\ w.sub \in Subjects /\ w.row \in Nat
    BY DEF SignInv, SignTypes, S!CreateSession, S!At, Sound, Arrived, Timely, Flow
  <1>3. sess' \subseteq sess \cup {[row |-> w.row, sub |-> w.sub]} /\ learned' \subseteq learned \cup {w.sub}
    BY DEF S!CreateSession, S!Learn
  <1> HIDE DEF w
  <1>4. /\ sess' \subseteq [row : Nat, sub : Subjects] /\ learned' \subseteq Subjects
        /\ \A t \in sess' : IsOf(t.row, t.sub)
    <2>1. sess \subseteq [row : Nat, sub : Subjects] /\ learned \subseteq Subjects /\ \A t \in sess : IsOf(t.row, t.sub)
      BY DEF SignInv, SignTypes
    <2> QED BY <1>2, <1>3, <2>1
  <1>5. cache' \in [Subjects -> Entry] /\ \A t \in Subjects : Kept(t, cache'[t])
    BY <1>1 DEF SignInv, SignTypes
  <1>6. S!Idle \in Flow /\ Sound(S!Idle)
    BY IdleSound
  <1> QED BY <1>1, <1>4, <1>5, <1>6, EndStep

\* What the sweep leaves, and what is put, is kept.
LEMMA FinishBearerKeeps == ASSUME SignSizes, SignInv, NEW f \in Flows, S!FinishBearer(f) PROVE SignInv'
  <1> DEFINE w == flows[f]
             e == [row |-> w.row, admin |-> w.admin, until |-> clock + TTL]
  <1>1. UNCHANGED <<clock, idp, rows, asked, browser, sess>> /\ S!Put(f, S!Idle) /\ cache' = S!CachePut(w.sub, e)
    BY DEF S!FinishBearer
  <1>2. /\ w \in Flow /\ w.pc = "done" /\ w.kind = "bearer" /\ IsOf(w.row, w.sub) /\ w.sub \in Subjects /\ Timely(w) /\ Answered(w)
        /\ w.row \in Nat /\ w.admin \in BOOLEAN /\ w.since \in Nat /\ clock \in Nat
    BY DEF SignInv, SignTypes, S!FinishBearer, S!At, Sound, Arrived, Timely, Flow, Resolved
  <1>3. learned' \subseteq learned \cup {w.sub}
    BY DEF S!FinishBearer, S!Learn
  <1>4. /\ clock <= w.since + Slow /\ (w.sub \in idp.live \/ w.since <= idp.tokenEnd[w.sub])
        /\ (w.admin => w.sub \in idp.admins \/ w.since <= idp.roleEnd[w.sub])
    BY <1>2 DEF Timely, Answered, WasLive, HadRole
  <1> HIDE DEF w
  <1>5. idp.tokenEnd[w.sub] \in Nat /\ idp.roleEnd[w.sub] \in Nat
    BY <1>2 DEF SignInv, SignTypes
  <1>6. e \in Entry /\ Kept(w.sub, e)
    <2>1. clock + TTL \in Nat
      BY <1>2 DEF SignSizes
    <2>2. e \in Entry /\ e.row = w.row /\ e.admin = w.admin /\ e.until = clock + TTL
      BY <1>2, <2>1 DEF Entry
    <2> HIDE DEF e
    <2>3. w.sub \in idp.live \/ e.until <= idp.tokenEnd[w.sub] + TTL + Slow
      BY <1>2, <1>4, <1>5, <2>2 DEF SignSizes
    <2>4. w.admin => w.sub \in idp.admins \/ e.until <= idp.roleEnd[w.sub] + TTL + Slow
      BY <1>2, <1>4, <1>5, <2>2 DEF SignSizes
    <2> QED BY <1>2, <2>1, <2>2, <2>3, <2>4 DEF Kept
  <1> HIDE DEF e
  <1>7. cache \in [Subjects -> Entry] /\ \A t \in Subjects : Kept(t, cache[t])
    BY DEF SignInv, SignTypes
  <1>8. S!Swept \in [Subjects -> Entry] /\ \A t \in Subjects : Kept(t, S!Swept[t])
    BY <1>7, NothingKept DEF S!Swept
  <1>9. cache' \in [Subjects -> Entry] /\ \A t \in Subjects : Kept(t, cache'[t])
    <2>1. cache' = S!Swept \/ cache' = [S!Swept EXCEPT ![w.sub] = e]
      BY <1>1 DEF S!CachePut
    <2> QED BY <1>2, <1>6, <1>8, <2>1
  <1>10. /\ sess' \subseteq [row : Nat, sub : Subjects] /\ learned' \subseteq Subjects
         /\ \A t \in sess' : IsOf(t.row, t.sub)
    BY <1>1, <1>2, <1>3 DEF SignInv, SignTypes
  <1> QED BY <1>1, <1>9, <1>10, IdleSound, EndStep

\* The IdP withdraws something, as of now, or time passes.
LEMMA WorldStep ==
    ASSUME SignSizes, SignInv, Carries, UNCHANGED <<rows, browser, asked, flows, sess, cache>>,
           clock' = clock \/ (clock' = clock + 1 /\ \A f \in Flows : flows[f] # S!Idle => clock < flows[f].since + Slow),
           idp' \in [admins : SUBSET Subjects, live : SUBSET Subjects, roleEnd : [Subjects -> Nat], tokenEnd : [Subjects -> Nat]],
           \A s \in Subjects : /\ s \in idp'.live \/ (s \notin idp.live /\ idp'.tokenEnd[s] = idp.tokenEnd[s]) \/ idp'.tokenEnd[s] = clock
                               /\ s \in idp'.admins \/ (s \notin idp.admins /\ idp'.roleEnd[s] = idp.roleEnd[s]) \/ idp'.roleEnd[s] = clock,
           learned' \subseteq Subjects
    PROVE  SignInv'
  <1>1. \A f \in Flows : Sound(flows[f])'
    BY OtherSound
  <1>2. clock \in Nat /\ clock' \in Nat /\ clock <= clock' /\ SignTypes'
    BY DEF SignInv, SignTypes
  <1>3. ASSUME NEW s \in Subjects PROVE Kept(s, cache[s])'
    <2> DEFINE e == cache[s]
    <2>1. e \in Entry /\ Kept(s, e) /\ e.until \in Nat
      BY DEF SignInv, SignTypes, Entry
    <2> HIDE DEF e
    <2>2. e.row # 0 => e.row \in DOMAIN rows' /\ rows'[e.row].sub = s /\ e.until <= clock' + TTL
      BY <1>2, <2>1 DEF Kept, IsOf, SignSizes
    <2>3. e.row # 0 => s \in idp'.live \/ e.until <= idp'.tokenEnd[s] + TTL + Slow
      BY <1>2, <2>1 DEF Kept, SignSizes
    <2>4. e.row # 0 /\ e.admin => s \in idp'.admins \/ e.until <= idp'.roleEnd[s] + TTL + Slow
      BY <1>2, <2>1 DEF Kept, SignSizes
    <2> QED BY <2>2, <2>3, <2>4 DEF Kept, e, IsOf
  <1>4. (\A s \in sess' : IsOf(s.row, s.sub)') /\ OneRow' /\ Lands(browser.next, browser.state)'
    BY DEF SignInv, IsOf, OneRow, Lands
  <1> QED BY <1>1, <1>2, <1>3, <1>4 DEF SignInv

\* The record of the IdP after a withdrawal.
LEMMA WithdrawKeeps == ASSUME SignSizes, SignInv, NEW s \in Subjects, S!Withdraw(s) PROVE SignInv'
  <1>1. /\ UNCHANGED <<clock, rows, browser, asked, flows, sess, cache>> /\ learned' = learned \ {s}
        /\ idp' = [idp EXCEPT !.admins = @ \ {s}, !.roleEnd[s] = clock]
    BY DEF S!Withdraw
  <1>2. /\ idp \in [admins : SUBSET Subjects, live : SUBSET Subjects, roleEnd : [Subjects -> Nat], tokenEnd : [Subjects -> Nat]]
        /\ clock \in Nat /\ learned \subseteq Subjects
    BY DEF SignInv, SignTypes
  <1>3. /\ idp' \in [admins : SUBSET Subjects, live : SUBSET Subjects, roleEnd : [Subjects -> Nat], tokenEnd : [Subjects -> Nat]]
        /\ idp'.admins = idp.admins \ {s} /\ idp'.live = idp.live /\ idp'.tokenEnd = idp.tokenEnd
        /\ idp'.roleEnd[s] = clock /\ \A t \in Subjects \ {s} : idp'.roleEnd[t] = idp.roleEnd[t]
    BY <1>1, <1>2
  <1>4. Carries
    BY <1>1, <1>2, <1>3 DEF Carries, WasLive, HadRole
  <1> QED BY <1>1, <1>2, <1>3, <1>4, WorldStep

LEMMA RevokeTokenKeeps == ASSUME SignSizes, SignInv, NEW s \in Subjects, S!RevokeToken(s) PROVE SignInv'
  <1>1. /\ UNCHANGED <<clock, rows, browser, asked, flows, sess, cache, learned>>
        /\ idp' = [idp EXCEPT !.live = @ \ {s}, !.tokenEnd[s] = clock]
    BY DEF S!RevokeToken
  <1>2. /\ idp \in [admins : SUBSET Subjects, live : SUBSET Subjects, roleEnd : [Subjects -> Nat], tokenEnd : [Subjects -> Nat]]
        /\ clock \in Nat /\ learned \subseteq Subjects
    BY DEF SignInv, SignTypes
  <1>3. /\ idp' \in [admins : SUBSET Subjects, live : SUBSET Subjects, roleEnd : [Subjects -> Nat], tokenEnd : [Subjects -> Nat]]
        /\ idp'.live = idp.live \ {s} /\ idp'.admins = idp.admins /\ idp'.roleEnd = idp.roleEnd
        /\ idp'.tokenEnd[s] = clock /\ \A t \in Subjects \ {s} : idp'.tokenEnd[t] = idp.tokenEnd[t]
    BY <1>1, <1>2
  <1>4. Carries
    BY <1>1, <1>2, <1>3 DEF Carries, WasLive, HadRole
  <1> QED BY <1>1, <1>2, <1>3, <1>4, WorldStep

LEMMA ClockKeeps == ASSUME SignSizes, SignInv, S!Tick PROVE SignInv'
  <1>1. /\ UNCHANGED <<idp, rows, browser, asked, flows, sess, cache, learned>> /\ clock' = clock + 1
        /\ \A f \in Flows : flows[f] # S!Idle => clock < flows[f].since + Slow
    BY DEF S!Tick
  <1>2. idp \in [admins : SUBSET Subjects, live : SUBSET Subjects, roleEnd : [Subjects -> Nat], tokenEnd : [Subjects -> Nat]] /\ learned \subseteq Subjects
    BY DEF SignInv, SignTypes
  <1> QED BY <1>1, <1>2, Stays, WorldStep

LEMMA SignNext == ASSUME SignSizes, SignInv, [S!Next]_svars PROVE SignInv'
  <1>1. CASE UNCHANGED svars
    <2>1. UNCHANGED <<clock, idp, rows, browser, asked, flows, sess, cache, learned>>
      BY <1>1 DEF svars
    <2> QED BY <2>1 DEF SignInv, SignTypes, OneRow, Sound, Timely, Answered, WasLive, HadRole, Arrived, IsOf, Lands, Kept
  <1>2. CASE S!Next
    <2>1. ASSUME NEW f \in Flows, S!GetUserInfo(f) \/ S!GetUserByOIDC(f) \/ S!ListLinkableUsersByEmail(f) PROVE SignInv'
      BY <2>1, GetUserInfoKeeps, GetUserByOIDCKeeps, ListLinkableKeeps
    <2>2. ASSUME NEW f \in Flows, S!UpdateOIDCUserProfile(f) \/ S!LinkUserOIDC(f) \/ S!CreateOIDCUser(f) PROVE SignInv'
      BY <2>2, UpdateKeeps, LinkKeeps, CreateKeeps
    <2>3. ASSUME NEW f \in Flows, S!CreateSession(f) \/ S!FinishBearer(f) PROVE SignInv'
      BY <2>3, SessionBegins, FinishBearerKeeps
    <2>4. ASSUME NEW f \in Flows, NEW s \in Subjects, S!AuthenticateBearer(f, s) \/ \E n \in 1 .. Len(asked) : S!Callback(f, n, s)
          PROVE  SignInv'
      BY <2>4, AuthenticateBearerKeeps, CallbackKeeps
    <2>5. ASSUME NEW s \in Subjects, S!Withdraw(s) \/ S!RevokeToken(s) PROVE SignInv'
      BY <2>5, WithdrawKeeps, RevokeTokenKeeps
    <2>6. ASSUME NEW next \in S!Paths, S!Login(next) PROVE SignInv'
      BY <2>6, LoginKeeps
    <2> QED BY <1>2, <2>1, <2>2, <2>3, <2>4, <2>5, <2>6, ClockKeeps, ForgetKeeps DEF S!Next
  <1> QED BY <1>1, <1>2

LEMMA SignFollows ==
    ASSUME SignSizes, SignInv
    PROVE  S!AccountsApart /\ S!BearerLag /\ S!DeepLinkSurvives
  <1>1. S!AccountsApart
    <2>1. \A s \in Subjects : \A m, n \in S!RowsOf(s) : m = n
      BY DEF SignInv, OneRow, S!RowsOf, SignSizes
    <2>2. \A s \in sess : rows[s.row].sub = s.sub
      BY DEF SignInv, IsOf
    <2>3. \A s \in Subjects : cache[s].row # 0 => rows[cache[s].row].sub = s
      BY DEF SignInv, Kept, IsOf
    <2> QED BY <2>1, <2>2, <2>3 DEF S!AccountsApart
  <1>2. S!BearerLag
    <2> SUFFICES ASSUME NEW s \in Subjects, cache[s].row # 0, clock <= cache[s].until
                 PROVE  /\ s \in idp.live \/ clock <= idp.tokenEnd[s] + TTL + Slow
                        /\ cache[s].admin => s \in idp.admins \/ clock <= idp.roleEnd[s] + TTL + Slow
      BY DEF S!BearerLag, S!BearerAdmitsAsAdmin, S!Cached, S!Fresh
    <2>1. /\ cache[s].until \in Nat /\ clock \in Nat /\ Kept(s, cache[s]) /\ idp.tokenEnd[s] \in Nat /\ idp.roleEnd[s] \in Nat
      BY DEF SignInv, SignTypes, Entry
    <2> QED BY <2>1 DEF Kept, SignSizes
  <1>3. S!DeepLinkSurvives
    BY DEF S!DeepLinkSurvives, SignInv, Sound, Lands
  <1> QED BY <1>1, <1>2, <1>3

\* Identities and accounts stay one to one, and sessions and cached bearers with the
\* account of who signed in, whatever resolutions overlap and whatever fails
\* (auth.go, resolveOIDCUser).
THEOREM AccountsStayApart == ASSUME SignSizes PROVE S!Spec => []S!AccountsApart
  <1>1. S!Init => SignInv
    BY SignInit
  <1>2. SignInv /\ [S!Next]_(S!vars) => SignInv'
    BY SignNext DEF S!vars, svars
  <1>3. SignInv => S!AccountsApart
    BY SignFollows
  <1> QED BY <1>1, <1>2, <1>3, PTL DEF S!Spec

\* What the IdP withdrew is admitted on a bearer for the life of a cache entry and
\* the time of a resolution at most, also when the withdrawal falls between the IdP's
\* answer and the entry (bearer.go).
THEOREM BearersLagNoMore == ASSUME SignSizes PROVE S!Spec => []S!BearerLag
  <1>1. S!Init => SignInv
    BY SignInit
  <1>2. SignInv /\ [S!Next]_(S!vars) => SignInv'
    BY SignNext DEF S!vars, svars
  <1>3. SignInv => S!BearerLag
    BY SignFollows
  <1> QED BY <1>1, <1>2, <1>3, PTL DEF S!Spec

-----------------------------------------------------------------------------
\* Under Steady a row that is done mirrors the role, and so does a row of a subject
\* that has signed in since.
LEMMA RoleInit == ASSUME SignSizes, S!Init PROVE RoleInv
  BY DEF S!Init, S!Idle, RoleInv, Resolved

\* Nothing of the roles is touched, and no resolution is further on than it was.
LEMMA RoleStep ==
    ASSUME SignInv, RoleInv, NEW f \in Flows, NEW w \in Flow, S!Put(f, w), UNCHANGED <<idp, rows>>,
           w.pc \in Resolved /\ w.admin => w.sub \in idp.admins, w.pc # "done",
           \A n \in DOMAIN rows : rows[n].sub \in learned' \ idp.admins => ~rows[n].admin
    PROVE  RoleInv'
  <1>1. flows'[f] = w /\ \A g \in Flows \ {f} : flows'[g] = flows[g]
    BY DEF SignInv, SignTypes, S!Put
  <1> QED BY <1>1 DEF RoleInv

LEMMA RoleNext == ASSUME SignSizes, SignInv, SignInv', RoleInv, Steady, [S!Next]_svars PROVE RoleInv'
  <1>1. CASE UNCHANGED svars
    BY <1>1 DEF svars, RoleInv
  <1>2. ASSUME UNCHANGED <<idp, rows, flows, learned>> PROVE RoleInv'
    BY <1>2 DEF RoleInv
  <1>3. ASSUME NEW f \in Flows, S!GetUserInfo(f) PROVE RoleInv'
    <2> DEFINE w == flows[f]
               has == S!HasRole(w.sub)
               n == [w EXCEPT !.pc = "lookup", !.admin = has]
    <2>1. UNCHANGED <<idp, rows, learned>> /\ (S!Put(f, S!Idle) \/ S!Put(f, n))
      BY <1>3 DEF S!GetUserInfo
    <2>2. n \in Flow /\ n.pc = "lookup" /\ n.admin = has /\ n.sub = w.sub
      <3>1. has \in BOOLEAN /\ w \in Flow
        BY DEF S!HasRole, SignInv, SignTypes
      <3> HIDE DEF has, w
      <3> QED BY <3>1 DEF Flow, Resolved
    <2>3. n.admin => n.sub \in idp.admins
      BY <2>2 DEF S!HasRole
    <2> HIDE DEF n
    <2>4. \A m \in DOMAIN rows : rows[m].sub \in learned' \ idp.admins => ~rows[m].admin
      BY <2>1 DEF RoleInv
    <2>5. S!Idle \in Flow /\ S!Idle.pc = "idle"
      BY IdleSound
    <2>6. S!Idle.pc \notin Resolved /\ n.pc # "done" /\ S!Idle.pc # "done"
      BY <2>2, <2>5 DEF Resolved
    <2> QED BY <2>1, <2>2, <2>3, <2>4, <2>5, <2>6, RoleStep
  \* A resolution moves on without touching a row.
  <1>4. ASSUME NEW f \in Flows, S!GetUserByOIDC(f) \/ S!ListLinkableUsersByEmail(f) PROVE RoleInv'
    <2> DEFINE w == flows[f]
    <2>1. UNCHANGED <<idp, rows, learned>> /\ w \in Flow /\ w.pc \in Resolved /\ w.pc # "done"
      BY <1>4 DEF S!GetUserByOIDC, S!ListLinkableUsersByEmail, S!At, Resolved, SignInv, SignTypes
    <2>2. \A m \in DOMAIN rows : rows[m].sub \in learned' \ idp.admins => ~rows[m].admin
      BY <2>1 DEF RoleInv
    <2>3. flows' \in [Flows -> Flow]
      BY DEF SignInv, SignTypes
    <2>4. w.admin => w.sub \in idp.admins
      BY <2>1 DEF RoleInv
    <2>5. ASSUME NEW x, S!Put(f, x), x.pc \in {"update", "list", "create", "link"}, x.sub = w.sub, x.admin = w.admin
          PROVE  RoleInv'
      <3>1. x \in Flow
        BY <2>3, <2>5 DEF SignInv, SignTypes, S!Put
      <3> QED BY <2>1, <2>2, <2>4, <2>5, <3>1, RoleStep
    <2>6. ASSUME NEW x, S!Put(f, x), x = S!Idle PROVE RoleInv'
      <3>1. S!Idle \in Flow /\ S!Idle.pc # "done" /\ S!Idle.pc \notin Resolved
        BY IdleSound DEF Resolved
      <3> QED BY <2>1, <2>2, <2>6, <3>1, RoleStep
    <2>7. CASE S!GetUserByOIDC(f)
      <3> DEFINE r == CHOOSE n \in S!RowsOf(w.sub) : TRUE
                 pc == IF w.sub \in Verified THEN "list" ELSE "create"
                 x == [w EXCEPT !.pc = "update", !.row = r]
                 y == [w EXCEPT !.pc = pc]
      <3>1. S!Put(f, x) \/ S!Put(f, y)
        BY <2>7 DEF S!GetUserByOIDC
      <3>2. pc \in {"list", "create"}
        OBVIOUS
      <3> HIDE DEF r, pc
      <3>3. /\ x.pc = "update" /\ x.sub = w.sub /\ x.admin = w.admin
            /\ y.pc = pc /\ y.sub = w.sub /\ y.admin = w.admin
        BY <2>1 DEF Flow
      <3> HIDE DEF x, y, w
      <3> QED BY <2>5, <3>1, <3>2, <3>3
    <2>8. CASE S!ListLinkableUsersByEmail(f)
      <3> DEFINE r == CHOOSE n \in S!Linkable : TRUE
                 x == [w EXCEPT !.pc = "link", !.row = r]
                 y == [w EXCEPT !.pc = "create"]
      <3>1. S!Put(f, S!Idle) \/ S!Put(f, x) \/ S!Put(f, y)
        BY <2>8 DEF S!ListLinkableUsersByEmail
      <3> HIDE DEF r
      <3>2. /\ x.pc = "link" /\ x.sub = w.sub /\ x.admin = w.admin
            /\ y.pc = "create" /\ y.sub = w.sub /\ y.admin = w.admin
        BY <2>1 DEF Flow
      <3> HIDE DEF x, y, w
      <3> QED BY <2>5, <2>6, <3>1, <3>2
    <2> QED BY <1>4, <2>7, <2>8
  \* A row is written as the IdP has just said.
  <1>5. ASSUME NEW f \in Flows, S!UpdateOIDCUserProfile(f) \/ S!LinkUserOIDC(f) \/ S!CreateOIDCUser(f) PROVE RoleInv'
    <2> DEFINE w == flows[f]
    <2>1. UNCHANGED <<idp, learned>> /\ w \in Flow /\ w.pc \in Resolved /\ w.pc # "done" /\ w.admin \in BOOLEAN /\ rows \in Seq(UserRow)
      BY <1>5 DEF S!UpdateOIDCUserProfile, S!LinkUserOIDC, S!CreateOIDCUser, S!At, Resolved, SignInv, SignTypes, Flow
    <2>2. w.sub \in Subjects /\ (w.admin => w.sub \in idp.admins) /\ (~w.admin => w.sub \notin idp.admins)
      BY <2>1 DEF RoleInv, SignInv, Sound, Timely, Answered, Resolved
    <2>3. \A n \in DOMAIN rows : rows[n].sub \in learned \ idp.admins => ~rows[n].admin
      BY DEF RoleInv
    <2>4. CASE UNCHANGED rows /\ S!Put(f, S!Idle)
      <3>1. S!Idle \in Flow /\ S!Idle.pc # "done" /\ S!Idle.pc \notin Resolved
        BY IdleSound DEF Resolved
      <3> QED BY <2>1, <2>3, <2>4, <3>1, RoleStep
    <2>5. ASSUME NEW r \in Nat, NEW x, S!Put(f, x), x.sub = w.sub, x.admin = w.admin, x.row = r,
                 NEW y \in UserRow, y.sub = w.sub, y.admin = w.admin,
                 r \in DOMAIN rows', rows'[r] = y, \A m \in DOMAIN rows' \ {r} : m \in DOMAIN rows /\ rows'[m] = rows[m],
                 DOMAIN rows \subseteq DOMAIN rows'
          PROVE  RoleInv'
      <3>1. flows'[f] = x /\ \A g \in Flows \ {f} : flows'[g] = flows[g]
        BY <2>5 DEF S!Put, SignInv, SignTypes
      <3>2. \A g \in Flows : flows'[g].pc \in Resolved /\ flows'[g].admin => flows'[g].sub \in idp'.admins
        BY <2>1, <2>2, <2>5, <3>1 DEF RoleInv
      <3>3. \A n \in DOMAIN rows' : rows'[n].sub \in learned' \ idp'.admins => ~rows'[n].admin
        BY <2>1, <2>2, <2>3, <2>5
      <3>4. ASSUME NEW g \in Flows \ {f}, flows[g].pc = "done", ~flows[g].admin PROVE ~rows'[flows[g].row].admin
        <4>1. IsOf(flows[g].row, flows[g].sub) /\ flows[g].sub \in Subjects /\ flows[g].sub \notin idp.admins /\ ~rows[flows[g].row].admin
          BY <3>4 DEF SignInv, Sound, Arrived, Timely, Answered, Resolved, RoleInv
        <4>2. flows[g].row = r => flows[g].sub = w.sub
          <5>1. flows'[g].pc = "done" /\ flows'[g].row = flows[g].row /\ flows'[g].sub = flows[g].sub
            BY <3>1, <3>4
          <5>2. rows'[flows[g].row].sub = flows[g].sub
            BY <5>1, <3>4 DEF SignInv, Sound, Arrived, IsOf
          <5> QED BY <2>5, <5>2
        <4> QED BY <2>2, <2>5, <4>1, <4>2 DEF IsOf
      <3>5. flows'[f].pc = "done" /\ ~flows'[f].admin => ~rows'[flows'[f].row].admin
        BY <2>5, <3>1
      <3> QED BY <3>1, <3>2, <3>3, <3>4, <3>5 DEF RoleInv
    <2> DEFINE done == [w EXCEPT !.pc = "done"]
    <2>6. done.sub = w.sub /\ done.admin = w.admin /\ done.row = w.row
      BY <2>1 DEF Flow
    <2>7. CASE S!UpdateOIDCUserProfile(f)
      <3> DEFINE y == [rows[w.row] EXCEPT !.admin = w.admin]
      <3>1. w.row \in DOMAIN rows /\ rows[w.row].sub = w.sub /\ w.row \in Nat
        BY <2>7 DEF SignInv, SignTypes, Sound, Arrived, IsOf, S!UpdateOIDCUserProfile, S!At
      <3>2. y \in UserRow /\ y.sub = w.sub /\ y.admin = w.admin
        <4>1. rows[w.row] \in UserRow
          BY <2>1, <3>1
        <4> QED BY <2>1, <3>1, <4>1 DEF UserRow
      <3> HIDE DEF y
      <3>3. S!Put(f, done) /\ rows' = [rows EXCEPT ![w.row] = y]
        BY <2>7 DEF S!UpdateOIDCUserProfile, S!Profile, Steady, y
      <3>4. rows'[w.row] = y /\ DOMAIN rows' = DOMAIN rows /\ \A m \in DOMAIN rows \ {w.row} : rows'[m] = rows[m]
        BY <3>1, <3>3
      <3> HIDE DEF done, w
      <3> QED BY <2>5, <2>6, <3>1, <3>2, <3>3, <3>4
    <2>8. CASE S!LinkUserOIDC(f)
      <3> DEFINE y == [sub |-> w.sub, admin |-> w.admin]
      <3>1. w.row \in DOMAIN rows /\ w.row \in Nat
        BY <2>8 DEF SignInv, SignTypes, Sound, Arrived, IsOf, S!LinkUserOIDC, S!At
      <3>2. y \in UserRow /\ y.sub = w.sub /\ y.admin = w.admin
        BY <2>1, <2>2 DEF UserRow
      <3> HIDE DEF y
      <3>3. (UNCHANGED rows /\ S!Put(f, S!Idle)) \/ (S!Put(f, done) /\ rows' = [rows EXCEPT ![w.row] = y])
        BY <2>8 DEF S!LinkUserOIDC, y
      <3>4. rows' = [rows EXCEPT ![w.row] = y] =>
               rows'[w.row] = y /\ DOMAIN rows' = DOMAIN rows /\ \A m \in DOMAIN rows \ {w.row} : rows'[m] = rows[m]
        BY <3>1
      <3> HIDE DEF done, w
      <3> QED BY <2>4, <2>5, <2>6, <3>1, <3>2, <3>3, <3>4
    <2>9. CASE S!CreateOIDCUser(f)
      <3> DEFINE y == [sub |-> w.sub, admin |-> w.admin]
                 k == Len(rows) + 1
                 x == [w EXCEPT !.pc = "done", !.row = k]
      <3>1. y \in UserRow /\ y.sub = w.sub /\ y.admin = w.admin
        BY <2>1, <2>2 DEF UserRow
      <3>2. x.sub = w.sub /\ x.admin = w.admin /\ x.row = k
        BY <2>1 DEF Flow
      <3>3. (UNCHANGED rows /\ S!Put(f, S!Idle)) \/ (S!Put(f, x) /\ rows' = Append(rows, y))
        BY <2>9 DEF S!CreateOIDCUser
      <3> HIDE DEF x, y
      <3>4. rows' = Append(rows, y) =>
               /\ rows'[k] = y /\ k \in DOMAIN rows' /\ DOMAIN rows \subseteq DOMAIN rows' /\ k \in Nat
               /\ \A m \in DOMAIN rows' \ {k} : m \in DOMAIN rows /\ rows'[m] = rows[m]
        BY <2>1, <3>1
      <3> HIDE DEF k, w
      <3> QED BY <2>4, <2>5, <3>1, <3>2, <3>3, <3>4
    <2> QED BY <1>5, <2>7, <2>8, <2>9
  <1>6. ASSUME NEW f \in Flows, S!CreateSession(f) \/ S!FinishBearer(f) PROVE RoleInv'
    <2> DEFINE w == flows[f]
    <2>1. UNCHANGED <<idp, rows>> /\ S!Put(f, S!Idle) /\ learned' = (IF w.admin THEN learned ELSE learned \cup {w.sub}) /\ w.pc = "done"
      BY <1>6 DEF S!CreateSession, S!FinishBearer, S!Learn, S!At, Steady
    <2>2. w.sub \in Subjects /\ IsOf(w.row, w.sub) /\ (~w.admin => ~rows[w.row].admin)
      BY <2>1 DEF SignInv, Sound, Timely, Arrived, RoleInv
    <2>3. \A m \in DOMAIN rows : rows[m].sub = w.sub => m = w.row
      BY <2>2 DEF SignInv, OneRow, IsOf, SignSizes
    <2>4. \A m \in DOMAIN rows : rows[m].sub \in learned' \ idp.admins => ~rows[m].admin
      BY <2>1, <2>2, <2>3 DEF RoleInv
    <2>5. S!Idle \in Flow /\ S!Idle.pc # "done" /\ S!Idle.pc \notin Resolved
      BY IdleSound DEF Resolved
    <2> QED BY <2>1, <2>4, <2>5, RoleStep
  <1>7. ASSUME NEW f \in Flows, NEW s \in Subjects, S!AuthenticateBearer(f, s) \/ \E n \in 1 .. Len(asked) : S!Callback(f, n, s)
        PROVE  RoleInv'
    <2>1. UNCHANGED <<idp, rows, learned>> /\ clock \in Nat
      BY <1>7 DEF S!AuthenticateBearer, S!Callback, SignInv, SignTypes
    <2>2. \A m \in DOMAIN rows : rows[m].sub \in learned' \ idp.admins => ~rows[m].admin
      BY <2>1 DEF RoleInv
    <2>3. ASSUME NEW x, S!Put(f, x), x.pc = "info" PROVE RoleInv'
      <3>1. x \in Flow
        BY <2>3 DEF SignInv, SignTypes, S!Put
      <3> QED BY <2>1, <2>2, <2>3, <3>1, RoleStep DEF Resolved
    <2>4. CASE S!AuthenticateBearer(f, s)
      <3> DEFINE x == [S!Idle EXCEPT !.kind = "bearer", !.pc = "info", !.sub = s, !.since = clock]
      <3>1. S!Put(f, x) /\ x.pc = "info"
        BY <2>4 DEF S!AuthenticateBearer, S!Idle
      <3> HIDE DEF x
      <3> QED BY <2>3, <3>1
    <2>5. ASSUME NEW n \in 1 .. Len(asked), S!Callback(f, n, s) PROVE RoleInv'
      <3> DEFINE x == [S!Idle EXCEPT !.kind = "login", !.pc = "info", !.sub = s, !.login = n, !.next = S!NextPath(n), !.since = clock]
      <3>1. flows' = flows \/ S!Put(f, x)
        BY <2>5 DEF S!Callback
      <3>2. x.pc = "info"
        BY DEF S!Idle
      <3> HIDE DEF x
      <3> QED BY <1>2, <2>1, <2>3, <3>1, <3>2
    <2> QED BY <1>7, <2>4, <2>5
  \* No resolution of a subject is past the IdP's answer when its role is withdrawn.
  <1>8. ASSUME NEW s \in Subjects, S!Withdraw(s) PROVE RoleInv'
    <2>1. UNCHANGED <<rows, flows>> /\ learned' = learned \ {s} /\ idp'.admins = idp.admins \ {s}
      BY <1>8 DEF S!Withdraw, SignInv, SignTypes
    <2>2. \A f \in Flows : flows[f].sub = s => flows[f].pc = "info"
      BY <1>8 DEF S!Withdraw, S!Resolving, Steady
    <2> QED BY <2>1, <2>2 DEF RoleInv, Resolved
  <1>9. ASSUME NEW s \in Subjects, S!RevokeToken(s) PROVE RoleInv'
    <2>1. UNCHANGED <<rows, flows, learned>> /\ idp'.admins = idp.admins
      BY <1>9 DEF S!RevokeToken, SignInv, SignTypes
    <2> QED BY <2>1 DEF RoleInv
  <1>10. CASE S!Tick \/ S!ForgetCookies \/ \E next \in S!Paths : S!Login(next)
    BY <1>2, <1>10 DEF S!Tick, S!ForgetCookies, S!Login
  <1>11. CASE S!Next
    BY <1>3, <1>4, <1>5, <1>6, <1>7, <1>8, <1>9, <1>10, <1>11 DEF S!Next
  <1> QED BY <1>1, <1>11

LEMMA RolesFollow == ASSUME SignSizes, SignInv, RoleInv PROVE S!WithdrawnAtSignIn
  BY DEF SignInv, IsOf, RoleInv, S!WithdrawnAtSignIn, S!AdmitsAsAdmin

-----------------------------------------------------------------------------
(***************************************************************************)
(* The run's own properties.  A step of AccessSpec is a step of one part   *)
(* or leaves it as it was, so the invariants above hold of all of them.    *)
(***************************************************************************)
LEMMA PartsMove == AccessInit => S!Init /\ R!Init /\ A!Init /\ C!Init
  BY DEF AccessInit

LEMMA PartSteps == ASSUME [AccessNext]_all PROVE [S!Next]_svars /\ [R!Next]_rvars /\ [A!Next]_avars /\ [C!Next]_cvars
  BY DEF AccessNext, SignInStep, GatewayStep, LimitStep, AdminStep, CredsStep, all

\* Limits at their boundaries, for every rate, capacity, life and threshold and every
\* schedule of requests: no more than the bucket's rate passes and a quiet key gets its
\* burst back, a used session is never nearer to its end than the sliding window allows,
\* the last use shown is off by the throttle at most, and the console's totals are those
\* of its list or say that it is cut (ratelimit.go, session/, token/, admin.go).
THEOREM LimitsKeep == ASSUME LimitSizes, ConsoleSizes, CredSizes PROVE AccessSpec => []LimitsHold
  <1> DEFINE Inv == LimitInv /\ ConsoleInv /\ CredInv
  <1>1. AccessInit => Inv
    BY PartsMove, LimitInit, ConsoleInit, CredInit
  <1>2. Inv /\ [AccessNext]_all => Inv'
    BY PartSteps, LimitNext, ConsoleNext, CredNext
  <1>3. Inv => LimitsHold
    <2>1. CredInv => C!SessionSlides /\ C!LastUsedTells
      BY DEF CredInv, Slides, Tells, C!SessionSlides, C!LastUsedTells, C!ListTokens, C!PatAlive
    <2> QED BY <2>1, LimitsFollow DEF ConsoleInv, LimitsHold
  <1> QED BY <1>1, <1>2, <1>3, PTL DEF AccessSpec

\* Whatever sign-ins, bearers and withdrawals overlap: accounts are apart, what the IdP
\* withdrew is admitted on a bearer no longer than its cache, a deep link survives the
\* trip, and, when no grant changes while it is being mirrored and the mirroring does
\* not fail, a withdrawn role is gone with the next sign-in (auth/).
THEOREM AccountsKeep == ASSUME SignSizes, Steady PROVE AccessSpec => []AccountsHold
  <1>1. AccessInit => SignInv /\ RoleInv
    BY PartsMove, SignInit, RoleInit
  <1>2. SignInv /\ RoleInv /\ [AccessNext]_all => SignInv' /\ RoleInv'
    BY PartSteps, SignNext, RoleNext
  <1>3. SignInv /\ RoleInv => AccountsHold
    BY SignFollows, RolesFollow DEF AccountsHold
  <1> QED BY <1>1, <1>2, <1>3, PTL DEF AccessSpec
=============================================================================
