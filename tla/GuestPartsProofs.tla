-------------------------- MODULE GuestPartsProofs --------------------------
(***************************************************************************)
(* Theorems about what a machine keeps and what is kept for it: the secret *)
(* store, the GitHub grant, the persistent disk, the driver that runs      *)
(* machines as child processes, the terminals in a machine and the user's  *)
(* secrets on their way to it.  Each part has its inductive invariant      *)
(* (...Inv) and one lemma per action; the last section puts them together  *)
(* for the properties of the run.                                          *)
(***************************************************************************)
EXTENDS MCGuestParts, Integers, Sequences, FiniteSets, WellFoundedInduction, TLAPS

-----------------------------------------------------------------------------
(***************************************************************************)
(* The secret store on OpenBao (BaoStore).  The client's token is the last *)
(* one issued, whoever logged in (base = issued), so a call that logged in *)
(* is refused only after a later expiry; and a policy is in the cache, or  *)
(* behind a call that is past it, only once it is written.                 *)
(***************************************************************************)
CallRec == [path : B!Paths, pc : {"idle", "ensure", "policy", "ensured", "mint", "child", "do", "ok", "denied", "failed", "locked"},
            try : {1, 2}, since : Nat, val : {0, 1}]

BaoTypes ==
    /\ base \in Nat /\ issued = base /\ dead \in Nat /\ dead <= issued
    /\ bcalls \in [Callers -> CallRec]

BaoInv ==
    /\ BaoTypes
    /\ \A c \in Callers : bcalls[c].since <= issued
    /\ \A c \in Callers : bcalls[c].pc = "denied" => bcalls[c].since <= dead

\* OpenBao keeps the policies it was given.
Keeps == "lose" \notin BaoMay

PolicyInv ==
    /\ ensured \subseteq policies
    /\ \A c \in Callers : bcalls[c].pc \in {"ensured", "mint", "child"} => bcalls[c].path \in policies
    /\ B!NotLockedOut

\* A call moves, and the tokens stay.
LEMMA BaoMoves ==
    ASSUME BaoInv, NEW c \in Callers, NEW r \in CallRec, B!Put(c, r), UNCHANGED <<base, issued, dead>>,
           r.since <= issued, r.pc = "denied" => r.since <= dead
    PROVE  BaoInv'
  <1>1. bcalls' \in [Callers -> CallRec] /\ bcalls'[c] = r /\ \A d \in Callers \ {c} : bcalls'[d] = bcalls[d]
    BY DEF B!Put, BaoInv, BaoTypes
  <1> QED BY <1>1 DEF BaoInv, BaoTypes

LEMMA BaoInit == B!Init => BaoInv /\ PolicyInv
  BY DEF B!Init, B!Idle, B!Paths, B!MachinesPath, BaoInv, BaoTypes, CallRec, PolicyInv, B!NotLockedOut

\* The steps of a call, as far as the invariants tell them apart: where it goes and
\* what becomes of its login.
LEMMA CallSteps ==
    ASSUME BaoInv, NEW c \in Callers
    PROVE  LET k == bcalls[c] IN
           /\ B!Ensure(c) => \E r \in CallRec : B!Put(c, r) /\ r.path = k.path /\ r.since = k.since /\ r.pc = IF k.path \in ensured THEN "mint" ELSE "policy"
           /\ B!Refused(c) => \E r \in CallRec : B!Put(c, r) /\ r.path = k.path /\ r.since = k.since /\ r.pc \in {k.pc, "denied"}
           /\ \A pc \in {"ensured", "child", "ok"} : B!Next1(c, pc) => \E r \in CallRec : B!Put(c, r) /\ r.path = k.path /\ r.since = 0 /\ r.pc = pc
           /\ \A pc \in {"mint", "locked"} : B!Go(c, pc) => \E r \in CallRec : B!Put(c, r) /\ r.path = k.path /\ r.since = k.since /\ r.pc = pc
  <1> DEFINE k == bcalls[c]
  <1>1. k \in CallRec
    BY DEF BaoInv, BaoTypes
  <1>2. ASSUME B!Ensure(c)
        PROVE  \E r \in CallRec : B!Put(c, r) /\ r.path = k.path /\ r.since = k.since /\ r.pc = IF k.path \in ensured THEN "mint" ELSE "policy"
    <2> DEFINE pc == IF k.path \in ensured THEN "mint" ELSE "policy"
               r == [k EXCEPT !.pc = pc, !.try = 1]
    <2>1. B!Put(c, r) /\ pc \in {"mint", "policy"}
      BY <1>2 DEF B!Ensure, B!Go
    <2> HIDE DEF pc
    <2>2. r \in CallRec /\ r.pc = pc /\ r.path = k.path /\ r.since = k.since
      BY <1>1, <2>1 DEF CallRec
    <2> HIDE DEF r
    <2> QED BY <2>1, <2>2 DEF pc
  <1>3. ASSUME B!Refused(c)
        PROVE  \E r \in CallRec : B!Put(c, r) /\ r.path = k.path /\ r.since = k.since /\ r.pc \in {k.pc, "denied"}
    <2> DEFINE r == [k EXCEPT !.try = 2]
               q == [k EXCEPT !.pc = "denied"]
    <2>1. /\ r \in CallRec /\ r.pc = k.pc /\ r.path = k.path /\ r.since = k.since
          /\ q \in CallRec /\ q.pc = "denied" /\ q.path = k.path /\ q.since = k.since
      BY <1>1 DEF CallRec
    <2>2. B!Put(c, r) \/ B!Put(c, q)
      BY <1>3 DEF B!Refused
    <2> HIDE DEF r, q
    <2> QED BY <2>1, <2>2
  <1>4. ASSUME NEW pc \in {"ensured", "child", "ok"}, B!Next1(c, pc)
        PROVE  \E r \in CallRec : B!Put(c, r) /\ r.path = k.path /\ r.since = 0 /\ r.pc = pc
    <2> DEFINE r == [k EXCEPT !.pc = pc, !.try = 1, !.since = 0]
    <2>1. r \in CallRec /\ r.pc = pc /\ r.path = k.path /\ r.since = 0
      BY <1>1 DEF CallRec
    <2>2. B!Put(c, r)
      BY <1>4 DEF B!Next1
    <2> HIDE DEF r
    <2> QED BY <2>1, <2>2
  <1>5. ASSUME NEW pc \in {"mint", "locked"}, B!Go(c, pc)
        PROVE  \E r \in CallRec : B!Put(c, r) /\ r.path = k.path /\ r.since = k.since /\ r.pc = pc
    <2> DEFINE r == [k EXCEPT !.pc = pc, !.try = 1]
    <2>1. r \in CallRec /\ r.pc = pc /\ r.path = k.path /\ r.since = k.since
      BY <1>1 DEF CallRec
    <2>2. B!Put(c, r)
      BY <1>5 DEF B!Go
    <2> HIDE DEF r
    <2> QED BY <2>1, <2>2
  <1> QED BY <1>2, <1>3, <1>4, <1>5

LEMMA BaoNext == ASSUME BaoInv, [B!Next]_bvars PROVE BaoInv'
  <1> DEFINE k(c) == bcalls[c]
  <1>1. CASE UNCHANGED bvars
    BY <1>1 DEF bvars, BaoInv, BaoTypes
  <1>2. CASE B!Expire \/ B!LosePolicies
    BY <1>2 DEF B!Expire, B!LosePolicies, BaoInv, BaoTypes, CallRec
  <1>3. CASE B!Restart
    <2>1. B!Idle \in CallRec /\ B!Idle.since = 0 /\ B!Idle.pc = "idle"
      BY DEF B!Idle, CallRec, B!Paths, B!MachinesPath
    <2> QED BY <1>3, <2>1 DEF B!Restart, BaoInv, BaoTypes
  <1>4. ASSUME NEW c \in Callers PROVE k(c) \in CallRec /\ k(c).since <= issued /\ k(c).since \in Nat /\ issued \in Nat /\ dead \in Nat
    BY DEF BaoInv, BaoTypes, CallRec
  \* Refused for the second time, a call has the last token that is dead.
  <1>5. ASSUME NEW c \in Callers, UNCHANGED <<base, issued, dead>>, B!Refused(c), ~B!Alive PROVE BaoInv'
    <2>1. issued <= dead
      BY <1>4, <1>5 DEF B!Alive, BaoInv, BaoTypes
    <2>2. PICK r \in CallRec : B!Put(c, r) /\ r.since = k(c).since
      BY <1>5, CallSteps
    <2> QED BY <1>4, <1>5, <2>1, <2>2, BaoMoves
  <1>6. ASSUME NEW c \in Callers, UNCHANGED <<base, issued, dead>>, NEW pc \in {"ensured", "child", "ok"}, B!Next1(c, pc) PROVE BaoInv'
    <2>1. PICK r \in CallRec : B!Put(c, r) /\ r.since = 0 /\ r.pc = pc
      BY <1>6, CallSteps
    <2> QED BY <1>4, <1>6, <2>1, BaoMoves
  <1>7. ASSUME NEW c \in Callers, UNCHANGED <<base, issued, dead>>, NEW pc \in {"mint", "locked"}, B!Go(c, pc) PROVE BaoInv'
    <2>1. PICK r \in CallRec : B!Put(c, r) /\ r.since = k(c).since /\ r.pc = pc
      BY <1>7, CallSteps
    <2> QED BY <1>4, <1>7, <2>1, BaoMoves
  <1>8. ASSUME NEW c \in Callers, B!PutPolicy(c) \/ B!MarkEnsured(c) \/ B!Mint(c) \/ B!DoUser(c) \/ B!DoBase(c) PROVE BaoInv'
    BY <1>5, <1>6, <1>7, <1>8 DEF B!PutPolicy, B!MarkEnsured, B!Mint, B!DoUser, B!DoBase, B!Effect
  <1>9. ASSUME NEW c \in Callers, B!Ensure(c) PROVE BaoInv'
    <2>1. PICK r \in CallRec : B!Put(c, r) /\ r.since = k(c).since /\ r.pc = IF k(c).path \in ensured THEN "mint" ELSE "policy"
      BY <1>9, CallSteps
    <2> QED BY <1>4, <1>9, <2>1, BaoMoves DEF B!Ensure
  <1>10. ASSUME NEW c \in Callers, NEW p \in B!Paths, NEW v \in {0, 1}, B!Begin(c, p, v) PROVE BaoInv'
    <2> DEFINE pc == IF p \in Users THEN "ensure" ELSE "do"
               r == [B!Idle EXCEPT !.path = p, !.val = v, !.pc = pc]
    <2>1. pc \in {"ensure", "do"}
      OBVIOUS
    <2> HIDE DEF pc
    <2>2. r \in CallRec /\ r.since = 0 /\ r.pc = pc
      BY <2>1 DEF B!Idle, CallRec
    <2>3. B!Put(c, r) /\ UNCHANGED <<base, issued, dead>>
      BY <1>10 DEF B!Begin, pc
    <2> HIDE DEF r
    <2> QED BY <1>4, <2>1, <2>2, <2>3, BaoMoves
  <1>11. ASSUME NEW c \in Callers, B!Return(c) PROVE BaoInv'
    <2>1. B!Idle \in CallRec /\ B!Idle.since = 0 /\ B!Idle.pc = "idle"
      BY DEF B!Idle, CallRec, B!Paths, B!MachinesPath
    <2> QED BY <1>4, <1>11, <2>1, BaoMoves DEF B!Return
  \* A login is after all expiries so far.
  <1>12. ASSUME NEW c \in Callers, B!Login(c) PROVE BaoInv'
    <2>1. CASE B!Put(c, [k(c) EXCEPT !.pc = "failed"]) /\ UNCHANGED <<issued, base, dead>>
      <3> DEFINE r == [k(c) EXCEPT !.pc = "failed"]
      <3>1. r \in CallRec /\ r.pc = "failed" /\ r.since = k(c).since
        BY <1>4 DEF CallRec
      <3> HIDE DEF r
      <3> QED BY <1>4, <2>1, <3>1, BaoMoves DEF r
    <2>2. CASE issued' = issued + 1 /\ base' = issued + 1 /\ UNCHANGED dead /\ B!Put(c, [k(c) EXCEPT !.since = dead + 1])
      <3> DEFINE n == dead + 1
                 r == [k(c) EXCEPT !.since = n]
      <3>1. n \in Nat /\ n <= issued'
        BY <1>4, <2>2 DEF BaoInv, BaoTypes
      <3>2. bcalls' = [bcalls EXCEPT ![c] = r]
        BY <2>2 DEF B!Put
      <3> HIDE DEF n
      <3>3. r \in CallRec /\ r.pc = k(c).pc /\ r.since = n
        BY <1>4, <3>1 DEF CallRec
      <3> HIDE DEF r
      <3>4. bcalls' \in [Callers -> CallRec] /\ bcalls'[c] = r /\ \A d \in Callers \ {c} : bcalls'[d] = bcalls[d]
        BY <3>2, <3>3 DEF BaoInv, BaoTypes
      <3>5. k(c).pc # "denied"
        BY <1>12 DEF B!Login
      <3>6. BaoTypes'
        BY <2>2, <3>4 DEF BaoInv, BaoTypes
      <3>7. \A d \in Callers : bcalls'[d].since <= issued'
        BY <1>4, <2>2, <3>1, <3>3, <3>4
      <3> QED BY <2>2, <3>3, <3>4, <3>5, <3>6, <3>7 DEF BaoInv
    <2> QED BY <1>12, <2>1, <2>2 DEF B!Login
  <1> QED BY <1>1, <1>2, <1>3, <1>8, <1>9, <1>10, <1>11, <1>12 DEF B!Next

\* A call moves, and what it relies on of the policies is there.
LEMMA PolicyMoves ==
    ASSUME BaoInv, PolicyInv, NEW c \in Callers, NEW r \in CallRec, B!Put(c, r), policies \subseteq policies', ensured' \subseteq policies',
           r.pc \in {"ensured", "mint", "child"} => r.path \in policies', r.pc # "locked"
    PROVE  PolicyInv'
  <1>1. bcalls'[c] = r /\ \A d \in Callers \ {c} : bcalls'[d] = bcalls[d]
    BY DEF B!Put, BaoInv, BaoTypes
  <1> QED BY <1>1 DEF PolicyInv, B!NotLockedOut

LEMMA PolicyNext == ASSUME BaoInv, PolicyInv, Keeps, [B!Next]_bvars PROVE PolicyInv'
  <1> DEFINE k(c) == bcalls[c]
  <1>1. CASE UNCHANGED bvars
    BY <1>1 DEF bvars, PolicyInv, B!NotLockedOut
  <1>2. CASE B!Expire \/ B!LosePolicies
    BY <1>2 DEF B!Expire, B!LosePolicies, Keeps, PolicyInv, B!NotLockedOut
  <1>3. CASE B!Restart
    BY <1>3 DEF B!Restart, B!Idle, PolicyInv, B!NotLockedOut
  <1>4. ensured \subseteq policies /\ \A c \in Callers : k(c) \in CallRec /\ (k(c).pc \in {"ensured", "mint", "child"} => k(c).path \in policies) /\ k(c).pc # "locked"
    BY DEF PolicyInv, B!NotLockedOut, BaoInv, BaoTypes
  <1>5. ASSUME NEW c \in Callers, UNCHANGED <<policies, ensured>>, B!Refused(c) PROVE PolicyInv'
    <2>1. PICK r \in CallRec : B!Put(c, r) /\ r.path = k(c).path /\ r.pc \in {k(c).pc, "denied"}
      BY <1>5, CallSteps
    <2> QED BY <1>4, <1>5, <2>1, PolicyMoves
  <1>6. ASSUME NEW c \in Callers, NEW pc \in {"ensured", "child", "ok"}, B!Next1(c, pc), policies \subseteq policies', UNCHANGED ensured,
               pc # "ok" => k(c).path \in policies'
        PROVE  PolicyInv'
    <2>1. PICK r \in CallRec : B!Put(c, r) /\ r.path = k(c).path /\ r.pc = pc
      BY <1>6, CallSteps
    <2> QED BY <1>4, <1>6, <2>1, PolicyMoves
  <1>7. ASSUME NEW c \in Callers, B!PutPolicy(c) PROVE PolicyInv'
    BY <1>5, <1>6, <1>7 DEF B!PutPolicy
  <1>8. ASSUME NEW c \in Callers, B!MarkEnsured(c) PROVE PolicyInv'
    <2>1. PICK r \in CallRec : B!Put(c, r) /\ r.path = k(c).path /\ r.pc = "mint"
      BY <1>8, CallSteps DEF B!MarkEnsured
    <2>2. UNCHANGED policies /\ ensured' = ensured \cup {k(c).path} /\ k(c).path \in policies
      BY <1>4, <1>8 DEF B!MarkEnsured, B!At
    <2> QED BY <1>4, <2>1, <2>2, PolicyMoves
  <1>9. ASSUME NEW c \in Callers, B!Mint(c) \/ B!DoBase(c) PROVE PolicyInv'
    BY <1>4, <1>5, <1>6, <1>9 DEF B!Mint, B!DoBase, B!Effect, B!At
  <1>10. ASSUME NEW c \in Callers, B!DoUser(c) PROVE PolicyInv'
    BY <1>4, <1>6, <1>10 DEF B!DoUser, B!Effect, B!At
  <1>11. ASSUME NEW c \in Callers, B!Ensure(c) PROVE PolicyInv'
    <2>1. PICK r \in CallRec : B!Put(c, r) /\ r.path = k(c).path /\ r.pc = IF k(c).path \in ensured THEN "mint" ELSE "policy"
      BY <1>11, CallSteps
    <2> QED BY <1>4, <1>11, <2>1, PolicyMoves DEF B!Ensure
  <1>12. ASSUME NEW c \in Callers, NEW p \in B!Paths, NEW v \in {0, 1}, B!Begin(c, p, v) PROVE PolicyInv'
    <2> DEFINE pc == IF p \in Users THEN "ensure" ELSE "do"
               r == [B!Idle EXCEPT !.path = p, !.val = v, !.pc = pc]
    <2>1. pc \in {"ensure", "do"}
      OBVIOUS
    <2>2. B!Put(c, r) /\ UNCHANGED <<policies, ensured>>
      BY <1>12 DEF B!Begin
    <2> HIDE DEF pc
    <2>3. r \in CallRec /\ r.pc = pc
      BY <2>1 DEF B!Idle, CallRec
    <2> HIDE DEF r
    <2> QED BY <1>4, <2>1, <2>2, <2>3, PolicyMoves
  <1>13. ASSUME NEW c \in Callers, B!Return(c) PROVE PolicyInv'
    <2>1. B!Idle \in CallRec /\ B!Idle.pc = "idle"
      BY DEF B!Idle, CallRec, B!Paths, B!MachinesPath
    <2> QED BY <1>4, <1>13, <2>1, PolicyMoves DEF B!Return
  <1>14. ASSUME NEW c \in Callers, B!Login(c) PROVE PolicyInv'
    <2> DEFINE q == [k(c) EXCEPT !.pc = "failed"]
               n == dead + 1
               r == [k(c) EXCEPT !.since = n]
    <2>1. (B!Put(c, q) \/ B!Put(c, r)) /\ UNCHANGED <<policies, ensured>>
      BY <1>14 DEF B!Login
    <2>2. n \in Nat
      BY DEF BaoInv, BaoTypes
    <2> HIDE DEF n
    <2>3. q \in CallRec /\ q.pc = "failed" /\ r \in CallRec /\ r.pc = k(c).pc /\ r.path = k(c).path
      BY <1>4, <2>2 DEF CallRec
    <2> HIDE DEF q, r
    <2> QED BY <1>4, <2>1, <2>3, PolicyMoves
  <1> QED BY <1>1, <1>2, <1>3, <1>7, <1>8, <1>9, <1>10, <1>11, <1>12, <1>13, <1>14 DEF B!Next

-----------------------------------------------------------------------------
(***************************************************************************)
(* The GitHub grant (GitCredentials), when the user does not reconnect     *)
(* while calls are under way and a new pair is not lost (Ordered).  The    *)
(* call past the lock is the lock's holder (Holders), a connect is alone   *)
(* (Alone), the pair that is about to be used up is the stored one         *)
(* (AtWork), and the stored pair is used up only between GitHub's answer   *)
(* and the write of the new one (Usable).                                  *)
(***************************************************************************)
GitSizes == G!Free \notin Callers /\ MaxPairs \in Nat /\ Life \in Nat /\ Skew \in Nat /\ TTL \in Nat
Ordered == "overlap" \notin GitMay /\ "lost" \notin GitMay

Locked == {"link", "secret", "refresh", "put", "upsert", "mark"}
GitCall == [kind : {"idle", "api", "cred", "connect"}, pc : Locked \cup {"idle", "lock", "use", "account", "store", "row"},
            tok : G!Pairs, force : BOOLEAN]

GitTypes ==
    /\ clock \in Nat /\ user \in BOOLEAN /\ link \in {"none", "ok", "revoked"}
    /\ gh \in [last : G!Pairs, dead : Nat, used : SUBSET G!Pairs, exp : [G!Pairs -> Nat]]
    /\ pair \in 0 .. gh.last /\ \A n \in gh.used : n <= gh.last
    /\ gcalls \in [Callers -> GitCall]
    /\ cache \in [pair : 0 .. gh.last, until : Nat] /\ served \in [pair : 0 .. gh.last, at : Nat]

Kinds(k) ==
    /\ k.pc \in Locked \cup {"lock", "use"} <=> k.kind \in {"api", "cred"}
    /\ k.pc \in {"account", "store", "row"} <=> k.kind = "connect"

Holders ==
    /\ \A c \in Callers : gcalls[c].pc \in Locked => lock = c
    /\ lock # G!Free => lock \in Callers /\ gcalls[lock].pc \in Locked

Alone == \A c, d \in Callers : gcalls[c].kind = "connect" /\ gcalls[d].kind # "idle" => c = d

\* What is in the hands of a call.
AtWork(k) ==
    /\ k.tok <= gh.last
    /\ k.pc = "refresh" => k.tok = pair /\ pair # 0
    /\ k.pc \in {"put", "account", "store"} => k.tok # 0 /\ k.tok \notin gh.used
    /\ k.pc = "mark" => pair <= gh.dead
    /\ k.pc \in {"put", "upsert"} => ~(user /\ link = "revoked")
    /\ k.pc = "row" => pair # 0
    /\ k.kind = "cred" /\ k.pc \in {"put", "upsert", "use"} => k.tok # 0 /\ clock <= gh.exp[k.tok]

Usable == (\A c \in Callers : gcalls[c].pc # "put") => pair \notin gh.used

Connected ==
    user /\ ~G!Connecting => link # "none" /\ pair # 0 /\ (link = "revoked" => pair <= gh.dead)

GivenOut ==
    /\ cache.pair # 0 => cache.until <= gh.exp[cache.pair]
    /\ served.pair # 0 => served.at <= gh.exp[served.pair]

GitInv ==
    /\ GitTypes /\ Holders /\ Alone /\ Usable /\ Connected /\ GivenOut
    /\ \A c \in Callers : Kinds(gcalls[c]) /\ AtWork(gcalls[c])

LEMMA GitInit == ASSUME GitSizes, G!Init PROVE GitInv
  <1>1. /\ clock = 0 /\ user = FALSE /\ link = "none" /\ pair = 0 /\ lock = G!Free
        /\ gh = [last |-> 0, dead |-> 0, used |-> {}, exp |-> [n \in G!Pairs |-> 0]]
        /\ gcalls = [c \in Callers |-> G!Idle] /\ cache = G!NoCred /\ served = [pair |-> 0, at |-> 0]
    BY DEF G!Init
  <1>2. G!Idle \in GitCall /\ G!Idle.kind = "idle" /\ G!Idle.pc = "idle" /\ G!Idle.tok = 0 /\ 0 \in G!Pairs
    BY DEF G!Idle, GitCall, Locked, G!Pairs, GitSizes
  <1>3. gh \in [last : G!Pairs, dead : Nat, used : SUBSET G!Pairs, exp : [G!Pairs -> Nat]] /\ gh.last = 0 /\ gh.used = {} /\ 0 \in 0 .. gh.last
    BY <1>1, <1>2
  <1>6. cache \in [pair : 0 .. gh.last, until : Nat] /\ served \in [pair : 0 .. gh.last, at : Nat]
    <2> HIDE DEF GitSizes
    <2>1. 0 \in Nat
      OBVIOUS
    <2> QED BY <1>1, <1>3, <2>1 DEF G!NoCred
  <1>7. GitTypes
    BY <1>1, <1>2, <1>3, <1>6 DEF GitTypes
  <1>4. Holders /\ Alone /\ Usable /\ Connected /\ GivenOut
    BY <1>1, <1>2 DEF Holders, Alone, Usable, Connected, GivenOut, Locked, G!NoCred
  <1>5. Kinds(G!Idle) /\ AtWork(G!Idle)
    BY <1>1, <1>2 DEF Kinds, AtWork, Locked
  <1> QED BY <1>1, <1>7, <1>4, <1>5 DEF GitInv

\* While a call holds the lock or connects, the others are at rest.
LEMMA OthersRest ==
    ASSUME GitSizes, GitInv, NEW c \in Callers, gcalls[c].pc \in Locked \/ gcalls[c].kind = "connect", NEW d \in Callers \ {c}
    PROVE  gcalls[d].pc \in {"idle", "lock", "use"} /\ gcalls[d].kind # "connect" /\ (gcalls[c].kind = "connect" => gcalls[d].kind = "idle")
  <1>1. gcalls[d] \in GitCall /\ Kinds(gcalls[d]) /\ Kinds(gcalls[c])
    BY DEF GitInv, GitTypes
  <1>2. gcalls[c].pc \in Locked => gcalls[c].kind \in {"api", "cred"} /\ gcalls[d].pc \notin Locked
    BY <1>1 DEF GitInv, Holders, Kinds
  <1>3. gcalls[c].kind = "connect" => gcalls[d].kind = "idle"
    BY DEF GitInv, Alone
  <1>4. gcalls[d].kind # "connect"
    BY <1>2, <1>3 DEF GitInv, Alone
  <1>5. gcalls[d].pc \in Locked \cup {"idle", "lock", "use", "account", "store", "row"}
    BY <1>1 DEF GitCall
  <1> QED BY <1>1, <1>2, <1>3, <1>4, <1>5 DEF Kinds

\* A call at rest relies on its token only.
LEMMA RestKept ==
    ASSUME NEW k \in GitCall, AtWork(k), k.pc \in {"idle", "lock", "use"}, gh.last \in Nat, gh'.last \in Nat, gh.last <= gh'.last,
           \A n \in G!Pairs : n <= gh.last => gh'.exp[n] = gh.exp[n], clock' = clock
    PROVE  /\ k.tok <= gh'.last
           /\ k.kind = "cred" /\ k.pc \in {"put", "upsert", "use"} => k.tok # 0 /\ clock' <= gh'.exp[k.tok]
  <1>1. k.tok \in G!Pairs /\ k.tok \in Nat
    BY DEF GitCall, G!Pairs
  <1> QED BY <1>1 DEF AtWork

\* Who holds the lock.
LEMMA HoldersKept ==
    ASSUME GitSizes, GitInv, NEW c \in Callers, NEW r \in GitCall, gcalls' = [gcalls EXCEPT ![c] = r],
           \/ lock' = lock /\ (r.pc \in Locked <=> gcalls[c].pc \in Locked)
           \/ lock' = (IF lock = c THEN G!Free ELSE lock) /\ r.pc \notin Locked
           \/ lock = G!Free /\ lock' = c /\ r.pc \in Locked
    PROVE  Holders'
  <1>1. gcalls'[c] = r /\ \A d \in Callers \ {c} : gcalls'[d] = gcalls[d]
    BY DEF GitInv, GitTypes
  <1> QED BY <1>1 DEF GitInv, Holders, GitSizes

\* A call that ends or goes on leaves a connect alone.
LEMMA AloneKept ==
    ASSUME GitInv, NEW c \in Callers, NEW r \in GitCall, gcalls' = [gcalls EXCEPT ![c] = r],
           r.kind \in {gcalls[c].kind, "idle"} \/ (r.kind # "connect" /\ ~G!Connecting)
    PROVE  Alone'
  <1>1. gcalls'[c] = r /\ \A d \in Callers \ {c} : gcalls'[d] = gcalls[d]
    BY DEF GitInv, GitTypes
  <1> QED BY <1>1 DEF GitInv, Alone, G!Connecting

\* A call goes on while the grant stays as it is.
LEMMA CallMoves ==
    ASSUME GitSizes, GitInv, NEW c \in Callers, NEW r \in GitCall, gcalls' = [gcalls EXCEPT ![c] = r], Kinds(r), AtWork(r),
           UNCHANGED <<clock, gh, user, link, pair>>, Holders', Alone', GivenOut',
           cache' \in [pair : 0 .. gh.last, until : Nat], served' \in [pair : 0 .. gh.last, at : Nat],
           gcalls[c].kind # "connect", gcalls[c].pc # "put"
    PROVE  GitInv'
  <1>1. gcalls' \in [Callers -> GitCall] /\ gcalls'[c] = r /\ \A d \in Callers \ {c} : gcalls'[d] = gcalls[d]
    BY DEF GitInv, GitTypes
  <1>2. GitTypes'
    BY <1>1 DEF GitInv, GitTypes
  <1>3. ASSUME NEW d \in Callers PROVE Kinds(gcalls[d])' /\ AtWork(gcalls[d])'
    BY <1>1 DEF GitInv, Kinds, AtWork
  <1>4. Usable'
    BY <1>1 DEF GitInv, Usable
  <1>5. Connected'
    BY <1>1 DEF GitInv, Connected, G!Connecting
  <1> QED BY <1>2, <1>3, <1>4, <1>5 DEF GitInv

LEMMA IdleCall == ASSUME GitSizes, GitInv PROVE G!Idle \in GitCall /\ G!Idle.pc = "idle" /\ G!Idle.kind = "idle" /\ G!Idle.tok = 0 /\ Kinds(G!Idle) /\ AtWork(G!Idle)
  <1>1. G!Idle \in GitCall /\ G!Idle.pc = "idle" /\ G!Idle.kind = "idle" /\ G!Idle.tok = 0
    BY DEF G!Idle, GitCall, G!Pairs, GitSizes
  <1>2. gh.last \in Nat
    BY DEF GitInv, GitTypes, G!Pairs
  <1> QED BY <1>1, <1>2 DEF Kinds, AtWork, Locked

\* Nothing is handed out.
LEMMA NothingGiven ==
    ASSUME GitInv, UNCHANGED <<gh, cache, served>>
    PROVE  GivenOut' /\ cache' \in [pair : 0 .. gh.last, until : Nat] /\ served' \in [pair : 0 .. gh.last, at : Nat]
  BY DEF GitInv, GitTypes, GivenOut

\* The call is over.
LEMMA EndKeeps ==
    ASSUME GitSizes, GitInv, NEW c \in Callers, G!End(c), UNCHANGED <<clock, gh, user, link, pair, cache, served>>,
           gcalls[c].kind # "connect", gcalls[c].pc # "put"
    PROVE  GitInv'
  <1>1. gcalls' = [gcalls EXCEPT ![c] = G!Idle] /\ lock' = IF lock = c THEN G!Free ELSE lock
    BY DEF G!End, G!Put
  <1>2. Holders' /\ Alone'
    BY <1>1, IdleCall, HoldersKept, AloneKept DEF Locked
  <1> QED BY <1>1, <1>2, IdleCall, NothingGiven, CallMoves

\* A call begins, with no connect under way.
LEMMA BeginKeeps ==
    ASSUME GitSizes, GitInv, NEW c \in Callers, NEW kind \in {"api", "cred"}, G!Begin(c, kind, "lock"), ~G!Connecting,
           UNCHANGED <<clock, gh, user, link, pair, lock>>, GivenOut',
           cache' \in [pair : 0 .. gh.last, until : Nat], served' \in [pair : 0 .. gh.last, at : Nat]
    PROVE  GitInv'
  <1> DEFINE r == [G!Idle EXCEPT !.kind = kind, !.pc = "lock"]
  <1>1. gcalls' = [gcalls EXCEPT ![c] = r] /\ gcalls[c] = G!Idle
    BY DEF G!Begin, G!Put
  <1>2. r \in GitCall /\ r.kind = kind /\ r.pc = "lock" /\ r.tok = 0
    BY IdleCall DEF G!Idle, GitCall
  <1> HIDE DEF r
  <1>3. gh.last \in Nat
    BY DEF GitInv, GitTypes, G!Pairs
  <1>4. Kinds(r) /\ AtWork(r)
    BY <1>2, <1>3 DEF Kinds, AtWork, Locked
  <1>5. gcalls[c].kind # "connect" /\ gcalls[c].pc # "put" /\ gcalls[c].pc \notin Locked
    BY <1>1, IdleCall DEF Locked
  <1>6. Holders' /\ Alone'
    BY <1>1, <1>2, <1>5, HoldersKept, AloneKept DEF Locked
  <1> QED BY <1>1, <1>2, <1>4, <1>5, <1>6, CallMoves

LEMMA BeginAPIKeeps == ASSUME GitSizes, Ordered, GitInv, NEW c \in Callers, G!BeginAPI(c) PROVE GitInv'
  <1>1. G!Begin(c, "api", "lock") /\ ~G!Connecting /\ UNCHANGED <<clock, gh, user, link, pair, lock, cache, served>>
    BY DEF G!BeginAPI, G!grant, G!guest, Ordered
  <1> QED BY <1>1, NothingGiven, BeginKeeps

LEMMA CredentialKeeps == ASSUME GitSizes, Ordered, GitInv, NEW c \in Callers, G!Credential(c) PROVE GitInv'
  <1>1. ~G!Connecting /\ UNCHANGED <<clock, gh, user, link, pair, lock>>
    BY DEF G!Credential, G!grant, Ordered
  <1>2. clock \in Nat /\ cache \in [pair : 0 .. gh.last, until : Nat] /\ gh.last \in Nat /\ 0 \in 0 .. gh.last
        /\ served \in [pair : 0 .. gh.last, at : Nat] /\ GivenOut
    BY DEF GitInv, GitTypes, G!Pairs
  <1>3. CASE G!Cached
    <2>1. served' = [pair |-> cache.pair, at |-> clock] /\ UNCHANGED <<gcalls, cache>> /\ cache.pair # 0 /\ clock <= cache.until
      BY <1>3 DEF G!Credential, G!Cached
    <2>2. served' \in [pair : 0 .. gh.last, at : Nat] /\ served'.pair = cache.pair /\ served'.at = clock
      BY <1>2, <2>1
    <2>6. cache.pair \in 0 .. gh.last /\ gh.last \in 0 .. MaxPairs /\ MaxPairs \in Nat
      BY <1>2 DEF GitInv, GitTypes, G!Pairs, GitSizes
    <2>7. cache.pair \in G!Pairs
      BY <2>6 DEF G!Pairs
    <2>3. gh.exp[cache.pair] \in Nat
      BY <2>7 DEF GitInv, GitTypes
    <2>4. GivenOut'
      BY <1>1, <1>2, <2>1, <2>2, <2>3 DEF GivenOut
    <2>5. GitTypes'
      BY <1>1, <2>1, <2>2 DEF GitInv, GitTypes
    <2> QED BY <1>1, <2>1, <2>4, <2>5 DEF GitInv, Holders, Alone, Usable, Connected, G!Connecting, Kinds, AtWork
  <1>4. CASE ~G!Cached
    <2>1. G!Begin(c, "cred", "lock") /\ cache' = G!NoCred /\ UNCHANGED served
      BY <1>4 DEF G!Credential
    <2>2. cache' \in [pair : 0 .. gh.last, until : Nat] /\ cache'.pair = 0
      BY <1>2, <2>1 DEF G!NoCred
    <2>3. GivenOut'
      BY <1>1, <1>2, <2>1, <2>2 DEF GivenOut
    <2> QED BY <1>1, <1>2, <2>1, <2>2, <2>3, BeginKeeps
  <1> QED BY <1>3, <1>4

\* A call that holds or awaits the lock, or uses a token, goes on.
LEMMA GoesOn ==
    ASSUME GitSizes, GitInv, NEW c \in Callers, gcalls[c].pc \in (Locked \ {"put"}) \cup {"lock", "use"}, NEW r \in GitCall,
           r.kind = gcalls[c].kind, r.pc \in Locked \cup {"lock", "use"}, AtWork(r), gcalls' = [gcalls EXCEPT ![c] = r],
           \/ lock' = lock /\ (r.pc \in Locked <=> gcalls[c].pc \in Locked)
           \/ lock' = (IF lock = c THEN G!Free ELSE lock) /\ r.pc \notin Locked
           \/ lock = G!Free /\ lock' = c /\ r.pc \in Locked,
           UNCHANGED <<clock, gh, user, link, pair, cache, served>>
    PROVE  GitInv'
  <1>1. gcalls[c].kind \in {"api", "cred"} /\ gcalls[c].pc # "put"
    BY DEF GitInv, Kinds, Locked
  <1>2. Kinds(r)
    BY <1>1 DEF Kinds, Locked
  <1>3. Holders'
    BY HoldersKept
  <1>4. Alone'
    BY AloneKept
  <1> QED BY <1>1, <1>2, <1>3, <1>4, NothingGiven, CallMoves

LEMMA LockKeeps == ASSUME GitSizes, GitInv, NEW c \in Callers, G!Lock(c) PROVE GitInv'
  <1> DEFINE r == [gcalls[c] EXCEPT !.pc = "link"]
  <1>1. gcalls' = [gcalls EXCEPT ![c] = r] /\ gcalls[c].pc = "lock" /\ lock = G!Free /\ lock' = c /\ UNCHANGED <<clock, gh, user, link, pair, cache, served>>
    BY DEF G!Lock, G!Go, G!Put, G!At, G!grant, G!guest
  <1>2. gcalls[c] \in GitCall /\ AtWork(gcalls[c])
    BY DEF GitInv, GitTypes
  <1>3. r \in GitCall /\ r.kind = gcalls[c].kind /\ r.pc = "link" /\ r.tok = gcalls[c].tok
    BY <1>2 DEF GitCall, Locked
  <1> HIDE DEF r
  <1>4. AtWork(r)
    BY <1>2, <1>3 DEF AtWork
  <1> QED BY <1>1, <1>3, <1>4, GoesOn DEF Locked

LEMMA ReadLinkKeeps == ASSUME GitSizes, GitInv, NEW c \in Callers, G!ReadLink(c) PROVE GitInv'
  <1> DEFINE r == [gcalls[c] EXCEPT !.pc = "secret"]
  <1>1. gcalls[c].pc = "link" /\ (G!End(c) \/ (gcalls' = [gcalls EXCEPT ![c] = r] /\ UNCHANGED lock)) /\ UNCHANGED <<clock, gh, user, link, pair, cache, served>>
    BY DEF G!ReadLink, G!Go, G!Put, G!At, G!grant, G!guest
  <1>2. gcalls[c] \in GitCall /\ AtWork(gcalls[c]) /\ gcalls[c].kind # "connect"
    BY <1>1 DEF GitInv, GitTypes, Kinds, Locked
  <1>3. r \in GitCall /\ r.kind = gcalls[c].kind /\ r.pc = "secret" /\ r.tok = gcalls[c].tok
    BY <1>2 DEF GitCall, Locked
  <1> HIDE DEF r
  <1>4. AtWork(r)
    BY <1>2, <1>3 DEF AtWork
  <1>5. CASE G!End(c)
    BY <1>1, <1>2, <1>5, EndKeeps
  <1>6. CASE gcalls' = [gcalls EXCEPT ![c] = r] /\ UNCHANGED lock
    BY <1>1, <1>3, <1>4, <1>6, GoesOn DEF Locked
  <1> QED BY <1>1, <1>5, <1>6

LEMMA ReadSecretKeeps == ASSUME GitSizes, GitInv, NEW c \in Callers, G!ReadSecret(c) PROVE GitInv'
  <1> DEFINE r == [gcalls[c] EXCEPT !.pc = "use", !.tok = pair]
             q == [gcalls[c] EXCEPT !.pc = "refresh", !.tok = pair]
  <1>1. gcalls[c].pc = "secret" /\ UNCHANGED <<clock, gh, user, link, pair, cache, served>>
    BY DEF G!ReadSecret, G!At, G!grant, G!guest
  <1>2. \/ G!End(c)
        \/ pair # 0 /\ gh.exp[pair] > clock + Skew /\ gcalls' = [gcalls EXCEPT ![c] = r] /\ lock' = IF lock = c THEN G!Free ELSE lock
        \/ pair # 0 /\ gcalls' = [gcalls EXCEPT ![c] = q] /\ UNCHANGED lock
    BY DEF G!ReadSecret, G!Got, G!Put
  <1>3. gcalls[c] \in GitCall /\ AtWork(gcalls[c]) /\ gcalls[c].kind # "connect"
    BY <1>1 DEF GitInv, GitTypes, Kinds, Locked
  <1>4. pair \in G!Pairs /\ pair <= gh.last /\ clock \in Nat /\ gh.exp[pair] \in Nat /\ Skew \in Nat
    BY DEF GitInv, GitTypes, G!Pairs, GitSizes
  <1>5. r \in GitCall /\ r.kind = gcalls[c].kind /\ r.pc = "use" /\ r.tok = pair
    BY <1>3, <1>4 DEF GitCall, Locked
  <1>6. q \in GitCall /\ q.kind = gcalls[c].kind /\ q.pc = "refresh" /\ q.tok = pair
    BY <1>3, <1>4 DEF GitCall, Locked
  <1> HIDE DEF r, q
  <1>7. CASE G!End(c)
    BY <1>1, <1>3, <1>7, EndKeeps
  <1>8. CASE pair # 0 /\ gh.exp[pair] > clock + Skew /\ gcalls' = [gcalls EXCEPT ![c] = r] /\ lock' = IF lock = c THEN G!Free ELSE lock
    <2>1. AtWork(r)
      BY <1>4, <1>5, <1>8 DEF AtWork
    <2> QED BY <1>1, <1>5, <1>8, <2>1, GoesOn DEF Locked
  <1>9. CASE pair # 0 /\ gcalls' = [gcalls EXCEPT ![c] = q] /\ UNCHANGED lock
    <2>1. AtWork(q)
      BY <1>4, <1>6, <1>9 DEF AtWork
    <2> QED BY <1>1, <1>6, <1>9, <2>1, GoesOn DEF Locked
  <1> QED BY <1>2, <1>7, <1>8, <1>9

LEMMA UseKeeps == ASSUME GitSizes, GitInv, NEW c \in Callers, G!Use(c) PROVE GitInv'
  <1> DEFINE r == [gcalls[c] EXCEPT !.pc = "lock", !.force = TRUE]
  <1>1. gcalls[c].pc = "use" /\ (gcalls' = [gcalls EXCEPT ![c] = G!Idle] \/ gcalls' = [gcalls EXCEPT ![c] = r])
        /\ UNCHANGED <<lock, clock, gh, user, link, pair, cache, served>>
    BY DEF G!Use, G!Put, G!At, G!grant, G!guest
  <1>2. gcalls[c] \in GitCall /\ AtWork(gcalls[c]) /\ gcalls[c].kind # "connect"
    BY <1>1 DEF GitInv, GitTypes, Kinds, Locked
  <1>3. r \in GitCall /\ r.kind = gcalls[c].kind /\ r.pc = "lock" /\ r.tok = gcalls[c].tok
    BY <1>2 DEF GitCall, Locked
  <1> HIDE DEF r
  <1>4. AtWork(r)
    BY <1>2, <1>3 DEF AtWork
  <1>5. CASE gcalls' = [gcalls EXCEPT ![c] = G!Idle]
    <2>1. Holders' /\ Alone'
      BY <1>1, <1>5, IdleCall, HoldersKept, AloneKept DEF Locked
    <2> QED BY <1>1, <1>2, <1>5, <2>1, IdleCall, NothingGiven, CallMoves
  <1>6. CASE gcalls' = [gcalls EXCEPT ![c] = r]
    BY <1>1, <1>3, <1>4, <1>6, GoesOn DEF Locked
  <1> QED BY <1>1, <1>5, <1>6

LEMMA AnswerKeeps == ASSUME GitSizes, GitInv, NEW c \in Callers, G!Answer(c) PROVE GitInv'
  <1> DEFINE n == gcalls[c].tok
             u == IF gh.exp[n] < clock + TTL THEN gh.exp[n] ELSE clock + TTL
  <1>1. gcalls[c].pc = "use" /\ gcalls[c].kind = "cred" /\ gcalls' = [gcalls EXCEPT ![c] = G!Idle]
        /\ cache' = [pair |-> n, until |-> u] /\ served' = [pair |-> n, at |-> clock] /\ UNCHANGED <<lock, clock, gh, user, link, pair>>
    BY DEF G!Answer, G!StoreCred, G!Put, G!At, G!grant
  <1>2. gcalls[c] \in GitCall /\ AtWork(gcalls[c]) /\ clock \in Nat /\ TTL \in Nat /\ gh.last \in Nat /\ n \in Nat /\ n \in 0 .. gh.last
        /\ n # 0 /\ clock <= gh.exp[n] /\ gh.exp[n] \in Nat
    <2>1. gcalls[c] \in GitCall /\ AtWork(gcalls[c]) /\ clock \in Nat /\ TTL \in Nat /\ gh.last \in Nat
      BY DEF GitInv, GitTypes, G!Pairs, GitSizes
    <2>2. n \in G!Pairs /\ n \in Nat /\ n <= gh.last /\ n # 0 /\ clock <= gh.exp[n]
      BY <1>1, <2>1 DEF AtWork, GitCall, G!Pairs
    <2> QED BY <2>1, <2>2 DEF GitInv, GitTypes
  <1>3. u \in Nat /\ u <= gh.exp[n]
    BY <1>2
  <1> HIDE DEF n, u
  <1>4. cache' \in [pair : 0 .. gh.last, until : Nat] /\ served' \in [pair : 0 .. gh.last, at : Nat]
        /\ cache'.pair = n /\ cache'.until = u /\ served'.pair = n /\ served'.at = clock
    BY <1>1, <1>2, <1>3
  <1>5. GivenOut'
    BY <1>1, <1>2, <1>3, <1>4 DEF GivenOut
  <1>6. Holders' /\ Alone'
    BY <1>1, IdleCall, HoldersKept, AloneKept DEF Locked
  <1> QED BY <1>1, <1>4, <1>5, <1>6, IdleCall, CallMoves

\* The pairs that GitHub knows.
LEMMA GrantFacts == ASSUME GitSizes, GitInv
    PROVE  /\ gh.last \in Nat /\ gh.last \in G!Pairs /\ gh.dead \in Nat /\ gh.used \in SUBSET G!Pairs /\ gh.exp \in [G!Pairs -> Nat]
           /\ clock \in Nat /\ pair \in Nat /\ pair <= gh.last /\ Life \in Nat
           /\ \A n \in G!Pairs : n \in Nat
           /\ \A c \in Callers : gcalls[c] \in GitCall /\ gcalls[c].tok \in G!Pairs /\ gcalls[c].tok \in Nat /\ Kinds(gcalls[c]) /\ AtWork(gcalls[c])
           /\ \A n \in gh.used : n <= gh.last
  <1>1. gh.last \in G!Pairs /\ gh.dead \in Nat /\ gh.used \in SUBSET G!Pairs /\ gh.exp \in [G!Pairs -> Nat] /\ clock \in Nat /\ pair \in 0 .. gh.last
        /\ \A n \in gh.used : n <= gh.last
    BY DEF GitInv, GitTypes
  <1>2. \A n \in G!Pairs : n \in Nat
    BY DEF G!Pairs
  <1>3. \A c \in Callers : gcalls[c] \in GitCall /\ Kinds(gcalls[c]) /\ AtWork(gcalls[c])
    BY DEF GitInv, GitTypes
  <1>4. \A c \in Callers : gcalls[c].tok \in G!Pairs
    BY <1>3 DEF GitCall
  <1> QED BY <1>1, <1>2, <1>3, <1>4 DEF GitSizes

\* A new pair is issued: what was known of the others stays.
LEMMA Issued ==
    ASSUME GitSizes, GitInv, gh.last < MaxPairs, NEW using \in SUBSET (0 .. gh.last), G!Issue(using)
    PROVE  /\ gh'.last = gh.last + 1 /\ gh'.dead = gh.dead /\ gh'.used = gh.used \cup using /\ gh'.exp[gh.last + 1] = clock + Life
           /\ \A n \in G!Pairs : n <= gh.last => gh'.exp[n] = gh.exp[n]
           /\ gh.last + 1 \in G!Pairs /\ gh.last + 1 \notin gh'.used /\ gh.last + 1 # 0
           /\ gh' \in [last : G!Pairs, dead : Nat, used : SUBSET G!Pairs, exp : [G!Pairs -> Nat]]
           /\ \A n \in gh'.used : n <= gh'.last
           /\ 0 .. gh.last \subseteq 0 .. gh'.last
           /\ GivenOut /\ UNCHANGED <<cache, served>> => GivenOut'
  <1>1. gh' = [gh EXCEPT !.last = gh.last + 1, !.used = gh.used \cup using, !.exp[gh.last + 1] = clock + Life]
    BY DEF G!Issue
  <1>2. gh.last + 1 \in G!Pairs /\ gh.last + 1 # 0 /\ using \subseteq G!Pairs /\ clock + Life \in Nat
    BY GrantFacts DEF G!Pairs, GitSizes
  <1>3. gh \in [last : G!Pairs, dead : Nat, used : SUBSET G!Pairs, exp : [G!Pairs -> Nat]]
    BY DEF GitInv, GitTypes
  <1>4. /\ gh'.last = gh.last + 1 /\ gh'.dead = gh.dead /\ gh'.used = gh.used \cup using
        /\ gh'.exp = [gh.exp EXCEPT ![gh.last + 1] = clock + Life]
        /\ gh' = [last |-> gh'.last, dead |-> gh'.dead, used |-> gh'.used, exp |-> gh'.exp]
    BY <1>1, <1>3
  <1>5. gh'.exp \in [G!Pairs -> Nat] /\ gh'.exp[gh.last + 1] = clock + Life /\ \A n \in G!Pairs : n <= gh.last => gh'.exp[n] = gh.exp[n]
    BY <1>2, <1>4, GrantFacts
  <1>6. \A n \in gh'.used : n \in Nat /\ n <= gh.last
    BY <1>4, GrantFacts
  <1>7. gh' \in [last : G!Pairs, dead : Nat, used : SUBSET G!Pairs, exp : [G!Pairs -> Nat]]
    BY <1>2, <1>4, <1>5, GrantFacts
  <1>8. 0 .. gh.last \subseteq 0 .. gh'.last
    BY <1>4, GrantFacts
  <1>9. ASSUME GivenOut, UNCHANGED <<cache, served>> PROVE GivenOut'
    <2>1. cache.pair \in 0 .. gh.last /\ served.pair \in 0 .. gh.last
      BY DEF GitInv, GitTypes
    <2>2. 0 .. gh.last \subseteq G!Pairs
      BY GrantFacts DEF G!Pairs, GitSizes
    <2>3. gh'.exp[cache.pair] = gh.exp[cache.pair] /\ gh'.exp[served.pair] = gh.exp[served.pair]
      BY <1>5, <2>1, <2>2, GrantFacts
    <2> QED BY <1>9, <2>3 DEF GivenOut
  <1> QED BY <1>2, <1>4, <1>5, <1>6, <1>7, <1>8, <1>9, GrantFacts

\* The rest of the state after a pair was issued.
LEMMA TypesGrow ==
    ASSUME GitSizes, GitInv, gh' \in [last : G!Pairs, dead : Nat, used : SUBSET G!Pairs, exp : [G!Pairs -> Nat]],
           \A n \in gh'.used : n <= gh'.last, 0 .. gh.last \subseteq 0 .. gh'.last, UNCHANGED <<clock, user, link, pair, cache, served>>,
           gcalls' \in [Callers -> GitCall]
    PROVE  GitTypes'
  <1>1. pair' \in 0 .. gh'.last
    BY DEF GitInv, GitTypes
  <1>2. cache' \in [pair : 0 .. gh'.last, until : Nat]
    BY DEF GitInv, GitTypes
  <1>3. served' \in [pair : 0 .. gh'.last, at : Nat]
    BY DEF GitInv, GitTypes
  <1> QED BY <1>1, <1>2, <1>3 DEF GitInv, GitTypes

\* The other calls, while one that holds the lock or connects goes on.
LEMMA OthersKept ==
    ASSUME GitSizes, GitInv, NEW c \in Callers, gcalls[c].pc \in Locked \/ gcalls[c].kind = "connect", NEW d \in Callers \ {c},
           gh.last <= gh'.last, gh'.last \in Nat, \A n \in G!Pairs : n <= gh.last => gh'.exp[n] = gh.exp[n], clock' = clock, gcalls'[d] = gcalls[d]
    PROVE  Kinds(gcalls[d])' /\ AtWork(gcalls[d])'
  <1>1. gcalls[d].pc \in {"idle", "lock", "use"} /\ gcalls[d] \in GitCall /\ AtWork(gcalls[d]) /\ Kinds(gcalls[d]) /\ gh.last \in Nat
    BY OthersRest, GrantFacts
  <1>2. /\ gcalls[d].tok <= gh'.last
        /\ gcalls[d].kind = "cred" /\ gcalls[d].pc \in {"put", "upsert", "use"} => gcalls[d].tok # 0 /\ clock' <= gh'.exp[gcalls[d].tok]
    BY <1>1, RestKept
  <1>3. Kinds(gcalls[d])'
    BY <1>1 DEF Kinds
  <1>4. AtWork(gcalls[d])'
    BY <1>1, <1>2 DEF AtWork
  <1> QED BY <1>3, <1>4

LEMMA RefreshKeeps == ASSUME GitSizes, Ordered, GitInv, NEW c \in Callers, G!Refresh(c) PROVE GitInv'
  <1> DEFINE k == gcalls[c]
             r == [k EXCEPT !.pc = "put", !.tok = gh.last + 1]
             q == [k EXCEPT !.pc = "mark"]
  <1>1. k.pc = "refresh" /\ UNCHANGED <<clock, user, link, pair, cache, served>> /\ k \in GitCall /\ AtWork(k) /\ Kinds(k)
        /\ k.tok = pair /\ pair # 0 /\ k.kind \in {"api", "cred"} /\ k.pc \in Locked
    <2>1. k.pc = "refresh" /\ UNCHANGED <<clock, user, link, pair, cache, served>>
      BY DEF G!Refresh, G!At, G!guest
    <2> QED BY <2>1, GrantFacts DEF Kinds, AtWork, Locked
  <1>2. CASE G!Works(k.tok)
    <2>1. gh.last < MaxPairs /\ G!Issue({pair}) /\ gcalls' = [gcalls EXCEPT ![c] = r] /\ UNCHANGED lock
      BY <1>1, <1>2 DEF G!Refresh, G!Put, Ordered
    <2>2. {pair} \in SUBSET (0 .. gh.last)
      BY DEF GitInv, GitTypes
    <2>3. /\ gh'.last = gh.last + 1 /\ gh'.dead = gh.dead /\ gh'.used = gh.used \cup {pair} /\ gh'.exp[gh.last + 1] = clock + Life
          /\ \A n \in G!Pairs : n <= gh.last => gh'.exp[n] = gh.exp[n]
          /\ gh.last + 1 \in G!Pairs /\ gh.last + 1 \notin gh'.used /\ gh.last + 1 # 0
          /\ gh' \in [last : G!Pairs, dead : Nat, used : SUBSET G!Pairs, exp : [G!Pairs -> Nat]]
          /\ \A n \in gh'.used : n <= gh'.last
          /\ 0 .. gh.last \subseteq 0 .. gh'.last
          /\ GivenOut'
      BY <1>1, <2>1, <2>2, Issued DEF GitInv
    <2>4. r \in GitCall /\ r.kind = k.kind /\ r.pc = "put" /\ r.tok = gh.last + 1
      BY <1>1, <2>3 DEF GitCall, Locked
    <2> HIDE DEF r, k
    <2>5. gcalls' \in [Callers -> GitCall] /\ gcalls'[c] = r /\ \A d \in Callers \ {c} : gcalls'[d] = gcalls[d]
      BY <2>1, <2>4 DEF GitInv, GitTypes
    <2>6. GitTypes'
      BY <1>1, <2>3, <2>5, TypesGrow
    <2>7. Holders' /\ Alone'
      BY <1>1, <2>1, <2>4, HoldersKept, AloneKept DEF k, Locked
    <2>8. Usable'
      BY <2>4, <2>5 DEF Usable
    <2>9. G!Connecting' = G!Connecting
      BY <1>1, <2>4, <2>5 DEF G!Connecting, k
    <2>10. Connected'
      BY <1>1, <2>3, <2>9 DEF GitInv, Connected
    <2>11. ~(user /\ link = "revoked")
      <3>1. ~G!Connecting
        BY <1>1, OthersRest DEF G!Connecting, k
      <3>2. pair > gh.dead
        BY <1>1, <1>2 DEF G!Works
      <3> QED BY <3>1, <3>2, GrantFacts DEF GitInv, Connected
    <2>14. ASSUME NEW d \in Callers \ {c} PROVE Kinds(gcalls[d])' /\ AtWork(gcalls[d])'
      BY <1>1, <2>3, <2>5, OthersKept, GrantFacts DEF k
    <2>15. Kinds(gcalls[c])'
      BY <1>1, <2>4, <2>5 DEF Kinds, Locked
    <2>16. AtWork(gcalls[c])'
      BY <1>1, <2>3, <2>4, <2>5, <2>11, GrantFacts DEF AtWork
    <2> QED BY <2>3, <2>6, <2>7, <2>8, <2>10, <2>14, <2>15, <2>16 DEF GitInv
  <1>3. CASE ~G!Works(k.tok)
    <2>1. gcalls' = [gcalls EXCEPT ![c] = q] /\ UNCHANGED <<gh, lock>>
      BY <1>3 DEF G!Refresh, G!Go, G!Put
    <2>2. q \in GitCall /\ q.kind = k.kind /\ q.pc = "mark" /\ q.tok = pair
      BY <1>1 DEF GitCall, Locked
    <2>3. pair <= gh.dead
      <3>1. \A d \in Callers : gcalls[d].pc # "put"
        BY <1>1 DEF GitInv, Holders, Locked
      <3> QED BY <1>1, <1>3, <3>1, GrantFacts DEF GitInv, Usable, G!Works
    <2> HIDE DEF q
    <2>4. AtWork(q)
      BY <2>2, <2>3, GrantFacts DEF AtWork
    <2> QED BY <1>1, <2>1, <2>2, <2>4, GoesOn DEF Locked
  <1> QED BY <1>2, <1>3

\* The pair or the row is written by a call that holds the lock or connects: the
\* other calls do not look at them.
LEMMA WriteKeeps ==
    ASSUME GitSizes, GitInv, NEW c \in Callers, gcalls[c].pc \in Locked \/ gcalls[c].kind = "connect", NEW r \in GitCall,
           gcalls' = [gcalls EXCEPT ![c] = r], r.kind \in {gcalls[c].kind, "idle"},
           \/ lock' = lock /\ (r.pc \in Locked <=> gcalls[c].pc \in Locked)
           \/ lock' = (IF lock = c THEN G!Free ELSE lock) /\ r.pc \notin Locked,
           UNCHANGED <<clock, gh, cache, served>>, user' \in BOOLEAN, link' \in {"none", "ok", "revoked"}, pair' \in 0 .. gh.last,
           Usable', Connected', Kinds(gcalls[c])', AtWork(gcalls[c])'
    PROVE  GitInv'
  <1>1. gcalls' \in [Callers -> GitCall] /\ gcalls'[c] = r /\ \A d \in Callers \ {c} : gcalls'[d] = gcalls[d]
    BY DEF GitInv, GitTypes
  <1>2. GitTypes'
    BY <1>1 DEF GitInv, GitTypes
  <1>3. Holders'
    BY HoldersKept
  <1>4. Alone'
    BY AloneKept
  <1>5. ASSUME NEW d \in Callers \ {c} PROVE Kinds(gcalls[d])' /\ AtWork(gcalls[d])'
    BY <1>1, OthersKept, GrantFacts
  <1> QED BY <1>2, <1>3, <1>4, <1>5, NothingGiven DEF GitInv

\* No other call is between GitHub's answer and the write of the new pair, and none connects.
LEMMA Only ==
    ASSUME GitSizes, GitInv, NEW c \in Callers, gcalls[c].pc \in Locked \/ gcalls[c].kind = "connect", NEW r \in GitCall,
           gcalls' = [gcalls EXCEPT ![c] = r]
    PROVE  /\ gcalls'[c] = r
           /\ (\A d \in Callers : gcalls[d].pc # "put") <=> gcalls[c].pc # "put"
           /\ (\A d \in Callers : gcalls'[d].pc # "put") <=> r.pc # "put"
           /\ G!Connecting <=> gcalls[c].kind = "connect"
           /\ G!Connecting' <=> r.kind = "connect"
  <1>1. gcalls'[c] = r /\ \A d \in Callers \ {c} : gcalls'[d] = gcalls[d]
    BY DEF GitInv, GitTypes
  <1>2. \A d \in Callers \ {c} : gcalls[d].pc # "put" /\ gcalls[d].kind # "connect"
    BY OthersRest
  <1> QED BY <1>1, <1>2 DEF G!Connecting

LEMMA PutPairKeeps == ASSUME GitSizes, Ordered, GitInv, NEW c \in Callers, G!PutPair(c) PROVE GitInv'
  <1> DEFINE k == gcalls[c]
             r == [k EXCEPT !.pc = "upsert"]
  <1>1. k.pc = "put" /\ pair' = k.tok /\ gcalls' = [gcalls EXCEPT ![c] = r] /\ UNCHANGED <<lock, clock, gh, user, link, cache, served>>
    BY DEF G!PutPair, G!At, G!Go, G!Put, G!guest, Ordered
  <1>2. k \in GitCall /\ AtWork(k) /\ Kinds(k) /\ k.kind \in {"api", "cred"} /\ k.pc \in Locked
    BY <1>1, GrantFacts DEF Kinds, Locked
  <1>3. r \in GitCall /\ r.kind = k.kind /\ r.pc = "upsert" /\ r.tok = k.tok
    BY <1>2 DEF GitCall, Locked
  <1>4. k.tok \in 0 .. gh.last /\ k.tok # 0 /\ k.tok \notin gh.used /\ ~(user /\ link = "revoked")
    BY <1>1, <1>2, GrantFacts DEF AtWork
  <1> HIDE DEF k, r
  <1>5. /\ gcalls'[c] = r /\ ~G!Connecting /\ ~G!Connecting'
    BY <1>1, <1>2, <1>3, Only DEF k
  <1>6. Usable'
    BY <1>1, <1>4 DEF Usable
  <1>7. Connected'
    BY <1>1, <1>4, <1>5 DEF GitInv, Connected
  <1>8. Kinds(gcalls[c])'
    BY <1>2, <1>3, <1>5 DEF Kinds, Locked
  <1>9. AtWork(gcalls[c])'
    BY <1>1, <1>2, <1>3, <1>4, <1>5 DEF AtWork
  <1>10. user' \in BOOLEAN /\ link' \in {"none", "ok", "revoked"} /\ pair' \in 0 .. gh.last
    BY <1>1, <1>4 DEF GitInv, GitTypes
  <1> QED BY <1>1, <1>2, <1>3, <1>6, <1>7, <1>8, <1>9, <1>10, WriteKeeps DEF k, Locked

LEMMA UpdateLinkKeeps == ASSUME GitSizes, GitInv, NEW c \in Callers, G!UpdateLink(c) PROVE GitInv'
  <1> DEFINE k == gcalls[c]
             r == [k EXCEPT !.pc = "use", !.tok = k.tok]
  <1>1. k.pc = "upsert" /\ UNCHANGED <<clock, gh, user, pair, cache, served>>
    BY DEF G!UpdateLink, G!At, G!guest
  <1>2. \/ link' = "ok" /\ gcalls' = [gcalls EXCEPT ![c] = r] /\ lock' = IF lock = c THEN G!Free ELSE lock
        \/ G!End(c) /\ UNCHANGED link
    BY DEF G!UpdateLink, G!Upsert, G!Got, G!Put
  <1>3. k \in GitCall /\ AtWork(k) /\ Kinds(k) /\ k.kind \in {"api", "cred"} /\ k.pc \in Locked /\ k.pc # "put"
    BY <1>1, GrantFacts DEF Kinds, Locked
  <1>4. r \in GitCall /\ r.kind = k.kind /\ r.pc = "use" /\ r.tok = k.tok
    BY <1>3 DEF GitCall, Locked
  <1> HIDE DEF k, r
  <1>5. CASE link' = "ok" /\ gcalls' = [gcalls EXCEPT ![c] = r] /\ lock' = IF lock = c THEN G!Free ELSE lock
    <2>1. gcalls'[c] = r /\ ~G!Connecting /\ ~G!Connecting' /\ (\A d \in Callers : gcalls[d].pc # "put")
      BY <1>3, <1>4, <1>5, Only DEF k
    <2>2. Usable'
      BY <1>1, <2>1 DEF GitInv, Usable
    <2>3. Connected'
      BY <1>1, <1>5, <2>1 DEF GitInv, Connected
    <2>4. Kinds(gcalls[c])'
      BY <1>3, <1>4, <2>1 DEF Kinds, Locked
    <2>5. AtWork(gcalls[c])'
      BY <1>1, <1>3, <1>4, <2>1 DEF AtWork
    <2>6. user' \in BOOLEAN /\ link' \in {"none", "ok", "revoked"} /\ pair' \in 0 .. gh.last
      BY <1>1, <1>5 DEF GitInv, GitTypes
    <2> QED BY <1>1, <1>3, <1>4, <1>5, <2>2, <2>3, <2>4, <2>5, <2>6, WriteKeeps DEF k, Locked
  <1>6. CASE G!End(c) /\ UNCHANGED link
    BY <1>1, <1>3, <1>6, EndKeeps DEF k
  <1> QED BY <1>2, <1>5, <1>6

LEMMA MarkRevokedKeeps == ASSUME GitSizes, GitInv, NEW c \in Callers, G!MarkRevoked(c) PROVE GitInv'
  <1> DEFINE k == gcalls[c]
  <1>1. k.pc = "mark" /\ G!End(c) /\ UNCHANGED <<clock, gh, user, pair, cache, served>> /\ (link' = link \/ link' = "revoked")
    BY DEF G!MarkRevoked, G!At, G!guest
  <1>2. gcalls' = [gcalls EXCEPT ![c] = G!Idle] /\ lock' = (IF lock = c THEN G!Free ELSE lock)
    BY <1>1 DEF G!End, G!Put
  <1>3. k \in GitCall /\ AtWork(k) /\ Kinds(k) /\ k.kind \in {"api", "cred"} /\ k.pc \in Locked /\ k.pc # "put" /\ pair <= gh.dead
    BY <1>1, GrantFacts DEF Kinds, AtWork, Locked
  <1> HIDE DEF k
  <1>4. gcalls'[c] = G!Idle /\ ~G!Connecting /\ ~G!Connecting' /\ (\A d \in Callers : gcalls[d].pc # "put")
    BY <1>2, <1>3, Only, IdleCall DEF k
  <1>5. Usable'
    BY <1>1, <1>4 DEF GitInv, Usable
  <1>6. Connected'
    BY <1>1, <1>3, <1>4 DEF GitInv, Connected
  <1>7. Kinds(gcalls[c])'
    BY <1>4, IdleCall DEF Kinds
  <1>8. AtWork(gcalls[c])'
    BY <1>1, <1>4, IdleCall, GrantFacts DEF AtWork
  <1>9. user' \in BOOLEAN /\ link' \in {"none", "ok", "revoked"} /\ pair' \in 0 .. gh.last
    BY <1>1 DEF GitInv, GitTypes
  <1> QED BY <1>1, <1>2, <1>3, <1>5, <1>6, <1>7, <1>8, <1>9, IdleCall, WriteKeeps DEF k, Locked

LEMMA ConnectKeeps == ASSUME GitSizes, Ordered, GitInv, NEW c \in Callers, G!Connect(c) PROVE GitInv'
  <1> DEFINE r == [G!Idle EXCEPT !.kind = "connect", !.pc = "account", !.tok = gh.last + 1]
  <1>1. ~G!Busy /\ ~G!Connecting /\ gh.last < MaxPairs /\ gcalls[c] = G!Idle /\ G!Issue({}) /\ gcalls' = [gcalls EXCEPT ![c] = r]
        /\ UNCHANGED <<clock, user, link, pair, lock, cache, served>>
    BY DEF G!Connect, G!Put, G!guest, Ordered
  <1>2. /\ gh'.last = gh.last + 1 /\ gh'.dead = gh.dead /\ gh'.used = gh.used
        /\ \A n \in G!Pairs : n <= gh.last => gh'.exp[n] = gh.exp[n]
        /\ gh.last + 1 \in G!Pairs /\ gh.last + 1 \notin gh'.used /\ gh.last + 1 # 0
        /\ gh' \in [last : G!Pairs, dead : Nat, used : SUBSET G!Pairs, exp : [G!Pairs -> Nat]]
        /\ \A n \in gh'.used : n <= gh'.last
        /\ 0 .. gh.last \subseteq 0 .. gh'.last
        /\ GivenOut'
    <2>1. {} \in SUBSET (0 .. gh.last)
      OBVIOUS
    <2> QED BY <1>1, <2>1, Issued DEF GitInv
  <1>3. r \in GitCall /\ r.kind = "connect" /\ r.pc = "account" /\ r.tok = gh.last + 1
    BY <1>2 DEF G!Idle, GitCall
  <1> HIDE DEF r
  <1>4. gcalls' \in [Callers -> GitCall] /\ gcalls'[c] = r /\ \A d \in Callers \ {c} : gcalls'[d] = gcalls[d]
    BY <1>1, <1>3 DEF GitInv, GitTypes
  <1>5. \A d \in Callers : gcalls[d].kind = "idle" /\ gcalls[d].pc = "idle"
    <2>1. \A d \in Callers : gcalls[d].kind = "idle"
      BY <1>1, GrantFacts DEF G!Busy, G!Connecting, GitCall
    <2> QED BY <2>1, GrantFacts DEF GitCall, Kinds
  <1>6. GitTypes'
    BY <1>1, <1>2, <1>4, TypesGrow
  <1>7. Holders'
    BY <1>1, <1>3, <1>5, HoldersKept DEF Locked
  <1>8. Alone'
    BY <1>4, <1>5 DEF Alone
  <1>9. Usable'
    BY <1>1, <1>2, <1>5 DEF GitInv, Usable
  <1>10. Connected'
    BY <1>3, <1>4 DEF Connected, G!Connecting
  <1>11. ASSUME NEW d \in Callers PROVE Kinds(gcalls[d])'
    BY <1>3, <1>4, <1>5 DEF Kinds, Locked
  <1>12. ASSUME NEW d \in Callers PROVE AtWork(gcalls[d])'
    <2>1. CASE d = c
      BY <1>2, <1>3, <1>4, <2>1, GrantFacts DEF AtWork
    <2>2. CASE d # c
      <3>1. gcalls'[d] = gcalls[d] /\ gcalls[d].tok \in Nat /\ gcalls[d].tok <= gh.last
        BY <1>4, <2>2, GrantFacts DEF AtWork
      <3> QED BY <1>2, <1>5, <3>1, GrantFacts DEF AtWork
    <2> QED BY <2>1, <2>2
  <1> QED BY <1>2, <1>6, <1>7, <1>8, <1>9, <1>10, <1>11, <1>12 DEF GitInv

LEMMA SetAccountKeeps == ASSUME GitSizes, GitInv, NEW c \in Callers, G!SetAccount(c) PROVE GitInv'
  <1> DEFINE k == gcalls[c]
             r == [k EXCEPT !.pc = "store"]
  <1>1. k.pc = "account" /\ user' = TRUE /\ gcalls' = [gcalls EXCEPT ![c] = r] /\ UNCHANGED <<lock, clock, gh, pair, link, cache, served>>
    BY DEF G!SetAccount, G!At, G!Go, G!Put, G!guest
  <1>2. k \in GitCall /\ AtWork(k) /\ Kinds(k) /\ k.kind = "connect" /\ k.pc \notin Locked
    BY <1>1, GrantFacts DEF Kinds, Locked
  <1>3. r \in GitCall /\ r.kind = k.kind /\ r.pc = "store" /\ r.tok = k.tok
    BY <1>2 DEF GitCall, Locked
  <1> HIDE DEF k, r
  <1>4. gcalls'[c] = r /\ G!Connecting' /\ (\A d \in Callers : gcalls[d].pc # "put")
    BY <1>1, <1>2, <1>3, Only DEF k
  <1>5. Usable'
    BY <1>1, <1>4 DEF GitInv, Usable
  <1>6. Connected'
    BY <1>4 DEF Connected
  <1>7. Kinds(gcalls[c])'
    BY <1>2, <1>3, <1>4 DEF Kinds, Locked
  <1>8. AtWork(gcalls[c])'
    BY <1>1, <1>2, <1>3, <1>4 DEF AtWork
  <1>9. user' \in BOOLEAN /\ link' \in {"none", "ok", "revoked"} /\ pair' \in 0 .. gh.last
    BY <1>1 DEF GitInv, GitTypes
  <1> QED BY <1>1, <1>2, <1>3, <1>5, <1>6, <1>7, <1>8, <1>9, WriteKeeps DEF k, Locked

LEMMA StorePairKeeps == ASSUME GitSizes, GitInv, NEW c \in Callers, G!StorePair(c) PROVE GitInv'
  <1> DEFINE k == gcalls[c]
             r == [k EXCEPT !.pc = "row"]
  <1>1. k.pc = "store" /\ UNCHANGED <<lock, clock, gh, link, cache, served>>
    BY DEF G!StorePair, G!At, G!guest
  <1>2. \/ pair' = k.tok /\ gcalls' = [gcalls EXCEPT ![c] = r] /\ UNCHANGED user
        \/ user' = FALSE /\ gcalls' = [gcalls EXCEPT ![c] = G!Idle] /\ UNCHANGED pair
    BY DEF G!StorePair, G!Rollback, G!Go, G!Put
  <1>3. k \in GitCall /\ AtWork(k) /\ Kinds(k) /\ k.kind = "connect" /\ k.pc \notin Locked
    BY <1>1, GrantFacts DEF Kinds, Locked
  <1>4. r \in GitCall /\ r.kind = k.kind /\ r.pc = "row" /\ r.tok = k.tok
    BY <1>3 DEF GitCall, Locked
  <1>5. k.tok \in 0 .. gh.last /\ k.tok # 0 /\ k.tok \notin gh.used /\ k.pc # "put"
    BY <1>1, <1>3, GrantFacts DEF AtWork
  <1> HIDE DEF k, r
  <1>6. CASE pair' = k.tok /\ gcalls' = [gcalls EXCEPT ![c] = r] /\ UNCHANGED user
    <2>1. gcalls'[c] = r /\ G!Connecting'
      <3>1. gcalls[c].pc \in Locked \/ gcalls[c].kind = "connect"
        BY <1>3 DEF k
      <3>2. r \in GitCall /\ r.kind = "connect" /\ gcalls' = [gcalls EXCEPT ![c] = r]
        BY <1>3, <1>4, <1>6
      <3> QED BY <3>1, <3>2, Only
    <2>2. Usable'
      BY <1>1, <1>5, <1>6 DEF Usable
    <2>3. Connected'
      BY <2>1 DEF Connected
    <2>4. Kinds(gcalls[c])'
      BY <1>3, <1>4, <2>1 DEF Kinds, Locked
    <2>5. AtWork(gcalls[c])'
      BY <1>1, <1>3, <1>4, <1>5, <1>6, <2>1 DEF AtWork
    <2>6. user' \in BOOLEAN /\ link' \in {"none", "ok", "revoked"} /\ pair' \in 0 .. gh.last
      BY <1>1, <1>5, <1>6 DEF GitInv, GitTypes
    <2> QED BY <1>1, <1>3, <1>4, <1>6, <2>2, <2>3, <2>4, <2>5, <2>6, WriteKeeps DEF k, Locked
  <1>7. CASE user' = FALSE /\ gcalls' = [gcalls EXCEPT ![c] = G!Idle] /\ UNCHANGED pair
    <2>1. gcalls'[c] = G!Idle /\ (\A d \in Callers : gcalls[d].pc # "put")
      BY <1>3, <1>5, <1>7, Only, IdleCall DEF k
    <2>2. Usable'
      BY <1>1, <1>7, <2>1 DEF GitInv, Usable
    <2>3. Connected'
      BY <1>7 DEF Connected
    <2>4. Kinds(gcalls[c])'
      BY <2>1, IdleCall DEF Kinds
    <2>5. AtWork(gcalls[c])'
      BY <1>1, <2>1, IdleCall, GrantFacts DEF AtWork
    <2>6. user' \in BOOLEAN /\ link' \in {"none", "ok", "revoked"} /\ pair' \in 0 .. gh.last
      BY <1>1, <1>7 DEF GitInv, GitTypes
    <2> QED BY <1>1, <1>3, <1>7, <2>2, <2>3, <2>4, <2>5, <2>6, IdleCall, WriteKeeps DEF k, Locked
  <1> QED BY <1>2, <1>6, <1>7

LEMMA StoreLinkKeeps == ASSUME GitSizes, GitInv, NEW c \in Callers, G!StoreLink(c) PROVE GitInv'
  <1> DEFINE k == gcalls[c]
  <1>1. k.pc = "row" /\ gcalls' = [gcalls EXCEPT ![c] = G!Idle] /\ UNCHANGED <<lock, clock, gh, pair, cache, served>>
        /\ ((link' = "ok" /\ UNCHANGED user) \/ (user' = FALSE /\ UNCHANGED link))
    BY DEF G!StoreLink, G!Upsert, G!Rollback, G!At, G!Put, G!guest
  <1>2. k \in GitCall /\ AtWork(k) /\ Kinds(k) /\ k.kind = "connect" /\ k.pc \notin Locked /\ k.pc # "put" /\ pair # 0
    BY <1>1, GrantFacts DEF Kinds, AtWork, Locked
  <1> HIDE DEF k
  <1>3. gcalls'[c] = G!Idle /\ (\A d \in Callers : gcalls[d].pc # "put")
    BY <1>1, <1>2, Only, IdleCall DEF k
  <1>4. Usable'
    BY <1>1, <1>3 DEF GitInv, Usable
  <1>5. Connected'
    BY <1>1, <1>2 DEF Connected
  <1>6. Kinds(gcalls[c])'
    BY <1>3, IdleCall DEF Kinds
  <1>7. AtWork(gcalls[c])'
    BY <1>1, <1>3, IdleCall, GrantFacts DEF AtWork
  <1>8. user' \in BOOLEAN /\ link' \in {"none", "ok", "revoked"} /\ pair' \in 0 .. gh.last
    BY <1>1 DEF GitInv, GitTypes
  <1> QED BY <1>1, <1>2, <1>4, <1>5, <1>6, <1>7, <1>8, IdleCall, WriteKeeps DEF k, Locked

LEMMA RevokeKeeps == ASSUME GitSizes, GitInv, G!Revoke PROVE GitInv'
  <1>1. gh.dead < gh.last /\ gh' = [gh EXCEPT !.dead = gh.last] /\ UNCHANGED <<clock, user, link, pair, lock, gcalls, cache, served>>
    BY DEF G!Revoke, G!guest
  <1>2. gh \in [last : G!Pairs, dead : Nat, used : SUBSET G!Pairs, exp : [G!Pairs -> Nat]]
    BY DEF GitInv, GitTypes
  <1>3. gh'.last = gh.last /\ gh'.dead = gh.last /\ gh'.used = gh.used /\ gh'.exp = gh.exp
        /\ gh' \in [last : G!Pairs, dead : Nat, used : SUBSET G!Pairs, exp : [G!Pairs -> Nat]]
    BY <1>1, <1>2, GrantFacts
  <1>4. GitTypes'
    BY <1>1, <1>3 DEF GitInv, GitTypes
  <1>5. Holders' /\ Alone'
    BY <1>1 DEF GitInv, Holders, Alone
  <1>6. Usable' /\ GivenOut'
    BY <1>1, <1>3 DEF GitInv, Usable, GivenOut
  <1>7. Connected'
    BY <1>1, <1>3, GrantFacts DEF GitInv, Connected, G!Connecting
  <1>8. ASSUME NEW d \in Callers PROVE Kinds(gcalls[d])'
    BY <1>1, GrantFacts DEF Kinds
  <1>9. ASSUME NEW d \in Callers PROVE AtWork(gcalls[d])'
    BY <1>1, <1>3, GrantFacts DEF AtWork
  <1> QED BY <1>4, <1>5, <1>6, <1>7, <1>8, <1>9 DEF GitInv

LEMMA TickKeeps == ASSUME GitSizes, GitInv, G!Tick PROVE GitInv'
  <1>1. clock' = clock + 1 /\ UNCHANGED <<gh, user, link, pair, lock, gcalls, cache, served>>
        /\ \A c \in Callers : gcalls[c].kind = "cred" /\ gcalls[c].pc \in {"put", "upsert", "use"} => clock < gh.exp[gcalls[c].tok]
    BY DEF G!Tick, G!guest
  <1>2. clock' \in Nat
    BY <1>1, GrantFacts
  <1>3. GitTypes'
    BY <1>1, <1>2 DEF GitInv, GitTypes
  <1>4. Holders' /\ Alone' /\ Usable' /\ GivenOut' /\ Connected'
    BY <1>1 DEF GitInv, Holders, Alone, Usable, GivenOut, Connected, G!Connecting
  <1>5. ASSUME NEW d \in Callers PROVE Kinds(gcalls[d])'
    BY <1>1, GrantFacts DEF Kinds
  <1>6. ASSUME NEW d \in Callers PROVE AtWork(gcalls[d])'
    <2>1. gh.exp[gcalls[d].tok] \in Nat
      BY GrantFacts
    <2> QED BY <1>1, <2>1, GrantFacts DEF AtWork
  <1> QED BY <1>3, <1>4, <1>5, <1>6 DEF GitInv

LEMMA GitNext == ASSUME GitSizes, Ordered, GitInv, [G!Next]_gvars PROVE GitInv'
  <1>1. CASE UNCHANGED gvars
    <2>1. UNCHANGED <<clock, gh, user, link, pair, lock, gcalls, cache, served>>
      BY <1>1 DEF gvars
    <2> QED BY <2>1 DEF GitInv, GitTypes, Holders, Alone, Usable, Connected, GivenOut, Kinds, AtWork, G!Connecting
  <1>2. CASE G!Revoke \/ G!Tick
    BY <1>2, RevokeKeeps, TickKeeps
  <1>3. ASSUME NEW c \in Callers,
               \/ G!BeginAPI(c) \/ G!Credential(c) \/ G!Lock(c) \/ G!ReadLink(c) \/ G!ReadSecret(c)
               \/ G!Refresh(c) \/ G!PutPair(c) \/ G!UpdateLink(c) \/ G!MarkRevoked(c) \/ G!Use(c) \/ G!Answer(c)
               \/ G!Connect(c) \/ G!SetAccount(c) \/ G!StorePair(c) \/ G!StoreLink(c)
        PROVE  GitInv'
    BY <1>3, BeginAPIKeeps, CredentialKeeps, LockKeeps, ReadLinkKeeps, ReadSecretKeeps, RefreshKeeps, PutPairKeeps, UpdateLinkKeeps,
       MarkRevokedKeeps, UseKeeps, AnswerKeeps, ConnectKeeps, SetAccountKeeps, StorePairKeeps, StoreLinkKeeps
  <1> QED BY <1>1, <1>2, <1>3 DEF G!Next

LEMMA GrantFollows == ASSUME GitSizes, GitInv PROVE G!NeverStranded /\ G!RevokedIsTrue /\ G!ServedIsLive /\ G!ConnectedHasTokens
  <1>1. G!NeverStranded
    <2>1. lock = G!Free => \A c \in Callers : gcalls[c].pc # "put"
      BY DEF GitInv, Holders, GitSizes, Locked
    <2> QED BY <2>1 DEF GitInv, Usable, G!NeverStranded
  <1>2. G!RevokedIsTrue /\ G!ConnectedHasTokens
    BY DEF GitInv, Connected, G!RevokedIsTrue, G!ConnectedHasTokens
  <1>3. G!ServedIsLive
    BY DEF GitInv, GivenOut, G!ServedIsLive
  <1> QED BY <1>1, <1>2, <1>3

-----------------------------------------------------------------------------
(***************************************************************************)
(* The persistent disk (GuestDisk), when chown is not cut short and the    *)
(* user does not empty the home (Whole).  Before sshd has its key nothing  *)
(* but links is in /etc/ssh, the private key's link first, so ssh-keygen   *)
(* writes through both links or through none (Identity); the directory is  *)
(* the user's only when what is in it is, or the walk is on (Home); and    *)
(* until the agent is ready the boot is a cold one (Told).                 *)
(***************************************************************************)
Whole == "half" \notin DiskFaults /\ "emptied" \notin DiskFaults

KeyTypes ==
    /\ diskKeys \in [D!Files -> Nat] /\ etcKeys \in [D!Files -> Nat] /\ sshd \in Nat /\ gen \in Nat
    /\ first \in BOOLEAN /\ links \subseteq D!Files

Identity ==
    /\ sshd = 0 => etcKeys[D!Key] = 0
    /\ first => D!Key \in links
    /\ sshd # 0 /\ first => sshd = diskKeys[D!Key]
    /\ sshd = 0 /\ (dpc = D!Pub \/ D!Pub \in links) => D!Key \in links
    /\ diskKeys[D!Pub] # 0 => diskKeys[D!Key] # 0

HomeTypes == owner \in [top : {"absent", "root", "dev"}, inside : {"root", "dev"}]

Home ==
    /\ dotfiles = "none" => owner.top # "dev"
    /\ dpc \in {"seeding", "chown", "chowning"} => dotfiles # "none"
    /\ dpc = "seeding" => dotfiles = "part" /\ owner.top # "dev"
    /\ owner.top = "dev" /\ dpc # "chowning" => owner.inside = "dev"
    /\ dpc \in {D!Key, D!Pub, "home", "work", "db"} \/ (dpc = "ready" /\ mode = "disk") => owner.inside = "dev"

ToldTypes == skewed \in BOOLEAN /\ kv \in Nat /\ acked = kv /\ faults \in Nat

Told ==
    /\ faults = 0 /\ dpc # "ready" => came = "cold" /\ ~skewed
    /\ skewed => came = "resumed"
    /\ dpc = "ready" /\ mode = "disk" /\ ~skewed /\ faults = 0 => boots = came

DiskInv == KeyTypes /\ Identity /\ HomeTypes /\ Home /\ ToldTypes /\ Told

LEMMA DiskInit == ASSUME D!Init PROVE DiskInv
  <1>1. KeyTypes /\ ToldTypes
    BY DEF D!Init, KeyTypes, ToldTypes
  <1>2. HomeTypes
    BY DEF D!Init, HomeTypes
  <1>3. Identity
    BY DEF D!Init, Identity, D!Files, D!Key, D!Pub
  <1>4. Home
    BY DEF D!Init, Home, D!Key, D!Pub
  <1>5. Told
    BY DEF D!Init, Told
  <1> QED BY <1>1, <1>2, <1>3, <1>4, <1>5 DEF DiskInv

\* The steps that look at the host keys.
LEMMA KeySteps ==
    ASSUME [D!Next]_dvars
    PROVE  \/ UNCHANGED <<diskKeys, etcKeys, links, sshd, first, gen>> /\ (dpc' = dpc \/ dpc' # D!Pub)
           \/ D!EnsureSSHHostKey(D!Key) \/ D!EnsureSSHHostKey(D!Pub) \/ D!StartSSHD
           \/ etcKeys' = [f \in D!Files |-> 0] /\ links' = {} /\ sshd' = 0 /\ first' = FALSE /\ UNCHANGED <<diskKeys, gen>> /\ dpc' = "start"
  <1>1. D!Mount \/ D!EnsureDirs \/ D!SeedHome \/ D!CopyTree \/ D!ChownTop \/ D!ChownRest => UNCHANGED <<diskKeys, etcKeys, links, sshd, first, gen>> /\ dpc' # D!Pub
    BY DEF D!Mount, D!EnsureDirs, D!SeedHome, D!CopyTree, D!ChownTop, D!ChownRest, D!Degrade, D!keys, D!Key, D!Pub
  <1>2. ASSUME NEW what \in {"home", "work"}, D!BindMount(what) PROVE UNCHANGED <<diskKeys, etcKeys, links, sshd, first, gen>> /\ dpc' # D!Pub
    BY <1>2 DEF D!BindMount, D!Degrade, D!keys, D!Pub
  <1>3. D!OpenDB \/ D!Edit \/ D!KVSet \/ D!Resume \/ D!Restore \/ D!AgentRestart
        => UNCHANGED <<diskKeys, etcKeys, links, sshd, first, gen>> /\ (dpc' = dpc \/ dpc' # D!Pub)
    BY DEF D!OpenDB, D!Edit, D!KVSet, D!Resume, D!Restore, D!AgentRestart, D!Degrade, D!keys, D!Pub
  <1>4. D!PowerCycle => etcKeys' = [f \in D!Files |-> 0] /\ links' = {} /\ sshd' = 0 /\ first' = FALSE /\ UNCHANGED <<diskKeys, gen>> /\ dpc' = "start"
    BY DEF D!PowerCycle
  <1>5. UNCHANGED dvars => UNCHANGED <<diskKeys, etcKeys, links, sshd, first, gen>> /\ dpc' = dpc
    BY DEF dvars
  <1>6. \A f \in D!Files : f = D!Key \/ f = D!Pub
    BY DEF D!Files
  <1> QED BY <1>1, <1>2, <1>3, <1>4, <1>5, <1>6 DEF D!Next

LEMMA KeysNext ==
    ASSUME KeyTypes, Identity, [D!Next]_dvars
    PROVE  KeyTypes' /\ Identity' /\ \A f \in D!Files : diskKeys[f] # 0 => diskKeys'[f] = diskKeys[f]
  <1> DEFINE Kept == \A f \in D!Files : diskKeys[f] # 0 => diskKeys'[f] = diskKeys[f]
  <1>0. D!Files = {D!Key, D!Pub} /\ D!Key # D!Pub /\ D!Key # "start" /\ D!Pub # "start" /\ D!Pub # "home"
    BY DEF D!Files, D!Key, D!Pub
  <1>1. CASE UNCHANGED <<diskKeys, etcKeys, links, sshd, first, gen>> /\ (dpc' = dpc \/ dpc' # D!Pub)
    BY <1>1 DEF KeyTypes, Identity
  <1>2. CASE D!EnsureSSHHostKey(D!Key)
    <2>1. dpc' = D!Pub /\ UNCHANGED <<diskKeys, sshd, gen>> /\ first' = (IF sshd = 0 THEN TRUE ELSE first)
          /\ \/ etcKeys[D!Key] # 0 /\ UNCHANGED <<etcKeys, links>>
             \/ etcKeys' = [etcKeys EXCEPT ![D!Key] = 0] /\ links' = links \cup {D!Key}
      BY <1>0, <1>2 DEF D!EnsureSSHHostKey
    <2>7. first' \in BOOLEAN
      BY <2>1 DEF KeyTypes
    <2>8. etcKeys' \in [D!Files -> Nat] /\ links' \subseteq D!Files
      BY <1>0, <2>1 DEF KeyTypes
    <2>2. KeyTypes'
      BY <2>1, <2>7, <2>8 DEF KeyTypes
    <2>3. sshd = 0 => etcKeys[D!Key] = 0
      BY DEF Identity
    <2>4. sshd = 0 => D!Key \in links'
      BY <2>1, <2>3
    <2>5. sshd' = 0 => etcKeys'[D!Key] = 0
      BY <1>0, <2>1, <2>3 DEF KeyTypes
    <2>6. D!Key \in links => D!Key \in links'
      BY <2>1
    <2> QED BY <2>1, <2>2, <2>4, <2>5, <2>6 DEF Identity
  <1>3. CASE D!EnsureSSHHostKey(D!Pub)
    <2>1. dpc = D!Pub /\ dpc' # D!Pub /\ UNCHANGED <<diskKeys, sshd, gen, first>>
          /\ \/ UNCHANGED <<etcKeys, links>>
             \/ etcKeys' = [etcKeys EXCEPT ![D!Pub] = 0] /\ links' = links \cup {D!Pub}
      BY <1>0, <1>3 DEF D!EnsureSSHHostKey
    <2>2. KeyTypes'
      BY <1>0, <2>1 DEF KeyTypes
    <2>3. etcKeys'[D!Key] = etcKeys[D!Key] /\ (D!Key \in links => D!Key \in links')
      BY <1>0, <2>1 DEF KeyTypes
    <2> QED BY <2>1, <2>2, <2>3 DEF Identity
  <1>4. CASE D!StartSSHD
    <2> DEFINE missing == D!Missing(D!Key)
    <2>1. /\ sshd = 0 /\ UNCHANGED <<dpc, links, first>> /\ gen' = IF missing THEN gen + 1 ELSE gen
          /\ diskKeys' = [f \in D!Files |-> IF missing /\ f \in links THEN gen' ELSE diskKeys[f]]
          /\ etcKeys' = [f \in D!Files |-> IF missing /\ f \notin links THEN gen' ELSE etcKeys[f]]
          /\ sshd' = IF D!Key \in links THEN diskKeys'[D!Key] ELSE etcKeys'[D!Key]
      BY <1>4 DEF D!StartSSHD
    <2>2. missing => (D!Key \in links => diskKeys[D!Key] = 0)
      BY DEF D!Missing
    <2>3. ~missing => (IF D!Key \in links THEN diskKeys[D!Key] ELSE etcKeys[D!Key]) # 0
      BY DEF D!Missing
    <2> HIDE DEF missing
    <2>4. gen' \in Nat /\ (missing => gen' # 0)
      BY <2>1 DEF KeyTypes
    <2>5. \A f \in D!Files : diskKeys'[f] = (IF missing /\ f \in links THEN gen' ELSE diskKeys[f]) /\ etcKeys'[f] = (IF missing /\ f \notin links THEN gen' ELSE etcKeys[f])
      BY <2>1
    <2>6. diskKeys' \in [D!Files -> Nat] /\ etcKeys' \in [D!Files -> Nat]
      BY <2>1, <2>4 DEF KeyTypes
    <2>7. sshd' \in Nat /\ sshd' # 0
      BY <1>0, <2>1, <2>3, <2>4, <2>5, <2>6
    <2>8. D!Pub \in links => D!Key \in links
      BY <2>1 DEF Identity
    <2>9. Kept
      BY <1>0, <2>2, <2>5, <2>8 DEF Identity
    <2>10. first => sshd' = diskKeys'[D!Key]
      BY <2>1 DEF Identity
    <2>11. diskKeys'[D!Pub] # 0 => diskKeys'[D!Key] # 0
      BY <1>0, <2>4, <2>5, <2>8 DEF Identity
    <2> QED BY <2>1, <2>4, <2>6, <2>7, <2>9, <2>10, <2>11 DEF KeyTypes, Identity
  <1>5. CASE etcKeys' = [f \in D!Files |-> 0] /\ links' = {} /\ sshd' = 0 /\ first' = FALSE /\ UNCHANGED <<diskKeys, gen>> /\ dpc' = "start"
    BY <1>0, <1>5 DEF KeyTypes, Identity
  <1> QED BY <1>1, <1>2, <1>3, <1>4, <1>5, KeySteps

LEMMA HomeNext ==
    ASSUME Whole, HomeTypes, Home, [D!Next]_dvars
    PROVE  HomeTypes' /\ Home' /\ (dotfiles = "mine" => dotfiles' = "mine")
  <1> DEFINE Goal == HomeTypes' /\ Home' /\ (dotfiles = "mine" => dotfiles' = "mine")
             Past == {D!Key, D!Pub, "home", "work", "db"}
  <1>1. CASE UNCHANGED <<owner, dotfiles>> /\ dpc' \in {"start", "dirs"} /\ dpc # "chowning"
    BY <1>1 DEF HomeTypes, Home, D!Key, D!Pub
  <1>2. CASE UNCHANGED <<owner, dotfiles>> /\ dpc \in Past /\ dpc' \in Past \cup {"ready"}
    BY <1>2 DEF HomeTypes, Home, D!Key, D!Pub
  <1>3. CASE UNCHANGED <<owner, dotfiles, dpc, mode>>
    BY <1>3 DEF HomeTypes, Home
  <1>4. CASE UNCHANGED <<owner, dotfiles>> /\ dpc # "chowning" /\ dpc' = "ready" /\ mode' = "none"
    BY <1>4 DEF HomeTypes, Home, D!Key, D!Pub
  <1>5. D!Mount => Goal
    <2>1. D!Mount => UNCHANGED <<owner, dotfiles>> /\ dpc = "start" /\ (dpc' = "dirs" \/ (dpc' = "ready" /\ mode' = "none"))
      BY DEF D!Mount, D!Degrade, D!home
    <2> QED BY <1>1, <1>4, <2>1
  <1>6. ASSUME D!EnsureDirs PROVE Goal
    <2>1. dpc = "dirs" /\ dpc' = "seed" /\ UNCHANGED dotfiles /\ owner' = IF owner.top = "absent" THEN [top |-> "root", inside |-> "root"] ELSE owner
      BY <1>6 DEF D!EnsureDirs
    <2>2. owner' \in [top : {"absent", "root", "dev"}, inside : {"root", "dev"}] /\ (owner'.top = "dev" => owner' = owner)
      BY <2>1 DEF HomeTypes
    <2>3. owner.top = "dev" => owner.inside = "dev" /\ dotfiles # "none"
      BY <2>1 DEF Home
    <2> HIDE <1>6
    <2> QED BY <2>1, <2>2, <2>3 DEF HomeTypes, Home, D!Key, D!Pub
  <1>7. ASSUME D!SeedHome PROVE Goal
    <2>1. CASE dotfiles = "none"
      <3>1. dpc' = "seeding" /\ dotfiles' = "part" /\ owner' = [owner EXCEPT !.inside = "root"] /\ owner.top # "dev"
        BY <1>7, <2>1 DEF D!SeedHome, Home
      <3>2. owner' \in [top : {"absent", "root", "dev"}, inside : {"root", "dev"}] /\ owner'.top = owner.top
        BY <3>1 DEF HomeTypes
      <3> HIDE <1>7
      <3> QED BY <2>1, <3>1, <3>2 DEF HomeTypes, Home, D!Key, D!Pub
    <2>2. CASE dotfiles # "none"
      <3>1. dpc = "seed" /\ dpc' = "chown" /\ UNCHANGED <<owner, dotfiles>>
        BY <1>7, <2>2 DEF D!SeedHome, D!home
      <3> QED BY <2>2, <3>1 DEF HomeTypes, Home, D!Key, D!Pub
    <2> QED BY <2>1, <2>2
  <1>8. ASSUME D!CopyTree PROVE Goal
    <2>1. dpc = "seeding" /\ dotfiles' = "all" /\ dpc' = "chown" /\ UNCHANGED owner
      BY <1>8 DEF D!CopyTree
    <2> QED BY <2>1 DEF HomeTypes, Home, D!Key, D!Pub
  <1>9. ASSUME D!ChownTop PROVE Goal
    <2>1. CASE owner.top = "dev"
      <3>1. dpc = "chown" /\ dpc' = D!Key /\ UNCHANGED <<owner, dotfiles>>
        BY <1>9, <2>1 DEF D!ChownTop
      <3> QED BY <2>1, <3>1 DEF HomeTypes, Home, D!Key, D!Pub
    <2>2. CASE owner.top # "dev"
      <3>1. dpc = "chown" /\ dpc' = "chowning" /\ owner' = [owner EXCEPT !.top = "dev"] /\ UNCHANGED dotfiles
        BY <1>9, <2>2 DEF D!ChownTop
      <3>2. owner' \in [top : {"absent", "root", "dev"}, inside : {"root", "dev"}]
        BY <3>1 DEF HomeTypes
      <3> QED BY <3>1, <3>2 DEF HomeTypes, Home, D!Key, D!Pub
    <2> QED BY <2>1, <2>2
  <1>10. ASSUME D!ChownRest PROVE Goal
    <2>1. dpc = "chowning" /\ dpc' = D!Key /\ owner' = [owner EXCEPT !.inside = "dev"] /\ UNCHANGED dotfiles
      BY <1>10 DEF D!ChownRest, D!Fault, Whole
    <2>2. owner' \in [top : {"absent", "root", "dev"}, inside : {"root", "dev"}] /\ owner'.inside = "dev"
      BY <2>1 DEF HomeTypes
    <2> QED BY <2>1, <2>2 DEF HomeTypes, Home, D!Key, D!Pub
  <1>11. ASSUME NEW f \in D!Files, D!EnsureSSHHostKey(f) PROVE Goal
    <2>1. UNCHANGED <<owner, dotfiles>> /\ dpc \in Past /\ dpc' \in Past
      BY <1>11 DEF D!EnsureSSHHostKey, D!home, D!Files
    <2> QED BY <1>2, <2>1
  <1>12. ASSUME NEW what \in {"home", "work"}, D!BindMount(what) PROVE Goal
    <2>1. UNCHANGED <<owner, dotfiles>> /\ dpc \in Past /\ dpc' \in Past \cup {"ready"}
      BY <1>12 DEF D!BindMount, D!Degrade, D!home
    <2> QED BY <1>2, <2>1
  <1>13. ASSUME D!OpenDB PROVE Goal
    <2>1. UNCHANGED <<owner, dotfiles>> /\ dpc \in Past /\ dpc' \in Past \cup {"ready"}
      BY <1>13 DEF D!OpenDB, D!Degrade, D!home
    <2> QED BY <1>2, <2>1
  <1>14. ASSUME D!Edit PROVE Goal
    <2>1. UNCHANGED <<owner, dpc, mode>> /\ dotfiles' = "mine" /\ dpc = "ready"
      BY <1>14 DEF D!Edit, Whole
    <2> QED BY <2>1 DEF HomeTypes, Home, D!Key, D!Pub
  <1>15. D!StartSSHD \/ D!KVSet \/ D!Resume \/ D!Restore \/ UNCHANGED dvars => UNCHANGED <<owner, dotfiles, dpc, mode>>
    BY DEF D!StartSSHD, D!KVSet, D!Resume, D!Restore, dvars, D!home
  <1>16. D!PowerCycle \/ D!AgentRestart => UNCHANGED <<owner, dotfiles>> /\ dpc' = "start" /\ dpc # "chowning"
    BY DEF D!PowerCycle, D!AgentRestart, D!home, Whole
  <1> QED BY <1>1, <1>3, <1>5, <1>6, <1>7, <1>8, <1>9, <1>10, <1>11, <1>12, <1>13, <1>14, <1>15, <1>16 DEF D!Next

LEMMA ToldNext ==
    ASSUME ToldTypes, Told, [D!Next]_dvars
    PROVE  ToldTypes' /\ Told' /\ kv' >= kv
  <1> DEFINE Goal == ToldTypes' /\ Told' /\ kv' >= kv
             Starting == {"start", "dirs", "seed", "seeding", "chown", "chowning", D!Key, D!Pub, "home", "work", "db"}
  <1>0. kv >= kv /\ "ready" \notin Starting
    BY DEF ToldTypes, D!Key, D!Pub
  \* a step of Setup that does not end it
  <1>1. CASE UNCHANGED <<kv, acked, came, skewed, faults>> /\ dpc \in Starting /\ dpc' \in Starting
    BY <1>0, <1>1 DEF ToldTypes, Told
  \* one that fails
  <1>2. CASE UNCHANGED <<kv, acked, came, skewed>> /\ (faults' = faults + 1)
    <2>1. faults' \in Nat /\ faults' # 0
      BY <1>2 DEF ToldTypes
    <2> QED BY <1>0, <1>2, <2>1 DEF ToldTypes, Told
  \* one of another part
  <1>3. CASE UNCHANGED <<kv, acked, came, skewed, faults, dpc, mode, boots>>
    BY <1>0, <1>3 DEF ToldTypes, Told
  <1>4. D!EnsureDirs \/ D!SeedHome \/ D!CopyTree \/ D!ChownTop => Goal
    <2>1. D!EnsureDirs \/ D!SeedHome \/ D!CopyTree \/ D!ChownTop => UNCHANGED <<kv, acked, came, skewed, faults>> /\ dpc \in Starting /\ dpc' \in Starting
      BY DEF D!EnsureDirs, D!SeedHome, D!CopyTree, D!ChownTop, D!tables, D!run
    <2> QED BY <1>1, <2>1
  <1>5. D!Mount \/ D!ChownRest => Goal
    <2>1. D!Mount \/ D!ChownRest => UNCHANGED <<kv, acked, came, skewed>> /\ (faults' = faults + 1 \/ (UNCHANGED faults /\ dpc \in Starting /\ dpc' \in Starting))
      BY DEF D!Mount, D!ChownRest, D!Fault, D!tables, D!run
    <2> QED BY <1>1, <1>2, <2>1
  <1>6. ASSUME NEW f \in D!Files, D!EnsureSSHHostKey(f) PROVE Goal
    <2>1. UNCHANGED <<kv, acked, came, skewed, faults>> /\ dpc \in Starting /\ dpc' \in Starting
      BY <1>6 DEF D!EnsureSSHHostKey, D!Files, D!tables, D!run
    <2> QED BY <1>1, <2>1
  <1>7. ASSUME NEW what \in {"home", "work"}, D!BindMount(what) PROVE Goal
    <2>1. UNCHANGED <<kv, acked, came, skewed>> /\ (faults' = faults + 1 \/ (UNCHANGED faults /\ dpc \in Starting /\ dpc' \in Starting))
      BY <1>7 DEF D!BindMount, D!Fault, D!tables, D!run
    <2> QED BY <1>1, <1>2, <2>1
  <1>8. ASSUME D!OpenDB PROVE Goal
    <2>1. UNCHANGED <<kv, acked, came, skewed>> /\ dpc = "db" /\ (faults' = faults + 1 \/ (UNCHANGED faults /\ dpc' = "ready" /\ boots' = "cold"))
      BY <1>8 DEF D!OpenDB, D!Fault, D!run
    <2>2. CASE UNCHANGED faults /\ dpc' = "ready" /\ boots' = "cold"
      BY <1>0, <2>1, <2>2 DEF ToldTypes, Told
    <2> QED BY <1>2, <2>1, <2>2
  <1>9. D!StartSSHD \/ D!Edit \/ UNCHANGED dvars => UNCHANGED <<kv, acked, came, skewed, faults, dpc, mode, boots>>
    BY DEF D!StartSSHD, D!Edit, dvars, D!tables, D!run
  <1>10. ASSUME D!KVSet PROVE Goal
    <2>1. UNCHANGED <<came, skewed, faults, dpc, mode, boots>> /\ ((kv' = acked + 1 /\ acked' = acked + 1) \/ UNCHANGED <<kv, acked>>)
      BY <1>10 DEF D!KVSet, D!run
    <2>2. kv' \in Nat /\ acked' = kv' /\ kv' >= kv
      BY <2>1 DEF ToldTypes
    <2> QED BY <1>0, <2>1, <2>2 DEF ToldTypes, Told
  <1>11. ASSUME D!Resume PROVE Goal
    <2>1. skewed' = FALSE /\ came = "resumed" /\ UNCHANGED <<kv, acked, came, faults, dpc, mode>> /\ dpc = "ready" /\ boots' = IF mode = "disk" THEN "resumed" ELSE boots
      BY <1>11 DEF D!Resume, D!SetClock
    <2> QED BY <1>0, <2>1 DEF ToldTypes, Told
  <1>12. ASSUME D!Restore PROVE Goal
    <2>1. skewed' = TRUE /\ came' = "resumed" /\ UNCHANGED <<kv, acked, faults, dpc, mode, boots>> /\ dpc = "ready"
      BY <1>12 DEF D!Restore, D!tables
    <2> QED BY <1>0, <2>1 DEF ToldTypes, Told
  <1>13. ASSUME D!PowerCycle PROVE Goal
    <2>1. skewed' = FALSE /\ came' = "cold" /\ UNCHANGED <<kv, acked, faults>> /\ dpc' = "start"
      BY <1>13 DEF D!PowerCycle, D!tables
    <2> QED BY <1>0, <2>1 DEF ToldTypes, Told
  <1>14. ASSUME D!AgentRestart PROVE Goal
    <2>1. UNCHANGED <<kv, acked, came, skewed>> /\ (faults' = faults + 1)
      BY <1>14 DEF D!AgentRestart, D!Fault, D!tables, D!run
    <2> QED BY <1>2, <2>1
  <1> QED BY <1>3, <1>4, <1>5, <1>6, <1>7, <1>8, <1>9, <1>10, <1>11, <1>12, <1>13, <1>14 DEF D!Next

LEMMA DiskNext ==
    ASSUME Whole, DiskInv, [D!Next]_dvars
    PROVE  DiskInv' /\ (\A f \in D!Files : diskKeys[f] # 0 => diskKeys'[f] = diskKeys[f]) /\ (dotfiles = "mine" => dotfiles' = "mine") /\ kv' >= kv
  BY KeysNext, HomeNext, ToldNext DEF DiskInv

-----------------------------------------------------------------------------
(***************************************************************************)
(* The dev driver (DevDriver), when a machine's calls wait for one         *)
(* another.  A machine has one call or goroutine at most (OneJob); what    *)
(* each has done and not yet done (EnsureOK, BootOK, StopOK, DestroyOK)    *)
(* tells which child can still run, and that is the one its record names   *)
(* (RecOK).                                                                *)
(***************************************************************************)
DevSizes == MaxPid \in Nat /\ MaxRestarts \in Nat /\ SubnetSize \in Nat /\ Serial /\ ~PidLost

ChildRec == [m : SUBSET Machines, st : {"free", "run", "dying", "zombie", "gone"}, ours : BOOLEAN, noted : BOOLEAN]
EnsureJob == [m : Machines, pc : {"update", "start", "pid"}, p : 0 .. MaxPid]
BootJob == [m : Machines, p : V!Pids, pc : {"wait", "killed"}]
StopJob == [m : Machines, mode : V!Modes, p : 0 .. MaxPid, pc : {"mark", "take", "term", "wait", "record"}]
DestroyJob == [m : Machines, p : 0 .. MaxPid, pc : {"kill", "delete"}]

JobTypes == ensures \subseteq EnsureJob /\ dboots \subseteq BootJob /\ stops \subseteq StopJob /\ destroys \subseteq DestroyJob

DevTypes ==
    /\ rec \in [Machines -> V!Record] /\ child \in [V!Pids -> ChildRec] /\ procs \in [Machines -> 0 .. MaxPid]
    /\ JobTypes /\ up \in BOOLEAN /\ restarts \in 0 .. MaxRestarts
    /\ \A p \in V!Pids : child[p].st = "free" => child[p].m = {}

\* The only child of m that runs and was taken note of is q; there is none if q is 0.
Named(ch, m, q) == \A p \in V!Pids : ch[p].m = {m} /\ ch[p].st = "run" /\ ch[p].noted => p = q

Jobs == ensures \cup dboots \cup stops \cup destroys
OneJob == \A j, k \in Jobs : j.m = k.m => j = k

RecOK(m, r, q, ch) ==
    /\ Named(ch, m, r.pid) /\ (r.state \in {"absent", "stopped", "error"} => Named(ch, m, 0))
    /\ r.state = "creating" => ~r.snap
    /\ r.state = "absent" => r.ip = 0
    /\ q # 0 => ch[q].m = {m}
    /\ r.pid # 0 => ch[r.pid].m = {m}

EnsureOK(e, r, q, ch) ==
    /\ Named(ch, e.m, 0)
    /\ IF e.pc = "update" THEN r.state \in {"running", "stopped", "error"} ELSE r.state = "creating"
    /\ IF e.pc = "pid" THEN e.p # 0 /\ q = e.p /\ ch[e.p].m = {e.m} ELSE e.p = 0

BootOK(b, r, q, ch) == r.state = "creating" /\ r.pid = b.p /\ q = b.p /\ (b.pc = "killed" => ch[b.p].st = "gone")

StopOK(s, r, q, ch) ==
    /\ IF s.pc = "mark" THEN r.state \in {"running", "error"} ELSE r.state = V!StopState(s.mode)
    /\ s.pc \in {"mark", "take"} => Named(ch, s.m, q)
    /\ s.pc = "term" => Named(ch, s.m, s.p)
    /\ s.pc \in {"wait", "record"} => Named(ch, s.m, 0)

DestroyOK(d, ch) == (d.pc = "kill" => Named(ch, d.m, d.p)) /\ (d.pc = "delete" => Named(ch, d.m, 0))

Served(m) ==
    /\ rec[m].state = "running" /\ (\A d \in destroys : d.m # m) => procs[m] = rec[m].pid /\ procs[m] # 0
    /\ (\A j \in Jobs : j.m # m) => rec[m].state \in {"absent", "running", "stopped", "error"}

DevInv ==
    /\ DevTypes /\ OneJob
    /\ ~up => Jobs = {}
    /\ up => \A m \in Machines : Served(m)
    /\ \A m \in Machines : RecOK(m, rec[m], procs[m], child)
    /\ \A e \in ensures : EnsureOK(e, rec[e.m], procs[e.m], child)
    /\ \A b \in dboots : BootOK(b, rec[b.m], procs[b.m], child)
    /\ \A s \in stops : StopOK(s, rec[s.m], procs[s.m], child)
    /\ \A d \in destroys : DestroyOK(d, child)

LEMMA DevInit == ASSUME DevSizes, V!Init PROVE DevInv
  <1>1. /\ rec = [m \in Machines |-> V!NoRec] /\ child = [p \in V!Pids |-> V!NoChild] /\ procs = [m \in Machines |-> 0]
        /\ ensures = {} /\ dboots = {} /\ stops = {} /\ destroys = {} /\ up = TRUE /\ restarts = 0
    BY DEF V!Init
  <1>2. V!NoRec \in V!Record /\ V!NoRec.state = "absent" /\ V!NoRec.pid = 0 /\ V!NoRec.ip = 0
    BY DEF V!NoRec, V!Record, V!States, DevSizes
  <1>3. V!NoChild \in ChildRec /\ V!NoChild.st = "free" /\ V!NoChild.m = {}
    BY DEF V!NoChild, ChildRec
  <1>4. DevTypes
    BY <1>1, <1>2, <1>3 DEF DevTypes, JobTypes, DevSizes
  <1>5. OneJob /\ (~up => Jobs = {})
    BY <1>1 DEF OneJob, Jobs
  <1>6. \A m \in Machines, q \in Nat : Named(child, m, q)
    BY <1>1, <1>3 DEF Named
  <1>7. \A m \in Machines : RecOK(m, rec[m], procs[m], child) /\ Served(m)
    BY <1>1, <1>2, <1>6 DEF RecOK, Served
  <1> QED BY <1>1, <1>4, <1>5, <1>7 DEF DevInv

\* Of n's children none comes to run or to be taken note of.
Fades(n) ==
    \A p \in V!Pids :
        /\ child'[p].m = {n} /\ child'[p].st = "run" /\ child'[p].noted => child[p].m = {n} /\ child[p].st = "run" /\ child[p].noted
        /\ child[p].m = {n} => child'[p].m = {n}
        /\ child[p].st = "gone" => child'[p].st = "gone"

LEMMA NamedKept == ASSUME NEW n, NEW q, Fades(n), Named(child, n, q) PROVE Named(child', n, q)
  BY DEF Fades, Named

LEMMA NoneNamed == ASSUME NEW n, NEW ch, NEW q, Named(ch, n, 0), MaxPid \in Nat PROVE Named(ch, n, q)
  <1>1. \A p \in V!Pids : p # 0
    BY DEF V!Pids
  <1> QED BY <1>1 DEF Named

LEMMA ChildrenStay == UNCHANGED child => \A n \in Machines : Fades(n)
  BY DEF Fades

LEMMA PidRange == ASSUME MaxPid \in Nat PROVE \A q \in 0 .. MaxPid : q # 0 => q \in V!Pids
  BY DEF V!Pids

\* A machine whose record, process and jobs stay, and whose children at most fade.
LEMMA RestStays ==
    ASSUME DevSizes, DevInv, NEW n \in Machines, Fades(n), NEW r \in V!Record, NEW q \in 0 .. MaxPid
    PROVE  /\ RecOK(n, r, q, child) => RecOK(n, r, q, child')
           /\ \A e \in EnsureJob : e.m = n /\ EnsureOK(e, r, q, child) => EnsureOK(e, r, q, child')
           /\ \A b \in BootJob : b.m = n /\ BootOK(b, r, q, child) => BootOK(b, r, q, child')
           /\ \A s \in StopJob : s.m = n /\ StopOK(s, r, q, child) => StopOK(s, r, q, child')
           /\ \A d \in DestroyJob : d.m = n /\ DestroyOK(d, child) => DestroyOK(d, child')
  <1>1. \A x \in 0 .. MaxPid : x # 0 /\ child[x].m = {n} => child'[x].m = {n}
    BY PidRange DEF Fades, DevSizes
  <1>2. \A x \in V!Pids : child[x].st = "gone" => child'[x].st = "gone"
    BY DEF Fades
  <1>3. \A x : Named(child, n, x) => Named(child', n, x)
    BY NamedKept
  <1>4. r.pid \in 0 .. MaxPid
    BY DEF V!Record
  <1>5. RecOK(n, r, q, child) => RecOK(n, r, q, child')
    BY <1>1, <1>3, <1>4 DEF RecOK
  <1>6. ASSUME NEW e \in EnsureJob, e.m = n, EnsureOK(e, r, q, child) PROVE EnsureOK(e, r, q, child')
    <2>1. e.p \in 0 .. MaxPid
      BY DEF EnsureJob
    <2> QED BY <1>1, <1>3, <1>6, <2>1 DEF EnsureOK
  <1>7. ASSUME NEW b \in BootJob, b.m = n, BootOK(b, r, q, child) PROVE BootOK(b, r, q, child')
    <2>1. b.p \in V!Pids
      BY DEF BootJob
    <2> QED BY <1>2, <1>7, <2>1 DEF BootOK
  <1>8. ASSUME NEW s \in StopJob, s.m = n, StopOK(s, r, q, child) PROVE StopOK(s, r, q, child')
    BY <1>3, <1>8 DEF StopOK
  <1>9. ASSUME NEW d \in DestroyJob, d.m = n, DestroyOK(d, child) PROVE DestroyOK(d, child')
    BY <1>3, <1>9 DEF DestroyOK
  <1> QED BY <1>5, <1>6, <1>7, <1>8, <1>9

\* The jobs other than m's.
Others(X, m) == {j \in X : j.m # m}

\* A step of machine m: its record is r and its process q afterwards, and the
\* children of other machines at most fade.
Acts(m, r, q) ==
    /\ up /\ UNCHANGED <<up, restarts>> /\ rec' = [rec EXCEPT ![m] = r] /\ procs' = [procs EXCEPT ![m] = q]
    /\ child' \in [V!Pids -> ChildRec] /\ (\A p \in V!Pids : child'[p].st = "free" => child'[p].m = {})
    /\ \A n \in Machines \ {m} : Fades(n)

\* The jobs of m after the step.
JobsOf(m, En, Bo, St, De) ==
    /\ ensures' = Others(ensures, m) \cup En /\ dboots' = Others(dboots, m) \cup Bo
    /\ stops' = Others(stops, m) \cup St /\ destroys' = Others(destroys, m) \cup De

LEMMA StepKeeps ==
    ASSUME DevSizes, DevInv, NEW m \in Machines, NEW r \in V!Record, NEW q \in 0 .. MaxPid, Acts(m, r, q), RecOK(m, r, q, child'),
           NEW En \in SUBSET EnsureJob, NEW Bo \in SUBSET BootJob, NEW St \in SUBSET StopJob, NEW De \in SUBSET DestroyJob,
           JobsOf(m, En, Bo, St, De),
           \A j \in En \cup Bo \cup St \cup De : j.m = m, \A j, k \in En \cup Bo \cup St \cup De : j = k,
           r.state = "running" /\ De = {} => q = r.pid /\ q # 0,
           En \cup Bo \cup St \cup De = {} => r.state \in {"absent", "running", "stopped", "error"},
           \A e \in En : EnsureOK(e, r, q, child'), \A b \in Bo : BootOK(b, r, q, child'),
           \A s \in St : StopOK(s, r, q, child'), \A d \in De : DestroyOK(d, child')
    PROVE  DevInv'
  <1> USE DEF Acts, JobsOf
  <1>1. /\ rec' \in [Machines -> V!Record] /\ procs' \in [Machines -> 0 .. MaxPid] /\ rec'[m] = r /\ procs'[m] = q
        /\ \A n \in Machines \ {m} : rec'[n] = rec[n] /\ procs'[n] = procs[n]
    BY DEF DevInv, DevTypes
  <1>2. /\ ensures \subseteq EnsureJob /\ dboots \subseteq BootJob /\ stops \subseteq StopJob /\ destroys \subseteq DestroyJob
        /\ JobTypes'
    BY DEF DevInv, DevTypes, JobTypes, Others
  <1>3. DevTypes'
    BY <1>1, <1>2 DEF DevInv, DevTypes
  <1>4. /\ \A j \in Jobs' : (j.m = m /\ j \in En \cup Bo \cup St \cup De) \/ (j.m # m /\ j \in Jobs)
        /\ \A j \in Jobs : j.m # m => j \in Jobs'
    BY DEF Jobs, Others
  <1>5. OneJob'
    BY <1>4 DEF DevInv, OneJob
  <1>6. up' = TRUE
    BY DEF DevInv, DevTypes
  <1>7. ASSUME NEW n \in Machines PROVE Served(n)'
    <2>1. CASE n = m
      <3>1. (\A d \in destroys' : d.m # m) => De = {}
        BY DEF Others
      <3>2. (\A j \in Jobs' : j.m # m) => En \cup Bo \cup St \cup De = {}
        BY DEF Jobs
      <3> QED BY <1>1, <2>1, <3>1, <3>2 DEF Served
    <2>2. CASE n # m
      <3>1. (\A d \in destroys' : d.m # n) => (\A d \in destroys : d.m # n)
        BY <2>2 DEF Others
      <3>2. (\A j \in Jobs' : j.m # n) => (\A j \in Jobs : j.m # n)
        BY <1>4, <2>2
      <3> QED BY <1>1, <2>2, <3>1, <3>2 DEF DevInv, Served
    <2> QED BY <2>1, <2>2
  <1>8. \A n \in Machines \ {m} : rec[n] \in V!Record /\ procs[n] \in 0 .. MaxPid
    BY DEF DevInv, DevTypes
  <1>9. ASSUME NEW n \in Machines PROVE RecOK(n, rec[n], procs[n], child)'
    <2>1. CASE n = m
      BY <1>1, <2>1
    <2>2. CASE n # m
      BY <1>1, <1>8, <2>2, RestStays DEF DevInv
    <2> QED BY <2>1, <2>2
  <1>10. ASSUME NEW e \in ensures' PROVE EnsureOK(e, rec'[e.m], procs'[e.m], child')
    <2>1. CASE e \in En
      BY <1>1, <2>1
    <2>2. CASE e \in ensures /\ e.m # m
      <3>1. e \in EnsureJob /\ e.m \in Machines \ {m} /\ EnsureOK(e, rec[e.m], procs[e.m], child)
        BY <1>2, <2>2 DEF DevInv, EnsureJob
      <3> QED BY <1>1, <1>8, <3>1, RestStays
    <2> QED BY <2>1, <2>2 DEF Others
  <1>11. ASSUME NEW b \in dboots' PROVE BootOK(b, rec'[b.m], procs'[b.m], child')
    <2>1. CASE b \in Bo
      BY <1>1, <2>1
    <2>2. CASE b \in dboots /\ b.m # m
      <3>1. b \in BootJob /\ b.m \in Machines \ {m} /\ BootOK(b, rec[b.m], procs[b.m], child)
        BY <1>2, <2>2 DEF DevInv, BootJob
      <3> QED BY <1>1, <1>8, <3>1, RestStays
    <2> QED BY <2>1, <2>2 DEF Others
  <1>12. ASSUME NEW s \in stops' PROVE StopOK(s, rec'[s.m], procs'[s.m], child')
    <2>1. CASE s \in St
      BY <1>1, <2>1
    <2>2. CASE s \in stops /\ s.m # m
      <3>1. s \in StopJob /\ s.m \in Machines \ {m} /\ StopOK(s, rec[s.m], procs[s.m], child)
        BY <1>2, <2>2 DEF DevInv, StopJob
      <3> QED BY <1>1, <1>8, <3>1, RestStays
    <2> QED BY <2>1, <2>2 DEF Others
  <1>13. ASSUME NEW d \in destroys' PROVE DestroyOK(d, child')
    <2>1. CASE d \in De
      BY <2>1
    <2>2. CASE d \in destroys /\ d.m # m
      <3>1. d \in DestroyJob /\ d.m \in Machines \ {m} /\ DestroyOK(d, child)
        BY <1>2, <2>2 DEF DevInv, DestroyJob
      <3> QED BY <1>1, <1>8, <3>1, RestStays
    <2> QED BY <2>1, <2>2 DEF Others
  <1> QED BY <1>3, <1>5, <1>6, <1>7, <1>9, <1>10, <1>11, <1>12, <1>13 DEF DevInv

LEMMA EnsureStep ==
    ASSUME DevSizes, DevInv, NEW m \in Machines, NEW r \in V!Record, NEW q \in 0 .. MaxPid, Acts(m, r, q), RecOK(m, r, q, child'),
           NEW e \in EnsureJob, e.m = m, JobsOf(m, {e}, {}, {}, {}), r.state = "running" => q = r.pid /\ q # 0, EnsureOK(e, r, q, child')
    PROVE  DevInv'
  BY StepKeeps

LEMMA BootStep ==
    ASSUME DevSizes, DevInv, NEW m \in Machines, NEW r \in V!Record, NEW q \in 0 .. MaxPid, Acts(m, r, q), RecOK(m, r, q, child'),
           NEW b \in BootJob, b.m = m, JobsOf(m, {}, {b}, {}, {}), BootOK(b, r, q, child')
    PROVE  DevInv'
  <1>1. r.state = "running" => q = r.pid /\ q # 0
    BY DEF BootOK
  <1>2. /\ {b} \in SUBSET BootJob /\ {} \in SUBSET EnsureJob /\ {} \in SUBSET StopJob /\ {} \in SUBSET DestroyJob
        /\ {} \cup {b} \cup {} \cup {} # {} /\ \A x \in {b} : BootOK(x, r, q, child')
        /\ (\A x \in {} : EnsureOK(x, r, q, child')) /\ (\A x \in {} : StopOK(x, r, q, child')) /\ (\A x \in {} : DestroyOK(x, child'))
        /\ (\A j \in {} \cup {b} \cup {} \cup {} : j.m = m) /\ (\A j, k \in {} \cup {b} \cup {} \cup {} : j = k)
    OBVIOUS
  <1> QED BY <1>1, <1>2, StepKeeps

LEMMA StopStep ==
    ASSUME DevSizes, DevInv, NEW m \in Machines, NEW r \in V!Record, NEW q \in 0 .. MaxPid, Acts(m, r, q), RecOK(m, r, q, child'),
           NEW s \in StopJob, s.m = m, JobsOf(m, {}, {}, {s}, {}), r.state = "running" => q = r.pid /\ q # 0, StopOK(s, r, q, child')
    PROVE  DevInv'
  BY StepKeeps

LEMMA DestroyStep ==
    ASSUME DevSizes, DevInv, NEW m \in Machines, NEW r \in V!Record, NEW q \in 0 .. MaxPid, Acts(m, r, q), RecOK(m, r, q, child'),
           NEW d \in DestroyJob, d.m = m, JobsOf(m, {}, {}, {}, {d}), DestroyOK(d, child')
    PROVE  DevInv'
  BY StepKeeps

LEMMA LastStep ==
    ASSUME DevSizes, DevInv, NEW m \in Machines, NEW r \in V!Record, NEW q \in 0 .. MaxPid, Acts(m, r, q), RecOK(m, r, q, child'),
           JobsOf(m, {}, {}, {}, {}), r.state \in {"absent", "running", "stopped", "error"}, r.state = "running" => q = r.pid /\ q # 0
    PROVE  DevInv'
  BY StepKeeps

\* What is known of a job and its machine, and of the jobs beside it.
LEMMA JobFacts ==
    ASSUME DevSizes, DevInv
    PROVE  /\ \A j \in Jobs : j.m \in Machines /\ up
           /\ \A m \in Machines : rec[m] \in V!Record /\ procs[m] \in 0 .. MaxPid /\ RecOK(m, rec[m], procs[m], child)
           /\ child \in [V!Pids -> ChildRec] /\ \A p \in V!Pids : child[p].st = "free" => child[p].m = {}
           /\ \A e \in ensures : e \in EnsureJob /\ EnsureOK(e, rec[e.m], procs[e.m], child)
           /\ \A b \in dboots : b \in BootJob /\ BootOK(b, rec[b.m], procs[b.m], child)
           /\ \A s \in stops : s \in StopJob /\ StopOK(s, rec[s.m], procs[s.m], child)
           /\ \A d \in destroys : d \in DestroyJob /\ DestroyOK(d, child)
  <1>1. ensures \subseteq EnsureJob /\ dboots \subseteq BootJob /\ stops \subseteq StopJob /\ destroys \subseteq DestroyJob
    BY DEF DevInv, DevTypes, JobTypes
  <1>2. \A j \in Jobs : j.m \in Machines
    BY <1>1 DEF Jobs, EnsureJob, BootJob, StopJob, DestroyJob
  <1>3. \A j \in Jobs : up
    BY DEF DevInv
  <1> QED BY <1>1, <1>2, <1>3 DEF DevInv, DevTypes

LEMMA Beside ==
    ASSUME DevSizes, DevInv
    PROVE  /\ \A e \in ensures : /\ Others(ensures, e.m) = ensures \ {e} /\ Others(dboots, e.m) = dboots
                                 /\ Others(stops, e.m) = stops /\ Others(destroys, e.m) = destroys
           /\ \A b \in dboots : /\ Others(ensures, b.m) = ensures /\ Others(dboots, b.m) = dboots \ {b}
                                /\ Others(stops, b.m) = stops /\ Others(destroys, b.m) = destroys
           /\ \A s \in stops : /\ Others(ensures, s.m) = ensures /\ Others(dboots, s.m) = dboots
                               /\ Others(stops, s.m) = stops \ {s} /\ Others(destroys, s.m) = destroys
           /\ \A d \in destroys : /\ Others(ensures, d.m) = ensures /\ Others(dboots, d.m) = dboots
                                  /\ Others(stops, d.m) = stops /\ Others(destroys, d.m) = destroys \ {d}
  <1>1. /\ \A e \in ensures : e.pc \in {"update", "start", "pid"}
        /\ \A b \in dboots : b.pc \in {"wait", "killed"}
        /\ \A s \in stops : s.pc \in {"mark", "take", "term", "wait", "record"} /\ s = [m |-> s.m, mode |-> s.mode, p |-> s.p, pc |-> s.pc]
        /\ \A d \in destroys : d.pc \in {"kill", "delete"}
    BY DEF DevInv, DevTypes, JobTypes, EnsureJob, BootJob, StopJob, DestroyJob
  <1>2. ASSUME NEW b \in dboots, NEW s \in stops PROVE b # s
    <2>1. b \in BootJob /\ s \in StopJob
      BY DEF DevInv, DevTypes, JobTypes
    <2>2. DOMAIN b = {"m", "p", "pc"} /\ DOMAIN s = {"m", "mode", "p", "pc"}
      BY <2>1 DEF BootJob, StopJob
    <2>3. "mode" \in DOMAIN s /\ "mode" \notin DOMAIN b
      BY <2>2
    <2> QED BY <2>3
  <1>3. \A j, k \in ensures \cup dboots \cup stops \cup destroys : j.m = k.m => j = k
    BY DEF DevInv, OneJob, Jobs
  <1>4. \A e \in ensures : e \notin dboots /\ e \notin stops /\ e \notin destroys
    BY <1>1
  <1>5. \A b \in dboots : b \notin stops /\ b \notin destroys
    BY <1>1, <1>2
  <1>6. \A s \in stops : s \notin destroys
    BY <1>1
  <1> QED BY <1>3, <1>4, <1>5, <1>6 DEF Others

\* A call begins on a machine with nothing under way.
LEMMA AtRest ==
    ASSUME DevSizes, DevInv, NEW m \in Machines, V!MayCall(m)
    PROVE  /\ up /\ rec[m].state \in {"absent", "running", "stopped", "error"}
           /\ rec[m].state = "running" => procs[m] = rec[m].pid /\ procs[m] # 0
           /\ Others(ensures, m) = ensures /\ Others(dboots, m) = dboots /\ Others(stops, m) = stops /\ Others(destroys, m) = destroys
  <1>1. up /\ \A j \in ensures \cup dboots \cup stops \cup destroys : j.m # m
    BY DEF V!MayCall, V!Busy, DevSizes
  <1> QED BY <1>1 DEF DevInv, Served, Jobs, Others

LEMMA EnsureReserveKeeps == ASSUME DevSizes, DevInv, NEW m \in Machines, V!EnsureReserve(m) PROVE DevInv'
  <1>1. V!MayCall(m) /\ UNCHANGED <<child, procs, dboots, stops, destroys, up, restarts>>
    BY DEF V!EnsureReserve, V!EnsureClaim
  <1>2. procs' = [procs EXCEPT ![m] = procs[m]] /\ rec[m] \in V!Record /\ procs[m] \in 0 .. MaxPid /\ RecOK(m, rec[m], procs[m], child)
    BY <1>1, JobFacts DEF DevInv, DevTypes
  <1>3. CASE rec[m].state = "absent"
    <2> DEFINE e == [m |-> m, pc |-> "start", p |-> 0]
    <2>1. PICK a \in V!Records!GuestAddrs : rec' = [rec EXCEPT ![m] = [V!NoRec EXCEPT !.state = "creating", !.ip = a]] /\ ensures' = ensures \cup {e}
      BY <1>3 DEF V!EnsureReserve, V!Known
    <2> DEFINE r == [V!NoRec EXCEPT !.state = "creating", !.ip = a]
    <2>2. a \in 0 .. SubnetSize
      BY DEF V!Records!GuestAddrs
    <2>3. r \in V!Record /\ r.state = "creating" /\ r.pid = 0 /\ ~r.snap
      <3>1. V!NoRec \in V!Record /\ V!NoRec.pid = 0 /\ V!NoRec.snap = FALSE
        BY DEF V!NoRec, V!Record, V!States, DevSizes
      <3>2. r \in V!Record /\ r.state = "creating" /\ r.pid = V!NoRec.pid /\ r.snap = V!NoRec.snap
        BY <2>2, <3>1 DEF V!Record, V!States
      <3> HIDE DEF r
      <3> QED BY <3>1, <3>2
    <2>4. e \in EnsureJob /\ e.m = m /\ e.pc = "start" /\ e.p = 0
      BY DEF EnsureJob, DevSizes
    <2>5. rec' = [rec EXCEPT ![m] = r]
      BY <2>1
    <2> HIDE DEF r, e
    <2>6. Named(child', m, 0)
      BY <1>1, <1>2, <1>3 DEF RecOK
    <2>7. RecOK(m, r, procs[m], child')
      BY <1>1, <1>2, <2>3, <2>6 DEF RecOK
    <2>8. EnsureOK(e, r, procs[m], child')
      BY <2>3, <2>4, <2>6 DEF EnsureOK
    <2>9. Acts(m, r, procs[m])
      BY <1>1, <1>2, <2>5, AtRest, ChildrenStay, JobFacts DEF Acts
    <2>10. JobsOf(m, {e}, {}, {}, {})
      BY <1>1, <2>1, AtRest DEF JobsOf
    <2> QED BY <1>2, <2>3, <2>4, <2>7, <2>8, <2>9, <2>10, EnsureStep
  <1>4. CASE rec[m].state # "absent"
    <2> DEFINE e == [m |-> m, pc |-> "update", p |-> 0]
    <2>1. rec' = [rec EXCEPT ![m] = rec[m]] /\ ensures' = ensures \cup {e} /\ ~(rec[m].state \in {"creating", "running"} /\ V!alive(m, rec[m].pid))
      BY <1>4 DEF V!EnsureReserve, V!Known, DevInv, DevTypes
    <2>2. e \in EnsureJob /\ e.m = m /\ e.pc = "update" /\ e.p = 0
      BY DEF EnsureJob, DevSizes
    <2> HIDE DEF e
    <2>3. rec[m].state \in {"running", "stopped", "error"}
      BY <1>1, <1>4, AtRest
    <2>4. Named(child', m, 0)
      <3>1. CASE rec[m].state = "running"
        <4>1. procs[m] = rec[m].pid /\ procs[m] # 0
          BY <1>1, <3>1, AtRest
        <4>2. child[rec[m].pid].st # "run"
          BY <2>1, <3>1, <4>1 DEF V!alive, V!processAlive
        <4> QED BY <1>1, <1>2, <4>2 DEF RecOK, Named
      <3> QED BY <1>1, <1>2, <2>3, <3>1 DEF RecOK
    <2>5. EnsureOK(e, rec[m], procs[m], child')
      BY <2>2, <2>3, <2>4 DEF EnsureOK
    <2>6. Acts(m, rec[m], procs[m])
      BY <1>1, <1>2, <2>1, AtRest, ChildrenStay, JobFacts DEF Acts
    <2>7. JobsOf(m, {e}, {}, {}, {})
      BY <1>1, <2>1, AtRest DEF JobsOf
    <2> QED BY <1>1, <1>2, <2>2, <2>5, <2>6, <2>7, AtRest, EnsureStep
  <1> QED BY <1>3, <1>4

LEMMA EnsureUpdateKeeps == ASSUME DevSizes, DevInv, NEW e \in ensures, V!EnsureUpdate(e) PROVE DevInv'
  <1> DEFINE m == e.m
             r == [rec[m] EXCEPT !.state = "creating", !.snap = FALSE]
             f == [e EXCEPT !.pc = "start"]
  <1>1. e.pc = "update" /\ UNCHANGED <<child, procs, dboots, stops, destroys, up, restarts>> /\ ensures' = (ensures \ {e}) \cup {f}
        /\ rec' = IF rec[m].state # "absent" THEN [rec EXCEPT ![m] = r] ELSE rec
    BY DEF V!EnsureUpdate, V!Update, V!Known
  <1>2. m \in Machines /\ up /\ e \in EnsureJob /\ EnsureOK(e, rec[m], procs[m], child) /\ rec[m] \in V!Record /\ procs[m] \in 0 .. MaxPid
        /\ RecOK(m, rec[m], procs[m], child)
    BY JobFacts DEF Jobs
  <1>3. f \in EnsureJob /\ f.m = m /\ f.pc = "start" /\ f.p = e.p
    BY <1>2 DEF EnsureJob
  <1>4. r \in V!Record /\ r.state = "creating" /\ r.pid = rec[m].pid /\ r.snap = FALSE
    BY <1>2 DEF V!Record, V!States
  <1>5. rec' = [rec EXCEPT ![m] = r] /\ procs' = [procs EXCEPT ![m] = procs[m]]
    BY <1>1, <1>2 DEF EnsureOK, DevInv, DevTypes
  <1> HIDE DEF r, f, m
  <1>6. RecOK(m, r, procs[m], child')
    BY <1>1, <1>2, <1>4 DEF RecOK
  <1>7. EnsureOK(f, r, procs[m], child')
    BY <1>1, <1>2, <1>3, <1>4 DEF EnsureOK, m
  <1>8. Acts(m, r, procs[m])
    BY <1>1, <1>2, <1>5, ChildrenStay, JobFacts DEF Acts
  <1>9. JobsOf(m, {f}, {}, {}, {})
    BY <1>1, Beside DEF JobsOf, m
  <1> QED BY <1>2, <1>3, <1>4, <1>6, <1>7, <1>8, <1>9, EnsureStep

LEMMA BootStartKeeps == ASSUME DevSizes, DevInv, NEW e \in ensures, V!BootStart(e) PROVE DevInv'
  <1> DEFINE m == e.m
             c == [m |-> {m}, st |-> "run", ours |-> TRUE, noted |-> FALSE]
  <1>1. PICK p \in V!Pids : child[p].st = "free" /\ child' = [child EXCEPT ![p] = c] /\ procs' = [procs EXCEPT ![m] = p]
                            /\ ensures' = (ensures \ {e}) \cup {[e EXCEPT !.pc = "pid", !.p = p]}
    BY DEF V!BootStart
  <1> DEFINE f == [e EXCEPT !.pc = "pid", !.p = p]
  <1>2. e.pc = "start" /\ UNCHANGED <<rec, dboots, stops, destroys, up, restarts>>
    BY DEF V!BootStart
  <1>3. m \in Machines /\ up /\ e \in EnsureJob /\ EnsureOK(e, rec[m], procs[m], child) /\ rec[m] \in V!Record
        /\ RecOK(m, rec[m], procs[m], child) /\ child \in [V!Pids -> ChildRec] /\ (\A x \in V!Pids : child[x].st = "free" => child[x].m = {})
    BY JobFacts DEF Jobs
  <1>4. p \in 0 .. MaxPid /\ p # 0
    BY DEF V!Pids, DevSizes
  <1>5. f \in EnsureJob /\ f.m = m /\ f.pc = "pid" /\ f.p = p
    BY <1>3, <1>4 DEF EnsureJob
  <1>6. c \in ChildRec /\ c.m = {m} /\ c.st = "run" /\ c.noted = FALSE
    BY <1>3 DEF ChildRec
  <1>7. rec' = [rec EXCEPT ![m] = rec[m]]
    BY <1>2 DEF DevInv, DevTypes
  <1>8. ensures' = (ensures \ {e}) \cup {f}
    BY <1>1
  <1> HIDE DEF f, m, c
  <1>9. child' \in [V!Pids -> ChildRec] /\ child'[p] = c /\ \A x \in V!Pids \ {p} : child'[x] = child[x]
    BY <1>1, <1>3, <1>6
  <1>10. \A x \in V!Pids : child'[x].st = "free" => child'[x].m = {}
    BY <1>3, <1>6, <1>9
  <1>11. ASSUME NEW n PROVE Fades(n)
    <2>1. child[p].m # {n} /\ child[p].st # "gone" /\ ~child'[p].noted
      BY <1>1, <1>3, <1>6, <1>9
    <2> QED BY <1>9, <2>1, Zenon DEF Fades
  <1>12. RecOK(m, rec[m], p, child')
    <2>1. RecOK(m, rec[m], procs[m], child')
      BY <1>3, <1>11, RestStays, JobFacts
    <2> QED BY <1>6, <1>9, <2>1 DEF RecOK
  <1>13. EnsureOK(f, rec[m], p, child')
    <2>1. Named(child', m, 0) /\ rec[m].state = "creating"
      BY <1>2, <1>3, <1>11, NamedKept DEF EnsureOK, m
    <2> QED BY <1>4, <1>5, <1>6, <1>9, <2>1 DEF EnsureOK
  <1>14. Acts(m, rec[m], p)
    BY <1>1, <1>2, <1>3, <1>7, <1>9, <1>10, <1>11 DEF Acts
  <1>15. JobsOf(m, {f}, {}, {}, {})
    BY <1>2, <1>8, Beside DEF JobsOf, m
  <1>16. rec[m].state # "running"
    BY <1>2, <1>3 DEF EnsureOK
  <1> QED BY <1>3, <1>4, <1>5, <1>12, <1>13, <1>14, <1>15, <1>16, EnsureStep

LEMMA BootFailsKeeps == ASSUME DevSizes, DevInv, NEW e \in ensures, V!BootFails(e) PROVE DevInv'
  <1> DEFINE m == e.m
             r == [rec[m] EXCEPT !.state = "error"]
  <1>1. e.pc = "start" /\ UNCHANGED <<child, procs, dboots, stops, destroys, up, restarts>> /\ ensures' = ensures \ {e}
        /\ rec' = IF rec[m].state # "absent" THEN [rec EXCEPT ![m] = r] ELSE rec
    BY DEF V!BootFails, V!Update, V!Known
  <1>2. m \in Machines /\ up /\ EnsureOK(e, rec[m], procs[m], child) /\ rec[m] \in V!Record /\ procs[m] \in 0 .. MaxPid
        /\ RecOK(m, rec[m], procs[m], child)
    BY JobFacts DEF Jobs
  <1>3. r \in V!Record /\ r.state = "error" /\ r.pid = rec[m].pid
    BY <1>2 DEF V!Record, V!States
  <1>4. rec' = [rec EXCEPT ![m] = r] /\ procs' = [procs EXCEPT ![m] = procs[m]]
    BY <1>1, <1>2 DEF EnsureOK, DevInv, DevTypes
  <1> HIDE DEF r, m
  <1>5. RecOK(m, r, procs[m], child')
    BY <1>1, <1>2, <1>3 DEF RecOK, EnsureOK, m
  <1>6. Acts(m, r, procs[m])
    BY <1>1, <1>2, <1>4, ChildrenStay, JobFacts DEF Acts
  <1>7. JobsOf(m, {}, {}, {}, {})
    BY <1>1, Beside DEF JobsOf, m
  <1> QED BY <1>2, <1>3, <1>5, <1>6, <1>7, LastStep

\* The write of the pid does not fail.
LEMMA BootPidWrites ==
    ASSUME DevSizes, NEW e, V!BootPid(e)
    PROVE  /\ e.pc = "pid" /\ V!Update(e.m, [rec[e.m] EXCEPT !.pid = e.p])
           /\ child' = [child EXCEPT ![e.p].noted = (child[e.p].noted \/ child[e.p].st # "gone")]
           /\ dboots' = dboots \cup {[m |-> e.m, p |-> e.p, pc |-> "wait"]}
           /\ ensures' = ensures \ {e} /\ UNCHANGED <<procs, stops, destroys, up, restarts>>
  BY DEF V!BootPid, DevSizes

LEMMA BootPidKeeps == ASSUME DevSizes, DevInv, NEW e \in ensures, V!BootPid(e) PROVE DevInv'
  <1> DEFINE m == e.m
             p == e.p
             r == [rec[m] EXCEPT !.pid = p]
             b == [m |-> m, p |-> p, pc |-> "wait"]
             was == child[p]
             nt == was.noted \/ was.st # "gone"
             c == [was EXCEPT !.noted = nt]
  <1>1. e.pc = "pid" /\ UNCHANGED <<procs, stops, destroys, up, restarts>> /\ ensures' = ensures \ {e} /\ dboots' = dboots \cup {b}
        /\ rec' = (IF rec[m].state # "absent" THEN [rec EXCEPT ![m] = r] ELSE rec) /\ child' = [child EXCEPT ![p].noted = nt]
    BY BootPidWrites DEF V!Update, V!Known
  <1>2. m \in Machines /\ up /\ e \in EnsureJob /\ EnsureOK(e, rec[m], procs[m], child) /\ rec[m] \in V!Record /\ procs[m] \in 0 .. MaxPid
        /\ RecOK(m, rec[m], procs[m], child) /\ child \in [V!Pids -> ChildRec] /\ (\A x \in V!Pids : child[x].st = "free" => child[x].m = {})
    BY JobFacts DEF Jobs
  <1>3. p \in 0 .. MaxPid /\ p # 0 /\ procs[m] = p /\ was.m = {m} /\ Named(child, m, 0) /\ rec[m].state = "creating" /\ p \in V!Pids
    BY <1>1, <1>2, PidRange DEF EnsureOK, EnsureJob, DevSizes
  <1>4. was \in ChildRec /\ nt \in BOOLEAN
    BY <1>2, <1>3
  <1>5. r \in V!Record /\ r.state = "creating" /\ r.pid = p /\ r.snap = rec[m].snap
    BY <1>2, <1>3 DEF V!Record
  <1>6. b \in BootJob /\ b.m = m /\ b.p = p /\ b.pc = "wait"
    BY <1>2, <1>3 DEF BootJob
  <1>7. child' = [child EXCEPT ![p] = c]
    BY <1>1, <1>2, <1>3
  <1> HIDE DEF nt
  <1>8. c \in ChildRec /\ c.m = {m} /\ c.st = was.st
    BY <1>3, <1>4 DEF ChildRec
  <1>9. rec' = [rec EXCEPT ![m] = r] /\ procs' = [procs EXCEPT ![m] = p]
    BY <1>1, <1>3 DEF DevInv, DevTypes
  <1> HIDE DEF r, m, p, b, c
  <1>10. child' \in [V!Pids -> ChildRec] /\ child'[p] = c /\ \A x \in V!Pids \ {p} : child'[x] = child[x]
    BY <1>2, <1>3, <1>7, <1>8
  <1>11. \A x \in V!Pids : child'[x].st = "free" => child'[x].m = {}
    BY <1>2, <1>3, <1>8, <1>10
  <1>12. ASSUME NEW n \in Machines \ {m} PROVE Fades(n)
    <2>1. {m} # {n}
      BY <1>12
    <2> QED BY <1>3, <1>8, <1>10, <2>1, Zenon DEF Fades
  <1>13. Named(child', m, p)
    <2>1. Named(child, m, p)
      BY <1>3, NoneNamed DEF DevSizes
    <2> QED BY <1>3, <1>10, <2>1 DEF Named
  <1>14. RecOK(m, r, p, child')
    BY <1>2, <1>3, <1>5, <1>8, <1>10, <1>13 DEF RecOK
  <1>15. BootOK(b, r, p, child')
    BY <1>5, <1>6 DEF BootOK
  <1>16. Acts(m, r, p)
    BY <1>1, <1>2, <1>9, <1>10, <1>11, <1>12 DEF Acts
  <1>17. JobsOf(m, {}, {b}, {}, {})
    BY <1>1, Beside DEF JobsOf, m
  <1> QED BY <1>2, <1>3, <1>5, <1>6, <1>14, <1>15, <1>16, <1>17, BootStep

\* A child that is signalled, dies, is reaped or disowned.
LEMMA ChildFades ==
    ASSUME DevSizes, DevInv, NEW p \in V!Pids, NEW c \in ChildRec, child' = [child EXCEPT ![p] = c], c.m = child[p].m,
           c.st \notin {"free", "run"}, child[p].st = "gone" => c.st = "gone"
    PROVE  /\ child' \in [V!Pids -> ChildRec] /\ (\A x \in V!Pids : child'[x].st = "free" => child'[x].m = {})
           /\ \A n : Fades(n)
           /\ child'[p] = c
           /\ \A n : Named(child, n, p) => Named(child', n, 0)
  <1>1. child \in [V!Pids -> ChildRec] /\ (\A x \in V!Pids : child[x].st = "free" => child[x].m = {})
    BY JobFacts
  <1>2. child' \in [V!Pids -> ChildRec] /\ child'[p] = c /\ \A x \in V!Pids \ {p} : child'[x] = child[x]
    BY <1>1
  <1>3. \A x \in V!Pids : child'[x].st = "free" => child'[x].m = {}
    BY <1>1, <1>2
  <1>4. ASSUME NEW n PROVE Fades(n)
    <2>1. child'[p].st # "run" /\ child'[p].m = child[p].m /\ (child[p].st = "gone" => child'[p].st = "gone")
      BY <1>2
    <2> QED BY <1>2, <2>1, Zenon DEF Fades
  <1>5. ASSUME NEW n, Named(child, n, p) PROVE Named(child', n, 0)
    <2>1. Named(child', n, p)
      BY <1>4, <1>5, NamedKept
    <2> QED BY <1>2, <2>1 DEF Named
  <1> QED BY <1>2, <1>3, <1>4, <1>5

\* SIGKILL and Wait.
LEMMA KillFades ==
    ASSUME DevSizes, DevInv, NEW q \in 0 .. MaxPid, child' = V!kill(q)
    PROVE  /\ child' \in [V!Pids -> ChildRec] /\ (\A x \in V!Pids : child'[x].st = "free" => child'[x].m = {})
           /\ \A n : Fades(n)
           /\ q # 0 => child'[q].st = "gone"
           /\ \A n : Named(child, n, q) => Named(child', n, 0)
  <1>1. CASE q = 0
    <2>1. child' = child
      BY <1>1 DEF V!kill
    <2>2. \A n : Fades(n)
      BY <2>1 DEF Fades
    <2> QED BY <1>1, <2>1, <2>2, JobFacts
  <1>2. CASE q # 0
    <2> DEFINE c == V!Gone(child[q])
    <2>1. q \in V!Pids /\ child' = [child EXCEPT ![q] = c] /\ child[q] \in ChildRec
      BY <1>2, PidRange, JobFacts DEF V!kill, DevSizes
    <2>2. c \in ChildRec /\ c.m = child[q].m /\ c.st = "gone"
      BY <2>1 DEF V!Gone, ChildRec
    <2> HIDE DEF c
    <2> QED BY <2>1, <2>2, ChildFades
  <1> QED BY <1>1, <1>2

LEMMA FinishBootKeeps == ASSUME DevSizes, DevInv, NEW b \in dboots, V!FinishBoot(b) \/ V!FinishBootFailed(b) PROVE DevInv'
  <1> DEFINE m == b.m
             r == [rec[m] EXCEPT !.state = "running"]
             z == [rec[m] EXCEPT !.state = "error", !.pid = 0]
  <1>1. m \in Machines /\ up /\ b \in BootJob /\ BootOK(b, rec[m], procs[m], child) /\ rec[m] \in V!Record /\ procs[m] \in 0 .. MaxPid
        /\ RecOK(m, rec[m], procs[m], child)
    BY JobFacts DEF Jobs
  <1>2. UNCHANGED <<child, procs, ensures, stops, destroys, up, restarts>> /\ dboots' = dboots \ {b}
        /\ ((b.pc = "wait" /\ rec' = [rec EXCEPT ![m] = r]) \/ (b.pc = "killed" /\ rec' = [rec EXCEPT ![m] = z]))
    BY <1>1 DEF V!FinishBoot, V!FinishBootFailed, V!IfCreating, BootOK
  <1>3. r \in V!Record /\ r.state = "running" /\ r.pid = rec[m].pid /\ z \in V!Record /\ z.state = "error" /\ z.pid = 0
    <2>1. 0 \in 0 .. MaxPid
      BY DEF DevSizes
    <2>2. r \in V!Record /\ r.state = "running" /\ r.pid = rec[m].pid
      BY <1>1 DEF V!Record, V!States
    <2>3. z \in V!Record /\ z.state = "error" /\ z.pid = 0
      BY <1>1, <2>1 DEF V!Record, V!States
    <2> QED BY <2>2, <2>3
  <1>4. b.p \in V!Pids /\ b.p # 0 /\ rec[m].pid = b.p /\ procs[m] = b.p /\ (b.pc = "killed" => child[b.p].st = "gone")
    BY <1>1 DEF BootJob, BootOK, V!Pids
  <1>5. procs' = [procs EXCEPT ![m] = procs[m]]
    BY <1>2 DEF DevInv, DevTypes
  <1> HIDE DEF r, z, m
  <1>6. RecOK(m, r, procs[m], child')
    BY <1>1, <1>2, <1>3 DEF RecOK
  <1>7. b.pc = "killed" => Named(child, m, 0)
    BY <1>1, <1>4 DEF RecOK, Named
  <1>8. b.pc = "killed" => RecOK(m, z, procs[m], child')
    BY <1>1, <1>2, <1>3, <1>7 DEF RecOK
  <1>9. JobsOf(m, {}, {}, {}, {})
    BY <1>2, Beside DEF JobsOf, m
  <1>10. CASE rec' = [rec EXCEPT ![m] = r]
    <2>1. Acts(m, r, procs[m])
      BY <1>1, <1>2, <1>5, <1>10, ChildrenStay, JobFacts DEF Acts
    <2> QED BY <1>1, <1>3, <1>4, <1>6, <1>9, <2>1, LastStep
  <1>11. CASE b.pc = "killed" /\ rec' = [rec EXCEPT ![m] = z]
    <2>1. Acts(m, z, procs[m])
      BY <1>1, <1>2, <1>5, <1>11, ChildrenStay, JobFacts DEF Acts
    <2> QED BY <1>1, <1>3, <1>8, <1>9, <1>11, <2>1, LastStep
  <1> QED BY <1>2, <1>10, <1>11

LEMMA FinishBootKillKeeps == ASSUME DevSizes, DevInv, NEW b \in dboots, V!FinishBootKill(b) PROVE DevInv'
  <1> DEFINE m == b.m
             k == [b EXCEPT !.pc = "killed"]
  <1>1. m \in Machines /\ up /\ b \in BootJob /\ BootOK(b, rec[m], procs[m], child) /\ rec[m] \in V!Record /\ procs[m] \in 0 .. MaxPid
        /\ RecOK(m, rec[m], procs[m], child)
    BY JobFacts DEF Jobs
  <1>2. child' = V!kill(b.p) /\ UNCHANGED <<rec, procs, ensures, stops, destroys, up, restarts>> /\ dboots' = (dboots \ {b}) \cup {k}
    BY DEF V!FinishBootKill
  <1>3. k \in BootJob /\ k.m = m /\ k.p = b.p /\ k.pc = "killed" /\ b.p \in 0 .. MaxPid /\ b.p # 0
    BY <1>1 DEF BootJob, V!Pids
  <1>4. procs' = [procs EXCEPT ![m] = procs[m]] /\ rec' = [rec EXCEPT ![m] = rec[m]]
    BY <1>2 DEF DevInv, DevTypes
  <1> HIDE DEF k, m
  <1>5. /\ child' \in [V!Pids -> ChildRec] /\ (\A x \in V!Pids : child'[x].st = "free" => child'[x].m = {})
        /\ (\A n : Fades(n)) /\ child'[b.p].st = "gone"
    BY <1>2, <1>3, KillFades
  <1>6. RecOK(m, rec[m], procs[m], child')
    BY <1>1, <1>5, RestStays
  <1>7. BootOK(k, rec[m], procs[m], child')
    BY <1>1, <1>3, <1>5 DEF BootOK
  <1>8. Acts(m, rec[m], procs[m])
    BY <1>1, <1>2, <1>4, <1>5 DEF Acts
  <1>9. JobsOf(m, {}, {k}, {}, {})
    BY <1>2, Beside DEF JobsOf, m
  <1> QED BY <1>1, <1>3, <1>6, <1>7, <1>8, <1>9, BootStep

LEMMA StopLoadKeeps == ASSUME DevSizes, DevInv, NEW m \in Machines, V!StopLoad(m) PROVE DevInv'
  <1>1. PICK how \in V!Modes : stops' = stops \cup {[m |-> m, mode |-> how, p |-> 0, pc |-> "mark"]}
    BY DEF V!StopLoad
  <1> DEFINE s == [m |-> m, mode |-> how, p |-> 0, pc |-> "mark"]
  <1>2. V!MayCall(m) /\ rec[m].state \notin {"absent", "stopped"} /\ UNCHANGED <<rec, child, procs, ensures, dboots, destroys, up, restarts>>
    BY DEF V!StopLoad
  <1>3. rec[m] \in V!Record /\ procs[m] \in 0 .. MaxPid /\ RecOK(m, rec[m], procs[m], child)
    BY JobFacts
  <1>4. s \in StopJob /\ s.m = m /\ s.pc = "mark"
    BY DEF StopJob, DevSizes
  <1>5. procs' = [procs EXCEPT ![m] = procs[m]] /\ rec' = [rec EXCEPT ![m] = rec[m]] /\ stops' = stops \cup {s}
    BY <1>1, <1>2 DEF DevInv, DevTypes
  <1> HIDE DEF s
  <1>6. StopOK(s, rec[m], procs[m], child')
    <2>1. rec[m].state \in {"running", "error"}
      BY <1>2, AtRest
    <2>2. Named(child, m, procs[m])
      BY <1>2, <1>3, <2>1, AtRest, NoneNamed DEF RecOK, DevSizes
    <2> QED BY <1>2, <1>4, <2>1, <2>2 DEF StopOK
  <1>7. Acts(m, rec[m], procs[m])
    BY <1>2, <1>5, AtRest, ChildrenStay, JobFacts DEF Acts
  <1>8. JobsOf(m, {}, {}, {s}, {})
    BY <1>2, <1>5, AtRest DEF JobsOf
  <1>9. RecOK(m, rec[m], procs[m], child')
    BY <1>2, <1>3
  <1> QED BY <1>2, <1>3, <1>4, <1>6, <1>7, <1>8, <1>9, AtRest, StopStep

LEMMA StopMarkKeeps == ASSUME DevSizes, DevInv, NEW s \in stops, V!StopMark(s) PROVE DevInv'
  <1> DEFINE m == s.m
             to == V!StopState(s.mode)
             r == [rec[m] EXCEPT !.state = to]
             t == [s EXCEPT !.pc = "take"]
  <1>1. m \in Machines /\ up /\ s \in StopJob /\ StopOK(s, rec[m], procs[m], child) /\ rec[m] \in V!Record /\ procs[m] \in 0 .. MaxPid
        /\ RecOK(m, rec[m], procs[m], child)
    BY JobFacts DEF Jobs
  <1>2. s.pc = "mark" /\ UNCHANGED <<child, procs, ensures, dboots, destroys, up, restarts>> /\ stops' = (stops \ {s}) \cup {t}
        /\ rec' = IF rec[m].state # "absent" THEN [rec EXCEPT ![m] = r] ELSE rec
    BY DEF V!StopMark, V!Step, V!Update, V!Known
  <1>3. to \in {"hibernating", "stopping"}
    BY DEF V!StopState
  <1>4. t \in StopJob /\ t.m = m /\ t.pc = "take" /\ t.mode = s.mode
    BY <1>1 DEF StopJob
  <1> HIDE DEF to
  <1>5. r \in V!Record /\ r.state = to /\ r.pid = rec[m].pid
    BY <1>1, <1>3 DEF V!Record, V!States
  <1>6. procs' = [procs EXCEPT ![m] = procs[m]] /\ rec' = [rec EXCEPT ![m] = r]
    BY <1>1, <1>2 DEF DevInv, DevTypes, StopOK
  <1> HIDE DEF r, t, m
  <1>7. RecOK(m, r, procs[m], child')
    BY <1>1, <1>2, <1>3, <1>5 DEF RecOK
  <1>8. StopOK(t, r, procs[m], child')
    BY <1>1, <1>2, <1>4, <1>5 DEF StopOK, m, to
  <1>9. Acts(m, r, procs[m])
    BY <1>1, <1>2, <1>6, ChildrenStay, JobFacts DEF Acts
  <1>10. JobsOf(m, {}, {}, {t}, {})
    BY <1>2, Beside DEF JobsOf, m
  <1> QED BY <1>1, <1>3, <1>4, <1>5, <1>7, <1>8, <1>9, <1>10, StopStep

LEMMA StopTakeKeeps == ASSUME DevSizes, DevInv, NEW s \in stops, V!StopTake(s) PROVE DevInv'
  <1> DEFINE m == s.m
             t == [s EXCEPT !.pc = "term", !.p = procs[m]]
  <1>1. m \in Machines /\ up /\ s \in StopJob /\ StopOK(s, rec[m], procs[m], child) /\ rec[m] \in V!Record /\ procs[m] \in 0 .. MaxPid
        /\ RecOK(m, rec[m], procs[m], child)
    BY JobFacts DEF Jobs
  <1>2. s.pc = "take" /\ UNCHANGED <<rec, child, procs, ensures, dboots, destroys, up, restarts>> /\ stops' = (stops \ {s}) \cup {t}
    BY DEF V!StopTake
  <1>3. t \in StopJob /\ t.m = m /\ t.pc = "term" /\ t.mode = s.mode /\ t.p = procs[m]
    BY <1>1 DEF StopJob
  <1>4. procs' = [procs EXCEPT ![m] = procs[m]] /\ rec' = [rec EXCEPT ![m] = rec[m]]
    BY <1>2 DEF DevInv, DevTypes
  <1> HIDE DEF t, m
  <1>5. StopOK(t, rec[m], procs[m], child') /\ rec[m].state # "running"
    BY <1>1, <1>2, <1>3 DEF StopOK, m, V!StopState
  <1>6. Acts(m, rec[m], procs[m]) /\ RecOK(m, rec[m], procs[m], child')
    BY <1>1, <1>2, <1>4, ChildrenStay, JobFacts DEF Acts
  <1>7. JobsOf(m, {}, {}, {t}, {})
    BY <1>2, Beside DEF JobsOf, m
  <1> QED BY <1>1, <1>3, <1>5, <1>6, <1>7, StopStep

LEMMA StopTermKeeps == ASSUME DevSizes, DevInv, NEW s \in stops, V!StopTerm(s) PROVE DevInv'
  <1> DEFINE m == s.m
             p == s.p
             t == [s EXCEPT !.pc = "wait"]
             was == child[p]
             c == [was EXCEPT !.st = "dying"]
  <1>1. m \in Machines /\ up /\ s \in StopJob /\ StopOK(s, rec[m], procs[m], child) /\ rec[m] \in V!Record /\ procs[m] \in 0 .. MaxPid
        /\ RecOK(m, rec[m], procs[m], child) /\ child \in [V!Pids -> ChildRec]
    BY JobFacts DEF Jobs
  <1>2. s.pc = "term" /\ UNCHANGED <<rec, procs, ensures, dboots, destroys, up, restarts>> /\ stops' = (stops \ {s}) \cup {t}
        /\ child' = IF p # 0 /\ was.st = "run" THEN [child EXCEPT ![p].st = "dying"] ELSE child
    BY DEF V!StopTerm, V!Step
  <1>3. t \in StopJob /\ t.m = m /\ t.pc = "wait" /\ t.mode = s.mode /\ p \in 0 .. MaxPid
    BY <1>1 DEF StopJob
  <1>4. procs' = [procs EXCEPT ![m] = procs[m]] /\ rec' = [rec EXCEPT ![m] = rec[m]]
    BY <1>2 DEF DevInv, DevTypes
  <1>5. p # 0 => p \in V!Pids /\ was \in ChildRec /\ [child EXCEPT ![p].st = "dying"] = [child EXCEPT ![p] = c]
    BY <1>1, <1>3, PidRange DEF DevSizes
  <1>6. p # 0 => c \in ChildRec /\ c.m = was.m /\ c.st = "dying"
    BY <1>5 DEF ChildRec
  <1> HIDE DEF c
  <1>7. /\ child' \in [V!Pids -> ChildRec] /\ (\A x \in V!Pids : child'[x].st = "free" => child'[x].m = {})
        /\ (\A n : Fades(n)) /\ Named(child', m, 0)
    <2>0. Named(child, m, p)
      BY <1>1, <1>2 DEF StopOK
    <2>1. CASE p # 0 /\ was.st = "run"
      BY <1>2, <1>5, <1>6, <2>0, <2>1, ChildFades
    <2>2. CASE ~(p # 0 /\ was.st = "run")
      <3>1. child' = child
        BY <1>2, <2>2
      <3>2. Named(child, m, 0)
        BY <2>0, <2>2 DEF Named
      <3>3. \A n : Fades(n)
        BY <3>1 DEF Fades
      <3> QED BY <3>1, <3>2, <3>3, JobFacts
    <2> QED BY <2>1, <2>2
  <1> HIDE DEF t, m, p, was
  <1>8. RecOK(m, rec[m], procs[m], child')
    BY <1>1, <1>7, RestStays
  <1>9. StopOK(t, rec[m], procs[m], child') /\ rec[m].state # "running"
    BY <1>1, <1>2, <1>3, <1>7 DEF StopOK, V!StopState
  <1>10. Acts(m, rec[m], procs[m])
    BY <1>1, <1>2, <1>4, <1>7 DEF Acts
  <1>11. JobsOf(m, {}, {}, {t}, {})
    BY <1>2, Beside DEF JobsOf, m
  <1> QED BY <1>1, <1>3, <1>8, <1>9, <1>10, <1>11, StopStep

LEMMA StopReapKeeps == ASSUME DevSizes, DevInv, NEW s \in stops, V!StopReap(s) PROVE DevInv'
  <1> DEFINE m == s.m
             t == [s EXCEPT !.pc = "record"]
  <1>1. m \in Machines /\ up /\ s \in StopJob /\ StopOK(s, rec[m], procs[m], child) /\ rec[m] \in V!Record
        /\ RecOK(m, rec[m], procs[m], child) /\ 0 \in 0 .. MaxPid
    BY JobFacts DEF Jobs, DevSizes
  <1>2. s.pc = "wait" /\ UNCHANGED <<rec, ensures, dboots, destroys, up, restarts>> /\ stops' = (stops \ {s}) \cup {t}
        /\ procs' = [procs EXCEPT ![m] = 0] /\ (child' = V!kill(s.p) \/ child' = V!kill(0))
    BY DEF V!StopReap, V!Step, V!kill
  <1>3. t \in StopJob /\ t.m = m /\ t.pc = "record" /\ t.mode = s.mode /\ s.p \in 0 .. MaxPid
    BY <1>1 DEF StopJob
  <1>4. rec' = [rec EXCEPT ![m] = rec[m]]
    BY <1>2 DEF DevInv, DevTypes
  <1> HIDE DEF t, m
  <1>5. /\ child' \in [V!Pids -> ChildRec] /\ (\A x \in V!Pids : child'[x].st = "free" => child'[x].m = {})
        /\ (\A n : Fades(n))
    BY <1>1, <1>2, <1>3, KillFades
  <1>6. Named(child', m, 0)
    BY <1>1, <1>2, <1>5, NamedKept DEF StopOK, m
  <1>7. RecOK(m, rec[m], 0, child')
    <2>1. RecOK(m, rec[m], 0, child)
      BY <1>1 DEF RecOK
    <2> QED BY <1>1, <1>5, <2>1, RestStays
  <1>8. StopOK(t, rec[m], 0, child') /\ rec[m].state # "running"
    BY <1>1, <1>2, <1>3, <1>6 DEF StopOK, V!StopState
  <1>9. Acts(m, rec[m], 0)
    BY <1>1, <1>2, <1>4, <1>5 DEF Acts
  <1>10. JobsOf(m, {}, {}, {t}, {})
    BY <1>2, Beside DEF JobsOf, m
  <1> QED BY <1>1, <1>3, <1>7, <1>8, <1>9, <1>10, StopStep

LEMMA StopRecordKeeps == ASSUME DevSizes, DevInv, NEW s \in stops, V!StopRecord(s) PROVE DevInv'
  <1> DEFINE m == s.m
             h == (s.mode = "hibernate")
             r == [rec[m] EXCEPT !.state = "stopped", !.pid = 0, !.snap = h]
  <1>1. m \in Machines /\ up /\ s \in StopJob /\ StopOK(s, rec[m], procs[m], child) /\ rec[m] \in V!Record /\ procs[m] \in 0 .. MaxPid
        /\ RecOK(m, rec[m], procs[m], child) /\ 0 \in 0 .. MaxPid
    BY JobFacts DEF Jobs, DevSizes
  <1>2. s.pc = "record" /\ UNCHANGED <<child, procs, ensures, dboots, destroys, up, restarts>> /\ stops' = stops \ {s}
        /\ rec' = IF rec[m].state # "absent" THEN [rec EXCEPT ![m] = r] ELSE rec
    BY DEF V!StopRecord, V!Update, V!Known
  <1>3. h \in BOOLEAN
    OBVIOUS
  <1> HIDE DEF h
  <1>4. r \in V!Record /\ r.state = "stopped" /\ r.pid = 0
    BY <1>1, <1>3 DEF V!Record, V!States
  <1>5. procs' = [procs EXCEPT ![m] = procs[m]] /\ rec' = [rec EXCEPT ![m] = r]
    BY <1>1, <1>2 DEF DevInv, DevTypes, StopOK, V!StopState
  <1> HIDE DEF r, m
  <1>6. RecOK(m, r, procs[m], child')
    BY <1>1, <1>2, <1>4 DEF RecOK, StopOK, m
  <1>7. Acts(m, r, procs[m])
    BY <1>1, <1>2, <1>5, ChildrenStay, JobFacts DEF Acts
  <1>8. JobsOf(m, {}, {}, {}, {})
    BY <1>2, Beside DEF JobsOf, m
  <1> QED BY <1>1, <1>4, <1>6, <1>7, <1>8, LastStep

LEMMA DestroyTakeKeeps == ASSUME DevSizes, DevInv, NEW m \in Machines, V!DestroyTake(m) PROVE DevInv'
  <1> DEFINE d == [m |-> m, p |-> procs[m], pc |-> "kill"]
  <1>1. V!MayCall(m) /\ UNCHANGED <<rec, child, ensures, dboots, stops, up, restarts>> /\ destroys' = destroys \cup {d} /\ procs' = [procs EXCEPT ![m] = 0]
    BY DEF V!DestroyTake
  <1>2. rec[m] \in V!Record /\ procs[m] \in 0 .. MaxPid /\ RecOK(m, rec[m], procs[m], child) /\ 0 \in 0 .. MaxPid
    BY JobFacts DEF DevSizes
  <1>3. d \in DestroyJob /\ d.m = m /\ d.pc = "kill" /\ d.p = procs[m]
    BY <1>2 DEF DestroyJob
  <1>4. rec' = [rec EXCEPT ![m] = rec[m]]
    BY <1>1 DEF DevInv, DevTypes
  <1> HIDE DEF d
  <1>5. Named(child, m, procs[m])
    BY <1>1, <1>2, AtRest, NoneNamed DEF RecOK, DevSizes
  <1>6. DestroyOK(d, child') /\ RecOK(m, rec[m], 0, child')
    BY <1>1, <1>2, <1>3, <1>5 DEF DestroyOK, RecOK
  <1>7. Acts(m, rec[m], 0)
    BY <1>1, <1>4, AtRest, ChildrenStay, JobFacts DEF Acts
  <1>8. JobsOf(m, {}, {}, {}, {d})
    BY <1>1, AtRest DEF JobsOf
  <1> QED BY <1>2, <1>3, <1>6, <1>7, <1>8, DestroyStep

LEMMA DestroyKillKeeps == ASSUME DevSizes, DevInv, NEW d \in destroys, V!DestroyKill(d) PROVE DevInv'
  <1> DEFINE m == d.m
             k == [d EXCEPT !.pc = "delete"]
  <1>1. m \in Machines /\ up /\ d \in DestroyJob /\ DestroyOK(d, child) /\ rec[m] \in V!Record /\ procs[m] \in 0 .. MaxPid
        /\ RecOK(m, rec[m], procs[m], child)
    BY JobFacts DEF Jobs
  <1>2. d.pc = "kill" /\ child' = V!kill(d.p) /\ UNCHANGED <<rec, procs, ensures, dboots, stops, up, restarts>> /\ destroys' = (destroys \ {d}) \cup {k}
    BY DEF V!DestroyKill
  <1>3. k \in DestroyJob /\ k.m = m /\ k.pc = "delete" /\ d.p \in 0 .. MaxPid
    BY <1>1 DEF DestroyJob
  <1>4. procs' = [procs EXCEPT ![m] = procs[m]] /\ rec' = [rec EXCEPT ![m] = rec[m]]
    BY <1>2 DEF DevInv, DevTypes
  <1>5. Named(child, m, d.p)
    BY <1>1, <1>2 DEF DestroyOK
  <1> HIDE DEF k, m
  <1>6. /\ child' \in [V!Pids -> ChildRec] /\ (\A x \in V!Pids : child'[x].st = "free" => child'[x].m = {})
        /\ (\A n : Fades(n)) /\ Named(child', m, 0)
    BY <1>2, <1>3, <1>5, KillFades
  <1>7. RecOK(m, rec[m], procs[m], child')
    BY <1>1, <1>6, RestStays
  <1>8. DestroyOK(k, child')
    BY <1>3, <1>6 DEF DestroyOK
  <1>9. Acts(m, rec[m], procs[m])
    BY <1>1, <1>2, <1>4, <1>6 DEF Acts
  <1>10. JobsOf(m, {}, {}, {}, {k})
    BY <1>2, Beside DEF JobsOf, m
  <1> QED BY <1>1, <1>3, <1>7, <1>8, <1>9, <1>10, DestroyStep

LEMMA DestroyDeleteKeeps == ASSUME DevSizes, DevInv, NEW d \in destroys, V!DestroyDelete(d) PROVE DevInv'
  <1> DEFINE m == d.m
  <1>1. m \in Machines /\ up /\ d \in DestroyJob /\ DestroyOK(d, child) /\ procs[m] \in 0 .. MaxPid /\ RecOK(m, rec[m], procs[m], child)
    BY JobFacts DEF Jobs
  <1>2. d.pc = "delete" /\ UNCHANGED <<child, procs, ensures, dboots, stops, up, restarts>> /\ destroys' = destroys \ {d} /\ rec' = [rec EXCEPT ![m] = V!NoRec]
    BY DEF V!DestroyDelete
  <1>3. V!NoRec \in V!Record /\ V!NoRec.state = "absent" /\ V!NoRec.pid = 0 /\ V!NoRec.ip = 0
    BY DEF V!NoRec, V!Record, V!States, DevSizes
  <1>4. procs' = [procs EXCEPT ![m] = procs[m]]
    BY <1>2 DEF DevInv, DevTypes
  <1> HIDE DEF m
  <1>5. RecOK(m, V!NoRec, procs[m], child')
    BY <1>1, <1>2, <1>3 DEF RecOK, DestroyOK, m
  <1>6. Acts(m, V!NoRec, procs[m])
    BY <1>1, <1>2, <1>4, ChildrenStay, JobFacts DEF Acts
  <1>7. JobsOf(m, {}, {}, {}, {})
    BY <1>2, Beside DEF JobsOf, m
  <1> QED BY <1>1, <1>3, <1>5, <1>6, <1>7, LastStep

\* Nothing changes but children, which fade.
LEMMA FadingKeeps ==
    ASSUME DevSizes, DevInv, UNCHANGED <<rec, procs, ensures, dboots, stops, destroys, up, restarts>>, \A n : Fades(n),
           child' \in [V!Pids -> ChildRec], \A x \in V!Pids : child'[x].st = "free" => child'[x].m = {}
    PROVE  DevInv'
  <1>1. \A m \in Machines : rec[m] \in V!Record /\ procs[m] \in 0 .. MaxPid
    BY JobFacts
  <1>2. DevTypes' /\ OneJob' /\ (~up => Jobs = {})'
    BY DEF DevInv, DevTypes, JobTypes, OneJob, Jobs
  <1>3. (up => \A m \in Machines : Served(m))'
    BY DEF DevInv, Served, Jobs
  <1>4. \A m \in Machines : RecOK(m, rec'[m], procs'[m], child')
    BY <1>1, RestStays DEF DevInv
  <1>5. \A e \in ensures' : EnsureOK(e, rec'[e.m], procs'[e.m], child')
    BY <1>1, RestStays, JobFacts DEF Jobs
  <1>6. \A b \in dboots' : BootOK(b, rec'[b.m], procs'[b.m], child')
    BY <1>1, RestStays, JobFacts DEF Jobs
  <1>7. \A s \in stops' : StopOK(s, rec'[s.m], procs'[s.m], child')
    BY <1>1, RestStays, JobFacts DEF Jobs
  <1>8. \A d \in destroys' : DestroyOK(d, child')
    BY <1>1, RestStays, JobFacts DEF Jobs
  <1> QED BY <1>2, <1>3, <1>4, <1>5, <1>6, <1>7, <1>8 DEF DevInv

LEMMA ChildDiesKeeps == ASSUME DevSizes, DevInv, NEW p \in V!Pids, V!ChildDies(p) PROVE DevInv'
  <1> DEFINE was == child[p]
             c == IF was.ours THEN [was EXCEPT !.st = "zombie"] ELSE V!Gone(was)
  <1>1. was.st \in {"run", "dying"} /\ child' = [child EXCEPT ![p] = c] /\ UNCHANGED <<rec, procs, ensures, dboots, stops, destroys, up, restarts>>
    BY DEF V!ChildDies, V!memVars
  <1>2. was \in ChildRec
    BY JobFacts
  <1>3. c \in ChildRec /\ c.m = was.m /\ c.st \in {"zombie", "gone"}
    <2>1. [was EXCEPT !.st = "zombie"] \in ChildRec /\ [was EXCEPT !.st = "zombie"].m = was.m /\ [was EXCEPT !.st = "zombie"].st = "zombie"
      BY <1>2 DEF ChildRec
    <2>2. V!Gone(was) \in ChildRec /\ V!Gone(was).m = was.m /\ V!Gone(was).st = "gone"
      BY <1>2 DEF V!Gone, ChildRec
    <2> QED BY <2>1, <2>2
  <1> HIDE DEF c
  <1> QED BY <1>1, <1>3, ChildFades, FadingKeeps

LEMMA AgentStopsKeeps == ASSUME DevSizes, DevInv, V!AgentStops PROVE DevInv'
  <1> DEFINE c(p) == IF child[p].st = "zombie" THEN V!Gone(child[p]) ELSE [child[p] EXCEPT !.ours = FALSE]
  <1>1. /\ up' = FALSE /\ restarts < MaxRestarts /\ restarts' = restarts + 1 /\ child' = [p \in V!Pids |-> c(p)]
        /\ procs' = [m \in Machines |-> 0] /\ ensures' = {} /\ dboots' = {} /\ stops' = {} /\ destroys' = {} /\ UNCHANGED rec
    BY DEF V!AgentStops
  <1>2. ASSUME NEW p \in V!Pids
        PROVE  /\ c(p) \in ChildRec /\ c(p).m = child[p].m
               /\ c(p).st = IF child[p].st = "zombie" THEN "gone" ELSE child[p].st
               /\ child[p].st # "zombie" => c(p).noted = child[p].noted
    <2>1. child[p] \in ChildRec
      BY JobFacts
    <2>2. V!Gone(child[p]) \in ChildRec /\ V!Gone(child[p]).m = child[p].m /\ V!Gone(child[p]).st = "gone"
      BY <2>1 DEF V!Gone, ChildRec
    <2> DEFINE z == [child[p] EXCEPT !.ours = FALSE]
    <2>3. z \in ChildRec /\ z.m = child[p].m /\ z.st = child[p].st /\ z.noted = child[p].noted
      BY <2>1 DEF ChildRec
    <2>4. c(p) = IF child[p].st = "zombie" THEN V!Gone(child[p]) ELSE z
      OBVIOUS
    <2> HIDE DEF z, c
    <2> QED BY <2>2, <2>3, <2>4
  <1> HIDE DEF c
  <1>3. child' \in [V!Pids -> ChildRec] /\ \A p \in V!Pids : child'[p] = c(p)
    BY <1>1, <1>2
  <1>4. \A p \in V!Pids : child'[p].st = "free" => child'[p].m = {}
    BY <1>2, <1>3, JobFacts
  <1>5. ASSUME NEW n PROVE Fades(n)
    <2>1. ASSUME NEW p \in V!Pids
          PROVE  /\ child'[p].m = child[p].m /\ (child'[p].st = "run" => child[p].st = "run" /\ child'[p].noted = child[p].noted)
                 /\ child[p].st = "gone" => child'[p].st = "gone"
      BY <1>2, <1>3
    <2> QED BY <2>1, Zenon DEF Fades
  <1>6. restarts' \in 0 .. MaxRestarts /\ procs' \in [Machines -> 0 .. MaxPid]
    BY <1>1 DEF DevInv, DevTypes, DevSizes
  <1>7. DevTypes' /\ OneJob' /\ Jobs' = {}
    BY <1>1, <1>3, <1>4, <1>6 DEF DevInv, DevTypes, JobTypes, OneJob, Jobs
  <1>8. ASSUME NEW m \in Machines PROVE RecOK(m, rec'[m], procs'[m], child')
    <2>1. rec[m] \in V!Record /\ RecOK(m, rec[m], procs[m], child) /\ 0 \in 0 .. MaxPid
      BY JobFacts DEF DevSizes
    <2>2. RecOK(m, rec[m], 0, child)
      BY <2>1 DEF RecOK
    <2> QED BY <1>1, <1>5, <2>1, <2>2, RestStays
  <1> QED BY <1>1, <1>7, <1>8 DEF DevInv

LEMMA ReattachKeeps == ASSUME DevSizes, DevInv, V!Reattach PROVE DevInv'
  <1>1. /\ ~up /\ up' = TRUE /\ UNCHANGED <<child, ensures, dboots, destroys, restarts>> /\ stops' = V!ResumedStops
        /\ rec' = [m \in Machines |-> V!Reattached(rec[m])]
        /\ \A m \in Machines : procs'[m] = IF rec[m].state \in {"creating", "running", "hibernating", "stopping"} /\ V!processAlive(rec[m].pid)
                                           THEN rec[m].pid ELSE 0
        /\ procs' \in [Machines -> 0 .. MaxPid]
    <2>1. \A m \in Machines : rec[m].pid \in 0 .. MaxPid
      BY JobFacts DEF V!Record
    <2>2. 0 \in 0 .. MaxPid
      BY DEF DevSizes
    <2> QED BY <2>1, <2>2 DEF V!Reattach
  <1>2. ensures = {} /\ dboots = {} /\ destroys = {}
    BY <1>1 DEF DevInv, Jobs
  <1>3. ASSUME NEW m \in Machines, NEW r, r = rec[m]
        PROVE  /\ rec'[m] \in V!Record /\ rec'[m].snap = r.snap /\ rec'[m].ip = r.ip
               /\ IF r.state \in {"creating", "running"}
                  THEN IF V!processAlive(r.pid) THEN rec'[m].state = "running" /\ rec'[m].pid = r.pid ELSE rec'[m].state = "error" /\ rec'[m].pid = 0
                  ELSE rec'[m] = r
    <2>1. r \in V!Record /\ rec'[m] = V!Reattached(r) /\ 0 \in 0 .. MaxPid
      BY <1>1, <1>3, JobFacts DEF DevSizes
    <2>2. CASE r.state \in {"creating", "running"} /\ V!processAlive(r.pid)
      <3> DEFINE x == [r EXCEPT !.state = "running"]
      <3>1. rec'[m] = x
        BY <2>1, <2>2 DEF V!Reattached
      <3>2. x \in V!Record /\ x.snap = r.snap /\ x.ip = r.ip /\ x.state = "running" /\ x.pid = r.pid
        BY <2>1 DEF V!Record, V!States
      <3> HIDE DEF x
      <3> QED BY <2>2, <3>1, <3>2
    <2>3. CASE r.state \in {"creating", "running"} /\ ~V!processAlive(r.pid)
      <3> DEFINE x == [r EXCEPT !.state = "error", !.pid = 0]
      <3>1. rec'[m] = x
        BY <2>1, <2>3 DEF V!Reattached
      <3>2. x \in V!Record /\ x.snap = r.snap /\ x.ip = r.ip /\ x.state = "error" /\ x.pid = 0
        BY <2>1 DEF V!Record, V!States
      <3> HIDE DEF x
      <3> QED BY <2>3, <3>1, <3>2
    <2>4. CASE r.state \notin {"creating", "running"}
      BY <2>1, <2>4 DEF V!Reattached
    <2> QED BY <2>2, <2>3, <2>4
  <1>4. \A m \in Machines : RecOK(m, rec[m], procs[m], child)
    BY DEF DevInv
  <1>5. ASSUME NEW m \in Machines, ~V!processAlive(rec[m].pid) PROVE Named(child, m, 0)
    <2>1. rec[m].pid = 0 \/ child[rec[m].pid].st # "run"
      BY <1>5 DEF V!processAlive
    <2> QED BY <1>4, <2>1 DEF RecOK, Named
  <1>6. ASSUME NEW m \in Machines PROVE RecOK(m, rec'[m], procs'[m], child')
    <2>1. procs'[m] # 0 => procs'[m] = rec[m].pid
      BY <1>1
    <2>2. CASE rec[m].state \in {"creating", "running"} /\ V!processAlive(rec[m].pid)
      <3>1. rec'[m].state = "running" /\ rec'[m].pid = rec[m].pid
        BY <1>3, <2>2
      <3> QED BY <1>1, <1>4, <2>1, <3>1 DEF RecOK
    <2>3. CASE rec[m].state \in {"creating", "running"} /\ ~V!processAlive(rec[m].pid)
      <3>1. rec'[m].state = "error" /\ rec'[m].pid = 0 /\ procs'[m] = 0
        BY <1>1, <1>3, <2>3
      <3> QED BY <1>1, <1>5, <2>3, <3>1 DEF RecOK
    <2>4. CASE rec[m].state \notin {"creating", "running"}
      <3>1. rec'[m] = rec[m]
        BY <1>3, <2>4
      <3> QED BY <1>1, <1>4, <2>1, <3>1 DEF RecOK
    <2> QED BY <2>2, <2>3, <2>4
  <1>7. ASSUME NEW s \in stops'
        PROVE  /\ s \in StopJob /\ s.pc = "term" /\ rec[s.m].state \in {"hibernating", "stopping"} /\ rec[s.m].state = V!StopState(s.mode)
               /\ s.p = IF V!processAlive(rec[s.m].pid) THEN rec[s.m].pid ELSE 0
    <2>1. PICK n \in Machines :
            /\ rec[n].state \in {"hibernating", "stopping"}
            /\ s = [m |-> n, mode |-> IF rec[n].state = "hibernating" THEN "hibernate" ELSE "poweroff",
                    p |-> IF V!processAlive(rec[n].pid) THEN rec[n].pid ELSE 0, pc |-> "term"]
      BY <1>1 DEF V!ResumedStops
    <2>2. rec[n].pid \in 0 .. MaxPid /\ 0 \in 0 .. MaxPid
      BY JobFacts DEF V!Record, DevSizes
    <2> QED BY <2>1, <2>2 DEF StopJob, V!Modes, V!StopState
  <1>8. ASSUME NEW s \in stops' PROVE StopOK(s, rec'[s.m], procs'[s.m], child')
    <2>1. s.m \in Machines
      BY <1>7 DEF StopJob
    <2>2. rec'[s.m].state = rec[s.m].state
      BY <1>3, <1>7, <2>1
    <2>3. Named(child, s.m, s.p)
      BY <1>4, <1>5, <1>7, <2>1 DEF RecOK
    <2> QED BY <1>1, <1>7, <2>2, <2>3 DEF StopOK
  <1>9. ASSUME NEW m \in Machines, rec[m].state \in {"hibernating", "stopping"} PROVE \E s \in stops' : s.m = m
    <2> DEFINE s == [m |-> m, mode |-> IF rec[m].state = "hibernating" THEN "hibernate" ELSE "poweroff",
                     p |-> IF V!processAlive(rec[m].pid) THEN rec[m].pid ELSE 0, pc |-> "term"]
    <2>1. m \in {n \in Machines : rec[n].state \in {"hibernating", "stopping"}}
      BY <1>9
    <2>2. s \in V!ResumedStops
      BY <2>1 DEF V!ResumedStops
    <2>3. s.m = m
      OBVIOUS
    <2> HIDE DEF s
    <2> QED BY <1>1, <2>2, <2>3
  <1>10. Jobs' = stops'
    BY <1>1, <1>2 DEF Jobs
  <1>11. OneJob'
    <2>1. \A s, t \in V!ResumedStops : s.m = t.m => s = t
      BY DEF V!ResumedStops
    <2> QED BY <1>1, <1>10, <2>1 DEF OneJob
  <1>12. ASSUME NEW m \in Machines PROVE Served(m)'
    <2>1. rec[m].state \in V!States
      BY JobFacts DEF V!Record
    <2>2. rec'[m].state = "running" => procs'[m] = rec'[m].pid /\ procs'[m] # 0
      BY <1>1, <1>3 DEF V!processAlive
    <2>3. rec[m].state \notin {"hibernating", "stopping"} => rec'[m].state \in {"absent", "running", "stopped", "error"}
      BY <1>3, <2>1 DEF V!States
    <2> QED BY <1>9, <1>10, <2>2, <2>3 DEF Served
  <1>13. DevTypes'
    <2>1. rec' \in [Machines -> V!Record]
      BY <1>1, <1>3
    <2>2. JobTypes'
      BY <1>1, <1>2, <1>7 DEF JobTypes
    <2> QED BY <1>1, <2>1, <2>2 DEF DevTypes, DevInv
  <1> QED BY <1>1, <1>2, <1>6, <1>8, <1>11, <1>12, <1>13 DEF DevInv

LEMMA DevNext == ASSUME DevSizes, DevInv, [V!Next]_vvars PROVE DevInv'
  <1>1. ASSUME NEW m \in Machines, V!EnsureReserve(m) \/ V!StopLoad(m) \/ V!DestroyTake(m) PROVE DevInv'
    BY <1>1, EnsureReserveKeeps, StopLoadKeeps, DestroyTakeKeeps
  <1>2. ASSUME NEW m \in Machines, V!Ensure(m) PROVE DevInv'
    BY <1>2, EnsureUpdateKeeps, BootStartKeeps, BootFailsKeeps, BootPidKeeps DEF V!Ensure
  <1>3. ASSUME NEW m \in Machines, V!Finish(m) PROVE DevInv'
    BY <1>3, FinishBootKeeps, FinishBootKillKeeps DEF V!Finish
  <1>4. ASSUME NEW m \in Machines, V!Stop(m) PROVE DevInv'
    BY <1>4, StopMarkKeeps, StopTakeKeeps, StopTermKeeps, StopReapKeeps, StopRecordKeeps DEF V!Stop
  <1>5. ASSUME NEW m \in Machines, V!Destroy(m) PROVE DevInv'
    BY <1>5, DestroyKillKeeps, DestroyDeleteKeeps DEF V!Destroy
  <1>6. CASE UNCHANGED vvars
    <2>1. UNCHANGED <<rec, child, procs, ensures, dboots, stops, destroys, up, restarts>>
      BY <1>6 DEF vvars, V!vars, V!memVars
    <2> QED BY <2>1 DEF DevInv, DevTypes, JobTypes, OneJob, Jobs, Served
  <1> QED BY <1>1, <1>2, <1>3, <1>4, <1>5, <1>6, ChildDiesKeeps, AgentStopsKeeps, ReattachKeeps DEF V!Next

\* A child of this agent whose pid is not yet recorded is the one of a call in flight.
Fresh == \A p \in V!Pids : child[p].st = "run" /\ child[p].ours => child[p].noted \/ \E e \in ensures : e.p = p

LEMMA FreshStays ==
    ASSUME Fresh,
           \A p \in V!Pids : child'[p].st = "run" /\ child'[p].ours => child[p].st = "run" /\ child[p].ours /\ (child[p].noted => child'[p].noted),
           \A e \in ensures : e.p # 0 => e \in ensures'
    PROVE  Fresh'
  <1>1. \A p \in V!Pids : p # 0
    BY DEF V!Pids
  <1> QED BY <1>1 DEF Fresh

LEMMA FreshNext == ASSUME DevSizes, DevInv, Fresh, [V!Next]_vvars PROVE Fresh'
  <1>1. child \in [V!Pids -> ChildRec]
    BY JobFacts
  <1>2. ASSUME UNCHANGED <<child, ensures>> PROVE Fresh'
    BY <1>2, FreshStays
  <1>3. ASSUME NEW q \in 0 .. MaxPid, child' = V!kill(q), UNCHANGED ensures PROVE Fresh'
    <2>1. \A p \in V!Pids : child'[p] = child[p] \/ child'[p].st = "gone"
      BY <1>1, <1>3 DEF V!kill, V!Gone
    <2> QED BY <1>3, <2>1, FreshStays
  <1>4. ASSUME NEW m \in Machines, V!EnsureReserve(m) PROVE Fresh'
    BY <1>4, FreshStays DEF V!EnsureReserve
  <1>5. ASSUME NEW e \in ensures, V!EnsureUpdate(e) \/ V!BootFails(e) PROVE Fresh'
    <2>1. e.p = 0
      BY <1>5, JobFacts DEF EnsureOK, V!EnsureUpdate, V!BootFails
    <2> QED BY <1>5, <2>1, FreshStays DEF V!EnsureUpdate, V!BootFails
  <1>6. ASSUME NEW e \in ensures, V!BootStart(e) PROVE Fresh'
    <2>1. e \in EnsureJob /\ e.p = 0
      BY <1>6, JobFacts DEF EnsureOK, V!BootStart
    <2>2. PICK p \in V!Pids : /\ child' = [child EXCEPT ![p] = [m |-> {e.m}, st |-> "run", ours |-> TRUE, noted |-> FALSE]]
                              /\ ensures' = (ensures \ {e}) \cup {[e EXCEPT !.pc = "pid", !.p = p]}
      BY <1>6 DEF V!BootStart
    <2>3. \A x \in V!Pids \ {p} : child'[x] = child[x]
      BY <1>1, <2>2
    <2>4. [e EXCEPT !.pc = "pid", !.p = p].p = p
      BY <2>1 DEF EnsureJob
    <2>5. \A x \in V!Pids : x # 0
      BY DEF V!Pids
    <2> QED BY <2>1, <2>2, <2>3, <2>4, <2>5 DEF Fresh
  <1>7. ASSUME NEW e \in ensures, V!BootPid(e) PROVE Fresh'
    <2>1. e.p \in V!Pids /\ ensures' = ensures \ {e} /\ child[e.p] \in ChildRec
          /\ child' = [child EXCEPT ![e.p] = [child[e.p] EXCEPT !.noted = (child[e.p].noted \/ child[e.p].st # "gone")]]
      BY <1>1, <1>7, BootPidWrites, PidRange, JobFacts DEF EnsureOK, EnsureJob, DevSizes
    <2> DEFINE c == [child[e.p] EXCEPT !.noted = (child[e.p].noted \/ child[e.p].st # "gone")]
    <2>2. c.st = child[e.p].st /\ c.ours = child[e.p].ours /\ (c.st = "run" => c.noted)
      BY <2>1 DEF ChildRec
    <2>3. child'[e.p] = c /\ \A x \in V!Pids \ {e.p} : child'[x] = child[x]
      BY <1>1, <2>1
    <2> HIDE DEF c
    <2> QED BY <2>1, <2>2, <2>3 DEF Fresh
  <1>8. ASSUME NEW m \in Machines, V!StopLoad(m) \/ V!DestroyTake(m) PROVE Fresh'
    BY <1>2, <1>8 DEF V!StopLoad, V!DestroyTake
  <1>9. ASSUME NEW b \in dboots, V!FinishBoot(b) \/ V!FinishBootKill(b) \/ V!FinishBootFailed(b) PROVE Fresh'
    <2>1. b \in BootJob
      BY JobFacts
    <2>2. b.p \in 0 .. MaxPid
      BY <2>1 DEF BootJob, V!Pids, DevSizes
    <2> QED BY <1>2, <1>3, <1>9, <2>2 DEF V!FinishBoot, V!FinishBootKill, V!FinishBootFailed
  <1>10. ASSUME NEW s \in stops, V!StopMark(s) \/ V!StopTake(s) \/ V!StopRecord(s) PROVE Fresh'
    BY <1>2, <1>10 DEF V!StopMark, V!StopTake, V!StopRecord
  <1>11. ASSUME NEW s \in stops, V!StopReap(s) PROVE Fresh'
    <2>1. s.p \in 0 .. MaxPid
      BY JobFacts DEF StopJob
    <2> QED BY <1>2, <1>3, <1>11, <2>1 DEF V!StopReap
  <1>12. ASSUME NEW s \in stops, V!StopTerm(s) PROVE Fresh'
    <2>1. s.p \in 0 .. MaxPid /\ UNCHANGED ensures
      BY <1>12, JobFacts DEF StopJob, V!StopTerm
    <2>2. CASE s.p # 0 /\ child[s.p].st = "run"
      <3>1. \A p \in V!Pids : child'[p] = child[p] \/ child'[p].st = "dying"
        BY <1>1, <1>12, <2>2 DEF V!StopTerm, ChildRec
      <3> QED BY <2>1, <3>1, FreshStays
    <2>3. CASE ~(s.p # 0 /\ child[s.p].st = "run")
      BY <1>2, <1>12, <2>1, <2>3 DEF V!StopTerm
    <2> QED BY <2>2, <2>3
  <1>13. ASSUME NEW d \in destroys, V!DestroyKill(d) \/ V!DestroyDelete(d) PROVE Fresh'
    <2>1. d.p \in 0 .. MaxPid
      BY JobFacts DEF DestroyJob
    <2> QED BY <1>2, <1>3, <1>13, <2>1 DEF V!DestroyKill, V!DestroyDelete
  <1>14. ASSUME NEW p \in V!Pids, V!ChildDies(p) PROVE Fresh'
    <2>1. \A x \in V!Pids : child'[x] = child[x] \/ child'[x].st \in {"zombie", "gone"}
      BY <1>1, <1>14 DEF V!ChildDies, V!Gone, ChildRec
    <2>2. UNCHANGED ensures
      BY <1>14 DEF V!ChildDies, V!memVars
    <2> QED BY <2>1, <2>2, FreshStays
  <1>15. ASSUME V!AgentStops PROVE Fresh'
    <2>1. ASSUME NEW p \in V!Pids PROVE ~child'[p].ours
      <3>1. child[p] \in ChildRec
        BY <1>1
      <3>2. child'[p] = IF child[p].st = "zombie" THEN V!Gone(child[p]) ELSE [child[p] EXCEPT !.ours = FALSE]
        BY <1>15 DEF V!AgentStops
      <3> QED BY <3>1, <3>2 DEF V!Gone, ChildRec
    <2> QED BY <2>1 DEF Fresh
  <1>16. ASSUME V!Reattach PROVE Fresh'
    BY <1>2, <1>16 DEF V!Reattach
  <1>17. CASE UNCHANGED vvars
    BY <1>2, <1>17 DEF vvars, V!vars, V!memVars
  <1> QED BY <1>4, <1>5, <1>6, <1>7, <1>8, <1>9, <1>10, <1>11, <1>12, <1>13, <1>14, <1>15, <1>16, <1>17
          DEF V!Next, V!Ensure, V!Finish, V!Stop, V!Destroy

\* DevInv says what ChildrenRecorded asks for.
LEMMA DevHolds == ASSUME DevSizes, DevInv, Fresh PROVE V!TypeOK /\ V!OneChild /\ V!CapacityCounts /\ V!CmdIsRecorded
  <1>1. V!TypeOK
    <2>1. \A p \in V!Pids : child[p] \in ChildRec
      BY JobFacts
    <2>2. \A p \in V!Pids : /\ child[p].st \in {"free", "run", "dying", "zombie", "gone"} /\ child[p].m \subseteq Machines
                            /\ child[p].ours \in BOOLEAN /\ child[p].noted \in BOOLEAN
      BY <2>1 DEF ChildRec
    <2>3. /\ \A e \in ensures : e.m \in Machines /\ e.pc \in {"update", "start", "pid"} /\ e.p \in 0 .. MaxPid
          /\ \A b \in dboots : b.m \in Machines /\ b.p \in V!Pids /\ b.pc \in {"wait", "killed"}
          /\ \A s \in stops : s.m \in Machines /\ s.mode \in V!Modes /\ s.p \in 0 .. MaxPid
          /\ \A d \in destroys : d.m \in Machines /\ d.p \in 0 .. MaxPid
      BY JobFacts DEF EnsureJob, BootJob, StopJob, DestroyJob
    <2> QED BY <2>2, <2>3 DEF V!TypeOK, DevInv, DevTypes
  <1>2. ASSUME NEW m \in Machines, NEW p \in V!Children(m)
        PROVE  \/ p = rec[m].pid /\ rec[m].state \notin {"absent", "stopped", "error"} /\ (\A e \in ensures : e.m # m)
               \/ \E e \in ensures : e.m = m /\ p = e.p /\ rec[m].state = "creating"
    <2>1. p \in V!Pids /\ child[p].m = {m} /\ child[p].st = "run" /\ (child[p].noted \/ \E e \in ensures : e.p = p) /\ p # 0
      BY DEF V!Children, V!Pids, Fresh, DevSizes
    <2>2. CASE child[p].noted
      <3>1. RecOK(m, rec[m], procs[m], child)
        BY JobFacts
      <3>2. ~Named(child, m, 0)
        BY <2>1, <2>2 DEF Named
      <3>3. p = rec[m].pid /\ rec[m].state \notin {"absent", "stopped", "error"}
        BY <2>1, <2>2, <3>1, <3>2 DEF RecOK, Named
      <3>4. \A e \in ensures : e.m # m
        BY <3>2, JobFacts DEF EnsureOK
      <3> QED BY <3>3, <3>4
    <2>3. CASE \E e \in ensures : e.p = p
      <3>1. PICK e \in ensures : e.p = p
        BY <2>3
      <3>2. EnsureOK(e, rec[e.m], procs[e.m], child)
        BY JobFacts
      <3>3. child[p].m = {e.m} /\ rec[e.m].state = "creating"
        BY <2>1, <3>1, <3>2 DEF EnsureOK
      <3> QED BY <2>1, <3>1, <3>3
    <2> QED BY <2>1, <2>2, <2>3
  <1>3. \A e, f \in ensures : e.m = f.m => e = f
    BY DEF DevInv, OneJob, Jobs
  <1>4. V!OneChild
    BY <1>2, <1>3 DEF V!OneChild
  <1>5. V!CapacityCounts
    BY <1>2 DEF V!CapacityCounts, V!Capacity, V!List, V!Known
  <1>6. V!CmdIsRecorded
    BY DEF V!CmdIsRecorded, DevInv, RecOK, Served
  <1> QED BY <1>1, <1>4, <1>5, <1>6

\* What the contract of drivers lets a machine's status and snapshot do in a step.
Moves(r, x) ==
    \/ /\ x.state = "creating" /\ r.state \in {"absent", "stopped", "error", "creating", "running"} /\ (x.snap => r.snap)
    \/ r.state = "creating" /\ x.state = "running" /\ ~x.snap
    \/ r.state \in {"creating", "running"} /\ x.state = "error" /\ (x.snap => r.snap)
    \/ r.state \notin {"absent", "stopped"} /\ x.state \in {"hibernating", "stopping"} /\ x.snap = r.snap
    \/ r.state \in {"hibernating", "stopping"} /\ x.state = "stopped" /\ (x.snap => r.state = "hibernating")
    \/ x.state = "absent" /\ ~x.snap
    \/ x.state = r.state /\ x.snap = r.snap

KeepsContract == V!Contract!Next /\ (V!Records!Next \/ UNCHANGED V!Held)

LEMMA MovesTogether ==
    ASSUME \A m \in Machines : Moves(rec[m], rec'[m]), V!Records!Next \/ UNCHANGED V!Held
    PROVE  KeepsContract
  BY DEF KeepsContract, Moves, V!Contract!Next, V!Contract!EnsureRunning, V!Contract!Booted, V!Contract!Fails, V!Contract!Stop,
         V!Contract!Stopped, V!Contract!Destroy, V!Contract!Same, V!Contract!From, V!Contract!To, V!Contract!Idle

LEMMA OneMoves ==
    ASSUME DevSizes, DevInv, NEW m \in Machines, NEW r, rec' = [rec EXCEPT ![m] = r], Moves(rec[m], r), r.ip = rec[m].ip
    PROVE  KeepsContract
  <1>1. rec'[m] = r /\ \A n \in Machines \ {m} : rec'[n] = rec[n]
    BY DEF DevInv, DevTypes
  <1>2. \A n \in Machines : Moves(rec[n], rec'[n])
    BY <1>1 DEF Moves
  <1>3. UNCHANGED V!Held
    BY <1>1 DEF V!Held
  <1> QED BY <1>2, <1>3, MovesTogether

LEMMA NoneMoves == ASSUME UNCHANGED rec PROVE KeepsContract
  <1>1. \A n \in Machines : Moves(rec[n], rec'[n])
    BY DEF Moves
  <1>2. UNCHANGED V!Held
    BY DEF V!Held
  <1> QED BY <1>1, <1>2, MovesTogether

LEMMA EnsureMoves == ASSUME DevSizes, DevInv, NEW m \in Machines, V!EnsureReserve(m) PROVE KeepsContract
  <1>1. CASE V!Known(m)
    BY <1>1, NoneMoves DEF V!EnsureReserve
  <1>2. CASE ~V!Known(m)
    <2>1. PICK a \in V!Records!GuestAddrs :
            V!Records!IsLowestFree(a, V!Held) /\ rec' = [rec EXCEPT ![m] = [V!NoRec EXCEPT !.state = "creating", !.ip = a]]
      BY <1>2 DEF V!EnsureReserve
    <2> DEFINE r == [V!NoRec EXCEPT !.state = "creating", !.ip = a]
    <2>2. r.state = "creating" /\ r.ip = a /\ ~r.snap
      BY DEF V!NoRec
    <2>3. rec'[m] = r /\ \A n \in Machines \ {m} : rec'[n] = rec[n]
      BY <2>1 DEF DevInv, DevTypes
    <2> HIDE DEF r
    <2>4. rec[m].state = "absent" /\ rec[m].ip = 0
      BY <1>2, JobFacts DEF V!Known, RecOK
    <2>5. \A n \in Machines : Moves(rec[n], rec'[n])
      BY <2>2, <2>3, <2>4 DEF Moves
    <2>6. V!Held[m] = 0 /\ V!Held' = [V!Held EXCEPT ![m] = a]
      BY <2>2, <2>3, <2>4 DEF V!Held
    <2>7. V!Records!Next
      BY <2>1, <2>6 DEF V!Records!Next, V!Records!Reserve
    <2> QED BY <2>5, <2>7, MovesTogether
  <1> QED BY <1>1, <1>2

LEMMA DeleteMoves == ASSUME DevSizes, DevInv, NEW d \in destroys, V!DestroyDelete(d) PROVE KeepsContract
  <1>1. d.m \in Machines /\ rec' = [rec EXCEPT ![d.m] = V!NoRec] /\ rec \in [Machines -> V!Record]
    BY JobFacts DEF Jobs, V!DestroyDelete, DevInv, DevTypes
  <1>2. V!NoRec.state = "absent" /\ ~V!NoRec.snap /\ V!NoRec.ip = 0
    BY DEF V!NoRec
  <1>3. rec'[d.m] = V!NoRec /\ \A n \in Machines \ {d.m} : rec'[n] = rec[n]
    BY <1>1
  <1>4. \A n \in Machines : Moves(rec[n], rec'[n])
    BY <1>2, <1>3 DEF Moves
  <1>5. V!Held' = [V!Held EXCEPT ![d.m] = 0]
    BY <1>1, <1>2, <1>3 DEF V!Held
  <1>6. V!Records!Next
    BY <1>1, <1>5 DEF V!Records!Next, V!Records!Delete
  <1> QED BY <1>4, <1>6, MovesTogether

LEMMA BootMoves ==
    ASSUME DevSizes, DevInv, NEW e \in ensures, V!EnsureUpdate(e) \/ V!BootStart(e) \/ V!BootFails(e) \/ V!BootPid(e)
    PROVE  KeepsContract
  <1> DEFINE m == e.m
  <1>1. m \in Machines /\ rec[m] \in V!Record /\ EnsureOK(e, rec[m], procs[m], child) /\ e \in EnsureJob
    BY JobFacts DEF Jobs
  <1>2. rec[m].snap \in BOOLEAN /\ e.p \in 0 .. MaxPid /\ e.pc \in {"update", "start", "pid"}
    BY <1>1 DEF V!Record, EnsureJob
  <1>3. V!Known(m)
    BY <1>1 DEF EnsureOK, V!Known
  <1>4. CASE V!EnsureUpdate(e)
    <2> DEFINE r == [rec[m] EXCEPT !.state = "creating", !.snap = FALSE]
    <2>1. rec' = [rec EXCEPT ![m] = r] /\ e.pc = "update"
      BY <1>3, <1>4 DEF V!EnsureUpdate, V!Update
    <2>2. r.state = "creating" /\ ~r.snap /\ r.ip = rec[m].ip
      BY <1>1 DEF V!Record
    <2> HIDE DEF r
    <2>3. Moves(rec[m], r)
      BY <1>1, <2>1, <2>2 DEF Moves, EnsureOK
    <2> QED BY <1>1, <2>1, <2>2, <2>3, OneMoves
  <1>5. CASE V!BootStart(e)
    BY <1>5, NoneMoves DEF V!BootStart
  <1>6. CASE V!BootFails(e)
    <2> DEFINE r == [rec[m] EXCEPT !.state = "error"]
    <2>1. rec' = [rec EXCEPT ![m] = r] /\ e.pc = "start"
      BY <1>3, <1>6 DEF V!BootFails, V!Update
    <2>2. r.state = "error" /\ r.snap = rec[m].snap /\ r.ip = rec[m].ip
      BY <1>1 DEF V!Record
    <2> HIDE DEF r
    <2>3. Moves(rec[m], r)
      BY <1>1, <2>1, <2>2 DEF Moves, EnsureOK
    <2> QED BY <1>1, <2>1, <2>2, <2>3, OneMoves
  <1>7. CASE V!BootPid(e)
    <2> DEFINE r == [rec[m] EXCEPT !.pid = e.p]
    <2>1. rec' = [rec EXCEPT ![m] = r]
      BY <1>3, <1>7, BootPidWrites DEF V!Update
    <2>2. r.state = rec[m].state /\ r.snap = rec[m].snap /\ r.ip = rec[m].ip
      BY <1>1 DEF V!Record
    <2> HIDE DEF r
    <2>3. Moves(rec[m], r)
      BY <2>2 DEF Moves
    <2> QED BY <1>1, <2>1, <2>2, <2>3, OneMoves
  <1> QED BY <1>4, <1>5, <1>6, <1>7

LEMMA FinishMoves ==
    ASSUME DevSizes, DevInv, NEW b \in dboots, V!FinishBoot(b) \/ V!FinishBootKill(b) \/ V!FinishBootFailed(b)
    PROVE  KeepsContract
  <1> DEFINE m == b.m
  <1>1. m \in Machines /\ rec[m] \in V!Record /\ rec[m].state = "creating" /\ ~rec[m].snap
    BY JobFacts DEF Jobs, BootOK, RecOK
  <1>2. CASE V!FinishBoot(b)
    <2> DEFINE r == [rec[m] EXCEPT !.state = "running"]
    <2>1. rec' = [rec EXCEPT ![m] = r]
      BY <1>1, <1>2 DEF V!FinishBoot, V!IfCreating
    <2>2. r.state = "running" /\ r.snap = rec[m].snap /\ r.ip = rec[m].ip
      BY <1>1 DEF V!Record
    <2> HIDE DEF r
    <2>3. Moves(rec[m], r)
      BY <1>1, <2>2 DEF Moves
    <2> QED BY <1>1, <2>1, <2>2, <2>3, OneMoves
  <1>3. CASE V!FinishBootKill(b)
    BY <1>3, NoneMoves DEF V!FinishBootKill
  <1>4. CASE V!FinishBootFailed(b)
    <2> DEFINE r == [rec[m] EXCEPT !.state = "error", !.pid = 0]
    <2>1. rec' = [rec EXCEPT ![m] = r]
      BY <1>1, <1>4 DEF V!FinishBootFailed, V!IfCreating
    <2>2. r.state = "error" /\ r.snap = rec[m].snap /\ r.ip = rec[m].ip
      BY <1>1 DEF V!Record
    <2> HIDE DEF r
    <2>3. Moves(rec[m], r)
      BY <1>1, <2>2 DEF Moves
    <2> QED BY <1>1, <2>1, <2>2, <2>3, OneMoves
  <1> QED BY <1>2, <1>3, <1>4

LEMMA StopMoves ==
    ASSUME DevSizes, DevInv, NEW s \in stops, V!StopMark(s) \/ V!StopTake(s) \/ V!StopTerm(s) \/ V!StopReap(s) \/ V!StopRecord(s)
    PROVE  KeepsContract
  <1> DEFINE m == s.m
  <1>1. m \in Machines /\ rec[m] \in V!Record /\ StopOK(s, rec[m], procs[m], child) /\ s.mode \in V!Modes
    BY JobFacts DEF Jobs, StopJob
  <1>2. V!StopState(s.mode) \in {"hibernating", "stopping"} /\ (s.mode = "hibernate" => V!StopState(s.mode) = "hibernating")
    BY DEF V!StopState
  <1>3. V!Known(m)
    BY <1>1, <1>2 DEF StopOK, V!Known
  <1>4. CASE V!StopMark(s)
    <2> DEFINE r == [rec[m] EXCEPT !.state = V!StopState(s.mode)]
    <2>1. rec' = [rec EXCEPT ![m] = r] /\ s.pc = "mark"
      BY <1>3, <1>4 DEF V!StopMark, V!Update
    <2>2. r.state = V!StopState(s.mode) /\ r.snap = rec[m].snap /\ r.ip = rec[m].ip
      BY <1>1 DEF V!Record
    <2> HIDE DEF r
    <2>3. Moves(rec[m], r)
      BY <1>1, <1>2, <2>1, <2>2 DEF Moves, StopOK
    <2> QED BY <1>1, <2>1, <2>2, <2>3, OneMoves
  <1>5. CASE V!StopTake(s) \/ V!StopTerm(s) \/ V!StopReap(s)
    BY <1>5, NoneMoves DEF V!StopTake, V!StopTerm, V!StopReap
  <1>6. CASE V!StopRecord(s)
    <2> DEFINE h == s.mode = "hibernate"
               r == [rec[m] EXCEPT !.state = "stopped", !.pid = 0, !.snap = h]
    <2>1. rec' = [rec EXCEPT ![m] = r] /\ s.pc = "record"
      BY <1>3, <1>6 DEF V!StopRecord, V!Update
    <2>2. h => V!StopState(s.mode) = "hibernating"
      BY <1>2
    <2> HIDE DEF h
    <2>3. r.state = "stopped" /\ r.snap = h /\ r.ip = rec[m].ip
      BY <1>1 DEF V!Record
    <2> HIDE DEF r
    <2>4. Moves(rec[m], r)
      BY <1>1, <1>2, <2>1, <2>2, <2>3 DEF Moves, StopOK
    <2> QED BY <1>1, <2>1, <2>3, <2>4, OneMoves
  <1> QED BY <1>4, <1>5, <1>6

LEMMA ReattachMoves == ASSUME DevSizes, DevInv, V!Reattach PROVE KeepsContract
  <1>1. ASSUME NEW m \in Machines PROVE Moves(rec[m], rec'[m]) /\ rec'[m].ip = rec[m].ip
    <2> DEFINE r == rec[m]
    <2>1. r \in V!Record /\ rec'[m] = V!Reattached(r) /\ (r.state = "creating" => ~r.snap)
      BY JobFacts DEF V!Reattach, RecOK
    <2> HIDE DEF r
    <2>2. CASE r.state \in {"creating", "running"} /\ V!processAlive(r.pid)
      <3> DEFINE x == [r EXCEPT !.state = "running"]
      <3>1. rec'[m] = x
        BY <2>1, <2>2 DEF V!Reattached
      <3>2. x.snap = r.snap /\ x.ip = r.ip /\ x.state = "running"
        BY <2>1 DEF V!Record
      <3> HIDE DEF x
      <3>3. Moves(r, x)
        BY <2>1, <2>2, <3>2 DEF Moves
      <3> QED BY <3>1, <3>2, <3>3 DEF r
    <2>3. CASE r.state \in {"creating", "running"} /\ ~V!processAlive(r.pid)
      <3> DEFINE x == [r EXCEPT !.state = "error", !.pid = 0]
      <3>1. rec'[m] = x
        BY <2>1, <2>3 DEF V!Reattached
      <3>2. x.snap = r.snap /\ x.ip = r.ip /\ x.state = "error"
        BY <2>1 DEF V!Record
      <3> HIDE DEF x
      <3>3. Moves(r, x)
        BY <2>3, <3>2 DEF Moves
      <3> QED BY <3>1, <3>2, <3>3 DEF r
    <2>4. CASE r.state \notin {"creating", "running"}
      <3>1. rec'[m] = r
        BY <2>1, <2>4 DEF V!Reattached
      <3> QED BY <3>1 DEF Moves, r
    <2> QED BY <2>2, <2>3, <2>4
  <1>2. UNCHANGED V!Held
    BY <1>1 DEF V!Held
  <1> QED BY <1>1, <1>2, MovesTogether

LEMMA DevMoves == ASSUME DevSizes, DevInv, [V!Next]_vvars PROVE KeepsContract
  <1>1. ASSUME NEW m \in Machines, V!EnsureReserve(m) \/ V!StopLoad(m) \/ V!DestroyTake(m) PROVE KeepsContract
    BY <1>1, EnsureMoves, NoneMoves DEF V!StopLoad, V!DestroyTake
  <1>2. ASSUME NEW m \in Machines, V!Ensure(m) PROVE KeepsContract
    BY <1>2, BootMoves DEF V!Ensure
  <1>3. ASSUME NEW m \in Machines, V!Finish(m) PROVE KeepsContract
    BY <1>3, FinishMoves DEF V!Finish
  <1>4. ASSUME NEW m \in Machines, V!Stop(m) PROVE KeepsContract
    BY <1>4, StopMoves DEF V!Stop
  <1>5. ASSUME NEW m \in Machines, V!Destroy(m) PROVE KeepsContract
    <2>1. ASSUME NEW d \in destroys, V!DestroyKill(d) PROVE KeepsContract
      BY <2>1, NoneMoves DEF V!DestroyKill
    <2> QED BY <1>5, <2>1, DeleteMoves DEF V!Destroy
  <1>6. ASSUME (\E p \in V!Pids : V!ChildDies(p)) \/ V!AgentStops \/ UNCHANGED vvars PROVE KeepsContract
    BY <1>6, NoneMoves DEF V!ChildDies, V!AgentStops, vvars
  <1> QED BY <1>1, <1>2, <1>3, <1>4, <1>5, <1>6, ReattachMoves DEF V!Next

-----------------------------------------------------------------------------
(***************************************************************************)
(* Terminals (Terminals).  The ring holds the end of what the shell wrote, *)
(* whichever way its two copies fall (RingIs, from Places); the chunks of  *)
(* a queue follow one another (Chunks), and what FlattenSeq makes of them  *)
(* is the least counterexample away from the stretch they cut (Joined);    *)
(* what a connection has been sent ends where its queue begins, and the    *)
(* queue where the shell has got to while it is subscribed (ConnOK).       *)
(***************************************************************************)
TermSizes == MaxSessions \in Nat /\ MaxChunk \in Nat /\ RingSize \in Nat \ {0}

\* The bytes after the a-th as far as the b-th.
Bytes(a, b) == [i \in 1 .. b - a |-> a + i]

LEMMA BytesAre ==
    ASSUME NEW a \in Nat, NEW b \in Nat, a <= b
    PROVE  Bytes(a, b) \in Seq(Nat) /\ Len(Bytes(a, b)) = b - a /\ \A i \in 1 .. b - a : Bytes(a, b)[i] = a + i
  BY DEF Bytes

LEMMA NoBytes == ASSUME NEW a \in Nat PROVE Bytes(a, a) = <<>>
  BY DEF Bytes

LEMMA BytesJoin ==
    ASSUME NEW a \in Nat, NEW b \in Nat, NEW c \in Nat, a <= b, b <= c
    PROVE  Bytes(a, b) \o Bytes(b, c) = Bytes(a, c)
  BY DEF Bytes

\* Where the ring keeps the x-th byte after its start.
Around(R, x) == IF x < R THEN x ELSE x - R
Pos(x) == Around(RingSize, x)

\* The ring holds the end of n bytes.
RingIs(r, n) ==
    /\ r = [buf |-> r.buf, start |-> r.start, length |-> r.length]
    /\ r.buf \in [0 .. RingSize - 1 -> Nat] /\ r.start \in 0 .. RingSize - 1
    /\ r.length = IF n < RingSize THEN n ELSE RingSize
    /\ \A i \in 1 .. r.length : r.buf[Pos(r.start + i - 1)] = n - r.length + i

\* From its parts.
LEMMA RingMade ==
    ASSUME NEW w, NEW x \in Nat, w = [buf |-> w.buf, start |-> w.start, length |-> w.length], w.buf \in [0 .. RingSize - 1 -> Nat],
           w.start \in 0 .. RingSize - 1, w.length = (IF x < RingSize THEN x ELSE RingSize),
           \A i \in 1 .. w.length : w.buf[Pos(w.start + i - 1)] = x - w.length + i
    PROVE  RingIs(w, x)
  BY DEF RingIs

\* The remainder of a sum of two positions.
LEMMA Modulo == ASSUME TermSizes, NEW x \in Nat, x < 2 * RingSize PROVE x % RingSize = Pos(x) /\ Pos(x) \in 0 .. RingSize - 1
  BY DEF TermSizes, Pos, Around

\* A new ring has the end of nothing.
LEMMA NewRingIs == ASSUME TermSizes PROVE RingIs(T!NewRing, 0)
  BY DEF TermSizes, RingIs, Pos, Around, T!NewRing

\* What an attach reads is the end of the output (ring.snapshot).
LEMMA SnapshotIs == ASSUME TermSizes, NEW r, NEW n \in Nat, RingIs(r, n) PROVE T!Snapshot(r) = Bytes(n - r.length, n) /\ r.length \in 0 .. n
  <1>1. r.length \in 0 .. RingSize /\ r.length \in 0 .. n /\ RingSize \in Nat /\ r.start \in 0 .. RingSize - 1
    BY DEF TermSizes, RingIs
  <1> DEFINE upto == IF r.start + r.length < RingSize THEN r.start + r.length ELSE RingSize
             k == upto - r.start
  <1>2. T!Snapshot(r) = [i \in 1 .. r.length |-> IF i <= k THEN r.buf[r.start + i - 1] ELSE r.buf[i - k - 1]]
    BY DEF T!Snapshot
  <1>3. ASSUME NEW i \in 1 .. r.length PROVE (IF i <= k THEN r.buf[r.start + i - 1] ELSE r.buf[i - k - 1]) = n - r.length + i
    <2>1. Pos(r.start + i - 1) = IF i <= k THEN r.start + i - 1 ELSE i - k - 1
      BY <1>1 DEF Pos, Around
    <2>2. r.buf[Pos(r.start + i - 1)] = n - r.length + i
      BY DEF RingIs
    <2> QED BY <2>1, <2>2
  <1> HIDE DEF k
  <1>4. n - (n - r.length) = r.length
    BY <1>1
  <1> QED BY <1>1, <1>2, <1>3, <1>4 DEF Bytes

\* Byte v of the last l2 of n + k is at j, and that is where a copy of k bytes in two
\* parts puts it, or where it was.
PlaceOf(R, start, len, n, k, end, m, j, v) ==
    /\ j \in 0 .. R - 1 /\ v \in Nat
    /\ \/ j < k - m /\ n + m + (j + 1) = v
       \/ ~(j < k - m) /\ j >= end /\ j < end + m /\ n + (j - end + 1) = v
       \/ /\ ~(j < k - m) /\ ~(j >= end /\ j < end + m)
          /\ v - n + len \in 1 .. len /\ j = Around(R, start + (v - n + len) - 1) /\ n - len + (v - n + len) = v

LEMMA Places ==
    ASSUME NEW R \in Nat \ {0}, NEW start \in 0 .. R - 1, NEW len \in 0 .. R, NEW n \in Nat, len = IF n < R THEN n ELSE R,
           NEW k \in Nat, k < R, NEW end, end = Around(R, start + len), NEW m, m = (IF k < R - end THEN k ELSE R - end),
           NEW l2, l2 = (IF len + k > R THEN R ELSE len + k),
           NEW s2, s2 = (IF len + k > R THEN Around(R, start + (len + k) - R) ELSE start),
           NEW i \in 1 .. l2, NEW j, j = Around(R, s2 + i - 1), NEW v, v = (n + k) - l2 + i
    PROVE  PlaceOf(R, start, len, n, k, end, m, j, v)
  <1>1. end \in 0 .. R - 1 /\ m \in 0 .. k /\ m <= R - end /\ l2 \in 0 .. R /\ s2 \in 0 .. R - 1
    BY DEF Around
  <1>2. l2 = (IF n + k < R THEN n + k ELSE R)
    OBVIOUS
  <1>3. j \in 0 .. R - 1 /\ v \in Nat /\ v <= n + k
    BY <1>1, <1>2 DEF Around
  <1>4. CASE v > n
    <2>1. j = Around(R, end + (v - n) - 1)
      BY <1>1, <1>2, <1>4 DEF Around
    <2>2. CASE v - n <= m
      BY <2>1, <2>2, <1>1, <1>3, <1>4 DEF Around, PlaceOf
    <2>3. CASE v - n > m
      BY <2>1, <2>3, <1>1, <1>3, <1>4 DEF Around, PlaceOf
    <2> QED BY <2>2, <2>3, <1>1, <1>3 DEF PlaceOf
  <1>5. CASE v <= n
    <2>1. v - n + len \in 1 .. len /\ j = Around(R, start + (v - n + len) - 1) /\ n - len + (v - n + len) = v
      BY <1>1, <1>2, <1>5 DEF Around
    <2>2. ~(j < k - m) /\ ~(j >= end /\ j < end + m)
      BY <2>1, <1>1, <1>2, <1>3, <1>5 DEF Around
    <2> QED BY <2>1, <2>2, <1>3 DEF PlaceOf
  <1> QED BY <1>3, <1>4, <1>5

\* A part of a sequence.
LEMMA Part ==
    ASSUME NEW p \in Seq(Nat), NEW a \in Nat \ {0}, NEW b \in Nat, a <= b + 1, b <= Len(p)
    PROVE  SubSeq(p, a, b) \in Seq(Nat) /\ Len(SubSeq(p, a, b)) = b - a + 1 /\ \A i \in 1 .. b - a + 1 : SubSeq(p, a, b)[i] = p[a + i - 1]
  OBVIOUS

\* A copy into the ring.
CopyOf(b, buf, R, at, p) ==
    b \in [0 .. R - 1 -> Nat] /\ \A j \in 0 .. R - 1 : b[j] = IF j >= at /\ j < at + Len(p) THEN p[j - at + 1] ELSE buf[j]

\* CopyIn copies, when there is room.
LEMMA Copied ==
    ASSUME NEW buf, NEW R \in Nat \ {0}, buf \in [0 .. R - 1 -> Nat], NEW at \in 0 .. R - 1, NEW p \in Seq(Nat), at + Len(p) <= R
    PROVE  CopyOf(T!CopyIn(buf, at, p), buf, R, at, p)
  BY DEF T!CopyIn, CopyOf

\* ring.Write of a chunk that fills the ring,
LEMMA WriteWhole ==
    ASSUME TermSizes, NEW r, NEW n \in Nat, RingIs(r, n), NEW k \in Nat, k >= RingSize
    PROVE  RingIs(T!RingWrite(r, Bytes(n, n + k)), n + k)
  <1> DEFINE p == Bytes(n, n + k)
             a == k - RingSize + 1
             t == SubSeq(p, a, k)
  <1>1. RingSize \in Nat \ {0} /\ r.buf \in [0 .. RingSize - 1 -> Nat] /\ a \in Nat \ {0} /\ a <= k + 1 /\ k - a + 1 = RingSize
    <2>1. RingSize \in Nat \ {0}
      BY DEF TermSizes
    <2>2. r.buf \in [0 .. RingSize - 1 -> Nat]
      BY DEF RingIs
    <2> QED BY <2>1, <2>2
  <1>2. Len(p) = k /\ p \in Seq(Nat) /\ \A i \in 1 .. k : p[i] = n + i
    <2>1. n + k \in Nat /\ n <= n + k /\ (n + k) - n = k
      OBVIOUS
    <2>2. p \in Seq(Nat) /\ Len(p) = (n + k) - n /\ \A i \in 1 .. (n + k) - n : p[i] = n + i
      BY <2>1, BytesAre
    <2> QED BY <2>1, <2>2
  <1> HIDE DEF p
  <1>3. t \in Seq(Nat) /\ Len(t) = RingSize /\ \A i \in 1 .. RingSize : t[i] = (n + k) - RingSize + i
    <2>1. t \in Seq(Nat) /\ Len(t) = k - a + 1 /\ \A i \in 1 .. k - a + 1 : t[i] = p[a + i - 1]
      <3>1. k <= Len(p) /\ p \in Seq(Nat) /\ a \in Nat \ {0} /\ a <= k + 1
        BY <1>1, <1>2
      <3> HIDE DEF a
      <3> QED BY <3>1, Part
    <2>2. \A i \in 1 .. RingSize : a + i - 1 \in 1 .. k /\ n + (a + i - 1) = (n + k) - RingSize + i
      BY <1>1
    <2> HIDE DEF t
    <2>3. ASSUME NEW i \in 1 .. RingSize PROVE t[i] = (n + k) - RingSize + i
      <3>1. t[i] = p[a + i - 1]
        BY <1>1, <2>1
      <3> HIDE DEF a
      <3> QED BY <1>2, <2>2, <3>1
    <2> QED BY <1>1, <2>1, <2>3
  <1> HIDE DEF t
  <1>4. T!RingWrite(r, p) = [buf |-> T!CopyIn(r.buf, 0, t), start |-> 0, length |-> RingSize]
    BY <1>2 DEF T!RingWrite, t
  <1> HIDE DEF a
  <1> DEFINE b == T!CopyIn(r.buf, 0, t)
  <1>5. CopyOf(b, r.buf, RingSize, 0, t)
    <2>1. 0 \in 0 .. RingSize - 1 /\ 0 + Len(t) <= RingSize
      BY <1>1, <1>3
    <2> QED BY <1>1, <1>3, <2>1, Copied
  <1> HIDE DEF b
  <1>6. b \in [0 .. RingSize - 1 -> Nat]
    BY <1>5 DEF CopyOf
  <1>7. ASSUME NEW i \in 1 .. RingSize PROVE b[Pos(0 + i - 1)] = (n + k) - RingSize + i
    <2>1. Pos(0 + i - 1) = i - 1 /\ i - 1 \in 0 .. RingSize - 1 /\ i - 1 >= 0 /\ i - 1 < 0 + Len(t) /\ i - 1 - 0 + 1 = i
      BY <1>1, <1>3 DEF Pos, Around
    <2>2. b[i - 1] = t[i]
      <3> DEFINE j == i - 1
      <3>1. j \in 0 .. RingSize - 1 /\ j >= 0 /\ j < 0 + Len(t) /\ j - 0 + 1 = i
        BY <2>1
      <3> HIDE DEF j
      <3>2. b[j] = t[i]
        BY <1>5, <3>1 DEF CopyOf
      <3> QED BY <3>2 DEF j
    <2> QED BY <1>3, <2>1, <2>2
  <1> DEFINE w == T!RingWrite(r, p)
  <1>8. w = [buf |-> b, start |-> 0, length |-> RingSize]
    BY <1>4 DEF b
  <1>9. RingSize = IF n + k < RingSize THEN n + k ELSE RingSize
    BY <1>1
  <1> HIDE DEF w
  <1>10. w.buf = b /\ w.start = 0 /\ w.length = RingSize /\ 0 \in 0 .. RingSize - 1
    BY <1>1, <1>8
  <1>11. RingIs(w, n + k)
    <2>1. \A i \in 1 .. w.length : w.buf[Pos(w.start + i - 1)] = (n + k) - w.length + i
      BY <1>7, <1>10
    <2>2. w = [buf |-> w.buf, start |-> w.start, length |-> w.length]
      BY <1>8, <1>10
    <2>3. w.buf \in [0 .. RingSize - 1 -> Nat] /\ w.start \in 0 .. RingSize - 1 /\ w.length = IF n + k < RingSize THEN n + k ELSE RingSize
      BY <1>6, <1>9, <1>10
    <2> DEFINE x == n + k
    <2>40. x \in Nat
      OBVIOUS
    <2>4. \A i \in 1 .. w.length : w.buf[Pos(w.start + i - 1)] = x - w.length + i
      BY <2>1
    <2>5. w.length = IF x < RingSize THEN x ELSE RingSize
      BY <2>3
    <2> HIDE DEF x
    <2>6. RingIs(w, x)
      BY <2>2, <2>3, <2>40, <2>4, <2>5, RingMade
    <2> QED BY <2>6 DEF x
  <1> QED BY <1>11 DEF w, p

\* of a chunk that does not: up to two copies,
LEMMA WritePart ==
    ASSUME TermSizes, NEW r, NEW n \in Nat, RingIs(r, n), NEW k \in Nat, k < RingSize
    PROVE  RingIs(T!RingWrite(r, Bytes(n, n + k)), n + k)
  <1> DEFINE p == Bytes(n, n + k)
             R == RingSize
             start == r.start
             len == r.length
             end == Around(R, start + len)
             m == IF k < R - end THEN k ELSE R - end
             head == SubSeq(p, 1, m)
             tail == SubSeq(p, m + 1, k)
             b1 == T!CopyIn(r.buf, end, head)
             b2 == T!CopyIn(b1, 0, tail)
             s2 == IF len + k > R THEN Around(R, start + (len + k) - R) ELSE start
             l2 == IF len + k > R THEN R ELSE len + k
             w == T!RingWrite(r, p)
  <1>1. /\ R \in Nat \ {0} /\ r.buf \in [0 .. R - 1 -> Nat] /\ start \in 0 .. R - 1
        /\ len = (IF n < R THEN n ELSE R) /\ len \in 0 .. R
    BY DEF TermSizes, RingIs
  <1>2. Len(p) = k /\ p \in Seq(Nat) /\ \A i \in 1 .. k : p[i] = n + i
    <2>1. n + k \in Nat /\ n <= n + k /\ (n + k) - n = k
      OBVIOUS
    <2>2. p \in Seq(Nat) /\ Len(p) = (n + k) - n /\ \A i \in 1 .. (n + k) - n : p[i] = n + i
      BY <2>1, BytesAre
    <2> QED BY <2>1, <2>2
  <1> HIDE DEF p
  <1>3. end \in 0 .. R - 1 /\ (start + len) % R = end
    <2>1. start + len \in Nat /\ start + len < 2 * R
      BY <1>1
    <2>2. (start + len) % R = Pos(start + len) /\ Pos(start + len) \in 0 .. R - 1
      BY <2>1, Modulo
    <2> QED BY <2>2 DEF Pos
  <1>4. s2 \in 0 .. R - 1 /\ (len + k > R => (start + (len + k) - R) % R = s2)
    <2>1. CASE len + k > R
      <3>1. start + (len + k) - R \in Nat /\ start + (len + k) - R < 2 * R
        BY <1>1, <2>1
      <3>2. (start + (len + k) - R) % R = Pos(start + (len + k) - R) /\ Pos(start + (len + k) - R) \in 0 .. R - 1
        BY <3>1, Modulo
      <3> QED BY <2>1, <3>2 DEF Pos
    <2>2. CASE ~(len + k > R)
      BY <1>1, <2>2
    <2> QED BY <2>1, <2>2
  <1>5. w = [buf |-> b2, start |-> s2, length |-> l2]
    <2>1. ~(Len(p) >= R)
      BY <1>1, <1>2
    <2> DEFINE e == (r.start + r.length) % R
               q == IF Len(p) < R - e THEN Len(p) ELSE R - e
               total == r.length + Len(p)
    <2>2. w = [buf |-> T!CopyIn(T!CopyIn(r.buf, e, SubSeq(p, 1, q)), 0, SubSeq(p, q + 1, Len(p))),
               start |-> IF total > R THEN (r.start + total - R) % R ELSE r.start, length |-> IF total > R THEN R ELSE total]
      BY <2>1 DEF T!RingWrite
    <2>3. e = end /\ Len(p) = k /\ total = len + k
      BY <1>2, <1>3
    <2>4. q = m
      BY <2>3
    <2>5. (IF total > R THEN (r.start + total - R) % R ELSE r.start) = s2 /\ (IF total > R THEN R ELSE total) = l2
      BY <2>3, <1>4
    <2> HIDE DEF e, q, w, total, s2, l2, end, m
    <2> QED BY <2>2, <2>3, <2>4, <2>5
  <1>6. m \in 0 .. k /\ m <= R - end /\ (m < k => m = R - end)
    BY <1>1, <1>3
  <1> HIDE DEF end, m, w, s2, l2
  <1>7. head \in Seq(Nat) /\ Len(head) = m /\ \A i \in 1 .. m : head[i] = n + i
    <2>1. m <= Len(p) /\ 1 <= m + 1 /\ m \in Nat /\ m - 1 + 1 = m
      BY <1>2, <1>6
    <2>2. head \in Seq(Nat) /\ Len(head) = m - 1 + 1 /\ \A i \in 1 .. m - 1 + 1 : head[i] = p[1 + i - 1]
      BY <1>2, <2>1, Part
    <2>3. \A i \in 1 .. m : 1 + i - 1 = i /\ i \in 1 .. k
      BY <1>6
    <2> HIDE DEF head
    <2> QED BY <1>2, <2>1, <2>2, <2>3
  <1>8. tail \in Seq(Nat) /\ Len(tail) = k - m /\ \A i \in 1 .. k - m : tail[i] = n + m + i
    <2>1. m + 1 \in Nat \ {0} /\ m + 1 <= k + 1 /\ k <= Len(p) /\ k - (m + 1) + 1 = k - m
      BY <1>2, <1>6
    <2>2. tail \in Seq(Nat) /\ Len(tail) = k - (m + 1) + 1 /\ \A i \in 1 .. k - (m + 1) + 1 : tail[i] = p[(m + 1) + i - 1]
      BY <1>2, <2>1, Part
    <2>3. \A i \in 1 .. k - m : (m + 1) + i - 1 = m + i /\ m + i \in 1 .. k /\ n + (m + i) = n + m + i
      BY <1>6
    <2> HIDE DEF tail
    <2>4. ASSUME NEW i \in 1 .. k - m PROVE tail[i] = n + m + i
      BY <1>2, <2>1, <2>2, <2>3
    <2> QED BY <2>1, <2>2, <2>4
  <1> HIDE DEF head, tail, R, start, len
  <1>9. CopyOf(b1, r.buf, R, end, head)
    <2>1. end + Len(head) <= R
      BY <1>1, <1>3, <1>6, <1>7
    <2> QED BY <1>1, <1>3, <1>7, <2>1, Copied
  <1> HIDE DEF b1
  <1>10. CopyOf(b2, b1, R, 0, tail)
    <2>1. 0 + Len(tail) <= R /\ 0 \in 0 .. R - 1
      BY <1>1, <1>6, <1>8 DEF R
    <2>2. b1 \in [0 .. R - 1 -> Nat]
      BY <1>9 DEF CopyOf
    <2> QED BY <1>1, <1>8, <2>1, <2>2, Copied
  <1> HIDE DEF b2
  <1>11. ASSUME NEW i \in 1 .. l2 PROVE b2[Pos(s2 + i - 1)] = (n + k) - l2 + i
    <2> DEFINE v == (n + k) - l2 + i
               j == Around(R, s2 + i - 1)
    <2>1. /\ j \in 0 .. R - 1 /\ v \in Nat
          /\ \/ j < k - m /\ n + m + (j + 1) = v
             \/ ~(j < k - m) /\ j >= end /\ j < end + m /\ n + (j - end + 1) = v
             \/ /\ ~(j < k - m) /\ ~(j >= end /\ j < end + m)
                /\ v - n + len \in 1 .. len /\ j = Around(R, start + (v - n + len) - 1) /\ n - len + (v - n + len) = v
      <3>1. k < R
        BY DEF R
      <3>2. PlaceOf(R, start, len, n, k, end, m, j, v)
        BY <1>1, <1>3, <3>1, Places DEF end, m, s2, l2
      <3> QED BY <3>2 DEF PlaceOf
    <2> HIDE DEF v, j
    <2>2. b2[j] = IF j >= 0 /\ j < 0 + (k - m) THEN tail[j - 0 + 1] ELSE b1[j]
      BY <1>8, <1>10, <2>1 DEF CopyOf
    <2>3. b1[j] = IF j >= end /\ j < end + m THEN head[j - end + 1] ELSE r.buf[j]
      BY <1>7, <1>9, <2>1 DEF CopyOf
    <2>4. CASE j < k - m /\ n + m + (j + 1) = v
      <3>1. j >= 0 /\ j < 0 + (k - m) /\ j - 0 + 1 = j + 1 /\ j + 1 \in 1 .. k - m
        BY <1>1, <1>6, <2>1, <2>4
      <3>2. b2[j] = tail[j + 1]
        BY <2>2, <3>1
      <3>3. b2[j] = v
        BY <1>8, <2>4, <3>1, <3>2
      <3> QED BY <3>3 DEF v, j, Pos, R
    <2>5. CASE ~(j < k - m) /\ j >= end /\ j < end + m /\ n + (j - end + 1) = v
      <3>1. j - end + 1 \in 1 .. m /\ ~(j < 0 + (k - m))
        BY <1>1, <1>3, <1>6, <2>1, <2>5
      <3>2. b2[j] = head[j - end + 1]
        BY <2>2, <2>3, <2>5, <3>1
      <3>3. b2[j] = v
        BY <1>7, <2>5, <3>1, <3>2
      <3> QED BY <3>3 DEF v, j, Pos, R
    <2>6. CASE /\ ~(j < k - m) /\ ~(j >= end /\ j < end + m)
               /\ v - n + len \in 1 .. len /\ j = Around(R, start + (v - n + len) - 1) /\ n - len + (v - n + len) = v
      <3>1. ~(j < 0 + (k - m))
        BY <1>6, <2>1, <2>6
      <3>2. b2[j] = r.buf[j]
        BY <2>2, <2>3, <2>6, <3>1
      <3> DEFINE x == v - n + len
      <3>3. x \in 1 .. len /\ j = Pos(start + x - 1) /\ n - len + x = v
        BY <2>6 DEF Pos, R
      <3> HIDE DEF x
      <3>4. r.buf[Pos(start + x - 1)] = n - len + x
        BY <3>3 DEF RingIs, start, len
      <3>5. b2[j] = v
        BY <3>2, <3>3, <3>4
      <3> QED BY <3>5 DEF v, j, Pos, R
    <2> QED BY <2>1, <2>4, <2>5, <2>6
  <1>12. w.buf = b2 /\ w.start = s2 /\ w.length = l2 /\ w = [buf |-> w.buf, start |-> w.start, length |-> w.length]
    BY <1>5
  <1>13. b2 \in [0 .. R - 1 -> Nat]
    BY <1>10 DEF CopyOf
  <1>14. l2 = IF n + k < R THEN n + k ELSE R
    BY <1>1 DEF l2
  <1>15. RingIs(w, n + k)
    <2>1. \A i \in 1 .. w.length : w.buf[Pos(w.start + i - 1)] = (n + k) - w.length + i
      BY <1>11, <1>12
    <2>2. w.buf \in [0 .. R - 1 -> Nat] /\ w.start \in 0 .. R - 1 /\ w.length = IF n + k < R THEN n + k ELSE R
      BY <1>4, <1>12, <1>13, <1>14
    <2> DEFINE x == n + k
    <2>30. x \in Nat
      OBVIOUS
    <2>3. \A i \in 1 .. w.length : w.buf[Pos(w.start + i - 1)] = x - w.length + i
      BY <2>1
    <2>4. w.buf \in [0 .. RingSize - 1 -> Nat] /\ w.start \in 0 .. RingSize - 1 /\ w.length = IF x < RingSize THEN x ELSE RingSize
      BY <2>2 DEF R
    <2> HIDE DEF x
    <2>5. RingIs(w, x)
      BY <1>12, <2>30, <2>3, <2>4, RingMade
    <2> QED BY <2>5 DEF x
  <1> QED BY <1>15 DEF w, p

\* Natural numbers have a least one.
LEMMA LeastNat == ASSUME NEW S \in SUBSET Nat, S # {} PROVE \E x \in S : \A y \in S : x =< y
  <1> DEFINE R == {ss \in Nat \X Nat : ss[1] < ss[2]}
  <1>1. IsWellFoundedOn(R, Nat)
    BY NatLessThanWellFounded DEF OpToRel
  <1> HIDE DEF R
  <1>2. PICK x \in S : \A y \in S : ~(<<y, x>> \in R)
    BY <1>1, WFMin
  <1>3. \A y \in S : x =< y
    <2>1. \A y \in S : ~(y < x)
      BY <1>2 DEF R
    <2> QED BY <1>2, <2>1
  <1> QED BY <1>3

\* and so of any chunk.
LEMMA RingWrites ==
    ASSUME TermSizes, NEW r, NEW n \in Nat, RingIs(r, n), NEW k \in Nat
    PROVE  RingIs(T!RingWrite(r, Bytes(n, n + k)), n + k)
  <1>1. k >= RingSize \/ k < RingSize
    BY DEF TermSizes
  <1> QED BY <1>1, WriteWhole, WritePart

\* The chunks of a queue, one after another, from the a-th byte as far as the b-th.
Cuts(E, q, a, b) ==
    /\ E \in [0 .. Len(q) -> Nat] /\ E[0] = a /\ E[Len(q)] = b
    /\ \A i, j \in 0 .. Len(q) : i <= j => E[i] <= E[j]
    /\ \A i \in 1 .. Len(q) : q[i] = Bytes(E[i - 1], E[i])

Chunks(q, a, b) == q \in Seq(Seq(Nat)) /\ \E E : Cuts(E, q, a, b)

\* An empty queue ends where it begins,
LEMMA NoChunks == ASSUME NEW a \in Nat PROVE Chunks(<<>>, a, a) /\ \A b \in Nat : Chunks(<<>>, a, b) => b = a
  <1>1. <<>> \in Seq(Seq(Nat)) /\ Len(<<>>) = 0
    OBVIOUS
  <1>2. Cuts([i \in 0 .. 0 |-> a], <<>>, a, a)
    BY <1>1 DEF Cuts
  <1>3. \A E, b : Cuts(E, <<>>, a, b) => b = a
    BY <1>1 DEF Cuts
  <1> QED BY <1>1, <1>2, <1>3 DEF Chunks

\* any queue no earlier,
LEMMA InOrder == ASSUME NEW q, NEW a \in Nat, NEW b \in Nat, Chunks(q, a, b) PROVE a <= b
  <1>1. Len(q) \in Nat /\ 0 \in 0 .. Len(q) /\ Len(q) \in 0 .. Len(q) /\ 0 <= Len(q)
    BY DEF Chunks
  <1> QED BY <1>1 DEF Chunks, Cuts

\* with one chunk more it goes on to the end of that chunk,
LEMMA ChunkAdded ==
    ASSUME NEW q, NEW a \in Nat, NEW b \in Nat, NEW c \in Nat, b <= c, Chunks(q, a, b)
    PROVE  Chunks(Append(q, Bytes(b, c)), a, c)
  <1> DEFINE w == Append(q, Bytes(b, c))
             n == Len(q)
  <1>1. q \in Seq(Seq(Nat)) /\ n \in Nat /\ Bytes(b, c) \in Seq(Nat)
    <2>1. q \in Seq(Seq(Nat))
      BY DEF Chunks
    <2>2. Bytes(b, c) \in Seq(Nat)
      BY BytesAre
    <2> QED BY <2>1, <2>2
  <1>2. w \in Seq(Seq(Nat)) /\ Len(w) = n + 1 /\ w[n + 1] = Bytes(b, c) /\ \A i \in 1 .. n : w[i] = q[i]
    BY <1>1
  <1> HIDE DEF w
  <1>3. PICK E : Cuts(E, q, a, b)
    BY DEF Chunks
  <1> DEFINE F == [i \in 0 .. n + 1 |-> IF i = n + 1 THEN c ELSE E[i]]
  <1>4. E \in [0 .. n -> Nat] /\ E[0] = a /\ E[n] = b /\ (\A i, j \in 0 .. n : i <= j => E[i] <= E[j])
        /\ \A i \in 1 .. n : q[i] = Bytes(E[i - 1], E[i])
    BY <1>3 DEF Cuts
  <1> HIDE DEF n
  <1>5. F \in [0 .. n + 1 -> Nat] /\ F[0] = a /\ F[n + 1] = c /\ F[n] = b /\ \A i \in 0 .. n : F[i] = E[i]
    BY <1>1, <1>4
  <1> HIDE DEF F
  <1>6. ASSUME NEW i \in 0 .. n + 1, NEW j \in 0 .. n + 1, i <= j PROVE F[i] <= F[j]
    <2>1. CASE j = n + 1
      <3>1. CASE i = n + 1
        BY <2>1, <3>1, <1>5
      <3>2. CASE i \in 0 .. n
        <4>1. E[i] <= E[n] /\ n \in 0 .. n
          BY <1>1, <1>4, <3>2
        <4>2. F[i] = E[i] /\ E[i] \in Nat
          BY <1>4, <1>5, <3>2
        <4> QED BY <1>4, <1>5, <2>1, <4>1, <4>2
      <3> QED BY <1>1, <3>1, <3>2
    <2>2. CASE j # n + 1
      <3>1. i \in 0 .. n /\ j \in 0 .. n
        BY <1>1, <1>6, <2>2
      <3> QED BY <1>4, <1>5, <1>6, <3>1
    <2> QED BY <2>1, <2>2
  <1>7. ASSUME NEW i \in 1 .. n + 1 PROVE w[i] = Bytes(F[i - 1], F[i])
    <2>1. CASE i = n + 1
      <3>1. i - 1 = n
        BY <1>1, <2>1
      <3> QED BY <1>2, <1>5, <2>1, <3>1
    <2>2. CASE i # n + 1
      <3>1. i \in 1 .. n /\ i - 1 \in 0 .. n /\ i \in 0 .. n
        BY <1>1, <2>2
      <3> QED BY <1>2, <1>4, <1>5, <3>1
    <2> QED BY <2>1, <2>2
  <1>8. Cuts(F, w, a, c)
    BY <1>2, <1>5, <1>6, <1>7 DEF Cuts
  <1>9. Chunks(w, a, c)
    BY <1>2, <1>8 DEF Chunks
  <1> QED BY <1>9 DEF w

\* and without its first it begins where that one ends.
LEMMA ChunkTaken ==
    ASSUME NEW q, NEW a \in Nat, NEW b \in Nat, q # <<>>, Chunks(q, a, b)
    PROVE  \E m \in Nat : a <= m /\ Head(q) = Bytes(a, m) /\ Chunks(Tail(q), m, b)
  <1> DEFINE n == Len(q)
             w == Tail(q)
  <1>1. q \in Seq(Seq(Nat)) /\ n \in Nat /\ n # 0 /\ n - 1 \in Nat
    BY DEF Chunks
  <1>2. w \in Seq(Seq(Nat)) /\ Len(w) = n - 1 /\ Head(q) = q[1] /\ \A i \in 1 .. n - 1 : w[i] = q[i + 1]
    BY <1>1
  <1> HIDE DEF w
  <1>3. PICK E : Cuts(E, q, a, b)
    BY DEF Chunks
  <1>4. E \in [0 .. n -> Nat] /\ E[0] = a /\ E[n] = b /\ (\A i, j \in 0 .. n : i <= j => E[i] <= E[j])
        /\ \A i \in 1 .. n : q[i] = Bytes(E[i - 1], E[i])
    BY <1>3 DEF Cuts
  <1> HIDE DEF n
  <1> DEFINE F == [i \in 0 .. n - 1 |-> E[i + 1]]
             m == E[1]
  <1>5. 0 \in 0 .. n /\ 1 \in 0 .. n /\ 1 \in 1 .. n /\ 1 - 1 = 0
    BY <1>1
  <1>6. m \in Nat /\ a <= m /\ Head(q) = Bytes(a, m)
    BY <1>2, <1>4, <1>5
  <1>7. F \in [0 .. n - 1 -> Nat] /\ F[0] = m /\ F[n - 1] = b /\ \A i \in 0 .. n - 1 : F[i] = E[i + 1] /\ i + 1 \in 0 .. n
    <2>1. \A i \in 0 .. n - 1 : i + 1 \in 0 .. n
      BY <1>1
    <2>2. 0 \in 0 .. n - 1 /\ n - 1 \in 0 .. n - 1 /\ (n - 1) + 1 = n /\ 0 + 1 = 1
      BY <1>1
    <2> QED BY <1>4, <2>1, <2>2
  <1> HIDE DEF F, m
  <1>8. \A i, j \in 0 .. n - 1 : i <= j => F[i] <= F[j]
    <2>1. \A i, j \in 0 .. n - 1 : i <= j => i + 1 <= j + 1
      BY <1>1
    <2> QED BY <1>4, <1>7, <2>1
  <1>9. ASSUME NEW i \in 1 .. n - 1 PROVE w[i] = Bytes(F[i - 1], F[i])
    <2>1. i + 1 \in 1 .. n /\ (i + 1) - 1 = i /\ i - 1 \in 0 .. n - 1 /\ i \in 0 .. n - 1 /\ (i - 1) + 1 = i
      BY <1>1
    <2>2. q[i + 1] = Bytes(E[i], E[i + 1])
      BY <1>4, <2>1
    <2>3. F[i - 1] = E[i] /\ F[i] = E[i + 1]
      BY <1>7, <2>1
    <2> QED BY <1>2, <2>2, <2>3
  <1>10. Chunks(w, m, b)
    <2>1. Cuts(F, w, m, b)
      BY <1>2, <1>7, <1>8, <1>9 DEF Cuts
    <2> QED BY <1>2, <2>1 DEF Chunks
  <1> QED BY <1>6, <1>10 DEF w

\* Its chunks joined are the whole stretch.
LEMMA Joined == ASSUME NEW q, NEW a \in Nat, NEW b \in Nat, Chunks(q, a, b) PROVE T!FlattenSeq(q) = Bytes(a, b)
  <1> DEFINE n == Len(q)
             f == CHOOSE f : f = [i \in 1 .. n |-> IF i = 1 THEN q[i] ELSE f[i - 1] \o q[i]]
  <1>1. q \in Seq(Seq(Nat)) /\ n \in Nat
    BY DEF Chunks
  <1>2. PICK E : Cuts(E, q, a, b)
    BY DEF Chunks
  <1>3. E \in [0 .. n -> Nat] /\ E[0] = a /\ E[n] = b /\ (\A i, j \in 0 .. n : i <= j => E[i] <= E[j])
        /\ \A i \in 1 .. n : q[i] = Bytes(E[i - 1], E[i])
    BY <1>2 DEF Cuts
  <1>4. CASE n = 0
    <2>1. q = <<>> /\ b = a
      BY <1>1, <1>3, <1>4
    <2> QED BY <1>4, <2>1, NoBytes DEF T!FlattenSeq
  <1>5. CASE n # 0
    <2>1. T!FlattenSeq(q) = f[n]
      BY <1>5 DEF T!FlattenSeq
    <2> DEFINE g == [i \in 1 .. n |-> Bytes(a, E[i])]
               Step(h) == h = [i \in 1 .. n |-> IF i = 1 THEN q[i] ELSE h[i - 1] \o q[i]]
    <2>2. ASSUME NEW i \in 1 .. n PROVE g[i] = IF i = 1 THEN q[i] ELSE g[i - 1] \o q[i]
      <3>1. CASE i = 1
        <4>1. q[1] = Bytes(E[1 - 1], E[1]) /\ 1 - 1 = 0
          BY <1>3, <3>1
        <4> QED BY <1>3, <3>1, <4>1
      <3>2. CASE i # 1
        <4>1. i - 1 \in 1 .. n /\ i - 1 \in 0 .. n /\ i \in 0 .. n /\ 0 \in 0 .. n /\ 0 <= i - 1 /\ i - 1 <= i
          BY <1>1, <3>2
        <4>2. a <= E[i - 1] /\ E[i - 1] <= E[i] /\ E[i - 1] \in Nat /\ E[i] \in Nat
          BY <1>3, <4>1
        <4>3. Bytes(a, E[i - 1]) \o Bytes(E[i - 1], E[i]) = Bytes(a, E[i])
          BY <4>2, BytesJoin
        <4>4. g[i] = Bytes(a, E[i]) /\ g[i - 1] = Bytes(a, E[i - 1]) /\ q[i] = Bytes(E[i - 1], E[i])
          BY <1>3, <4>1
        <4> QED BY <3>2, <4>3, <4>4
      <3> QED BY <3>1, <3>2
    <2>3. Step(g)
      BY <2>2
    <2>4. Step(f)
      BY <2>3
    <2> HIDE DEF g, f
    <2> DEFINE Bad == {i \in 1 .. n : f[i] # g[i]}
    <2>5. ASSUME Bad # {} PROVE FALSE
      <3>1. PICK i \in Bad : \A j \in Bad : i <= j
        <4>1. Bad \in SUBSET Nat
          OBVIOUS
        <4> HIDE DEF Bad
        <4> QED BY <2>5, <4>1, LeastNat
      <3>2. i \in 1 .. n /\ f[i] # g[i]
        BY <3>1
      <3>3. CASE i = 1
        BY <2>3, <2>4, <3>2, <3>3
      <3>4. CASE i # 1
        <4>1. i - 1 \in 1 .. n /\ ~(i <= i - 1)
          BY <1>1, <3>2, <3>4
        <4>2. f[i - 1] = g[i - 1]
          BY <3>1, <4>1
        <4>3. f[i] = f[i - 1] \o q[i]
          BY <2>4, <3>2, <3>4
        <4>4. g[i] = g[i - 1] \o q[i]
          BY <2>3, <3>2, <3>4
        <4> QED BY <3>2, <4>2, <4>3, <4>4
      <3> QED BY <3>3, <3>4
    <2>6. n \in 1 .. n
      BY <1>1, <1>5
    <2>7. f[n] = g[n]
      BY <2>5, <2>6
    <2> QED BY <1>3, <2>1, <2>6, <2>7 DEF g
  <1> QED BY <1>4, <1>5

ConnRec == [pc : {"idle", "got", "attached", "pumping", "exit"}, sess : 0 .. MaxSessions, queue : Seq(Seq(Nat)),
            lag : BOOLEAN, gone : BOOLEAN, replay : Seq(Nat), got : Seq(Nat)]

\* What a connection has been sent, or will be first.
Seen(r) == IF r.pc = "attached" THEN r.replay ELSE r.got

\* It and what waits are the output after the a-th byte as far as the b-th.
Shows(r, a, m, b) == a <= m /\ (a = 0 \/ a < m) /\ Seen(r) = Bytes(a, m) /\ Chunks(r.queue, m, b)

\* A connection, given the subscriptions, the bytes written and the sessions' lives.
ConnOK(c, r, sb, wr, lf) ==
    /\ r.pc # "idle" => r.sess \in T!Sessions
    /\ \A s \in T!Sessions : c \in sb[s] => r.pc \in {"attached", "pumping"} /\ r.sess = s
    /\ r.pc \in {"attached", "pumping"} =>
           /\ r.lag \/ c \in sb[r.sess]
           /\ \E a, m, b \in Nat : Shows(r, a, m, b) /\ (c \in sb[r.sess] => b = wr[r.sess])
    /\ r.pc = "got" => r.queue = <<>> /\ ~r.lag
    /\ r.pc = "exit" => lf[r.sess] = "done" /\ (~r.lag /\ wr[r.sess] > 0 => r.got # <<>> /\ T!Last(r.got) = wr[r.sess])

TermTypes ==
    /\ registry \in 0 .. MaxSessions /\ spawned \in 0 .. MaxSessions /\ registry <= spawned
    /\ life \in [T!Sessions -> {"none", "live", "exited", "done"}] /\ written \in [T!Sessions -> Nat]
    /\ DOMAIN rings = T!Sessions /\ subs \in [T!Sessions -> SUBSET Callers] /\ conn \in [Callers -> ConnRec]

\* A session that runs is the one registered.
Registered ==
    /\ \A s \in T!Sessions : life[s] # "none" => s <= spawned
    /\ \A s \in T!Sessions : s # registry => life[s] \in {"none", "done"}

TermInv ==
    /\ TermTypes /\ Registered
    /\ \A s \in T!Sessions : RingIs(rings[s], written[s])
    /\ \A c \in Callers : ConnOK(c, conn[c], subs, written, life)

LEMMA TermInit == ASSUME TermSizes, T!Init PROVE TermInv
  <1>1. <<>> \in Seq(Seq(Nat)) /\ <<>> \in Seq(Nat)
    OBVIOUS
  <1>2. TermTypes
    BY <1>1 DEF TermSizes, T!Init, TermTypes, ConnRec, T!Idle
  <1>3. Registered
    BY DEF T!Init, Registered
  <1>4. \A s \in T!Sessions : RingIs(rings[s], written[s])
    BY NewRingIs DEF T!Init
  <1>5. \A c \in Callers : ConnOK(c, conn[c], subs, written, life)
    BY DEF T!Init, ConnOK, T!Idle
  <1> QED BY <1>2, <1>3, <1>4, <1>5 DEF TermInv

\* A step of one connection: what it leaves of the others.
LEMMA OtherConns ==
    ASSUME TermInv, NEW c \in Callers, NEW q, conn' = [conn EXCEPT ![c] = q],
           \A s \in T!Sessions : \A d \in Callers \ {c} : d \in subs'[s] <=> d \in subs[s],
           written' = written, \A s \in T!Sessions : life[s] = "done" => life'[s] = "done"
    PROVE  \A d \in Callers \ {c} : ConnOK(d, conn'[d], subs', written', life')
  <1> SUFFICES ASSUME NEW d \in Callers \ {c} PROVE ConnOK(d, conn'[d], subs', written', life')
    OBVIOUS
  <1>1. conn'[d] = conn[d]
    BY DEF TermInv, TermTypes
  <1>2. ConnOK(d, conn[d], subs, written, life)
    BY DEF TermInv
  <1> QED BY <1>1, <1>2 DEF ConnOK

LEMMA ConnStep ==
    ASSUME TermInv, NEW c \in Callers, NEW q, q \in ConnRec, conn' = [conn EXCEPT ![c] = q],
           \A s \in T!Sessions : \A d \in Callers \ {c} : d \in subs'[s] <=> d \in subs[s],
           subs' \in [T!Sessions -> SUBSET Callers], written' = written, rings' = rings,
           registry' \in 0 .. MaxSessions, spawned' \in 0 .. MaxSessions, registry' <= spawned',
           life' \in [T!Sessions -> {"none", "live", "exited", "done"}], \A s \in T!Sessions : life[s] = "done" => life'[s] = "done",
           Registered', ConnOK(c, q, subs', written', life')
    PROVE  TermInv'
  <1>1. TermTypes'
    BY DEF TermInv, TermTypes
  <1>2. \A d \in Callers \ {c} : ConnOK(d, conn'[d], subs', written', life')
    BY OtherConns
  <1>3. conn'[c] = q
    BY DEF TermInv, TermTypes
  <1>4. \A d \in Callers : ConnOK(d, conn'[d], subs', written', life')
    BY <1>2, <1>3
  <1> QED BY <1>1, <1>4 DEF TermInv

\* The same when no session begins or ends.
LEMMA ConnMoves ==
    ASSUME TermInv, NEW c \in Callers, NEW q, q \in ConnRec, conn' = [conn EXCEPT ![c] = q],
           \A s \in T!Sessions : \A d \in Callers \ {c} : d \in subs'[s] <=> d \in subs[s],
           subs' \in [T!Sessions -> SUBSET Callers], UNCHANGED <<registry, spawned, life, written, rings>>,
           ConnOK(c, q, subs', written, life)
    PROVE  TermInv'
  <1>1. Registered'
    BY DEF TermInv, Registered
  <1> QED BY <1>1, ConnStep DEF TermInv, TermTypes

\* What is known of a connection.
LEMMA ConnIs ==
    ASSUME TermInv, NEW c \in Callers
    PROVE  conn[c] \in ConnRec /\ ConnOK(c, conn[c], subs, written, life)
           /\ (conn[c].pc # "idle" => conn[c].sess \in T!Sessions)
  BY DEF TermInv, TermTypes, ConnOK

\* Each action of a connection,
LEMMA EndedKeeps == ASSUME TermSizes, TermInv, NEW c \in Callers, conn[c].pc # "idle", T!Ended(c), UNCHANGED <<registry, spawned, life, written, rings>> PROVE TermInv'
  <1>1. T!Idle \in ConnRec
    <2>1. <<>> \in Seq(Seq(Nat)) /\ <<>> \in Seq(Nat)
      OBVIOUS
    <2> QED BY <2>1 DEF TermSizes, T!Idle, ConnRec
  <1>2. conn[c].sess \in T!Sessions
    BY ConnIs
  <1>3. subs' = [subs EXCEPT ![conn[c].sess] = @ \ {c}] /\ subs \in [T!Sessions -> SUBSET Callers] /\ conn' = [conn EXCEPT ![c] = T!Idle]
    BY DEF T!Ended, T!Detach, TermInv, TermTypes
  <1>4. \A s \in T!Sessions : c \notin subs'[s]
    BY <1>2, <1>3, ConnIs DEF ConnOK
  <1>5. ConnOK(c, T!Idle, subs', written, life)
    BY <1>4 DEF ConnOK, T!Idle
  <1>6. subs' \in [T!Sessions -> SUBSET Callers] /\ \A s \in T!Sessions : \A d \in Callers \ {c} : d \in subs'[s] <=> d \in subs[s]
    BY <1>2, <1>3
  <1> QED BY <1>1, <1>3, <1>5, <1>6, ConnMoves

LEMMA GetOrCreateKeeps == ASSUME TermSizes, TermInv, NEW c \in Callers, T!GetOrCreate(c) PROVE TermInv'
  <1> DEFINE q == [T!Idle EXCEPT !.pc = "got", !.sess = registry']
  <1>1. registry' \in T!Sessions /\ registry' \in 0 .. MaxSessions /\ spawned' \in 0 .. MaxSessions /\ registry' <= spawned'
        /\ life' \in [T!Sessions -> {"none", "live", "exited", "done"}] /\ Registered'
        /\ \A s \in T!Sessions : life[s] = "done" => life'[s] = "done"
    <2>1. CASE registry # 0
      BY <2>1 DEF T!GetOrCreate, TermInv, TermTypes, Registered, T!Sessions, TermSizes
    <2>2. CASE registry = 0
      <3>1. spawned < MaxSessions /\ spawned' = spawned + 1 /\ registry' = spawned + 1 /\ life' = [life EXCEPT ![spawned + 1] = "live"]
        BY <2>2 DEF T!GetOrCreate, T!NewSession
      <3>2. spawned \in Nat /\ spawned + 1 \in T!Sessions /\ life \in [T!Sessions -> {"none", "live", "exited", "done"}]
        BY <3>1 DEF TermInv, TermTypes, T!Sessions, TermSizes
      <3>3. life[spawned + 1] = "none"
        BY <3>2 DEF TermInv, Registered
      <3>4. \A s \in T!Sessions : life[s] # "none" => s <= spawned
        BY DEF TermInv, Registered
      <3>5. \A s \in T!Sessions : s # 0 /\ s \in Nat
        BY DEF T!Sessions
      <3>6. \A s \in T!Sessions : life[s] \in {"none", "done"}
        BY <2>2, <3>5 DEF TermInv, Registered
      <3>7. \A s \in T!Sessions : life'[s] = IF s = spawned + 1 THEN "live" ELSE life[s]
        BY <3>1, <3>2
      <3>8. Registered'
        BY <3>1, <3>2, <3>4, <3>5, <3>6, <3>7 DEF Registered
      <3> QED BY <3>1, <3>2, <3>3, <3>7, <3>8 DEF T!Sessions, TermSizes
    <2> QED BY <2>1, <2>2
  <1>2. q \in ConnRec
    <2>1. <<>> \in Seq(Seq(Nat)) /\ <<>> \in Seq(Nat)
      OBVIOUS
    <2> QED BY <1>1, <2>1 DEF T!Idle, ConnRec
  <1>3. q.pc = "got" /\ q.sess = registry' /\ q.queue = <<>> /\ q.lag = FALSE
    BY DEF T!Idle
  <1>4. conn' = [conn EXCEPT ![c] = q] /\ UNCHANGED <<written, rings, subs>> /\ conn[c].pc \in {"idle", "exit"}
    BY DEF T!GetOrCreate
  <1> HIDE DEF q
  <1>5. ConnOK(c, q, subs', written', life')
    BY <1>1, <1>3, <1>4, ConnIs DEF ConnOK
  <1>6. subs' \in [T!Sessions -> SUBSET Callers]
    BY <1>4 DEF TermInv, TermTypes
  <1> QED BY <1>1, <1>2, <1>4, <1>5, <1>6, ConnStep

LEMMA AttachKeeps == ASSUME TermSizes, TermInv, NEW c \in Callers, T!Attach(c) PROVE TermInv'
  <1> DEFINE s == conn[c].sess
  <1>1. conn[c].pc = "got" /\ s \in T!Sessions /\ conn[c] \in ConnRec /\ ConnOK(c, conn[c], subs, written, life)
    BY ConnIs DEF T!Attach
  <1>2. CASE life[s] # "live"
    <2>1. T!Idle \in ConnRec
      <3>1. <<>> \in Seq(Seq(Nat)) /\ <<>> \in Seq(Nat)
        OBVIOUS
      <3> QED BY <3>1 DEF TermSizes, T!Idle, ConnRec
    <2>2. conn' = [conn EXCEPT ![c] = T!Idle] /\ UNCHANGED <<registry, spawned, life, written, rings, subs>>
      BY <1>2 DEF T!Attach
    <2>3. ConnOK(c, T!Idle, subs', written, life)
      BY <1>1, <2>2 DEF ConnOK, T!Idle
    <2>4. subs' \in [T!Sessions -> SUBSET Callers]
      BY <2>2 DEF TermInv, TermTypes
    <2> QED BY <2>1, <2>2, <2>3, <2>4, ConnMoves
  <1>3. CASE life[s] = "live"
    <2> DEFINE q == [conn[c] EXCEPT !.pc = "attached", !.replay = T!Snapshot(rings[s])]
               n == written[s]
               k == rings[s].length
    <2>1. conn' = [conn EXCEPT ![c] = q] /\ subs' = [subs EXCEPT ![s] = @ \cup {c}] /\ UNCHANGED <<registry, spawned, life, written, rings>>
      BY <1>3 DEF T!Attach
    <2>2. n \in Nat /\ T!Snapshot(rings[s]) = Bytes(n - k, n) /\ k \in 0 .. n /\ (n > 0 => k > 0)
      <3>1. n \in Nat /\ RingIs(rings[s], n)
        BY <1>1 DEF TermInv, TermTypes
      <3>2. n > 0 => k > 0
        BY <3>1 DEF RingIs, TermSizes
      <3> QED BY <3>1, <3>2, SnapshotIs
    <2>3. q.pc = "attached" /\ q.sess = s /\ q.queue = <<>> /\ ~q.lag /\ q.replay = Bytes(n - k, n)
      BY <1>1, <2>2 DEF ConnOK, ConnRec
    <2>4. q \in ConnRec
      <3>1. Bytes(n - k, n) \in Seq(Nat)
        <4>1. n - k \in Nat /\ n - k <= n
          BY <2>2
        <4> QED BY <2>2, <4>1, BytesAre
      <3> QED BY <1>1, <2>2, <3>1 DEF ConnRec
    <2>5. Shows(q, n - k, n, n) /\ n - k \in Nat
      <3>1. Chunks(q.queue, n, n)
        BY <2>2, <2>3, NoChunks
      <3>2. n - k \in Nat /\ n - k <= n /\ (n - k = 0 \/ n - k < n)
        BY <2>2
      <3> QED BY <2>3, <3>1, <3>2 DEF Shows, Seen
    <2> HIDE DEF q
    <2>6. \A z \in T!Sessions : subs'[z] = IF z = s THEN subs[s] \cup {c} ELSE subs[z]
      BY <1>1, <2>1 DEF TermInv, TermTypes
    <2>7. ConnOK(c, q, subs', written, life)
      <3>1. \A z \in T!Sessions : c \in subs'[z] => q.pc \in {"attached", "pumping"} /\ q.sess = z
        BY <1>1, <2>3, <2>6 DEF ConnOK
      <3>2. c \in subs'[s]
        BY <1>1, <2>6
      <3>3. \E a, m, b \in Nat : Shows(q, a, m, b) /\ (c \in subs'[q.sess] => b = written[q.sess])
        BY <2>2, <2>3, <2>5
      <3> QED BY <1>1, <2>3, <3>1, <3>2, <3>3 DEF ConnOK
    <2>8. subs' \in [T!Sessions -> SUBSET Callers] /\ \A z \in T!Sessions : \A d \in Callers \ {c} : d \in subs'[z] <=> d \in subs[z]
      <3>1. subs \in [T!Sessions -> SUBSET Callers]
        BY DEF TermInv, TermTypes
      <3> QED BY <1>1, <2>1, <2>6, <3>1
    <2> QED BY <2>1, <2>4, <2>7, <2>8, ConnMoves
  <1> QED BY <1>2, <1>3

\* A step that shows a connection no more and no less than before.
LEMMA ShownKeeps ==
    ASSUME TermInv, NEW c \in Callers, NEW q \in ConnRec, conn' = [conn EXCEPT ![c] = q], UNCHANGED <<registry, spawned, life, written, rings, subs>>,
           conn[c].pc \in {"attached", "pumping"}, q.pc \in {"attached", "pumping"}, q.sess = conn[c].sess, q.lag = conn[c].lag,
           \A a, m, b \in Nat : Shows(conn[c], a, m, b) => \E j \in Nat : Shows(q, a, j, b)
    PROVE  TermInv'
  <1>1. ConnOK(c, conn[c], subs, written, life)
    BY ConnIs
  <1>2. PICK a \in Nat, m \in Nat, b \in Nat : Shows(conn[c], a, m, b) /\ (c \in subs[conn[c].sess] => b = written[conn[c].sess])
    BY <1>1 DEF ConnOK
  <1>3. PICK j \in Nat : Shows(q, a, j, b)
    BY <1>2
  <1>4. \E x, y, z \in Nat : Shows(q, x, y, z) /\ (c \in subs'[q.sess] => z = written[q.sess])
    BY <1>2, <1>3
  <1>5. ConnOK(c, q, subs', written, life)
    BY <1>1, <1>4 DEF ConnOK
  <1>6. subs' \in [T!Sessions -> SUBSET Callers]
    BY DEF TermInv, TermTypes
  <1> QED BY <1>5, <1>6, ConnMoves

LEMMA HelloKeeps == ASSUME TermSizes, TermInv, NEW c \in Callers, T!Hello(c) PROVE TermInv'
  <1> DEFINE q == [conn[c] EXCEPT !.pc = "pumping", !.got = conn[c].replay, !.replay = <<>>]
  <1>1. conn[c].pc = "attached" /\ conn' = [conn EXCEPT ![c] = q] /\ UNCHANGED <<registry, spawned, life, written, rings, subs>>
    BY DEF T!Hello
  <1>2. conn[c] \in ConnRec /\ <<>> \in Seq(Nat)
    BY ConnIs
  <1>3. q \in ConnRec /\ q.pc = "pumping" /\ q.sess = conn[c].sess /\ q.lag = conn[c].lag /\ q.queue = conn[c].queue /\ q.got = conn[c].replay
    BY <1>2 DEF ConnRec
  <1> HIDE DEF q
  <1>4. ASSUME NEW a \in Nat, NEW m \in Nat, NEW b \in Nat, Shows(conn[c], a, m, b) PROVE \E j \in Nat : Shows(q, a, j, b)
    <2>1. Shows(q, a, m, b)
      BY <1>1, <1>3, <1>4 DEF Shows, Seen
    <2> QED BY <2>1
  <1> QED BY <1>1, <1>3, <1>4, ShownKeeps

LEMMA ReadPumpKeeps == ASSUME TermSizes, TermInv, NEW c \in Callers, T!ReadPump(c) PROVE TermInv'
  <1> DEFINE q == [conn[c] EXCEPT !.gone = TRUE]
  <1>1. conn[c].pc = "pumping" /\ conn' = [conn EXCEPT ![c] = q] /\ UNCHANGED <<registry, spawned, life, written, rings, subs>>
    BY DEF T!ReadPump
  <1>2. conn[c] \in ConnRec
    BY ConnIs
  <1>3. q \in ConnRec /\ q.pc = "pumping" /\ q.sess = conn[c].sess /\ q.lag = conn[c].lag /\ q.queue = conn[c].queue /\ q.got = conn[c].got
    BY <1>1, <1>2 DEF ConnRec
  <1> HIDE DEF q
  <1>4. ASSUME NEW a \in Nat, NEW m \in Nat, NEW b \in Nat, Shows(conn[c], a, m, b) PROVE \E j \in Nat : Shows(q, a, j, b)
    <2>1. Shows(q, a, m, b)
      BY <1>1, <1>3, <1>4 DEF Shows, Seen
    <2> QED BY <2>1
  <1> QED BY <1>1, <1>3, <1>4, ShownKeeps

LEMMA PumpChunkKeeps == ASSUME TermSizes, TermInv, NEW c \in Callers, T!PumpChunk(c) PROVE TermInv'
  <1> DEFINE r == conn[c]
             q == [r EXCEPT !.got = r.got \o Head(r.queue), !.queue = Tail(r.queue)]
  <1>1. r.pc = "pumping" /\ r.queue # <<>> /\ conn' = [conn EXCEPT ![c] = q] /\ UNCHANGED <<registry, spawned, life, written, rings, subs>>
    <2>1. r.pc = "pumping" /\ r.queue # <<>> /\ UNCHANGED <<registry, spawned, life, written, rings, subs>>
      BY DEF T!PumpChunk
    <2>2. conn' = [conn EXCEPT ![c] = q]
      BY DEF T!PumpChunk
    <2> QED BY <2>1, <2>2
  <1>2. r \in ConnRec
    BY ConnIs
  <1>3. r.got \in Seq(Nat) /\ r.queue \in Seq(Seq(Nat))
    BY <1>2 DEF ConnRec
  <1>4. r.got \o Head(r.queue) \in Seq(Nat) /\ Tail(r.queue) \in Seq(Seq(Nat))
    BY <1>1, <1>3
  <1>5. q \in ConnRec
    <2> DEFINE x == r.got \o Head(r.queue)
               y == Tail(r.queue)
    <2>1. q = [r EXCEPT !.got = x, !.queue = y]
      OBVIOUS
    <2>2. x \in Seq(Nat) /\ y \in Seq(Seq(Nat))
      BY <1>4
    <2> HIDE DEF x, y, q, r
    <2> QED BY <1>2, <2>1, <2>2 DEF ConnRec
  <1>6. q.pc = "pumping" /\ q.sess = r.sess /\ q.lag = r.lag /\ q.queue = Tail(r.queue) /\ q.got = r.got \o Head(r.queue)
    BY <1>1, <1>2 DEF ConnRec
  <1> HIDE DEF q
  <1>7. ASSUME NEW a \in Nat, NEW m \in Nat, NEW b \in Nat, Shows(r, a, m, b) PROVE \E j \in Nat : Shows(q, a, j, b)
    <2>1. a <= m /\ (a = 0 \/ a < m) /\ r.got = Bytes(a, m) /\ Chunks(r.queue, m, b)
      BY <1>1, <1>7 DEF Shows, Seen
    <2>2. PICK j \in Nat : m <= j /\ Head(r.queue) = Bytes(m, j) /\ Chunks(Tail(r.queue), j, b)
      BY <1>1, <2>1, ChunkTaken
    <2>3. q.got = Bytes(a, j)
      <3>1. Bytes(a, m) \o Bytes(m, j) = Bytes(a, j)
        BY <2>1, <2>2, BytesJoin
      <3> QED BY <1>6, <2>1, <2>2, <3>1
    <2>4. a <= j /\ (a = 0 \/ a < j)
      BY <2>1, <2>2
    <2>5. Shows(q, a, j, b)
      BY <1>6, <2>2, <2>3, <2>4 DEF Shows, Seen
    <2> QED BY <2>5
  <1> QED BY <1>1, <1>5, <1>6, <1>7, ShownKeeps

\* All of it, once it is joined.
LEMMA AllShown ==
    ASSUME NEW r \in ConnRec, NEW a \in Nat, NEW m \in Nat, NEW b \in Nat, Shows(r, a, m, b)
    PROVE  /\ Seen(r) \o T!FlattenSeq(r.queue) = Bytes(a, b) /\ a <= b
           /\ b > 0 => Bytes(a, b) # <<>> /\ T!Last(Bytes(a, b)) = b
           /\ T!Consecutive(Bytes(a, b)) /\ Bytes(a, b) \in Seq(Nat)
  <1>1. a <= m /\ (a = 0 \/ a < m) /\ Seen(r) = Bytes(a, m) /\ Chunks(r.queue, m, b)
    BY DEF Shows
  <1>2. m <= b
    BY <1>1, InOrder
  <1>3. Bytes(a, m) \o Bytes(m, b) = Bytes(a, b)
    BY <1>1, <1>2, BytesJoin
  <1>4. T!FlattenSeq(r.queue) = Bytes(m, b)
    BY <1>1, Joined
  <1>5. a <= b /\ (b > 0 => a < b)
    BY <1>1, <1>2
  <1>6. Bytes(a, b) \in Seq(Nat) /\ Len(Bytes(a, b)) = b - a /\ \A i \in 1 .. b - a : Bytes(a, b)[i] = a + i
    BY <1>5, BytesAre
  <1>7. b > 0 => Bytes(a, b) # <<>> /\ T!Last(Bytes(a, b)) = b
    <2> DEFINE w == Bytes(a, b)
               k == b - a
    <2> SUFFICES ASSUME b > 0 PROVE w # <<>> /\ T!Last(w) = b
      OBVIOUS
    <2>1. k \in 1 .. k /\ k # 0 /\ a + k = b
      BY <1>5
    <2>2. Len(w) = k /\ w[k] = b
      BY <1>6, <2>1
    <2> HIDE DEF w, k
    <2> QED BY <2>1, <2>2 DEF T!Last
  <1>8. T!Consecutive(Bytes(a, b))
    <2> DEFINE w == Bytes(a, b)
               k == b - a
    <2>1. k \in Nat /\ Len(w) = k /\ \A i \in 1 .. k : w[i] = a + i
      BY <1>5, <1>6
    <2> HIDE DEF w, k
    <2>2. ASSUME NEW i \in 1 .. Len(w) - 1 PROVE w[i + 1] = w[i] + 1
      <3>1. i \in 1 .. k /\ i + 1 \in 1 .. k /\ a + (i + 1) = (a + i) + 1
        BY <2>1
      <3> QED BY <2>1, <3>1
    <2>3. T!Consecutive(w)
      BY <2>2 DEF T!Consecutive
    <2> QED BY <2>3 DEF w
  <1> QED BY <1>1, <1>3, <1>4, <1>5, <1>6, <1>7, <1>8

LEMMA PumpDoneKeeps == ASSUME TermSizes, TermInv, NEW c \in Callers, T!PumpDone(c) PROVE TermInv'
  <1> DEFINE r == conn[c]
             s == r.sess
             x == T!Drain(c)
             q == [r EXCEPT !.pc = "exit", !.got = x, !.queue = <<>>]
  <1>1. r.pc = "pumping" /\ life[s] = "done" /\ subs' = [subs EXCEPT ![s] = @ \ {c}] /\ conn' = [conn EXCEPT ![c] = q]
        /\ UNCHANGED <<registry, spawned, life, written, rings>>
    BY DEF T!PumpDone, T!Detach
  <1>2. r \in ConnRec /\ s \in T!Sessions /\ ConnOK(c, r, subs, written, life)
    BY <1>1, ConnIs
  <1>3. PICK a \in Nat, m \in Nat, b \in Nat : Shows(r, a, m, b) /\ (c \in subs[s] => b = written[s])
    BY <1>1, <1>2 DEF ConnOK
  <1>4. x = Bytes(a, b)
    BY <1>1, <1>2, <1>3, AllShown DEF Seen, T!Drain
  <1>5. x \in Seq(Nat) /\ (b > 0 => x # <<>> /\ T!Last(x) = b)
    BY <1>2, <1>3, <1>4, AllShown
  <1> HIDE DEF x
  <1>6. q \in ConnRec /\ q.pc = "exit" /\ q.sess = s /\ q.lag = r.lag /\ q.got = x
    <2>1. <<>> \in Seq(Seq(Nat))
      OBVIOUS
    <2> QED BY <1>2, <1>5, <2>1 DEF ConnRec
  <1> HIDE DEF q
  <1>7. subs \in [T!Sessions -> SUBSET Callers]
    BY DEF TermInv, TermTypes
  <1>8. \A z \in T!Sessions : c \notin subs'[z]
    BY <1>1, <1>2, <1>7 DEF ConnOK
  <1>9. ~r.lag => c \in subs[s]
    BY <1>1, <1>2 DEF ConnOK
  <1>10. ConnOK(c, q, subs', written, life)
    BY <1>1, <1>2, <1>3, <1>5, <1>6, <1>8, <1>9 DEF ConnOK
  <1>11. subs' \in [T!Sessions -> SUBSET Callers] /\ \A z \in T!Sessions : \A d \in Callers \ {c} : d \in subs'[z] <=> d \in subs[z]
    BY <1>1, <1>2, <1>7
  <1> QED BY <1>1, <1>6, <1>10, <1>11, ConnMoves

\* A read of the PTY, as each connection sees it: dropped, given the chunk, or not concerned.
LEMMA FanoutConn ==
    ASSUME TermSizes, TermInv, NEW s \in T!Sessions, NEW n \in 1 .. MaxChunk, T!Fanout(s, n), NEW d \in Callers
    PROVE  conn'[d] \in ConnRec /\ ConnOK(d, conn'[d], subs', written', life')
  <1> DEFINE r == conn[d]
             chunk == Bytes(written[s], written[s] + n)
             full == {c \in subs[s] : Len(conn[c].queue) = QueueCap}
  <1>1. r \in ConnRec /\ ConnOK(d, r, subs, written, life) /\ (r.pc # "idle" => r.sess \in T!Sessions)
    BY ConnIs
  <1>2. written \in [T!Sessions -> Nat] /\ subs \in [T!Sessions -> SUBSET Callers] /\ written[s] \in Nat /\ n \in Nat /\ n >= 1
    BY DEF TermInv, TermTypes, TermSizes
  <1>3. [i \in 1 .. n |-> written[s] + i] = chunk
    <2>1. (written[s] + n) - written[s] = n
      BY <1>2
    <2> QED BY <2>1 DEF Bytes
  <1> HIDE DEF chunk
  <1>4. /\ life[s] = "live" /\ life' = life
        /\ subs' = [subs EXCEPT ![s] = @ \ full]
        /\ conn'[d] = CASE d \in full -> [r EXCEPT !.lag = TRUE]
                        [] d \in subs[s] \ full -> [r EXCEPT !.queue = Append(@, chunk)]
                        [] OTHER -> r
    BY <1>3 DEF T!Fanout, T!Deliver
  <1>5. written' = [written EXCEPT ![s] = @ + n]
    BY DEF T!Fanout
  <1>6. \A z \in T!Sessions : subs'[z] = IF z = s THEN subs[s] \ full ELSE subs[z]
    BY <1>2, <1>4
  <1>7. \A z \in T!Sessions : written'[z] = IF z = s THEN written[s] + n ELSE written[z]
    BY <1>2, <1>5
  <1> HIDE DEF full
  <1>8. CASE d \in full
    <2> DEFINE q == [r EXCEPT !.lag = TRUE]
    <2>1. conn'[d] = q
      BY <1>4, <1>8
    <2>2. d \in subs[s]
      BY <1>8 DEF full
    <2>3. r.pc \in {"attached", "pumping"} /\ r.sess = s /\ \A z \in T!Sessions : d \in subs[z] => z = s
      BY <1>1, <2>2 DEF ConnOK
    <2>4. q \in ConnRec /\ q.pc = r.pc /\ q.sess = s /\ q.lag = TRUE /\ q.queue = r.queue /\ Seen(q) = Seen(r)
      BY <1>1, <2>3 DEF ConnRec, Seen
    <2>5. \A z \in T!Sessions : d \notin subs'[z]
      BY <1>6, <1>8, <2>3
    <2>6. PICK a \in Nat, m \in Nat, b \in Nat : Shows(r, a, m, b)
      BY <1>1, <2>3 DEF ConnOK
    <2> HIDE DEF q
    <2>7. Shows(q, a, m, b)
      BY <2>4, <2>6 DEF Shows
    <2>8. ConnOK(d, q, subs', written', life')
      BY <2>3, <2>4, <2>5, <2>7 DEF ConnOK
    <2> QED BY <2>1, <2>4, <2>8
  <1>9. CASE d \in subs[s] /\ d \notin full
    <2> DEFINE q == [r EXCEPT !.queue = Append(@, chunk)]
    <2>1. conn'[d] = q
      BY <1>4, <1>9
    <2>3. r.pc \in {"attached", "pumping"} /\ r.sess = s /\ \A z \in T!Sessions : d \in subs[z] => z = s
      BY <1>1, <1>9 DEF ConnOK
    <2>4. chunk \in Seq(Nat)
      <3>1. written[s] + n \in Nat /\ written[s] <= written[s] + n
        BY <1>2
      <3> QED BY <1>2, <3>1, BytesAre DEF chunk
    <2>5. q \in ConnRec /\ q.pc = r.pc /\ q.sess = s /\ q.lag = r.lag /\ q.queue = Append(r.queue, chunk) /\ Seen(q) = Seen(r)
      <3> DEFINE x == Append(r.queue, chunk)
      <3>1. q = [r EXCEPT !.queue = x]
        OBVIOUS
      <3>2. x \in Seq(Seq(Nat))
        BY <1>1, <2>4 DEF ConnRec
      <3> HIDE DEF x, q, r
      <3>3. q \in ConnRec /\ q.pc = r.pc /\ q.sess = r.sess /\ q.lag = r.lag /\ q.queue = x /\ q.replay = r.replay /\ q.got = r.got
        BY <1>1, <3>1, <3>2 DEF ConnRec
      <3> QED BY <2>3, <3>3 DEF x, Seen
    <2> HIDE DEF q
    <2>6. PICK a \in Nat, m \in Nat, b \in Nat : Shows(r, a, m, b) /\ b = written[s]
      BY <1>1, <1>9, <2>3 DEF ConnOK
    <2>7. Shows(q, a, m, written[s] + n) /\ written[s] + n \in Nat
      <3>1. Chunks(r.queue, m, written[s]) /\ written[s] + n \in Nat /\ written[s] <= written[s] + n
        BY <1>2, <2>6 DEF Shows
      <3>2. Chunks(q.queue, m, written[s] + n)
        BY <1>2, <2>5, <3>1, ChunkAdded DEF chunk
      <3> QED BY <2>5, <2>6, <3>1, <3>2 DEF Shows
    <2>8. d \in subs'[s] /\ written'[s] = written[s] + n /\ \A z \in T!Sessions : d \in subs'[z] => z = s
      BY <1>6, <1>7, <1>9, <2>3
    <2>9. \E x, y, z \in Nat : Shows(q, x, y, z) /\ (d \in subs'[q.sess] => z = written'[q.sess])
      BY <2>5, <2>7, <2>8
    <2>10. ConnOK(d, q, subs', written', life')
      BY <2>3, <2>5, <2>8, <2>9 DEF ConnOK
    <2> QED BY <2>1, <2>5, <2>10
  <1>10. CASE d \notin subs[s]
    <2>1. conn'[d] = r
      BY <1>4, <1>10 DEF full
    <2>2. \A z \in T!Sessions : d \in subs'[z] <=> d \in subs[z]
      BY <1>6, <1>10
    <2>3. ASSUME r.pc \in {"attached", "pumping"}
          PROVE  \E x, y, z \in Nat : Shows(r, x, y, z) /\ (d \in subs'[r.sess] => z = written'[r.sess])
      <3>1. PICK a \in Nat, m \in Nat, b \in Nat : Shows(r, a, m, b) /\ (d \in subs[r.sess] => b = written[r.sess])
        BY <1>1, <2>3 DEF ConnOK
      <3>2. r.sess \in T!Sessions
        BY <1>1, <2>3
      <3>3. d \in subs'[r.sess] => b = written'[r.sess]
        BY <1>7, <1>10, <2>2, <3>1, <3>2
      <3> QED BY <3>1, <3>3
    <2>4. r.pc = "exit" => life[r.sess] = "done" /\ r.sess \in T!Sessions /\ written'[r.sess] = written[r.sess]
      BY <1>1, <1>4, <1>7 DEF ConnOK
    <2>5. ConnOK(d, r, subs', written', life')
      BY <1>1, <1>4, <2>2, <2>3, <2>4 DEF ConnOK
    <2> QED BY <1>1, <2>1, <2>5
  <1> QED BY <1>8, <1>9, <1>10

LEMMA FanoutKeeps == ASSUME TermSizes, TermInv, NEW s \in T!Sessions, NEW n \in 1 .. MaxChunk, T!Fanout(s, n) PROVE TermInv'
  <1>1. \A d \in Callers : conn'[d] \in ConnRec /\ ConnOK(d, conn'[d], subs', written', life')
    BY FanoutConn
  <1>2. DOMAIN conn' = Callers /\ conn' = [d \in Callers |-> conn'[d]]
    BY DEF T!Fanout, T!Deliver
  <1>3. /\ written' = [written EXCEPT ![s] = @ + n] /\ subs' = [subs EXCEPT ![s] = @ \ {c \in subs[s] : Len(conn[c].queue) = QueueCap}]
        /\ rings' = [rings EXCEPT ![s] = T!RingWrite(@, [i \in 1 .. n |-> written[s] + i])] /\ UNCHANGED <<registry, spawned, life>>
    BY DEF T!Fanout, T!Deliver
  <1>4. n \in Nat /\ written \in [T!Sessions -> Nat] /\ written[s] \in Nat /\ DOMAIN rings = T!Sessions /\ subs \in [T!Sessions -> SUBSET Callers] /\ RingIs(rings[s], written[s])
    BY DEF TermInv, TermTypes, TermSizes
  <1>5. rings'[s] = T!RingWrite(rings[s], Bytes(written[s], written[s] + n)) /\ written'[s] = written[s] + n
    <2>1. [i \in 1 .. n |-> written[s] + i] = Bytes(written[s], written[s] + n)
      <3>1. (written[s] + n) - written[s] = n
        BY <1>4
      <3> QED BY <3>1 DEF Bytes
    <2> QED BY <1>3, <1>4, <2>1
  <1>6. RingIs(rings'[s], written'[s])
    BY <1>4, <1>5, RingWrites
  <1>7. \A z \in T!Sessions : RingIs(rings'[z], written'[z])
    <2>1. \A z \in T!Sessions : z # s => rings'[z] = rings[z] /\ written'[z] = written[z]
      BY <1>3, <1>4
    <2> QED BY <1>6, <2>1 DEF TermInv
  <1>8. TermTypes'
    <2>1. written' \in [T!Sessions -> Nat] /\ DOMAIN rings' = T!Sessions /\ subs' \in [T!Sessions -> SUBSET Callers]
      BY <1>3, <1>4
    <2>2. conn' \in [Callers -> ConnRec]
      BY <1>1, <1>2
    <2> QED BY <1>3, <2>1, <2>2 DEF TermInv, TermTypes
  <1>9. Registered'
    BY <1>3 DEF TermInv, Registered
  <1> QED BY <1>1, <1>7, <1>8, <1>9 DEF TermInv

\* A session that goes on, from its life to its end or out of the registry.
LEMMA LifeKeeps ==
    ASSUME TermSizes, TermInv, NEW s \in T!Sessions, T!Finish(s) \/ T!CloseDone(s) \/ T!AutoRemove(s)
    PROVE  TermInv'
  <1>1. UNCHANGED <<spawned, written, rings, subs, conn>>
    BY DEF T!Finish, T!CloseDone, T!AutoRemove
  <1>2. \/ life[s] \in {"live", "exited"} /\ registry' = registry /\ (life' = [life EXCEPT ![s] = "exited"] \/ life' = [life EXCEPT ![s] = "done"])
        \/ life[s] = "done" /\ registry = s /\ registry' = 0 /\ life' = life
    BY DEF T!Finish, T!CloseDone, T!AutoRemove
  <1>3. life \in [T!Sessions -> {"none", "live", "exited", "done"}] /\ s <= spawned /\ registry \in 0 .. MaxSessions /\ registry <= spawned /\ spawned \in 0 .. MaxSessions
    BY <1>2 DEF TermInv, TermTypes, Registered
  <1>4. TermTypes'
    BY <1>1, <1>2, <1>3 DEF TermInv, TermTypes, TermSizes
  <1>5. \A z \in T!Sessions : life'[z] = life[z] \/ z = s
    BY <1>2, <1>3
  <1>6. life[s] \in {"live", "exited"} => registry = s
    BY DEF TermInv, Registered
  <1>7. Registered'
    BY <1>1, <1>2, <1>3, <1>5, <1>6 DEF TermInv, Registered
  <1>8. \A z \in T!Sessions : life[z] = "done" => life'[z] = "done"
    BY <1>2, <1>3
  <1>9. ASSUME NEW d \in Callers PROVE ConnOK(d, conn'[d], subs', written', life')
    <2>1. ConnOK(d, conn[d], subs, written, life)
      BY ConnIs
    <2> QED BY <1>1, <1>8, <2>1 DEF ConnOK
  <1>10. \A z \in T!Sessions : RingIs(rings'[z], written'[z])
    BY <1>1 DEF TermInv
  <1> QED BY <1>4, <1>7, <1>9, <1>10 DEF TermInv

\* All steps.
LEMMA TermNext == ASSUME TermSizes, TermInv, [T!Next]_tvars PROVE TermInv'
  <1>1. ASSUME NEW c \in Callers, T!PumpCancelled(c) \/ T!PumpOverflow(c) PROVE TermInv'
    <2>1. conn[c].pc # "idle" /\ T!Ended(c) /\ UNCHANGED <<registry, spawned, life, written, rings>>
      BY <1>1 DEF T!PumpCancelled, T!PumpOverflow
    <2> QED BY <2>1, EndedKeeps
  <1>2. CASE UNCHANGED tvars
    BY <1>2 DEF tvars, TermInv, TermTypes, Registered
  <1>3. CASE T!Next
    BY <1>1, <1>3, GetOrCreateKeeps, AttachKeeps, HelloKeeps, ReadPumpKeeps, PumpChunkKeeps, PumpDoneKeeps, FanoutKeeps, LifeKeeps DEF T!Next
  <1> QED BY <1>2, <1>3

\* What follows.
LEMMA TermHolds == ASSUME TermSizes, TermInv PROVE T!RingIsTail /\ T!StreamWhole /\ T!ExitComesLast /\ T!NoOrphanShell
  <1>1. T!RingIsTail
    <2> SUFFICES ASSUME NEW s \in T!Sessions
                 PROVE  LET n == written[s]
                            k == IF n < RingSize THEN n ELSE RingSize
                        IN  T!Snapshot(rings[s]) = [i \in 1 .. k |-> n - k + i]
      BY DEF T!RingIsTail
    <2> DEFINE n == written[s]
               k == IF n < RingSize THEN n ELSE RingSize
    <2>1. n \in Nat /\ RingIs(rings[s], n)
      BY DEF TermInv, TermTypes
    <2>2. T!Snapshot(rings[s]) = Bytes(n - rings[s].length, n) /\ rings[s].length = k
      BY <2>1, SnapshotIs DEF RingIs
    <2>3. k \in Nat /\ n - (n - k) = k
      BY <2>1 DEF TermSizes
    <2> HIDE DEF n, k
    <2>4. T!Snapshot(rings[s]) = [i \in 1 .. k |-> n - k + i]
      BY <2>2, <2>3 DEF Bytes
    <2> QED BY <2>4 DEF n, k
  <1>2. T!StreamWhole
    <2> SUFFICES ASSUME NEW c \in Callers, conn[c].pc \in {"attached", "pumping"}
                 PROVE  LET seen == (IF conn[c].pc = "attached" THEN conn[c].replay ELSE conn[c].got) \o T!FlattenSeq(conn[c].queue)
                        IN  /\ T!Consecutive(seen)
                            /\ c \in subs[conn[c].sess] /\ written[conn[c].sess] > 0 => seen # <<>> /\ T!Last(seen) = written[conn[c].sess]
      BY DEF T!StreamWhole
    <2>1. conn[c] \in ConnRec /\ ConnOK(c, conn[c], subs, written, life)
      BY ConnIs
    <2>2. PICK a \in Nat, m \in Nat, b \in Nat : Shows(conn[c], a, m, b) /\ (c \in subs[conn[c].sess] => b = written[conn[c].sess])
      BY <2>1 DEF ConnOK
    <2> DEFINE seen == Seen(conn[c]) \o T!FlattenSeq(conn[c].queue)
               w == Bytes(a, b)
    <2>3. seen = w /\ T!Consecutive(w) /\ (b > 0 => w # <<>> /\ T!Last(w) = b)
      <3>1. seen = w
        BY <2>1, <2>2, AllShown
      <3>2. T!Consecutive(w)
        BY <2>1, <2>2, AllShown
      <3>3. b > 0 => w # <<>> /\ T!Last(w) = b
        BY <2>1, <2>2, AllShown
      <3> QED BY <3>1, <3>2, <3>3
    <2> HIDE DEF w, seen
    <2>4. T!Consecutive(seen)
      BY <2>3
    <2>5. c \in subs[conn[c].sess] /\ written[conn[c].sess] > 0 => seen # <<>> /\ T!Last(seen) = written[conn[c].sess]
      BY <2>2, <2>3
    <2>6. seen = (IF conn[c].pc = "attached" THEN conn[c].replay ELSE conn[c].got) \o T!FlattenSeq(conn[c].queue)
      BY DEF seen, Seen
    <2> QED BY <2>4, <2>5, <2>6, Zenon
  <1>3. T!ExitComesLast
    BY ConnIs DEF ConnOK, T!ExitComesLast
  <1>4. T!NoOrphanShell
    BY DEF TermInv, Registered, T!NoOrphanShell
  <1> QED BY <1>1, <1>2, <1>3, <1>4

-----------------------------------------------------------------------------
(***************************************************************************)
(* The user's secrets (UserSecrets).  With one request, push or launch     *)
(* under way (Solo), a value is stored before its row and the row goes     *)
(* before the request ends (RowsOK, from Todo, what is left of a request); *)
(* what a push has read is what is stored (Composed); between pushes the   *)
(* guest has what is stored (Current), a home file only where the manifest *)
(* says so (Managed), and a provider it shows ready is one whose setup     *)
(* has come to its end for the generation it is in (SetUp, WinOK).         *)
(***************************************************************************)
SecretNames == Providers \cap U!Items = {} /\ WithSetup \subseteq Providers
OneThing == "overlap" \notin SecretsMay /\ "half" \notin SecretsMay /\ "unrow" \notin SecretsMay /\ "stuck" \notin SecretsMay

ProvRec == [key : Nat, tok : Nat, in : BOOLEAN, ready : BOOLEAN, degraded : BOOLEAN]
Contents == SUBSET (Nat \cup LoginKeys)
WinRec == [p : Providers, pc : {"inject", "get", "await", "check", "spawned"}, gen : Nat, since : Nat, used : ProvRec]
InjRec == [pc : {"profile", "keys", "providers", "push"}, win : SUBSET WinRec, tries : Nat, tok : Nat,
           files : [U!Files -> Contents], prov : [Providers -> ProvRec], asof : Nat]
SetupRec == [p : Providers, gen : Nat]
Statement == [do : {"put", "del", "row", "unrow", "addkey", "revoke", "switch", "inject"}, on : Providers \cup U!Items \cup LoginKeys \cup {"on", "off"}]

SecretTypes ==
    /\ ver \in Nat /\ sec \in [Providers \cup U!Items -> Nat] /\ rows \subseteq U!Items /\ keys \subseteq LoginKeys /\ sshOn \in BOOLEAN
    /\ running \in BOOLEAN /\ broke \in BOOLEAN
    /\ guest \in [prov : [Providers -> ProvRec], gen : Nat, managed : SUBSET U!Files, asof : Nat]
    /\ env \in [Providers -> ProvRec] /\ home \in [files : [U!Files -> Contents], manifest : SUBSET U!Files]
    /\ inj \subseteq InjRec /\ wins \subseteq WinRec /\ setups \subseteq SetupRec /\ spoiled \subseteq SetupRec

\* One request, push or window is under way.
Solo ==
    /\ \A t, u \in ops : t = u
    /\ \A i, j \in inj : i = j
    /\ \A w, v \in wins : w = v
    /\ ops # {} => inj = {} /\ wins = {}
    /\ \A i \in inj : i.win = wins /\ \A w \in wins : w.pc = "inject"

\* What is left of a request: a value goes with its row, one way or the other, and
\* what the machines should know is pushed in the end.
Todo(t) ==
    /\ t \in Seq(Statement) /\ t # <<>>
    /\ \A n \in 1 .. Len(t) :
        /\ t[n].do \in {"put", "del"} => t[n].on \in Providers \cup U!Items
        /\ t[n].do \in {"row", "unrow"} => t[n].on \in U!Items
        /\ t[n].do \in {"addkey", "revoke"} => t[n].on \in LoginKeys
        /\ n > 1 /\ t[n].do = "row" => t[n - 1] = [do |-> "put", on |-> t[n].on]
        /\ t[n].do = "del" /\ t[n].on \in U!Items => n < Len(t) /\ t[n + 1] = [do |-> "unrow", on |-> t[n].on]
        /\ t[n].do \in {"addkey", "revoke", "switch"} \/ t[n].on \in U!FileItems => t[Len(t)].do = "inject"

RowsOK ==
    /\ \A x \in rows : sec[x] # 0 \/ \E t \in ops : t[1] = [do |-> "unrow", on |-> x]
    /\ \A t \in ops : Todo(t) /\ (t[1].do = "row" => sec[t[1].on] # 0)

Managed ==
    /\ U!Written(home.files) \subseteq home.manifest
    /\ running \/ guest.gen # 0 => home.manifest \subseteq guest.managed

\* A provider as the injector defines it.
Defined(d, p) == (d.in => d.key # 0 \/ p \in Subscription) /\ (~d.in => d.key = 0 /\ d.tok = 0)

\* What a push has read is what is stored.
Composed ==
    \A i \in inj :
        /\ i.pc # "profile" => i.asof = ver
        /\ i.pc = "keys" => i.files = U!FileValues
        /\ i.pc \in {"providers", "push"} => i.files = U!Wanted
        /\ \A p \in Providers : Defined(i.prov[p], p)

SameKeys == \A p \in Providers : env[p].key = guest.prov[p].key /\ env[p].tok = guest.prov[p].tok

Current == running /\ ~broke /\ inj = {} /\ (\A t \in ops : t[Len(t)].do # "inject") => home.files = U!Wanted /\ SameKeys

SetUp ==
    /\ \A p \in Providers : Defined(guest.prov[p], p)
    /\ \A p \in Providers : guest.prov[p].in /\ ~guest.prov[p].ready => [p |-> p, gen |-> guest.gen] \in setups
    /\ \A p \in Providers : guest.prov[p].in /\ [p |-> p, gen |-> guest.gen] \in spoiled => guest.prov[p].degraded
    /\ \A s \in setups \cup spoiled : s.gen <= guest.gen
    /\ \A s \in setups : s \notin spoiled

WinOK ==
    \A w \in wins :
        /\ w.since = ver
        /\ w.pc # "inject" => inj = {} /\ guest.asof = ver
        /\ w.pc \in {"await", "check", "spawned"} => w.gen = guest.gen
        /\ w.pc \in {"check", "spawned"} => [p |-> w.p, gen |-> w.gen] \notin setups
        /\ w.pc \in {"await", "check"} => guest.prov[w.p].in
        /\ w.pc = "spawned" => w.used.ready /\ [p |-> w.p, gen |-> w.gen] \notin spoiled /\ (w.used.key # 0 \/ w.p \in Subscription)

SecretInv == SecretTypes /\ Solo /\ RowsOK /\ Managed /\ Composed /\ Current /\ SetUp /\ WinOK

LEMMA NoneDefined == U!None \in ProvRec /\ (\A p \in Providers : Defined(U!None, p)) /\ U!NoProviders \in [Providers -> ProvRec] /\ U!NoFiles \in [U!Files -> Contents]
  BY DEF U!None, ProvRec, Defined, U!NoProviders, U!NoFiles, Contents

LEMMA SecretInit == ASSUME U!Init PROVE SecretInv
  <1>1. SecretTypes
    BY NoneDefined DEF U!Init, SecretTypes
  <1>2. Solo /\ RowsOK /\ Composed /\ WinOK
    BY DEF U!Init, Solo, RowsOK, Composed, WinOK
  <1>3. Managed
    BY DEF U!Init, Managed, U!Written, U!NoFiles
  <1>4. Current
    BY DEF U!Init, Current
  <1>5. SetUp
    BY NoneDefined DEF U!Init, SetUp, U!NoProviders, U!None
  <1> QED BY <1>1, <1>2, <1>3, <1>4, <1>5 DEF SecretInv

\* The tail of what is left.
LEMMA TodoTail == ASSUME NEW t, Todo(t), Len(t) # 1 PROVE Todo(Tail(t)) /\ Len(Tail(t)) = Len(t) - 1 /\ Len(Tail(t)) > 0 /\ Tail(t)[1] = t[2] /\ Tail(t)[Len(Tail(t))] = t[Len(t)]
  <1> DEFINE u == Tail(t)
             k == Len(t)
  <1>1. t \in Seq(Statement) /\ k \in Nat /\ k > 1
    <2>1. t \in Seq(Statement) /\ t # <<>>
      BY DEF Todo
    <2>2. Len(t) \in Nat
      BY <2>1
    <2>3. Len(t) # 0
      BY <2>1
    <2> QED BY <2>1, <2>2, <2>3
  <1>2. u \in Seq(Statement) /\ Len(u) = k - 1 /\ \A n \in 1 .. k - 1 : u[n] = t[n + 1]
    BY <1>1
  <1> HIDE DEF u
  <1>3. \A n \in 1 .. k - 1 : n + 1 \in 1 .. k /\ (n + 1) - 1 = n /\ (n + 1) + 1 = (n + 1) + 1
    BY <1>1
  <1>4. u[1] = t[2] /\ u[k - 1] = t[k] /\ u # <<>>
    <2>1. 1 \in 1 .. k - 1 /\ 1 + 1 = 2 /\ k - 1 \in 1 .. k - 1 /\ (k - 1) + 1 = k
      BY <1>1
    <2> QED BY <1>2, <2>1
  <1>5. ASSUME NEW n \in 1 .. k - 1
        PROVE  /\ u[n].do \in {"put", "del"} => u[n].on \in Providers \cup U!Items
               /\ u[n].do \in {"row", "unrow"} => u[n].on \in U!Items
               /\ u[n].do \in {"addkey", "revoke"} => u[n].on \in LoginKeys
               /\ n > 1 /\ u[n].do = "row" => u[n - 1] = [do |-> "put", on |-> u[n].on]
               /\ u[n].do = "del" /\ u[n].on \in U!Items => n < k - 1 /\ u[n + 1] = [do |-> "unrow", on |-> u[n].on]
               /\ u[n].do \in {"addkey", "revoke", "switch"} \/ u[n].on \in U!FileItems => u[k - 1].do = "inject"
    <2> DEFINE m == n + 1
    <2>1. m \in 1 .. k /\ m > 1 /\ m - 1 = n /\ u[n] = t[m]
      BY <1>2, <1>3
    <2>2. n > 1 => n - 1 \in 1 .. k - 1 /\ u[n - 1] = t[n]
      <3>1. n > 1 => n - 1 \in 1 .. k - 1 /\ (n - 1) + 1 = n
        OBVIOUS
      <3> QED BY <1>2, <3>1
    <2>3. m < k => n < k - 1 /\ n + 1 \in 1 .. k - 1 /\ u[n + 1] = t[m + 1]
      <3>1. m < k => n < k - 1 /\ n + 1 \in 1 .. k - 1
        BY <1>1
      <3> QED BY <1>2, <3>1
    <2> HIDE DEF m
    <2>4. /\ t[m].do \in {"put", "del"} => t[m].on \in Providers \cup U!Items
          /\ t[m].do \in {"row", "unrow"} => t[m].on \in U!Items
          /\ t[m].do \in {"addkey", "revoke"} => t[m].on \in LoginKeys
          /\ m > 1 /\ t[m].do = "row" => t[m - 1] = [do |-> "put", on |-> t[m].on]
          /\ t[m].do = "del" /\ t[m].on \in U!Items => m < Len(t) /\ t[m + 1] = [do |-> "unrow", on |-> t[m].on]
          /\ t[m].do \in {"addkey", "revoke", "switch"} \/ t[m].on \in U!FileItems => t[Len(t)].do = "inject"
      BY <2>1 DEF Todo
    <2> QED BY <1>4, <2>1, <2>2, <2>3, <2>4
  <1>6. Todo(u)
    BY <1>2, <1>4, <1>5 DEF Todo
  <1> QED BY <1>1, <1>2, <1>4, <1>6 DEF u

\* What the user asks for is such a request.
LEMMA FirstTwo ==
    ASSUME NEW S, NEW p \in Seq(S), 2 <= Len(p)
    PROVE  SubSeq(p, 1, 2) \in Seq(S) /\ Len(SubSeq(p, 1, 2)) = 2 /\ SubSeq(p, 1, 2)[1] = p[1] /\ SubSeq(p, 1, 2)[2] = p[2]
  OBVIOUS

LEMMA Both ==
    ASSUME NEW S, NEW p \in Seq(S), NEW q \in Seq(S)
    PROVE  p \o q \in Seq(S) /\ Len(p \o q) = Len(p) + Len(q)
           /\ \A i \in 1 .. Len(p) + Len(q) : (p \o q)[i] = IF i <= Len(p) THEN p[i] ELSE q[i - Len(p)]
  OBVIOUS

LEMMA Pairs == ASSUME NEW a, NEW b, NEW c PROVE SubSeq(<<a, b, c>>, 1, 2) = <<a, b>>
  <1> DEFINE S == {a, b, c}
             t == <<a, b, c>>
             u == SubSeq(t, 1, 2)
  <1>1. t \in Seq(S) /\ Len(t) = 3 /\ t[1] = a /\ t[2] = b
    OBVIOUS
  <1> HIDE DEF t, S
  <1>2. 2 <= Len(t)
    BY <1>1
  <1>3. u \in Seq(S) /\ Len(u) = 2 /\ u[1] = t[1] /\ u[2] = t[2]
    BY <1>1, <1>2, FirstTwo
  <1> HIDE DEF u
  <1>5. u = <<a, b>>
    BY <1>1, <1>3
  <1> QED BY <1>5 DEF u, t

LEMMA Joins == ASSUME NEW a, NEW b, NEW c, NEW d, NEW e PROVE (<<a, b>> \o <<c, d>>) \o <<e>> = <<a, b, c, d, e>>
  <1> DEFINE S == {a, b, c, d, e}
             t == <<a, b>>
             u == <<c, d>>
             v == <<e>>
             w == (t \o u) \o v
  <1>1. t \in Seq(S) /\ u \in Seq(S) /\ v \in Seq(S) /\ Len(t) = 2 /\ Len(u) = 2 /\ Len(v) = 1
        /\ t[1] = a /\ t[2] = b /\ u[1] = c /\ u[2] = d /\ v[1] = e
    OBVIOUS
  <1> HIDE DEF t, u, v, S
  <1> DEFINE x == t \o u
  <1>2. x \in Seq(S) /\ Len(x) = 4 /\ x[1] = a /\ x[2] = b /\ x[3] = c /\ x[4] = d
    <2>1. x \in Seq(S) /\ Len(x) = Len(t) + Len(u) /\ \A i \in 1 .. Len(t) + Len(u) : x[i] = IF i <= Len(t) THEN t[i] ELSE u[i - Len(t)]
      BY <1>1, Both
    <2> HIDE DEF x
    <2>2. x[1] = t[1] /\ x[2] = t[2] /\ x[3] = u[1] /\ x[4] = u[2]
      BY <1>1, <2>1
    <2> QED BY <1>1, <2>1, <2>2
  <1> HIDE DEF x
  <1>20. w = x \o v
    BY DEF x
  <1> HIDE DEF w
  <1>3. w \in Seq(S) /\ Len(w) = 5 /\ w[1] = a /\ w[2] = b /\ w[3] = c /\ w[4] = d /\ w[5] = e
    <2>1. w \in Seq(S) /\ Len(w) = Len(x) + Len(v) /\ \A i \in 1 .. Len(x) + Len(v) : w[i] = IF i <= Len(x) THEN x[i] ELSE v[i - Len(x)]
      BY <1>1, <1>2, <1>20, Both
    <2>2. w[1] = x[1] /\ w[2] = x[2] /\ w[3] = x[3] /\ w[4] = x[4] /\ w[5] = v[1]
      BY <1>1, <1>2, <2>1
    <2> QED BY <1>1, <1>2, <2>1, <2>2
  <1>4. w = <<a, b, c, d, e>>
    BY <1>3
  <1> QED BY <1>4 DEF w, t, u, v

LEMMA OneLeft == ASSUME NEW a \in Statement, a.do \in {"put", "del"}, a.on \in Providers, SecretNames PROVE Todo(<<a>>)
  <1> DEFINE t == <<a>>
  <1>1. t \in Seq(Statement) /\ t # <<>> /\ Len(t) = 1 /\ t[1] = a
    OBVIOUS
  <1> HIDE DEF t
  <1>2. \A n \in 1 .. Len(t) : n = 1
    BY <1>1
  <1>3. a.on \notin U!Items /\ U!FileItems \subseteq U!Items
    BY DEF SecretNames, U!Items
  <1>4. Todo(t)
    BY <1>1, <1>2, <1>3 DEF Todo
  <1> QED BY <1>4 DEF t

LEMMA TwoLeft ==
    ASSUME NEW a \in Statement, NEW b \in Statement, U!GitHost \notin U!FileItems,
           \/ a.do \in {"put", "del"} /\ a.on = U!GitHost /\ b = [do |-> IF a.do = "put" THEN "row" ELSE "unrow", on |-> a.on]
           \/ /\ a.do \in {"addkey", "revoke", "switch"} /\ b.do = "inject"
              /\ a.do # "switch" => a.on \in LoginKeys
    PROVE  Todo(<<a, b>>)
  <1> DEFINE t == <<a, b>>
  <1>1. t \in Seq(Statement) /\ t # <<>> /\ Len(t) = 2 /\ t[1] = a /\ t[2] = b
    OBVIOUS
  <1> HIDE DEF t
  <1>2. \A n \in 1 .. Len(t) : n = 1 \/ n = 2
    BY <1>1
  <1>3. U!GitHost \in U!Items
    BY DEF U!Items
  <1>4. a = [do |-> a.do, on |-> a.on]
    BY DEF Statement
  <1>5. Todo(t)
    BY <1>1, <1>2, <1>3, <1>4 DEF Todo
  <1> QED BY <1>5 DEF t

\* A value and its row, written or deleted.
Couple(a, b) == a.on \in U!Items /\ ((a.do = "put" /\ b = [do |-> "row", on |-> a.on]) \/ (a.do = "del" /\ b = [do |-> "unrow", on |-> a.on]))

LEMMA ThreeLeft == ASSUME NEW a \in Statement, NEW b \in Statement, NEW c \in Statement, Couple(a, b), c.do = "inject" PROVE Todo(<<a, b, c>>)
  <1> DEFINE t == <<a, b, c>>
  <1>1. t \in Seq(Statement) /\ t # <<>> /\ Len(t) = 3 /\ t[1] = a /\ t[2] = b /\ t[3] = c
    OBVIOUS
  <1> HIDE DEF t
  <1>2. \A n \in 1 .. Len(t) : n = 1 \/ n = 2 \/ n = 3
    BY <1>1
  <1>4. a = [do |-> a.do, on |-> a.on]
    BY DEF Statement
  <1>5. Todo(t)
    BY <1>1, <1>2, <1>4 DEF Todo, Couple
  <1> QED BY <1>5 DEF t

LEMMA FiveLeft ==
    ASSUME NEW a \in Statement, NEW b \in Statement, NEW c \in Statement, NEW d \in Statement, NEW e \in Statement,
           Couple(a, b), Couple(c, d), e.do = "inject"
    PROVE  Todo(<<a, b, c, d, e>>)
  <1> DEFINE t == <<a, b, c, d, e>>
  <1>1. t \in Seq(Statement) /\ t # <<>> /\ Len(t) = 5 /\ t[1] = a /\ t[2] = b /\ t[3] = c /\ t[4] = d /\ t[5] = e
    OBVIOUS
  <1> HIDE DEF t
  <1>2. \A n \in 1 .. Len(t) : n = 1 \/ n = 2 \/ n = 3 \/ n = 4 \/ n = 5
    BY <1>1
  <1>4. a = [do |-> a.do, on |-> a.on] /\ c = [do |-> c.do, on |-> c.on]
    BY DEF Statement
  <1>5. Todo(t)
    BY <1>1, <1>2, <1>4 DEF Todo, Couple
  <1> QED BY <1>5 DEF t

LEMMA Asked == ASSUME SecretNames, SecretTypes, NEW t \in U!Requests PROVE Todo(t) /\ t[1].do # "row"
  <1>1. U!EnvItem \in U!Items /\ "ssh-key" \in U!Items /\ "ssh-config" \in U!Items /\ U!GitHost \in U!Items /\ U!GitHost \notin U!FileItems
    BY DEF U!Items, U!FileItems, U!EnvItem, U!GitHost
  <1>10. \A d \in {"put", "del", "row", "unrow", "inject"}, x \in U!Items : [do |-> d, on |-> x] \in Statement
    BY DEF Statement
  <1>11. \A x \in U!Items : Couple([do |-> "put", on |-> x], [do |-> "row", on |-> x]) /\ Couple([do |-> "del", on |-> x], [do |-> "unrow", on |-> x])
    BY DEF Couple
  <1>2. CASE t \in {U!SetItem(U!EnvItem), U!DeleteItem(U!EnvItem)}
    <2>1. Todo(U!SetItem(U!EnvItem))
      BY <1>10, <1>11, <1>1, ThreeLeft DEF U!SetItem
    <2>2. Todo(U!DeleteItem(U!EnvItem))
      BY <1>10, <1>11, <1>1, ThreeLeft DEF U!DeleteItem
    <2>3. t[1].do # "row"
      BY <1>2 DEF U!SetItem, U!DeleteItem
    <2> QED BY <1>2, <2>1, <2>2, <2>3
  <1>3. CASE t \in {U!GenerateKey, U!DropKey}
    <2>1. U!SetSSHKey = <<[do |-> "put", on |-> "ssh-key"], [do |-> "row", on |-> "ssh-key"]>> \o <<[do |-> "put", on |-> "ssh-config"], [do |-> "row", on |-> "ssh-config"]>>
      BY Pairs DEF U!SetSSHKey, U!SetItem
    <2>2. U!DeleteSSHKey = <<[do |-> "del", on |-> "ssh-key"], [do |-> "unrow", on |-> "ssh-key"]>> \o <<[do |-> "del", on |-> "ssh-config"], [do |-> "unrow", on |-> "ssh-config"]>>
      BY Pairs DEF U!DeleteSSHKey, U!DeleteItem
    <2>3. U!GenerateKey = <<[do |-> "put", on |-> "ssh-key"], [do |-> "row", on |-> "ssh-key"], [do |-> "put", on |-> "ssh-config"], [do |-> "row", on |-> "ssh-config"], [do |-> "inject", on |-> "ssh-key"]>>
      BY <2>1, Joins DEF U!GenerateKey
    <2>4. U!DropKey = <<[do |-> "del", on |-> "ssh-key"], [do |-> "unrow", on |-> "ssh-key"], [do |-> "del", on |-> "ssh-config"], [do |-> "unrow", on |-> "ssh-config"], [do |-> "inject", on |-> "ssh-key"]>>
      BY <2>2, Joins DEF U!DropKey
    <2>5. Todo(U!GenerateKey)
      BY <1>10, <1>11, <1>1, <2>3, FiveLeft
    <2>6. Todo(U!DropKey)
      BY <1>10, <1>11, <1>1, <2>4, FiveLeft
    <2>7. t[1].do # "row"
      BY <1>3, <2>3, <2>4
    <2> QED BY <1>3, <2>5, <2>6, <2>7
  <1>4. CASE t \in {U!SetGitHostToken, U!DeleteGitHostToken}
    <2>1. U!SetGitHostToken = <<[do |-> "put", on |-> U!GitHost], [do |-> "row", on |-> U!GitHost]>>
          /\ U!DeleteGitHostToken = <<[do |-> "del", on |-> U!GitHost], [do |-> "unrow", on |-> U!GitHost]>>
      BY Pairs DEF U!SetGitHostToken, U!DeleteGitHostToken, U!SetItem, U!DeleteItem
    <2>2. \A d \in {"put", "del", "row", "unrow"} : [do |-> d, on |-> U!GitHost] \in Statement
      BY <1>1 DEF Statement
    <2>3. Todo(U!SetGitHostToken)
      BY <1>1, <2>1, <2>2, TwoLeft
    <2>4. Todo(U!DeleteGitHostToken)
      BY <1>1, <2>1, <2>2, TwoLeft
    <2> QED BY <1>4, <2>1, <2>3, <2>4
  <1>5. CASE \E p \in Providers : t \in {U!SetProviderKey(p), U!DeleteProviderKey(p)}
    <2>1. PICK p \in Providers : t \in {U!SetProviderKey(p), U!DeleteProviderKey(p)}
      BY <1>5
    <2>2. [do |-> "put", on |-> p] \in Statement /\ [do |-> "del", on |-> p] \in Statement
      BY DEF Statement
    <2> QED BY <2>1, <2>2, OneLeft DEF U!SetProviderKey, U!DeleteProviderKey
  <1>6. CASE \E k \in LoginKeys : t \in {U!AddKey(k), U!RevokeKey(k)}
    <2>1. PICK k \in LoginKeys : t \in {U!AddKey(k), U!RevokeKey(k)}
      BY <1>6
    <2>2. [do |-> "addkey", on |-> k] \in Statement /\ [do |-> "revoke", on |-> k] \in Statement /\ [do |-> "inject", on |-> k] \in Statement
      BY DEF Statement
    <2> QED BY <1>1, <2>1, <2>2, TwoLeft DEF U!AddKey, U!RevokeKey
  <1>7. CASE \E d \in {"on", "off"} : t = U!SetSSHEnabled(d)
    <2>1. PICK d \in {"on", "off"} : t = U!SetSSHEnabled(d)
      BY <1>7
    <2>2. [do |-> "switch", on |-> d] \in Statement /\ [do |-> "inject", on |-> d] \in Statement
      BY DEF Statement
    <2> QED BY <1>1, <2>1, <2>2, TwoLeft DEF U!SetSSHEnabled
  <1> QED BY <1>2, <1>3, <1>4, <1>5, <1>6, <1>7 DEF U!Requests, SecretTypes

LEMMA WantedSame ==
    ASSUME \A x \in U!FileItems : (x \in rows' <=> x \in rows) /\ sec'[x] = sec[x], U!ActiveAuthorizedKeys' = U!ActiveAuthorizedKeys
    PROVE  U!Wanted' = U!Wanted /\ U!FileValues' = U!FileValues
  <1>1. \A x \in U!FileItems : U!Item(x)' = U!Item(x)
    BY DEF U!Item
  <1>2. U!FileValues' = U!FileValues
    BY <1>1 DEF U!FileValues
  <1> QED BY <1>2 DEF U!Wanted

\* One statement of a request.
RunStep(t) ==
    /\ ops' = IF Len(t) = 1 THEN {} ELSE {Tail(t)}
    /\ ver' = ver + 1 /\ UNCHANGED <<inj, running, guest, env, home, setups, spoiled, wins, broke>>

LEMMA RunKeeps ==
    ASSUME SecretInv, NEW t \in ops, RunStep(t), t[1].do # "inject", t[1].do \in {"put", "del", "row", "unrow", "addkey", "revoke", "switch"},
           sec' \in [Providers \cup U!Items -> Nat], rows' \subseteq U!Items, keys' \subseteq LoginKeys, sshOn' \in BOOLEAN,
           t[Len(t)].do # "inject" => U!Wanted' = U!Wanted,
           \A x \in rows' : sec'[x] # 0 \/ (Len(t) # 1 /\ t[2] = [do |-> "unrow", on |-> x]),
           Len(t) # 1 /\ t[2].do = "row" => sec'[t[2].on] # 0
    PROVE  SecretInv'
  <1>1. ops = {t} /\ inj = {} /\ wins = {} /\ Todo(t) /\ Len(t) \in Nat
    BY DEF SecretInv, Solo, RowsOK, Todo
  <1>2. Len(t) # 1 => Todo(Tail(t)) /\ Tail(t)[1] = t[2] /\ Tail(t)[Len(Tail(t))] = t[Len(t)]
    BY <1>1, TodoTail
  <1>3. SecretTypes'
    BY DEF RunStep, SecretInv, SecretTypes
  <1>4. Solo'
    BY <1>1 DEF RunStep, Solo
  <1>5. RowsOK'
    BY <1>1, <1>2 DEF RunStep, RowsOK
  <1>6. Managed' /\ SetUp'
    BY DEF RunStep, SecretInv, Managed, SetUp, U!Written
  <1>7. Composed' /\ WinOK'
    BY <1>1 DEF RunStep, Composed, WinOK
  <1>8. Current'
    <2> SUFFICES ASSUME running', ~broke', \A u \in ops' : u[Len(u)].do # "inject" PROVE home'.files = U!Wanted' /\ SameKeys'
      BY DEF Current
    <2>1. t[Len(t)].do # "inject"
      <3>1. CASE Len(t) = 1
        BY <3>1
      <3>2. CASE Len(t) # 1
        BY <1>2, <3>2 DEF RunStep
      <3> QED BY <3>1, <3>2
    <2>2. home.files = U!Wanted /\ SameKeys
      BY <1>1, <2>1 DEF SecretInv, Current, RunStep
    <2> QED BY <2>1, <2>2 DEF SameKeys, RunStep
  <1> QED BY <1>3, <1>4, <1>5, <1>6, <1>7, <1>8 DEF SecretInv

\* What Run gives, and the request it is of.
RunFacts(t, d) ==
    /\ RunStep(t) /\ Todo(t) /\ t[1].do = d /\ Head(t) = t[1] /\ t[1] = [do |-> t[1].do, on |-> t[1].on] /\ Len(t) \in Nat /\ Len(t) >= 1
    /\ d # "unrow" => \A x \in rows : sec[x] # 0
    /\ \A x \in rows : x # t[1].on => sec[x] # 0
    /\ Len(t) # 1 /\ t[2].do = "row" => t[1] = [do |-> "put", on |-> t[2].on]

LEMMA RunIs == ASSUME SecretInv, NEW t \in ops, NEW do, U!Run(t, do) PROVE RunFacts(t, do)
  <1>1. Todo(t) /\ \A u \in ops : u = t
    BY DEF SecretInv, RowsOK, Solo
  <1>2. t \in Seq(Statement) /\ t # <<>>
    BY <1>1 DEF Todo
  <1>3. Len(t) \in Nat /\ Len(t) # 0 /\ Head(t) = t[1]
    BY <1>2
  <1>4. t[1] \in Statement
    BY <1>2, <1>3
  <1>5. t[1] = [do |-> t[1].do, on |-> t[1].on]
    BY <1>4 DEF Statement
  <1>6. t[1].do = do
    BY <1>3 DEF U!Run
  <1>7. RunStep(t)
    <2>1. ops \ {t} = {}
      BY <1>1
    <2> QED BY <2>1 DEF U!Run, RunStep, U!inside
  <1>8. \A x \in rows : sec[x] # 0 \/ t[1] = [do |-> "unrow", on |-> x]
    BY <1>1 DEF SecretInv, RowsOK
  <1>9. Len(t) # 1 /\ t[2].do = "row" => t[1] = [do |-> "put", on |-> t[2].on]
    <2> SUFFICES ASSUME Len(t) # 1, t[2].do = "row" PROVE t[1] = [do |-> "put", on |-> t[2].on]
      OBVIOUS
    <2> DEFINE m == 2
    <2>1. m \in 1 .. Len(t) /\ m > 1 /\ t[m - 1] = t[1] /\ t[m] = t[2]
      <3>1. \A k \in Nat : k # 0 /\ k # 1 => k >= 2
        OBVIOUS
      <3>2. Len(t) >= 2
        BY <1>3, <3>1
      <3> QED BY <1>3, <3>2
    <2> HIDE DEF m
    <2>2. m > 1 /\ t[m].do = "row" => t[m - 1] = [do |-> "put", on |-> t[m].on]
      BY <1>1, <2>1 DEF Todo
    <2> QED BY <2>1, <2>2
  <1>10. (do # "unrow" => \A x \in rows : sec[x] # 0) /\ \A x \in rows : x # t[1].on => sec[x] # 0
    <2>1. \A x \in rows : t[1] = [do |-> "unrow", on |-> x] => t[1].do = "unrow" /\ t[1].on = x
      BY <1>5
    <2> QED BY <1>6, <1>8, <2>1
  <1> QED BY <1>1, <1>3, <1>5, <1>6, <1>7, <1>9, <1>10 DEF RunFacts

\* Its first statement.
LEMMA FirstIs ==
    ASSUME NEW t, Todo(t), Len(t) >= 1
    PROVE  /\ t[1].do \in {"put", "del"} => t[1].on \in Providers \cup U!Items
           /\ t[1].do \in {"row", "unrow"} => t[1].on \in U!Items
           /\ t[1].do \in {"addkey", "revoke"} => t[1].on \in LoginKeys
           /\ t[1].do = "del" /\ t[1].on \in U!Items => Len(t) # 1 /\ t[2] = [do |-> "unrow", on |-> t[1].on]
           /\ t[1].do \in {"addkey", "revoke", "switch"} \/ t[1].on \in U!FileItems => t[Len(t)].do = "inject"
  <1> DEFINE m == 1
  <1>1. m \in 1 .. Len(t) /\ m + 1 = 2 /\ t[m] = t[1] /\ (m < Len(t) => Len(t) # 1)
    <2>1. Len(t) \in Nat
      BY DEF Todo
    <2> QED BY <2>1
  <1> HIDE DEF m
  <1>2. /\ t[m].do \in {"put", "del"} => t[m].on \in Providers \cup U!Items
        /\ t[m].do \in {"row", "unrow"} => t[m].on \in U!Items
        /\ t[m].do \in {"addkey", "revoke"} => t[m].on \in LoginKeys
        /\ t[m].do = "del" /\ t[m].on \in U!Items => m < Len(t) /\ t[m + 1] = [do |-> "unrow", on |-> t[m].on]
        /\ t[m].do \in {"addkey", "revoke", "switch"} \/ t[m].on \in U!FileItems => t[Len(t)].do = "inject"
    BY <1>1 DEF Todo
  <1> QED BY <1>1, <1>2

LEMMA StatementKeeps ==
    ASSUME SecretNames, SecretInv, NEW t \in ops,
           U!PutValue(t) \/ U!DeleteValue(t) \/ U!UpsertRow(t) \/ U!DeleteRow(t) \/ U!InsertLoginKey(t) \/ U!RevokeLoginKey(t) \/ U!SwitchSSH(t)
    PROVE  SecretInv'
  <1>1. SecretTypes
    BY DEF SecretInv
  <1>2. CASE U!PutValue(t)
    <2>1. U!Run(t, "put") /\ sec' = [sec EXCEPT ![Head(t).on] = ver + 1] /\ UNCHANGED <<rows, keys, sshOn>>
      BY <1>2 DEF U!PutValue
    <2> DEFINE x == t[1].on
    <2>2. RunStep(t) /\ Todo(t) /\ t[1].do = "put" /\ Head(t) = t[1] /\ Len(t) >= 1 /\ (\A y \in rows : sec[y] # 0)
          /\ (Len(t) # 1 /\ t[2].do = "row" => t[2].on = x)
      <3>1. RunFacts(t, "put")
        BY <2>1, RunIs
      <3> QED BY <3>1 DEF RunFacts
    <2>3. x \in Providers \cup U!Items /\ (x \in U!FileItems => t[Len(t)].do = "inject")
      BY <2>2, FirstIs
    <2>4. sec' \in [Providers \cup U!Items -> Nat] /\ sec'[x] # 0 /\ \A y \in Providers \cup U!Items : y # x => sec'[y] = sec[y]
      BY <1>1, <2>1, <2>2, <2>3 DEF SecretTypes
    <2>5. \A y \in rows' : sec'[y] # 0
      BY <1>1, <2>1, <2>2, <2>4 DEF SecretTypes
    <2>6. t[Len(t)].do # "inject" => U!Wanted' = U!Wanted
      <3>1. U!ActiveAuthorizedKeys' = U!ActiveAuthorizedKeys
        BY <2>1 DEF U!ActiveAuthorizedKeys
      <3>2. t[Len(t)].do # "inject" => \A y \in U!FileItems : (y \in rows' <=> y \in rows) /\ sec'[y] = sec[y]
        BY <2>1, <2>3, <2>4 DEF U!Items
      <3> QED BY <3>1, <3>2, WantedSame
    <2>7. rows' \subseteq U!Items /\ keys' \subseteq LoginKeys /\ sshOn' \in BOOLEAN
      BY <1>1, <2>1 DEF SecretTypes
    <2>8. Len(t) # 1 /\ t[2].do = "row" => sec'[t[2].on] # 0
      BY <2>2, <2>4
    <2> QED BY <2>2, <2>4, <2>5, <2>6, <2>7, <2>8, RunKeeps
  <1>3. CASE U!DeleteValue(t)
    <2>1. U!Run(t, "del") /\ sec' = [sec EXCEPT ![Head(t).on] = 0] /\ UNCHANGED <<rows, keys, sshOn>>
      BY <1>3 DEF U!DeleteValue
    <2> DEFINE x == t[1].on
    <2>2. RunStep(t) /\ Todo(t) /\ t[1].do = "del" /\ Head(t) = t[1] /\ Len(t) >= 1 /\ (\A y \in rows : sec[y] # 0)
          /\ ~(Len(t) # 1 /\ t[2].do = "row")
      <3>1. RunFacts(t, "del")
        BY <2>1, RunIs
      <3> QED BY <3>1 DEF RunFacts
    <2>3. x \in Providers \cup U!Items /\ (x \in U!FileItems => t[Len(t)].do = "inject") /\ (x \in U!Items => Len(t) # 1 /\ t[2] = [do |-> "unrow", on |-> x])
      BY <2>2, FirstIs
    <2>4. sec' \in [Providers \cup U!Items -> Nat] /\ \A y \in Providers \cup U!Items : y # x => sec'[y] = sec[y]
      BY <1>1, <2>1, <2>2, <2>3 DEF SecretTypes
    <2>5. \A y \in rows' : sec'[y] # 0 \/ (Len(t) # 1 /\ t[2] = [do |-> "unrow", on |-> y])
      BY <1>1, <2>1, <2>2, <2>3, <2>4 DEF SecretTypes, SecretNames
    <2>6. t[Len(t)].do # "inject" => U!Wanted' = U!Wanted
      <3>1. U!ActiveAuthorizedKeys' = U!ActiveAuthorizedKeys
        BY <2>1 DEF U!ActiveAuthorizedKeys
      <3>2. t[Len(t)].do # "inject" => \A y \in U!FileItems : (y \in rows' <=> y \in rows) /\ sec'[y] = sec[y]
        BY <2>1, <2>3, <2>4 DEF U!Items
      <3> QED BY <3>1, <3>2, WantedSame
    <2>7. rows' \subseteq U!Items /\ keys' \subseteq LoginKeys /\ sshOn' \in BOOLEAN
      BY <1>1, <2>1 DEF SecretTypes
    <2> QED BY <2>2, <2>4, <2>5, <2>6, <2>7, RunKeeps
  <1>4. CASE U!UpsertRow(t) \/ U!DeleteRow(t)
    <2> DEFINE x == t[1].on
    <2>1. /\ U!Run(t, "row") \/ U!Run(t, "unrow")
          /\ UNCHANGED <<sec, keys, sshOn>>
          /\ (U!Run(t, "row") /\ rows' = rows \cup {Head(t).on}) \/ (U!Run(t, "unrow") /\ rows' = rows \ {Head(t).on})
      BY <1>4 DEF U!UpsertRow, U!DeleteRow
    <2>2. RunStep(t) /\ Todo(t) /\ t[1].do \in {"row", "unrow"} /\ Head(t) = t[1] /\ Len(t) >= 1
          /\ (\A y \in rows : y # x => sec[y] # 0) /\ ~(Len(t) # 1 /\ t[2].do = "row")
      <3>1. RunFacts(t, "row") \/ RunFacts(t, "unrow")
        BY <2>1, RunIs
      <3> QED BY <3>1 DEF RunFacts
    <2>3. x \in U!Items /\ (x \in U!FileItems => t[Len(t)].do = "inject")
      BY <2>2, FirstIs
    <2>4. (t[1].do = "row" /\ rows' = rows \cup {x}) \/ (t[1].do = "unrow" /\ rows' = rows \ {x})
      BY <2>1, RunIs DEF RunFacts
    <2>5. t[1].do = "row" => sec[x] # 0
      BY DEF SecretInv, RowsOK
    <2>6. \A y \in rows' : sec'[y] # 0
      BY <2>1, <2>2, <2>4, <2>5
    <2>7. t[Len(t)].do # "inject" => U!Wanted' = U!Wanted
      <3>1. U!ActiveAuthorizedKeys' = U!ActiveAuthorizedKeys
        BY <2>1 DEF U!ActiveAuthorizedKeys
      <3>2. t[Len(t)].do # "inject" => \A y \in U!FileItems : (y \in rows' <=> y \in rows) /\ sec'[y] = sec[y]
        BY <2>1, <2>3, <2>4
      <3> QED BY <3>1, <3>2, WantedSame
    <2>8. sec' \in [Providers \cup U!Items -> Nat] /\ rows' \subseteq U!Items /\ keys' \subseteq LoginKeys /\ sshOn' \in BOOLEAN
      BY <1>1, <2>1, <2>3, <2>4 DEF SecretTypes
    <2> QED BY <2>2, <2>6, <2>7, <2>8, RunKeeps
  <1>5. CASE U!InsertLoginKey(t) \/ U!RevokeLoginKey(t) \/ U!SwitchSSH(t)
    <2>1. /\ \E d \in {"addkey", "revoke", "switch"} : U!Run(t, d)
          /\ UNCHANGED <<sec, rows>>
      BY <1>5 DEF U!InsertLoginKey, U!RevokeLoginKey, U!SwitchSSH
    <2>2. RunStep(t) /\ Todo(t) /\ t[1].do \in {"addkey", "revoke", "switch"} /\ Head(t) = t[1] /\ Len(t) >= 1 /\ (\A y \in rows : sec[y] # 0)
          /\ ~(Len(t) # 1 /\ t[2].do = "row")
      <3>1. PICK d \in {"addkey", "revoke", "switch"} : RunFacts(t, d)
        BY <2>1, RunIs
      <3> QED BY <3>1 DEF RunFacts
    <2>3. t[Len(t)].do = "inject"
      BY <2>2, FirstIs
    <2>4. keys' \subseteq LoginKeys /\ sshOn' \in BOOLEAN
      <3>1. CASE U!InsertLoginKey(t)
        <4>1. t[1].do = "addkey" /\ keys' = keys \cup {t[1].on} /\ UNCHANGED sshOn
          BY <2>2, <3>1, RunIs DEF U!InsertLoginKey, RunFacts
        <4>2. t[1].on \in LoginKeys
          BY <2>2, <4>1, FirstIs
        <4> QED BY <1>1, <4>1, <4>2 DEF SecretTypes
      <3>2. CASE U!RevokeLoginKey(t) \/ U!SwitchSSH(t)
        <4>1. (keys' = keys \ {Head(t).on} /\ sshOn' = sshOn) \/ (sshOn' = (Head(t).on = "on") /\ keys' = keys)
          BY <3>2 DEF U!RevokeLoginKey, U!SwitchSSH
        <4> QED BY <1>1, <4>1 DEF SecretTypes
      <3> QED BY <1>5, <3>1, <3>2
    <2>5. sec' \in [Providers \cup U!Items -> Nat] /\ rows' \subseteq U!Items /\ \A y \in rows' : sec'[y] # 0
      BY <1>1, <2>1, <2>2 DEF SecretTypes
    <2> QED BY <2>2, <2>3, <2>4, <2>5, RunKeeps
  <1> QED BY <1>2, <1>3, <1>4, <1>5

Rests == UNCHANGED <<guest, env, home, setups, spoiled>>
StoreRests == UNCHANGED <<ver, sec, rows, keys, sshOn>>

LEMMA Read == StoreRests => U!FileValues' = U!FileValues /\ U!Wanted' = U!Wanted
  BY DEF StoreRests, U!FileValues, U!Wanted, U!Item, U!ActiveAuthorizedKeys

LEMMA MayActs == ASSUME OneThing, U!MayAct PROVE ops = {} /\ inj = {} /\ wins = {}
  BY DEF OneThing, U!MayAct, U!Quiet

NewInj(v) == [pc |-> "profile", win |-> v, tries |-> 1, tok |-> 0, files |-> U!NoFiles, prov |-> U!NoProviders, asof |-> 0]

LEMMA NewInjIs == ASSUME NEW v \in SUBSET WinRec PROVE NewInj(v) \in InjRec /\ NewInj(v).pc = "profile" /\ NewInj(v).win = v /\ \A p \in Providers : Defined(NewInj(v).prov[p], p)
  BY NoneDefined DEF NewInj, InjRec, U!NoProviders

LEMMA ArriveKeeps == ASSUME SecretNames, OneThing, SecretInv, U!Arrive PROVE SecretInv'
  <1>1. ops = {} /\ inj = {} /\ wins = {}
    BY MayActs DEF U!Arrive
  <1>2. PICK t \in U!Requests : ops' = {t}
    BY <1>1 DEF U!Arrive
  <1>3. StoreRests /\ Rests /\ UNCHANGED <<inj, running, wins, broke>>
    BY DEF U!Arrive, U!store, U!inside, StoreRests, Rests
  <1>4. Todo(t) /\ t[1].do # "row"
    BY Asked DEF SecretInv
  <1>5. SecretTypes'
    BY <1>3 DEF SecretInv, SecretTypes, StoreRests, Rests
  <1>6. Solo' /\ Composed' /\ WinOK'
    BY <1>1, <1>2, <1>3 DEF Solo, Composed, WinOK
  <1>7. RowsOK'
    BY <1>1, <1>2, <1>3, <1>4 DEF SecretInv, RowsOK, StoreRests
  <1>8. Managed' /\ SetUp'
    BY <1>3 DEF SecretInv, Managed, SetUp, U!Written, Rests
  <1>9. Current'
    <2>1. U!Wanted' = U!Wanted
      BY <1>3, Read
    <2>2. SameKeys <=> SameKeys'
      BY <1>3 DEF SameKeys, Rests
    <2> QED BY <1>1, <1>3, <2>1, <2>2 DEF SecretInv, Current, Rests
  <1> QED BY <1>5, <1>6, <1>7, <1>8, <1>9 DEF SecretInv

LEMMA ReinjectKeeps == ASSUME SecretInv, NEW t \in ops, U!Reinject(t) PROVE SecretInv'
  <1>1. ops = {t} /\ inj = {} /\ wins = {} /\ Todo(t) /\ t # <<>> /\ t \in Seq(Statement)
    <2>1. ops = {t} /\ inj = {} /\ wins = {} /\ Todo(t)
      BY DEF SecretInv, Solo, RowsOK
    <2> QED BY <2>1 DEF Todo
  <1>2. StoreRests /\ Rests /\ UNCHANGED <<running, wins, broke>> /\ ops' = {} /\ inj' = IF running THEN {NewInj({})} ELSE {}
    BY <1>1 DEF U!Reinject, U!NewInjection, NewInj, U!store, U!inside, StoreRests, Rests
  <1>3. Head(t) = t[1] /\ t[1].do = "inject"
    BY <1>1 DEF U!Reinject
  <1>4. SecretTypes' /\ Composed'
    BY <1>1, <1>2, NewInjIs DEF SecretInv, SecretTypes, Composed, StoreRests, Rests
  <1>5. Solo' /\ WinOK'
    BY <1>1, <1>2, NewInjIs DEF Solo, WinOK
  <1>6. RowsOK'
    <2>1. \A x \in rows : t[1] = [do |-> "unrow", on |-> x] => t[1].do = "unrow"
      OBVIOUS
    <2> QED BY <1>1, <1>2, <1>3, <2>1 DEF SecretInv, RowsOK, StoreRests
  <1>7. Managed' /\ SetUp'
    BY <1>2 DEF SecretInv, Managed, SetUp, U!Written, Rests
  <1>8. Current'
    BY <1>2 DEF Current
  <1> QED BY <1>4, <1>5, <1>6, <1>7, <1>8 DEF SecretInv

LEMMA RequestFailsKeeps == ASSUME OneThing, SecretInv, NEW t \in ops, U!RequestFails(t) PROVE SecretInv'
  <1>1. ops = {t} /\ inj = {} /\ wins = {} /\ Todo(t) /\ t # <<>> /\ t \in Seq(Statement)
    <2>1. ops = {t} /\ inj = {} /\ wins = {} /\ Todo(t)
      BY DEF SecretInv, Solo, RowsOK
    <2> QED BY <2>1 DEF Todo
  <1>2. StoreRests /\ Rests /\ UNCHANGED <<inj, running, wins>> /\ ops' = {} /\ broke' = TRUE
    BY <1>1 DEF U!RequestFails, U!store, U!inside, StoreRests, Rests
  <1>3. t[1].do # "unrow"
    <2>1. Head(t) = t[1]
      BY <1>1
    <2> QED BY <2>1 DEF U!RequestFails, OneThing
  <1>4. SecretTypes' /\ Composed' /\ Solo' /\ WinOK'
    BY <1>1, <1>2 DEF SecretInv, SecretTypes, Composed, StoreRests, Rests, Solo, WinOK
  <1>6. RowsOK'
    <2>1. \A x \in rows : t[1] = [do |-> "unrow", on |-> x] => t[1].do = "unrow"
      OBVIOUS
    <2> QED BY <1>1, <1>2, <1>3, <2>1 DEF SecretInv, RowsOK, StoreRests
  <1>7. Managed' /\ SetUp'
    BY <1>2 DEF SecretInv, Managed, SetUp, U!Written, Rests
  <1>8. Current'
    BY <1>2 DEF Current
  <1> QED BY <1>4, <1>6, <1>7, <1>8 DEF SecretInv

LEMMA MachineStartsKeeps == ASSUME OneThing, SecretInv, U!MachineStarts PROVE SecretInv'
  <1>1. ops = {} /\ inj = {} /\ wins = {} /\ running = FALSE
    BY MayActs DEF U!MachineStarts, SecretInv, SecretTypes
  <1>2. StoreRests /\ UNCHANGED <<env, home, setups, spoiled, ops, wins, broke>> /\ running' = TRUE /\ inj' = {NewInj({})}
        /\ guest' = IF guest.gen = 0 THEN [guest EXCEPT !.managed = home.manifest] ELSE guest
    BY <1>1 DEF U!MachineStarts, U!ManagedAtBoot, NewInj, U!store, StoreRests
  <1>3. guest \in [prov : [Providers -> ProvRec], gen : Nat, managed : SUBSET U!Files, asof : Nat] /\ home.manifest \in SUBSET U!Files
    BY DEF SecretInv, SecretTypes
  <1>4. guest' \in [prov : [Providers -> ProvRec], gen : Nat, managed : SUBSET U!Files, asof : Nat]
        /\ guest'.prov = guest.prov /\ guest'.gen = guest.gen /\ guest'.managed = IF guest.gen = 0 THEN home.manifest ELSE guest.managed
    BY <1>2, <1>3
  <1>5. SecretTypes' /\ Composed'
    BY <1>1, <1>2, <1>4, NewInjIs DEF SecretInv, SecretTypes, Composed, StoreRests
  <1>6. Solo' /\ WinOK' /\ Current'
    BY <1>1, <1>2, NewInjIs DEF Solo, WinOK, Current
  <1>7. RowsOK'
    BY <1>2 DEF SecretInv, RowsOK, StoreRests
  <1>8. Managed'
    BY <1>2, <1>4 DEF SecretInv, Managed, U!Written
  <1>9. SetUp'
    BY <1>2, <1>4 DEF SecretInv, SetUp
  <1> QED BY <1>5, <1>6, <1>7, <1>8, <1>9 DEF SecretInv

LEMMA MachineStopsKeeps == ASSUME SecretInv, NEW keep \in BOOLEAN, U!MachineStops(keep) PROVE SecretInv'
  <1>1. StoreRests /\ UNCHANGED <<ops, broke>> /\ running' = FALSE /\ wins' = {} /\ inj' = {i \in inj : i.win = {}}
    BY DEF U!MachineStops, U!store, StoreRests
  <1>2. SecretTypes /\ Solo /\ Composed /\ RowsOK /\ Managed /\ SetUp /\ running
    BY DEF SecretInv, U!MachineStops
  <1>3. Solo' /\ WinOK' /\ Current'
    BY <1>1, <1>2 DEF Solo, WinOK, Current
  <1>4. RowsOK'
    BY <1>1, <1>2 DEF RowsOK, StoreRests
  <1>5. Composed'
    <2>1. U!FileValues' = U!FileValues /\ U!Wanted' = U!Wanted
      BY <1>1, Read
    <2> QED BY <1>1, <1>2, <2>1 DEF Composed, StoreRests
  <1>6. CASE keep
    <2>1. Rests
      BY <1>6 DEF U!MachineStops, U!inside, Rests
    <2>2. SecretTypes' /\ Managed' /\ SetUp'
      BY <1>1, <1>2, <2>1 DEF SecretTypes, Managed, SetUp, U!Written, Rests, StoreRests
    <2> QED BY <1>3, <1>4, <1>5, <2>2 DEF SecretInv
  <1>7. CASE ~keep
    <2>1. guest' = [prov |-> U!NoProviders, gen |-> 0, managed |-> {}, asof |-> 0] /\ env' = U!NoProviders /\ setups' = {} /\ spoiled' = {} /\ home' = home
      BY <1>7 DEF U!MachineStops
    <2>2. SecretTypes'
      BY <1>1, <1>2, <2>1, NoneDefined DEF SecretTypes, StoreRests
    <2>3. Managed'
      BY <1>1, <1>2, <2>1 DEF Managed, U!Written
    <2>4. SetUp'
      BY <2>1, NoneDefined DEF SetUp, U!NoProviders, U!None
    <2> QED BY <1>3, <1>4, <1>5, <2>2, <2>3, <2>4 DEF SecretInv
  <1> QED BY <1>6, <1>7

\* The three reads of a push.
LEMMA ReadsKeep ==
    ASSUME SecretInv, NEW i \in inj, NEW j, inj' = {j}, j \in InjRec, j.win = i.win, StoreRests, Rests, UNCHANGED <<ops, running, wins, broke>>,
           j.pc # "profile" => j.asof = ver,
           j.pc = "keys" => j.files = U!FileValues,
           j.pc \in {"providers", "push"} => j.files = U!Wanted,
           \A p \in Providers : Defined(j.prov[p], p)
    PROVE  SecretInv'
  <1>1. SecretTypes /\ Solo /\ Composed /\ RowsOK /\ Managed /\ SetUp /\ WinOK
    BY DEF SecretInv
  <1>2. SecretTypes'
    BY <1>1 DEF SecretTypes, StoreRests, Rests
  <1>3. Solo' /\ WinOK'
    BY <1>1 DEF Solo, WinOK, StoreRests, Rests
  <1>4. Composed'
    <2>1. U!FileValues' = U!FileValues /\ U!Wanted' = U!Wanted
      BY Read
    <2> QED BY <2>1 DEF Composed, StoreRests
  <1>5. RowsOK' /\ Managed' /\ SetUp' /\ Current'
    BY <1>1 DEF RowsOK, Managed, SetUp, Current, U!Written, StoreRests, Rests
  <1> QED BY <1>1, <1>2, <1>3, <1>4, <1>5 DEF SecretInv

LEMMA InjIs ==
    ASSUME SecretInv, NEW i \in inj
    PROVE  /\ i \in InjRec /\ inj = {i} /\ ops = {} /\ i.win = wins /\ (\A w \in wins : w.pc = "inject") /\ SecretTypes
           /\ i.pc # "profile" => i.asof = ver
           /\ i.pc = "keys" => i.files = U!FileValues
           /\ i.pc \in {"providers", "push"} => i.files = U!Wanted
           /\ \A p \in Providers : Defined(i.prov[p], p)
  BY DEF SecretInv, SecretTypes, Solo, Composed

LEMMA FilesTyped == ASSUME SecretTypes PROVE U!FileValues \in [U!Files -> Contents] /\ U!Wanted \in [U!Files -> Contents] /\ U!EnvValue \in Nat /\ ver \in Nat
  <1>1. \A x \in U!Items : U!Item(x) \in Nat
    BY DEF SecretTypes, U!Item
  <1>2. U!FileItems \subseteq U!Items /\ U!EnvItem \in U!Items
    BY DEF U!Items
  <1>3. U!FileValues \in [U!Files -> Contents]
    BY <1>1, <1>2 DEF U!FileValues, Contents
  <1>4. U!ActiveAuthorizedKeys \in Contents
    BY DEF SecretTypes, U!ActiveAuthorizedKeys, Contents
  <1>5. U!Wanted \in [U!Files -> Contents]
    BY <1>3, <1>4 DEF U!Wanted
  <1> QED BY <1>1, <1>2, <1>3, <1>5 DEF U!EnvValue, SecretTypes

LEMMA ReadProfileKeeps == ASSUME SecretInv, NEW i \in inj, U!ReadProfile(i) PROVE SecretInv'
  <1> DEFINE j == [i EXCEPT !.pc = "keys", !.tok = U!EnvValue, !.files = U!FileValues, !.asof = ver]
  <1>1. i \in InjRec /\ inj = {i} /\ SecretTypes /\ \A p \in Providers : Defined(i.prov[p], p)
    BY InjIs
  <1>2. inj' = {j} /\ StoreRests /\ Rests /\ UNCHANGED <<ops, running, wins, broke>>
    BY <1>1 DEF U!ReadProfile, U!Goto, U!store, U!inside, StoreRests, Rests
  <1>3. j \in InjRec /\ j.pc = "keys" /\ j.files = U!FileValues /\ j.asof = ver /\ j.prov = i.prov /\ j.win = i.win
    BY <1>1, FilesTyped DEF InjRec
  <1> HIDE DEF j
  <1> QED BY <1>1, <1>2, <1>3, ReadsKeep

LEMMA ReadKeysKeeps == ASSUME SecretInv, NEW i \in inj, U!ReadKeys(i) PROVE SecretInv'
  <1> DEFINE j == [i EXCEPT !.pc = "providers", !.files["authorized_keys"] = U!ActiveAuthorizedKeys]
  <1>1. i \in InjRec /\ inj = {i} /\ SecretTypes /\ (\A p \in Providers : Defined(i.prov[p], p)) /\ i.pc = "keys" /\ i.files = U!FileValues /\ i.asof = ver
    BY InjIs DEF U!ReadKeys
  <1>2. inj' = {j} /\ StoreRests /\ Rests /\ UNCHANGED <<ops, running, wins, broke>>
    BY <1>1 DEF U!ReadKeys, U!Goto, U!store, U!inside, StoreRests, Rests
  <1>3. j = [i EXCEPT !.pc = "providers", !.files = U!Wanted]
    BY <1>1 DEF InjRec, U!Wanted
  <1> HIDE DEF j
  <1>4. j \in InjRec /\ j.pc = "providers" /\ j.files = U!Wanted /\ j.asof = ver /\ j.prov = i.prov /\ j.win = i.win
    BY <1>1, <1>3, FilesTyped DEF InjRec
  <1> QED BY <1>1, <1>2, <1>4, ReadsKeep

LEMMA ReadProvidersKeeps == ASSUME SecretInv, NEW i \in inj, U!ReadProviders(i) PROVE SecretInv'
  <1> DEFINE pr == [p \in Providers |-> U!ProviderDef(p, i.tok)]
             j == [i EXCEPT !.pc = "push", !.prov = pr]
  <1>1. i \in InjRec /\ inj = {i} /\ SecretTypes /\ i.pc = "providers" /\ i.files = U!Wanted /\ i.asof = ver
    BY InjIs DEF U!ReadProviders
  <1>2. inj' = {j} /\ StoreRests /\ Rests /\ UNCHANGED <<ops, running, wins, broke>>
    BY <1>1 DEF U!ReadProviders, U!Goto, U!store, U!inside, StoreRests, Rests
  <1>3. \A p \in Providers : U!ProviderDef(p, i.tok) \in ProvRec /\ Defined(U!ProviderDef(p, i.tok), p)
    BY <1>1, NoneDefined DEF U!ProviderDef, ProvRec, Defined, U!None, InjRec, SecretTypes
  <1>4. pr \in [Providers -> ProvRec] /\ \A p \in Providers : Defined(pr[p], p)
    BY <1>3
  <1> HIDE DEF pr
  <1>5. j \in InjRec /\ j.pc = "push" /\ j.files = U!Wanted /\ j.asof = ver /\ j.prov = pr /\ j.win = i.win
    BY <1>1, <1>4 DEF InjRec
  <1> HIDE DEF j
  <1> QED BY <1>1, <1>2, <1>4, <1>5, ReadsKeep

\* A push that failed, or seemed to.
LEMMA FailedIs ==
    ASSUME SecretInv, NEW i \in inj, U!Failed(i)
    PROVE  \/ /\ wins = {} /\ UNCHANGED <<wins, broke>>
              /\ \E j \in InjRec : inj' = {j} /\ j.pc = "profile" /\ j.win = {} /\ \A p \in Providers : Defined(j.prov[p], p)
           \/ inj' = {} /\ wins' = {} /\ broke' = TRUE
  <1>1. i \in InjRec /\ inj = {i} /\ i.win = wins /\ \A p \in Providers : Defined(i.prov[p], p)
    BY InjIs
  <1>2. CASE i.win = {} /\ inj' = (inj \ {i}) \cup {[i EXCEPT !.pc = "profile", !.tries = i.tries + 1]} /\ UNCHANGED <<wins, broke>>
    <2> DEFINE j == [i EXCEPT !.pc = "profile", !.tries = i.tries + 1]
    <2>1. inj' = {j}
      BY <1>1, <1>2
    <2>2. j \in InjRec /\ j.pc = "profile" /\ j.win = {} /\ j.prov = i.prov
      <3>1. i.tries + 1 \in Nat
        BY <1>1 DEF InjRec
      <3> QED BY <1>1, <1>2, <3>1 DEF InjRec
    <2> HIDE DEF j
    <2> QED BY <1>1, <1>2, <2>1, <2>2
  <1>3. CASE inj' = inj \ {i} /\ wins' = wins \ i.win /\ broke' = TRUE
    BY <1>1, <1>3
  <1> QED BY <1>2, <1>3 DEF U!Failed, U!Goto

LEMMA FailedKeeps ==
    ASSUME SecretInv, NEW i \in inj, U!Failed(i), StoreRests, UNCHANGED <<ops, running>>,
           env' \in [Providers -> ProvRec], home' \in [files : [U!Files -> Contents], manifest : SUBSET U!Files],
           guest' \in [prov : [Providers -> ProvRec], gen : Nat, managed : SUBSET U!Files, asof : Nat],
           setups' \subseteq SetupRec, spoiled' = spoiled, Managed', SetUp'
    PROVE  SecretInv'
  <1>1. SecretTypes /\ Solo /\ Composed /\ RowsOK /\ WinOK /\ ops = {}
    BY InjIs DEF SecretInv
  <1>2. RowsOK'
    BY <1>1 DEF RowsOK, StoreRests
  <1>3. CASE /\ wins = {} /\ UNCHANGED <<wins, broke>>
             /\ \E j \in InjRec : inj' = {j} /\ j.pc = "profile" /\ j.win = {} /\ \A p \in Providers : Defined(j.prov[p], p)
    <2>1. SecretTypes'
      BY <1>1, <1>3 DEF SecretTypes, StoreRests
    <2>2. Solo' /\ WinOK' /\ Composed' /\ Current'
      BY <1>1, <1>3 DEF Solo, WinOK, Composed, Current
    <2> QED BY <1>2, <2>1, <2>2 DEF SecretInv
  <1>4. CASE inj' = {} /\ wins' = {} /\ broke' = TRUE
    <2>1. SecretTypes'
      BY <1>1, <1>4 DEF SecretTypes, StoreRests
    <2>2. Solo' /\ WinOK' /\ Composed' /\ Current'
      BY <1>1, <1>4 DEF Solo, WinOK, Composed, Current
    <2> QED BY <1>2, <2>1, <2>2 DEF SecretInv
  <1> QED BY <1>3, <1>4, FailedIs

LEMMA PushFailsKeeps == ASSUME SecretInv, NEW i \in inj, U!PushFails(i) PROVE SecretInv'
  <1>1. U!Failed(i) /\ StoreRests /\ Rests /\ UNCHANGED <<ops, running>>
    BY DEF U!PushFails, U!store, U!inside, StoreRests, Rests
  <1>2. SecretTypes /\ Managed /\ SetUp
    BY DEF SecretInv
  <1>3. Managed' /\ SetUp'
    BY <1>1, <1>2 DEF Managed, SetUp, U!Written, Rests
  <1>4. /\ env' \in [Providers -> ProvRec] /\ home' \in [files : [U!Files -> Contents], manifest : SUBSET U!Files]
        /\ guest' \in [prov : [Providers -> ProvRec], gen : Nat, managed : SUBSET U!Files, asof : Nat] /\ setups' \subseteq SetupRec
    BY <1>1, <1>2 DEF SecretTypes, Rests
  <1> QED BY <1>1, <1>3, <1>4, FailedKeeps DEF Rests

LEMMA ReplaceHalfKeeps == ASSUME OneThing, SecretInv, NEW i \in inj, U!ReplaceHalf(i) PROVE SecretInv'
  <1>1. U!Failed(i) /\ StoreRests /\ UNCHANGED <<ops, running, guest, home, setups, spoiled>> /\ env' = U!EnvFiles(i.prov)
    BY DEF U!ReplaceHalf, U!store, StoreRests, OneThing
  <1>2. SecretTypes /\ Managed /\ SetUp /\ i \in InjRec
    BY InjIs DEF SecretInv
  <1>3. Managed' /\ SetUp'
    BY <1>1, <1>2 DEF Managed, SetUp, U!Written
  <1>4. env' \in [Providers -> ProvRec]
    BY <1>1, <1>2, NoneDefined DEF U!EnvFiles, InjRec
  <1>5. /\ home' \in [files : [U!Files -> Contents], manifest : SUBSET U!Files]
        /\ guest' \in [prov : [Providers -> ProvRec], gen : Nat, managed : SUBSET U!Files, asof : Nat] /\ setups' \subseteq SetupRec
    BY <1>1, <1>2 DEF SecretTypes
  <1> QED BY <1>1, <1>3, <1>4, <1>5, FailedKeeps

\* What a push that arrives leaves in the guest.
LEMMA Replaced ==
    ASSUME SecretNames, OneThing, SecretInv, NEW i \in inj, i.pc = "push", running, U!Replace(i), StoreRests, UNCHANGED <<running, spoiled>>
    PROVE  /\ env' \in [Providers -> ProvRec] /\ home' \in [files : [U!Files -> Contents], manifest : SUBSET U!Files]
           /\ guest' \in [prov : [Providers -> ProvRec], gen : Nat, managed : SUBSET U!Files, asof : Nat] /\ setups' \subseteq SetupRec
           /\ Managed' /\ SetUp' /\ home'.files = U!Wanted' /\ SameKeys' /\ guest'.asof = ver
  <1>1. SecretTypes /\ Managed /\ SetUp /\ i \in InjRec /\ i.files = U!Wanted /\ i.asof = ver /\ \A p \in Providers : Defined(i.prov[p], p)
    BY InjIs DEF SecretInv
  <1> DEFINE g == guest.gen + 1
             pr == [p \in Providers |-> [i.prov[p] EXCEPT !.ready = ~(i.prov[p].in /\ p \in WithSetup)]]
             fs == i.files
             hf == [f \in U!Files |-> IF fs[f] # {} THEN fs[f] ELSE IF f \in guest.managed THEN {} ELSE home.files[f]]
  <1>2. /\ env' = U!EnvFiles(i.prov) /\ home' = [files |-> hf, manifest |-> U!Written(fs)]
        /\ guest' = [prov |-> pr, gen |-> g, managed |-> U!Written(fs), asof |-> ver]
        /\ setups' = setups \cup {[p |-> p, gen |-> g] : p \in {q \in WithSetup : i.prov[q].in}}
    <2>1. home' = U!WriteFiles(fs, {})
      BY DEF U!Replace, OneThing
    <2>2. guest.managed \ {} = guest.managed
      OBVIOUS
    <2>3. U!WriteFiles(fs, {}) = [files |-> hf, manifest |-> U!Written(fs)]
      BY <2>2, Zenon DEF U!WriteFiles
    <2> QED BY <1>1, <2>1, <2>3 DEF U!Replace
  <1>3. g \in Nat /\ g > guest.gen /\ g # 0 /\ guest.gen \in Nat
    BY <1>1 DEF SecretTypes
  <1>4. \A p \in Providers : /\ pr[p] \in ProvRec /\ pr[p].key = i.prov[p].key /\ pr[p].tok = i.prov[p].tok /\ pr[p].in = i.prov[p].in
                             /\ pr[p].degraded = i.prov[p].degraded /\ (pr[p].in /\ ~pr[p].ready => p \in WithSetup)
    BY <1>1 DEF InjRec, ProvRec
  <1>5. pr \in [Providers -> ProvRec]
    BY <1>4
  <1>6. fs \in [U!Files -> Contents] /\ hf \in [U!Files -> Contents] /\ \A f \in U!Files : hf[f] = IF fs[f] # {} THEN fs[f] ELSE IF f \in guest.managed THEN {} ELSE home.files[f]
    BY <1>1 DEF InjRec, SecretTypes, Contents
  <1>7. hf = fs
    <2>1. \A f \in U!Files : f \notin guest.managed => home.files[f] = {}
      BY <1>1 DEF Managed, U!Written
    <2>2. \A f \in U!Files : hf[f] = fs[f]
      BY <1>6, <2>1
    <2> HIDE DEF hf
    <2> QED BY <1>6, <2>2
  <1> HIDE DEF pr, g, hf, fs
  <1>8. U!Written(fs) \in SUBSET U!Files
    BY DEF U!Written
  <1>9. home'.files = fs /\ home'.manifest = U!Written(fs) /\ guest'.prov = pr /\ guest'.gen = g /\ guest'.managed = U!Written(fs) /\ guest'.asof = ver
    BY <1>2, <1>7
  <1>10. ASSUME NEW s \in setups', s \notin setups PROVE \E p \in WithSetup : i.prov[p].in /\ s = [p |-> p, gen |-> g]
    BY <1>2, <1>10
  <1>11. \A p \in WithSetup : i.prov[p].in => [p |-> p, gen |-> g] \in setups'
    BY <1>2
  <1>12. setups' \subseteq SetupRec
    <2>1. \A p \in WithSetup : [p |-> p, gen |-> g] \in SetupRec
      BY <1>3 DEF SetupRec, SecretNames
    <2> QED BY <1>1, <1>10, <2>1 DEF SecretTypes
  <1>13. Managed'
    BY <1>9 DEF Managed, U!Written
  <1>14. \A s \in setups \cup spoiled : s.gen <= guest.gen /\ s.gen \in Nat
    BY <1>1 DEF SetUp, SecretTypes, SetupRec
  <1>15. SetUp'
    <2>1. \A p \in Providers : Defined(guest'.prov[p], p)
      BY <1>1, <1>4, <1>9 DEF Defined
    <2>2. \A p \in Providers : guest'.prov[p].in /\ ~guest'.prov[p].ready => [p |-> p, gen |-> guest'.gen] \in setups'
      BY <1>4, <1>9, <1>11
    <2>3. \A p \in Providers : [p |-> p, gen |-> guest'.gen] \notin spoiled'
      <3>1. \A p \in Providers : [p |-> p, gen |-> g].gen = g
        OBVIOUS
      <3>2. ~(g <= guest.gen)
        BY <1>3
      <3> QED BY <1>9, <1>14, <3>1, <3>2
    <2>4. \A s \in setups' : s.gen <= guest'.gen /\ s \notin spoiled'
      <3> SUFFICES ASSUME NEW s \in setups' PROVE s.gen <= guest'.gen /\ s \notin spoiled'
        OBVIOUS
      <3>1. CASE s \in setups
        BY <1>1, <1>3, <1>9, <1>14, <3>1 DEF SetUp
      <3>2. CASE s \notin setups
        <4>1. PICK p \in WithSetup : s = [p |-> p, gen |-> g]
          BY <1>10, <3>2
        <4> QED BY <1>3, <1>9, <2>3, <4>1 DEF SecretNames
      <3> QED BY <3>1, <3>2
    <2>5. \A s \in spoiled' : s.gen <= guest'.gen
      BY <1>3, <1>9, <1>14
    <2> QED BY <2>1, <2>2, <2>3, <2>4, <2>5 DEF SetUp
  <1>16. env' \in [Providers -> ProvRec] /\ \A p \in Providers : env'[p] = IF i.prov[p].in THEN i.prov[p] ELSE U!None
    BY <1>1, <1>2, NoneDefined DEF U!EnvFiles, InjRec
  <1>17. SameKeys'
    <2>1. \A p \in Providers : env'[p].key = pr[p].key /\ env'[p].tok = pr[p].tok
      BY <1>1, <1>4, <1>16 DEF Defined, U!None
    <2> QED BY <1>9, <2>1 DEF SameKeys
  <1>18. home'.files = U!Wanted'
    BY <1>1, <1>9, Read DEF fs
  <1>19. /\ home' \in [files : [U!Files -> Contents], manifest : SUBSET U!Files]
         /\ guest' \in [prov : [Providers -> ProvRec], gen : Nat, managed : SUBSET U!Files, asof : Nat]
    <2>1. ver \in Nat
      BY <1>1 DEF SecretTypes
    <2> QED BY <1>2, <1>3, <1>5, <1>6, <1>8, <2>1
  <1> QED BY <1>9, <1>12, <1>13, <1>15, <1>16, <1>17, <1>18, <1>19

LEMMA HandleSecretsKeeps == ASSUME SecretNames, OneThing, SecretInv, NEW i \in inj, U!HandleSecrets(i) PROVE SecretInv'
  <1>1. i.pc = "push" /\ running /\ U!Replace(i) /\ StoreRests /\ UNCHANGED <<ops, running, spoiled>>
    BY DEF U!HandleSecrets, U!store, StoreRests
  <1>2. /\ env' \in [Providers -> ProvRec] /\ home' \in [files : [U!Files -> Contents], manifest : SUBSET U!Files]
        /\ guest' \in [prov : [Providers -> ProvRec], gen : Nat, managed : SUBSET U!Files, asof : Nat] /\ setups' \subseteq SetupRec
        /\ Managed' /\ SetUp' /\ home'.files = U!Wanted' /\ SameKeys' /\ guest'.asof = ver
    BY <1>1, Replaced
  <1>3. CASE U!Failed(i)
    BY <1>1, <1>2, <1>3, FailedKeeps
  <1>4. CASE inj' = inj \ {i} /\ wins' = (wins \ i.win) \cup {[w EXCEPT !.pc = "get"] : w \in i.win} /\ broke' = FALSE
    <2>1. SecretTypes /\ inj = {i} /\ ops = {} /\ i.win = wins /\ Solo /\ WinOK /\ RowsOK
      BY InjIs DEF SecretInv
    <2>2. inj' = {} /\ wins' = {[w EXCEPT !.pc = "get"] : w \in wins} /\ broke' = FALSE
      BY <1>4, <2>1
    <2>3. \A w \in wins : [w EXCEPT !.pc = "get"] \in WinRec /\ [w EXCEPT !.pc = "get"].pc = "get" /\ [w EXCEPT !.pc = "get"].since = w.since
      BY <2>1 DEF SecretTypes, WinRec
    <2>4. SecretTypes'
      <3>1. wins' \subseteq WinRec /\ inj' \subseteq InjRec /\ broke' \in BOOLEAN
        BY <2>2, <2>3
      <3> QED BY <1>1, <1>2, <2>1, <3>1 DEF SecretTypes, StoreRests
    <2>5. Solo' /\ Composed'
      BY <1>1, <2>1, <2>2 DEF Solo, Composed
    <2>6. RowsOK'
      BY <1>1, <2>1 DEF RowsOK, StoreRests
    <2>7. WinOK'
      <3>1. ASSUME NEW w \in wins' PROVE w.since = ver' /\ w.pc = "get"
        <4>1. PICK v \in wins : w = [v EXCEPT !.pc = "get"]
          BY <2>2
        <4> QED BY <1>1, <2>1, <2>3, <4>1 DEF WinOK, StoreRests
      <3> QED BY <1>1, <1>2, <2>2, <3>1 DEF WinOK, StoreRests
    <2>8. Current'
      BY <1>2 DEF Current
    <2> QED BY <1>2, <2>4, <2>5, <2>6, <2>7, <2>8 DEF SecretInv
  <1> QED BY <1>3, <1>4 DEF U!HandleSecrets

LEMMA SetupEndsKeeps == ASSUME SecretInv, NEW s \in setups, NEW ok \in BOOLEAN, U!SetupEnds(s, ok) PROVE SecretInv'
  <1>1. SecretTypes /\ Solo /\ RowsOK /\ Managed /\ Composed /\ SetUp /\ WinOK /\ s \in SetupRec
    BY DEF SecretInv, SecretTypes
  <1>2. StoreRests /\ UNCHANGED <<ops, inj, running, env, home, wins, broke>> /\ setups' = setups \ {s} /\ spoiled' = IF ok THEN spoiled ELSE spoiled \cup {s}
    BY DEF U!SetupEnds, U!store, StoreRests
  <1>3. guest \in [prov : [Providers -> ProvRec], gen : Nat, managed : SUBSET U!Files, asof : Nat] /\ s.p \in Providers /\ s.gen \in Nat /\ s = [p |-> s.p, gen |-> s.gen]
    BY <1>1 DEF SecretTypes, SetupRec
  <1> DEFINE mine == s.gen = guest.gen /\ guest.prov[s.p].in
             d == [guest.prov[s.p] EXCEPT !.degraded = ~ok, !.ready = TRUE]
             pr == IF mine THEN [guest.prov EXCEPT ![s.p] = d] ELSE guest.prov
  <1>4. guest' = [guest EXCEPT !.prov = pr]
    <2>1. CASE mine
      <3>1. guest' = [guest EXCEPT !.prov[s.p].degraded = ~ok, !.prov[s.p].ready = TRUE]
        BY <2>1 DEF U!SetupEnds
      <3> QED BY <1>3, <2>1, <3>1 DEF ProvRec
    <2>2. CASE ~mine
      BY <1>3, <2>2 DEF U!SetupEnds
    <2> QED BY <2>1, <2>2
  <1>5. d \in ProvRec /\ d.key = guest.prov[s.p].key /\ d.tok = guest.prov[s.p].tok /\ d.in = guest.prov[s.p].in /\ d.ready /\ d.degraded = ~ok
    BY <1>3 DEF ProvRec
  <1> HIDE DEF d
  <1>6. pr \in [Providers -> ProvRec] /\ \A p \in Providers : pr[p] = IF mine /\ p = s.p THEN d ELSE guest.prov[p]
    BY <1>3, <1>5
  <1> HIDE DEF pr
  <1>7. guest' \in [prov : [Providers -> ProvRec], gen : Nat, managed : SUBSET U!Files, asof : Nat]
        /\ guest'.prov = pr /\ guest'.gen = guest.gen /\ guest'.managed = guest.managed /\ guest'.asof = guest.asof
    BY <1>3, <1>4, <1>6
  <1>8. \A p \in Providers : guest'.prov[p].key = guest.prov[p].key /\ guest'.prov[p].tok = guest.prov[p].tok /\ guest'.prov[p].in = guest.prov[p].in
    BY <1>5, <1>6, <1>7
  <1>9. SecretTypes'
    BY <1>1, <1>2, <1>7 DEF SecretTypes, StoreRests
  <1>10. Solo' /\ RowsOK' /\ Managed'
    BY <1>1, <1>2, <1>7 DEF Solo, RowsOK, Managed, U!Written, StoreRests
  <1>11. U!FileValues' = U!FileValues /\ U!Wanted' = U!Wanted
    BY <1>2, Read
  <1>12. Composed'
    BY <1>1, <1>2, <1>11 DEF Composed, StoreRests
  <1>13. Current'
    <2>1. SameKeys => SameKeys'
      BY <1>2, <1>8 DEF SameKeys
    <2> QED BY <1>2, <1>11, <2>1 DEF SecretInv, Current
  <1>14. SetUp'
    <2>1. \A p \in Providers : Defined(guest'.prov[p], p)
      BY <1>1, <1>8 DEF SetUp, Defined
    <2>2. ASSUME NEW p \in Providers, guest'.prov[p].in, ~guest'.prov[p].ready PROVE [p |-> p, gen |-> guest'.gen] \in setups'
      <3>1. ~(mine /\ p = s.p) /\ guest.prov[p].in /\ ~guest.prov[p].ready
        BY <1>5, <1>6, <1>7, <2>2
      <3>2. [p |-> p, gen |-> guest.gen] \in setups
        BY <1>1, <3>1 DEF SetUp
      <3>3. [p |-> p, gen |-> guest.gen] # s
        <4>1. [p |-> p, gen |-> guest.gen].p = p /\ [p |-> p, gen |-> guest.gen].gen = guest.gen
          OBVIOUS
        <4> QED BY <3>1, <4>1
      <3> QED BY <1>2, <1>7, <3>2, <3>3
    <2>3. ASSUME NEW p \in Providers, guest'.prov[p].in, [p |-> p, gen |-> guest'.gen] \in spoiled' PROVE guest'.prov[p].degraded
      <3> DEFINE e == [p |-> p, gen |-> guest.gen]
      <3>1. guest.prov[p].in /\ e.p = p /\ e.gen = guest.gen
        BY <1>8, <2>3
      <3>2. CASE e = s
        <4>1. mine /\ p = s.p /\ s \notin spoiled
          BY <1>1, <3>1, <3>2 DEF SetUp
        <4>2. ~ok
          BY <1>2, <1>7, <2>3, <3>2, <4>1
        <4> QED BY <1>5, <1>6, <1>7, <4>1, <4>2
      <3>3. CASE e # s
        <4>1. e \in spoiled
          BY <1>2, <1>7, <2>3, <3>3
        <4>2. ~(mine /\ p = s.p)
          BY <1>3, <3>3
        <4> QED BY <1>1, <1>6, <1>7, <3>1, <4>1, <4>2 DEF SetUp
      <3> QED BY <3>2, <3>3
    <2>4. (\A e \in setups' \cup spoiled' : e.gen <= guest'.gen) /\ \A e \in setups' : e \notin spoiled'
      BY <1>1, <1>2, <1>7 DEF SetUp
    <2> QED BY <2>1, <2>2, <2>3, <2>4 DEF SetUp
  <1>15. WinOK'
    <2> SUFFICES ASSUME NEW w \in wins
                 PROVE  /\ w.since = ver'
                        /\ w.pc # "inject" => inj' = {} /\ guest'.asof = ver'
                        /\ w.pc \in {"await", "check", "spawned"} => w.gen = guest'.gen
                        /\ w.pc \in {"check", "spawned"} => [p |-> w.p, gen |-> w.gen] \notin setups'
                        /\ w.pc \in {"await", "check"} => guest'.prov[w.p].in
                        /\ w.pc = "spawned" => w.used.ready /\ [p |-> w.p, gen |-> w.gen] \notin spoiled' /\ (w.used.key # 0 \/ w.p \in Subscription)
      BY <1>2 DEF WinOK
    <2>1. w.p \in Providers
      BY <1>1 DEF SecretTypes, WinRec
    <2> QED BY <1>1, <1>2, <1>7, <1>8, <2>1 DEF WinOK, StoreRests
  <1> QED BY <1>9, <1>10, <1>12, <1>13, <1>14, <1>15 DEF SecretInv

LEMMA LaunchKeeps == ASSUME OneThing, SecretInv, NEW p \in Providers, U!Launch(p) PROVE SecretInv'
  <1> DEFINE w == [p |-> p, pc |-> "inject", gen |-> 0, since |-> ver, used |-> U!None]
  <1>1. ops = {} /\ inj = {} /\ wins = {} /\ SecretTypes /\ RowsOK /\ Managed /\ SetUp
    BY MayActs DEF U!Launch, SecretInv
  <1>2. StoreRests /\ Rests /\ UNCHANGED <<ops, running, broke>> /\ wins' = {w} /\ inj' = {NewInj({w})}
    BY <1>1 DEF U!Launch, U!store, U!inside, StoreRests, Rests, NewInj
  <1>3. w \in WinRec /\ w.pc = "inject" /\ w.since = ver
    BY <1>1, NoneDefined DEF SecretTypes, WinRec
  <1> HIDE DEF w
  <1>4. NewInj({w}) \in InjRec /\ NewInj({w}).pc = "profile" /\ NewInj({w}).win = {w} /\ \A q \in Providers : Defined(NewInj({w}).prov[q], q)
    BY <1>3, NewInjIs
  <1>5. SecretTypes'
    BY <1>1, <1>2, <1>3, <1>4 DEF SecretTypes, StoreRests, Rests
  <1>6. Solo' /\ Composed' /\ Current'
    BY <1>1, <1>2, <1>3, <1>4 DEF Solo, Composed, Current
  <1>7. RowsOK' /\ Managed' /\ SetUp'
    BY <1>1, <1>2 DEF RowsOK, Managed, SetUp, U!Written, StoreRests, Rests
  <1>8. WinOK'
    BY <1>2, <1>3 DEF WinOK, StoreRests
  <1> QED BY <1>5, <1>6, <1>7, <1>8 DEF SecretInv

\* A window that goes on or is closed.
LEMMA WinKeeps ==
    ASSUME SecretInv, NEW w \in wins, w.pc # "inject", StoreRests, Rests, UNCHANGED <<ops, inj, running, broke>>,
           NEW v \in SUBSET WinRec, wins' = v,
           \A x, y \in v : x = y,
           \A x \in v :
              /\ x.since = w.since /\ x.pc # "inject"
              /\ x.pc \in {"await", "check", "spawned"} => x.gen = guest.gen
              /\ x.pc \in {"check", "spawned"} => [p |-> x.p, gen |-> x.gen] \notin setups
              /\ x.pc \in {"await", "check"} => guest.prov[x.p].in
              /\ x.pc = "spawned" => x.used.ready /\ [p |-> x.p, gen |-> x.gen] \notin spoiled /\ (x.used.key # 0 \/ x.p \in Subscription)
    PROVE  SecretInv'
  <1>1. SecretTypes /\ Solo /\ RowsOK /\ Managed /\ Composed /\ SetUp /\ WinOK
    BY DEF SecretInv
  <1>2. ops = {} /\ inj = {} /\ guest.asof = ver /\ w.since = ver
    BY <1>1 DEF Solo, WinOK
  <1>3. SecretTypes'
    BY <1>1 DEF SecretTypes, StoreRests, Rests
  <1>4. Solo' /\ Composed'
    BY <1>1, <1>2 DEF Solo, Composed
  <1>5. RowsOK' /\ Managed' /\ SetUp'
    BY <1>1 DEF RowsOK, Managed, SetUp, U!Written, StoreRests, Rests
  <1>6. WinOK'
    BY <1>2 DEF WinOK, StoreRests, Rests
  <1>7. Current'
    <2>1. U!Wanted' = U!Wanted
      BY Read
    <2>2. SameKeys => SameKeys'
      BY DEF SameKeys, Rests
    <2> QED BY <1>2, <2>1, <2>2 DEF SecretInv, Current, Rests
  <1> QED BY <1>3, <1>4, <1>5, <1>6, <1>7 DEF SecretInv

LEMMA WinIs ==
    ASSUME SecretInv, NEW w \in wins
    PROVE  /\ wins = {w} /\ w \in WinRec /\ guest.gen \in Nat /\ guest.prov \in [Providers -> ProvRec]
           /\ w.pc \in {"await", "check", "spawned"} => w.gen = guest.gen
           /\ w.pc \in {"check", "spawned"} => [p |-> w.p, gen |-> w.gen] \notin setups
           /\ w.pc \in {"await", "check"} => guest.prov[w.p].in
  BY DEF SecretInv, SecretTypes, Solo, WinOK

LEMMA WindowKeeps == ASSUME SecretInv, NEW w \in wins, U!WinGet(w) \/ U!WinAwait(w) \/ U!WinCheck(w) \/ U!WinCloses(w) PROVE SecretInv'
  <1>1. w.pc # "inject" /\ StoreRests /\ Rests /\ UNCHANGED <<ops, inj, running, broke>>
    BY DEF U!WinGet, U!WinAwait, U!WinCheck, U!WinCloses, U!store, U!inside, StoreRests, Rests
  <1>2. wins = {w} /\ w \in WinRec /\ guest.gen \in Nat /\ guest.prov \in [Providers -> ProvRec] /\ w.p \in Providers
    BY WinIs DEF WinRec
  <1>3. CASE wins' = {}
    BY <1>1, <1>3, WinKeeps
  <1>4. CASE U!WinGet(w) /\ wins' # {}
    <2> DEFINE x == [w EXCEPT !.pc = "await", !.gen = guest.gen]
    <2>1. wins' = {x}
      BY <1>2, <1>4 DEF U!WinGet, U!Step
    <2>2. x \in WinRec /\ x.since = w.since /\ x.pc = "await" /\ x.gen = guest.gen /\ guest.prov[x.p].in
      BY <1>2, <1>4 DEF WinRec, U!WinGet
    <2> HIDE DEF x
    <2> QED BY <1>1, <2>1, <2>2, WinKeeps
  <1>5. CASE U!WinAwait(w)
    <2> DEFINE x == [w EXCEPT !.pc = "check"]
    <2>1. wins' = {x} /\ w.pc = "await" /\ [p |-> w.p, gen |-> w.gen] \notin setups
      BY <1>2, <1>5 DEF U!WinAwait, U!Step
    <2>2. x \in WinRec /\ x.since = w.since /\ x.pc = "check" /\ x.gen = guest.gen /\ x.gen = w.gen /\ x.p = w.p /\ guest.prov[x.p].in
      BY <1>2, <2>1, WinIs DEF WinRec
    <2> HIDE DEF x
    <2> QED BY <1>1, <2>1, <2>2, WinKeeps
  <1>6. CASE U!WinCheck(w) /\ wins' # {}
    <2> DEFINE d == guest.prov[w.p]
               x == [w EXCEPT !.pc = "spawned", !.gen = guest.gen, !.used = d]
    <2>1. wins' = {x} /\ w.pc = "check" /\ d.in /\ ~d.degraded
      BY <1>2, <1>6, WinIs DEF U!WinCheck, U!Step
    <2>2. x \in WinRec /\ x.since = w.since /\ x.pc = "spawned" /\ x.gen = guest.gen /\ x.p = w.p /\ x.used = d
      BY <1>2 DEF WinRec
    <2>3. [p |-> w.p, gen |-> guest.gen] \notin setups
      BY <2>1, WinIs
    <2>4. d.ready /\ [p |-> w.p, gen |-> guest.gen] \notin spoiled /\ (d.key # 0 \/ w.p \in Subscription)
      BY <1>2, <2>1, <2>3 DEF SecretInv, SetUp, Defined
    <2> HIDE DEF x, d
    <2> QED BY <1>1, <2>1, <2>2, <2>3, <2>4, WinKeeps
  <1>7. CASE U!WinCloses(w)
    BY <1>2, <1>3, <1>7 DEF U!WinCloses
  <1> QED BY <1>3, <1>4, <1>5, <1>6, <1>7

LEMMA SecretNext == ASSUME SecretNames, OneThing, SecretInv, [U!Next]_uvars PROVE SecretInv'
  <1>1. CASE UNCHANGED uvars
    <2>1. StoreRests /\ Rests /\ UNCHANGED <<ops, inj, running, wins, broke>>
      BY <1>1 DEF uvars, StoreRests, Rests
    <2>2. SecretTypes /\ Solo /\ RowsOK /\ Managed /\ Composed /\ SetUp /\ WinOK /\ Current
      BY DEF SecretInv
    <2>3. U!FileValues' = U!FileValues /\ U!Wanted' = U!Wanted
      BY <2>1, Read
    <2>4. SecretTypes' /\ Solo' /\ RowsOK' /\ Managed' /\ SetUp' /\ WinOK'
      BY <2>1, <2>2 DEF SecretTypes, Solo, RowsOK, Managed, SetUp, WinOK, U!Written, StoreRests, Rests
    <2>5. Composed' /\ Current'
      BY <2>1, <2>2, <2>3 DEF Composed, Current, SameKeys, StoreRests, Rests
    <2> QED BY <2>4, <2>5 DEF SecretInv
  <1>2. CASE U!Next
    <2>1. CASE U!Arrive \/ U!MachineStarts \/ \E keep \in BOOLEAN : U!MachineStops(keep)
      BY <2>1, ArriveKeeps, MachineStartsKeeps, MachineStopsKeeps
    <2>2. ASSUME NEW t \in ops,
                 \/ U!PutValue(t) \/ U!DeleteValue(t) \/ U!UpsertRow(t) \/ U!DeleteRow(t)
                 \/ U!InsertLoginKey(t) \/ U!RevokeLoginKey(t) \/ U!SwitchSSH(t) \/ U!Reinject(t) \/ U!RequestFails(t)
          PROVE  SecretInv'
      BY <2>2, StatementKeeps, ReinjectKeeps, RequestFailsKeeps
    <2>3. ASSUME NEW i \in inj,
                 U!ReadProfile(i) \/ U!ReadKeys(i) \/ U!ReadProviders(i) \/ U!PushFails(i) \/ U!HandleSecrets(i) \/ U!ReplaceHalf(i)
          PROVE  SecretInv'
      BY <2>3, ReadProfileKeeps, ReadKeysKeeps, ReadProvidersKeeps, PushFailsKeeps, HandleSecretsKeeps, ReplaceHalfKeeps
    <2>4. ASSUME NEW s \in setups, NEW ok \in BOOLEAN, U!SetupEnds(s, ok) PROVE SecretInv'
      BY <2>4, SetupEndsKeeps
    <2>5. ASSUME NEW p \in Providers, U!Launch(p) PROVE SecretInv'
      BY <2>5, LaunchKeeps
    <2>6. ASSUME NEW w \in wins, U!WinGet(w) \/ U!WinAwait(w) \/ U!WinCheck(w) \/ U!WinCloses(w) PROVE SecretInv'
      BY <2>6, WindowKeeps
    <2> QED BY <1>2, <2>1, <2>2, <2>3, <2>4, <2>5, <2>6 DEF U!Next
  <1> QED BY <1>1, <1>2

LEMMA SecretHolds == ASSUME SecretInv PROVE U!RowHasValue /\ U!QuietIsCurrent /\ U!FilesManaged /\ U!LaunchIsReady /\ U!LaunchIsFresh
  <1>1. SecretTypes /\ Solo /\ RowsOK /\ Managed /\ Composed /\ SetUp /\ WinOK /\ Current
    BY DEF SecretInv
  <1>2. U!RowHasValue
    <2> SUFFICES ASSUME NEW x \in rows, \A todo \in ops : \A n \in 1 .. Len(todo) : todo[n].on # x PROVE sec[x] # 0
      BY DEF U!RowHasValue
    <2>1. ASSUME NEW t \in ops, t[1] = [do |-> "unrow", on |-> x] PROVE FALSE
      <3>1. t \in Seq(Statement) /\ t # <<>>
        BY <1>1 DEF RowsOK, Todo
      <3>2. 1 \in 1 .. Len(t)
        BY <3>1
      <3> QED BY <2>1, <3>2
    <2> QED BY <1>1, <2>1 DEF RowsOK
  <1>3. U!QuietIsCurrent
    BY <1>1 DEF U!QuietIsCurrent, U!Quiet, Current, SameKeys
  <1>4. U!FilesManaged
    BY <1>1 DEF U!FilesManaged, Managed
  <1>5. U!LaunchIsReady
    BY <1>1 DEF U!LaunchIsReady, WinOK
  <1>6. U!LaunchIsFresh
    <2> SUFFICES ASSUME NEW w \in wins, w.pc = "spawned" PROVE guest.asof >= w.since
      BY DEF U!LaunchIsFresh
    <2>1. guest.asof = ver /\ w.since = ver /\ ver \in Nat
      BY <1>1 DEF WinOK, SecretTypes
    <2> QED BY <2>1
  <1> QED BY <1>2, <1>3, <1>4, <1>5, <1>6

-----------------------------------------------------------------------------
(***************************************************************************)
(* The parts together.                                                     *)
(***************************************************************************)
LEMMA PartsBegin == ASSUME Init PROVE T!Init /\ D!Init /\ U!Init /\ G!Init /\ B!Init /\ V!Init
  BY DEF Init

LEMMA PartSteps ==
    ASSUME [Next]_vars
    PROVE  [T!Next]_tvars /\ [D!Next]_dvars /\ [U!Next]_uvars /\ [G!Next]_gvars /\ [B!Next]_bvars /\ [V!Next]_vvars
  BY DEF Next, TerminalsStep, DiskStep, SecretsStep, GitStep, BaoStep, DevStep, vars

\* For every number of connections, shells and bytes, every way the reads cut the
\* output, every ring and queue and every order of attaches, drops and ends: a
\* connection has been sent, with what waits for it, one unbroken stretch of the
\* output that ends where the shell has got to, the exit frame comes after all of it
\* unless the connection was dropped, the scrollback is the end of the output, and a
\* shell that runs is the one the next connection finds (ring.go, session.go,
\* manager.go, the terminal route).
THEOREM TerminalsAreWhole == ASSUME TermSizes PROVE Spec => []TerminalsWhole
  <1>1. Init => TermInv
    BY PartsBegin, TermInit
  <1>2. TermInv /\ [Next]_vars => TermInv'
    BY PartSteps, TermNext
  <1>3. TermInv => TerminalsWhole
    BY TermHolds DEF TerminalsWhole
  <1> QED BY <1>1, <1>2, <1>3, PTL DEF Spec

\* For every set of providers, values and login keys, every machine started, stopped or
\* restarted, every query, push and setup that fails and every order of the steps of one
\* request, push or launch: when the next begins only after the last is over, files of a
\* push are written together and a row goes with its value, no row promises a value that
\* is not there, a machine at rest, unless a request failed or a push was given up before
\* it, has the files, login keys and provider keys as they are stored, the manifest covers
\* what was written to the home, and an agent starts with a definition that is set up and
\* no older than its launch (profile/service.go, injector.go, providers.go,
\* guestagent/internal/secrets).
THEOREM SecretsStayCurrent == ASSUME SecretNames, OneThing PROVE Spec => []SecretsCurrent
  <1>1. Init => SecretInv
    BY PartsBegin, SecretInit
  <1>2. SecretInv /\ [Next]_vars => SecretInv'
    BY PartSteps, SecretNext
  <1>3. SecretInv => SecretsCurrent
    BY SecretHolds DEF SecretsCurrent
  <1> QED BY <1>1, <1>2, <1>3, PTL DEF Spec

\* For every number of callers, pairs and tokens, every life of a token and every
\* schedule: when the user does not reconnect in the middle of calls, no new pair is
\* lost and OpenBao keeps its policies, the stored pair is one GitHub will rotate, a
\* link says "revoked" of a dead grant only, git is given no expired credential, a
\* connected user has tokens, and OpenBao refuses a call only when a token expired
\* under its second attempt (tokensource.go, manager.go, auth.go, bao.go).
THEOREM StoresKeepServing == ASSUME GitSizes, Ordered, Keeps PROVE Spec => []StoresServe
  <1> DEFINE Inv == GitInv /\ BaoInv /\ PolicyInv
  <1>1. Init => Inv
    BY PartsBegin, GitInit, BaoInit
  <1>2. Inv /\ [Next]_vars => Inv'
    BY PartSteps, GitNext, BaoNext, PolicyNext
  <1>3. Inv => StoresServe
    <2>1. BaoInv => B!HealsItself
      BY DEF BaoInv, B!HealsItself
    <2> QED BY <2>1, GrantFollows DEF PolicyInv, StoresServe
  <1> QED BY <1>1, <1>2, <1>3, PTL DEF Spec

\* For every number of boots, restores, restarts and failures, wherever power is
\* lost: when a chown is not cut short and the home is not emptied, sshd shows the
\* identity on the disk in every boot in which the agent's links came first, the home
\* is the user's, and the boot that is told is the one that was (persist/).
THEOREM DiskTellsTrue == ASSUME Whole PROVE Spec => []DiskTells
  <1>1. Init => DiskInv
    BY PartsBegin, DiskInit
  <1>2. DiskInv /\ [Next]_vars => DiskInv'
    BY PartSteps, DiskNext
  <1>3. DiskInv => DiskTells
    BY DEF DiskInv, Identity, Home, Told, DiskTells, D!ShowsIdentity, D!HomeIsTheirs, D!LastBootTells
  <1> QED BY <1>1, <1>2, <1>3, PTL DEF Spec

\* And what the disk holds stays: the host identity, the dotfiles the user edited and
\* the values of the kv table (ensureSSHHostKeys, seedHome, migrate).
THEOREM DiskKeepsAll == ASSUME Whole PROVE Spec => DiskKeeps
  <1>1. Init => DiskInv
    BY PartsBegin, DiskInit
  <1>2. DiskInv /\ [Next]_vars => DiskInv'
    BY PartSteps, DiskNext
  <1>3. DiskInv /\ [Next]_vars => [\A f \in D!Files : diskKeys[f] # 0 => diskKeys'[f] = diskKeys[f]]_D!vars
                                /\ [(dotfiles = "mine" => dotfiles' = "mine") /\ kv' >= kv]_D!vars
    BY PartSteps, DiskNext
  <1> QED BY <1>1, <1>2, <1>3, PTL DEF Spec, DiskKeeps, D!IdentityKept, D!NothingOverwritten

\* For every number of machines, addresses, child processes and restarts, when a
\* machine's calls wait for its earlier ones and the pid of a child can be written:
\* the dev driver's children are the ones its records name, one per machine at most,
\* and all of them count as used capacity, wherever the agent is stopped and whichever
\* child dies (dev.go).
THEOREM DriverKeepsRecords == ASSUME DevSizes PROVE Spec => []ChildrenRecorded
  <1>1. Init => DevInv /\ Fresh
    <2>1. V!Init => Fresh
      BY DEF V!Init, V!NoChild, Fresh
    <2> QED BY <2>1, PartsBegin, DevInit
  <1>2. DevInv /\ Fresh /\ [Next]_vars => (DevInv /\ Fresh)'
    BY PartSteps, DevNext, FreshNext
  <1>3. DevInv /\ Fresh => ChildrenRecorded
    BY DevHolds DEF ChildrenRecorded
  <1> QED BY <1>1, <1>2, <1>3, PTL DEF Spec

\* Refinement, when a machine's calls wait for its earlier ones (Serial, which the
\* control plane does for the most part and the node-agent does not see to): every step
\* of the dev driver, its boots and stops that finish after their call and the settling
\* of all machines after a restart included, is a step of the interface of drivers
\* (DriverContract) and of the record store (NodeRecords), or changes neither
\* (driver.go, state.go).  With calls that overlap it is not: README, section 4.
THEOREM DriverMeetsContract == ASSUME DevSizes PROVE Spec => ImplementsDriver
  <1>1. Init => DevInv /\ V!Contract!Init /\ V!Records!Init
    <2>1. ASSUME V!Init PROVE V!Contract!Init /\ V!Records!Init
      BY <2>1 DEF V!Init, V!Contract!Init, V!Records!Init, V!Held, V!NoRec
    <2> QED BY <2>1, PartsBegin, DevInit
  <1>2. DevInv /\ [Next]_vars => DevInv'
    BY PartSteps, DevNext
  <1>3. DevInv /\ [Next]_vars => [part = "dev" => V!Contract!Next]_States /\ [part = "dev" => V!Records!Next]_(V!Held)
    BY PartSteps, DevMoves DEF KeepsContract
  <1> QED BY <1>1, <1>2, <1>3, PTL DEF Spec, ImplementsDriver
=============================================================================
