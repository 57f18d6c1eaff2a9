---------------------------- MODULE Credentials -----------------------------
(***************************************************************************)
(* The rows behind a caller's credential: sessions, whose expiry slides    *)
(* with use (session/session.go), and personal access tokens, which record *)
(* their last use (token/token.go).  Both writes are throttled: a request  *)
(* reads the row and, when the row is due, writes it in a second step.     *)
(***************************************************************************)
EXTENDS Naturals

CONSTANTS
    Sess, Pats,         \* rows of sessions and of personal_access_tokens
    Users, Requests,
    TTL,                \* life of a session
    RefreshThreshold,   \* ... and how much of it passes before it is extended
    TouchThreshold,     \* how old last_used_at may be
    Lives,              \* lives a personal access token is created with, 0 for ever
    MaxNow              \* bound: clock

VARIABLES
    time,
    creds,      \* the rows
    reqs,       \* requests between their read and their write
    last        \* history: when a row was last used

vars == <<time, creds, reqs, last>>

Never == 0
NoRow == [owner |-> "none", live |-> FALSE, exp |-> Never, used |-> Never]
NoReq == "none"

Init ==
    /\ time = 1 /\ creds = [n \in Sess \cup Pats |-> NoRow]
    /\ reqs = [r \in Requests |-> NoReq] /\ last = [n \in Sess \cup Pats |-> Never]

\* A request takes less than the clock's unit between its two statements.
Tick ==
    /\ time < MaxNow /\ \A r \in Requests : reqs[r] = NoReq
    /\ time' = time + 1 /\ UNCHANGED <<creds, reqs, last>>

NewRow(u, exp) == [owner |-> u, live |-> TRUE, exp |-> exp, used |-> Never]

Create(n, u, exp) ==
    /\ creds[n] = NoRow /\ creds' = [creds EXCEPT ![n] = NewRow(u, exp)]
    /\ last' = [last EXCEPT ![n] = time] /\ UNCHANGED <<time, reqs>>

\* Manager.Create of sessions, with the sign-in as its first use.
CreateSession(n, u) == Create(n, u, time + TTL)

\* handleCreateToken.
CreatePAT(n, u, life) ==
    /\ creds[n] = NoRow
    /\ creds' = [creds EXCEPT ![n] = NewRow(u, IF life = 0 THEN Never ELSE time + life)]
    /\ UNCHANGED <<time, reqs, last>>

\* GetSessionByTokenHash.
SessionAlive(n) == creds[n].live /\ creds[n].exp > time

\* GetPATByTokenHash.
PatAlive(n) == creds[n].live /\ (creds[n].exp = Never \/ creds[n].exp > time)

\* Mutant: extended in the last part of its life.
SessionDueLate(n) == creds[n].exp - time < RefreshThreshold

\* Less is left of it than a session has after the threshold.
SessionDue(n) == creds[n].exp - time < TTL - RefreshThreshold

\* Mutant: only the first use is recorded.
PatDueOnce(n) == creds[n].used = Never

PatDue(n) == creds[n].used = Never \/ time - creds[n].used > TouchThreshold

\* Authenticate, of either.
Authenticate(r, n) ==
    /\ reqs[r] = NoReq
    /\ IF n \in Sess THEN SessionAlive(n) ELSE PatAlive(n)
    /\ last' = [last EXCEPT ![n] = time]
    /\ reqs' = [reqs EXCEPT ![r] = IF IF n \in Sess THEN SessionDue(n) ELSE PatDue(n) THEN n ELSE NoReq]
    /\ UNCHANGED <<time, creds>>

\* TouchSession, by id alone.
TouchSession(n) == [creds EXCEPT ![n].exp = time + TTL]

\* TouchPATLastUsed.
TouchPAT(n) == [creds EXCEPT ![n].used = time]

Touch(r) ==
    /\ reqs[r] # NoReq /\ creds' = IF reqs[r] \in Sess THEN TouchSession(reqs[r]) ELSE TouchPAT(reqs[r])
    /\ reqs' = [reqs EXCEPT ![r] = NoReq] /\ UNCHANGED <<time, last>>

\* Logout by the holder of the cookie, or handleRevokeToken for a token of the
\* caller's.
Revoke(n, u) ==
    /\ creds[n].live /\ (n \in Pats => creds[n].owner = u)
    /\ creds' = [creds EXCEPT ![n].live = FALSE] /\ UNCHANGED <<time, reqs, last>>

\* handleListTokens: those that are not revoked, expired or not.
ListTokens(u) == {n \in Pats : creds[n].live /\ creds[n].owner = u}

Next ==
    \/ Tick
    \/ \E u \in Users : \/ \E n \in Sess : CreateSession(n, u)
                        \/ \E n \in Pats, life \in Lives : CreatePAT(n, u, life)
                        \/ \E n \in Sess \cup Pats : Revoke(n, u)
    \/ \E r \in Requests : Touch(r) \/ \E n \in Sess \cup Pats : Authenticate(r, n)

Spec == Init /\ [][Next]_vars

Settled(n) == \A r \in Requests : reqs[r] # n

\* Whoever keeps using a session is not signed out: every use, however it
\* falls between two writes, leaves it all of its life but the threshold; and
\* whoever does not is, when its life is over.
SessionSlides ==
    \A n \in Sess : creds[n].live /\ Settled(n) =>
        /\ creds[n].exp + RefreshThreshold >= last[n] + TTL
        /\ creds[n].exp <= last[n] + TTL

\* The list of tokens, by which a user decides what to revoke, has every token
\* that still gets in, and the last use it shows is at most the threshold from
\* the real one: no use goes unrecorded.
LastUsedTells ==
    \A u \in Users, n \in Pats : PatAlive(n) /\ creds[n].owner = u =>
        /\ n \in ListTokens(u)
        /\ Settled(n) => last[n] <= creds[n].used + TouchThreshold /\ creds[n].used <= last[n]
=============================================================================
