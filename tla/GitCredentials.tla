--------------------------- MODULE GitCredentials ---------------------------
(***************************************************************************)
(* The git credentials of one user: the GitHub token pair and its rotation *)
(* (github/tokensource.go), the calls that use it (callGitHub in           *)
(* httpapi/git.go, handleCredential in guestctl/manager.go), the connect   *)
(* flow that replaces it (GitHubCallback in auth/auth.go), and the         *)
(* credential cache in the guest (ctlchan/manager.go).                     *)
(*                                                                         *)
(* A token pair is the number under which GitHub issued it.  A refresh     *)
(* uses a pair up: neither half of it works afterwards.                    *)
(***************************************************************************)
EXTENDS Naturals

CONSTANTS
    Callers,    \* requests and goroutines of the control plane
    MaxPairs,   \* bound: pairs GitHub issues
    MaxClock,   \* bound: clock
    MaxCalls,   \* bound: calls that begin
    Life,       \* life of an access token
    Skew,       \* refreshSkew
    TTL,        \* credCacheTTL
    May         \* "overlap": the user reconnects while calls are under way;
                \* "fail": a statement fails; "lost": the new pair is lost

VARIABLES
    clock,
    gh,         \* GitHub: last pair issued, pairs 1..dead revoked, pairs used up, expiries
    user,       \* users.github_user_id is set
    link,       \* github_links: "none", "ok" or "revoked"
    sec,        \* secret store: the user's pair, 0 for none
    lock,       \* TokenSource.locks: the holder, or "free"
    calls,      \* calls under way
    began,      \* calls so far
    cache,      \* guest: the cached credential and until when
    served      \* history: the credential last handed to git, and when

vars == <<clock, gh, user, link, sec, lock, calls, began, cache, served>>
grant == <<clock, gh, user, link, sec>>
guest == <<cache, served>>

Idle == [kind |-> "idle", pc |-> "idle", tok |-> 0, force |-> FALSE]
NoCred == [pair |-> 0, until |-> 0]
Free == "free"
Pairs == 0 .. MaxPairs

Init ==
    /\ clock = 0 /\ gh = [last |-> 0, dead |-> 0, used |-> {}, exp |-> [n \in Pairs |-> 0]]
    /\ user = FALSE /\ link = "none" /\ sec = 0 /\ lock = Free
    /\ calls = [c \in Callers |-> Idle] /\ began = 0
    /\ cache = NoCred /\ served = [pair |-> 0, at |-> 0]

-----------------------------------------------------------------------------
(* GitHub, and time.                                                       *)

Works(n) == n > gh.dead /\ n \notin gh.used
Accepted(n) == Works(n) /\ clock < gh.exp[n]
Issue(using) == gh' = [gh EXCEPT !.last = @ + 1, !.used = @ \cup using, !.exp[gh.last + 1] = clock + Life]

Revoke == gh.dead < gh.last /\ gh' = [gh EXCEPT !.dead = gh.last]
    /\ UNCHANGED <<clock, user, link, sec, lock, calls, began, guest>>

\* A request from the guest times out long before the token it asked for can
\* expire (30 s and refreshSkew).
Tick ==
    /\ clock < MaxClock /\ clock' = clock + 1
    /\ \A c \in Callers : calls[c].kind = "cred" /\ calls[c].pc \in {"put", "upsert", "use"} => clock < gh.exp[calls[c].tok]
    /\ UNCHANGED <<gh, user, link, sec, lock, calls, began, guest>>

-----------------------------------------------------------------------------
(* Calls.                                                                  *)

Put(c, r) == calls' = [calls EXCEPT ![c] = r]
At(c, pc) == calls[c].pc = pc
Go(c, pc) == Put(c, [calls[c] EXCEPT !.pc = pc])
Connecting == \E c \in Callers : calls[c].kind = "connect"
Busy == \E c \in Callers : calls[c].kind \in {"api", "cred"}

Begin(c, kind, pc) ==
    /\ calls[c] = Idle /\ began < MaxCalls /\ began' = began + 1
    /\ Put(c, [Idle EXCEPT !.kind = kind, !.pc = pc])

\* callGitHub of an API request.
BeginAPI(c) ==
    /\ Connecting => "overlap" \in May
    /\ Begin(c, "api", "lock")
    /\ UNCHANGED <<grant, lock, guest>>

\* cachedCred in the guest.
Cached == cache.pair # 0 /\ clock <= cache.until

\* Credential in the guest: the cached one, or a request to the control plane.
Credential(c) ==
    /\ Connecting => "overlap" \in May
    /\ began < MaxCalls
    /\ IF Cached THEN /\ served' = [pair |-> cache.pair, at |-> clock]
                      /\ began' = began + 1 /\ UNCHANGED <<calls, cache>>
       ELSE Begin(c, "cred", "lock") /\ cache' = NoCred /\ UNCHANGED served
    /\ UNCHANGED <<grant, lock>>

\* Mutant: no lock.
LockAlways(c) ==
    /\ At(c, "lock") /\ Go(c, "link")
    /\ UNCHANGED <<grant, lock, began, guest>>

\* userLock.
Lock(c) ==
    /\ At(c, "lock") /\ lock = Free /\ lock' = c /\ Go(c, "link")
    /\ UNCHANGED <<grant, began, guest>>

\* The call is over: the lock is released.
End(c) == Put(c, Idle) /\ lock' = IF lock = c THEN Free ELSE lock

\* Token and ForceRefresh; only the former looks at the flag.
ReadLink(c) ==
    /\ At(c, "link")
    /\ IF link = "none" \/ (link = "revoked" /\ ~calls[c].force) THEN End(c)
       ELSE Go(c, "secret") /\ UNCHANGED lock
    /\ UNCHANGED <<grant, began, guest>>

\* With the token in hand: the caller goes on without the lock.
Got(c, n) == Put(c, [calls[c] EXCEPT !.pc = "use", !.tok = n]) /\ lock' = IF lock = c THEN Free ELSE lock

ReadSecret(c) ==
    /\ At(c, "secret")
    /\ CASE sec = 0 -> End(c)
         [] sec # 0 /\ ~calls[c].force /\ gh.exp[sec] > clock + Skew -> Got(c, sec)
         [] OTHER -> Put(c, [calls[c] EXCEPT !.pc = "refresh", !.tok = sec]) /\ UNCHANGED lock
    /\ UNCHANGED <<grant, began, guest>>

\* refreshLocked: GitHub rotates the pair or says that it is dead.
Refresh(c) ==
    /\ At(c, "refresh")
    /\ IF Works(calls[c].tok)
       THEN /\ gh.last < MaxPairs /\ Issue({calls[c].tok})
            /\ \/ Put(c, [calls[c] EXCEPT !.pc = "put", !.tok = gh.last + 1]) /\ UNCHANGED lock
               \/ "lost" \in May /\ End(c)
       ELSE Go(c, "mark") /\ UNCHANGED <<gh, lock>>
    /\ UNCHANGED <<clock, user, link, sec, began, guest>>

PutPair(c) ==
    /\ At(c, "put")
    /\ \/ sec' = calls[c].tok /\ Go(c, "upsert") /\ UNCHANGED lock
       \/ "lost" \in May /\ End(c) /\ UNCHANGED sec
    /\ UNCHANGED <<clock, gh, user, link, began, guest>>

\* Mutant: the flag of the row is kept.
UpsertKeepsFlag == link' = IF link = "none" THEN "ok" ELSE link

\* UpsertGitHubLink with revoked = false.
Upsert == link' = "ok"

UpdateLink(c) ==
    /\ At(c, "upsert")
    /\ \/ Upsert /\ Got(c, calls[c].tok)
       \/ "fail" \in May /\ End(c) /\ UNCHANGED link
    /\ UNCHANGED <<clock, gh, user, sec, began, guest>>

MarkRevoked(c) ==
    /\ At(c, "mark")
    /\ link' \in {"revoked"} \cup (IF "fail" \in May THEN {link} ELSE {})
    /\ End(c)
    /\ UNCHANGED <<clock, gh, user, sec, began, guest>>

\* callGitHub: a rejected token is refreshed by force, once.
Use(c) ==
    /\ At(c, "use") /\ calls[c].kind = "api"
    /\ IF Accepted(calls[c].tok) \/ calls[c].force THEN Put(c, Idle)
       ELSE Put(c, [calls[c] EXCEPT !.pc = "lock", !.force = TRUE])
    /\ UNCHANGED <<grant, lock, began, guest>>

\* Mutant: the token's own expiry is not looked at.
StoreForTTL(n) == cache' = [pair |-> n, until |-> clock + TTL]

\* storeCred.
StoreCred(n) ==
    cache' = [pair |-> n, until |-> IF gh.exp[n] < clock + TTL THEN gh.exp[n] ELSE clock + TTL]

Answer(c) ==
    /\ At(c, "use") /\ calls[c].kind = "cred" /\ Put(c, Idle)
    /\ StoreCred(calls[c].tok) /\ served' = [pair |-> calls[c].tok, at |-> clock]
    /\ UNCHANGED <<grant, lock, began>>

-----------------------------------------------------------------------------
(* GitHubCallback: account, tokens, link.  It takes no lock.               *)

Connect(c) ==
    /\ Busy \/ Connecting => "overlap" \in May
    /\ gh.last < MaxPairs
    /\ calls[c] = Idle /\ began < MaxCalls /\ began' = began + 1
    /\ Issue({})
    /\ Put(c, [Idle EXCEPT !.kind = "connect", !.pc = "account", !.tok = gh.last + 1])
    /\ UNCHANGED <<clock, user, link, sec, lock, guest>>

SetAccount(c) ==
    /\ At(c, "account")
    /\ user' = TRUE /\ Go(c, "store")
    /\ UNCHANGED <<clock, gh, link, sec, lock, began, guest>>

\* Mutant: a failed connect leaves the account in place.
NoRollback == UNCHANGED user

\* unsetUserGitHub.
Rollback == user' = FALSE

StorePair(c) ==
    /\ At(c, "store")
    /\ \/ sec' = calls[c].tok /\ Go(c, "row") /\ UNCHANGED user
       \/ "fail" \in May /\ Rollback /\ Put(c, Idle) /\ UNCHANGED sec
    /\ UNCHANGED <<clock, gh, link, lock, began, guest>>

StoreLink(c) ==
    /\ At(c, "row")
    /\ \/ Upsert /\ UNCHANGED user
       \/ "fail" \in May /\ Rollback /\ UNCHANGED link
    /\ Put(c, Idle)
    /\ UNCHANGED <<clock, gh, sec, lock, began, guest>>

-----------------------------------------------------------------------------
Next ==
    \/ Revoke \/ Tick
    \/ \E c \in Callers :
        \/ BeginAPI(c) \/ Credential(c) \/ Lock(c) \/ ReadLink(c) \/ ReadSecret(c)
        \/ Refresh(c) \/ PutPair(c) \/ UpdateLink(c) \/ MarkRevoked(c) \/ Use(c) \/ Answer(c)
        \/ Connect(c) \/ SetAccount(c) \/ StorePair(c) \/ StoreLink(c)

Spec == Init /\ [][Next]_vars

-----------------------------------------------------------------------------
\* "Never strands the user with a dead refresh token" (refreshLocked): when no
\* rotation is at work, the stored pair is one that GitHub will rotate, unless
\* the user has withdrawn the grant.
NeverStranded == lock = Free /\ ~Connecting /\ sec > gh.dead => sec \notin gh.used

\* The link of a connected user says "revoked" only of a grant that is dead: a rotation that lost a
\* race, or a reconnect, does not leave a working grant behind the flag.
RevokedIsTrue == user /\ link = "revoked" /\ ~Connecting => sec <= gh.dead

\* Git is never given a credential past its expiry, however long the answer took.
ServedIsLive == served.pair # 0 => served.at <= gh.exp[served.pair]

\* "A connected user with no stored tokens would be stuck" (unsetUserGitHub).
ConnectedHasTokens == user /\ ~Connecting => link # "none" /\ sec # 0
=============================================================================
