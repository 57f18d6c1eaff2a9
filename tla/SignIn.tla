------------------------------- MODULE SignIn -------------------------------
(***************************************************************************)
(* Who a caller is: the OIDC login of a browser and the access tokens of   *)
(* sibling services (auth/auth.go, auth/bearer.go, oidc/client.go), which  *)
(* share the resolution of an identity to a users row, and the middleware  *)
(* that admits a request (httpapi/middleware.go).                          *)
(*                                                                         *)
(* A subject is an identity at the IdP; it has one access token.  Every    *)
(* statement to the store or the IdP is a step, so flows interleave.       *)
(***************************************************************************)
EXTENDS Naturals, FiniteSets, Sequences

CONSTANTS
    Subjects,   \* identities at the IdP
    Verified,   \* those whose email, the one of the old accounts, is verified
    Old,        \* bound: pre-Zitadel accounts, rows 1 .. Old without a subject
    MaxRows,    \* bound: rows of users
    Flows,      \* requests that resolve an identity
    MaxLogins,  \* bound: logins that begin
    MaxBearers, \* bound: bearer resolutions that begin
    MaxEnds,    \* bound: roles and tokens withdrawn
    MaxClock,   \* bound: clock
    TTL,        \* bearerCacheTTL
    Slow,       \* bound: time a resolution takes
    CacheMax,   \* bearerCacheMax
    May         \* "overlap": a grant changes while it is being mirrored;
                \* "fail": the profile update fails

VARIABLES
    clock,
    idp,        \* IdP: holders of the admin role, subjects with a live token,
                \* and since when a role or a token is withdrawn
    disc,       \* Client.disc: the discovery document is cached
    rows,       \* users: subject and is_admin; the email is the same for all
    browser,    \* flow cookies: the state (and verifier), the next path
    asked,      \* next of every login begun
    flows,      \* resolutions under way
    bearers,    \* bearer resolutions so far
    sess,       \* sessions: row and, as history, the subject that signed in
    cache,      \* bearerCache, by token
    learned     \* history: subjects a sign-in was completed for since their role was withdrawn

vars == <<clock, idp, disc, rows, browser, asked, flows, bearers, sess, cache, learned>>

NoSub == "none"
Idle == [kind |-> "idle", pc |-> "idle", sub |-> NoSub, admin |-> FALSE, row |-> 0, login |-> 0, next |-> "/", since |-> 0]
NoEntry == [row |-> 0, admin |-> FALSE, until |-> 0]
NoCookies == [state |-> 0, next |-> "/"]

Init ==
    /\ clock = 1 /\ disc = FALSE /\ bearers = 0 /\ sess = {} /\ learned = {}
    /\ idp = [admins |-> Subjects, live |-> Subjects, roleEnd |-> [s \in Subjects |-> 0], tokenEnd |-> [s \in Subjects |-> 0]]
    /\ rows = [n \in 1 .. Old |-> [sub |-> NoSub, admin |-> FALSE]]
    /\ browser = NoCookies /\ asked = <<>> /\ flows = [f \in Flows |-> Idle]
    /\ cache = [s \in Subjects |-> NoEntry]

-----------------------------------------------------------------------------
(* The IdP, and time.                                                      *)

Resolving(s) == \E f \in Flows : flows[f].sub = s /\ flows[f].pc # "info"

Ends == 2 * Cardinality(Subjects) - Cardinality(idp.admins) - Cardinality(idp.live)

\* The role of a subject is withdrawn.
Withdraw(s) ==
    /\ Ends < MaxEnds /\ s \in idp.admins /\ (Resolving(s) => "overlap" \in May)
    /\ idp' = [idp EXCEPT !.admins = @ \ {s}, !.roleEnd[s] = clock]
    /\ learned' = learned \ {s}
    /\ UNCHANGED <<clock, disc, rows, browser, asked, flows, bearers, sess, cache>>

RevokeToken(s) ==
    /\ Ends < MaxEnds /\ s \in idp.live /\ idp' = [idp EXCEPT !.live = @ \ {s}, !.tokenEnd[s] = clock]
    /\ UNCHANGED <<clock, disc, rows, browser, asked, flows, bearers, sess, cache, learned>>

Tick ==
    /\ clock < MaxClock /\ clock' = clock + 1
    /\ \A f \in Flows : flows[f] # Idle => clock < flows[f].since + Slow
    /\ UNCHANGED <<idp, disc, rows, browser, asked, flows, bearers, sess, cache, learned>>

-----------------------------------------------------------------------------
(* The login of a browser, up to the resolution of its user.               *)

Paths == {"/", "/deep"}
Put(f, r) == flows' = [flows EXCEPT ![f] = r]
At(f, pc) == flows[f].pc = pc

\* The document is fetched once; until then the IdP has to answer.
Discover == disc' \in {disc, TRUE}

\* A next cookie is set only for a path other than the dashboard.
SetFlowCookies(n, next) == browser' = [state |-> n, next |-> IF next = "/" THEN browser.next ELSE next]

Login(next) ==
    /\ Len(asked) < MaxLogins /\ Discover
    /\ IF disc' THEN asked' = Append(asked, next) /\ SetFlowCookies(Len(asked) + 1, next)
       ELSE UNCHANGED <<asked, browser>>
    /\ UNCHANGED <<clock, idp, rows, flows, bearers, sess, cache, learned>>

\* Flow cookies are gone after stateTTL.
ForgetCookies ==
    /\ browser # NoCookies /\ browser' = NoCookies
    /\ UNCHANGED <<clock, idp, disc, rows, asked, flows, bearers, sess, cache, learned>>

\* Mutant: the cookies are cleared before the path is read.
NextPathCleared(n) == "/"

\* The path the callback of login n will redirect to.
NextPath(n) == browser.next

\* The callback of login n, for the subject that signed in at the IdP: up to
\* the exchange of the code for an access token.
Callback(f, n, s) ==
    /\ flows[f] = Idle /\ browser.state # 0 /\ browser' = NoCookies
    /\ \/ browser.state = n
          /\ Put(f, [Idle EXCEPT !.kind = "login", !.pc = "info", !.sub = s, !.login = n, !.next = NextPath(n), !.since = clock])
       \/ flows' = flows  \* bad state, expired state or a failed exchange
    /\ UNCHANGED <<clock, idp, disc, rows, asked, bearers, sess, cache, learned>>

-----------------------------------------------------------------------------
(* A bearer token of the IdP.                                              *)

Fresh(s) == cache[s].row # 0 /\ clock <= cache[s].until

\* Mutant: the entry is good for as long as it is there.
CachedForGood(s) == cache[s].row # 0

\* bearerCache.get.
Cached(s) == Fresh(s)

\* A token that is not in the cache is resolved; one that is is admitted.
AuthenticateBearer(f, s) ==
    /\ flows[f] = Idle /\ ~Cached(s)
    /\ bearers < MaxBearers /\ bearers' = bearers + 1
    /\ cache' = [cache EXCEPT ![s] = NoEntry]
    /\ Put(f, [Idle EXCEPT !.kind = "bearer", !.pc = "info", !.sub = s, !.since = clock])
    /\ UNCHANGED <<clock, idp, disc, rows, browser, asked, sess, learned>>

-----------------------------------------------------------------------------
(* resolveOIDCUser, for both.                                              *)

HasRole(s) == s \in idp.admins

\* GetUserInfo: for a live token, with the role as it is now.
GetUserInfo(f) ==
    /\ At(f, "info") /\ Discover
    /\ LET s == flows[f].sub IN
       IF disc' /\ (flows[f].kind = "bearer" => s \in idp.live)
       THEN Put(f, [flows[f] EXCEPT !.pc = "lookup", !.admin = HasRole(s)])
       ELSE Put(f, Idle)
    /\ UNCHANGED <<clock, idp, rows, browser, asked, bearers, sess, cache, learned>>

RowsOf(s) == {n \in DOMAIN rows : rows[n].sub = s}
Linkable == RowsOf(NoSub)

GetUserByOIDC(f) ==
    /\ At(f, "lookup")
    /\ LET s == flows[f].sub IN
       IF RowsOf(s) # {} THEN Put(f, [flows[f] EXCEPT !.pc = "update", !.row = CHOOSE n \in RowsOf(s) : TRUE])
       ELSE Put(f, [flows[f] EXCEPT !.pc = IF s \in Verified THEN "list" ELSE "create"])
    /\ UNCHANGED <<clock, idp, disc, rows, browser, asked, bearers, sess, cache, learned>>

\* Mutant: the role is taken over when an account is created or linked only.
ProfileWithoutRole(f) == rows[flows[f].row]

Profile(f) == [rows[flows[f].row] EXCEPT !.admin = flows[f].admin]

\* The role follows the claim even when the row cannot be written.
UpdateOIDCUserProfile(f) ==
    /\ At(f, "update")
    /\ \/ rows' = [rows EXCEPT ![flows[f].row] = Profile(f)]
       \/ "fail" \in May /\ UNCHANGED rows
    /\ Put(f, [flows[f] EXCEPT !.pc = "done"])
    /\ UNCHANGED <<clock, idp, disc, browser, asked, bearers, sess, cache, learned>>

\* Exactly one candidate is linked; more than one is an error.
ListLinkableUsersByEmail(f) ==
    /\ At(f, "list")
    /\ CASE Linkable = {} -> Put(f, [flows[f] EXCEPT !.pc = "create"])
         [] \E n \in Linkable : Linkable = {n} -> Put(f, [flows[f] EXCEPT !.pc = "link", !.row = CHOOSE n \in Linkable : TRUE])
         [] OTHER -> Put(f, Idle)
    /\ UNCHANGED <<clock, idp, disc, rows, browser, asked, bearers, sess, cache, learned>>

\* Mutant: the candidate is linked whatever it has become.
StillFreeAlways(row) == TRUE

\* ... AND oidc_subject IS NULL.
StillFree(row) == rows[row].sub = NoSub

\* users_oidc_identity_key.
IdentityIsFree(s) == RowsOf(s) = {}

LinkUserOIDC(f) ==
    /\ At(f, "link")
    /\ IF StillFree(flows[f].row) /\ IdentityIsFree(flows[f].sub)
       THEN /\ rows' = [rows EXCEPT ![flows[f].row] = [sub |-> flows[f].sub, admin |-> flows[f].admin]]
            /\ Put(f, [flows[f] EXCEPT !.pc = "done"])
       ELSE Put(f, Idle) /\ UNCHANGED rows
    /\ UNCHANGED <<clock, idp, disc, browser, asked, bearers, sess, cache, learned>>

CreateOIDCUser(f) ==
    /\ At(f, "create")
    /\ IF IdentityIsFree(flows[f].sub)
       THEN /\ Len(rows) < MaxRows
            /\ rows' = Append(rows, [sub |-> flows[f].sub, admin |-> flows[f].admin])
            /\ Put(f, [flows[f] EXCEPT !.pc = "done", !.row = Len(rows) + 1])
       ELSE Put(f, Idle) /\ UNCHANGED rows
    /\ UNCHANGED <<clock, idp, disc, browser, asked, bearers, sess, cache, learned>>

\* A sign-in that knows of the withdrawal is over.
Learn(f) == learned' = IF flows[f].admin THEN learned ELSE learned \cup {flows[f].sub}

\* The end of Callback: a session, and the redirect.
CreateSession(f) ==
    /\ At(f, "done") /\ flows[f].kind = "login"
    /\ \/ /\ sess' = sess \cup {[row |-> flows[f].row, sub |-> flows[f].sub]}
          /\ Learn(f)
       \/ "fail" \in May /\ UNCHANGED <<sess, learned>>
    /\ Put(f, Idle)
    /\ UNCHANGED <<clock, idp, disc, rows, browser, asked, bearers, cache>>

\* sweepLocked, when the cache is full.
Swept ==
    IF Cardinality({s \in Subjects : cache[s].row # 0}) < CacheMax THEN cache
    ELSE [s \in Subjects |-> IF Fresh(s) THEN cache[s] ELSE NoEntry]

\* bearerCache.put: skipped when the cache is still full.
CachePut(s, e) ==
    IF Cardinality({t \in Subjects : Swept[t].row # 0}) < CacheMax THEN [Swept EXCEPT ![s] = e] ELSE Swept

\* The end of AuthenticateBearer.
FinishBearer(f) ==
    /\ At(f, "done") /\ flows[f].kind = "bearer"
    /\ cache' = CachePut(flows[f].sub, [row |-> flows[f].row, admin |-> flows[f].admin, until |-> clock + TTL])
    /\ Put(f, Idle) /\ Learn(f)
    /\ UNCHANGED <<clock, idp, disc, rows, browser, asked, bearers, sess>>

-----------------------------------------------------------------------------
(* The answer to a request, as of now.                                     *)

\* requireAuth with a session joins the row, and requireAdmin looks at it.
AdmitsAsAdmin(session) == rows[session.row].admin

\* ... and with a bearer the user is the one that was cached.
BearerAdmitsAsAdmin(s) == Cached(s) /\ cache[s].admin

Next ==
    \/ Tick \/ ForgetCookies
    \/ \E next \in Paths : Login(next)
    \/ \E s \in Subjects : Withdraw(s) \/ RevokeToken(s)
    \/ \E f \in Flows :
          \/ \E s \in Subjects : AuthenticateBearer(f, s) \/ \E n \in 1 .. Len(asked) : Callback(f, n, s)
          \/ GetUserInfo(f) \/ GetUserByOIDC(f) \/ UpdateOIDCUserProfile(f) \/ ListLinkableUsersByEmail(f)
          \/ LinkUserOIDC(f) \/ CreateOIDCUser(f) \/ CreateSession(f) \/ FinishBearer(f)

Spec == Init /\ [][Next]_vars

-----------------------------------------------------------------------------
(* Properties.                                                             *)

\* An identity has one account and an account one identity, for good: two
\* first sign-ins at the same time, by two identities with the same email or
\* twice by the same one, leave no second row and take no row over, so every
\* session and every cached bearer is of the row of the identity that signed
\* in (resolveOIDCUser: "a wrong link hands over the target's machines and
\* secrets").
AccountsApart ==
    /\ \A s \in Subjects : \A m, n \in RowsOf(s) : m = n
    /\ \A s \in sess : rows[s.row].sub = s.sub
    /\ \A s \in Subjects : cache[s].row # 0 => rows[cache[s].row].sub = s

\* What the IdP has withdrawn is admitted on a bearer for bearerCacheTTL and
\* the time a resolution takes, and no longer: neither a token that was
\* revoked nor the role of a live one.
BearerLag ==
    \A s \in Subjects :
        /\ Cached(s) => s \in idp.live \/ clock <= idp.tokenEnd[s] + TTL + Slow
        /\ BearerAdmitsAsAdmin(s) => s \in idp.admins \/ clock <= idp.roleEnd[s] + TTL + Slow

\* A role that is withdrawn is gone with the next sign-in, in a browser or
\* with a bearer, whichever way the identity finds its row: no session of any
\* browser, old or new, is admitted as an administrator's.
WithdrawnAtSignIn ==
    \A s \in sess : s.sub \in learned \ idp.admins => ~AdmitsAsAdmin(s)

\* A deep link survives the trip through the IdP, whatever other logins began
\* in the same browser.
DeepLinkSurvives ==
    \A f \in Flows : flows[f].login # 0 /\ asked[flows[f].login] # "/" => flows[f].next = asked[flows[f].login]

\* A login lands where it was asked to (Login: "Where to land afterwards. The
\* SPA sends the path the user actually asked for").
LandsWhereAsked ==
    \A f \in Flows : flows[f].login # 0 => flows[f].next = asked[flows[f].login]
=============================================================================
