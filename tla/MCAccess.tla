------------------------------ MODULE MCAccess ------------------------------
(***************************************************************************)
(* The components that decide who gets in (Gateway, extended, and four     *)
(* others), on small instances in one run: a behaviour is a behaviour of   *)
(* one of them, and the variables of the others keep their initial values. *)
(***************************************************************************)
EXTENDS Gateway, TLC

CONSTANTS
    Subjects, Verified, Flows, Old, MaxRows, MaxLogins, MaxBearers, MaxEnds, MaxClock, TTL, Slow, CacheMax,
    SignInMay,                              \* of SignIn, with its May
    Keys, Unit, Capacity, Rate, LimitClock, \* of RateLimit, with its MaxClock
    Cap, MaxFleet, MaxChanges, MaxViews,    \* of AdminConsole
    Sess, Pats, Users, Requests, SessionTTL, RefreshThreshold, TouchThreshold, Lives, MaxNow  \* of Credentials, with its TTL

\* One user, who owns the session and the machine.
OneOwner == [x \in Sessions \cup Machines |-> "u1"]

VARIABLES
    part,
    clock, idp, disc, rows, browser, asked, flows, bearers, sess, cache, learned,
    now, buckets, passed,
    fleet, changes, view, views,
    time, creds, reqs, last

S == INSTANCE SignIn WITH May <- SignInMay

R == INSTANCE RateLimit WITH MaxClock <- LimitClock

A == INSTANCE AdminConsole

C == INSTANCE Credentials WITH TTL <- SessionTTL

svars == <<clock, idp, disc, rows, browser, asked, flows, bearers, sess, cache, learned>>
rvars == <<now, buckets, passed>>
avars == <<fleet, changes, view, views>>
cvars == <<time, creds, reqs, last>>
all == <<part, vars, svars, rvars, avars, cvars>>

AccessInit ==
    /\ part \in {"signin", "gateway", "limit", "admin", "creds"}
    /\ S!Init /\ Init /\ R!Init /\ A!Init /\ C!Init
    /\ part # "admin" => fleet = 0

SignInStep == part = "signin" /\ S!Next /\ UNCHANGED <<part, vars, rvars, avars, cvars>>
GatewayStep == part = "gateway" /\ Next /\ UNCHANGED <<part, svars, rvars, avars, cvars>>
LimitStep == part = "limit" /\ R!Next /\ UNCHANGED <<part, svars, vars, avars, cvars>>
AdminStep == part = "admin" /\ A!Next /\ UNCHANGED <<part, svars, vars, rvars, cvars>>
CredsStep == part = "creds" /\ C!Next /\ UNCHANGED <<part, svars, vars, rvars, avars>>

AccessNext == SignInStep \/ GatewayStep \/ LimitStep \/ AdminStep \/ CredsStep

AccessSpec == AccessInit /\ [][AccessNext]_all

\* Flows and Conns are the same requests.
Symmetry == Permutations(Subjects) \cup Permutations(Flows \cup Conns)

-----------------------------------------------------------------------------
(* What the components promise, each explained where it is defined.        *)

\* Whatever sign-ins, bearers and withdrawals overlap: accounts are apart, what the
\* IdP withdrew is admitted on a bearer no longer than its cache and not at all after
\* the next sign-in, and a deep link survives the trip (auth/).
AccountsHold ==
    part = "signin" => S!AccountsApart /\ S!BearerLag /\ S!WithdrawnAtSignIn /\ S!DeepLinkSurvives

\* Limits at their boundaries: no more than the bucket's rate passes and a quiet key
\* gets its burst back (ratelimit.go), a used session is never nearer to its end than
\* the sliding window allows and the last use shown is off by no more than the
\* throttle (session/, token/), and the console's totals are those of the list it shows
\* or say that it is cut (admin.go).
LimitsHold ==
    /\ part = "limit" => R!RateHolds /\ R!QuietRefills
    /\ part = "creds" => C!SessionSlides /\ C!LastUsedTells
    /\ part = "admin" => A!OverviewAddsUp

-----------------------------------------------------------------------------
(* What comments of the code claim and the code does not keep, for the     *)
(* instances that the README lists.                                        *)

\* See SignIn, where it is stated and explained.
LandsWhereAsked == part = "signin" => S!LandsWhereAsked

\* See AdminConsole.
OverviewAgrees == part = "admin" => A!OverviewAgrees
=============================================================================
