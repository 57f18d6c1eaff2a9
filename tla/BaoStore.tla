------------------------------ MODULE BaoStore ------------------------------
(***************************************************************************)
(* The secret store on OpenBao (controlplane/internal/secrets/bao.go): a   *)
(* base token that expires and is acquired again, a policy and a child     *)
(* token per user, and operations on user and machine paths by concurrent  *)
(* requests.  All requests share one client, whose token a login replaces. *)
(***************************************************************************)
EXTENDS Naturals

CONSTANTS
    Users,       \* users; a path is a user's or the machines'
    Calls,       \* concurrent operations
    MaxTokens,   \* bound: base tokens issued
    MaxOps,      \* bound: operations
    May          \* "fail": a login fails; "lose": OpenBao loses its policies

MachinesPath == "machines"
Paths == Users \cup {MachinesPath}

VARIABLES
    base, issued, \* the client's base token, a number, and the last one issued
    dead,         \* base tokens 1..dead have expired
    policies,     \* policies OpenBao holds
    ensured,      \* BaoStore.ensured
    data,         \* whether there is a value at a path
    calls, ops    \* operations under way, and so far

vars == <<base, issued, dead, policies, ensured, data, calls, ops>>

Idle == [path |-> MachinesPath, pc |-> "idle", try |-> 1, since |-> 0, val |-> 0]

\* NewBaoStore logs in.
Init ==
    /\ base = 1 /\ issued = 1 /\ dead = 0 /\ policies = {} /\ ensured = {}
    /\ data = [p \in Paths |-> 0] /\ calls = [c \in Calls |-> Idle] /\ ops = 0

\* The base token is good for logins' policy: policies, child tokens, machine paths.
Alive == base > dead

Put(c, r) == calls' = [calls EXCEPT ![c] = r]
At(c, pc) == calls[c].pc = pc
Go(c, pc) == Put(c, [calls[c] EXCEPT !.pc = pc, !.try = 1])

\* Put (a value), Get and Delete (none).  splitPath tells users' paths.
Begin(c, p, v) ==
    /\ calls[c] = Idle /\ ops < MaxOps /\ ops' = ops + 1
    /\ Put(c, [Idle EXCEPT !.path = p, !.val = v, !.pc = IF p \in Users THEN "ensure" ELSE "do"])
    /\ UNCHANGED <<base, issued, dead, policies, ensured, data>>

\* Mutant: the policy is taken as written before it is.
EnsureEarly(c) ==
    /\ At(c, "ensure")
    /\ Go(c, IF calls[c].path \in ensured THEN "mint" ELSE "policy")
    /\ ensured' = ensured \cup {calls[c].path}
    /\ UNCHANGED <<base, issued, dead, policies, data, ops>>

\* ensurePolicy: the cache.
Ensure(c) ==
    /\ At(c, "ensure")
    /\ Go(c, IF calls[c].path \in ensured THEN "mint" ELSE "policy")
    /\ UNCHANGED <<base, issued, dead, policies, ensured, data, ops>>

\* A 403 on the base token: log in again, once.
Refused(c) == Put(c, IF calls[c].try = 1 THEN [calls[c] EXCEPT !.try = 2] ELSE [calls[c] EXCEPT !.pc = "denied"])

\* appRoleLogin; the new token is installed on the shared client.
Login(c) ==
    /\ calls[c].try = 2 /\ calls[c].since = 0 /\ calls[c].pc \in {"policy", "mint", "do"}
    /\ \/ /\ issued < MaxTokens /\ issued' = issued + 1 /\ base' = issued + 1
          /\ Put(c, [calls[c] EXCEPT !.since = dead + 1])
       \/ "fail" \in May /\ Put(c, [calls[c] EXCEPT !.pc = "failed"]) /\ UNCHANGED <<issued, base>>
    /\ UNCHANGED <<dead, policies, ensured, data, ops>>

\* Ready for an attempt: the first, or the one after a login.
Turn(c) == calls[c].try = 1 \/ calls[c].since # 0
Next1(c, pc) == Put(c, [calls[c] EXCEPT !.pc = pc, !.try = 1, !.since = 0])

PutPolicy(c) ==
    /\ At(c, "policy") /\ Turn(c)
    /\ IF Alive THEN /\ policies' = policies \cup {calls[c].path} /\ Next1(c, "ensured")
       ELSE Refused(c) /\ UNCHANGED policies
    /\ UNCHANGED <<base, issued, dead, ensured, data, ops>>

MarkEnsured(c) ==
    /\ At(c, "ensured") /\ ensured' = ensured \cup {calls[c].path} /\ Go(c, "mint")
    /\ UNCHANGED <<base, issued, dead, policies, data, ops>>

\* Mutant: the child token is set on the shared client.
MintShared(c) ==
    /\ At(c, "mint") /\ Turn(c)
    /\ IF Alive THEN base' = 0 /\ Next1(c, "child") ELSE Refused(c) /\ UNCHANGED base
    /\ UNCHANGED <<issued, dead, policies, ensured, data, ops>>

\* mintUserToken, and a clone of the client for the child token.
Mint(c) ==
    /\ At(c, "mint") /\ Turn(c)
    /\ IF Alive THEN Next1(c, "child") ELSE Refused(c)
    /\ UNCHANGED <<base, issued, dead, policies, ensured, data, ops>>

Effect(c) == data' = [data EXCEPT ![calls[c].path] = calls[c].val] /\ Next1(c, "ok")

\* The operation itself, with the child token: a 403 is answered.
DoUser(c) ==
    /\ At(c, "child")
    /\ IF calls[c].path \in policies THEN Effect(c) ELSE Go(c, "locked") /\ UNCHANGED data
    /\ UNCHANGED <<base, issued, dead, policies, ensured, ops>>

\* Or with the base token.
DoBase(c) ==
    /\ At(c, "do") /\ Turn(c)
    /\ IF Alive THEN Effect(c) ELSE Refused(c) /\ UNCHANGED data
    /\ UNCHANGED <<base, issued, dead, policies, ensured, ops>>

Return(c) ==
    /\ calls[c].pc \in {"ok", "denied", "failed", "locked"} /\ Put(c, Idle)
    /\ UNCHANGED <<base, issued, dead, policies, ensured, data, ops>>

-----------------------------------------------------------------------------
\* The base token's TTL ends.
Expire ==
    /\ dead < issued /\ dead' = issued
    /\ UNCHANGED <<base, issued, policies, ensured, data, calls, ops>>

LosePolicies ==
    /\ policies' = IF "lose" \in May THEN {} ELSE policies
    /\ UNCHANGED <<base, issued, dead, ensured, data, calls, ops>>

\* The control plane is started again: the cache is empty, a login follows.
Restart ==
    /\ issued < MaxTokens /\ issued' = issued + 1 /\ base' = issued + 1
    /\ ensured' = {} /\ calls' = [c \in Calls |-> Idle]
    /\ UNCHANGED <<dead, policies, data, ops>>

Next ==
    \/ Expire \/ LosePolicies \/ Restart
    \/ \E c \in Calls :
        \/ \E p \in Paths, v \in {0, 1} : Begin(c, p, v)
        \/ Ensure(c) \/ Login(c) \/ PutPolicy(c) \/ MarkEnsured(c) \/ Mint(c)
        \/ DoUser(c) \/ DoBase(c) \/ Return(c)

Spec == Init /\ [][Next]_vars

-----------------------------------------------------------------------------
\* "A control plane outliving the token TTL keeps working" (NewBaoStore): an
\* operation is refused for want of a base token only if another one expired
\* between its own login and its second attempt, whatever the other operations
\* on the shared client did.
HealsItself == \A c \in Calls : calls[c].pc = "denied" => dead >= calls[c].since

\* A user is not locked out of the user's own secrets: a child token is used only
\* once its policy is in place.
NotLockedOut == \A c \in Calls : calls[c].pc # "locked"
=============================================================================
