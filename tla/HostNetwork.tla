---------------------------- MODULE HostNetwork -----------------------------
(***************************************************************************)
(* The firewall of a host that runs machines                               *)
(* (nodeagent/internal/driver/firecracker/network.go): two chains of nft   *)
(* rules that drop what no rule accepts, shared by all machines and by the *)
(* agent's own port.  A boot replaces the shared rules, then its tap's; a  *)
(* boot that fails and a destroy remove the tap's.  Each rule is added and *)
(* deleted by a command of its own, and the boots of several machines      *)
(* interleave.                                                             *)
(*                                                                         *)
(* A boot adds a rule at most once, so that who added it stands for its    *)
(* handle.  One job at a time is at a machine (FirecrackerDriver has two), *)
(* so the rules of a tap change in one step a chain; those all boots share *)
(* change one by one.  The private ranges are treated alike and are one    *)
(* destination.  Of the names a policy lists, one stands for all           *)
(* ("site"): each is looked up when the machine boots, and is passed over  *)
(* when it cannot be resolved.                                             *)
(***************************************************************************)
EXTENDS Naturals, Sequences, FiniteSets

CONSTANTS
    Machines,   \* each has a tap of its own, of its name
    Jobs,       \* boots and destroys, each done once
    Modes,      \* the policies each machine may have: "allow_all", "deny_all",
                \* "allow_domains", "deny_domains"
    May         \* "fail": a command of the shared rules fails; "unlisted": the list of
                \* a chain cannot be read

VARIABLES
    rules,      \* all rules, in order
    link,       \* the taps that exist
    job,
    up          \* the machines whose VMM runs, with the job that launched it

vars == <<rules, link, job, up>>

Idle == [pc |-> "idle", m |-> "none", mode |-> "none", ips |-> {}, left |-> <<>>, doomed |-> {}, down |-> FALSE]
Busy(j) == job[j].pc \notin {"idle", "done"}

Init ==
    /\ rules = <<>> /\ link = {} /\ up = [m \in Machines |-> "none"]
    /\ job = [j \in Jobs |-> Idle]

Rule(j, tag, chain, what) == [by |-> j, tag |-> tag, chain |-> chain, what |-> what]

-----------------------------------------------------------------------------
(* Rules.                                                                  *)

\* mgmtInputRules: replies, and the agent's port on the management interface.
mgmtInputRules == <<"est", "agent">>

\* allowForwardInFilter: the same in the chain of the host's own firewall, which
\* drops too what no rule accepts.
allowForwardInFilter == <<<<"filter", "out">>, <<"filter", "back">>>>

\* resolveDomainIPs, of the names the policy lists: those that resolve.
resolveDomainIPs(mode) == IF mode \in {"allow_domains", "deny_domains"} THEN SUBSET {"site"} ELSE {{}}

\* A rule for each resolved address.
OfEach(ips, what) == IF ips = {} THEN <<>> ELSE <<<<"forward", what>>>>

\* Mutant: the accept of a tap comes before its drops.
networkPolicyRulesOpenFirst(mode, ips) ==
    <<<<"input", "est">>, <<"input", "drop">>, <<"forward", "est">>, <<"forward", "back">>>>
        \o (CASE mode = "deny_all" -> <<<<"forward", "private">>>>
             [] mode = "allow_domains" -> OfEach(ips, "site") \o <<<<"forward", "private">>>>
             [] mode = "deny_domains" -> OfEach(ips, "nosite") \o <<<<"forward", "out">>, <<"forward", "private">>>>
             [] OTHER -> <<<<"forward", "out">>, <<"forward", "private">>>>)
        \o <<<<"postrouting", "nat">>>> \o allowForwardInFilter

\* networkPolicyRules: the input chain, the forward chain, and the NAT.
networkPolicyRules(mode, ips) ==
    <<<<"input", "est">>, <<"input", "drop">>, <<"forward", "est">>, <<"forward", "back">>, <<"forward", "private">>>>
        \o (CASE mode = "deny_all" -> <<>>
             [] mode = "allow_domains" -> OfEach(ips, "site")
             [] mode = "deny_domains" -> OfEach(ips, "nosite") \o <<<<"forward", "out">>>>
             [] OTHER -> <<<<"forward", "out">>>>)
        \o <<<<"postrouting", "nat">>>> \o allowForwardInFilter

\* A packet: the device it comes in on, where it goes, and whether it belongs to a
\* connection that is established.
Matches(r, p) ==
    CASE r.what = "est" -> p.est /\ (r.tag # "global" => p.from = r.tag)
      [] r.what = "agent" -> p.from = "mgmt" /\ p.to = "agent"
      [] r.what = "back" -> p.est /\ p.to = r.tag
      [] r.what = "private" -> p.from = r.tag /\ p.to = "private"
      [] r.what \in {"site", "nosite"} -> p.from = r.tag /\ p.to = "site"
      [] OTHER -> p.from = r.tag

\* The first rule of the chain that matches decides; without one, the chain's policy.
Accepted(chain, p) ==
    LET hits == {i \in DOMAIN rules : rules[i].chain = chain /\ Matches(rules[i], p)}
        first == CHOOSE i \in hits : \A k \in hits : i <= k
    IN  hits # {} /\ rules[first].what \in {"est", "agent", "back", "site", "out"}

\* A packet that is routed passes both forward chains.
Forwarded(p) == Accepted("forward", p) /\ Accepted("filter", p)

-----------------------------------------------------------------------------
(* Jobs.                                                                   *)

Set(j, r) == job' = [job EXCEPT ![j] = r]
Free(m) == \A k \in Jobs : Busy(k) => job[k].m # m

\* setupNetworking, for the policy in the machine's record.
Boot(j, m, mode) ==
    /\ job[j] = Idle /\ up[m] = "none" /\ Free(m)
    /\ Set(j, [Idle EXCEPT !.pc = "shared", !.m = m, !.mode = mode])
    /\ UNCHANGED <<rules, link, up>>

\* Destroy kills the VMM first.
Destroy(j, m) ==
    /\ job[j] = Idle /\ m \in link /\ Free(m)
    /\ up' = [up EXCEPT ![m] = "none"]
    /\ Set(j, [Idle EXCEPT !.pc = "input", !.m = m, !.down = TRUE])
    /\ UNCHANGED <<rules, link>>

\* The VMM stops; its tap and rules stay.
Stop(m) ==
    /\ up[m] # "none" /\ up' = [up EXCEPT ![m] = "none"]
    /\ UNCHANGED <<rules, link, job>>

\* The chains of deleteTapRules, in order; deleteRulesByComment has each of them
\* listed, which finds nothing when it cannot be read.
Chains == {"input", "forward", "postrouting", "filter"}
After(chain) ==
    CASE chain = "input" -> "forward" [] chain = "forward" -> "postrouting" [] chain = "postrouting" -> "filter"
      [] OTHER -> "link"

\* Mutant: the tag is looked for without its quotes, and one tap's name begins with
\* another's.
TaggedLoosely(chain, tag) == {r \in {rules[i] : i \in DOMAIN rules} : r.chain = chain /\ (r.tag = "global" <=> tag = "global")}

\* Mutant: what a prior boot left in the forward chain stays.
TaggedInInput(chain, tag) == {r \in {rules[i] : i \in DOMAIN rules} : r.chain = chain /\ r.tag = tag /\ chain = "input"}

Tagged(chain, tag) == {r \in {rules[i] : i \in DOMAIN rules} : r.chain = chain /\ r.tag = tag}
Listed(chain, tag) == {Tagged(chain, tag)} \cup (IF "unlisted" \in May THEN {{}} ELSE {})

Without(gone) ==
    LET kept[i \in 0 .. Len(rules)] ==
            IF i = 0 THEN <<>>
            ELSE IF rules[i] \in gone THEN kept[i - 1] ELSE Append(kept[i - 1], rules[i])
    IN  kept[Len(rules)]

\* deleteTapRules, a chain.
DeleteTap(j) ==
    /\ job[j].pc \in Chains
    /\ \E gone \in Listed(job[j].pc, job[j].m) : rules' = Without(gone)
    /\ Set(j, [job[j] EXCEPT !.pc = After(@)])
    /\ UNCHANGED <<link, up>>

\* ensureNftTable lists the shared rules ...
ListShared(j) ==
    /\ job[j].pc = "shared"
    /\ \E doomed \in Listed("input", "global") :
          Set(j, [job[j] EXCEPT !.doomed = doomed, !.pc = "delete", !.left = mgmtInputRules])
    /\ UNCHANGED <<rules, link, up>>

\* ... deletes each by its handle, in order, passing over one that another boot has
\* deleted by now ...
DeleteShared(j) ==
    LET here == {i \in DOMAIN rules : rules[i] \in job[j].doomed}
        first == {rules[i] : i \in {i \in here : \A k \in here : i <= k}}
    IN  /\ job[j].pc = "delete" /\ rules' = Without(first)
        /\ Set(j, IF here = {} THEN [job[j] EXCEPT !.doomed = {}, !.pc = "addshared"]
                  ELSE [job[j] EXCEPT !.doomed = @ \ first])
        /\ UNCHANGED <<link, up>>

\* Mutant: the shared rules are there after the first of them.
AddSharedOnce(j) ==
    /\ job[j].pc = "addshared"
    /\ rules' = Append(rules, Rule(j, "global", "input", Head(job[j].left)))
    /\ Set(j, [job[j] EXCEPT !.pc = "input", !.left = <<>>])
    /\ UNCHANGED <<link, up>>

\* ... and adds them again, one by one.
AddShared(j) ==
    /\ job[j].pc = "addshared"
    /\ rules' = Append(rules, Rule(j, "global", "input", Head(job[j].left)))
    /\ Set(j, [job[j] EXCEPT !.left = Tail(@), !.pc = IF Len(job[j].left) = 1 THEN "input" ELSE @])
    /\ UNCHANGED <<link, up>>

\* The tap, its address and route, and the addresses of the names; or, of a teardown,
\* its removal.
Link(j) ==
    /\ job[j].pc = "link"
    /\ IF job[j].down THEN link' = link \ {job[j].m} /\ Set(j, [Idle EXCEPT !.pc = "done"])
       ELSE /\ link' = link \cup {job[j].m}
            /\ \E ips \in resolveDomainIPs(job[j].mode) :
                  Set(j, [job[j] EXCEPT !.pc = "add", !.ips = ips, !.left = networkPolicyRules(job[j].mode, ips)])
    /\ UNCHANGED <<rules, up>>

\* setupTap's rules; when they are all there, the VMM is launched.
Add(j) ==
    LET new == [i \in DOMAIN job[j].left |-> Rule(j, job[j].m, job[j].left[i][1], job[j].left[i][2])] IN
    /\ job[j].pc = "add"
    /\ rules' = rules \o new
    /\ Set(j, [job[j] EXCEPT !.pc = "done", !.left = <<>>]) /\ up' = [up EXCEPT ![job[j].m] = j]
    /\ UNCHANGED link

\* A command fails, some of its kind being through: boot cleans up (cleanupHost,
\* teardownTap).
Fails(j) ==
    /\ ~job[j].down
    /\ \/ job[j].pc = "link" /\ UNCHANGED rules
       \/ /\ job[j].pc = "add"
          /\ \E n \in DOMAIN job[j].left :
                rules' = rules \o [i \in 1 .. n - 1 |-> Rule(j, job[j].m, job[j].left[i][1], job[j].left[i][2])]
       \/ job[j].pc = "addshared" /\ "fail" \in May /\ UNCHANGED rules
    /\ Set(j, [Idle EXCEPT !.pc = "input", !.m = job[j].m, !.down = TRUE])
    /\ UNCHANGED <<link, up>>

Next ==
    \/ \E j \in Jobs :
          \/ \E m \in Machines : (\E mode \in Modes[m] : Boot(j, m, mode)) \/ Destroy(j, m)
          \/ ListShared(j) \/ DeleteShared(j) \/ AddShared(j) \/ DeleteTap(j) \/ Link(j) \/ Add(j) \/ Fails(j)
    \/ \E m \in Machines : Stop(m)

Spec == Init /\ [][Next]_vars

-----------------------------------------------------------------------------
(* Properties.                                                             *)

New(from, to) == [from |-> from, to |-> to, est |-> FALSE]
Reply(from, to) == [from |-> from, to |-> to, est |-> TRUE]

\* A machine that runs reaches neither the host nor a private range, at any moment
\* of any other machine's boot, failure or removal ("no mode ever grants guest ->
\* other-guest/host access").
GuestsConfined == \A m \in Machines : up[m] # "none" =>
    /\ ~Accepted("input", New(m, "agent")) /\ ~Forwarded(New(m, "private"))

\* And it reaches of the internet what its policy says of the addresses its names
\* had at this boot, and has the answers, whatever it was allowed in its earlier
\* boots.  ("An IP-snapshot allowlist": a name that did not resolve is not in it.)
Allows(mode, ips, to) == CASE mode = "allow_all" -> TRUE [] mode = "deny_all" -> FALSE
                           [] mode = "allow_domains" -> to \in ips [] OTHER -> to \notin ips
PolicyHolds == \A m \in Machines : up[m] # "none" =>
    /\ \A to \in {"site", "elsewhere"} : Forwarded(New(m, to)) <=> Allows(job[up[m]].mode, job[up[m]].ips, to)
    /\ Forwarded(Reply("egress", m))
    /\ \E i \in DOMAIN rules : rules[i].tag = m /\ rules[i].what = "nat"

\* What a policy denies by name is not reached.  Fails: a name that cannot be resolved
\* when the machine boots is skipped, for as long as it runs.
DeniedIsDenied == \A m \in Machines :
    up[m] # "none" /\ job[up[m]].mode = "deny_domains" => ~Forwarded(New(m, "site"))

\* The control plane reaches the agent when nobody is replacing the shared rules,
\* however their replacements have interleaved.  Fails when a command of them may
\* fail: the boot ends and the rules stay short.
SharedQuiet == \A j \in Jobs : job[j].pc \notin {"shared", "delete", "addshared"}
AgentReachable == rules # <<>> /\ SharedQuiet => Accepted("input", New("mgmt", "agent"))

\* And in between ("idempotently replaced on every call so the chain stays
\* consistent").  Fails: they are gone while they are being replaced.
AgentAlwaysReachable ==
    [][Accepted("input", New("mgmt", "agent")) => Accepted("input", New("mgmt", "agent"))']_vars

\* A destroyed machine leaves no rule behind.
NoRuleLeft == \A i \in DOMAIN rules : rules[i].tag = "global" \/ rules[i].tag \in link \/ \E j \in Jobs : Busy(j) /\ job[j].m = rules[i].tag
=============================================================================
