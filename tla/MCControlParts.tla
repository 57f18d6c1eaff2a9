--------------------------- MODULE MCControlParts ---------------------------
(***************************************************************************)
(* One host's driver (FirecrackerDriver, extended) and its firewall, the   *)
(* fleet of hosts, the git surface of a machine and the dashboard's stream *)
(* of machines, on small instances in one run: a behaviour is a behaviour  *)
(* of one of them, and the variables of the others keep their initial      *)
(* values.                                                                 *)
(***************************************************************************)
EXTENDS MCFirecrackerDriver

CONSTANTS
    FleetMay, WorktreeMay, PullMay, SettingsMay, NetMay, StreamMay, \* the May of each
    Hosts, Guests, Total, Need, BlipThreshold, MaxFaults, \* of Fleet, with its Machines
    Files, Weight, DiffCap, Envelope, FrameLimit,         \* of Worktree
    Items, PageSize, MaxHead, MaxTokens,                  \* of PullRequests
    Confs,                                                \* the Calls of GuestSettings
    MaxEdits,                                             \* of Worktree and GuestSettings
    MaxDrops,                                             \* of these two and EventStream
    Streamers, Buf, Recent, MaxReplay, MaxEvents, MaxFails, \* of EventStream, with its Writers
    Modes,                                                \* of HostNetwork
    Reqs       \* the Handlers of Worktree and PullRequests, and the Jobs of HostNetwork

VARIABLES
    part,
    active, url, addr, up, cache, row, vm, create, sweep, blips, faults,
    chan, drops, cp, req, res, guest, work, index, edits, commits, refs, cur, locked, shown,
    remote, pat, grant, valid, stored, pr, ppc, pop, tok, head, page, got, ans, seen, calls,
    ident, attribution, schan, sdrops, spc, sgot, last, gitconfig, settings, sseen, marker, sedits,
    rules, link, njob, hup,
    erow, elog, enext, ewriter, econn, sub, list, sent, lastId, view, eseen, since, edrops, fails

\* What three hosts have and two machines need, what a change of a file adds to a diff,
\* and how many files and check runs the heads of a pull request have.
Totals == <<[vcpus |-> 2, mem |-> 3], [vcpus |-> 2, mem |-> 1], [vcpus |-> 2, mem |-> 1]>>
Needs == [a |-> [vcpus |-> 1, mem |-> 1], b |-> [vcpus |-> 2, mem |-> 1]]
Weights == [f1 |-> 1, f2 |-> 2]
ItemCounts == <<2, 3>>

\* The policies that the two machines may have.
Policies == [a |-> {"allow_all", "allow_domains"}, b |-> {"deny_all", "deny_domains"}]

F == INSTANCE Fleet WITH Machines <- Guests, May <- FleetMay

W == INSTANCE Worktree WITH Handlers <- Reqs, May <- WorktreeMay

P == INSTANCE PullRequests WITH Handlers <- Reqs, May <- PullMay, alive <- grant, pc <- ppc, op <- pop

S == INSTANCE GuestSettings WITH
        Calls <- Confs, May <- SettingsMay,
        chan <- schan, drops <- sdrops, pc <- spc, got <- sgot, seen <- sseen, edits <- sedits

N == INSTANCE HostNetwork WITH
        Machines <- Guests, Jobs <- Reqs, May <- NetMay,
        job <- njob, up <- hup

E == INSTANCE EventStream WITH
        Machines <- Guests, Writers <- Streamers, May <- StreamMay,
        row <- erow, log <- elog, next <- enext, writer <- ewriter, conn <- econn, seen <- eseen, drops <- edrops

fvars == <<active, url, addr, up, cache, row, vm, create, sweep, blips, faults>>
wvars == <<chan, drops, cp, req, res, guest, work, index, edits, commits, refs, cur, locked, shown>>
pvars == <<remote, pat, grant, valid, stored, pr, ppc, pop, tok, head, page, got, ans, seen, calls>>
svars == <<ident, attribution, schan, sdrops, spc, sgot, last, gitconfig, settings, sseen, marker, sedits>>
nvars == <<rules, link, njob, hup>>
evars == <<erow, elog, enext, ewriter, econn, sub, list, sent, lastId, view, eseen, since, edrops, fails>>
all == <<part, vars, fvars, wvars, pvars, svars, nvars, evars>>

ControlInit ==
    /\ part \in {"driver", "fleet", "worktree", "pulls", "settings", "network", "stream"}
    /\ Init /\ F!Init /\ W!Init /\ P!Init /\ S!Init /\ N!Init /\ E!Init
    /\ part # "pulls" => remote = "none" /\ ~pat

DriverStep == part = "driver" /\ Next /\ UNCHANGED <<part, fvars, wvars, pvars, svars, nvars, evars>>
FleetStep == part = "fleet" /\ F!Next /\ UNCHANGED <<part, vars, wvars, pvars, svars, nvars, evars>>
WorktreeStep == part = "worktree" /\ W!Next /\ UNCHANGED <<part, vars, fvars, pvars, svars, nvars, evars>>
PullsStep == part = "pulls" /\ P!Next /\ UNCHANGED <<part, vars, fvars, wvars, svars, nvars, evars>>
SettingsStep == part = "settings" /\ S!Next /\ UNCHANGED <<part, vars, fvars, wvars, pvars, nvars, evars>>
NetworkStep == part = "network" /\ N!Next /\ UNCHANGED <<part, vars, fvars, wvars, pvars, svars, evars>>
StreamStep == part = "stream" /\ E!Next /\ UNCHANGED <<part, vars, fvars, wvars, pvars, svars, nvars>>

ControlNext == DriverStep \/ FleetStep \/ WorktreeStep \/ PullsStep \/ SettingsStep \/ NetworkStep \/ StreamStep

ControlSpec == ControlInit /\ [][ControlNext]_all

Symmetry == Permutations(Reqs)

-----------------------------------------------------------------------------
(* What the components promise, each explained where it is defined.        *)

\* With creates one at a time, no host runs more than it has (chooseHost).
NoOvercommit == part = "fleet" => F!NoOvercommit

\* A failure is reported only where there is one: a machine that runs is not taken
\* for lost by a list that went through, a call fails only if its agent is down or
\* has moved (Registry), and a user is asked to reconnect only if the grant is gone
\* or a fresh token was rejected too (callGitHub).
NoFalseAlarm ==
    /\ F!NotMistakenForLost
    /\ F!CallsFollowTheRow
    /\ P!OpenReconnectsLast

\* Whatever two requests, an agent and the user do to one worktree, a commit holds
\* only what it names, and the answer says whether one was made (gitCommit).
CommitsTell == part = "worktree" => W!CommitOnlyNamed /\ W!AnswersAreTrue

\* Nothing a user made is taken away: branches, uncommitted work (gitBranch), and in
\* the settings of the coding agent what is not the machine's own
\* (applyClaudeConfig).
UserWorkKept ==
    /\ W!BranchStays
    /\ W!NoWorkLost
    /\ S!UserContentKept
    /\ S!TheirTextWins

\* Pull requests go to the provider of the project's remote, listings are whole, and
\* the answer to a merge says whether this request made it (pulls.go, handleGitPR).
PullsTell == part = "pulls" => P!RightProvider /\ P!ListingsWhole /\ P!MergeAnswersTrue

\* When reconfigurations follow one another, a machine ends up with the identity and
\* the attribution of the rows, and what the agent wrote is marked as its own
\* (Manager.configure, applyClaudeConfig).
SettingsApplied == part = "settings" => S!IdentityApplied /\ S!AttributionApplied /\ S!OursAreMarked

\* At every moment of any boot, failure or removal guests are confined and have the
\* egress of their policy, by what its names resolved to at their boot, the agent is reachable when nobody replaces the shared
\* rules, and a destroyed machine leaves none behind (firecracker/network.go).
NetworkHolds == part = "network" => N!GuestsConfined /\ N!PolicyHolds /\ N!AgentReachable /\ N!NoRuleLeft

\* A dashboard that has been sent everything shows the machines as their rows are and
\* has missed no event since its snapshot, over any reconnects (handleMachineEvents).
StreamCurrent == part = "stream" => E!ViewIsCurrent /\ E!NoEventLost

-----------------------------------------------------------------------------
(* What comments of the code claim and the code does not keep, for the     *)
(* instances that the README lists.                                        *)

\* See Fleet, where each is stated and explained.
NotMistakenForLost == F!NotMistakenForLost
HealthyKept == F!HealthyKept

\* See Worktree.
OwnCommitReported == part = "worktree" => W!OwnCommitReported
ReviewedIsCommitted == part = "worktree" => W!ReviewedIsCommitted
DiffFitsFrame == W!DiffFitsFrame
IndexUnlocked == part = "worktree" => W!IndexUnlocked

\* See PullRequests.
ReconnectOnlyIfDead == P!ReconnectOnlyIfDead
MergedIsReviewed == part = "pulls" => P!MergedIsReviewed
ListingsOfOneHead == part = "pulls" => P!ListingsOfOneHead

\* See GuestSettings.
HandBlankedKept == S!HandBlankedKept

\* See HostNetwork.
AgentAlwaysReachable == N!AgentAlwaysReachable
DeniedIsDenied == part = "network" => N!DeniedIsDenied

\* See EventStream.
GapRecovered == E!GapRecovered
=============================================================================
