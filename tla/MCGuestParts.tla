---------------------------- MODULE MCGuestParts ----------------------------
(***************************************************************************)
(* What a machine keeps and what is kept for it: terminals, the persistent *)
(* disk, the user's secrets in the guest, and the two stores behind them,  *)
(* on small instances in one run: a behaviour is a behaviour of one of     *)
(* them, and the variables of the others keep their initial values.        *)
(***************************************************************************)
EXTENDS Naturals, TLC

CONSTANTS
    Callers,                                          \* Clients of Terminals, Callers of GitCredentials, Calls of BaoStore
    MaxBoots, MaxFaults, DiskFaults,                  \* of GuestDisk, with its May
    MaxPairs, MaxClock, MaxCalls, Life, Skew, TTL, GitMay,      \* of GitCredentials, with its May
    Users, MaxTokens, MaxOps, BaoMay,                 \* of BaoStore, with its May
    Machines, SubnetSize, MaxPid, MaxStops, Serial, PidLost, MaxRestarts, \* of DevDriver
    MaxSessions, MaxBytes, MaxChunk, QueueCap, RingSize, \* of Terminals
    Providers, Subscription, WithSetup, LoginKeys, MaxRequests, MaxStarts, MaxLaunches, MaxAttempts,
    SecretFaults, SecretsMay                          \* of UserSecrets, the last two its MaxFaults and May

VARIABLES
    part,
    registry, spawned, life, written, rings, subs, conn,
    dpc, mode, owner, dotfiles, diskKeys, etcKeys, links, mounted, binds, sshd, first, boots, kv, acked, came, skewed, boot, gen, faults,
    ver, sec, rows, keys, sshOn, ops, inj, running, spent, guest, env, home, setups, spoiled, wins, broke,
    clock, gh, user, link, pair, lock, gcalls, began, cache, served,
    base, issued, dead, policies, ensured, data, bcalls, bops,
    rec, child, procs, ensures, dboots, stops, destroys, up, restarts

T == INSTANCE Terminals WITH Clients <- Callers

D == INSTANCE GuestDisk WITH May <- DiskFaults, pc <- dpc

U == INSTANCE UserSecrets WITH MaxFaults <- SecretFaults, May <- SecretsMay

G == INSTANCE GitCredentials WITH May <- GitMay, sec <- pair, calls <- gcalls

B == INSTANCE BaoStore WITH Calls <- Callers, May <- BaoMay, calls <- bcalls, ops <- bops

V == INSTANCE DevDriver WITH boots <- dboots

tvars == <<registry, spawned, life, written, rings, subs, conn>>
dvars == <<dpc, mode, owner, dotfiles, diskKeys, etcKeys, links, mounted, binds, sshd, first, boots, kv, acked, came, skewed, boot, gen, faults>>
uvars == <<ver, sec, rows, keys, sshOn, ops, inj, running, spent, guest, env, home, setups, spoiled, wins, broke>>
gvars == <<clock, gh, user, link, pair, lock, gcalls, began, cache, served>>
bvars == <<base, issued, dead, policies, ensured, data, bcalls, bops>>
vvars == <<rec, child, procs, ensures, dboots, stops, destroys, up, restarts>>
vars == <<part, tvars, dvars, uvars, gvars, bvars, vvars>>

Init ==
    /\ part \in {"terminals", "disk", "secrets", "git", "bao", "dev"}
    /\ T!Init /\ D!Init /\ U!Init /\ G!Init /\ B!Init /\ V!Init
    /\ part # "disk" => owner.top = "absent"
    /\ part # "secrets" => ~sshOn

TerminalsStep == part = "terminals" /\ T!Next /\ UNCHANGED <<part, dvars, uvars, gvars, bvars, vvars>>
DiskStep == part = "disk" /\ D!Next /\ UNCHANGED <<part, tvars, uvars, gvars, bvars, vvars>>
SecretsStep == part = "secrets" /\ U!Next /\ UNCHANGED <<part, tvars, dvars, gvars, bvars, vvars>>
GitStep == part = "git" /\ G!Next /\ UNCHANGED <<part, tvars, dvars, uvars, bvars, vvars>>
BaoStep == part = "bao" /\ B!Next /\ UNCHANGED <<part, tvars, dvars, uvars, gvars, vvars>>
DevStep == part = "dev" /\ V!Next /\ UNCHANGED <<part, tvars, dvars, uvars, gvars, bvars>>

Next == TerminalsStep \/ DiskStep \/ SecretsStep \/ GitStep \/ BaoStep \/ DevStep

Spec == Init /\ [][Next]_vars

Symmetry == Permutations(Callers)

-----------------------------------------------------------------------------
(* What the components promise, each explained where it is defined.        *)

\* However output, attaches and the shell's exit interleave, a client sees one
\* unbroken stretch of the output and its end before the exit, the scrollback is the
\* end of the output, and no shell is left where no connection finds it (term/).
TerminalsWhole == part = "terminals" => T!RingIsTail /\ T!StreamWhole /\ T!ExitComesLast /\ T!NoOrphanShell

\* Over cold boots, restores, restarts and failed steps, sshd shows the identity on
\* the disk when the agent's links came first, the home is the user's, and the boot
\* that is told is the one that was (persist/).
DiskTells == part = "disk" => D!ShowsIdentity /\ D!HomeIsTheirs /\ D!LastBootTells

\* And what the disk holds stays: the host identity, the user's home, acknowledged
\* values of the kv table.
DiskKeeps == D!IdentityKept /\ D!NothingOverwritten

\* No row promises a value that is not there; a running machine has the user's files,
\* login keys and provider keys as they are stored when nothing is under way, and
\* will remove all it wrote; an agent is launched with a fresh definition that is set
\* up (profile/, injector/, guestagent/internal/secrets).
SecretsCurrent ==
    part = "secrets" => U!RowHasValue /\ U!QuietIsCurrent /\ U!FilesManaged /\ U!LaunchIsReady /\ U!LaunchIsFresh

\* The stores behind them serve whoever may be served, however rotations,
\* reconnects, expiries and retries overlap: the GitHub grant is not lost nor wrongly
\* called revoked, git is given no expired credential (tokensource.go), and OpenBao
\* refuses nobody for want of a token or a policy that is to be had (bao.go).
StoresServe ==
    /\ part = "git" => G!NeverStranded /\ G!RevokedIsTrue /\ G!ServedIsLive /\ G!ConnectedHasTokens
    /\ part = "bao" => B!HealsItself /\ B!NotLockedOut

\* The dev driver's children are the ones its records name, one per machine at most,
\* and all of them count as used capacity, across restarts of the agent (dev.go).
ChildrenRecorded == part = "dev" => V!TypeOK /\ V!OneChild /\ V!CapacityCounts /\ V!CmdIsRecorded

\* What DriverContract is about.
States == <<[m \in Machines |-> rec[m].state], [m \in Machines |-> rec[m].snap]>>

\* The dev driver implements the interface of drivers (DriverContract) and keeps its
\* addresses as the record store does (NodeRecords): ImplementsDriver and
\* KeepsAddresses of DevDriver, the steps looked at in this part only.
ImplementsDriver ==
    /\ V!Contract!Init /\ [][part = "dev" => V!Contract!Next]_States
    /\ V!Records!Init /\ [][part = "dev" => V!Records!Next]_(V!Held)

-----------------------------------------------------------------------------
(* What comments of the code claim and the code does not keep, for the     *)
(* instances that the README lists.                                        *)

\* See Terminals, where it is stated and explained.
ExitTellsAll == part = "terminals" => T!ExitTellsAll

\* See GuestDisk.
FingerprintSettles == D!FingerprintSettles
KeyRescued == D!KeyRescued
EphemeralIsEphemeral == D!EphemeralIsEphemeral

\* See DevDriver.
DeadIsNotUp == V!DeadIsNotUp
OrphansKnown == V!OrphansKnown
=============================================================================
