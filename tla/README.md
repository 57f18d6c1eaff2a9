# Proteos: a TLA+ verification project

Proteos runs persistent Firecracker machines for its users and lets coding
agents, terminals and previews run inside them. Four programs take part:

- the **control plane** (`controlplane/`): HTTP API, Postgres tables, the machine
  lifecycle service and its poller, placement over hosts, the control channels to
  the guests, the task lane, the gateway, secrets, sessions and tokens;
- the **node-agent** (`nodeagent/`), one per host: a record per machine, and the
  drivers of Firecracker (with volumes and networking) and of child processes;
- the **guest agent** (`guestagent/`), one per machine: terminals, the other end
  of the control channel, coding-agent runs, git, secrets, forwards, the disk;
- the **clients**: CLI (`cli/`) and web app (`web/`).

`PROJECT.json` says which definition stands for which lines, lists all runs,
mutants, hazards, findings and theorems, and has a row for every component.

## 1. Inventory

| component | state | operations | interacts with | what is hard | what makes it correct |
|---|---|---|---|---|---|
| machine store (`machine/transition.go`, `state.go`) | rows, snapshots, `machine_events` | compare-and-set with audit event, insert, cascading delete | everything that moves a machine | lost races | only legal transitions; the log is the path of the row |
| lifecycle service (`machine/service.go`) | handler goroutines | Create, Start, Stop, Destroy, Rename | store, node-agent, secret store, broker | steps that fail half-way, client disconnects, two requests at once | a stop or boot is finished or reported; a destroy leaves nothing |
| poller (`machine/poller.go`) | counters per machine | fast tick, sweep, retry of ensure | store, node-agents | rows and statuses that are stale when used, thresholds | errors only after failures; crashes are noticed |
| placement, registry (`machine/scheduler.go`, `nodeclient/registry.go`) | cached clients | choose a host, call a machine's host, list all | node-agents | capacity that is stale at the insert, hosts that move or do not answer | no host is overbooked; no healthy machine is taken for lost |
| broker, machine stream (`machine/broker.go`, `httpapi/sse.go`) | subscriptions | Publish, Subscribe; snapshot, replay, live | service, poller, channel manager, browsers | replay meets live updates, full buffers | a dashboard ends up with the present state and every event |
| channel manager (`guestctl/manager.go`) | supervisors, channels | Run, ensure, teardown, supervise | broker, guest | goroutines that outlive their cancellation | one channel per running machine, none for others |
| control connection (`guestctl/conn.go`, `ctlchan/conn.go`) | ids, waiters | request, notify, dispatch, deliver, fail | its peer | time-outs and late answers, breaks | answers reach their own request, nobody hangs |
| task lane (`httpapi/tasks.go`, `taskstream.go`, `taskevents/hub.go`, `ctlchan/agentrun.go`) | task rows, run registry, ring of events, subscribers | create, message, cancel, event, done, watch | channel, guest, SSE clients | turns that race, results before handlers, restarts under reconnecting clients | one run at a time, a task settles, a viewer is served |
| worktree review (`httpapi/gitops.go`, `ctlchan/gitops.go`) | a repository in the guest | status, diff, branch, commit | channel, user, agent | several git commands per request | commits hold what they name; no work is lost |
| clones and pushes (`httpapi/git.go`, `ctlchan/manager.go`) | `/workspace`, events | dispatch, acknowledge, run, report | channel | the report may find no channel | reported once and truly; repositories do not mix |
| guest settings (`guestctl/manager.go`, `ctlchan/claude.go`) | `~/.gitconfig`, Claude settings, marker | configure on connect and on change | rows, user's edits | merging into a file the user edits | rows are applied, the user's own is kept |
| pull requests (`httpapi/pr.go`, `github/`, `gitea/`) | handlers, a token | open, read, list, comment, merge | GitHub, Gitea | pages of a moving head, rejected tokens | right provider, whole listings, true answers |
| Firecracker driver (`driver/firecracker`) | records, VMMs, jails, volumes, snapshots | EnsureRunning, Stop, Destroy, boot, resume, reaper, Reattach | host, lifecycle service | boots that outlive calls, partial failures, agent restarts | one VMM per machine, records tell the truth, disks survive |
| host networking (`firecracker/network.go`) | nft rules, taps | set up, tear down, replace shared rules | driver | boots that interleave, steps that fail | guests are confined at every moment, the agent stays reachable |
| dev driver (`driver/dev`) | records, child processes | the driver interface | node-agent API | zombies, restarts | one child per machine, recorded |
| node-agent records (`state/state.go`) | a file per machine, addresses | Reserve, Update, Delete, allocate | drivers | exhaustion, reuse | addresses stay apart |
| tunnel (`nodeagent/internal/httpapi/guest.go`, `nodeclient`, guest forwards) | two half-open byte streams per hop | dial, handshake, bridge | gateway, guest backends | bytes read ahead of the handshake, half-closes | whole streams, both ends closed |
| terminals (`guestagent/internal/term`, `server`) | rings, sessions | attach, write, exit, detach | relays | replay meets live output, lag, exit | no gap, no repetition, exit last |
| code-server supervisor (`webfwd/supervisor.go`) | a process, backoff | Ensure, probe, reap, Shutdown | connections | callers that give up, crashes | one process, starts apart, everyone answered |
| guest disk (`guestagent/internal/persist`) | mounts, binds, host keys, kv | Setup, Resume, kv | driver, sshd | order, power loss, racing `ssh-keygen` | identity and home survive |
| user secrets (`profile/`, `injector/`, `guestagent/internal/secrets`) | rows, values, files in the guest | set, delete, inject, replace, launch | secret store, guests | row and value are two writes; injections overlap | a guest has what is current and can remove what it wrote |
| GitHub tokens (`github/tokensource.go`, `auth/`) | a rotating pair, a link row, a cache in the guest | Token, ForceRefresh, connect, credential | GitHub, guests | rotation meets reconnect, expiry | the grant is not lost, served credentials are live |
| OpenBao store (`secrets/bao.go`) | tokens, policies | put, get, delete with minting and re-login | OpenBao | expiry in mid-call | nobody is locked out |
| sign-in (`auth/`, `oidc/`) | accounts, cookies, bearer cache | login, callback, resolve, bearer | IdP | concurrent first sign-ins, withdrawals | accounts are apart, withdrawn roles end |
| sessions, access tokens (`session/`, `token/`) | rows with expiry and last use | create, use, touch, revoke, list | middleware | throttled writes | sessions slide, last use is nearly right |
| gateway (`gateway/`, `httpapi/gateway*.go`, `websession.go`) | live connections, web tokens, cookies | accept, dial, relay, mint, proxy, revoke | guests, browsers | revocation at any step | a logout closes all; origins stay apart; close codes tell why |
| rate limits, admin console (`httpapi/ratelimit.go`, `admin.go`) | buckets; three queries | allow; overview | - | boundaries; reads at different times | the rate holds; totals add up |

The behaviours to model are the interleavings of handlers, tickers and
goroutines that outlive the call that started them; lost calls and answers;
restarts of the control plane and of the agents; reconnecting clients; steps of
which the second fails. The list of hazards in `PROJECT.json` has each at its line.

## 2. Plan

Done, the most important behaviour first: the lifecycle and the abstract store it
implements; the Firecracker driver below it; the channels that follow the rows, and
one channel from inside; the task lane; then the records and the dev driver with the
contract both drivers are held to; the event stream; terminals, disk, tunnel,
code-server and secrets in the guest; sign-in, gateway, limits and credentials; the
git surface; the fleet; the firewall.

Left, in order of worth:

1. a composition of `MachineLifecycle` and `FirecrackerDriver`, the agent of the
   former as an abstraction of the latter;
2. `FirecrackerDriver` against `DriverContract`, as `DevDriver` is, from the invariant
   of `RecordsAreTrue`;
3. bulk operations, templates, the key-value passthrough and the file-backed secret
   store.

## 3. The modules and the code

Every module is cut where another actor can run: at database statements, at
calls over the network, at unlocks and channel operations. What a definition
leaves out is formatting, logging, audit metadata and metrics. Constants
named `May` or `Faults` say what the environment is allowed to do in an
instance; the theorems hold for every choice unless they say otherwise. A
definition named "Mutant" in its comment is the code with a plausible mistake, which
no specification uses.

### MachineStates, MachineRows, MachineLifecycle

`MachineStates` has the states and the table `allowed` of `state.go`.
`MachineRows` is the abstract specification of the store: rows appear as
requested, move along the table, each move is logged, and go with their log.
`MachineLifecycle` has the tables (`state`, `guestIP`, `snapshots`, `events`), the
secret store's volume keys, one handler per request (`req`, whose `pc` is the
next statement of Create, Start, Stop or Destroy), the agent as its API shows it
(`agent`, `frozen`, with boots and stops that go on after the call), and the
poller (`poll`, with the rows it listed and the statuses it fetched, `blip` and
`retries`). `Faults`: a step of set-up fails, an agent call is lost before or
after it was carried out, a VM dies, the agent forgets a machine, the control
plane restarts, a client disconnects and cancels its handler's context (to the
handler, a failing statement of its own is the same), a statement of the poller fails,
which is logged and changes nothing of what the poller does next. `misses` and `leftover`
are history variables: the sweeps a running machine has missed, and the snapshot rows
that stand because the statement that should have replaced them failed.

`Rows == INSTANCE MachineRows` and `RowsImplemented == Rows!Spec`: the detailed
specification implements the abstract one, the mapping being the identity on
`state` and `events`.

### Fleet, EventStream

`Fleet` is placement and the sweep over several hosts: `chooseHost` asks one agent
after another, the insert comes later; calls go to the client cached for the host of
the row, which is replaced when the row's URL changes; `Registry.List` fails as a
whole. Hosts go down, move and are taken out of service.

`EventStream` is one dashboard over everything that publishes: transitions that log
and then commit, Rename, notes of the channel manager, Destroy; the broker's bounded
subscription; and the handler, which subscribes, lists, sends a snapshot or replays
after `Last-Event-ID`, and follows. `view`, `seen` and `lastId` are the browser's.

### FirecrackerDriver, DriverContract, NodeRecords, DevDriver, HostNetwork

`FirecrackerDriver`: records (`rec`), processes (`owner`, `alive`, `started`), the API
socket in each jail, volumes (`disk`, `mounted`, `snapFiles`), and the calls with the
goroutines they start (`job`): `EnsureRunning` with its booting slot, cold boot and
resume in phases (close, wipe, mount, launch, pid, start, consume, settle, and the
error path), `Stop` with snapshot, kill and final record, `Destroy`. The reaper lists
first and kills later; `Restart` loses goroutines and runs Reattach. `disk` tells
apart the stages at which provisioning of a volume may have been interrupted.
`Serial` says that a caller waits until the earlier call's goroutine is over; the
control plane's states mostly make it do so, nothing in the agent does. `PidLost` of
`DevDriver` lets the write of a child's pid fail, which ends a boot and leaves the child.

`DriverContract` is the driver interface (`driver.go`) as an abstract specification of
what the record of a machine may do; `NodeRecords` is the record store as one of who
holds which address. `DevDriver` is the driver over child processes, with its boot and
stop goroutines, zombies, and agent restarts; `Contract` and `Records` are the
instances it is shown to implement, with the mapping of its records to states and to
held addresses.

`HostNetwork` is the nft table rule by rule: shared rules that every boot lists,
deletes and adds, a machine's rules that are added one by one, and packets that are
matched against what is there at that moment. The names of a policy are looked up at
each boot, and one that does not resolve gets no rule. nft and its semantics are external.

### GuestChannels, ControlConn

`GuestChannels`: rows that commit and publish (`Commit`, `Touch`, `Destroy...`), the
broker's bounded subscription, `Manager.Run` (list, ensure, subscribe, one update at a
time), `ensure` and `teardown` on the map of supervisors, and supervisor goroutines
that dial, serve, back off and return. `May`: updates published out of order, a
gap between listing and subscribing, cancelled supervisors that return late,
destroys.

`ControlConn`: both ends of a session, which are the same code but for `notify`. A call
issues an id and enters its channel (`Request`), writes, waits, and takes its entry out
(`Leave`); the read loop starts a job per request (`ReadRequest`), or finds the
waiter (`ReadReply`); `Fail` closes all channels. The link may break at any time,
and writes after that fail or vanish. `issued` is `nextID` with its history.

### TaskLane

One task, its turns (handler and run of a turn have its number), the registry of
runs by task id, notifications on the wire, the row, the hub's ring with turn
boundary and reaper, and viewers with their SSE handlers. `Writes` is a row update
whose error the code ignores. `turn`, `reopened`, `want` and `shown` are history.
`May`: messages that do not wait for each other ("race"), a run that ends before
its handler has ("early"), losses ("drop"), notifications that overtake ("reorder"),
the retention window passing ("reap").

### Worktree, GitTransfers, GuestSettings, PullRequests

`Worktree`: handlers in the control plane and, for each, the guest's sequence of git
commands on a working tree, an index, commits and branches; in between the user edits,
another request runs, the channel drops, a command is killed. The content of a file is
the number of the edit that wrote it. `GitTransfers`: clones and pushes that are
acknowledged before they run and reported when they end, and the workspace that is the
only list of projects. `GuestSettings`: `configure` from the rows to the two files it
writes, with the marker that tells the agent's blanks from the user's.
`PullRequests`: the choice of the provider, the one refresh on a rejected token, pages
of a head that may move, and merges whose answer is a status and a body.

### Terminals, WebSupervisor, Tunnel, GuestDisk

`Terminals`: a shell's output as numbered bytes, the ring, the subscribers with their
bounded queues, the registry with its limit, and the socket handler (`Hello`, pumps,
`Drain`). `WebSupervisor`: `Ensure` under its mutex, the probe with its time limit, the
reaper goroutine, backoff and Shutdown; time is in ticks. `Tunnel`: the hops of
`DialGuest` with what each handshake read ahead, the preamble of a preview, and the two
copies of each bridge with their closes. `GuestDisk`: `Setup` step by step against the
disk, with power cycles, restarts of the agent alone, resumes, and sshd's own
`ssh-keygen -A`.

### UserSecrets, GitCredentials, BaoStore

`UserSecrets` follows a value from the handlers (value and row are two writes) through
the injector's reads, push and retries to the guest's files, manifest, environment and
set-up commands, and to the launch of an agent that waits for them. `GitCredentials`
is the token source under its per-user lock, with rotation at GitHub, reconnects by the
callback, and the guest's cache. `BaoStore` has the base and the user tokens, policies
that are ensured once, and the one retry of `do`.

### SignIn, Credentials, Gateway, RateLimit, AdminConsole

`SignIn`: the login's cookies, the callback, `resolveOIDCUser` statement by statement
for concurrent flows, and bearers with their cache. `Credentials`: sessions and access
tokens whose use is written at most once per threshold. `Gateway`: a connection from
authentication over registration, dial and relay to its close code, web tokens and
cookies per machine and port, and `SessionRevoked`. `RateLimit`: buckets in integer
units. `AdminConsole`: three reads of a fleet that changes in between.

### MC modules

`MCMachineLifecycle`, `MCFirecrackerDriver`, `MCGuestChannels` and `MCTaskLane` give
values to one module's constants. `MCControlParts`, `MCGuestParts`, `MCLiveParts`,
`MCAccess` and `MCChannel` are sums: `part` is chosen in the initial state and
only that component steps, so that a run checks each component on an instance of its own
and its states are the sum of theirs. The components of a sum are not composed with each other; where they meet
in the code (the row and the channel, the token and the push) the meeting is inside a
module. Where a theorem is about a part of a sum, the constants of that part are
constants of the sum, with their values in the cfg.

## 4. Runs

A property of a run is a conjunction where a component promises several things of one
kind; its conjuncts are defined and explained in the component's module.

| run | instance | shows |
|---|---|---|
| `lifecycle_safety` | 1 machine, 3 requests, every fault, thresholds 2 | `Consistent` (types; what the poller has decided is still allowed), `RunningSnapshotIsLeftover` (a snapshot row of a running machine is what a failed statement left), `CreatorOwnsRequested`, and the refinement `RowsImplemented` |
| `lifecycle_settles` | 1 machine, 2 requests, lost calls, lost machines | `Resolves`: boots and stops are settled, a dead machine's row does not stay running |
| `channels_safety` | 2 machines, 2 writers, 3 supervisors, all happenings | `ChannelsSound`: entries and channels serve their machine |
| `channel` | a connection with 1 + 1 requests, 1 notification, time-outs and a break; the manager with 2 machines and orderly updates | `ConnSound` (answers match, no leaks, nobody forgotten), `OneChannel`, and in the end `ChannelsSettle` |
| `driver_settles` | 1 machine, 3 serial calls, 1 restart, all happenings | `RecordsSound` (types; no running record with a snapshot), `DiskOutlivesFailures` (without a snapshot to resume, only a Destroy takes the disk), `DriverSettles`: boots and stops settle, orphans are reaped |
| `control_parts` | driver with 2 machines and 4 serial calls; fleet of 3 hosts and 2 machines; 2 worktree requests, 2 files; 2 pull-request handlers, 2 heads; 3 configurations; 2 machines' firewall; a dashboard of 2 machines with 3 events, a reconnect and a failed query | `PidsAreOwn`, `RecordsTell`; `NoOvercommit`; `CommitsTell`; `PullsTell`; `SettingsApplied`; `NetworkHolds`; `NoFalseAlarm`, `UserWorkKept`; `StreamCurrent` |
| `lane` | 2 turns; calm with 1 event each, a cancel and a ring that holds all, or rough with results only, no cancel, a ring of 1, losses, early ends, reaping and a restart | `LaneSound` (snapshot and live tail fit; one run, result last when calm), `LaneSettles` when calm |
| `access` | 2 subjects and 2 flows; 2 connections of a session; 2 buckets; a fleet of 4; a session and a token with 2 requests | `AccountsHold`, `GatewayGuards`, `CloseTells`, `LimitsHold` |
| `guest_parts` | 2 terminal clients; 3 boots of a disk; 2 requests to the secrets and 2 starts; 2 callers for GitHub tokens; 2 calls to OpenBao; 2 dev machines with serial calls, 1 restart | `TerminalsWhole`, `DiskTells`, `DiskKeeps`, `SecretsCurrent`, `StoresServe`, `ChildrenRecorded`, and the refinement `ImplementsDriver` |
| `live_parts` | 3 connections to code-server; a tunnel with 2 bytes each way; a dev machine with a restart; 2 transfers of 2 repositories of one name | `OneBackend`, `BacksOff`, `TransfersWhole`, `DirKeepsRepo`, and in the end `PartsSettle` |

*Why the bounds are enough.* Machines share nothing but the poller's loop, the cap,
the hosts and the broker, so one machine shows the lifecycle's races; two are used
where machines meet (jail uids, capacity, one update stream, one nft table, addresses).
Three requests are one to create and two to race. Thresholds of 2 are the least at
which a counter can be non-zero without having fired; a subnet of 5 has two addresses
for machines, so that it is used up and an address is given again. In the driver,
launches are as many as the calls. Rings, queues, pages and buffers are small where
being full matters (a ring of 3 for 5 bytes, pages of 2 for 3 items, a replay limit of 1)
and larger than all messages where it must not. Clocks end after the longest time the
component measures has passed once more. A conjunct of a property is broken by a
mutant of the code it is about, in the same instance.

*Premises.* `BootResolves`: boots are not lost for ever. Each poll that sees the
boot in progress renews the budget of retries, so an agent that answers, fails to
answer and loses the machine in turn keeps a row booting for as long as it does so.
`BootSettles` of the driver is about boots that the agent's restart does not cut off.
The parts' `May` in a cfg is what a passing run allows; what it leaves out is in the
table below.

Two violation runs show where the code and what it says of itself part and a
user loses something; each has a finding with the quoted line. `driver_disk`: a
resume that fails after it mounted the volume falls back to a cold boot that
removes the jail with the volume in it. `lane_early`: a follow-up turn that ends
before its handler restarts the row leaves the task running for ever.

The other disagreements met while modelling are refuted by TLC in the instances below,
each of which allows just the happenings its trace needs. An instance is the cfg of
the run named, with these constants and with the one property. They are not runs:
most are known limits, and each is a hazard or the note of one.

`lifecycle_safety` (with `FairSpec` where said; `Ops` as listed, no other faults):

| property | constants | what happens |
|---|---|---|
| `CapHolds` | 2 machines, 2 requests, `{create}` | two creates count before either inserts (`service.go:290`) |
| `NoErrorWithoutFailure` | create, start, stop | a tick between a handler's transition and its agent call errors the machine (`poller.go:245`) |
| `DestroyTearsDown` | 2 requests; create, start, destroy | an ensure in flight lands after the destroy (`service.go:486`) |
| `StopCompletes` | `FairSpec`, 2 requests; create, stop; `{"cancel"}` | the client disconnects between Stop's transition and its call (`service.go:442`) |
| `BlipsAreConsecutive` | create, start, stop; `{"call"}` | misses of an earlier run count for the next (`poller.go:168`) |
| `RunningHasNoSnapshot` | create, stop, start; `{"write"}` | the deletion of the snapshot row fails, is logged, and the machine becomes running (`poller.go:303`) |
| `RunningHasGuestIP` | 1 request; create | a late handler clears the address the poller recorded (`service.go:643`) |

`driver_settles` (with `Spec` unless said):

| property | constants | what happens |
|---|---|---|
| `OneVMM` | 2 calls, `Serial = FALSE` | two ensures in a row: the slot is released before the pid is recorded (`firecracker.go:179`) |
| `RetryStartsClean` | 2 calls, `{"boot"}` | a failed boot leaves its VMM to the next (`firecracker.go:691`) |
| `JailsApart` | 2 machines, 4 calls, `Serial = FALSE` | a record destroyed meanwhile is booted as a zero record, in the directory of all jails (`firecracker.go:227`) |
| `RestoredOnce` | 4 calls, `{"vmm"}`, a restart | a restart between load and deletion of a snapshot (`firecracker.go:496`) |
| `ReattachSettles` | `FairSpec`, 1 call, a restart | a boot cut off after its pid was recorded stays creating (`firecracker.go:743`) |
| `DeathNoticed` | `FairSpec`, 1 call, `{"vmm"}` | the status is the record's, which a VMM's death does not change (`firecracker.go:646`) |
| `ReaperSparesTracked` | 1 call, `{"reaper"}` | records are listed before processes (`reaper.go:59`) |
| `PidsAreOwn` | 2 machines, `UidOf <- OneUid` | two machines with one jail uid (`firecracker.go:788`) |

`channels_safety` (1 machine, 1 writer, 2 supervisors, `Buffer` 5) and `channel`:

| property | constants | what happens |
|---|---|---|
| `OneSupervisor` | `{"late"}`, 5 writes | a cancelled supervisor deletes its successor's entry (`manager.go:156`) |
| `ChannelKnown` | `{"late"}`, 6 writes | the end of one channel hides another (`manager.go:786`) |
| `ConnectedInTheEnd` | `FairSpec`, `{"gap"}` | a machine starts between listing and subscribing (`manager.go:119`) |
| `TornDown` | `FairSpec`, `{"destroy"}`, 4 writes | Destroy publishes the row as it was, running (`service.go:500`) |
| `NotesUnanswered` | `channel` | notifications are answered (`conn.go:78`) |

`lane_early` (module `TaskLane`; `Spec` unless said):

| property | constants | what happens |
|---|---|---|
| `OneRun` | 3 turns, `{"race"}` | two messages pass the status check (`tasks.go:333`) |
| `NoStaleResult` | 2 turns, `{}` | a row read before a turn, a subscription made after (`taskstream.go:81`) |
| `ResultIsLast` | 1 turn, 1 event, `{"reorder"}` | notifications have a goroutine each (`conn.go:62`) |
| `RunIsRegistered` | 2 turns, 1 cancel | a finished run unregisters the next (`agentrun.go:191`) |
| `ViewerServed` | `FairSpec`, 1 turn, 2 events, a restart | frame numbers start again, after a restart as with a stream that was reaped (`hub.go:103`) |

`lane`:

| property | constants | what happens |
|---|---|---|
| `LaneSound` | `SubBuf = 1` | a subscription that is full is skipped (`hub.go:117`) |

`access`:

| property | constants | what happens |
|---|---|---|
| `RevokedAtOnce` | `May = {}` | a request between the check of its session and its registration outlives the logout ("exact and immediate", `registry.go:10`): `GatewayGuards` excepts these requests and no others |
| `EveryStopIsTold` | `May = {}` | a machine stopped between the dial and the guest's handshake: the terminal is closed as "internal" (`terminal.go:124`), where `guestwire.go:67` has a code for it |
| `CloseTells` | `May = {"fail"}` | a failed read of the machine's row gives the wrong reason |
| `SwitchIsImmediate` | `May = {"switch", "cached"}` | a tunnel admitted on a value read before SSH was switched off |
| `AccountsHold` | `SignInMay = {"overlap"}` or `{"fail"}` | a role withdrawn during a sign-in, or a row that cannot be written |
| `LandsWhereAsked` | `SignInMay = {}` | two logins in one browser share a cookie |
| `OverviewAgrees` | - | the three reads of the console are of different moments |

`control_parts`:

| property | constants | what happens |
|---|---|---|
| `NoOvercommit` | `FleetMay = {"overlap"}` or `{"start"}` | two creates see the same room; Start asks nobody |
| `NotMistakenForLost` | `FleetMay = {"retire"}` or `{"start"}` | a host taken out of service is not listed, its machines are; a machine is started on a host that was asked already |
| `HealthyKept` | `{}` | one host that is down twice in a row errors every running machine |
| `OwnCommitReported` | `WorktreeMay = {"overlap"}` | `rev-parse` after another request's commit |
| `ReviewedIsCommitted` | `{"edit"}` | an edit between review and `add` |
| `DiffFitsFrame` | `{}` | a diff at the cap and its envelope are over the frame's limit |
| `IndexUnlocked` | `{"kill"}` | a killed git leaves its lock |
| `MergedIsReviewed`, `ListingsOfOneHead` | `PullMay = {"push"}` | the head moves after the review, or between two pages |
| `ReconnectOnlyIfDead` | `{}` | the review surface does not refresh a rejected token |
| `SettingsApplied` | `SettingsMay = {"overlap"}`, `{"crash"}` or `{"unread"}` | the older of two calls writes last; a crash before the marker; an identity that cannot be read is taken for none |
| `UserWorkKept` | `{"race"}` | an edit between read and write of the settings |
| `HandBlankedKept` | `{}` | a hand-made blank is removed where the marker is set |
| `DeniedIsDenied` | `NetMay = {}` | a name that does not resolve when the machine boots is skipped (network.go:328-335): a site its policy denies is reached |
| `AgentAlwaysReachable` | `NetMay = {}` | the shared rules are away between delete and add |
| `NetworkHolds` | `{"fail"}` or `{"unlisted"}` | a step of the replacement fails; rules that cannot be listed are not deleted |
| `StreamCurrent` | `StreamMay = {"between"}`, `{"away"}`, `{"unread"}`, or `{"overlap"}` with two `Streamers` | a row that moves between list and replay; a destroy while away; a failed query; commits out of the order of ids |
| `GapRecovered` | `StreamMay = {"slow"}` | a full subscription loses an event for good |

`guest_parts` and `live_parts`:

| property | constants | what happens |
|---|---|---|
| `ExitTellsAll` | - | a closed channel ends the drain as an empty one does, and the output of a client that lags with it |
| `DeadIsNotUp` | - | the dev driver's status is the record's |
| `FingerprintSettles` | `DiskFaults = {"race"}` | sshd loads a new key before the agent puts the old one back |
| `KeyRescued` | `{"race"}` | the rename to the disk cannot succeed |
| `DiskTells` | `{"half"}` or `{"emptied"}` | the directory is chowned first and later boots look only at it; an emptied home is filled with root's copies |
| `EphemeralIsEphemeral` | `{"nobind"}` | the first bind stays when a later step fails |
| `SecretsCurrent` | `SecretsMay = {"overlap"}`, `{"fail", "half"}`, `{"fail", "unrow"}` or `{"stuck"}` | an older injection lands last; a manifest not written; a value deleted and its row not; a file that cannot be removed is only logged and leaves the manifest (`secrets.go:368`) |
| `ChildrenRecorded` | `Serial = FALSE` or `PidLost = TRUE` | a call overlaps a stop or a destroy and a second child is started; a boot that cannot write the pid ends in error, its child uncounted and started again (`dev.go:255`) |
| `ImplementsDriver` | `Serial = FALSE` | a boot fails under a stop: the record goes from stopping to error |
| `OrphansKnown` | - | the agent dies between the start of a child and the write of its pid: no record knows it (`dev.go:246`) |
| `StoresServe` | `GitMay = {"overlap"}` or `{"lost"}`; `BaoMay = {"lose"}` | a refresh meets a reconnect; GitHub's answer is lost; a policy is lost after it was ensured |
| `CrashIsPaced`, `EarlyDeathNoticed` | `May = {"crash"}` | a process that dies healthy is started at once; one that dies early is probed to the end |
| `NoneLeftBehind` | `May = {"stop"}` | a connection that waits for the lock starts a process after Shutdown |
| `ReplyAlwaysWhole` | - | the first copy to end cuts the other |
| `AlwaysReported`, `ListedIsWhole` | - | a report without a channel is dropped; a clone is listed while it runs |
| `FailedLeavesNothing` | `TransferFaults = {"kill"}` | a clone killed by its deadline leaves its directory |

## 5. Fairness

- `MachineLifecycle`: handlers run to their end (Go schedules them, and a lost call
  times out); the agent's goroutines end; the two tickers fire for ever (weak), and
  a tick that keeps finding a transitional, or a running, row in its listing acts on
  it eventually (strong: other machines and requests may intervene, as the listing
  is one query per tick). Requests need not be made.
- `FirecrackerDriver`, `DevDriver`: boot, stop and destroy goroutines run on, as every
  step of theirs has a deadline; the reaper's ticker fires; a restarted agent
  reattaches; a child that was killed dies. VMMs and children need not die otherwise.
- `GuestChannels`: the manager's loop and the supervisors go on, a dial that is
  tried again and again against a reachable guest succeeds (strong).
- `ControlConn`: writers, readers and handlers go on; no time-out is assumed.
- `TaskLane`: handlers that have begun, goroutines and notifications go on; a run
  ends, by `agentTaskTimeout` at the latest; clients reconnect. In `lane` this is
  asked of the calm instance, the rough one being about safety.
- `WebSupervisor`: time passes and `Ensure` goes on. `Tunnel`: bytes that are there are
  copied, and closes are seen. `GitTransfers`: the guest's goroutines run, git ends by
  its time limit, and the control plane dials again.

In the sums, a conjunct of fairness is about the union of one action of each part:
as the other parts never step, that is fairness to each action.

## 6. Proofs

Each theorem is for every value of the constants that the named assumptions allow,
however many machines, requests, calls, failures or ticks. Those of a sum are about the
specification of its run, or of its part. Every proof has the same shape: the initial
states satisfy an inductive invariant, one lemma per action keeps it, and it implies what
is claimed.

- **Store and lifecycle** (`MachineLifecycleProofs`): `AuditTrailHolds`, of the abstract
  store - the log of each machine is a legal path from requested to its state. For the
  detailed specification `IInv == TypeOK /\ HandlerInv /\ PollerInv` is inductive.
  `HandlerInv` is what a handler carries between two statements (which machine, which
  state it read; a creator's machine is still requested); `PollerInv` relates what the
  poller listed and decided to what may have changed since: a snapshot row is written
  for a machine that is then hibernating or beyond what the compare-and-set accepts.
  `RunningSnapshotIsLeftover` is not inductive without it: the row is written before the
  transition that may lose. From `IInv`: `PollerConsistent`, `SnapshotRowsExplained` (hence
  `RunningWithoutSnapshot`, if no statement of the poller fails), `CreatorAlone`, and, step by step, `LifecycleImplementsRows`, hence `AuditTrailKept`.
- **Firecracker driver** (`ControlPartsProofs`): `TInv` adds to the types that only a
  zero record's boot works without a machine; `RecordsAreSound` follows with the fact that
  every goroutine that sets a record running clears its snapshot, in one update;
  `PidsOwned` assumes `UidsDiffer` and needs that the pid found by uid is a launched one,
  for which the least element of a set of pids must exist. `RecordsAreTrue` assumes
  `Calm`: a machine's calls one after another, distinct uids, no failures but of snapshots,
  no deaths of VMMs, no reaper, no restart of the agent. That is the instance of
  `control_parts`, for every number of machines, calls and pids; it says nothing of what
  `Calm` leaves out, which the table in section 4 shows to break it. `TellInv` says of a machine
  no goroutine works on that record, VMM, socket, volume and snapshot agree (`AtRest`), and
  of one that is worked on what its goroutine may rely on at each step (`AtWork`).
  `DiskIsKept` and `SnapshotsRestoredOnce` assume of the constants only that a machine's
  calls come one after another (`Serial`), the second also that the agent is not restarted
  (section 4 has the violation with a restart); boots, resumes, snapshots and VMMs fail and the
  reaper runs. `AloneInv`: a call at work has its machine to itself, on a record that is
  there, and one that resumes has a record with a snapshot (`Relies`); so a boot that removes
  the jail with the volume mounted in it is the fallback of a resume. `Consumes`: what was
  loaded is about to be deleted by the call that loaded it.
- **Settings, pull requests, worktree, fleet** (the same module). What they assume of the
  constants holds of the run, and the table in section 4 shows a violation without it.
  - `SettingsFollow` assumes `InTurn` (reconfigurations one after another) and `Completed`
    (the agent does not die between the settings and their marker, rows can be read).
    `SettingsInv`: a call holds the rows as they are and the machine is configured as far
    as the call has got (`Configures`), a blank of the agent is marked or about to be
    (`Marked`), and when all is quiet the machine is as the last call left it (`Applied`).
  - `PullsAreTold` assumes of the listings only that they have lengths (`Listed`). `PullInv`
    says that a request is where its operation leads (`Asked`), that `pr.by` names a merge
    that is done (`MergedBy`), and of a listing that goes on that it has every item of the
    pages so far, unless the head moved (`Reading`): pages of any size end where the list
    does, and items are counted by a bijection to an interval.
  - `CommitsAreTold`: `RepoInv`, the repository under edits, killed commands and overlapping
    requests, with a commit that differs from its parent in the named paths only; `Commits`,
    a request has made its one commit exactly when the guest is past it.
  - `UserWorkStays` joins both: branches and uncommitted work from `RepoInv`, the user's
    settings from `ReadIsTrue` (what a call has read is what it writes back over), which
    needs `HandsOff`: the user does not edit them in the middle of a call.
  - `AlarmsAreTrue` assumes `Undisturbed` (a host that has machines is not retired, no machine
    is started in the middle of a sweep). `FleetInv`: a machine is on an active host
    (`Placed`), and one that runs and was read by a sweep is on a host the sweep has yet to
    ask, or in its list (`Swept`); so a list that went through misses none. That a call
    fails only for its own host needs the types, that a user reconnects only after a fresh
    token was rejected needs `Asked`.
  - `NoHostOvercommitted` adds `OneAtATime` (creates one after another, and a machine
    started again only where it fits, as the table shows), `Sized` and `Several`: with one
    host in service `chooseHost` asks nobody, so there is none or more than one. What is
    used of a host is a sum over its machines; that adding one machine adds its need is
    proved of the library's fold by way of any function that adds up (`SumsAgree`).
    `RoomInv`: a create that has found a host has room on it until its row is there, and the
    used of no host exceeds its total.
- **Firewall** (the same module). `FirewallHolds` assumes `NetNames` (machines are not
  called as the shared rules are tagged, policies are the four modes) and `NetCalm`: no
  "fail" and no "unlisted", each shown to be needed by the table in section 4. It speaks
  of the addresses a policy's names resolved to at this boot: with none, a policy by name
  has the rules of another one (`Eff`), and a site that is denied by name may be reached
  (`DeniedIsDenied`). A
  packet's verdict is that of the first rule that matches it, so the order of rules is
  what must be kept: what is left when rules go has the order it had (`WithoutThins`),
  and a step of one job adds no rule of another machine and keeps its policy in force
  (`Spares`). `NetInv`: a machine that runs has all rules of its policy, those that
  refuse before the one that lets through (`Enforced`), a job has its machine to itself
  and what it has deleted is gone (`JobOK`), and while nobody is replacing the shared
  rules the one for the agent's port is there, unless nothing has been done yet
  (`MgmtOK`).
- **Event stream** (the same module). `StreamIsCurrent` assumes `Attended`: writers one
  after another, no write between list and replay, no destroy while the dashboard is away,
  no full subscription, no failed query of the replay; the table in section 4 shows each to
  be needed. `StreamInv`: the one writer at hand is between its commit and its publication
  (`AtHand`), every queue is in the order of ids, and an event the dashboard has not seen is
  on its way while it is live (in the queue, or about to be published), and will be asked
  for while it is not (`OnItsWay`, `AskedFor`).
- **Channels** (`GuestChannelsProofs`): `SupInv` ties entries, goroutines and connections
  together under all losses and reorderings and gives `ChannelsAreSound`. `PromptInv`,
  under the assumption that cancelled supervisors are not late, gives
  `OneSupervisorIfPrompt`, and with `OwnChannel` `ChannelKnownIfPrompt`: a channel that is
  up is the one requests are sent over.
- **Connection** (`ControlConnProofs`): `ConnInv` says who owns an id: a frame, a job, a
  waiter or a writing call with an id names the call that id was issued to. With unique
  ids, `ConnIsSound` follows. `ManagerKeepsOneChannel` carries the theorems about channels
  over to the instance of the manager in `MCChannel`, without "late".
- **Task lane** (`LaneProofs`). Both instances of the run take steps of one relation
  (`Moves`). `LaneInv` is what it keeps: the ring is in order of the frames' numbers
  (`Sorted`), no turn is dispatched twice (`Fresh`), and notifications on the wire, being
  finished and published are no more than the runs have sent, while a subscription holds at
  most what was published (`Counted`). `LaneIsSound` has for its premise that no subscription
  is full (`Room`): `Hub.Publish` skips one that is, as the table in section 4 shows.
  `RoomyLaneIsSound` replaces it by `Roomy`, that a subscription has room for all frames of
  the task, and gets `Room` from `Counted`. In the calm instance one turn is at work at a
  time (`Line`): every other is not begun or over, what is on the wire is of that turn and
  its result comes last, and only when the result has left the wire may the row say that the
  turn is over - so the next message cannot be accepted before, and no frame of a turn whose
  result is in the ring (`Closed`) is still to come.
- **Gateway** (`AccessProofs`): `Apart` says that the marks for no session and no machine
  are neither. `IInv == Tables /\ Grants /\ (every connection is Guarded)`: a connection
  past registration is in the registry under its session until closed, a revocation under
  way has yet to close it or, if it was between the check of its session and its
  registration when the closers were taken, has `missed` it - a history field that
  `GatewayGuards` excepts, as the table in section 4 shows it must - and every cookie and token was minted by its owner's session.
  `ClientIsTold` assumes `NoFail`, that rows can be read; `CInv` adds to the types of the
  machines' tables what a connection knows of how often its machine was stopped (`Told`),
  so that "machine_stopped" is said of a machine that was, and a stop that ends a relay is
  not answered by another reason unless the machine runs again. A terminal's handshake with
  its guest that fails is always answered as a fault.
- **Limits, sessions, sign-in** (the same module), each part from its own sizes.
  `LimitInv` is an account: what a bucket holds and what it let pass since any instant is
  at most a burst and the refill (`Spent`), and at least the burst (`Unspent`), with one
  step of multiplication per action. `ConsoleInv` says how far apart two reads of a changing fleet
  may be. `CredInv` relates the row a request carries to the row that is there, while time
  and other requests go on. Together they are `LimitsKeep`; `SessionsSlide` and
  `ListedAsUsed` are the credentials' part on its own. `SignInv` says of every flow where
  its row and path come from (`Sound`), of every bearer in the cache what it was admitted
  on (`Kept`), and that no two rows have one subject (`OneRow`): `AccountsStayApart` and
  `BearersLagNoMore` hold whatever fails or overlaps. `AccountsKeep` adds `RoleInv`, under
  `Steady` (grants do not change during a sign-in, rows can be written); the table shows
  both to be needed.
- **What a machine keeps** (`GuestPartsProofs`). `StoresKeepServing`: `GitInv` says that a
  pair is rotated by the one holder of the user's lock, that the stored pair is used up only
  between GitHub's answer and the write of the new one, and that what is served outlives
  its cache; it assumes `GitSizes` and `Ordered` (the user does not reconnect in mid-call,
  answers arrive). `BaoInv` and `PolicyInv`: a refused call used a token that has died since,
  a policy that is counted as ensured is there, if OpenBao loses none (`Keeps`).
  `DiskTellsTrue` and `DiskKeepsAll`: `DiskInv` over all boots, restores, power losses and
  failures but the two of `Whole` (a chown cut short, a home emptied). `DriverKeepsRecords`
  and the refinement `DriverMeetsContract`: `DevInv` says that a machine has one job at
  work (`OneJob`) and relates record, process table and child at each step of it, across
  restarts of the agent. `DevSizes` assumes `Serial` and `~PidLost`. The first is not
  enforced: a destroy of the control plane may meet its ensure, and the table in section 4
  shows what overlapping calls do. `ChildrenRecorded` counts the children that are the running
  agent's or in a record: what an agent that died had started and not yet written down is
  known to nobody (`OrphansKnown`).
  From it every step of the dev driver is a step of `DriverContract` and of
  `NodeRecords`, or of neither.
- **Terminals** (the same module). `TerminalsAreWhole` assumes only sizes (`TermSizes`).
  `TermInv`: the ring holds the end of what the shell wrote, whichever of its two copies
  wraps; the chunks that wait for a connection follow one another, and end where the shell
  has got to while the connection is subscribed; what it has been sent ends where its queue
  begins. That a queue of chunks joins to the stretch they were cut from is proved by the
  least counterexample, well-founded induction being out of reach as a theorem.
- **User's secrets** (the same module). `SecretsStayCurrent` assumes `SecretNames`
  (providers and profile items are stored under different names) and `OneThing`: no
  "overlap", "half", "unrow" or "stuck", each shown to be needed by the table in section 4. `SecretInv`
  says of what is left of a request that a value precedes its row, a row outlives its value
  by one statement, and a push comes last (`Todo`); of a push, that what it has read is what
  is stored (`Composed`); of the time between pushes, that the guest has what is stored
  (`Current`); and of set-up commands, that a provider not yet ready has one running and one
  that failed is marked (`SetUp`), whose end a launch waits for (`WinOK`).
- **Forwards, tunnel, transfers** (`WebSupervisorProofs`). `BackendAlone` and
  `AttemptsWait` from `Sizes` and `IInv == Types /\ Holds /\ Tracked /\ Paced`: whoever
  starts a process holds the mutex and has seen the last one reaped, and time since the
  last failure and the wait that is left add up. `NothingIsLost` and `DirectoriesKeep`
  assume nothing. `TunnelInv`: what one end has sent and the other not yet received, read
  from wire to buffer to wire, is one run of numbers, with a handshake's line where it
  still travels, and cut only where a bridge is done; so each end receives a prefix,
  and all of it if it reads to the end. `TransferInv`: an event tells the outcome of the
  one operation it is of, and a directory that is there is of one repository.

Proving changed four models. The filters of `Backlog` in `TaskLane` and of `Without` in
`HostNetwork` are recursive functions, whose values the prover can reason about, and not the
library's operator. `ServedIsLive` of `GitCredentials` held of the run only because
its clock ended early; what makes it true is that a request of the guest times out (30 s)
long before the token it was given expires (`refreshSkew`), which `Tick` now says. And
`OneChild` of `DevDriver` is stated without cardinalities, which the prover does not count.

Only model-checked: everything temporal under fairness (`Resolves`, `ChannelsSettle`,
`DriverSettles`, `LaneSettles`, `PartsSettle`), since the prover does neither liveness nor
ENABLED. Every safety property of the runs that pass is stated by a theorem.

## 7. What is not modelled

See `components` in `PROJECT.json`. Whole parts: configuration, process start, audit,
logs and metrics (wiring and best-effort output), the CLI and the web app (their ends
of streams and tunnels are the clients of `TaskLane`, `EventStream` and `Tunnel`; the
rest is rendering). Within modelled parts: bulk operations, templates and read-only
lookups of machines; the key-value passthrough; heartbeats and resizes; the parsing of
the agents' output, which the lane takes as a choice of events and outcome; wire
formats, command lines and cryptography; the file-backed and the in-memory secret
store, which are the map that `UserSecrets` keeps; proxied bodies.

Within an operation, the writes of a node agent's records other than the pid of
`DevDriver` are taken to succeed. What programs outside the repository do is taken
from how it uses them: `git`, the firewall, and `ssh-keygen -A` and `sshd` of `GuestDisk`,
which keep a host key that is there and make the ones that are not.
