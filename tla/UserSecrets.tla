---------------------------- MODULE UserSecrets ----------------------------
(***************************************************************************)
(* What a user stores for the machines and how it gets there: provider     *)
(* keys, profile items and login keys (httpapi/providers.go, profile.go,   *)
(* profile_git_ssh.go, sshkeys.go, userprefs.go over profile/store.go and  *)
(* sshkeys/store.go), the token of another git host (githosts.go), the     *)
(* injector that composes and pushes the whole set (injector.go), and the  *)
(* guest's store of it with env files,                                     *)
(* files under $HOME and set-up commands (guestagent/internal/secrets).    *)
(*                                                                         *)
(* One user and one machine: a push concerns one machine, and a user's     *)
(* data no other user.  A value is the number of the write that made it.   *)
(***************************************************************************)
EXTENDS Naturals, Sequences, FiniteSets

CONSTANTS
    Providers,     \* enabled providers of the registry
    Subscription,  \* those that run without a key of their own
    WithSetup,     \* those with a setup_command
    LoginKeys,     \* SSH login keys the user may register
    MaxRequests,   \* bound: API requests that change something
    MaxStarts,     \* bound: starts of the machine
    MaxLaunches,   \* bound: agent windows opened
    MaxFaults,     \* bound: failures while the machine runs
    MaxAttempts,   \* attempts of InjectAsync
    May            \* "overlap": changes do not wait for earlier pushes;
                   \* "fail": a statement or a push fails; "half": a push
                   \* fails after the guest has written some of it;
                   \* "stuck": a file that is dropped cannot be removed;
                   \* "unrow": the second half of a delete fails

VARIABLES
    ver,           \* writes so far
    sec,           \* secret store: path to value, 0 for none
    rows,          \* profile_items, git_host_links: items with a metadata row
    keys, sshOn,   \* active rows of user_ssh_login_keys, users.ssh_enabled
    ops,           \* API requests: the statements they have left
    inj,           \* injections: goroutines of InjectAsync and synchronous ones
    running,       \* whether the machine runs
    spent,         \* requests, starts, launches and faults so far
    guest,         \* secrets.Store in the guest: providers, gen, managedFiles
    env,           \* env files on tmpfs
    home,          \* profile files under $HOME, and the manifest of them
    setups,        \* set-up goroutines
    spoiled,       \* history: (provider, gen) whose set-up command failed
    wins,          \* agent windows being opened
    broke          \* history: a request failed or a push was given up, and no
                   \* complete push has followed

store == <<ver, sec, rows, keys, sshOn>>
inside == <<guest, env, home, setups, spoiled>>
vars == <<store, ops, inj, running, spent, inside, wins, broke>>

EnvItem == "claude-oauth"
FileItems == {"ssh-key", "ssh-config"}
GitHost == "git-host"
Items == FileItems \cup {EnvItem, GitHost}
Files == FileItems \cup {"authorized_keys"}
None == [key |-> 0, tok |-> 0, in |-> FALSE, ready |-> TRUE, degraded |-> FALSE]
NoProviders == [p \in Providers |-> None]
NoFiles == [f \in Files |-> {}]

Init ==
    /\ ver = 0 /\ sec = [x \in Providers \cup Items |-> 0] /\ rows = {} /\ keys = {} /\ sshOn \in BOOLEAN
    /\ ops = {} /\ inj = {} /\ running = FALSE /\ spent = [req |-> 0, start |-> 0, win |-> 0, fault |-> 0]
    /\ guest = [prov |-> NoProviders, gen |-> 0, managed |-> {}, asof |-> 0]
    /\ env = NoProviders /\ home = [files |-> NoFiles, manifest |-> {}]
    /\ setups = {} /\ spoiled = {} /\ wins = {} /\ broke = FALSE

Quiet == ops = {} /\ inj = {}
Faulty == "fail" \in May /\ spent.fault < MaxFaults /\ spent' = [spent EXCEPT !.fault = @ + 1]
MayAct == "overlap" \in May \/ (Quiet /\ wins = {})

-----------------------------------------------------------------------------
(* Requests.  Each is the statements its handler runs, in their order; one *)
(* that fails ends the request with an error.                              *)

\* Mutant: the metadata row is written before the value.
SetItemRowFirst(i) == <<[do |-> "row", on |-> i], [do |-> "put", on |-> i], [do |-> "inject", on |-> i]>>

\* Store.setFields, then the push to the running machines.
SetItem(i) == <<[do |-> "put", on |-> i], [do |-> "row", on |-> i], [do |-> "inject", on |-> i]>>

DeleteItem(i) == <<[do |-> "del", on |-> i], [do |-> "unrow", on |-> i], [do |-> "inject", on |-> i]>>

\* The key and its client configuration are two items.
SetSSHKey == SubSeq(SetItem("ssh-key"), 1, 2) \o SubSeq(SetItem("ssh-config"), 1, 2)
DeleteSSHKey == SubSeq(DeleteItem("ssh-key"), 1, 2) \o SubSeq(DeleteItem("ssh-config"), 1, 2)
GenerateKey == SetSSHKey \o <<[do |-> "inject", on |-> "ssh-key"]>>
DropKey == DeleteSSHKey \o <<[do |-> "inject", on |-> "ssh-key"]>>

\* A provider's key is not pushed: it reaches a machine with the next launch.
SetProviderKey(p) == <<[do |-> "put", on |-> p]>>
DeleteProviderKey(p) == <<[do |-> "del", on |-> p]>>

\* The access token of another git host, kept for handleCredential.
SetGitHostToken == SubSeq(SetItem(GitHost), 1, 2)
DeleteGitHostToken == SubSeq(DeleteItem(GitHost), 1, 2)

AddKey(k) == <<[do |-> "addkey", on |-> k], [do |-> "inject", on |-> k]>>

\* Mutant: a revoked key is not dropped from the machines.
RevokeKeyQuietly(k) == <<[do |-> "revoke", on |-> k]>>

RevokeKey(k) == <<[do |-> "revoke", on |-> k], [do |-> "inject", on |-> k]>>
\* A change of the switch; a request that asks for what is set does nothing.
SetSSHEnabled(to) == <<[do |-> "switch", on |-> to], [do |-> "inject", on |-> to]>>

Requests ==
    {SetItem(EnvItem), GenerateKey, SetSSHEnabled(IF sshOn THEN "off" ELSE "on"), SetGitHostToken}
        \cup {SetProviderKey(p) : p \in Providers}
        \cup {DeleteProviderKey(p) : p \in {q \in Providers : sec[q] # 0}}
        \cup {AddKey(k) : k \in LoginKeys \ keys} \cup {RevokeKey(k) : k \in keys}
        \cup (IF EnvItem \in rows THEN {DeleteItem(EnvItem)} ELSE {})
        \cup (IF "ssh-key" \in rows THEN {DropKey} ELSE {})
        \cup (IF GitHost \in rows THEN {DeleteGitHostToken} ELSE {})

Arrive ==
    /\ MayAct /\ spent.req < MaxRequests /\ spent' = [spent EXCEPT !.req = @ + 1]
    /\ \E todo \in Requests : todo \notin ops /\ ops' = ops \cup {todo}
    /\ UNCHANGED <<store, inj, running, inside, wins, broke>>

\* reinjectRunningMachines; without one, a start will push.
NewInjection ==
    IF running THEN {[pc |-> "profile", win |-> {}, tries |-> 1, tok |-> 0, files |-> NoFiles,
                      prov |-> NoProviders, asof |-> 0]}
    ELSE {}

\* The next statement of a request, and what is left of the request.
Run(todo, do) ==
    /\ Head(todo).do = do
    /\ ops' = (ops \ {todo}) \cup (IF Len(todo) = 1 THEN {} ELSE {Tail(todo)})
    /\ ver' = ver + 1
    /\ UNCHANGED <<inj, running, spent, inside, wins, broke>>

PutValue(todo) == Run(todo, "put") /\ sec' = [sec EXCEPT ![Head(todo).on] = ver + 1] /\ UNCHANGED <<rows, keys, sshOn>>
DeleteValue(todo) == Run(todo, "del") /\ sec' = [sec EXCEPT ![Head(todo).on] = 0] /\ UNCHANGED <<rows, keys, sshOn>>
UpsertRow(todo) == Run(todo, "row") /\ rows' = rows \cup {Head(todo).on} /\ UNCHANGED <<sec, keys, sshOn>>
DeleteRow(todo) == Run(todo, "unrow") /\ rows' = rows \ {Head(todo).on} /\ UNCHANGED <<sec, keys, sshOn>>
InsertLoginKey(todo) == Run(todo, "addkey") /\ keys' = keys \cup {Head(todo).on} /\ UNCHANGED <<sec, rows, sshOn>>
RevokeLoginKey(todo) == Run(todo, "revoke") /\ keys' = keys \ {Head(todo).on} /\ UNCHANGED <<sec, rows, sshOn>>
SwitchSSH(todo) == Run(todo, "switch") /\ sshOn' = (Head(todo).on = "on") /\ UNCHANGED <<sec, rows, keys>>

Reinject(todo) ==
    /\ Head(todo).do = "inject"
    /\ ops' = ops \ {todo}
    /\ inj' = inj \cup NewInjection
    /\ UNCHANGED <<store, running, spent, inside, wins, broke>>

RequestFails(todo) ==
    /\ Faulty /\ (Head(todo).do = "unrow" => "unrow" \in May)
    /\ ops' = ops \ {todo} /\ broke' = TRUE
    /\ UNCHANGED <<store, inj, running, inside, wins>>

-----------------------------------------------------------------------------
(* The injector: compose reads profile, login keys and provider keys in    *)
(* that order, and push sends the set.                                     *)

Goto(i, j) == inj' = (inj \ {i}) \cup {j}

\* An item without a row or without a value is skipped.
Item(x) == IF x \in rows THEN sec[x] ELSE 0
EnvValue == Item(EnvItem)
FileValues == [f \in Files |-> IF f \in FileItems /\ Item(f) # 0 THEN {Item(f)} ELSE {}]

ReadProfile(i) ==
    /\ i.pc = "profile"
    /\ Goto(i, [i EXCEPT !.pc = "keys", !.tok = EnvValue, !.files = FileValues, !.asof = ver])
    /\ UNCHANGED <<store, ops, running, spent, inside, wins, broke>>

ActiveAuthorizedKeys == IF sshOn THEN keys ELSE {}

ReadKeys(i) ==
    /\ i.pc = "keys"
    /\ Goto(i, [i EXCEPT !.pc = "providers", !.files["authorized_keys"] = ActiveAuthorizedKeys])
    /\ UNCHANGED <<store, ops, running, spent, inside, wins, broke>>

\* A provider goes with its key, or keyless with the subscription's token.
ProviderDef(p, tok) ==
    CASE sec[p] # 0 -> [None EXCEPT !.in = TRUE, !.key = sec[p]]
      [] sec[p] = 0 /\ p \in Subscription -> [None EXCEPT !.in = TRUE, !.tok = tok]
      [] OTHER -> None

ReadProviders(i) ==
    /\ i.pc = "providers"
    /\ Goto(i, [i EXCEPT !.pc = "push", !.prov = [p \in Providers |-> ProviderDef(p, i.tok)]])
    /\ UNCHANGED <<store, ops, running, spent, inside, wins, broke>>

\* The push or a read failed, or so it seems to the injector.  InjectAsync tries
\* again from the start; a launch's injection fails the launch.
Failed(i) ==
    \/ /\ i.win = {} /\ i.tries < MaxAttempts
       /\ Goto(i, [i EXCEPT !.pc = "profile", !.tries = i.tries + 1])
       /\ UNCHANGED <<wins, broke>>
    \/ /\ i.win # {} \/ i.tries = MaxAttempts
       /\ inj' = inj \ {i} /\ wins' = wins \ i.win /\ broke' = TRUE

PushFails(i) ==
    /\ i.pc = "push"
    /\ IF running THEN Faulty ELSE UNCHANGED spent
    /\ Failed(i)
    /\ UNCHANGED <<store, ops, running, inside>>

-----------------------------------------------------------------------------
(* The guest's store.                                                      *)

Written(fs) == {f \in Files : fs[f] # {}}

\* writeFiles: files of the push are written, files of the last push that are not
\* in this one are removed, and the manifest is saved.  A removal that fails (kept)
\* is only logged: the file stays, and the manifest no longer has it.
WriteFiles(fs, kept) ==
    [files |-> [f \in Files |-> IF fs[f] # {} THEN fs[f]
                                ELSE IF f \in guest.managed \ kept THEN {} ELSE home.files[f]],
     manifest |-> Written(fs)]

\* writeEnvFile for every provider pushed, pruneExcept for the others.
EnvFiles(prov) == [p \in Providers |-> IF prov[p].in THEN prov[p] ELSE None]

\* Replace: env files, files, the map and its generation, under one lock; then a
\* goroutine per set-up command.
Replace(i) ==
    /\ env' = EnvFiles(i.prov)
    /\ \E kept \in IF "stuck" \in May THEN SUBSET Files ELSE {{}} : home' = WriteFiles(i.files, kept)
    /\ guest' = [prov |-> [p \in Providers |-> [i.prov[p] EXCEPT !.ready = ~(i.prov[p].in /\ p \in WithSetup)]],
                 gen |-> guest.gen + 1, managed |-> Written(i.files), asof |-> i.asof]
    /\ setups' = setups \cup {[p |-> p, gen |-> guest.gen + 1] : p \in {q \in WithSetup : i.prov[q].in}}

\* PUT /secrets; the answer may be lost on the way back.
HandleSecrets(i) ==
    /\ i.pc = "push" /\ running
    /\ Replace(i)
    /\ \/ /\ inj' = inj \ {i}
          /\ wins' = (wins \ i.win) \cup {[w EXCEPT !.pc = "get"] : w \in i.win}
          /\ broke' = FALSE /\ UNCHANGED spent
       \/ Faulty /\ Failed(i)
    /\ UNCHANGED <<store, ops, running, spoiled>>

\* A write under $HOME fails: the error is answered, and what was written before
\* it stays.
ReplaceHalf(i) ==
    /\ Faulty /\ i.pc = "push" /\ running
    /\ env' = EnvFiles(i.prov)
    /\ home' \in {home} \cup (IF "half" \in May
                            THEN {[home EXCEPT !.files[f] = i.files[f]] : f \in Written(i.files)} ELSE {})
    /\ Failed(i)
    /\ UNCHANGED <<store, ops, running, guest, setups, spoiled>>

\* Mutant: the generation is not compared.
SetupEndsLate(s, ok) ==
    /\ setups' = setups \ {s}
    /\ guest' = [guest EXCEPT !.prov[s.p].degraded = (guest.prov[s.p].in /\ ~ok),
                              !.prov[s.p].ready = (@ \/ s.gen = guest.gen)]
    /\ spoiled' = IF ok THEN spoiled ELSE spoiled \cup {s}
    /\ UNCHANGED <<store, ops, inj, running, spent, env, home, wins, broke>>

\* runSetupCommand.  The command of a superseded push says nothing about the present one.
SetupEnds(s, ok) ==
    /\ setups' = setups \ {s}
    /\ guest' = IF s.gen = guest.gen /\ guest.prov[s.p].in
                THEN [guest EXCEPT !.prov[s.p].degraded = ~ok, !.prov[s.p].ready = TRUE] ELSE guest
    /\ spoiled' = IF ok THEN spoiled ELSE spoiled \cup {s}
    /\ UNCHANGED <<store, ops, inj, running, spent, env, home, wins, broke>>

-----------------------------------------------------------------------------
(* The machine.  A power-off loses memory and tmpfs; the home directory    *)
(* with the manifest stays.  A hibernation loses nothing.                  *)

MachineStops(keep) ==
    /\ running /\ running' = FALSE
    /\ IF keep THEN UNCHANGED inside
       ELSE /\ guest' = [prov |-> NoProviders, gen |-> 0, managed |-> {}, asof |-> 0]
            /\ env' = NoProviders /\ setups' = {} /\ spoiled' = {}
            /\ UNCHANGED home
    /\ wins' = {}
    /\ inj' = {i \in inj : i.win = {}}
    /\ UNCHANGED <<store, ops, spent, broke>>

\* Mutant: the manifest of an earlier boot is not read.
ManagedNone == {}

\* New: the files an earlier boot wrote.
ManagedAtBoot == home.manifest

\* Start or resume; the poller's transition to running injects.
MachineStarts ==
    /\ MayAct /\ ~running /\ spent.start < MaxStarts
    /\ running' = TRUE /\ spent' = [spent EXCEPT !.start = @ + 1]
    /\ guest' = IF guest.gen = 0 THEN [guest EXCEPT !.managed = ManagedAtBoot] ELSE guest
    /\ inj' = inj \cup {[pc |-> "profile", win |-> {}, tries |-> 1, tok |-> 0, files |-> NoFiles,
                         prov |-> NoProviders, asof |-> 0]}
    /\ UNCHANGED <<store, ops, env, home, setups, spoiled, wins, broke>>

-----------------------------------------------------------------------------
(* An agent window: inject, then the guest looks the provider up, waits    *)
(* for its set-up, refuses a degraded one, and spawns.                     *)

Step(w, new) == wins' = (wins \ {w}) \cup {new}

\* Mutant: the launch trusts an earlier injection.
LaunchUninjected(p) ==
    /\ MayAct /\ running /\ spent.win < MaxLaunches /\ spent' = [spent EXCEPT !.win = @ + 1]
    /\ p \in Subscription \/ sec[p] # 0
    /\ wins' = wins \cup {[p |-> p, pc |-> "get", gen |-> 0, since |-> ver, used |-> None]}
    /\ UNCHANGED <<store, ops, inj, running, inside, broke>>

\* handleGatewayAgent: 409 without a key, unless a subscription will do.
Launch(p) ==
    /\ MayAct /\ running /\ spent.win < MaxLaunches /\ spent' = [spent EXCEPT !.win = @ + 1]
    /\ p \in Subscription \/ sec[p] # 0
    /\ LET w == [p |-> p, pc |-> "inject", gen |-> 0, since |-> ver, used |-> None] IN
         /\ wins' = wins \cup {w}
         /\ inj' = inj \cup {[pc |-> "profile", win |-> {w}, tries |-> 1, tok |-> 0, files |-> NoFiles,
                              prov |-> NoProviders, asof |-> 0]}
    /\ UNCHANGED <<store, ops, running, inside, broke>>

\* Get; without a definition the window is closed.
WinGet(w) ==
    /\ w.pc = "get"
    /\ IF guest.prov[w.p].in THEN Step(w, [w EXCEPT !.pc = "await", !.gen = guest.gen]) ELSE wins' = wins \ {w}
    /\ UNCHANGED <<store, ops, inj, running, spent, inside, broke>>

\* AwaitReady, on the channel of the push it found.
WinAwait(w) ==
    /\ w.pc = "await"
    /\ [p |-> w.p, gen |-> w.gen] \notin setups
    /\ Step(w, [w EXCEPT !.pc = "check"])
    /\ UNCHANGED <<store, ops, inj, running, spent, inside, broke>>

\* Degraded, EnvList: refused, or spawned with the environment there is now, which
\* is empty when the provider has gone from the store during the wait.
WinCheck(w) ==
    /\ w.pc = "check"
    /\ IF guest.prov[w.p].degraded THEN wins' = wins \ {w}
       ELSE Step(w, [w EXCEPT !.pc = "spawned", !.gen = guest.gen, !.used = guest.prov[w.p]])
    /\ UNCHANGED <<store, ops, inj, running, spent, inside, broke>>

WinCloses(w) ==
    /\ w.pc = "spawned" /\ wins' = wins \ {w}
    /\ UNCHANGED <<store, ops, inj, running, spent, inside, broke>>

-----------------------------------------------------------------------------
Next ==
    \/ Arrive \/ MachineStarts
    \/ \E keep \in BOOLEAN : MachineStops(keep)
    \/ \E todo \in ops :
        \/ PutValue(todo) \/ DeleteValue(todo) \/ UpsertRow(todo) \/ DeleteRow(todo)
        \/ InsertLoginKey(todo) \/ RevokeLoginKey(todo) \/ SwitchSSH(todo)
        \/ Reinject(todo) \/ RequestFails(todo)
    \/ \E i \in inj : ReadProfile(i) \/ ReadKeys(i) \/ ReadProviders(i) \/ PushFails(i) \/ HandleSecrets(i) \/ ReplaceHalf(i)
    \/ running /\ \E s \in setups, ok \in BOOLEAN : SetupEnds(s, ok)
    \/ \E p \in Providers : Launch(p)
    \/ \E w \in wins : WinGet(w) \/ WinAwait(w) \/ WinCheck(w) \/ WinCloses(w)

Spec == Init /\ [][Next]_vars

-----------------------------------------------------------------------------
\* The stored set, as a push composed now would have it.
Wanted == [FileValues EXCEPT !["authorized_keys"] = ActiveAuthorizedKeys]

\* "Never a metadata row promising a value that isn't there" (profile/store.go):
\* whatever requests and failures came before, once no request is at work on it.
RowHasValue == \A i \in rows : (\A todo \in ops : \A n \in 1 .. Len(todo) : todo[n].on # i) => sec[i] # 0

\* When nothing is under way, a running machine has the user's files and login
\* keys as they are stored, and no others: what was revoked or deleted, while
\* the machine ran or while it was off, is gone from it, and a login shell's
\* provider keys are those of the agents (reinjectRunningMachines, writeFiles).
QuietIsCurrent ==
    Quiet /\ running /\ ~broke =>
        /\ home.files = Wanted
        /\ \A p \in Providers : <<env[p].key, env[p].tok>> = <<guest.prov[p].key, guest.prov[p].tok>>

\* Every file the guest has written it will also remove: it is in the manifest
\* that the next boot reads, and in memory.
FilesManaged == Written(home.files) \subseteq home.manifest /\ (running => home.manifest \subseteq guest.managed)

\* An agent is spawned with a definition that is no older than the launch, with
\* its set-up command settled and not failed (handleGatewayAgent, AwaitReady).
LaunchIsReady ==
    \A w \in wins : w.pc = "spawned" =>
        /\ w.used.ready /\ [p |-> w.p, gen |-> w.gen] \notin spoiled
        /\ w.used.key # 0 \/ w.p \in Subscription

\* The definition is no older than the request to launch.
LaunchIsFresh == \A w \in wins : w.pc = "spawned" /\ w.gen = guest.gen => guest.asof >= w.since
=============================================================================
