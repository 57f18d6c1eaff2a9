----------------------------- MODULE GuestDisk -----------------------------
(***************************************************************************)
(* The guest's persistent disk (guestagent/internal/persist).  At every    *)
(* start of the agent Setup mounts the disk, prepares the user's home on   *)
(* it, moves sshd's host keys onto it, binds it into place and opens the   *)
(* machine database; when a part is missing the agent goes on without the  *)
(* disk.  The root file system is new at every boot, the disk is not, and  *)
(* the machine can lose power between any two steps.  sshd's own start     *)
(* (image/proteos-sshd.service) runs beside the agent's.                   *)
(***************************************************************************)
EXTENDS Naturals

CONSTANTS
    MaxBoots,       \* bound: boots of the machine
    MaxFaults,      \* bound: agent restarts and failed steps
    May             \* what may happen: "nodisk", "nobind", "nodb", "half" (a chown cut short),
                    \* "race" (ssh-keygen ahead of the agent), "restart" (of the agent), "emptied" (the home)

VARIABLES
    pc, mode,       \* where Setup is; Persist.mode once it is "ready"
    owner,          \* the home on the disk: owner of the directory and of what is in it
    dotfiles,       \* in the home: "none", "part" or "all" of /etc/skel, or "mine" (edited by the user)
    diskKeys,       \* host key files on the disk -> generation, 0 when absent
    etcKeys,        \* the same files in /etc/ssh -> generation of a real file, 0 when there is none
    links,          \* the files of /etc/ssh that are links to the disk
    mounted, binds, \* of this boot
    sshd,           \* the host key sshd has loaded in this boot, 0 before
    first,          \* TRUE: in this boot ssh-keygen came after the agent's links
    boots,          \* the boots table: the last kind recorded
    kv, acked,      \* the kv table; the last value acknowledged with the disk in place
    came,           \* how this run of the machine came about: "cold" or "resumed"
    skewed,         \* TRUE: the clock is behind, after a restore
    boot, gen, faults

vars == <<pc, mode, owner, dotfiles, diskKeys, etcKeys, links, mounted, binds, sshd, first, boots, kv, acked, came, skewed, boot, gen, faults>>
home == <<owner, dotfiles>>
tables == <<boots, kv, acked>>
keys == <<diskKeys, etcKeys, links, sshd, first, gen>>
run == <<came, skewed, boot>>

\* the private key before its public half, as in sshHostKeyFiles
Key == "key"
Pub == "pub"
Files == {Key, Pub}

TypeOK ==
    /\ pc \in {"start", "dirs", "seed", "seeding", "chown", "chowning", Key, Pub, "home", "work", "db", "ready"}
    /\ mode \in {"unset", "disk", "none"} /\ owner.top \in {"absent", "root", "dev"} /\ owner.inside \in {"root", "dev"}
    /\ dotfiles \in {"none", "part", "all", "mine"} /\ binds \subseteq {"home", "work"} /\ boots \in {"none", "cold", "resumed"}

\* A new disk, or one of an older image whose home is root's.
Init ==
    /\ pc = "start" /\ mode = "unset"
    /\ owner \in {[top |-> "absent", inside |-> "root"], [top |-> "root", inside |-> "root"]}
    /\ dotfiles = IF owner.top = "absent" THEN "none" ELSE "mine"
    /\ diskKeys = [f \in Files |-> 0] /\ etcKeys = [f \in Files |-> 0] /\ links = {} /\ mounted = FALSE /\ binds = {}
    /\ sshd = 0 /\ first = FALSE /\ boots = "none" /\ kv = 0 /\ acked = 0 /\ came = "cold" /\ skewed = FALSE
    /\ boot = 1 /\ gen = 0 /\ faults = 0

-----------------------------------------------------------------------------
(* Setup. *)

Fault(what) == what \in May /\ faults < MaxFaults /\ faults' = faults + 1

\* degraded: the agent serves terminals without the disk.
Degrade == pc' = "ready" /\ mode' = "none"

Mount ==
    /\ pc = "start"
    /\ \/ mounted' = TRUE /\ pc' = "dirs" /\ UNCHANGED <<mode, faults>>
       \/ ~mounted /\ Fault("nodisk") /\ Degrade /\ UNCHANGED mounted
    /\ UNCHANGED <<home, tables, keys, run, binds>>

EnsureDirs ==
    /\ pc = "dirs" /\ pc' = "seed"
    /\ owner' = IF owner.top = "absent" THEN [top |-> "root", inside |-> "root"] ELSE owner
    /\ UNCHANGED <<mode, dotfiles, tables, keys, run, mounted, binds, faults>>

\* Only an empty home is filled from /etc/skel; the copies are root's.
SeedHome ==
    /\ pc = "seed"
    /\ IF dotfiles = "none" THEN dotfiles' = "part" /\ owner' = [owner EXCEPT !.inside = "root"] /\ pc' = "seeding"
                            ELSE pc' = "chown" /\ UNCHANGED home
    /\ UNCHANGED <<mode, tables, keys, run, mounted, binds, faults>>

CopyTree ==
    /\ pc = "seeding" /\ dotfiles' = "all" /\ pc' = "chown"
    /\ UNCHANGED <<mode, owner, tables, keys, run, mounted, binds, faults>>

\* Mutant: the tree is walked only when the directory was just made.
ChownNewOnly ==
    /\ pc = "chown"
    /\ IF dotfiles # "all" THEN pc' = Key /\ UNCHANGED owner
                           ELSE owner' = [owner EXCEPT !.top = "dev"] /\ pc' = "chowning"
    /\ UNCHANGED <<mode, dotfiles, tables, keys, run, mounted, binds, faults>>

\* chownTreeIfNeeded: the walk begins with the directory itself.
ChownTop ==
    /\ pc = "chown"
    /\ IF owner.top = "dev" THEN pc' = Key /\ UNCHANGED owner
                            ELSE owner' = [owner EXCEPT !.top = "dev"] /\ pc' = "chowning"
    /\ UNCHANGED <<mode, dotfiles, tables, keys, run, mounted, binds, faults>>

\* ... and goes on to its contents, or stops at an error, which is only logged.
ChownRest ==
    /\ pc = "chowning" /\ pc' = Key
    /\ \/ owner' = [owner EXCEPT !.inside = "dev"] /\ UNCHANGED faults
       \/ Fault("half") /\ UNCHANGED owner
    /\ UNCHANGED <<mode, dotfiles, tables, keys, run, mounted, binds>>

\* Mutant: a key found in /etc/ssh is always moved to the disk.
EnsureKeyAlways(f) ==
    /\ pc = f /\ pc' = IF f = Key THEN Pub ELSE "home"
    /\ diskKeys' = IF etcKeys[f] # 0 THEN [diskKeys EXCEPT ![f] = etcKeys[f]] ELSE diskKeys
    /\ etcKeys' = [etcKeys EXCEPT ![f] = 0] /\ links' = links \cup {f}
    /\ first' = IF f = Key /\ sshd = 0 THEN TRUE ELSE first
    /\ UNCHANGED <<mode, home, tables, sshd, gen, run, mounted, binds, faults>>

\* Mutant: a link is made only in place of a file.
EnsureKeyReplaces(f) ==
    /\ pc = f /\ pc' = IF f = Key THEN Pub ELSE "home"
    /\ IF etcKeys[f] # 0 /\ diskKeys[f] # 0 THEN etcKeys' = [etcKeys EXCEPT ![f] = 0] /\ links' = links \cup {f} ELSE UNCHANGED <<etcKeys, links>>
    /\ first' = IF f = Key /\ sshd = 0 THEN TRUE ELSE first
    /\ UNCHANGED <<mode, home, tables, diskKeys, sshd, gen, run, mounted, binds, faults>>

\* The file of /etc/ssh becomes a link to the disk.  A real file the disk has no
\* copy of stays: it should be renamed to the disk, and a rename from one file
\* system to another fails.
EnsureSSHHostKey(f) ==
    /\ pc = f /\ pc' = IF f = Key THEN Pub ELSE "home"
    /\ IF etcKeys[f] # 0 /\ diskKeys[f] = 0 THEN UNCHANGED <<etcKeys, links>>
                                            ELSE etcKeys' = [etcKeys EXCEPT ![f] = 0] /\ links' = links \cup {f}
    /\ first' = IF f = Key /\ sshd = 0 THEN TRUE ELSE first
    /\ UNCHANGED <<mode, home, tables, diskKeys, sshd, gen, run, mounted, binds, faults>>

\* The two bind mounts; the first one stays when the second fails.
BindMount(what) ==
    /\ pc = what
    /\ \/ binds' = binds \cup {what} /\ pc' = (IF what = "home" THEN "work" ELSE "db") /\ UNCHANGED <<mode, faults>>
       \/ Fault("nobind") /\ Degrade /\ UNCHANGED binds
    /\ UNCHANGED <<home, tables, keys, run, mounted>>

\* Mutant: the schema is created anew.
OpenDBAnew ==
    /\ pc = "db" /\ pc' = "ready" /\ mode' = "disk" /\ boots' = "cold" /\ kv' = 0
    /\ UNCHANGED <<acked, home, keys, run, mounted, binds, faults>>

\* openDB, migrate, and the row of a cold boot.
OpenDB ==
    /\ pc = "db"
    /\ \/ pc' = "ready" /\ mode' = "disk" /\ boots' = "cold" /\ UNCHANGED faults
       \/ Fault("nodb") /\ Degrade /\ UNCHANGED boots
    /\ UNCHANGED <<kv, acked, home, keys, run, mounted, binds>>

-----------------------------------------------------------------------------
(* sshd's unit: ssh-keygen -A, then sshd reads the keys. *)

\* A file is missing when the path leads nowhere.
Missing(f) == IF f \in links THEN diskKeys[f] = 0 ELSE etcKeys[f] = 0

\* A missing private key is made with its public half, through the links that
\* are there; sshd loads the private key.
StartSSHD ==
    /\ sshd = 0 /\ ("race" \in May \/ pc \in {"home", "work", "db", "ready"})
    /\ gen' = IF Missing(Key) THEN gen + 1 ELSE gen
    /\ diskKeys' = [f \in Files |-> IF Missing(Key) /\ f \in links THEN gen' ELSE diskKeys[f]]
    /\ etcKeys' = [f \in Files |-> IF Missing(Key) /\ f \notin links THEN gen' ELSE etcKeys[f]]
    /\ sshd' = IF Key \in links THEN diskKeys'[Key] ELSE etcKeys'[Key]
    /\ UNCHANGED <<pc, mode, home, tables, links, first, run, mounted, binds, faults>>

-----------------------------------------------------------------------------
(* The running machine. *)

\* The user edits a dotfile in the home on the disk, or empties the home.
Edit ==
    /\ pc = "ready" /\ mode = "disk"
    /\ dotfiles' \in {"mine"} \cup (IF "emptied" \in May THEN {"none"} ELSE {})
    /\ UNCHANGED <<pc, mode, owner, tables, keys, run, mounted, binds, faults>>

\* Persist.Set answers without an error when there is no database.
KVSet ==
    /\ pc = "ready" /\ acked < MaxBoots
    /\ IF mode = "disk" THEN kv' = acked + 1 /\ acked' = acked + 1 ELSE UNCHANGED <<kv, acked>>
    /\ UNCHANGED <<pc, mode, boots, home, keys, run, mounted, binds, faults>>

\* applyResume: the host's clock and entropy.
SetClock == skewed' = FALSE

\* Mutant: a resumed boot is not recorded.
ResumeQuietly ==
    /\ pc = "ready" /\ came = "resumed" /\ skewed /\ SetClock
    /\ UNCHANGED <<pc, mode, tables, home, keys, came, boot, mounted, binds, faults>>

\* POST /resume: the clock, the entropy, and the row of a resumed boot.
Resume ==
    /\ pc = "ready" /\ came = "resumed" /\ skewed /\ SetClock
    /\ boots' = IF mode = "disk" THEN "resumed" ELSE boots
    /\ UNCHANGED <<pc, mode, kv, acked, home, keys, came, boot, mounted, binds, faults>>

\* A snapshot is restored: the agent is where it was, the clock is not.
Restore ==
    /\ pc = "ready" /\ boot < MaxBoots /\ came' = "resumed" /\ skewed' = TRUE /\ boot' = boot + 1
    /\ UNCHANGED <<pc, mode, tables, home, keys, mounted, binds, faults>>

\* Power off at any moment, and a cold boot from the golden image.
PowerCycle ==
    /\ boot < MaxBoots /\ boot' = boot + 1 /\ (pc = "chowning" => "half" \in May)
    /\ pc' = "start" /\ mode' = "unset" /\ etcKeys' = [f \in Files |-> 0] /\ links' = {} /\ mounted' = FALSE /\ binds' = {}
    /\ sshd' = 0 /\ first' = FALSE /\ came' = "cold" /\ skewed' = FALSE
    /\ UNCHANGED <<home, tables, diskKeys, gen, faults>>

\* systemd starts the agent again: mounts, links and sshd are as they were.
AgentRestart ==
    /\ pc = "ready" /\ Fault("restart") /\ pc' = "start" /\ mode' = "unset"
    /\ UNCHANGED <<home, tables, keys, run, mounted, binds>>

Next ==
    \/ Mount \/ EnsureDirs \/ SeedHome \/ CopyTree \/ ChownTop \/ ChownRest
    \/ \E f \in Files : EnsureSSHHostKey(f)
    \/ \E what \in {"home", "work"} : BindMount(what)
    \/ OpenDB \/ StartSSHD \/ Edit \/ KVSet \/ Resume \/ Restore \/ PowerCycle \/ AgentRestart

Spec == Init /\ [][Next]_vars

-----------------------------------------------------------------------------
(* Properties. *)

\* The identity kept on the disk never changes, whatever ssh-keygen does before
\* the agent has linked its files, in whatever boot (ensureSSHHostKeys).
IdentityKept == [][\A f \in Files : diskKeys[f] # 0 => diskKeys'[f] = diskKeys[f]]_vars

\* sshd shows that identity in every boot in which the agent's links came first
\* (ensureSSHHostKeys and the unit's order).
ShowsIdentity == sshd # 0 /\ first => sshd = diskKeys[Key]

\* "the fingerprint still settles by the next boot either way"
\* (image/proteos-sshd.service).  Fails: in every boot that ssh-keygen wins, sshd
\* loads a new key before the agent puts the old one back.
FingerprintSettles == sshd # 0 /\ boot > 1 /\ pc = "ready" /\ mode = "disk" /\ came = "cold" => sshd = diskKeys[Key]

\* "rescues a key written by a boot that raced ahead of this step"
\* (ensureSSHHostKeys): with the disk in place the key sshd shows is on it.  Fails:
\* the rename to the disk cannot succeed.
KeyRescued == sshd # 0 /\ pc = "ready" /\ mode = "disk" => diskKeys[Key] # 0

\* With the disk in place the user owns the home and what is in it
\* (setupDiskBinds, chownTreeIfNeeded).  With "half" in May it fails, since the
\* directory is chowned first and later boots look only at the directory; with
\* "emptied" it fails, since an emptied home is filled with root's copies.
HomeIsTheirs == pc = "ready" /\ mode = "disk" => owner.inside = "dev"

\* What the user has made of the home is not filled from /etc/skel again, and a
\* value the kv table acknowledged is still read there, over all boots, restores
\* and restarts (seedHome, migrate).
NothingOverwritten == [][(dotfiles = "mine" => dotfiles' = "mine") /\ kv' >= kv]_vars

\* GET /info tells how the machine came up: a cold boot or a restored snapshot,
\* unless the agent itself was restarted (recordBoot).
LastBootTells == pc = "ready" /\ mode = "disk" /\ ~skewed /\ faults = 0 => boots = came

\* A machine that says it runs without the disk does.  Fails: the first bind
\* stays when a later step fails.
EphemeralIsEphemeral == pc = "ready" /\ mode = "none" => "home" \notin binds
=============================================================================
