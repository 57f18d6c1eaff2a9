--------------------------- MODULE GuestSettings ----------------------------
(***************************************************************************)
(* The settings the control plane writes into a user's machine: the git    *)
(* identity in ~/.gitconfig and the attribution keys in                    *)
(* ~/.claude/settings.json.  A change of either, and every new control     *)
(* channel, calls configure (controlplane/internal/guestctl/manager.go),   *)
(* which reads the rows and sends git.configure, then claude.configure.    *)
(* The guest overwrites the first file and merges into the second, which   *)
(* the user edits too, and remembers in a marker file that it did          *)
(* (guestagent/internal/ctlchan/manager.go, claude.go).                    *)
(*                                                                         *)
(* The three managed keys are treated alike by the code and are one here;  *)
(* everything else in the settings file is a number that counts the user's *)
(* changes to it.                                                          *)
(***************************************************************************)
EXTENDS Naturals

CONSTANTS
    Calls,      \* calls of configure, each made once
    MaxEdits,   \* edits the user makes to the settings file
    MaxDrops,
    May         \* "overlap": a second call while one runs; "race": the user
                \* edits during one; "crash": the guest agent dies between
                \* writing the settings and their marker; "unread": the
                \* identity's row cannot be read

VARIABLES
    ident, attribution, \* the rows: the git identity, claude_attribution
    chan, drops,        \* the control channel
    pc, got,            \* each call, and the rows as it read them
    last,               \* how the last call ended
    gitconfig,          \* the identity in ~/.gitconfig
    settings,           \* ~/.claude/settings.json
    seen,               \* the settings as a call read them
    marker,             \* ~/.proteos/claude-attribution-managed
    edits               \* edits made by the user

rows == <<ident, attribution>>
guestvars == <<gitconfig, settings, seen, marker>>
vars == <<rows, chan, drops, pc, got, last, guestvars, edits>>

\* No git identity is set: the name and address of the GitHub account.
GitHubDefault == 0
Identities == 1..2

\* The managed keys: absent, blank, or some text; and who wrote them.
Settings == [attr : {"absent", "blank", "text"}, by : {"user", "agent"}, other : Nat, valid : BOOLEAN]

Quiet == \A k \in Calls : pc[k] \in {"idle", "done", "failed"}
MayCall == "overlap" \in May \/ Quiet

Init ==
    /\ ident = GitHubDefault /\ attribution = TRUE /\ chan = FALSE /\ drops = 0
    /\ pc = [k \in Calls |-> "idle"] /\ got = [k \in Calls |-> [ident |-> GitHubDefault, attribution |-> TRUE]] /\ last = "none"
    /\ gitconfig = GitHubDefault /\ marker = FALSE /\ edits = 0
    /\ settings = [attr |-> "absent", by |-> "user", other |-> 0, valid |-> TRUE]
    /\ seen = [k \in Calls |-> settings]

-----------------------------------------------------------------------------
\* The control plane.

Go(k, to) == pc' = [pc EXCEPT ![k] = to]
End(k, how) == Go(k, how) /\ last' = how

\* The row first, then ReconfigureUser.
SetGitIdentity(k, i) ==
    /\ pc[k] = "idle" /\ MayCall
    /\ ident' = i /\ Go(k, "list")
    /\ UNCHANGED <<attribution, chan, drops, got, last, guestvars, edits>>

\* The same, with a row that is there; without one the answer is not_set.
DeleteGitIdentity(k) ==
    /\ pc[k] = "idle" /\ MayCall
    /\ ident' = GitHubDefault /\ Go(k, IF ident = GitHubDefault THEN "done" ELSE "list")
    /\ UNCHANGED <<attribution, chan, drops, got, last, guestvars, edits>>

\* The same for the preference.
SetAttribution(k) ==
    /\ pc[k] = "idle" /\ MayCall
    /\ attribution' = ~attribution /\ Go(k, "list")
    /\ UNCHANGED <<ident, chan, drops, got, last, guestvars, edits>>

\* Only a machine with a channel is reconfigured.
ReconfigureUser(k) ==
    /\ pc[k] = "list"
    /\ IF chan THEN Go(k, "load") /\ UNCHANGED last ELSE End(k, "done")
    /\ UNCHANGED <<rows, chan, drops, got, guestvars, edits>>

\* A new channel starts a call of its own.
Connect(k) ==
    /\ ~chan /\ pc[k] = "idle" /\ MayCall
    /\ chan' = TRUE /\ Go(k, "load")
    /\ UNCHANGED <<rows, drops, got, last, guestvars, edits>>

\* Mutant: the attribution is the one every user starts with.
LoadDefault(k) ==
    /\ pc[k] = "load"
    /\ got' = [got EXCEPT ![k] = [ident |-> ident, attribution |-> TRUE]] /\ Go(k, "git")
    /\ UNCHANGED <<rows, chan, drops, last, guestvars, edits>>

\* The identity as it is read: a query that fails counts as no identity.
GetGitIdentity == {ident} \union (IF "unread" \in May THEN {GitHubDefault} ELSE {})

\* configure reads the user and the identity.
Load(k) ==
    /\ pc[k] = "load"
    /\ \E i \in GetGitIdentity : got' = [got EXCEPT ![k] = [ident |-> i, attribution |-> attribution]]
    /\ Go(k, "git")
    /\ UNCHANGED <<rows, chan, drops, last, guestvars, edits>>

\* The channel drops; a request not yet taken by the guest fails.
Drop ==
    /\ chan /\ drops < MaxDrops
    /\ chan' = FALSE /\ drops' = drops + 1
    /\ UNCHANGED <<rows, pc, got, last, guestvars, edits>>

RequestFails(k) ==
    /\ ~chan /\ pc[k] \in {"git", "claude"} /\ End(k, "failed")
    /\ UNCHANGED <<rows, chan, drops, got, guestvars, edits>>

-----------------------------------------------------------------------------
\* The guest.

\* Mutant: a configuration that is there is kept.
WriteGitConfigOnce(k) ==
    /\ chan /\ pc[k] = "git"
    /\ gitconfig' = (IF gitconfig = GitHubDefault THEN got[k].ident ELSE gitconfig) /\ Go(k, "claude")
    /\ UNCHANGED <<rows, chan, drops, got, last, settings, seen, marker, edits>>

writeGitConfig(k) ==
    /\ chan /\ pc[k] = "git"
    /\ gitconfig' = got[k].ident /\ Go(k, "claude")
    /\ UNCHANGED <<rows, chan, drops, got, last, settings, seen, marker, edits>>

\* Mutant: a file that does not parse counts as none.
ReadAnything(k, next) ==
    /\ seen' = [seen EXCEPT ![k] = IF settings.valid THEN settings ELSE [settings EXCEPT !.valid = TRUE, !.other = 0]]
    /\ Go(k, next) /\ UNCHANGED last

\* A file that does not parse is left alone and the call fails.
readClaudeSettings(k, next) ==
    \/ settings.valid /\ seen' = [seen EXCEPT ![k] = settings] /\ Go(k, next) /\ UNCHANGED last
    \/ ~settings.valid /\ End(k, "failed") /\ UNCHANGED seen

suppressClaudeAttribution(k) ==
    /\ chan /\ pc[k] = "claude" /\ ~got[k].attribution /\ readClaudeSettings(k, "blank")
    /\ UNCHANGED <<rows, chan, drops, got, gitconfig, settings, marker, edits>>

\* Without the marker nothing is touched.
restoreClaudeAttribution(k) ==
    /\ chan /\ pc[k] = "claude" /\ got[k].attribution
    /\ IF marker THEN readClaudeSettings(k, "clear") ELSE End(k, "done") /\ UNCHANGED seen
    /\ UNCHANGED <<rows, chan, drops, got, gitconfig, settings, marker, edits>>

\* Mutant: the keys are dropped whatever they hold.
DropKeys(s) == [s EXCEPT !.attr = "absent", !.by = "agent"]

\* The file is written as it was read, with the keys blank,
BlankKeys(s) == [s EXCEPT !.attr = "blank", !.by = "agent"]
\* or without them where they still are blank.
DropBlankKeys(s) == IF s.attr = "blank" THEN [s EXCEPT !.attr = "absent", !.by = "agent"] ELSE s

writeClaudeSettings(k) ==
    /\ \/ pc[k] = "blank" /\ settings' = BlankKeys(seen[k]) /\ Go(k, "mark")
       \/ pc[k] = "clear" /\ settings' = DropBlankKeys(seen[k]) /\ Go(k, "unmark")
    /\ UNCHANGED <<rows, chan, drops, got, last, gitconfig, seen, marker, edits>>

\* Mutant: the marker of a suppressed attribution is forgotten.
MarkNothing(k) ==
    /\ pc[k] = "mark" /\ End(k, "done")
    /\ UNCHANGED <<rows, chan, drops, got, guestvars, edits>>

writeAttributionMarker(k) ==
    /\ pc[k] = "mark" /\ marker' = TRUE /\ End(k, "done")
    /\ UNCHANGED <<rows, chan, drops, got, gitconfig, settings, seen, edits>>

RemoveMarker(k) ==
    /\ pc[k] = "unmark" /\ marker' = FALSE /\ End(k, "done")
    /\ UNCHANGED <<rows, chan, drops, got, gitconfig, settings, seen, edits>>

\* The user changes the keys, other settings, or breaks or mends the file.
UserEdits ==
    /\ edits < MaxEdits /\ ("race" \in May \/ Quiet)
    /\ edits' = edits + 1
    /\ settings' \in {[settings EXCEPT !.attr = "blank", !.by = "user"], [settings EXCEPT !.attr = "text", !.by = "user"],
                      [settings EXCEPT !.other = edits'], [settings EXCEPT !.valid = ~@]}
    /\ UNCHANGED <<rows, chan, drops, pc, got, last, gitconfig, seen, marker>>

Crash ==
    /\ "crash" \in May \/ \A k \in Calls : pc[k] # "mark"
    /\ drops < MaxDrops /\ drops' = drops + 1 /\ chan' = FALSE
    /\ pc' = [k \in Calls |-> IF pc[k] \in {"git", "claude", "blank", "clear", "mark", "unmark"} THEN "failed" ELSE pc[k]]
    /\ last' = "failed"
    /\ UNCHANGED <<rows, got, guestvars, edits>>

Configure(k) ==
    \/ ReconfigureUser(k) \/ Load(k) \/ RequestFails(k)
    \/ writeGitConfig(k) \/ suppressClaudeAttribution(k) \/ restoreClaudeAttribution(k)
    \/ writeClaudeSettings(k) \/ writeAttributionMarker(k) \/ RemoveMarker(k)

Next ==
    \/ \E k \in Calls : Configure(k) \/ (\E i \in Identities : SetGitIdentity(k, i)) \/ DeleteGitIdentity(k) \/ SetAttribution(k) \/ Connect(k)
    \/ UserEdits \/ Drop \/ Crash

Spec == Init /\ [][Next]_vars

-----------------------------------------------------------------------------
\* When calls follow one another and the last one went through, a machine
\* with a channel has the identity of the row.
IdentityApplied == Quiet /\ chan /\ last = "done" => gitconfig = ident

\* And the attribution of the row, unless the user edited the keys since:
\* blank when it is off, not held blank by the agent when it is on.
AttributionApplied ==
    Quiet /\ chan /\ last = "done" /\ (edits = 0 \/ settings.by = "agent")
        => (settings.attr = "blank" <=> ~attribution)

\* What the user wrote is kept: other settings, a file that does not parse,
\* and, where the machine never blanked the keys, those too.
UserContentKept ==
    [][edits' = edits =>
         /\ settings'.other = settings.other /\ settings'.valid = settings.valid
         /\ ~marker /\ attribution /\ settings' # settings => \E k \in Calls : pc[k] = "blank"]_vars

\* Text the user put in place of the blank is not removed again
\* (restoreClaudeAttribution: "theirs wins").
TheirTextWins == [][settings.attr = "text" /\ settings'.attr = "absent" => edits' # edits]_vars

\* Values the agent wrote are marked as its own.
OursAreMarked == Quiet /\ settings.attr = "blank" /\ settings.by = "agent" => marker

\* Blank keys of the user's own hand stay ("a user who blanked attribution by
\* hand is never fought with", claude.go).
HandBlankedKept == [][edits > 0 /\ settings.attr = "blank" /\ settings'.attr = "absent" => settings.by = "agent"]_vars
=============================================================================
