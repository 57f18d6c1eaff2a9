------------------------------ MODULE Worktree ------------------------------
(***************************************************************************)
(* The worktree-review surface of one project in a running machine: the    *)
(* HTTP handlers git/status, git/diff, git/branch and git/commit           *)
(* (controlplane/internal/httpapi/gitops.go), their requests over the      *)
(* machine's control channel (guestctl/manager.go) and the guest's side,   *)
(* which runs several git commands for one request                         *)
(* (guestagent/internal/ctlchan/gitops.go).  Each git command is one step; *)
(* between two of them the user or an agent may edit, another request may  *)
(* run, and the channel may drop, after which the guest kills its command. *)
(*                                                                         *)
(* The content of a file is the number of the edit that wrote it.  git     *)
(* itself is external: Stage, Commit and Create do what its commands do.   *)
(***************************************************************************)
EXTENDS Naturals, Sequences, FiniteSets, FiniteSetsExt

CONSTANTS
    Handlers,   \* HTTP requests, each served once
    Files,      \* paths in the repository
    Weight,     \* Weight[f]: what a change of f adds to a diff
    DiffCap,    \* maxDiffBytes
    Envelope,   \* what JSON adds to a diff of that size
    FrameLimit, \* the read limit of the control channel
    MaxEdits, MaxDrops,
    May         \* "overlap": two requests at once; "edit": edits during one;
                \* "kill": a killed git leaves its lock file

VARIABLES
    chan,       \* the machine has a live control channel
    drops,      \* how often it dropped
    cp,         \* the handler in the control plane
    req,        \* what it was asked
    res,        \* what it answered
    guest,      \* where the guest is with its request
    work, index,\* the working tree and the index
    edits,      \* number of edits made
    commits,    \* every commit, in order
    refs,       \* branch -> its commit
    cur,        \* the branch HEAD names
    locked,     \* an index.lock nobody holds
    shown       \* what status or diff last showed to a reviewer

reqvars == <<cp, req, res, guest>>
repovars == <<work, index, commits, refs, cur>>
vars == <<chan, drops, reqvars, repovars, edits, locked, shown>>

Names == {"main", "old", "new"}
Absent == 0

\* The requests: an empty set of paths is "all changes".
CommitRequests == [op : {"commit"}, paths : SUBSET Files]
BranchRequests == [op : {"branch"}, name : {"new"}, checkout : BOOLEAN, from : {"", "old", "new"}]
StatusRequests == [op : {"status"}]
DiffRequests == [op : {"diff"}, staged : BOOLEAN]
Requests == CommitRequests \union BranchRequests \union StatusRequests \union DiffRequests

HeadTree == commits[refs[cur]].tree
Running(h) == guest[h] \notin {"none", "done"}
Quiet == \A h \in Handlers : ~Running(h)

\* A clone with a main branch one commit ahead of an old one.
Init ==
    /\ chan = TRUE /\ drops = 0 /\ edits = 1 /\ locked = FALSE
    /\ cp = [h \in Handlers |-> "idle"] /\ guest = [h \in Handlers |-> "none"]
    /\ req = [h \in Handlers |-> [op |-> "none"]] /\ res = [h \in Handlers |-> [code |-> "none"]]
    /\ commits = <<[tree |-> [f \in Files |-> 0], parent |-> Absent, by |-> "clone", paths |-> {}],
                   [tree |-> [f \in Files |-> IF f = CHOOSE g \in Files : TRUE THEN 1 ELSE 0], parent |-> 1, by |-> "clone", paths |-> {}]>>
    /\ work = commits[2].tree /\ index = work
    /\ refs = [b \in Names |-> CASE b = "main" -> 2 [] b = "old" -> 1 [] OTHER -> Absent]
    /\ cur = "main" /\ shown = work

-----------------------------------------------------------------------------
\* The control plane's side.

Answer(h, r) == /\ cp' = [cp EXCEPT ![h] = "answered"]
                /\ res' = [res EXCEPT ![h] = r]

\* The request is well formed and its machine running with a channel, or it
\* is refused.
Ask(h, q) ==
    /\ cp[h] = "idle"
    /\ "overlap" \in May \/ (Quiet /\ \A g \in Handlers : cp[g] \in {"idle", "answered"})
    /\ req' = [req EXCEPT ![h] = q]
    /\ IF chan THEN cp' = [cp EXCEPT ![h] = "resolve"] /\ UNCHANGED res
               ELSE Answer(h, [code |-> "machine_not_running"])
    /\ UNCHANGED <<chan, drops, guest, repovars, edits, locked, shown>>

\* The project is looked up in the guest's list, then the request goes out.
Resolve(h) ==
    /\ cp[h] = "resolve"
    /\ IF chan THEN /\ cp' = [cp EXCEPT ![h] = "wait"]
                    /\ guest' = [guest EXCEPT ![h] = "start"]
                    /\ UNCHANGED res
               ELSE /\ \E c \in {"machine_not_running", "guest_unreachable"} : Answer(h, [code |-> c])
                    /\ UNCHANGED guest
    /\ UNCHANGED <<chan, drops, req, repovars, edits, locked, shown>>

\* Every request waiting on the channel fails with it.
FailWaiting ==
    /\ cp' = [h \in Handlers |-> IF cp[h] = "wait" THEN "answered" ELSE cp[h]]
    /\ res' = [h \in Handlers |-> IF cp[h] = "wait" THEN [code |-> "guest_unreachable"] ELSE res[h]]

Drop ==
    /\ chan /\ drops < MaxDrops
    /\ chan' = FALSE /\ drops' = drops + 1 /\ FailWaiting
    /\ UNCHANGED <<req, guest, repovars, edits, locked, shown>>

Reconnect ==
    /\ ~chan /\ chan' = TRUE
    /\ UNCHANGED <<drops, reqvars, repovars, edits, locked, shown>>

-----------------------------------------------------------------------------
\* The guest's side.

\* The guest is done with the request; its answer reaches a handler that
\* still waits.
Reply(h, r) ==
    /\ guest' = [guest EXCEPT ![h] = "done"]
    /\ IF cp[h] = "wait" THEN Answer(h, r) ELSE UNCHANGED <<cp, res>>

Go(h, to) == guest' = [guest EXCEPT ![h] = to] /\ UNCHANGED <<cp, res>>

Edit(f) ==
    /\ edits <= MaxEdits /\ ("edit" \in May \/ Quiet)
    /\ edits' = edits + 1 /\ work' = [work EXCEPT ![f] = edits']
    /\ UNCHANGED <<chan, drops, reqvars, index, commits, refs, cur, locked, shown>>

Status(h) ==
    /\ guest[h] = "start" /\ req[h].op = "status"
    /\ shown' = work
    /\ Reply(h, [code |-> "ok", files |-> {f \in Files : work[f] # index[f] \/ index[f] # HeadTree[f]}])
    /\ UNCHANGED <<chan, drops, req, repovars, edits, locked>>

DiffSize(staged) ==
    MapThenSumSet(LAMBDA f : Weight[f],
                  IF staged THEN {f \in Files : index[f] # HeadTree[f]} ELSE {f \in Files : work[f] # index[f]})

\* At most the cap of the diff is sent, in a frame with its envelope; a frame
\* over the reader's limit closes the channel.
Diff(h) ==
    /\ guest[h] = "start" /\ req[h].op = "diff"
    /\ LET sent == Min({DiffSize(req[h].staged), DiffCap})
           fits == sent = 0 \/ sent + Envelope <= FrameLimit IN
       \/ /\ fits \/ cp[h] # "wait"
          /\ Reply(h, [code |-> "ok", truncated |-> DiffSize(req[h].staged) > DiffCap])
          /\ shown' = work /\ UNCHANGED <<chan, drops>>
       \/ /\ ~fits /\ cp[h] = "wait"
          /\ guest' = [guest EXCEPT ![h] = "done"] /\ FailWaiting /\ chan' = FALSE
          /\ UNCHANGED <<drops, shown>>
    /\ UNCHANGED <<req, repovars, edits, locked>>

\* show-ref before the creation.
BranchExists(h) ==
    /\ guest[h] = "start" /\ req[h].op = "branch"
    /\ IF refs[req[h].name] # Absent THEN Reply(h, [code |-> "branch_exists"]) ELSE Go(h, "create")
    /\ UNCHANGED <<chan, drops, req, repovars, edits, locked, shown>>

\* Files in which the start point differs from HEAD.
Differs(q) == IF q.from = "" THEN {} ELSE {f \in Files : commits[refs[q.from]].tree[f] # HeadTree[f]}

\* Mutant: git checkout -f.
CreatableForced(q) ==
    /\ refs[q.name] = Absent
    /\ q.from # "" => refs[q.from] # Absent
    /\ q.checkout => ~locked

\* git branch and git checkout -b fail for a branch that exists, an unknown
\* start point, or a checkout over uncommitted changes.
Creatable(q) ==
    /\ refs[q.name] = Absent
    /\ q.from # "" => refs[q.from] # Absent
    /\ q.checkout => ~locked /\ \A f \in Differs(q) : work[f] = HeadTree[f] /\ index[f] = HeadTree[f]

CreateBranch(q) ==
    /\ refs' = [refs EXCEPT ![q.name] = refs[IF q.from = "" THEN cur ELSE q.from]]
    /\ cur' = IF q.checkout THEN q.name ELSE cur
    /\ LET over == IF q.checkout THEN Differs(q) ELSE {}
           onto(t) == [f \in Files |-> IF f \in over THEN commits[refs[q.from]].tree[f] ELSE t[f]] IN
       work' = onto(work) /\ index' = onto(index)
    /\ UNCHANGED commits

\* Mutant: git branch -f, git checkout -B.
BranchForce(h) ==
    /\ guest[h] = "create"
    /\ LET ok == Creatable(req[h]) \/ (refs[req[h].name] # Absent /\ req[h].from = "") IN
       \/ ok /\ CreateBranch(req[h]) /\ Go(h, "named")
       \/ ~ok /\ Reply(h, [code |-> "branch_failed"]) /\ UNCHANGED repovars
    /\ UNCHANGED <<chan, drops, req, edits, locked, shown>>

Branch(h) ==
    /\ guest[h] = "create"
    /\ \/ /\ Creatable(req[h]) /\ CreateBranch(req[h]) /\ Go(h, "named")
       \/ /\ ~Creatable(req[h]) /\ Reply(h, [code |-> "branch_failed"]) /\ UNCHANGED repovars
    /\ UNCHANGED <<chan, drops, req, edits, locked, shown>>

\* rev-parse after the creation: the current branch.
BranchReply(h) ==
    /\ guest[h] = "named"
    /\ Reply(h, [code |-> "ok", branch |-> cur])
    /\ UNCHANGED <<chan, drops, req, repovars, edits, locked, shown>>

Scope(q) == IF q.paths = {} THEN Files ELSE q.paths

\* git add -A, or of the paths named.
Stage(h) ==
    /\ guest[h] = "start" /\ req[h].op = "commit"
    /\ \/ /\ ~locked /\ Go(h, "staged")
          /\ index' = [f \in Files |-> IF f \in Scope(req[h]) THEN work[f] ELSE index[f]]
       \/ /\ locked /\ Reply(h, [code |-> "commit_failed"]) /\ UNCHANGED index
    /\ UNCHANGED <<chan, drops, req, work, commits, refs, cur, edits, locked, shown>>

\* git diff --cached --quiet of the same paths.
NothingStaged(h) ==
    /\ guest[h] = "staged"
    /\ IF \A f \in Scope(req[h]) : index[f] = HeadTree[f]
       THEN Reply(h, [code |-> "nothing_to_commit"]) ELSE Go(h, "commit")
    /\ UNCHANGED <<chan, drops, req, repovars, edits, locked, shown>>

\* Mutant: the paths are left off the commit.
CommitTreeOfIndex(q) == index

\* What git commit makes of the index, or of the working tree's named paths.
CommitTree(q) == IF q.paths = {} THEN index ELSE [f \in Files |-> IF f \in q.paths THEN work[f] ELSE HeadTree[f]]

Committable(h) == ~locked /\ CommitTree(req[h]) # HeadTree

NewCommit(h) ==
    /\ commits' = Append(commits, [tree |-> CommitTree(req[h]), parent |-> refs[cur], by |-> h, paths |-> req[h].paths])
    /\ refs' = [refs EXCEPT ![cur] = Len(commits) + 1]
    /\ index' = [f \in Files |-> IF f \in req[h].paths THEN work[f] ELSE index[f]]

\* Mutant: the exit status of git commit is not looked at.
CommitUnchecked(h) ==
    /\ guest[h] = "commit"
    /\ \/ Committable(h) /\ NewCommit(h)
       \/ ~Committable(h) /\ UNCHANGED <<commits, refs, index>>
    /\ Go(h, "made")
    /\ UNCHANGED <<chan, drops, req, work, cur, edits, locked, shown>>

Commit(h) ==
    /\ guest[h] = "commit"
    /\ \/ Committable(h) /\ NewCommit(h) /\ Go(h, "made")
       \/ ~Committable(h) /\ Reply(h, [code |-> "commit_failed"]) /\ UNCHANGED <<commits, refs, index>>
    /\ UNCHANGED <<chan, drops, req, work, cur, edits, locked, shown>>

\* rev-parse after the commit: HEAD's commit.
CommitReply(h) ==
    /\ guest[h] = "made"
    /\ Reply(h, [code |-> "ok", sha |-> refs[cur]])
    /\ UNCHANGED <<chan, drops, req, repovars, edits, locked, shown>>

\* The request's context ends: its time is over or the channel is gone.  The
\* command that runs is killed, its lock file perhaps left behind.  A diff answers
\* with what it had, and a name that cannot be read after the work is left empty.
Killed(h) ==
    /\ Running(h)
    /\ \/ guest[h] = "made" /\ Reply(h, [code |-> "ok", sha |-> Absent])
       \/ guest[h] = "named" /\ Reply(h, [code |-> "ok", branch |-> Absent])
       \/ guest[h] = "start" /\ req[h].op = "diff" /\ Reply(h, [code |-> "ok", truncated |-> FALSE])
       \/ /\ guest[h] \notin {"made", "named"}
          /\ Reply(h, [code |-> IF req[h].op = "commit" THEN "commit_failed"
                                ELSE IF req[h].op = "branch" THEN "branch_failed" ELSE "guest_unreachable"])
    /\ \/ UNCHANGED locked
       \/ "kill" \in May /\ guest[h] \in {"start", "commit", "create"} /\ locked' = TRUE
    /\ UNCHANGED <<chan, drops, req, repovars, edits, shown>>

Serve(h) ==
    \/ Resolve(h) \/ Status(h) \/ Diff(h) \/ BranchExists(h) \/ Branch(h) \/ BranchReply(h)
    \/ Stage(h) \/ NothingStaged(h) \/ Commit(h) \/ CommitReply(h)

Next ==
    \/ \E h \in Handlers : Serve(h) \/ Killed(h) \/ \E q \in Requests : Ask(h, q)
    \/ \E f \in Files : Edit(f)
    \/ Drop \/ Reconnect

Spec == Init /\ [][Next]_vars

-----------------------------------------------------------------------------
\* A commit of named paths changes no other path, whatever another request
\* staged in between (gitCommit's "--").
CommitOnlyNamed ==
    \A c \in DOMAIN commits :
        commits[c].paths # {} =>
            \A f \in Files \ commits[c].paths : commits[c].tree[f] = commits[commits[c].parent].tree[f]

\* A request that is answered ok made exactly one commit, and one refused
\* with nothing_to_commit made none, though the index may change between the
\* check and the commit.
AnswersAreTrue ==
    \A h \in Handlers :
        req[h].op = "commit" /\ cp[h] = "answered" =>
            LET made == Cardinality({c \in DOMAIN commits : commits[c].by = h}) IN
            /\ res[h].code = "ok" => made = 1
            /\ res[h].code = "nothing_to_commit" => made = 0

\* A branch, once made, moves only by a commit on it: of two requests racing
\* past the existence check, the later does not take the branch over.
BranchStays ==
    [][\A b \in Names :
         refs[b] # Absent /\ refs'[b] # refs[b] => b = cur /\ commits' # commits /\ commits'[refs'[b]].parent = refs[b]]_vars

\* No request throws uncommitted work away: the working tree changes by an
\* edit, or where it held what a commit holds.
NoWorkLost ==
    [][\A f \in Files : work'[f] # work[f] => edits' # edits \/ work[f] = HeadTree[f]]_vars

\* The commit a request names in its answer is the one it made
\* (GitCommitResponse: "the new HEAD short sha").
OwnCommitReported ==
    \A h \in Handlers :
        req[h].op = "commit" /\ cp[h] = "answered" /\ res[h].code = "ok" /\ res[h].sha # Absent => commits[res[h].sha].by = h

\* What a commit holds is what the reviewer was last shown ("the human review
\* gate", handleGitCommit).
ReviewedIsCommitted ==
    \A c \in DOMAIN commits : commits[c].by # "clone" => \A f \in Scope(commits[c]) : commits[c].tree[f] <= shown[f]

\* No diff breaks the channel ("cannot blow the control-channel frame",
\* gitops.go).
DiffFitsFrame == [][chan /\ ~chan' => drops' # drops]_vars

\* The repository can be written when no command runs.
IndexUnlocked == Quiet => ~locked
=============================================================================
