---------------------------- MODULE GitTransfers ----------------------------
(***************************************************************************)
(* Clones and pushes of one machine.  Both are dispatched by an HTTP       *)
(* handler (controlplane/internal/httpapi/git.go, gitops.go), acknowledged *)
(* by the guest before they run, and reported when they end by a message   *)
(* the control plane turns into a machine event                            *)
(* (guestagent/internal/ctlchan/manager.go, gitops.go;                     *)
(* controlplane/internal/guestctl/manager.go).  The workspace is the only  *)
(* table of projects there is: a listing scans it.                         *)
(***************************************************************************)
EXTENDS Naturals, Sequences

CONSTANTS
    Ops,        \* dispatched operations, an op_id each
    Repos,      \* [owner, name]
    MaxFaults,
    May         \* "kill": the clone's time runs out; "remove": the user
                \* deletes a directory

VARIABLES
    chan, faults,\* the control channel; losses of it and of a row
    cp,         \* the handler of each operation
    op,         \* what it was asked
    guest,      \* the guest's goroutine
    ws,         \* directory under /workspace -> what it holds
    pushed,     \* what reached a remote: <<op, repo>>
    good,       \* operations whose git command succeeded
    events      \* machine_events of type git.clone and git.push

cvars == <<chan, faults>>
vars == <<cvars, cp, op, guest, ws, pushed, good, events>>

\* The directory of a repository is the part of its name after the slash.
repoDir(r) == r.name
Dirs == {repoDir(r) : r \in Repos}
Nothing == [repo |-> [owner |-> "", name |-> ""], whole |-> FALSE]

\* listProjects: a directory with a .git, which a clone makes first.
Listed(d) == ws[d] # Nothing

Init ==
    /\ chan = TRUE /\ faults = 0
    /\ cp = [o \in Ops |-> "idle"] /\ op = [o \in Ops |-> [kind |-> "none"]] /\ guest = [o \in Ops |-> "none"]
    /\ ws = [d \in Dirs |-> Nothing]
    /\ pushed = {} /\ good = {} /\ events = <<>>

-----------------------------------------------------------------------------
\* The control plane.

\* handleGitClone: the URL is rebuilt from a valid name on an allowed host,
\* and the machine has a channel.
Clone(o, r) ==
    /\ cp[o] = "idle" /\ chan
    /\ op' = [op EXCEPT ![o] = [kind |-> "clone", repo |-> r, dir |-> repoDir(r)]]
    /\ cp' = [cp EXCEPT ![o] = "wait"]
    /\ UNCHANGED <<cvars, guest, ws, pushed, good, events>>

\* handleGitPush: the project is one that is listed now.
Push(o, d) ==
    /\ cp[o] = "idle" /\ chan /\ Listed(d)
    /\ op' = [op EXCEPT ![o] = [kind |-> "push", repo |-> ws[d].repo, dir |-> d]]
    /\ cp' = [cp EXCEPT ![o] = "wait"]
    /\ UNCHANGED <<cvars, guest, ws, pushed, good, events>>

\* machine_not_running, bad_project.
Refused(o) ==
    /\ cp[o] = "idle" /\ (~chan \/ \E d \in Dirs : ~Listed(d))
    /\ cp' = [cp EXCEPT ![o] = "refused"]
    /\ UNCHANGED <<cvars, op, guest, ws, pushed, good, events>>

\* The acknowledgement does not come in time, though the guest may have the
\* request.
DispatchFails(o) ==
    /\ cp[o] = "wait" /\ cp' = [cp EXCEPT ![o] = "failed"]
    /\ UNCHANGED <<cvars, op, guest, ws, pushed, good, events>>

Drop ==
    /\ chan /\ faults < MaxFaults
    /\ chan' = FALSE /\ faults' = faults + 1
    /\ cp' = [o \in Ops |-> IF cp[o] = "wait" THEN "failed" ELSE cp[o]]
    /\ UNCHANGED <<op, guest, ws, pushed, good, events>>

Reconnect ==
    /\ ~chan /\ chan' = TRUE
    /\ UNCHANGED <<faults, cp, op, guest, ws, pushed, good, events>>

\* handleCloneDone, handlePushDone: the row is inserted, then published; a
\* row that cannot be inserted is logged and gone.
Record(o, ok) ==
    \/ events' = Append(events, [op |-> o, ok |-> ok]) /\ UNCHANGED faults
    \/ faults < MaxFaults /\ faults' = faults + 1 /\ UNCHANGED events

-----------------------------------------------------------------------------
\* The guest.

Go(o, to) == guest' = [guest EXCEPT ![o] = to]

\* The request has reached the guest; its goroutine is started and the
\* request acknowledged.
Arrived(o) == guest[o] = "none" /\ (cp[o] = "failed" \/ (cp[o] = "wait" /\ chan))
Accept(o) == Go(o, "start") /\ cp' = [cp EXCEPT ![o] = IF cp[o] = "wait" THEN "accepted" ELSE cp[o]]

AckClone(o) ==
    /\ Arrived(o) /\ op[o].kind = "clone" /\ Accept(o)
    /\ UNCHANGED <<cvars, op, ws, pushed, good, events>>

\* validateRepoPath: the project may be gone since the handler listed it.
AckPush(o) ==
    /\ Arrived(o) /\ op[o].kind = "push"
    /\ IF Listed(op[o].dir) THEN Accept(o) ELSE Go(o, "done") /\ cp' = [cp EXCEPT ![o] = "failed"]
    /\ UNCHANGED <<cvars, op, ws, pushed, good, events>>

\* A request lost with the channel.
Lost(o) ==
    /\ cp[o] = "failed" /\ guest[o] = "none" /\ faults > 0
    /\ Go(o, "done")
    /\ UNCHANGED <<cvars, cp, op, ws, pushed, good, events>>

\* Mutant: the directory is cleared for the clone.
CloneStartOver(o) ==
    /\ guest[o] = "start" /\ op[o].kind = "clone"
    /\ ws' = [ws EXCEPT ![op[o].dir] = [repo |-> op[o].repo, whole |-> FALSE]] /\ Go(o, "fetch")
    /\ UNCHANGED <<cvars, cp, op, pushed, good, events>>

\* git clone refuses a directory that is there and not empty.
CloneStart(o) ==
    /\ guest[o] = "start" /\ op[o].kind = "clone"
    /\ \/ ~Listed(op[o].dir) /\ ws' = [ws EXCEPT ![op[o].dir] = [repo |-> op[o].repo, whole |-> FALSE]] /\ Go(o, "fetch")
       \/ Listed(op[o].dir) /\ Go(o, "bad") /\ UNCHANGED ws
    /\ UNCHANGED <<cvars, cp, op, pushed, good, events>>

\* It ends well; or it fails and removes what it made; or it is killed and
\* does not.
CloneEnd(o) ==
    /\ guest[o] = "fetch"
    /\ \/ /\ Go(o, "good") /\ good' = good \union {o}
          /\ ws' = [ws EXCEPT ![op[o].dir] = [@ EXCEPT !.whole = TRUE]]
       \/ Go(o, "bad") /\ ws' = [ws EXCEPT ![op[o].dir] = Nothing] /\ UNCHANGED good
       \/ "kill" \in May /\ Go(o, "bad") /\ UNCHANGED <<ws, good>>
    /\ UNCHANGED <<cvars, cp, op, pushed, events>>

\* git push sends the branch to the origin of what is in the directory now;
\* the remote may refuse it.
PushRun(o) ==
    /\ guest[o] = "start" /\ op[o].kind = "push"
    /\ \/ /\ Listed(op[o].dir)
          /\ pushed' = pushed \union {<<o, ws[op[o].dir].repo>>} /\ good' = good \union {o} /\ Go(o, "good")
       \/ Go(o, "bad") /\ UNCHANGED <<pushed, good>>
    /\ UNCHANGED <<cvars, cp, op, ws, events>>

\* Mutant: an operation that failed is not reported.
ReportGoodOnly(o) ==
    /\ guest[o] \in {"good", "bad"}
    /\ IF chan /\ guest[o] = "good" THEN Record(o, TRUE) ELSE UNCHANGED <<faults, events>>
    /\ Go(o, "done")
    /\ UNCHANGED <<chan, cp, op, ws, pushed, good>>

\* Mutant: reported as done whatever git's exit status was.
ReportDone(o) ==
    /\ guest[o] \in {"good", "bad"}
    /\ IF chan THEN Record(o, TRUE) ELSE UNCHANGED <<faults, events>>
    /\ Go(o, "done")
    /\ UNCHANGED <<chan, cp, op, ws, pushed, good>>

\* The report goes over the channel there is now, or nowhere.
Report(o) ==
    /\ guest[o] \in {"good", "bad"}
    /\ IF chan THEN Record(o, guest[o] = "good") ELSE UNCHANGED <<faults, events>>
    /\ Go(o, "done")
    /\ UNCHANGED <<chan, cp, op, ws, pushed, good>>

\* The user deletes a project, not one being cloned, in a terminal.
RemoveDir(d) ==
    /\ "remove" \in May /\ Listed(d) /\ \A o \in Ops : guest[o] = "fetch" => op[o].dir # d
    /\ ws' = [ws EXCEPT ![d] = Nothing]
    /\ UNCHANGED <<cvars, cp, op, guest, pushed, good, events>>

ReportClone(o) == op[o].kind = "clone" /\ Report(o)
ReportPush(o) == op[o].kind = "push" /\ Report(o)

Serve(o) == AckClone(o) \/ CloneStart(o) \/ CloneEnd(o) \/ ReportClone(o) \/ AckPush(o) \/ PushRun(o) \/ ReportPush(o)

Next ==
    \/ \E o \in Ops : Serve(o) \/ DispatchFails(o) \/ Lost(o) \/ Refused(o)
                      \/ (\E r \in Repos : Clone(o, r)) \/ (\E d \in Dirs : Push(o, d))
    \/ \E d \in Dirs : RemoveDir(d)
    \/ Drop \/ Reconnect

\* The guest's goroutine runs, git ends by its timeout, and the control plane
\* dials again.
Fairness == (\A o \in Ops : WF_vars(Serve(o))) /\ WF_vars(Reconnect)

Spec == Init /\ [][Next]_vars /\ Fairness

-----------------------------------------------------------------------------
EventsOf(o) == {e \in DOMAIN events : events[e].op = o}

\* An operation is reported at most once, only when it was dispatched, and as
\* done only when its git command succeeded.
ReportsAreTrue ==
    \A o \in Ops :
        /\ \A e, f \in EventsOf(o) : e = f
        /\ \A e \in EventsOf(o) : guest[o] = "done" /\ (events[e].ok <=> o \in good)

\* A directory is not handed from one repository to another while it is
\* there: two repositories of one name do not mix.
DirKeepsRepo ==
    [][\A d \in Dirs : Listed(d) /\ ws'[d] # Nothing => ws'[d].repo = ws[d].repo]_vars

\* An accepted operation is reported, unless the channel or the row was
\* lost.
Reported == \A o \in Ops : cp[o] = "accepted" ~> EventsOf(o) # {} \/ faults > 0

\* An accepted operation is reported ("completion arrives as a git.push.done
\* -> machine_events row", Manager.Push).
AlwaysReported == \A o \in Ops : cp[o] = "accepted" ~> EventsOf(o) # {}

\* A listed project is a whole clone.
ListedIsWhole == \A d \in Dirs : Listed(d) => ws[d].whole

\* A clone that was reported as failed can be tried again.
FailedLeavesNothing ==
    (\A o \in Ops : guest[o] \in {"none", "done"}) => \A d \in Dirs : Listed(d) => ws[d].whole

\* A push goes to the remote of the project the handler looked up.
PushGoesWhereAsked == \A p \in pushed : p[2] = op[p[1]].repo
=============================================================================
