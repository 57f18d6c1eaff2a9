----------------------------- MODULE MCLiveParts ----------------------------
(***************************************************************************)
(* Parts whose promises are about what happens in the end: the code-server *)
(* supervisor (WebSupervisor, extended), the byte tunnel, the driver that  *)
(* runs guests as child processes, clones and pushes.  They are small      *)
(* instances in one run: a behaviour is a behaviour of one of them, and    *)
(* the variables of the others keep their initial values.                  *)
(***************************************************************************)
EXTENDS WebSupervisor, SequencesExt

CONSTANTS
    Ports, MaxDown, MaxUp, TunnelMay,      \* of Tunnel, with its May
    Ops, Repos, MaxFaults, TransferFaults  \* of GitTransfers, with its May

VARIABLES
    part,
    kind, tpc, down, up, buf, top, bottom, port, sent, gotDown, gotUp, failed, eof,
    rec, child, procs, ensures, boots, stops, destroys, serving, restarts,
    chan, faults, cp, op, guest, ws, pushed, good, events

U == INSTANCE Tunnel WITH May <- TunnelMay, pc <- tpc

V == INSTANCE DevDriver WITH
        Machines <- {"m1"}, SubnetSize <- 4, MaxPid <- 3, MaxStops <- 1, Serial <- TRUE, PidLost <- FALSE, MaxRestarts <- 1,
        up <- serving

G == INSTANCE GitTransfers WITH May <- TransferFaults

\* Two repositories of one name.
Namesakes == [owner : {"a", "b"}, name : {"x"}]

uvars == <<kind, tpc, down, up, buf, top, bottom, port, sent, gotDown, gotUp, failed, eof>>
vvars == <<rec, child, procs, ensures, boots, stops, destroys, serving, restarts>>
gvars == <<chan, faults, cp, op, guest, ws, pushed, good, events>>
all == <<part, vars, uvars, vvars, gvars>>

LiveInit ==
    /\ part \in {"web", "tunnel", "dev", "transfers"}
    /\ Init /\ U!Init /\ V!Init /\ G!Init
    /\ part # "tunnel" => kind = "ssh"

WebStep == part = "web" /\ Next /\ UNCHANGED <<part, uvars, vvars, gvars>>
TunnelStep == part = "tunnel" /\ U!Next /\ UNCHANGED <<part, vars, vvars, gvars>>
DevStep == part = "dev" /\ V!Next /\ UNCHANGED <<part, vars, uvars, gvars>>
TransfersStep == part = "transfers" /\ G!Next /\ UNCHANGED <<part, vars, uvars, vvars>>

LiveNext == WebStep \/ TunnelStep \/ DevStep \/ TransfersStep

\* Step i of each part that fairness is about, the order being arbitrary: as only
\* one part runs, fairness to the union is fairness to each of them.
WebFair(i) == CASE i = 1 -> Tick [] i = 2 -> Handler("c1") [] i = 3 -> Handler("c2") [] i = 4 -> Handler("c3")
DevFair(i) == CASE i = 1 -> V!Ensure("m1") [] i = 2 -> V!Finish("m1") [] i = 3 -> V!Stop("m1") [] i = 4 -> V!Destroy("m1") [] i = 5 -> V!Reattach
                [] i \in 6..8 -> child[i - 5].st = "dying" /\ V!ChildDies(i - 5)
TransfersFair(i) ==
    LET order == SetToSeq(Ops) IN (i \in DOMAIN order /\ G!Serve(order[i])) \/ (i = Len(order) + 1 /\ G!Reconnect)

Fair(i) ==
    \/ part = "web" /\ i <= 4 /\ WebFair(i) /\ UNCHANGED <<part, uvars, vvars, gvars>>
    \/ part = "tunnel" /\ i = 1 /\ U!Flow /\ UNCHANGED <<part, vars, vvars, gvars>>
    \/ part = "dev" /\ DevFair(i) /\ UNCHANGED <<part, vars, uvars, gvars>>
    \/ part = "transfers" /\ TransfersFair(i) /\ UNCHANGED <<part, vars, uvars, vvars>>

LiveFairness == \A i \in 1..8 : WF_all(Fair(i))

LiveSpec == LiveInit /\ [][LiveNext]_all /\ LiveFairness

-----------------------------------------------------------------------------
(* What the components promise, each explained where it is defined.        *)

\* What goes through a tunnel arrives whole and at the backend that was asked for, the
\* reply to the client included (bridge), and the end of a clone or a push is reported
\* once and as it was (reportClone, reportPush).
TransfersWhole ==
    /\ part = "tunnel" => U!StreamsAreWhole /\ U!ReplyIsWhole
    /\ part = "transfers" => G!ReportsAreTrue

\* A directory of the workspace is not handed from one repository to another while it
\* is there: two repositories of one name do not mix (repoDir, runClone).
DirKeepsRepo == G!DirKeepsRepo

\* In the end every web connection is served or dropped (Ensure), a tunnel is closed
\* at both ends once one is, a call of the dev driver is settled across restarts, and
\* a clone or push that was accepted is reported unless the channel was lost.
PartsSettle ==
    /\ part = "web" => Answered
    /\ part = "tunnel" => U!TornDown
    /\ V!Settles
    /\ G!Reported

-----------------------------------------------------------------------------
(* What comments of the code claim and the code does not keep, for the     *)
(* instances that the README lists.                                        *)

\* See Tunnel, where it is stated and explained.
ReplyAlwaysWhole == U!ReplyAlwaysWhole

\* See GitTransfers.
AlwaysReported == G!AlwaysReported
ListedIsWhole == part = "transfers" => G!ListedIsWhole
FailedLeavesNothing == part = "transfers" => G!FailedLeavesNothing
PushGoesWhereAsked == part = "transfers" => G!PushGoesWhereAsked
=============================================================================
