----------------------------- MODULE MCTaskLane -----------------------------
(***************************************************************************)
(* TaskLane for TLC.  The run lane checks two instances at once, told      *)
(* apart by calm.  In the calm one nothing is lost and each turn is sent   *)
(* when the one before is over, with a cancel; in the rough one requests,  *)
(* acks and notifications get lost, runs end early, the ring holds only    *)
(* the last result, its stream is reaped and the control plane restarts.   *)
(***************************************************************************)
EXTENDS TaskLane

VARIABLE calm

Calm == INSTANCE TaskLane WITH MaxRestarts <- 0, May <- {}
Rough == INSTANCE TaskLane WITH MaxCancels <- 0, MaxEvents <- 0, BufSize <- 1

MCVars == <<vars, calm>>
CalmStep == calm /\ Calm!Next /\ UNCHANGED calm
RoughStep == ~calm /\ Rough!Next /\ UNCHANGED calm

\* Fairness of TaskLane, in the calm instance.
MCFairness ==
    /\ \A t \in Turns :
         /\ WF_MCVars(calm /\ call[t] # "new" /\ Calm!Handler(t) /\ UNCHANGED calm)
         /\ WF_MCVars(calm /\ Calm!RunEnds(t) /\ UNCHANGED calm)
         /\ WF_MCVars(calm /\ Calm!RunReports(t) /\ UNCHANGED calm)
         /\ WF_MCVars(calm /\ Calm!RunUnregisters(t) /\ UNCHANGED calm)
    /\ WF_MCVars(calm /\ Calm!CancelLands /\ UNCHANGED calm)
    /\ WF_MCVars(calm /\ Calm!Handle /\ UNCHANGED calm)
    /\ WF_MCVars(calm /\ (\E f \in finishing : Calm!PublishResult(f)) /\ UNCHANGED calm)
    /\ \A v \in Viewers : WF_MCVars(calm /\ Calm!Viewing(v) /\ UNCHANGED calm)

MCInit == Init /\ calm \in BOOLEAN
MCSpec == MCInit /\ [][CalmStep \/ RoughStep]_MCVars /\ MCFairness

\* OneRun of TaskLane, in the calm instance: one run of a task at a time.
OneRunAtATime == calm => OneRun

\* ResultIsLast of TaskLane, in the calm instance: no frame of a run follows its
\* result.
ResultCloses == calm => ResultIsLast

\* The stream of a task: what its ring holds beyond what a client was sent is on its
\* way to the client, over restarts and losses, and in the calm instance no two runs
\* are at work and no frame of a run follows its result.
LaneSound == TypeOK /\ NothingMissed /\ OneRunAtATime /\ ResultCloses

\* TaskSettles of TaskLane, in the calm instance: no task stays queued or running.
Settles == calm /\ task.status \in {"queued", "running"} ~> task.status \in Terminal

\* ViewerServed of TaskLane, in the calm instance: a client of the stream is shown
\* a result in the end.
Served == \A v \in Viewers : calm /\ view[v].pc = "live" ~> view[v].pc = "got"

\* No task stays queued or running, and every client of its stream gets a result.
LaneSettles == Settles /\ Served
=============================================================================
