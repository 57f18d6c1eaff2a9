---------------------------- MODULE AdminConsole ----------------------------
(***************************************************************************)
(* The fleet overview of the admin console (httpapi/admin.go): one         *)
(* endpoint, three statements, with machines created and destroyed between *)
(* them.                                                                   *)
(***************************************************************************)
EXTENDS Naturals

CONSTANTS
    Cap,        \* adminMachineListLimit
    MaxFleet,   \* bound: machines
    MaxChanges, \* bound: machines created or destroyed
    MaxViews    \* bound: overviews

VARIABLES
    fleet,      \* machines that are not destroyed
    changes,    \* how often that changed
    view,       \* the overview being put together
    views       \* overviews so far

vars == <<fleet, changes, view, views>>

NoView == [pc |-> "idle", total |-> 0, listed |-> 0, truncated |-> FALSE, since |-> 0, upto |-> 0]

Init == fleet \in 0 .. MaxFleet /\ changes = 0 /\ view = NoView /\ views = 0

\* A machine is created or destroyed.
Change ==
    /\ changes < MaxChanges /\ changes' = changes + 1
    /\ fleet' \in {n \in 0 .. MaxFleet : n = fleet + 1 \/ n + 1 = fleet}
    /\ UNCHANGED <<view, views>>

\* AdminCountMachinesByState, summed.
CountMachines ==
    /\ view.pc \in {"idle", "done"} /\ views < MaxViews /\ views' = views + 1
    /\ view' = [NoView EXCEPT !.pc = "users", !.total = fleet, !.since = changes]
    /\ UNCHANGED <<fleet, changes>>

\* AdminCountUsers.
CountUsers ==
    /\ view.pc = "users" /\ view' = [view EXCEPT !.pc = "list"]
    /\ UNCHANGED <<fleet, changes, views>>

\* Mutant: as many rows as the table shows.
LimitAtCap == Cap

\* One over the cap.
Limit == Cap + 1

\* AdminListMachines: at most Limit rows.
Listed == IF fleet > Limit THEN Limit ELSE fleet

ListMachines ==
    /\ view.pc = "list"
    /\ view' = [view EXCEPT !.pc = "done", !.truncated = Listed > Cap, !.upto = changes,
                            !.listed = IF Listed > Cap THEN Cap ELSE Listed]
    /\ UNCHANGED <<fleet, changes, views>>

Next == Change \/ CountMachines \/ CountUsers \/ ListMachines

Spec == Init /\ [][Next]_vars

\* What the table leaves out of the total is what changed while the overview
\* was put together, unless the table says that it is cut: a total that the
\* table does not bear out is never shown as complete.
OverviewAddsUp ==
    view.pc = "done" =>
        LET d == view.upto - view.since IN
        IF view.truncated THEN view.total + d > view.listed
        ELSE view.total <= view.listed + d /\ view.listed <= view.total + d

\* Totals and table agree (handleAdminOverview: "split reads could disagree").
OverviewAgrees ==
    view.pc = "done" /\ ~view.truncated => view.total = view.listed
=============================================================================
