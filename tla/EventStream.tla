----------------------------- MODULE EventStream ----------------------------
(***************************************************************************)
(* GET /api/machines/events: one dashboard's live view of its user's       *)
(* machines.  Writers change rows, record events and publish what they     *)
(* did; the handler subscribes, sends a snapshot or the events after       *)
(* Last-Event-ID, then follows its subscription; the browser keeps a list  *)
(* of machines (useMachineEvents) and connects again when it is cut off.   *)
(***************************************************************************)
EXTENDS Integers, FiniteSets, Sequences, SequencesExt

CONSTANTS
    Machines, Writers,
    Buf,        \* the capacity of a subscription, 32 in the code
    Recent,     \* the events of a snapshot, 50
    MaxReplay,  \* maxReplayEvents, 500
    MaxEvents,  \* bound on the events recorded
    MaxDrops,   \* bound on the connections that break
    MaxFails,   \* bound on the queries of the stream that fail
    May         \* what may happen: "overlap" (writers interleave), "between" (a write while the
                \* handler is between its reads), "away" (a destroy the browser is not connected for),
                \* "slow" (a subscription fills), "kind" (renames and notes besides transitions),
                \* "unread" (the query of the events to replay fails)

VARIABLES
    row,     \* machines: how often the row changed, NoRow before it exists, Gone after
    log,     \* machine_events: the ids and machines of what is committed
    next,    \* the sequence of event ids
    writer,  \* what each writer is about to do
    conn,    \* the connection: "off", "subscribed", "listed", "live"
    sub,     \* the subscription's channel
    list,    \* the rows read by the handler
    sent,    \* lastSent
    lastId,  \* the browser's Last-Event-ID
    view,    \* the browser's list of machines
    seen,    \* the events it has shown
    since,   \* the sequence of event ids at its last snapshot, -1 before
    drops, fails

vars == <<row, log, next, writer, conn, sub, list, sent, lastId, view, seen, since, drops, fails>>
store == <<row, log, next>>
handler == <<list, sent>>
browser == <<lastId, view, seen, since>>

NoRow == -1
Gone == -2
NoList == [m \in Machines |-> NoRow]
Idle == [pc |-> "idle", m |-> "none", ver |-> 0, id |-> 0]

Init ==
    /\ row = NoList /\ log = {} /\ next = 1
    /\ writer = [w \in Writers |-> Idle]
    /\ conn = "off" /\ sub = <<>> /\ list = NoList /\ sent = 0
    /\ lastId = 0 /\ view = NoList /\ seen = {} /\ since = -1
    /\ drops = 0 /\ fails = 0

Exists(m) == row[m] >= 0
\* A transition that has written its row and not committed locks it.
Locked(m) == \E w \in Writers : writer[w].pc = "commit" /\ writer[w].m = m
MayWrite(w) ==
    /\ writer[w] = Idle
    /\ "overlap" \in May \/ \A v \in Writers : writer[v] = Idle
    /\ "between" \in May \/ conn # "listed"
Stays == UNCHANGED <<conn, handler, browser, drops, fails>>

-----------------------------------------------------------------------------
(* The writers.                                                            *)

\* Service.Create: a row, with no event and nothing published.
Create(m) ==
    /\ row[m] = NoRow /\ (\A w \in Writers : MayWrite(w))
    /\ row' = [row EXCEPT ![m] = 0]
    /\ UNCHANGED <<log, next, writer, sub>> /\ Stays

\* Transition: UpdateMachineState locks the row, InsertMachineEvent takes the
\* next id, and others see neither until the commit.
TransitionLog(w, m) ==
    /\ MayWrite(w) /\ Exists(m) /\ ~Locked(m) /\ next <= MaxEvents
    /\ writer' = [writer EXCEPT ![w] = [pc |-> "commit", m |-> m, ver |-> row[m] + 1, id |-> next]]
    /\ next' = next + 1
    /\ UNCHANGED <<row, log, sub>> /\ Stays

TransitionCommit(w) ==
    LET t == writer[w] IN
    /\ t.pc = "commit" /\ ("between" \in May \/ conn # "listed")
    /\ row' = [row EXCEPT ![t.m] = t.ver]
    /\ log' = log \cup {[id |-> t.id, m |-> t.m]}
    /\ writer' = [writer EXCEPT ![w].pc = "publish"]
    /\ UNCHANGED <<next, sub>> /\ Stays

\* Rename: the row, then an event of its own; a failed insert publishes nothing.
Rename(w, m) ==
    /\ "kind" \in May /\ MayWrite(w) /\ Exists(m) /\ ~Locked(m)
    /\ next <= MaxEvents /\ row[m] < MaxEvents
    /\ row' = [row EXCEPT ![m] = @ + 1]
    /\ writer' = [writer EXCEPT ![w] = [Idle EXCEPT !.pc = "named", !.m = m, !.ver = row[m] + 1]]
    /\ UNCHANGED <<log, next, sub>> /\ Stays

\* handleCloneDone, handlePushDone, emitMachineEvent: an event about a machine,
\* published with the row as it is read afterwards.
Note(w, m) ==
    /\ "kind" \in May /\ MayWrite(w) /\ Exists(m)
    /\ writer' = [writer EXCEPT ![w] = [Idle EXCEPT !.pc = "note", !.m = m]]
    /\ UNCHANGED <<store, sub>> /\ Stays

InsertMachineEvent(w) ==
    LET t == writer[w] IN
    /\ t.pc \in {"named", "note"} /\ next <= MaxEvents
    /\ IF Exists(t.m)
       THEN /\ log' = log \cup {[id |-> next, m |-> t.m]} /\ next' = next + 1
            /\ writer' = [writer EXCEPT ![w].id = next, ![w].pc = IF t.pc = "named" THEN "publish" ELSE "read"]
       ELSE /\ writer' = [writer EXCEPT ![w] = Idle] /\ UNCHANGED <<log, next>>
    /\ UNCHANGED <<row, sub>> /\ Stays

NoteRead(w) ==
    LET t == writer[w] IN
    /\ t.pc = "read"
    /\ writer' = [writer EXCEPT ![w] = IF Exists(t.m) THEN [t EXCEPT !.pc = "publish", !.ver = row[t.m]] ELSE Idle]
    /\ UNCHANGED <<store, sub>> /\ Stays

\* DeleteMachine takes the machine's events with it.
Destroy(w, m) ==
    /\ MayWrite(w) /\ Exists(m) /\ ~Locked(m)
    /\ "away" \in May \/ conn # "off" \/ lastId = 0
    /\ row' = [row EXCEPT ![m] = Gone]
    /\ log' = {e \in log : e.m # m}
    /\ writer' = [writer EXCEPT ![w] = [Idle EXCEPT !.pc = "publish", !.m = m, !.ver = Gone]]
    /\ UNCHANGED <<next, sub>> /\ Stays

\* Broker.Publish skips a subscription that is full.
Publish(w) ==
    LET t == writer[w] IN
    /\ t.pc = "publish"
    /\ "slow" \in May \/ Len(sub) < Buf
    /\ writer' = [writer EXCEPT ![w] = Idle]
    /\ sub' = IF conn # "off" /\ Len(sub) < Buf THEN Append(sub, [t EXCEPT !.pc = "update"]) ELSE sub
    /\ UNCHANGED store /\ Stays

-----------------------------------------------------------------------------
(* The handler and the browser.                                            *)

\* Broker.Subscribe, before anything is read.
Subscribe ==
    /\ conn = "off"
    /\ conn' = "subscribed" /\ sub' = <<>>
    /\ UNCHANGED <<store, writer, handler, browser, drops, fails>>

\* Machines.List.
List ==
    /\ conn = "subscribed"
    /\ conn' = "listed" /\ list' = row
    /\ UNCHANGED <<store, writer, sub, sent, browser, drops, fails>>

Listed(m) == list[m] >= 0
MaxId(ids) == IF ids = {} THEN 0 ELSE CHOOSE i \in ids : \A j \in ids : j <= i
\* ListUserMachineEventsRecent.
RecentIds == LET ids == {e.id : e \in log} IN {i \in ids : Cardinality({j \in ids : j > i}) < Recent}
\* ListUserMachineEventsAfter.
After(id) == {e \in log : e.id > id}

\* writeSnapshot: the list, whole, and the last events; without them when their
\* query fails.
WriteSnapshot ==
    LET ids == IF (\E m \in Machines : Listed(m)) /\ fails' = fails THEN RecentIds ELSE {} IN
    /\ view' = [m \in Machines |-> IF Listed(m) THEN list[m] ELSE NoRow]
    /\ seen' = seen \cup ids /\ sent' = MaxId(ids)
    /\ since' = next
    /\ UNCHANGED lastId

\* Mutant of ReplayAfter: the events are replayed with no word of the machines.
ReplayEventsOnly ==
    LET evs == {e \in After(lastId) : Listed(e.m)}
        ids == {e.id : e \in evs}
    IN
    /\ UNCHANGED view
    /\ seen' = seen \cup ids
    /\ sent' = MaxId(ids \cup {lastId}) /\ lastId' = MaxId(ids \cup {lastId})
    /\ UNCHANGED since

\* replayAfter: each event with the row that was listed; those of a machine that
\* was not listed are skipped.
ReplayAfter ==
    LET evs == {e \in After(lastId) : Listed(e.m)}
        ids == {e.id : e \in evs}
    IN
    /\ view' = [m \in Machines |-> IF \E e \in evs : e.m = m THEN list[m] ELSE view[m]]
    /\ seen' = seen \cup ids
    /\ sent' = MaxId(ids \cup {lastId}) /\ lastId' = MaxId(ids \cup {lastId})
    /\ UNCHANGED since

\* The snapshot is for a first connection, and for one that missed too much.
NeedsSnapshot == lastId = 0 \/ Cardinality(After(lastId)) > MaxReplay

\* A later connection has what it missed, or nothing when that cannot be read.
Catchup ==
    /\ conn = "listed" /\ conn' = "live" /\ list' = NoList
    /\ \/ /\ fails' = fails
          /\ IF NeedsSnapshot THEN WriteSnapshot ELSE ReplayAfter
       \/ /\ fails < MaxFails /\ fails' = fails + 1
          /\ NeedsSnapshot /\ WriteSnapshot
       \/ /\ fails < MaxFails /\ fails' = fails + 1
          /\ "unread" \in May /\ lastId > 0 /\ sent' = lastId /\ UNCHANGED browser
    /\ UNCHANGED <<store, writer, sub, drops>>

\* A row that was sent already is not sent again.
Skips(u) == u.ver # Gone /\ u.id <= sent

\* Mutant of Follow: the machine goes out without its event.
FollowRowOnly ==
    LET u == Head(sub) IN
    /\ conn = "live" /\ sub # <<>>
    /\ sub' = Tail(sub)
    /\ IF Skips(u) THEN UNCHANGED <<sent, browser>>
       ELSE /\ view' = [view EXCEPT ![u.m] = IF u.ver = Gone THEN NoRow ELSE u.ver]
            /\ sent' = IF u.ver = Gone THEN sent ELSE u.id
            /\ UNCHANGED <<lastId, seen, since>>
    /\ UNCHANGED <<store, writer, conn, list, drops, fails>>

\* The live loop.
Follow ==
    LET u == Head(sub) IN
    /\ conn = "live" /\ sub # <<>>
    /\ sub' = Tail(sub)
    /\ IF Skips(u) THEN UNCHANGED <<sent, browser>>
       ELSE /\ view' = [view EXCEPT ![u.m] = IF u.ver = Gone THEN NoRow ELSE u.ver]
            /\ IF u.ver = Gone THEN UNCHANGED <<sent, lastId, seen>>
               ELSE sent' = u.id /\ lastId' = u.id /\ seen' = seen \cup {u.id}
            /\ UNCHANGED since
    /\ UNCHANGED <<store, writer, conn, list, drops, fails>>

\* A destroy is on its way to the browser.
Untold == (\E i \in DOMAIN sub : sub[i].ver = Gone) \/ (\E w \in Writers : writer[w].ver = Gone)

\* The stream ends (Broker.Shutdown, a failed List, the network); the browser keeps
\* what it has, its Last-Event-ID included.
Drop ==
    /\ conn # "off" /\ drops < MaxDrops
    /\ "away" \in May \/ lastId = 0 \/ ~Untold
    /\ conn' = "off" /\ sub' = <<>> /\ list' = NoList /\ sent' = 0 /\ drops' = drops + 1
    /\ UNCHANGED <<store, writer, browser, fails>>

Write(w) ==
    \/ \E m \in Machines : TransitionLog(w, m) \/ Rename(w, m) \/ Note(w, m) \/ Destroy(w, m)
    \/ TransitionCommit(w) \/ InsertMachineEvent(w) \/ NoteRead(w) \/ Publish(w)

Stream == Subscribe \/ List \/ Catchup \/ Follow
Next == (\E m \in Machines : Create(m)) \/ (\E w \in Writers : Write(w)) \/ Stream \/ Drop
Spec == Init /\ [][Next]_vars

-----------------------------------------------------------------------------
\* Nothing is on its way to a browser that is connected.
Quiet == conn = "live" /\ sub = <<>> /\ \A w \in Writers : writer[w] = Idle

\* A dashboard that has been sent everything shows every machine as its row is and
\* none that is gone ("the snapshot is the authoritative current set", hooks.ts;
\* "the SSE stream then keeps the list live").
ViewIsCurrent == Quiet => \A m \in Machines :
    /\ row[m] > 0 => view[m] = row[m]
    /\ row[m] < 0 => view[m] = NoRow

\* No event that was recorded after the last snapshot is lost to the dashboard, over
\* any reconnects ("so no transition is ever lost", sse.go).
NoEventLost == Quiet => \A e \in log : e.id >= since => e.id \in seen

\* What a slow subscriber was not sent comes with its next connection ("recovers the
\* gap on reconnect via Last-Event-ID replay", broker.go).
GapRecovered == [][Catchup => \A e \in log : e.id >= since' => e.id \in seen']_vars
=============================================================================
