----------------------------- MODULE Terminals -----------------------------
(***************************************************************************)
(* Terminal sessions of the guest (guestagent/internal/term and the        *)
(* terminal route of internal/server).  One session name: its shell        *)
(* outlives the connections that attach to it, its output goes to a ring   *)
(* of the last bytes and to the queue of every attached connection, and a  *)
(* connection whose queue is full is dropped.  The bytes a shell writes    *)
(* are numbered from 1.                                                    *)
(***************************************************************************)
EXTENDS Naturals, Sequences, SequencesExt

CONSTANTS
    Clients,        \* connections to the terminal route
    MaxSessions,    \* bound: shells spawned
    MaxBytes,       \* bound: bytes one shell writes
    MaxChunk,       \* bound: bytes one read of the PTY returns
    QueueCap,       \* subChanSize
    RingSize        \* bytes of scrollback

VARIABLES
    registry,       \* Manager.sessions: the session under the name, or 0
    spawned,        \* sessions spawned so far
    life,           \* session -> "live", "exited" (flag set), "done" (channel closed)
    written,        \* session -> bytes its shell has written
    rings,          \* session -> its scrollback ring
    subs,           \* session -> the connections subscribed
    conn            \* connection -> its attachment

vars == <<registry, spawned, life, written, rings, subs, conn>>

Sessions == 1..MaxSessions

NewRing == [buf |-> [i \in 0..RingSize - 1 |-> 0], start |-> 0, length |-> 0]

\* An Attachment: queue is its channel, lag that the reader closed it, gone that the
\* context is cancelled; got is what the client has been sent.
Idle == [pc |-> "idle", sess |-> 0, queue |-> <<>>, lag |-> FALSE, gone |-> FALSE, replay |-> <<>>, got |-> <<>>]

TypeOK ==
    /\ registry \in 0..MaxSessions /\ spawned \in 0..MaxSessions
    /\ life \in [Sessions -> {"none", "live", "exited", "done"}] /\ written \in [Sessions -> 0..MaxBytes]
    /\ \A s \in Sessions : subs[s] \subseteq Clients /\ rings[s].length \in 0..RingSize /\ rings[s].start \in 0..RingSize - 1
    /\ \A c \in Clients : conn[c].sess \in 0..MaxSessions /\ Len(conn[c].queue) <= QueueCap

Init ==
    /\ registry = 0 /\ spawned = 0 /\ life = [s \in Sessions |-> "none"] /\ written = [s \in Sessions |-> 0]
    /\ rings = [s \in Sessions |-> NewRing] /\ subs = [s \in Sessions |-> {}] /\ conn = [c \in Clients |-> Idle]

-----------------------------------------------------------------------------
(* The ring. *)

\* copy(dst[at:], p): as much as fits below the end of the buffer.
CopyIn(buf, at, p) == [i \in DOMAIN buf |-> IF i >= at /\ i < at + Len(p) THEN p[i - at + 1] ELSE buf[i]]

\* Mutant: the oldest byte is not evicted from the order.
WriteKeepsStart(r, p) ==
    LET end == (r.start + r.length) % RingSize
        n == IF Len(p) < RingSize - end THEN Len(p) ELSE RingSize - end
        total == r.length + Len(p)
    IN  IF Len(p) >= RingSize
        THEN [buf |-> CopyIn(r.buf, 0, SubSeq(p, Len(p) - RingSize + 1, Len(p))), start |-> 0, length |-> RingSize]
        ELSE [buf |-> CopyIn(CopyIn(r.buf, end, SubSeq(p, 1, n)), 0, SubSeq(p, n + 1, Len(p))),
              start |-> r.start, length |-> IF total > RingSize THEN RingSize ELSE total]

RingWrite(r, p) ==
    LET end == (r.start + r.length) % RingSize
        n == IF Len(p) < RingSize - end THEN Len(p) ELSE RingSize - end
        total == r.length + Len(p)
    IN  IF Len(p) >= RingSize
        THEN [buf |-> CopyIn(r.buf, 0, SubSeq(p, Len(p) - RingSize + 1, Len(p))), start |-> 0, length |-> RingSize]
        ELSE [buf |-> CopyIn(CopyIn(r.buf, end, SubSeq(p, 1, n)), 0, SubSeq(p, n + 1, Len(p))),
              start |-> IF total > RingSize THEN (r.start + total - RingSize) % RingSize ELSE r.start,
              length |-> IF total > RingSize THEN RingSize ELSE total]

Snapshot(r) ==
    LET first == IF r.start + r.length < RingSize THEN r.start + r.length ELSE RingSize
        n == first - r.start
    IN  [i \in 1..r.length |-> IF i <= n THEN r.buf[r.start + i - 1] ELSE r.buf[i - n - 1]]

-----------------------------------------------------------------------------
(* The registry. *)

\* Mutant: every connection spawns a shell of its own.
SpawnAlways(c) ==
    /\ conn[c].pc \in {"idle", "exit"} /\ spawned < MaxSessions
    /\ registry' = spawned + 1 /\ spawned' = spawned + 1
    /\ life' = [life EXCEPT ![spawned + 1] = "live"]
    /\ conn' = [conn EXCEPT ![c] = [Idle EXCEPT !.pc = "got", !.sess = spawned + 1]]
    /\ UNCHANGED <<written, rings, subs>>

\* newSession under the manager's lock, with the remover that waits for Done
NewSession == spawned' = spawned + 1 /\ registry' = spawned + 1 /\ life' = [life EXCEPT ![spawned + 1] = "live"]

\* The session registered under the name, exited or not, or a new one.
GetOrCreate(c) ==
    /\ conn[c].pc \in {"idle", "exit"}
    /\ IF registry # 0 THEN UNCHANGED <<registry, spawned, life>> ELSE spawned < MaxSessions /\ NewSession
    /\ conn' = [conn EXCEPT ![c] = [Idle EXCEPT !.pc = "got", !.sess = registry']]
    /\ UNCHANGED <<written, rings, subs>>

\* The goroutine that waits for Done.
AutoRemove(s) ==
    /\ life[s] = "done" /\ registry = s /\ registry' = 0
    /\ UNCHANGED <<spawned, life, written, rings, subs, conn>>

-----------------------------------------------------------------------------
(* The shell and its reader. *)

\* A subscriber whose queue is full is deleted and its channel closed.
Deliver(s, chunk) ==
    LET full == {c \in subs[s] : Len(conn[c].queue) = QueueCap}
    IN  /\ subs' = [subs EXCEPT ![s] = @ \ full]
        /\ conn' = [c \in Clients |-> CASE c \in full -> [conn[c] EXCEPT !.lag = TRUE]
                                        [] c \in subs[s] \ full -> [conn[c] EXCEPT !.queue = Append(@, chunk)]
                                        [] OTHER -> conn[c]]

\* One read of the PTY: n bytes.
Fanout(s, n) ==
    LET chunk == [i \in 1..n |-> written[s] + i]
    IN  /\ life[s] = "live" /\ written[s] + n <= MaxBytes
        /\ written' = [written EXCEPT ![s] = @ + n]
        /\ rings' = [rings EXCEPT ![s] = RingWrite(@, chunk)]
        /\ Deliver(s, chunk)
        /\ UNCHANGED <<registry, spawned, life>>

\* EOF from the PTY (the shell ended, or Shutdown killed it): Wait, then the flag.
Finish(s) ==
    /\ life[s] = "live" /\ life' = [life EXCEPT ![s] = "exited"]
    /\ UNCHANGED <<registry, spawned, written, rings, subs, conn>>

CloseDone(s) ==
    /\ life[s] = "exited" /\ life' = [life EXCEPT ![s] = "done"]
    /\ UNCHANGED <<registry, spawned, written, rings, subs, conn>>

-----------------------------------------------------------------------------
(* A connection. *)

\* Detach: a no-op once the reader has dropped the subscriber.
Detach(c) == subs' = [subs EXCEPT ![conn[c].sess] = @ \ {c}]

\* The attachment ends; the client may connect again.
Ended(c) == Detach(c) /\ conn' = [conn EXCEPT ![c] = Idle]

\* Mutant: the snapshot is taken before the subscription, in two critical sections.
AttachEarly(c) ==
    LET s == conn[c].sess
    IN  /\ conn[c].pc \in {"got", "snapped"}
        /\ IF conn[c].pc = "got"
           THEN conn' = [conn EXCEPT ![c] = [@ EXCEPT !.pc = "snapped", !.replay = Snapshot(rings[s])]] /\ UNCHANGED subs
           ELSE /\ conn' = [conn EXCEPT ![c] = [@ EXCEPT !.pc = "attached"]]
                /\ subs' = [subs EXCEPT ![s] = @ \cup {c}]
        /\ UNCHANGED <<registry, spawned, life, written, rings>>

\* Snapshot and subscription under the session's lock.
Attach(c) ==
    LET s == conn[c].sess
    IN  /\ conn[c].pc = "got"
        /\ IF life[s] # "live"
           THEN conn' = [conn EXCEPT ![c] = Idle] /\ UNCHANGED subs
           ELSE /\ conn' = [conn EXCEPT ![c] = [@ EXCEPT !.pc = "attached", !.replay = Snapshot(rings[s])]]
                /\ subs' = [subs EXCEPT ![s] = @ \cup {c}]
        /\ UNCHANGED <<registry, spawned, life, written, rings>>

\* hello, then the replay as one message; then the pumps start.
Hello(c) ==
    /\ conn[c].pc = "attached"
    /\ conn' = [conn EXCEPT ![c] = [@ EXCEPT !.pc = "pumping", !.got = conn[c].replay, !.replay = <<>>]]
    /\ UNCHANGED <<registry, spawned, life, written, rings, subs>>

\* readPump returns and cancels the context: the client is gone, or its input is refused.
ReadPump(c) ==
    /\ conn[c].pc = "pumping" /\ ~conn[c].gone
    /\ conn' = [conn EXCEPT ![c] = [@ EXCEPT !.gone = TRUE]]
    /\ UNCHANGED <<registry, spawned, life, written, rings, subs>>

PumpCancelled(c) ==
    /\ conn[c].pc = "pumping" /\ conn[c].gone /\ Ended(c)
    /\ UNCHANGED <<registry, spawned, life, written, rings>>

PumpChunk(c) ==
    /\ conn[c].pc = "pumping" /\ conn[c].queue # <<>>
    /\ conn' = [conn EXCEPT ![c] = [@ EXCEPT !.got = conn[c].got \o Head(conn[c].queue), !.queue = Tail(conn[c].queue)]]
    /\ UNCHANGED <<registry, spawned, life, written, rings, subs>>

\* A closed channel gives its buffered chunks first.
PumpOverflow(c) ==
    /\ conn[c].pc = "pumping" /\ conn[c].lag /\ conn[c].queue = <<>> /\ Ended(c)
    /\ UNCHANGED <<registry, spawned, life, written, rings>>

\* Mutant: nothing queued is flushed before the exit frame.
DrainNothing(c) == conn[c].got

\* What drain sends: everything queued, until the queue is empty or closed.
Drain(c) == conn[c].got \o FlattenSeq(conn[c].queue)

\* The exit frame and a normal close.
PumpDone(c) ==
    /\ conn[c].pc = "pumping" /\ life[conn[c].sess] = "done"
    /\ Detach(c)
    /\ conn' = [conn EXCEPT ![c] = [@ EXCEPT !.pc = "exit", !.got = Drain(c), !.queue = <<>>]]
    /\ UNCHANGED <<registry, spawned, life, written, rings>>

Next ==
    \/ \E c \in Clients : GetOrCreate(c)
    \/ \E c \in Clients : Attach(c)
    \/ \E c \in Clients : Hello(c)
    \/ \E c \in Clients : ReadPump(c)
    \/ \E c \in Clients : PumpCancelled(c)
    \/ \E c \in Clients : PumpChunk(c)
    \/ \E c \in Clients : PumpOverflow(c)
    \/ \E c \in Clients : PumpDone(c)
    \/ \E s \in Sessions, n \in 1..MaxChunk : Fanout(s, n)
    \/ \E s \in Sessions : Finish(s)
    \/ \E s \in Sessions : CloseDone(s)
    \/ \E s \in Sessions : AutoRemove(s)

Spec == Init /\ [][Next]_vars

-----------------------------------------------------------------------------
(* Properties. *)

\* The scrollback is the end of what the shell has written, in order, for every
\* way the reads of the PTY cut the output (ring.Write, ring.snapshot).
RingIsTail ==
    \A s \in Sessions :
        LET n == written[s]
            k == IF n < RingSize THEN n ELSE RingSize
        IN  Snapshot(rings[s]) = [i \in 1..k |-> n - k + i]

Consecutive(q) == \A i \in 1..Len(q) - 1 : q[i + 1] = q[i] + 1

\* What a connection has been sent and what waits for it is one unbroken stretch
\* of the output, and reaches its end as long as the connection is subscribed:
\* nothing is lost or repeated between the replay and the live stream
\* (Session.Attach, Session.fanout).
StreamWhole ==
    \A c \in Clients : conn[c].pc \in {"attached", "pumping"} =>
        LET seen == (IF conn[c].pc = "attached" THEN conn[c].replay ELSE conn[c].got) \o FlattenSeq(conn[c].queue)
        IN  /\ Consecutive(seen)
            /\ c \in subs[conn[c].sess] /\ written[conn[c].sess] > 0 => seen # <<>> /\ Last(seen) = written[conn[c].sess]

\* The exit frame comes after all the output, unless the connection had been
\* dropped for lagging (writePump, drain).
ExitComesLast ==
    \A c \in Clients : conn[c].pc = "exit" /\ ~conn[c].lag /\ written[conn[c].sess] > 0 =>
        conn[c].got # <<>> /\ Last(conn[c].got) = written[conn[c].sess]

\* The exit frame comes after all the output.  Fails: a closed channel ends the
\* drain as an empty one does.
ExitTellsAll ==
    \A c \in Clients : conn[c].pc = "exit" /\ written[conn[c].sess] > 0 =>
        conn[c].got # <<>> /\ Last(conn[c].got) = written[conn[c].sess]

\* A shell that runs is the one registered under the name, so the next
\* connection finds it: none is left running unreachable (Manager.getOrCreate
\* and its remover).
NoOrphanShell == \A s \in Sessions : life[s] = "live" => registry = s
=============================================================================
