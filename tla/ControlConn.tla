----------------------------- MODULE ControlConn -----------------------------
(***************************************************************************)
(* One session of a machine's control channel: the request multiplexer at  *)
(* its two ends, controlplane/internal/guestctl/conn.go and                *)
(* guestagent/internal/ctlchan/conn.go, which are the same code but for    *)
(* notify, which only the guest has. A session is never resumed: after a   *)
(* break the next one starts with objects of its own.                      *)
(*                                                                         *)
(* A call is one use of request or notify; its name stands for its op and  *)
(* payload, and for the answer to them.                                    *)
(***************************************************************************)
EXTENDS Naturals, Sequences

CONSTANTS
    CPCalls,    \* requests of the control plane
    GuestCalls, \* requests of the guest
    Notes,      \* notifications of the guest
    None        \* no answer

Calls == CPCalls \cup GuestCalls \cup Notes
Requests == CPCalls \cup GuestCalls

ASSUME CallsAssumption ==
    /\ CPCalls \cap (GuestCalls \cup Notes) = {} /\ GuestCalls \cap Notes = {}
    /\ None \notin Calls

Ends == {"cp", "guest"}
Peer(e) == IF e = "cp" THEN "guest" ELSE "cp"
EndOf(c) == IF c \in CPCalls THEN "cp" ELSE "guest"

VARIABLES
    link,     \* whether the WebSocket is up
    wire,     \* frames on their way to an end
    issued,   \* the calls an end has given an id to, in order: nextID is its length
    waiters,  \* an end's waiters: ids, and the calls whose channels they hold
    closed,   \* conn.closed of an end
    handling, \* requests an end's dispatch goroutines are at
    pc, id,   \* the goroutine of a call, and the id it was given
    box,      \* a call's channel: empty, full or closed
    reply,    \* what is in it
    result    \* what request returned

connVars == <<issued, waiters, closed>>
callVars == <<pc, id, box, reply, result>>
vars == <<link, wire, connVars, handling, callVars>>

Frame == [kind : {"req", "resp"}, id : Nat, body : Calls]
Waiter == [id : Nat, call : Calls]
Job == [id : Nat, body : Calls]

Init ==
    /\ link = TRUE
    /\ wire = [e \in Ends |-> <<>>]
    /\ issued = [e \in Ends |-> <<>>]
    /\ waiters = [e \in Ends |-> {}]
    /\ closed = [e \in Ends |-> FALSE]
    /\ handling = [e \in Ends |-> {}]
    /\ pc = [c \in Calls |-> "idle"] /\ id = [c \in Calls |-> 0]
    /\ box = [c \in Calls |-> "empty"] /\ reply = [c \in Calls |-> None]
    /\ result = [c \in Calls |-> None]

-----------------------------------------------------------------------------
(* Calls.                                                                  *)

\* The next id of the call's end.
Issue(c) ==
    /\ issued' = [issued EXCEPT ![EndOf(c)] = Append(@, c)]
    /\ id' = [id EXCEPT ![c] = Len(issued[EndOf(c)]) + 1]
    /\ pc' = [pc EXCEPT ![c] = "write"]

\* Mutant: the waiter is entered under the id before.
RegisterStale(c) ==
    waiters' = [waiters EXCEPT ![EndOf(c)] = @ \cup {[id |-> Len(issued[EndOf(c)]), call |-> c]}]

\* The channel is entered under the new id.
Register(c) ==
    waiters' = [waiters EXCEPT ![EndOf(c)] = @ \cup {[id |-> Len(issued[EndOf(c)]) + 1, call |-> c]}]

\* Mutant: it is not looked whether the session has failed.
RequestUnchecked(c) ==
    /\ c \in Requests /\ pc[c] = "idle"
    /\ Issue(c) /\ Register(c)
    /\ UNCHANGED <<link, wire, closed, handling, box, reply, result>>

\* request on an open session, up to the unlock.
Request(c) ==
    /\ c \in Requests /\ pc[c] = "idle"
    /\ ~closed[EndOf(c)]
    /\ Issue(c) /\ Register(c)
    /\ UNCHANGED <<link, wire, closed, handling, box, reply, result>>

\* request on a failed session.
RequestRefused(c) ==
    /\ c \in Requests /\ pc[c] = "idle"
    /\ closed[EndOf(c)]
    /\ pc' = [pc EXCEPT ![c] = "over"]
    /\ UNCHANGED <<link, wire, connVars, handling, id, box, reply, result>>

\* Mutant: notify, which is not answered, takes no id of its own.
NotifyShares(c) ==
    /\ c \in Notes /\ pc[c] = "idle"
    /\ id' = [id EXCEPT ![c] = Len(issued["guest"])]
    /\ pc' = [pc EXCEPT ![c] = "write"]
    /\ UNCHANGED <<link, wire, connVars, handling, box, reply, result>>

\* notify: an id, and no waiter; the session may have failed.
Notify(c) ==
    /\ c \in Notes /\ pc[c] = "idle"
    /\ Issue(c)
    /\ UNCHANGED <<link, wire, waiters, closed, handling, box, reply, result>>

\* writeFrame. When the link is down it fails, or the frame is buffered and lost.
Write(c) ==
    /\ pc[c] = "write"
    /\ \/ /\ link
          /\ wire' = [wire EXCEPT ![Peer(EndOf(c))] = Append(@, [kind |-> "req", id |-> id[c], body |-> c])]
          /\ pc' = [pc EXCEPT ![c] = IF c \in Notes THEN "over" ELSE "wait"]
       \/ /\ ~link
          /\ \E p \in {"wait", "leave"} : pc' = [pc EXCEPT ![c] = IF c \in Notes THEN "over" ELSE p]
          /\ UNCHANGED wire
    /\ UNCHANGED <<link, connVars, handling, id, box, reply, result>>

\* request's select: the reply, or the end of the session.
Receive(c) ==
    /\ pc[c] = "wait" /\ box[c] # "empty"
    /\ result' = [result EXCEPT ![c] = IF box[c] = "full" THEN reply[c] ELSE None]
    /\ pc' = [pc EXCEPT ![c] = "leave"]
    /\ UNCHANGED <<link, wire, connVars, handling, id, box, reply>>

\* ... or the caller's context ends.
TimeOut(c) ==
    /\ pc[c] = "wait"
    /\ pc' = [pc EXCEPT ![c] = "leave"]
    /\ UNCHANGED <<link, wire, connVars, handling, id, box, reply, result>>

\* Mutant: the waiter stays.
LeaveLeaks(c) ==
    /\ pc[c] = "leave"
    /\ pc' = [pc EXCEPT ![c] = "over"]
    /\ UNCHANGED <<link, wire, connVars, handling, id, box, reply, result>>

\* request's deferred delete.
Leave(c) ==
    /\ pc[c] = "leave"
    /\ waiters' = [waiters EXCEPT ![EndOf(c)] = {w \in @ : w.id # id[c]}]
    /\ pc' = [pc EXCEPT ![c] = "over"]
    /\ UNCHANGED <<link, wire, issued, closed, handling, id, box, reply, result>>

-----------------------------------------------------------------------------
(* The read loop and the dispatch goroutines of an end.                    *)

\* Mutant: one goroutine for all requests, which drops what it has no time for.
ReadRequestBusy(e) ==
    /\ ~closed[e] /\ wire[e] # <<>> /\ Head(wire[e]).kind = "req"
    /\ wire' = [wire EXCEPT ![e] = Tail(@)]
    /\ handling' = [handling EXCEPT ![e] = IF @ # {} THEN @ ELSE {[id |-> Head(wire[e]).id, body |-> Head(wire[e]).body]}]
    /\ UNCHANGED <<link, connVars, callVars>>

\* A request: a goroutine for it.
ReadRequest(e) ==
    /\ ~closed[e] /\ wire[e] # <<>> /\ Head(wire[e]).kind = "req"
    /\ wire' = [wire EXCEPT ![e] = Tail(@)]
    /\ handling' = [handling EXCEPT ![e] = @ \cup {[id |-> Head(wire[e]).id, body |-> Head(wire[e]).body]}]
    /\ UNCHANGED <<link, connVars, callVars>>

\* deliver: the waiter, if there is one, is taken out and gets the frame.
ReadReply(e) ==
    LET f == Head(wire[e])
        to == {w \in waiters[e] : w.id = f.id}
    IN  /\ ~closed[e] /\ wire[e] # <<>> /\ f.kind = "resp"
        /\ wire' = [wire EXCEPT ![e] = Tail(@)]
        /\ waiters' = [waiters EXCEPT ![e] = @ \ to]
        /\ box' = [c \in Calls |-> IF \E w \in to : w.call = c THEN "full" ELSE box[c]]
        /\ reply' = [c \in Calls |-> IF \E w \in to : w.call = c THEN f.body ELSE reply[c]]
        /\ UNCHANGED <<link, issued, closed, handling, pc, id, result>>

\* dispatch answers whatever it handled, notifications too.
Respond(e, j) ==
    /\ j \in handling[e]
    /\ handling' = [handling EXCEPT ![e] = @ \ {j}]
    /\ \/ /\ link
          /\ wire' = [wire EXCEPT ![Peer(e)] = Append(@, [kind |-> "resp", id |-> j.id, body |-> j.body])]
       \/ ~link /\ UNCHANGED wire
    /\ UNCHANGED <<link, connVars, callVars>>

\* The connection breaks, or one end closes it; what has arrived can still be read.
Break ==
    /\ link
    /\ link' = FALSE
    /\ UNCHANGED <<wire, connVars, handling, callVars>>

\* fail, when the read loop ends: every waiter's channel is closed.
Fail(e) ==
    /\ ~link /\ ~closed[e]
    /\ closed' = [closed EXCEPT ![e] = TRUE]
    /\ waiters' = [waiters EXCEPT ![e] = {}]
    /\ box' = [c \in Calls |-> IF \E w \in waiters[e] : w.call = c THEN "closed" ELSE box[c]]
    /\ UNCHANGED <<link, wire, issued, handling, pc, id, reply, result>>

-----------------------------------------------------------------------------
Call(c) == Request(c) \/ RequestRefused(c) \/ Notify(c) \/ Write(c) \/ Receive(c) \/ TimeOut(c) \/ Leave(c)

Reader(e) == ReadRequest(e) \/ ReadReply(e) \/ Fail(e)

Next ==
    \/ \E c \in Calls : Call(c)
    \/ \E e \in Ends : Reader(e) \/ \E j \in handling[e] : Respond(e, j)
    \/ Break

Spec == Init /\ [][Next]_vars

\* Goroutines go on and handlers return; nobody need time out, and the link need
\* not break.
Fairness ==
    /\ \A c \in Calls : WF_vars(Write(c)) /\ WF_vars(Receive(c)) /\ WF_vars(Leave(c))
    /\ \A e \in Ends : WF_vars(Reader(e)) /\ WF_vars(\E j \in handling[e] : Respond(e, j))

FairSpec == Spec /\ Fairness

-----------------------------------------------------------------------------
(* Properties.                                                             *)

TypeOK ==
    /\ link \in BOOLEAN
    /\ wire \in [Ends -> Seq(Frame)]
    /\ issued \in [Ends -> Seq(Calls)]
    /\ waiters \in [Ends -> SUBSET Waiter]
    /\ \A e \in Ends : \A w \in waiters[e] : w.id \in 1 .. Len(issued[e])
    /\ closed \in [Ends -> BOOLEAN]
    /\ handling \in [Ends -> SUBSET Job]
    /\ pc \in [Calls -> {"idle", "write", "wait", "leave", "over"}]
    /\ id \in [Calls -> Nat]
    /\ box \in [Calls -> {"empty", "full", "closed"}]
    /\ reply \in [Calls -> Calls \cup {None}]
    /\ result \in [Calls -> Calls \cup {None}]

\* "matched to responses by id": what request returns is the answer to that very
\* request, whatever else is in flight, timed out or answered unasked.
ReplyToOwn == \A c \in Calls : result[c] \in {c, None}

\* Every waiter is the entry of a call that has not returned, under the id it was
\* given: entries are not leaked, by time-outs in particular.
WaitersAreCalls ==
    \A e \in Ends : \A w \in waiters[e] :
        /\ EndOf(w.call) = e /\ w.id = id[w.call]
        /\ pc[w.call] \in {"write", "wait", "leave"} /\ box[w.call] = "empty"

\* A call that waits has its entry, or something in its channel; a failed session
\* has no entries. With fail's "so callers unblock when the channel drops", nobody
\* is left to wait for an answer that cannot come.
NobodyForgotten ==
    /\ \A c \in Calls : pc[c] = "wait" /\ box[c] = "empty" => [id |-> id[c], call |-> c] \in waiters[EndOf(c)]
    /\ \A e \in Ends : closed[e] => waiters[e] = {}

\* "notify sends a one-way request the peer does not reply to": no reply to a
\* notification is ever sent.
NotesUnanswered ==
    \A e \in Ends : \A k \in DOMAIN wire[e] : wire[e][k].kind = "resp" => wire[e][k].body \notin Notes

\* Every call returns, without its time-out's help.
CallsReturn == \A c \in Calls : pc[c] # "idle" ~> pc[c] = "over"

\* Requests and answers fit together at both ends, whatever is in flight, times out
\* or fails: an answer goes to its own request (ctlchan/conn.go: "matched to
\* responses by id"), no entry of waiters outlives its call, and nobody waits
\* without one.
ConnSound == TypeOK /\ ReplyToOwn /\ WaitersAreCalls /\ NobodyForgotten
=============================================================================
