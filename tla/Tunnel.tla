------------------------------- MODULE Tunnel -------------------------------
(***************************************************************************)
(* The byte tunnel from the control plane to a port of a machine: the      *)
(* client (nodeclient.DialGuest) upgrades a connection to the node agent   *)
(* (handleGuest), which dials the guest over vsock (the driver's           *)
(* DialGuest); there a forwarder (sshfwd, webfwd, previewfwd) dials the    *)
(* backend on loopback.  Three connections, joined by two bridges.         *)
(* Handshake lines and data travel in the same streams: a reader of a line *)
(* may have read data that belongs to the bridge.                          *)
(***************************************************************************)
EXTENDS Naturals, Sequences

CONSTANTS
    Ports,          \* application ports a preview may ask for
    MaxDown, MaxUp, \* bound: data items sent by the client and by the backend
    May             \* what may happen: "refuse", "nobackend", "close", "reply"

VARIABLES
    kind,           \* "ssh" (a fixed backend) or the port of a preview
    pc,             \* "client", "agent", "guest" -> where each is
    down, up,       \* link -> items in flight towards the backend, towards the client
    buf,            \* reader -> items read past a handshake line
    top, bottom,    \* link -> TRUE: its upper or lower end is closed
    port,           \* the port the forwarder dialled, "ssh", or "none"
    sent,           \* data items sent by the client and by the backend
    gotDown, gotUp, \* what the backend and the client have received
    failed,         \* TRUE: a write towards the backend met a closed connection
    eof             \* TRUE: the client has read the end of the stream

vars == <<kind, pc, down, up, buf, top, bottom, port, sent, gotDown, gotUp, failed, eof>>

\* link 0: client and agent; link 1: agent and guest; link 2: guest and backend
Links == 0..2

Init ==
    /\ kind \in Ports \cup {"ssh"} /\ pc = [client |-> "start", agent |-> "idle", guest |-> "idle"]
    /\ down = [l \in Links |-> <<>>] /\ up = [l \in Links |-> <<>>]
    /\ buf = [client |-> <<>>, agent |-> <<>>, guest |-> <<>>]
    /\ top = [l \in Links |-> FALSE] /\ bottom = [l \in Links |-> FALSE]
    /\ port = "none" /\ sent = [down |-> 0, up |-> 0] /\ gotDown = <<>> /\ gotUp = <<>> /\ failed = FALSE /\ eof = FALSE

TypeOK ==
    /\ kind \in Ports \cup {"ssh"} /\ port \in Ports \cup {"ssh", "none"} /\ sent.down \in 0..MaxDown /\ sent.up \in 0..MaxUp
    /\ pc.client \in {"start", "wait", "open", "refused", "closed"} /\ pc.agent \in {"idle", "connect", "bridge", "done"}
    /\ pc.guest \in {"idle", "preamble", "dial", "bridge", "done"}

\* Reading a line takes what has arrived: the line, and any number of items after it.
Rest(q, n) == SubSeq(q, n + 2, Len(q))
After(q, n) == SubSeq(q, 2, n + 1)

-----------------------------------------------------------------------------
(* The handshakes. *)

\* DialGuest of the control plane: dial and send the upgrade request.
DialAgent ==
    /\ pc.client = "start" /\ pc' = [pc EXCEPT !.client = "wait", !.agent = "connect"]
    /\ UNCHANGED <<kind, down, up, buf, top, bottom, port, sent, gotDown, gotUp, failed, eof>>

\* handleGuest: the upgrade headers, the port and the machine's state are wrong,
\* or the dial to the guest fails on the way.
Refuse ==
    /\ "refuse" \in May /\ pc.agent = "connect"
    /\ pc' = [pc EXCEPT !.client = "refused", !.agent = "done"]
    /\ top' = [top EXCEPT ![0] = TRUE, ![1] = pc.guest # "idle"] /\ bottom' = [bottom EXCEPT ![0] = TRUE]
    /\ UNCHANGED <<kind, down, up, buf, port, sent, gotDown, gotUp, failed, eof>>

\* The accept loop of the forwarder hands the connection to its handler.
Accepted == [pc EXCEPT !.guest = IF kind = "ssh" THEN "dial" ELSE "preamble"]

\* Firecracker's CONNECT: it joins the stream to the forwarder's listener and
\* answers OK, which may arrive together with what the backend says first.
Connect ==
    /\ pc.agent = "connect" /\ pc.guest = "idle"
    /\ pc' = Accepted
    /\ up' = [up EXCEPT ![1] = Append(@, "OK")]
    /\ UNCHANGED <<kind, down, buf, top, bottom, port, sent, gotDown, gotUp, failed, eof>>

\* Mutant: the reader of the OK line is dropped with what it had read.
ReadOKDrops(n) ==
    /\ pc.agent = "connect" /\ up[1] # <<>> /\ n < Len(up[1])
    /\ up' = [up EXCEPT ![1] = Rest(@, n), ![0] = Append(@, "101")]
    /\ down' = [down EXCEPT ![1] = IF kind = "ssh" THEN @ ELSE Append(@, kind)]
    /\ pc' = [pc EXCEPT !.agent = "bridge"]
    /\ UNCHANGED <<kind, buf, top, bottom, port, sent, gotDown, gotUp, failed, eof>>

\* The OK line, the preamble of a preview, then 101 to the client; handshakeConn
\* keeps what came with the line.
ReadOK(n) ==
    /\ pc.agent = "connect" /\ up[1] # <<>> /\ n < Len(up[1])
    /\ buf' = [buf EXCEPT !.agent = After(up[1], n)]
    /\ up' = [up EXCEPT ![1] = Rest(@, n), ![0] = Append(@, "101")]
    /\ down' = [down EXCEPT ![1] = IF kind = "ssh" THEN @ ELSE Append(@, kind)]
    /\ pc' = [pc EXCEPT !.agent = "bridge"]
    /\ UNCHANGED <<kind, top, bottom, port, sent, gotDown, gotUp, failed, eof>>

\* The response headers; bufferedConn keeps what came with them.
Read101(n) ==
    /\ pc.client = "wait" /\ up[0] # <<>> /\ n < Len(up[0])
    /\ buf' = [buf EXCEPT !.client = After(up[0], n)]
    /\ up' = [up EXCEPT ![0] = Rest(@, n)] /\ pc' = [pc EXCEPT !.client = "open"]
    /\ UNCHANGED <<kind, down, top, bottom, port, sent, gotDown, gotUp, failed, eof>>

\* previewfwd: the line that names the port, read through a buffered reader.
ReadPreamble(n) ==
    /\ pc.guest = "preamble" /\ down[1] # <<>> /\ n < Len(down[1])
    /\ port' = Head(down[1]) /\ buf' = [buf EXCEPT !.guest = After(down[1], n)]
    /\ down' = [down EXCEPT ![1] = Rest(@, n)] /\ pc' = [pc EXCEPT !.guest = "dial"]
    /\ UNCHANGED <<kind, up, top, bottom, sent, gotDown, gotUp, failed, eof>>

\* The stream ends before the preamble.
NoPreamble ==
    /\ pc.guest = "preamble" /\ down[1] = <<>> /\ top[1]
    /\ pc' = [pc EXCEPT !.guest = "done"] /\ bottom' = [bottom EXCEPT ![1] = TRUE]
    /\ UNCHANGED <<kind, down, up, buf, top, port, sent, gotDown, gotUp, failed, eof>>

\* The forwarder dials its backend, and drops the client when nobody answers.
DialBackend ==
    /\ pc.guest = "dial"
    /\ \/ /\ pc' = [pc EXCEPT !.guest = "bridge"] /\ UNCHANGED bottom
          /\ port' = IF kind = "ssh" THEN "ssh" ELSE port
       \/ /\ "nobackend" \in May /\ pc' = [pc EXCEPT !.guest = "done"]
          /\ bottom' = [bottom EXCEPT ![1] = TRUE] /\ port' = "none"
    /\ UNCHANGED <<kind, down, up, buf, top, sent, gotDown, gotUp, failed, eof>>

-----------------------------------------------------------------------------
(* A bridge: the agent's joins links 0 and 1, the guest's links 1 and 2. *)

Who(b) == IF b = 0 THEN "agent" ELSE "guest"

\* The buffered reader of the agent reads the guest; that of the forwarder reads the agent.
DownSource(b) == (IF b = 1 THEN buf.guest ELSE <<>>) \o down[b]
UpSource(b) == (IF b = 0 THEN buf.agent ELSE <<>>) \o up[b + 1]

\* Both connections are closed when one direction ends.
TearDown(b) ==
    /\ bottom' = [bottom EXCEPT ![b] = TRUE] /\ top' = [top EXCEPT ![b + 1] = TRUE]
    /\ pc' = [pc EXCEPT ![Who(b)] = "done"]

CopyDown(b) ==
    /\ pc[Who(b)] = "bridge" /\ DownSource(b) # <<>>
    /\ LET x == Head(DownSource(b))
           fromBuf == b = 1 /\ buf.guest # <<>>
       IN  /\ buf' = IF fromBuf THEN [buf EXCEPT !.guest = Tail(@)] ELSE buf
           /\ LET rest == IF fromBuf THEN down ELSE [down EXCEPT ![b] = Tail(@)]
              IN  IF bottom[b + 1]
                  THEN down' = rest /\ failed' = TRUE /\ TearDown(b)
                  ELSE down' = [rest EXCEPT ![b + 1] = Append(@, x)] /\ UNCHANGED <<failed, top, bottom, pc>>
    /\ UNCHANGED <<kind, up, port, sent, gotDown, gotUp, eof>>

CopyUp(b) ==
    /\ pc[Who(b)] = "bridge" /\ UpSource(b) # <<>>
    /\ LET x == Head(UpSource(b))
           fromBuf == b = 0 /\ buf.agent # <<>>
       IN  /\ buf' = IF fromBuf THEN [buf EXCEPT !.agent = Tail(@)] ELSE buf
           /\ LET rest == IF fromBuf THEN up ELSE [up EXCEPT ![b + 1] = Tail(@)]
              IN  IF top[b]
                  THEN up' = rest /\ TearDown(b)
                  ELSE up' = [rest EXCEPT ![b] = Append(@, x)] /\ UNCHANGED <<top, bottom, pc>>
    /\ UNCHANGED <<kind, down, port, sent, gotDown, gotUp, failed, eof>>

\* Mutant: only the connection that ended is closed.
EndHalf(b) ==
    /\ pc[Who(b)] = "bridge"
    /\ \/ DownSource(b) = <<>> /\ top[b] /\ bottom' = [bottom EXCEPT ![b] = TRUE] /\ UNCHANGED top
       \/ UpSource(b) = <<>> /\ bottom[b + 1] /\ top' = [top EXCEPT ![b + 1] = TRUE] /\ UNCHANGED bottom
    /\ pc' = [pc EXCEPT ![Who(b)] = "done"]
    /\ UNCHANGED <<kind, down, up, buf, port, sent, gotDown, gotUp, failed, eof>>

\* Mutant: a closed peer ends the bridge before its last items are copied.
EndEager(b) ==
    /\ pc[Who(b)] = "bridge"
    /\ top[b] \/ bottom[b + 1]
    /\ TearDown(b)
    /\ UNCHANGED <<kind, down, up, buf, port, sent, gotDown, gotUp, failed, eof>>

\* One direction reads the end of its stream.
EndCopy(b) ==
    /\ pc[Who(b)] = "bridge"
    /\ \/ DownSource(b) = <<>> /\ top[b]
       \/ UpSource(b) = <<>> /\ bottom[b + 1]
    /\ TearDown(b)
    /\ UNCHANGED <<kind, down, up, buf, port, sent, gotDown, gotUp, failed, eof>>

-----------------------------------------------------------------------------
(* The two ends. *)

ClientSends ==
    /\ pc.client = "open" /\ sent.down < MaxDown /\ ~bottom[0]
    /\ down' = [down EXCEPT ![0] = Append(@, sent.down + 1)] /\ sent' = [sent EXCEPT !.down = @ + 1]
    /\ UNCHANGED <<kind, pc, up, buf, top, bottom, port, gotDown, gotUp, failed, eof>>

ClientReads ==
    /\ pc.client = "open" /\ buf.client \o up[0] # <<>>
    /\ gotUp' = Append(gotUp, Head(buf.client \o up[0]))
    /\ IF buf.client # <<>> THEN buf' = [buf EXCEPT !.client = Tail(@)] /\ UNCHANGED up
                            ELSE up' = [up EXCEPT ![0] = Tail(@)] /\ UNCHANGED buf
    /\ UNCHANGED <<kind, pc, down, top, bottom, port, sent, gotDown, failed, eof>>

ClientEOF ==
    /\ pc.client = "open" /\ buf.client \o up[0] = <<>> /\ bottom[0]
    /\ eof' = TRUE /\ pc' = [pc EXCEPT !.client = "closed"] /\ top' = [top EXCEPT ![0] = TRUE]
    /\ UNCHANGED <<kind, down, up, buf, bottom, port, sent, gotDown, gotUp, failed>>

ClientCloses ==
    /\ "close" \in May /\ pc.client = "open"
    /\ pc' = [pc EXCEPT !.client = "closed"] /\ top' = [top EXCEPT ![0] = TRUE]
    /\ UNCHANGED <<kind, down, up, buf, bottom, port, sent, gotDown, gotUp, failed, eof>>

BackendSends ==
    /\ pc.guest = "bridge" /\ sent.up < MaxUp /\ ~bottom[2] /\ ~top[2]
    /\ up' = [up EXCEPT ![2] = Append(@, sent.up + 1)] /\ sent' = [sent EXCEPT !.up = @ + 1]
    /\ UNCHANGED <<kind, pc, down, buf, top, bottom, port, gotDown, gotUp, failed, eof>>

BackendReads ==
    /\ down[2] # <<>> /\ ~bottom[2]
    /\ gotDown' = Append(gotDown, Head(down[2])) /\ down' = [down EXCEPT ![2] = Tail(@)]
    /\ UNCHANGED <<kind, pc, up, buf, top, bottom, port, sent, gotUp, failed, eof>>

\* The backend is done with its reply.
BackendCloses ==
    /\ "reply" \in May /\ pc.guest \in {"bridge", "done"} /\ port # "none" /\ ~bottom[2] /\ sent.up = MaxUp
    /\ bottom' = [bottom EXCEPT ![2] = TRUE]
    /\ UNCHANGED <<kind, pc, down, up, buf, top, port, sent, gotDown, gotUp, failed, eof>>

\* The backend reads the end of the stream.
BackendEOF ==
    /\ port # "none" /\ ~bottom[2] /\ top[2] /\ down[2] = <<>>
    /\ bottom' = [bottom EXCEPT ![2] = TRUE]
    /\ UNCHANGED <<kind, pc, down, up, buf, top, port, sent, gotDown, gotUp, failed, eof>>

\* What goes on by itself: the handshakes, the copying, and a reader that finds the end.
Flow ==
    \/ Connect
    \/ \E n \in 0..MaxUp : ReadOK(n)
    \/ \E n \in 0..MaxUp : Read101(n)
    \/ \E n \in 0..MaxDown : ReadPreamble(n)
    \/ NoPreamble
    \/ DialBackend
    \/ \E b \in 0..1 : CopyDown(b)
    \/ \E b \in 0..1 : CopyUp(b)
    \/ \E b \in 0..1 : EndCopy(b)
    \/ ClientReads
    \/ ClientEOF
    \/ BackendReads
    \/ BackendEOF

\* What the two ends decide.
Use == DialAgent \/ Refuse \/ ClientSends \/ ClientCloses \/ BackendSends \/ BackendCloses

Next == Flow \/ Use

\* The goroutines run on; each step of Flow takes something out of the tunnel.
Spec == Init /\ [][Next]_vars /\ WF_vars(Flow)

-----------------------------------------------------------------------------
(* Properties. *)

Counting(q) == \A i \in 1..Len(q) : q[i] = i

\* The backend that was asked for receives what the client sent, and the client
\* what the backend sent, from the first item and in order: no handshake line
\* reaches either, and nothing that arrived with one is lost (bufferedConn,
\* handshakeConn, the preamble's reader).
StreamsAreWhole == Counting(gotDown) /\ Counting(gotUp) /\ (port # "none" => port = kind)

\* A client that reads to the end has the backend's whole reply, if nothing it
\* sent itself met a closed connection (bridge).
ReplyIsWhole == eof /\ ~failed /\ port # "none" => Len(gotUp) = sent.up

\* A client that reads to the end has the backend's whole reply.  Fails: a write
\* towards a backend that has closed ends the bridge while the reply is in it.
ReplyAlwaysWhole == eof /\ port # "none" => Len(gotUp) = sent.up

\* The connections that were made.
Opened(l) == (l = 1 => pc.guest # "idle") /\ (l = 2 => port # "none")

\* When one end closes, every connection of the tunnel is closed on both
\* sides in time: no goroutine or socket is left behind (bridge).
TornDown ==
    (top[0] \/ bottom[2]) ~> (\A l \in Links : Opened(l) => bottom[l] /\ top[l])
=============================================================================
