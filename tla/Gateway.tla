------------------------------ MODULE Gateway -------------------------------
(***************************************************************************)
(* The gateway between browsers or the CLI and the machines: sessions and  *)
(* their revocation (session/session.go, gateway/registry.go), terminals   *)
(* and SSH tunnels (gateway/terminal.go, gateway/ssh.go), and the          *)
(* per-machine web origin of the editor and of previews                    *)
(* (gateway/machineweb.go).                                                *)
(*                                                                         *)
(* Every connection is used once.  A connection has a wire, the leg to the *)
(* client, and a handler that goes through its steps.                      *)
(***************************************************************************)
EXTENDS Naturals, FiniteSets

CONSTANTS
    Sessions, Machines, Conns,
    Owner,      \* the user of every session and machine
    Ports,      \* 0, the editor, and preview ports
    NoSession,  \* the session of a request with a bearer
    MaxOffs,    \* bound: times a machine stops
    MaxTokens,  \* bound: web-session tokens minted
    May         \* "fail": a read of the machine fails; "switch": SSH is switched
                \* off; "cached": a bearer's user comes from a cache

VARIABLES
    sessions,   \* sessions: "live" or "revoked"
    revoking,   \* Revoke under way: its step and the closers it has taken; history: the
                \* requests on their way when it took them
    row,        \* machines.state = running
    vm,         \* the machine is up
    offs,       \* history: times the row left running or the machine died
    sshOn,      \* users.ssh_enabled, the same for all
    conns,
    tokens,     \* web-session tokens that were minted
    cookies     \* machine cookies, by origin

vars == <<sessions, revoking, row, vm, offs, sshOn, conns, tokens, cookies>>
others == <<row, vm, offs, sshOn, tokens, cookies>>

Kinds == {"term", "ssh", "web"}
Origins == Machines \X Ports
Unused == [kind |-> "none", pc |-> "idle", sess |-> NoSession, m |-> "none", port |-> 0, on |-> FALSE,
           wire |-> "none", reg |-> FALSE, end |-> "none", code |-> "none", offs |-> 0]
NoCookie == [sess |-> NoSession, port |-> 0, m |-> "none"]
Quiet == [pc |-> "idle", left |-> {}, missed |-> {}]

Init ==
    /\ sessions = [s \in Sessions |-> "live"] /\ revoking = [s \in Sessions |-> Quiet]
    /\ row = [m \in Machines |-> TRUE] /\ vm = [m \in Machines |-> TRUE] /\ offs = [m \in Machines |-> 0]
    /\ sshOn = TRUE /\ conns = [c \in Conns |-> Unused]
    /\ tokens = {} /\ cookies = [o \in Origins |-> NoCookie]

Put(c, r) == conns' = [conns EXCEPT ![c] = r]
At(c, kinds, pc) == conns[c].kind \in kinds /\ conns[c].pc = pc
Refuse(c) == Put(c, [Unused EXCEPT !.pc = "over"])

-----------------------------------------------------------------------------
(* Machines.                                                               *)

\* The row leaves running, by the user's hand or because the poller finds the
\* machine dead.
Stop(m) ==
    /\ row[m] /\ offs[m] < MaxOffs
    /\ row' = [row EXCEPT ![m] = FALSE] /\ offs' = [offs EXCEPT ![m] = @ + 1]
    /\ UNCHANGED <<sessions, revoking, vm, sshOn, conns, tokens, cookies>>

\* The machine is torn down after its row left running, or it dies.
Down(m) ==
    /\ vm[m] /\ (row[m] => offs[m] < MaxOffs) /\ vm' = [vm EXCEPT ![m] = FALSE]
    /\ offs' = IF row[m] THEN [offs EXCEPT ![m] = @ + 1] ELSE offs
    /\ UNCHANGED <<sessions, revoking, row, sshOn, conns, tokens, cookies>>

Start(m) ==
    /\ ~row[m] /\ ~vm[m]
    /\ row' = [row EXCEPT ![m] = TRUE] /\ vm' = [vm EXCEPT ![m] = TRUE]
    /\ UNCHANGED <<sessions, revoking, offs, sshOn, conns, tokens, cookies>>

SwitchOff ==
    /\ "switch" \in May /\ sshOn /\ sshOn' = FALSE
    /\ UNCHANGED <<sessions, revoking, row, vm, offs, conns, tokens, cookies>>

-----------------------------------------------------------------------------
(* Revocation.                                                             *)

\* Requests that have passed the check of their session and are not registered.
OnTheirWay(s) == {c \in Conns : conns[c].sess = s /\ conns[c].pc \in {"auth", "resolved", "machine", "upgrade"}}

\* GetSessionByTokenHash and GetSessionByID.
Alive(s) == sessions[s] = "live"

\* Revoke: the row.
Revoke(s) ==
    /\ sessions[s] = "live" /\ sessions' = [sessions EXCEPT ![s] = "revoked"]
    /\ revoking' = [revoking EXCEPT ![s].pc = "notify"]
    /\ UNCHANGED <<conns, others>>

\* SessionRevoked: the closers, under the lock.
SessionRevoked(s) ==
    /\ revoking[s].pc = "notify"
    /\ revoking' = [revoking EXCEPT ![s] = [pc |-> "close", left |-> {c \in Conns : conns[c].reg /\ conns[c].sess = s},
                                           missed |-> OnTheirWay(s)]]
    /\ UNCHANGED <<sessions, conns, others>>

\* A close of the wire; the first one gives the code.
Closed(r, code) == IF r.wire = "open" THEN [r EXCEPT !.wire = "closed", !.code = code] ELSE r

\* A closer; that of a web socket unregisters, that of a terminal leaves it
\* to the handler.
CloseOne(s, c) ==
    /\ revoking[s].pc = "close" /\ c \in revoking[s].left
    /\ revoking' = [revoking EXCEPT ![s].left = @ \ {c}]
    /\ Put(c, [Closed(conns[c], "session_revoked") EXCEPT !.reg = IF conns[c].kind = "web" THEN FALSE ELSE @])
    /\ UNCHANGED <<sessions, others>>

RevokeDone(s) ==
    /\ revoking[s].pc = "close" /\ revoking[s].left = {}
    /\ revoking' = [revoking EXCEPT ![s].pc = "done"]
    /\ UNCHANGED <<sessions, conns, others>>

-----------------------------------------------------------------------------
(* Terminals and SSH.                                                      *)

\* requireAuth, for a session; the user is read with it.
Authenticate(c, kind, s, m) ==
    /\ conns[c] = Unused /\ Alive(s)
    /\ Put(c, [Unused EXCEPT !.kind = kind, !.pc = "auth", !.sess = s, !.m = m, !.on = sshOn])
    /\ UNCHANGED <<sessions, revoking, others>>

\* requireAuth, for a bearer: the CLI's way to SSH.
AuthenticateBearer(c, m) ==
    /\ conns[c] = Unused
    /\ \E on \in {sshOn} \cup (IF "cached" \in May THEN {TRUE} ELSE {}) :
          Put(c, [Unused EXCEPT !.kind = "ssh", !.pc = "auth", !.m = m, !.on = on])
    /\ UNCHANGED <<sessions, revoking, others>>

\* resolveTerminalMachine: a bearer's user is the owner in this model.
Owned(c) == conns[c].sess = NoSession \/ Owner[conns[c].sess] = Owner[conns[c].m]

\* History: the stops before this request.
Seen(m) == IF vm[m] THEN offs[m] ELSE offs[m] - 1

\* handleGatewayTerminal and handleGatewaySSH, up to the upgrade.
Resolve(c) ==
    /\ At(c, {"term", "ssh"}, "auth")
    /\ IF Owned(c) /\ row[conns[c].m] /\ (conns[c].kind = "ssh" => conns[c].on)
       THEN Put(c, [conns[c] EXCEPT !.pc = "resolved", !.on = FALSE, !.offs = Seen(conns[c].m)])
       ELSE Refuse(c)
    /\ UNCHANGED <<sessions, revoking, others>>

\* Mutant: only a connection that has its tunnel is registered.
AcceptUnregistered(c) ==
    /\ At(c, {"term", "ssh"}, "resolved")
    /\ Put(c, [conns[c] EXCEPT !.pc = "dial", !.wire = "open"])
    /\ UNCHANGED <<sessions, revoking, others>>

\* Serve: the upgrade, and Register; without a session it tracks nothing.
Accept(c) ==
    /\ At(c, {"term", "ssh"}, "resolved")
    /\ Put(c, [conns[c] EXCEPT !.pc = "dial", !.wire = "open", !.reg = conns[c].sess # NoSession])
    /\ UNCHANGED <<sessions, revoking, others>>

\* Refresh: the row, as of now.
Refresh(c) == IF "fail" \in May THEN {row[conns[c].m], FALSE} ELSE {row[conns[c].m]}

\* Serve returns: the wire is closed with the code and unregistered.
OverBy(c, end, code) ==
    Put(c, [Closed(conns[c], code) EXCEPT !.pc = "over", !.reg = FALSE, !.sess = NoSession, !.port = 0, !.end = end])
Over(c, code) == OverBy(c, conns[c].end, code)

\* closeForDialError, the agent having given no reason: the row says whether the
\* machine is stopped; if it is not, or cannot be read, it is a fault.
DialError(c) ==
    {IF row[conns[c].m] THEN "internal" ELSE "machine_stopped"} \cup (IF "fail" \in May THEN {"internal"} ELSE {})

\* DialGuest: the agent says that the machine is not running, or it fails in
\* another way.  A tunnel needs no more than the connection.
Dial(c) ==
    /\ At(c, {"term", "ssh"}, "dial")
    /\ \/ vm[conns[c].m] /\ Put(c, [conns[c] EXCEPT !.pc = IF conns[c].kind = "term" THEN "handshake" ELSE "relay"])
       \/ \E code \in DialError(c) : Over(c, code)
       \/ ~vm[conns[c].m] /\ Over(c, "machine_stopped")
    /\ UNCHANGED <<sessions, revoking, others>>

\* dialGuestWS, across the connection: one that fails is a fault, whatever has
\* become of the machine ("early", history: it was stopped).
Handshake(c) ==
    /\ At(c, {"term"}, "handshake")
    /\ \/ vm[conns[c].m] /\ Put(c, [conns[c] EXCEPT !.pc = "relay"])
       \/ OverBy(c, IF row[conns[c].m] \/ vm[conns[c].m] THEN "broken" ELSE "early", "internal")
    /\ UNCHANGED <<sessions, revoking, others>>

\* The guest's leg ends: the shell exits, an agent is refused, the machine is
\* down (stopped or not), or the tunnel breaks.
GuestEnds(c) ==
    /\ At(c, Kinds, "relay")
    /\ \E end \in IF vm[conns[c].m] THEN {"exit", "refused", "broken"} ELSE {IF row[conns[c].m] THEN "broken" ELSE "stopped"} :
          Put(c, [conns[c] EXCEPT !.pc = "ended", !.end = end])
    /\ UNCHANGED <<sessions, revoking, others>>

\* The client leaves.
Leave(c) ==
    /\ conns[c].wire = "open" /\ Put(c, Closed(conns[c], "left"))
    /\ UNCHANGED <<sessions, revoking, others>>

\* The relay finds the wire closed, by whomever.
ClientEnds(c) ==
    /\ At(c, Kinds, "relay") /\ conns[c].wire = "closed"
    /\ Put(c, [conns[c] EXCEPT !.pc = "ended", !.end = "client"])
    /\ UNCHANGED <<sessions, revoking, others>>

\* Mutant: a terminal whose leg broke says so, stopped or not.
BrowserCloseForBreak(end, running) ==
    CASE end \in {"client", "exit"} -> "normal" [] end = "refused" -> "provider_unavailable" [] OTHER -> "internal"

\* browserCloseFor.
BrowserCloseFor(end, running) ==
    CASE end \in {"client", "exit"} -> "normal"
      [] end = "refused" -> "provider_unavailable"
      [] OTHER -> IF running THEN "internal" ELSE "machine_stopped"

\* sshCloseFor.
SshCloseFor(end, running) == IF end # "client" /\ ~running THEN "machine_stopped" ELSE "normal"

Finish(c) ==
    /\ At(c, Kinds, "ended")
    /\ \E running \in Refresh(c) :
          Over(c, CASE conns[c].kind = "term" -> BrowserCloseFor(conns[c].end, running)
                    [] conns[c].kind = "ssh" -> SshCloseFor(conns[c].end, running)
                    [] OTHER -> "dropped")
    /\ UNCHANGED <<sessions, revoking, others>>

-----------------------------------------------------------------------------
(* The web origin of a machine.                                            *)

\* handleWebSession, MintWebSessionURL: for a session whose user owns the
\* running machine.
Mint(s, m, p) ==
    /\ Alive(s) /\ Owner[s] = Owner[m] /\ row[m] /\ Cardinality(tokens) < MaxTokens
    /\ tokens' = tokens \cup {[sess |-> s, m |-> m, port |-> p]}
    /\ UNCHANGED <<sessions, revoking, row, vm, offs, sshOn, conns, cookies>>

\* Mutant: the cookie is for the origin it is asked on.
HandleAuthAnywhere(t, o) ==
    /\ t.m = o[1] /\ cookies' = [cookies EXCEPT ![o] = [t EXCEPT !.port = o[2]]]
    /\ UNCHANGED <<sessions, revoking, row, vm, offs, sshOn, conns, tokens>>

\* handleAuth on origin o: the token is for this machine and port.  A token is
\* good for a minute, and for more than one cookie.
HandleAuth(t, o) ==
    /\ t.m = o[1] /\ t.port = o[2] /\ cookies' = [cookies EXCEPT ![o] = t]
    /\ UNCHANGED <<sessions, revoking, row, vm, offs, sshOn, conns, tokens>>

\* handleProxy of an upgrade on origin o: the cookie.
Proxy(c, o) ==
    /\ conns[c] = Unused /\ cookies[o].m = o[1] /\ cookies[o].port = o[2]
    /\ Put(c, [Unused EXCEPT !.kind = "web", !.pc = "session", !.sess = cookies[o].sess, !.m = o[1], !.port = o[2]])
    /\ UNCHANGED <<sessions, revoking, others>>

\* SessionOwner: the parent session is alive.
SessionOwner(c) ==
    /\ At(c, {"web"}, "session")
    /\ IF Alive(conns[c].sess) THEN Put(c, [conns[c] EXCEPT !.pc = "machine"]) ELSE Refuse(c)
    /\ UNCHANGED <<sessions, revoking, others>>

\* MachineOwner: it is the owner's, and running.
MachineOwner(c) ==
    /\ At(c, {"web"}, "machine")
    /\ IF Owned(c) /\ row[conns[c].m] THEN Put(c, [conns[c] EXCEPT !.pc = "upgrade", !.offs = Seen(conns[c].m)])
       ELSE Refuse(c)
    /\ UNCHANGED <<sessions, revoking, others>>

\* The guest answers the upgrade, and Hijack registers the socket.
Hijack(c) ==
    /\ At(c, {"web"}, "upgrade")
    /\ \/ vm[conns[c].m] /\ Put(c, [conns[c] EXCEPT !.pc = "relay", !.wire = "open", !.reg = TRUE])
       \/ Refuse(c)
    /\ UNCHANGED <<sessions, revoking, others>>

Next ==
    \/ SwitchOff
    \/ \E m \in Machines : Stop(m) \/ Down(m) \/ Start(m)
    \/ \E s \in Sessions : Revoke(s) \/ SessionRevoked(s) \/ RevokeDone(s)
                           \/ (\E c \in Conns : CloseOne(s, c)) \/ (\E o \in Origins : Mint(s, o[1], o[2]))
    \/ \E t \in tokens : \E o \in Origins : HandleAuth(t, o)
    \/ \E c \in Conns :
          \/ \E s \in Sessions, m \in Machines, kind \in {"term", "ssh"} : Authenticate(c, kind, s, m)
          \/ \E m \in Machines : AuthenticateBearer(c, m)
          \/ \E o \in Origins : Proxy(c, o)
          \/ Resolve(c) \/ Accept(c) \/ Dial(c) \/ Handshake(c) \/ GuestEnds(c) \/ Leave(c) \/ ClientEnds(c)
          \/ Finish(c) \/ SessionOwner(c) \/ MachineOwner(c) \/ Hijack(c)

Spec == Init /\ [][Next]_vars

-----------------------------------------------------------------------------
(* Properties.                                                             *)

\* Once a logout has returned, no wire of its session is open: not one whose
\* tunnel was still being dialled, not one of the editor's, not one opened
\* from a cookie that was set before; except that of a request which had passed
\* the check of its session and not come to Register when the closers were
\* taken.  A request that passes the check later than the row is written, or
\* registers before the closers are taken, does not escape.
RevokedIsClosed ==
    \A s \in Sessions : revoking[s].pc = "done" =>
        \A c \in Conns \ revoking[s].missed : conns[c].sess = s => conns[c].wire # "open"

\* What a client is told is what happened: a terminal or tunnel whose relay
\* ended because its machine was stopped says so, unless the machine was started
\* again before the handler looked; and a client is told that the machine
\* stopped only when it did.  (A terminal whose handshake with the guest
\* fails is told of a fault: EveryStopIsTold.)
CloseTells ==
    \A c \in Conns :
        /\ conns[c].code = "machine_stopped" => offs[conns[c].m] > conns[c].offs
        /\ conns[c].pc = "over" /\ conns[c].end = "stopped" /\ conns[c].code \in {"internal", "normal"} =>
              row[conns[c].m] \/ offs[conns[c].m] > conns[c].offs + 1

\* A web socket is open only for a session that was given this machine's
\* origin, this port's, by its owner: neither the token nor the cookie of one
\* origin opens another.
OriginsApart ==
    \A c \in Conns : conns[c].kind = "web" /\ conns[c].wire = "open" =>
        /\ Owner[conns[c].sess] = Owner[conns[c].m]
        /\ [sess |-> conns[c].sess, m |-> conns[c].m, port |-> conns[c].port] \in tokens

\* A session's connections end with it, at whatever step of theirs the logout comes
\* but the one between the check of the session and Register, and are those it was
\* given.
GatewayGuards == RevokedIsClosed /\ OriginsApart

\* What comments of the code claim and the code does not keep, for the instances
\* that the README lists.

\* gateway/registry.go: "This is exact and immediate for a single control-plane
\* instance."
RevokedAtOnce ==
    \A s \in Sessions : revoking[s].pc = "done" => \A c \in Conns : conns[c].sess = s => conns[c].wire # "open"

\* guestwire.go: 4002 is "the machine stopped out from under the session".
EveryStopIsTold ==
    \A c \in Conns :
        conns[c].pc = "over" /\ conns[c].end \in {"stopped", "early"} /\ conns[c].code \in {"internal", "normal"} =>
            row[conns[c].m] \/ offs[conns[c].m] > conns[c].offs + 1

\* SSH that is switched off is off for every connection that is asked for
\* later (gateway_ssh.go: "this check is what makes a disable take effect on
\* the very next connection attempt regardless").
SwitchIsImmediate ==
    [][\A c \in Conns : conns[c] = Unused /\ conns'[c].kind = "ssh" /\ ~sshOn => ~conns'[c].on]_vars
=============================================================================
