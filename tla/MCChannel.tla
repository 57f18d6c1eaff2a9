----------------------------- MODULE MCChannel ------------------------------
(***************************************************************************)
(* The control channel's connection (ControlConn, extended) and the        *)
(* manager that keeps one to every running machine (GuestChannels), on     *)
(* small instances in one run: a behaviour is a behaviour of one of them,  *)
(* and the variables of the other keep their initial values.               *)
(***************************************************************************)
EXTENDS ControlConn

CONSTANTS
    c1, g1, n1,     \* the calls of ControlConn
    ManagerMay      \* the May of GuestChannels

VARIABLES
    part,
    row, writer, queue, phase, todo, supervisors, sup, conns, writes

M == INSTANCE GuestChannels WITH
        Machines <- {"m1", "m2"}, Writers <- {"w1"}, Sups <- {"i1", "i2"}, None <- "none", Buffer <- 3, May <- ManagerMay, MaxWrites <- 3

mvars == <<row, writer, queue, phase, todo, supervisors, sup, conns, writes>>
all == <<part, vars, mvars>>

ChannelInit ==
    /\ part \in {"conn", "manager"} /\ Init /\ M!Init
    /\ part # "manager" => \A m \in {"m1", "m2"} : row[m] = "stopped"

ConnStep == part = "conn" /\ Next /\ UNCHANGED <<part, mvars>>
ManagerStep == part = "manager" /\ M!Next /\ UNCHANGED <<part, vars>>

ChannelNext == ConnStep \/ ManagerStep

\* The actions the two are fair to, those of one paired with those of the other:
\* as only one part runs, fairness to the union of a pair is fairness to each.
ConnFair(i) ==
    LET c == <<c1, g1, n1, c1, g1, n1, c1, g1, n1>>[i] IN
    CASE i \in 1..3 -> Write(c) [] i \in 4..6 -> Receive(c) [] i \in 7..9 -> Leave(c)
ConnFairEnd(i) ==
    LET e == <<"cp", "guest", "cp", "guest">>[i] IN
    CASE i \in 1..2 -> Reader(e) [] i \in 3..4 -> \E j \in handling[e] : Respond(e, j)
ManagerFair(i) ==
    LET s == <<"i1", "i2", "i1", "i2">>[i] IN
    CASE i \in 1..2 -> M!DialFails(s) \/ M!BackoffEnds(s) \/ M!SupervisorExits(s)
      [] i \in 3..4 -> sup[s].cancelled /\ M!SessionEnds(s)
ManagerFairRun(i) == CASE i = 1 -> M!ManagerStep [] i = 2 -> M!DestroyRow("w1") \/ M!Publish("w1")

Conn(a) == part = "conn" /\ a /\ UNCHANGED <<part, mvars>>
Manager(a) == part = "manager" /\ a /\ UNCHANGED <<part, vars>>

ChannelFairness ==
    /\ \A i \in 1..4 : WF_all(Conn(ConnFair(i)) \/ Manager(ManagerFair(i)))
    /\ \A i \in 5..6 : WF_all(Conn(ConnFair(i)) \/ Manager(ManagerFairRun(i - 4)))
    /\ \A i \in 7..9 : WF_all(Conn(ConnFair(i)))
    /\ \A i \in 1..4 : WF_all(Conn(ConnFairEnd(i)))
    /\ \A s \in {"i1", "i2"} : SF_all(Manager(M!DialSucceeds(s)))

ChannelSpec == ChannelInit /\ [][ChannelNext]_all /\ ChannelFairness

\* The manager keeps one channel per running machine: no machine has two supervisors
\* that mean to go on, and a channel that is up is found ("HasChannel reports whether
\* a live channel exists for the machine").
OneChannel == part = "manager" => M!OneSupervisor /\ M!ChannelKnown

\* In the end every call returns, a machine that stays running has a channel, and one
\* that does not is no longer dialled.
ChannelsSettle == CallsReturn /\ M!ConnectedInTheEnd /\ M!TornDown
=============================================================================
