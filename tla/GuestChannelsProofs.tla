------------------------ MODULE GuestChannelsProofs ------------------------
(***************************************************************************)
(* Proofs about GuestChannels, for any machines, writers, supervisors and  *)
(* buffer.                                                                 *)
(*                                                                         *)
(* SupInv joins the types of the manager's maps and goroutines with the    *)
(* two facts that hold them together: an entry of supervisors belongs to a *)
(* goroutine that serves the machine, a registered channel to a goroutine  *)
(* whose session is up. Only a cancelled goroutine returns, and teardown   *)
(* removes the entry in the step that cancels; this is what keeps the two  *)
(* facts, and neither needs to know what updates arrive.                   *)
(***************************************************************************)
EXTENDS GuestChannels, TLAPS

SupTypes ==
    /\ queue \in Seq(Update)
    /\ writer \in [Writers -> Writer]
    /\ todo \subseteq Machines
    /\ supervisors \in [Machines -> Sups \cup {None}]
    /\ sup \in [Sups -> Sup]
    /\ \A i \in Sups : sup[i].pc # "free" => sup[i].m \in Machines
    /\ conns \in [Machines -> Sups \cup {None}]

SupInv == SupTypes /\ EntriesServe /\ ConnsServe

\* What a step of the manager or a supervisor does to maps and goroutines. A step
\* that keeps them all keeps the two facts.
LEMMA Untouched ==
    ASSUME SupInv, SupTypes', UNCHANGED <<supervisors, sup, conns>>
    PROVE  EntriesServe' /\ ConnsServe'
  BY DEF SupInv, EntriesServe, ConnsServe

\* ensure: the entry it makes is that of the goroutine it starts, in a free slot.
LEMMA EnsureServes ==
    ASSUME SupInv, NEW m \in Machines, Ensure(m), UNCHANGED conns
    PROVE  /\ supervisors' \in [Machines -> Sups \cup {None}]
           /\ sup' \in [Sups -> Sup]
           /\ \A i \in Sups : sup'[i].pc # "free" => sup'[i].m \in Machines
           /\ EntriesServe' /\ ConnsServe'
<1>1. CASE UNCHANGED <<supervisors, sup>>
  BY <1>1 DEF SupInv, SupTypes, EntriesServe, ConnsServe
<1>2. CASE ~UNCHANGED <<supervisors, sup>>
  <2>1. PICK i \in Sups :
          /\ sup[i] = Free
          /\ supervisors' = [supervisors EXCEPT ![m] = i]
          /\ sup' = [sup EXCEPT ![i] = [m |-> m, pc |-> "dial", cancelled |-> FALSE]]
    BY <1>2 DEF Ensure
  <2>2. sup[i].pc = "free"
    BY <2>1 DEF Free
  <2>3. [m |-> m, pc |-> "dial", cancelled |-> FALSE] \in Sup
    BY DEF Sup, SupPcs
  <2>4. /\ supervisors' \in [Machines -> Sups \cup {None}]
        /\ sup' \in [Sups -> Sup]
    BY <2>1, <2>3 DEF SupInv, SupTypes
  <2>5. \A j \in Sups : sup'[j].pc # "free" => sup'[j].m \in Machines
    BY <2>1 DEF SupInv, SupTypes
  <2>6. EntriesServe'
    BY <2>1, <2>2, <2>4 DEF SupInv, SupTypes, EntriesServe
  <2>7. ConnsServe'
    BY <2>1, <2>2, <2>4 DEF SupInv, SupTypes, ConnsServe
  <2> QED BY <2>4, <2>5, <2>6, <2>7
<1> QED BY <1>1, <1>2

\* teardown: the goroutine that is cancelled loses its entry in the same step; no
\* other machine has an entry for it.
LEMMA TeardownServes ==
    ASSUME SupInv, NEW m \in Machines, Teardown(m), UNCHANGED conns
    PROVE  /\ supervisors' \in [Machines -> Sups \cup {None}]
           /\ sup' \in [Sups -> Sup]
           /\ \A i \in Sups : sup'[i].pc # "free" => sup'[i].m \in Machines
           /\ EntriesServe' /\ ConnsServe'
<1>1. \A i \in Sups : sup'[i] = IF i = supervisors[m] THEN [sup[i] EXCEPT !.cancelled = TRUE] ELSE sup[i]
  BY DEF Teardown
<1>0. \A s \in Sup : LET t == [s EXCEPT !.cancelled = TRUE] IN t \in Sup /\ t.m = s.m /\ t.pc = s.pc
  BY DEF Sup
<1>2. \A i \in Sups : sup'[i] \in Sup /\ sup'[i].m = sup[i].m /\ sup'[i].pc = sup[i].pc
  BY <1>0, <1>1 DEF SupInv, SupTypes
<1>3. sup' \in [Sups -> Sup]
  BY <1>2 DEF Teardown
<1>4. supervisors' = [supervisors EXCEPT ![m] = None]
  BY DEF Teardown
<1>5. supervisors' \in [Machines -> Sups \cup {None}]
  BY <1>4 DEF SupInv, SupTypes
<1>6. EntriesServe'
  <2> SUFFICES ASSUME NEW n \in Machines, supervisors'[n] # None
               PROVE  LET t == sup'[supervisors'[n]] IN t.m = n /\ t.pc \notin {"free", "exit"} /\ ~t.cancelled
    BY DEF EntriesServe
  <2>1. n # m /\ supervisors'[n] = supervisors[n] /\ supervisors[n] \in Sups
    BY <1>4 DEF SupInv, SupTypes
  <2>2. sup[supervisors[n]].m = n
    BY <2>1, ChannelsAssumption DEF SupInv, EntriesServe
  <2>3. supervisors[n] # supervisors[m]
    BY <2>1, <2>2, ChannelsAssumption DEF SupInv, EntriesServe
  <2>4. sup'[supervisors[n]] = sup[supervisors[n]]
    BY <1>1, <2>1, <2>3
  <2> QED BY <2>1, <2>4, ChannelsAssumption DEF SupInv, EntriesServe
<1>7. ConnsServe'
  BY <1>2, ChannelsAssumption DEF SupInv, SupTypes, ConnsServe
<1>8. \A i \in Sups : sup'[i].pc # "free" => sup'[i].m \in Machines
  BY <1>2 DEF SupInv, SupTypes
<1> QED BY <1>3, <1>5, <1>6, <1>7, <1>8

LEMMA SupInvInit == Init => SupInv
<1> SUFFICES ASSUME Init PROVE SupInv
  OBVIOUS
<1>1. Free \in Sup /\ Idle \in Writer
  BY DEF Free, Sup, SupPcs, Writer
<1>2. SupTypes
  BY <1>1 DEF Init, SupTypes, Free
<1>3. EntriesServe /\ ConnsServe
  BY DEF Init, EntriesServe, ConnsServe
<1> QED BY <1>2, <1>3 DEF SupInv

LEMMA SupInvNext == SupInv /\ [Next]_vars => SupInv'
<1> SUFFICES ASSUME SupInv, [Next]_vars PROVE SupInv'
  OBVIOUS
<1> USE DEF SupInv
<1>0. \A w \in Writers : writer[w] # Idle => writer[w].u \in Update
  BY DEF SupTypes, Writer
<1>1. ASSUME NEW w \in Writers, WriterStep(w) PROVE SupInv'
  <2>1. UNCHANGED <<todo, supervisors, sup, conns>>
    BY <1>1 DEF WriterStep, Touch, DestroyRead, Commit, DestroyRow, Publish, mgrVars
  <2>2. ASSUME NEW pc \in {"destroy", "publish"}, NEW m \in Machines, NEW s \in States, Holds(w, pc, m, s)
        PROVE  writer' \in [Writers -> Writer]
    BY <2>2 DEF Holds, SupTypes, Writer, Update
  <2>3. writer' \in [Writers -> Writer] /\ queue' \in Seq(Update)
    <3>1. ASSUME NEW m \in Machines, Touch(w, m) \/ DestroyRead(w, m)
          PROVE  writer' \in [Writers -> Writer] /\ queue' \in Seq(Update)
      BY <3>1, <2>2 DEF Touch, DestroyRead, SupTypes
    <3>2. ASSUME NEW m \in Machines, NEW to \in States, Commit(w, m, to)
          PROVE  writer' \in [Writers -> Writer] /\ queue' \in Seq(Update)
      BY <3>2, <2>2 DEF Commit, SupTypes
    <3>3. CASE DestroyRow(w)
      <4>1. writer[w] \in [pc : {"destroy", "publish"}, u : Update]
        BY <3>3 DEF DestroyRow, SupTypes, Writer, Idle
      <4>2. [writer[w] EXCEPT !.pc = "publish"] \in Writer
        BY <4>1 DEF Writer
      <4> QED BY <4>2, <3>3 DEF DestroyRow, SupTypes
    <3>4. CASE Publish(w)
      <4>1. writer[w].u \in Update
        BY <3>4, <1>0 DEF Publish, Idle
      <4>2. Append(queue, writer[w].u) \in Seq(Update)
        BY <4>1 DEF SupTypes
      <4> QED BY <4>2, <3>4 DEF Publish, SupTypes, Writer
    <3> QED BY <1>1, <3>1, <3>2, <3>3, <3>4 DEF WriterStep
  <2>4. SupTypes'
    BY <2>1, <2>3 DEF SupTypes
  <2> QED BY <2>1, <2>4, Untouched
<1>2. CASE ManagerStep
  <2>1. CASE RunList \/ RunSubscribe
    <3>1. SupTypes'
      BY <2>1 DEF RunList, RunSubscribe, SupTypes
    <3> QED BY <2>1, <3>1, Untouched DEF RunList, RunSubscribe
  <2>2. ASSUME NEW m \in Machines, RunEnsure(m) PROVE SupInv'
    BY <2>2, EnsureServes DEF RunEnsure, SupTypes
  <2>3. CASE RunUpdate
    <3>1. Head(queue) \in Update /\ queue' \in Seq(Update)
      BY <2>3 DEF RunUpdate, SupTypes
    <3>2. Head(queue).m \in Machines
      BY <3>1 DEF Update
    <3>3. UNCHANGED <<writer, todo, conns>>
      BY <2>3 DEF RunUpdate, mgrVars
    <3>4. CASE Ensure(Head(queue).m)
      BY <3>1, <3>2, <3>3, <3>4, EnsureServes DEF SupTypes
    <3>5. CASE Teardown(Head(queue).m)
      BY <3>1, <3>2, <3>3, <3>5, TeardownServes DEF SupTypes
    <3>6. CASE UNCHANGED <<supervisors, sup>>
      <4>1. SupTypes'
        BY <3>1, <3>3, <3>6 DEF SupTypes
      <4> QED BY <4>1, <3>3, <3>6, Untouched
    <3> QED BY <2>3, <3>4, <3>5, <3>6 DEF RunUpdate
  <2> QED BY <1>2, <2>1, <2>2, <2>3 DEF ManagerStep
<1>3. ASSUME NEW i \in Sups, SupStep(i) PROVE SupInv'
  <2> USE ChannelsAssumption
  <2>1. sup[i].m \in Machines
    BY <1>3 DEF SupStep, DialSucceeds, DialFails, SessionEnds, BackoffEnds, SupervisorExits, SupTypes
  <2>2. UNCHANGED <<writer, queue, todo>>
    BY <1>3 DEF SupStep, DialSucceeds, DialFails, SessionEnds, BackoffEnds, SupervisorExits, mgrVars
  <2>3. \A pc \in SupPcs : [sup[i] EXCEPT !.pc = pc] \in Sup
    BY DEF SupTypes, Sup
  <2>4. \A m \in Machines : supervisors[m] = i => ~sup[i].cancelled
    BY DEF EntriesServe, SupTypes
  <2>5. CASE DialSucceeds(i)
    <3>1. SupTypes'
      BY <2>1, <2>2, <2>3, <2>5 DEF DialSucceeds, SupTypes, SupPcs
    <3>2. EntriesServe'
      BY <2>5, <3>1 DEF DialSucceeds, SupTypes, EntriesServe
    <3>3. ConnsServe'
      BY <2>1, <2>5, <3>1 DEF DialSucceeds, SupTypes, ConnsServe
    <3> QED BY <3>1, <3>2, <3>3
  <2>6. CASE DialFails(i) \/ BackoffEnds(i)
    <3>1. PICK pc \in {"dial", "wait", "exit"} :
            sup' = [sup EXCEPT ![i].pc = pc] /\ (pc = "exit" => sup[i].cancelled)
      BY <2>6 DEF DialFails, BackoffEnds, AfterSession
    <3>2. UNCHANGED <<supervisors, conns>> /\ sup[i].pc \in {"dial", "wait"}
      BY <2>6 DEF DialFails, BackoffEnds
    <3>3. SupTypes'
      BY <2>1, <2>2, <2>3, <3>1, <3>2 DEF SupTypes, SupPcs
    <3>4. EntriesServe'
      BY <2>4, <3>1, <3>2, <3>3 DEF SupTypes, EntriesServe
    <3>5. ConnsServe'
      BY <3>1, <3>2, <3>3 DEF SupTypes, ConnsServe
    <3> QED BY <3>3, <3>4, <3>5
  <2>7. CASE SessionEnds(i)
    <3>1. PICK pc \in {"wait", "exit"} :
            sup' = [sup EXCEPT ![i].pc = pc] /\ (pc = "exit" => sup[i].cancelled)
      BY <2>7 DEF SessionEnds, AfterSession
    <3>0. UNCHANGED supervisors /\ sup[i].pc = "up"
      BY <2>7 DEF SessionEnds
    <3>a. conns' \in [Machines -> Sups \cup {None}]
      BY <2>7 DEF SessionEnds, SupTypes
    <3>b. sup' \in [Sups -> Sup]
      BY <2>3, <3>1 DEF SupTypes, SupPcs
    <3>c. \A j \in Sups : sup'[j].m = sup[j].m
      BY <3>1 DEF SupTypes, Sup
    <3>2. SupTypes'
      BY <2>1, <2>2, <3>0, <3>a, <3>b, <3>c, <3>1 DEF SupTypes, Sup
    <3>3. EntriesServe'
      BY <2>4, <3>0, <3>1, <3>2 DEF SupTypes, EntriesServe
    <3>4. \A m \in Machines : conns'[m] # None => conns'[m] = conns[m] /\ conns[m] # i
      BY <2>1, <2>7 DEF SessionEnds, SupTypes, ConnsServe
    <3>5. ConnsServe'
      BY <3>1, <3>2, <3>4 DEF SupTypes, ConnsServe
    <3> QED BY <3>2, <3>3, <3>5
  <2>8. CASE SupervisorExits(i)
    <3>1. Free \in Sup /\ Free.pc = "free"
      BY DEF Free, Sup, SupPcs
    <3>2. SupTypes'
      BY <2>1, <2>2, <2>8, <3>1 DEF SupervisorExits, SupTypes
    <3>3. EntriesServe'
      BY <2>1, <2>8, <3>2 DEF SupervisorExits, SupTypes, EntriesServe
    <3>4. ConnsServe'
      BY <2>8, <3>2 DEF SupervisorExits, SupTypes, ConnsServe
    <3> QED BY <3>2, <3>3, <3>4
  <2> QED BY <1>3, <2>5, <2>6, <2>7, <2>8 DEF SupStep
<1>4. CASE UNCHANGED vars
  BY <1>4 DEF vars, mgrVars, SupTypes, EntriesServe, ConnsServe
<1> QED BY <1>1, <1>2, <1>3, <1>4 DEF Next

\* The rows, the manager's progress and the bound on writes, for TypeOK.
RowTypes ==
    row \in [Machines -> RowStates] /\ phase \in {"start", "ensuring", "watching"} /\ writes \in 0 .. MaxWrites

LEMMA RowTypesKept == RowTypes /\ [Next]_vars => RowTypes'
<1> SUFFICES ASSUME RowTypes, [Next]_vars PROVE RowTypes'
  OBVIOUS
<1> USE DEF RowTypes
<1>1. ASSUME NEW w \in Writers, WriterStep(w) PROVE RowTypes'
  <2>1. UNCHANGED phase
    BY <1>1 DEF WriterStep, Touch, DestroyRead, Commit, DestroyRow, Publish, mgrVars
  <2>2. row' \in [Machines -> RowStates]
    BY <1>1 DEF WriterStep, Touch, DestroyRead, Commit, DestroyRow, Publish, rowVars, RowStates
  <2>3. writes' \in 0 .. MaxWrites
    BY <1>1, ChannelsAssumption DEF WriterStep, Touch, DestroyRead, Commit, DestroyRow, Publish, rowVars, MayWrite
  <2> QED BY <2>1, <2>2, <2>3
<1>2. CASE ManagerStep
  BY <1>2 DEF ManagerStep, RunList, RunEnsure, RunSubscribe, RunUpdate, rowVars, mgrVars
<1>3. ASSUME NEW i \in Sups, SupStep(i) PROVE RowTypes'
  BY <1>3 DEF SupStep, DialSucceeds, DialFails, SessionEnds, BackoffEnds, SupervisorExits, rowVars, mgrVars
<1>4. CASE UNCHANGED vars
  BY <1>4 DEF vars, rowVars, mgrVars
<1> QED BY <1>1, <1>2, <1>3, <1>4 DEF Next

\* The manager's maps, the goroutines, the updates on their way and the rows keep
\* their types, whatever is lost, late or reordered.
THEOREM ChannelTypes == Spec => []TypeOK
<1>1. Init => RowTypes
  BY ChannelsAssumption DEF Init, RowTypes, RowStates
<1>2. SupInv /\ RowTypes => TypeOK
  BY DEF SupInv, SupTypes, RowTypes, TypeOK
<1> QED BY <1>1, <1>2, RowTypesKept, SupInvInit, SupInvNext, PTL DEF Spec

\* Every entry of Manager.supervisors belongs to a goroutine that serves its machine.
THEOREM SupervisorsServe == Spec => []EntriesServe
<1>1. SupInv => EntriesServe
  BY DEF SupInv
<1> QED BY <1>1, SupInvInit, SupInvNext, PTL DEF Spec

\* Every channel in Manager.conns is open, and leads to the machine it is kept for.
THEOREM ChannelsServe == Spec => []ConnsServe
<1>1. SupInv => ConnsServe
  BY DEF SupInv
<1> QED BY <1>1, SupInvInit, SupInvNext, PTL DEF Spec

(***************************************************************************)
(* If cancelled supervisors return before the manager's next step, the map *)
(* and the goroutines agree: a supervisor that goes on is the one in the   *)
(* map, one that was cancelled is in no entry, so that its delete on the   *)
(* way out removes nothing.                                                *)
(***************************************************************************)
PromptInv ==
    /\ SupInv
    /\ \A i \in Sups : sup[i].pc # "free" /\ ~sup[i].cancelled => supervisors[sup[i].m] = i
    /\ \A i \in Sups : sup[i].cancelled => sup[i].pc # "free" /\ supervisors[sup[i].m] = None
    /\ phase # "watching" => \A i \in Sups : ~sup[i].cancelled

LEMMA PromptInvInit == Init => PromptInv
<1> SUFFICES ASSUME Init PROVE PromptInv
  OBVIOUS
<1>1. \A i \in Sups : sup[i].pc = "free" /\ ~sup[i].cancelled
  BY DEF Init, Free
<1> QED BY <1>1, SupInvInit DEF PromptInv

LEMMA PromptInvNext == "late" \notin May /\ PromptInv /\ [Next]_vars => PromptInv'
<1> SUFFICES ASSUME "late" \notin May, PromptInv, [Next]_vars PROVE PromptInv'
  OBVIOUS
<1>0. SupInv /\ SupInv'
  BY SupInvNext DEF PromptInv
<1> USE ChannelsAssumption
<1>1. CASE UNCHANGED <<supervisors, sup>> /\ (phase' = "watching" \/ UNCHANGED phase)
  BY <1>0, <1>1 DEF PromptInv
<1>2. ASSUME NEW m \in Machines, Ensure(m), UNCHANGED phase, \A i \in Sups : ~sup[i].cancelled
      PROVE  PromptInv'
  <2>1. CASE UNCHANGED <<supervisors, sup>>
    BY <1>1, <1>2, <2>1
  <2>2. CASE ~UNCHANGED <<supervisors, sup>>
    <3>1. PICK i \in Sups :
            /\ sup[i] = Free /\ supervisors[m] = None
            /\ supervisors' = [supervisors EXCEPT ![m] = i]
            /\ sup' = [sup EXCEPT ![i] = [m |-> m, pc |-> "dial", cancelled |-> FALSE]]
      BY <1>2, <2>2 DEF Ensure
    <3>2. \A j \in Sups : ~sup'[j].cancelled
      BY <1>0, <1>2, <3>1 DEF SupInv, SupTypes
    <3>3. \A j \in Sups : sup'[j].pc # "free" => supervisors'[sup'[j].m] = j
      BY <1>0, <1>2, <3>1 DEF PromptInv, SupInv, SupTypes
    <3> QED BY <1>0, <1>2, <3>2, <3>3 DEF PromptInv
  <2> QED BY <2>1, <2>2
<1>3. ASSUME NEW m \in Machines, Teardown(m), UNCHANGED phase, phase = "watching"
      PROVE  PromptInv'
  <2>0. \A s \in Sup : LET t == [s EXCEPT !.cancelled = TRUE] IN t.cancelled /\ t.m = s.m /\ t.pc = s.pc
    BY DEF Sup
  <2>1. /\ \A i \in Sups : sup'[i].m = sup[i].m /\ sup'[i].pc = sup[i].pc
        /\ \A i \in Sups : i # supervisors[m] => sup'[i] = sup[i]
        /\ \A i \in Sups : i = supervisors[m] => sup'[i].cancelled
    BY <1>0, <1>3, <2>0 DEF Teardown, SupInv, SupTypes
  <2>2. supervisors' = [supervisors EXCEPT ![m] = None]
    BY <1>3 DEF Teardown
  <2>3. \A i \in Sups : i = supervisors[m] => sup[i].m = m /\ sup[i].pc # "free"
    BY <1>0 DEF SupInv, EntriesServe
  <2>4. \A i \in Sups : sup'[i].pc # "free" /\ ~sup'[i].cancelled => supervisors'[sup'[i].m] = i
    BY <1>0, <2>1, <2>2 DEF PromptInv, SupInv, SupTypes
  <2>5. \A i \in Sups : sup'[i].cancelled => sup'[i].pc # "free" /\ supervisors'[sup'[i].m] = None
    BY <1>0, <2>1, <2>2, <2>3 DEF PromptInv, SupInv, SupTypes
  <2> QED BY <1>0, <1>3, <2>4, <2>5 DEF PromptInv
<1>4. ASSUME NEW i \in Sups, SupStep(i) PROVE PromptInv'
  <2>1. UNCHANGED phase
    BY <1>4 DEF SupStep, DialSucceeds, DialFails, SessionEnds, BackoffEnds, SupervisorExits, mgrVars
  <2>2. CASE ~SupervisorExits(i)
    <3>1. PICK pc \in {"dial", "up", "wait", "exit"} : sup' = [sup EXCEPT ![i].pc = pc]
      BY <1>4, <2>2 DEF SupStep, DialSucceeds, DialFails, SessionEnds, BackoffEnds, AfterSession
    <3>2. UNCHANGED supervisors /\ sup[i].pc # "free"
      BY <1>4, <2>2 DEF SupStep, DialSucceeds, DialFails, SessionEnds, BackoffEnds
    <3>3. \A j \in Sups : /\ sup'[j].m = sup[j].m
                           /\ sup'[j].cancelled = sup[j].cancelled
                           /\ (sup'[j].pc = "free") = (sup[j].pc = "free")
      BY <1>0, <3>1, <3>2 DEF SupInv, SupTypes, Sup
    <3> QED BY <1>0, <2>1, <3>2, <3>3 DEF PromptInv
  <2>3. CASE SupervisorExits(i)
    <3>1. sup[i].pc = "exit" /\ sup[i].m \in Machines
      BY <1>0, <2>3 DEF SupervisorExits, SupInv, SupTypes
    <3>2. sup[i].cancelled
      BY <1>0, <3>1 DEF PromptInv, SupInv, EntriesServe
    <3>3. supervisors' = supervisors
      BY <1>0, <2>3, <3>1, <3>2 DEF PromptInv, SupervisorExits, SupInv, SupTypes
    <3>4. /\ \A j \in Sups : j # i => sup'[j] = sup[j]
          /\ sup'[i].pc = "free" /\ ~sup'[i].cancelled
      BY <1>0, <2>3 DEF SupervisorExits, SupInv, SupTypes, Free
    <3> QED BY <1>0, <2>1, <3>3, <3>4 DEF PromptInv
  <2> QED BY <2>2, <2>3
<1>5. CASE RunUpdate
  <2>0. Head(queue) \in Update
    BY <1>0, <1>5 DEF RunUpdate, SupInv, SupTypes
  <2>1. Head(queue).m \in Machines
    BY <2>0 DEF Update
  <2>2. /\ UNCHANGED phase /\ phase = "watching"
        /\ \A i \in Sups : ~sup[i].cancelled
    BY <1>5 DEF RunUpdate, mgrVars, Prompt
  <2>3. \/ Ensure(Head(queue).m)
        \/ Teardown(Head(queue).m)
        \/ UNCHANGED <<supervisors, sup>>
    BY <1>5 DEF RunUpdate
  <2> QED BY <1>1, <1>2, <1>3, <2>1, <2>2, <2>3
<1>6. ASSUME NEW m \in Machines, RunEnsure(m) PROVE PromptInv'
  <2>1. \A i \in Sups : ~sup[i].cancelled
    BY <1>6 DEF RunEnsure, PromptInv
  <2> QED BY <1>2, <1>6, <2>1 DEF RunEnsure
<1>7. CASE RunList \/ RunSubscribe
  <2>1. CASE RunList
    BY <1>0, <2>1 DEF RunList, PromptInv
  <2>2. CASE RunSubscribe
    BY <1>1, <2>2 DEF RunSubscribe
  <2> QED BY <1>7, <2>1, <2>2
<1>8. ASSUME NEW w \in Writers, WriterStep(w) PROVE PromptInv'
  <2>1. UNCHANGED <<supervisors, sup, phase>>
    BY <1>8 DEF WriterStep, Touch, DestroyRead, Commit, DestroyRow, Publish, mgrVars
  <2> QED BY <1>1, <2>1
<1>9. CASE UNCHANGED vars
  BY <1>1, <1>9 DEF vars, mgrVars
<1> QED BY <1>4, <1>5, <1>6, <1>7, <1>8, <1>9 DEF Next, ManagerStep

\* "exactly one channel per running machine", provided that a cancelled supervisor
\* returns before the manager goes on: two supervisors of one machine that mean to
\* go on are the same one. A cancelled supervisor that returns late deletes the
\* entry of its successor, and then the next update starts a second one.
THEOREM OneSupervisorIfPrompt ==
    ASSUME "late" \notin May
    PROVE  Spec => []OneSupervisor
<1>1. Init => PromptInv
  BY PromptInvInit
<1>2. PromptInv => OneSupervisor
  BY DEF PromptInv, OneSupervisor, Serving
<1>3. PromptInv /\ [Next]_vars => PromptInv'
  BY PromptInvNext
<1> QED BY <1>1, <1>2, <1>3, PTL DEF Spec

(***************************************************************************)
(* Under the same proviso the registered channel is the supervisor's own:  *)
(* a cancelled supervisor may still dial and register its channel, but     *)
(* then no other supervisor of that machine goes on.                       *)
(***************************************************************************)
OwnChannel == \A i \in Sups : sup[i].pc = "up" /\ ~sup[i].cancelled => conns[sup[i].m] = i

LEMMA OwnChannelNext ==
    "late" \notin May /\ PromptInv /\ PromptInv' /\ OwnChannel /\ [Next]_vars => OwnChannel'
<1> SUFFICES ASSUME "late" \notin May, PromptInv, PromptInv', OwnChannel, [Next]_vars PROVE OwnChannel'
  OBVIOUS
<1> USE ChannelsAssumption
<1>0. SupTypes /\ SupTypes'
  BY DEF PromptInv, SupInv
<1>1. ASSUME UNCHANGED conns, \A j \in Sups : /\ sup'[j].pc = "up" /\ ~sup'[j].cancelled => sup[j].pc = "up" /\ ~sup[j].cancelled
                                              /\ sup'[j].pc = "up" => sup'[j].m = sup[j].m
      PROVE  OwnChannel'
  BY <1>1 DEF OwnChannel
<1>2. CASE UNCHANGED <<sup, conns>>
  BY <1>1, <1>2
<1>3. ASSUME NEW m \in Machines, Ensure(m), UNCHANGED conns PROVE OwnChannel'
  BY <1>0, <1>1, <1>3 DEF Ensure, SupTypes
<1>4. ASSUME NEW m \in Machines, Teardown(m), UNCHANGED conns PROVE OwnChannel'
  <2>0. \A s \in Sup : LET t == [s EXCEPT !.cancelled = TRUE] IN t.cancelled /\ t.m = s.m /\ t.pc = s.pc
    BY DEF Sup
  <2> QED BY <1>0, <1>1, <1>4, <2>0 DEF Teardown, SupTypes
<1>5. ASSUME NEW w \in Writers, WriterStep(w) PROVE OwnChannel'
  BY <1>2, <1>5 DEF WriterStep, Touch, DestroyRead, Commit, DestroyRow, Publish
<1>6. CASE ManagerStep
  <2>1. CASE RunUpdate
    <3>0. Head(queue) \in Update
      BY <1>0, <2>1 DEF RunUpdate, SupTypes
    <3>1. Head(queue).m \in Machines
      BY <3>0 DEF Update
    <3>2. \/ Ensure(Head(queue).m)
          \/ Teardown(Head(queue).m)
          \/ UNCHANGED <<supervisors, sup>>
      BY <2>1 DEF RunUpdate
    <3>3. UNCHANGED conns
      BY <2>1 DEF RunUpdate
    <3> QED BY <1>2, <1>3, <1>4, <3>1, <3>2, <3>3
  <2>2. ASSUME NEW m \in Machines, RunEnsure(m) PROVE OwnChannel'
    BY <1>3, <2>2 DEF RunEnsure
  <2>3. CASE RunList \/ RunSubscribe
    BY <1>2, <2>3 DEF RunList, RunSubscribe
  <2> QED BY <1>6, <2>1, <2>2, <2>3 DEF ManagerStep
<1>7. ASSUME NEW i \in Sups, SupStep(i) PROVE OwnChannel'
  <2>1. sup[i].pc # "free" /\ sup[i].m \in Machines
    BY <1>0, <1>7 DEF SupStep, DialSucceeds, DialFails, SessionEnds, BackoffEnds, SupervisorExits, SupTypes
  \* a supervisor that goes on shares its machine with no other, cancelled or not
  <2>2. \A j \in Sups : j # i /\ sup[j].pc = "up" /\ ~sup[j].cancelled => sup[j].m # sup[i].m
    BY <2>1 DEF PromptInv
  <2>3. CASE DialSucceeds(i)
    <3>1. /\ \A j \in Sups : j # i => sup'[j] = sup[j]
          /\ sup'[i].m = sup[i].m
          /\ conns' = [conns EXCEPT ![sup[i].m] = i]
      BY <1>0, <2>3 DEF DialSucceeds, SupTypes, Sup
    <3> QED BY <1>0, <2>1, <2>2, <3>1 DEF OwnChannel, SupTypes
  <2>4. CASE SessionEnds(i)
    <3>1. /\ \A j \in Sups : j # i => sup'[j] = sup[j]
          /\ sup'[i].pc # "up"
      BY <1>0, <2>4 DEF SessionEnds, AfterSession, SupTypes, Sup
    <3>2. \A m \in Machines : m # sup[i].m => conns'[m] = conns[m]
      BY <1>0, <2>4 DEF SessionEnds, SupTypes
    <3>3. \A j \in Sups : sup[j].pc = "up" => sup[j].m \in Machines
      BY <1>0 DEF SupTypes
    <3> QED BY <2>2, <3>1, <3>2, <3>3 DEF OwnChannel
  <2>5. CASE DialFails(i) \/ BackoffEnds(i)
    <3>1. /\ \A j \in Sups : j # i => sup'[j] = sup[j]
          /\ sup'[i].pc # "up"
      BY <1>0, <2>5 DEF DialFails, BackoffEnds, AfterSession, SupTypes, Sup
    <3> QED BY <1>1, <2>5, <3>1 DEF DialFails, BackoffEnds
  <2>6. CASE SupervisorExits(i)
    <3>1. /\ \A j \in Sups : j # i => sup'[j] = sup[j]
          /\ sup'[i].pc # "up"
      BY <1>0, <2>6 DEF SupervisorExits, SupTypes, Free
    <3> QED BY <1>1, <2>6, <3>1 DEF SupervisorExits
  <2> QED BY <1>7, <2>3, <2>4, <2>5, <2>6 DEF SupStep
<1>8. CASE UNCHANGED vars
  BY <1>2, <1>8 DEF vars
<1> QED BY <1>5, <1>6, <1>7, <1>8 DEF Next

\* "HasChannel reports whether a live channel exists for the machine": a channel
\* that is up and was not cancelled is the one requests are sent over, provided
\* that a cancelled supervisor returns before the manager goes on.
THEOREM ChannelKnownIfPrompt ==
    ASSUME "late" \notin May
    PROVE  Spec => []ChannelKnown
<1>1. Init => OwnChannel
  BY DEF Init, Free, OwnChannel
<1>2. PromptInv /\ OwnChannel => ChannelKnown
  BY ChannelsAssumption DEF OwnChannel, ChannelKnown
<1>3. PromptInv /\ PromptInv' /\ OwnChannel /\ [Next]_vars => OwnChannel'
  BY OwnChannelNext
<1>4. PromptInv /\ [Next]_vars => PromptInv'
  BY PromptInvNext
<1> QED BY <1>1, <1>2, <1>3, <1>4, PromptInvInit, PTL DEF Spec

\* The manager's maps and goroutines fit together, for all machines, writers,
\* supervisors and buffers.
THEOREM ChannelsAreSound == Spec => []ChannelsSound
BY ChannelTypes, SupervisorsServe, ChannelsServe, PTL DEF ChannelsSound
=============================================================================
