-------------------------- MODULE GapProceduresProofs --------------------------
(***************************************************************************)
(* Theorems about GapProcedures, for any choice of its tests and any       *)
(* number of frames under way.                                             *)
(***************************************************************************)
EXTENDS GapProcedures, SequenceTheorems, TLAPS

USE DEF testVars, registryVars, airVars, testerVars, receiveUnchanged

-----------------------------------------------------------------------------
\* The programs.
AllStep ==
    [do : {"command"}, iut : Iut, what : Command]
    \cup [do : {"register"}, iut : Iut, what : Event]
    \cup [do : {"wait"}, iut : {"none"}, what : {"none"}]
    \cup [do : {"assert"}, iut : Iut, what : {"connected", "disconnected"}]

LEMMA OneStep == ASSUME NEW s \in AllStep PROVE <<s>> \in Seq(AllStep)
OBVIOUS

LEMMA StepTyped ==
    ASSUME NEW s \in AllStep
    PROVE  /\ s.do = "command" => s.iut \in Iut /\ s.what \in Command
           /\ s.do = "register" => s.iut \in Iut /\ s.what \in Event
           /\ s.do = "assert" => s.iut \in Iut
BY DEF AllStep

LEMMA Joined ==
    ASSUME NEW s \in Seq(AllStep), NEW t \in Seq(AllStep)
    PROVE  s \o t \in Seq(AllStep)
BY ConcatProperties

LEMMA StepsTyped ==
    /\ \A i \in Iut, c \in Command : Send(i, c) \in Seq(AllStep)
    /\ \A i \in Iut, e \in Event : Register(i, e) \in Seq(AllStep)
    /\ WaitFutures \in Seq(AllStep)
    /\ \A i \in Iut, w \in {"connected", "disconnected"} : Assert(i, w) \in Seq(AllStep)
<1>1. ASSUME NEW i \in Iut, NEW c \in Command
      PROVE  Send(i, c) \in Seq(AllStep)
  <2>1. Step("command", i, c) \in AllStep
    BY DEF Step, AllStep
  <2>2. QED
    BY <2>1, OneStep DEF Send
<1>2. ASSUME NEW i \in Iut, NEW e \in Event
      PROVE  Register(i, e) \in Seq(AllStep)
  <2>1. Step("register", i, e) \in AllStep
    BY DEF Step, AllStep
  <2>2. QED
    BY <2>1, OneStep DEF Register
<1>3. WaitFutures \in Seq(AllStep)
  <2>1. Step("wait", "none", "none") \in AllStep
    BY DEF Step, AllStep
  <2>2. QED
    BY <2>1, OneStep DEF WaitFutures
<1>4. ASSUME NEW i \in Iut, NEW w \in {"connected", "disconnected"}
      PROVE  Assert(i, w) \in Seq(AllStep)
  <2>1. Step("assert", i, w) \in AllStep
    BY DEF Step, AllStep
  <2>2. QED
    BY <2>1, OneStep DEF Assert
<1>5. QED
  BY <1>1, <1>2, <1>3, <1>4

LEMMA CommandsTyped ==
    ASSUME NEW i \in Iut
    PROVE  /\ gap_set_io_cap(i) \in Seq(AllStep)
           /\ gap_set_conn(i) \in Seq(AllStep)
           /\ gap_set_gendiscov(i) \in Seq(AllStep)
           /\ gap_adv_ind_on(i) \in Seq(AllStep)
           /\ gap_start_direct_adv(i) \in Seq(AllStep)
           /\ gap_start_discov(i) \in Seq(AllStep)
           /\ gap_stop_discov(i) \in Seq(AllStep)
           /\ gap_conn(i) \in Seq(AllStep)
           /\ gap_disconn(i) \in Seq(AllStep)
           /\ gap_pair(i) \in Seq(AllStep)
           /\ gap_passkey_confirm(i) \in Seq(AllStep)
           /\ gap_passkey_entry_rsp(i) \in Seq(AllStep)
           /\ gap_conn_param_update(i) \in Seq(AllStep)
<1>1. \A c \in Command : Send(i, c) \in Seq(AllStep)
  BY StepsTyped
<1>2. QED
  BY <1>1, Zenon DEF Command, gap_set_io_cap, gap_set_conn, gap_set_gendiscov, gap_adv_ind_on,
     gap_start_direct_adv, gap_start_discov, gap_stop_discov, gap_conn, gap_disconn, gap_pair,
     gap_passkey_confirm, gap_passkey_entry_rsp, gap_conn_param_update

LEMMA ListenersTyped ==
    ASSUME NEW i \in Iut
    PROVE  /\ gap_device_found_ev(i) \in Seq(AllStep)
           /\ gap_connected_ev(i) \in Seq(AllStep)
           /\ gap_disconnected_ev(i) \in Seq(AllStep)
           /\ gap_passkey_disp_ev(i) \in Seq(AllStep)
           /\ gap_passkey_entry_req_ev(i) \in Seq(AllStep)
           /\ gap_passkey_confirm_req_ev(i) \in Seq(AllStep)
           /\ gap_conn_param_update_ev(i) \in Seq(AllStep)
           /\ gap_sec_level_changed_ev(i) \in Seq(AllStep)
<1>1. \A e \in Event : Register(i, e) \in Seq(AllStep)
  BY StepsTyped
<1>2. QED
  BY <1>1, Zenon DEF Event, gap_device_found_ev, gap_connected_ev, gap_disconnected_ev,
     gap_passkey_disp_ev, gap_passkey_entry_req_ev, gap_passkey_confirm_req_ev,
     gap_conn_param_update_ev, gap_sec_level_changed_ev

LEMMA BothTyped ==
    /\ Both(gap_set_io_cap) \in Seq(AllStep)
    /\ Both(gap_passkey_confirm) \in Seq(AllStep)
    /\ Both(gap_connected_ev) \in Seq(AllStep)
    /\ Both(gap_disconnected_ev) \in Seq(AllStep)
    /\ Both(gap_passkey_confirm_req_ev) \in Seq(AllStep)
    /\ Both(gap_conn_param_update_ev) \in Seq(AllStep)
    /\ Both(gap_sec_level_changed_ev) \in Seq(AllStep)
<1>1. "central" \in Iut /\ "peripheral" \in Iut
  BY DEF Iut
<1>2. QED
  BY <1>1, CommandsTyped, ListenersTyped, Joined, Zenon DEF Both

LEMMA ProceduresTyped ==
    /\ Discover \in Seq(AllStep)
    /\ Connect \in Seq(AllStep)
    /\ connection_procedure \in Seq(AllStep)
    /\ disconnection_procedure \in Seq(AllStep)
    /\ \A i \in Iut : Pair(i) \in Seq(AllStep) /\ ParamUpdate(i) \in Seq(AllStep)
<1>1. /\ "central" \in Iut /\ "peripheral" \in Iut
      /\ WaitFutures \in Seq(AllStep)
      /\ \A i \in Iut : /\ Assert(i, "connected") \in Seq(AllStep)
                        /\ Assert(i, "disconnected") \in Seq(AllStep)
  BY StepsTyped DEF Iut
<1>2. Discover \in Seq(AllStep)
  BY <1>1, CommandsTyped, ListenersTyped, Joined, Zenon DEF Discover
<1>3. Connect \in Seq(AllStep)
  BY <1>1, CommandsTyped, BothTyped, Joined, Zenon DEF Connect
<1>4. connection_procedure \in Seq(AllStep)
  BY <1>2, <1>3, Joined DEF connection_procedure
<1>5. disconnection_procedure \in Seq(AllStep)
  BY <1>1, CommandsTyped, BothTyped, Joined, Zenon DEF disconnection_procedure
<1>6. \A i \in Iut : Pair(i) \in Seq(AllStep)
  BY <1>1, CommandsTyped, BothTyped, Joined, Zenon DEF Pair
<1>7. \A i \in Iut : ParamUpdate(i) \in Seq(AllStep)
  BY <1>1, <1>4, <1>5, CommandsTyped, BothTyped, Joined, Zenon DEF ParamUpdate
<1>8. QED
  BY <1>2, <1>3, <1>4, <1>5, <1>6, <1>7

\* Every test is a sequence of steps of the four kinds.
LEMMA ProgramTyped == \A t \in Test : Program(t) \in Seq(AllStep)
<1>1. "central" \in Iut /\ "peripheral" \in Iut /\ WaitFutures \in Seq(AllStep)
  BY StepsTyped DEF Iut
<1>2. CONN_DCON_1 \in Seq(AllStep)
  BY <1>1, CommandsTyped, ProceduresTyped, Joined, Zenon DEF CONN_DCON_1
<1>3. CONN_PAIR_1 \in Seq(AllStep)
  BY <1>1, CommandsTyped, ProceduresTyped, Joined, Zenon DEF CONN_PAIR_1
<1>4. CONN_PAIR_2 \in Seq(AllStep)
  BY <1>1, CommandsTyped, BothTyped, ProceduresTyped, Joined, Zenon DEF CONN_PAIR_2
<1>5. CONN_PAIR_3 \in Seq(AllStep)
  BY <1>1, CommandsTyped, ListenersTyped, BothTyped, ProceduresTyped, Joined, Zenon DEF CONN_PAIR_3
<1>6. connection_procedure \o disconnection_procedure \in Seq(AllStep)
  BY ProceduresTyped, Joined
<1>7. QED
  BY <1>1, <1>2, <1>3, <1>4, <1>5, <1>6, ProceduresTyped, TestAssumption DEF Program

-----------------------------------------------------------------------------
\* A command waits for one response at most, and no other is under way.
Responding(i) == \E k \in 1 .. Len(stream[i]) : stream[i][k] \in Response

Owed(i) == pending[i] # {} \/ Responding(i) \/ rspq[i] # <<>>

OneResponse(i) ==
    /\ pending[i] # {} => ~Responding(i) /\ rspq[i] = <<>>
    /\ rspq[i] # <<>> => ~Responding(i)
    /\ \A j, k \in 1 .. Len(stream[i]) :
           stream[i][j] \in Response /\ stream[i][k] \in Response => j = k

Awaited == \A i \in Iut : Owed(i) /\ outcome = "running" => At("command") /\ sent /\ step.iut = i

TInv == TypeOK /\ Awaited /\ \A i \in Iut : OneResponse(i)

Frames == Event \cup Response

LEMMA NoEventResponds == Event \cap Response = {}
BY DEF Event, Response

LEMMA CurrentStep ==
    ASSUME TypeOK, outcome = "running", ~ended
    PROVE  /\ pc \in 1 .. Len(Program(test)) /\ pc + 1 \in 1 .. Len(Program(test)) + 1
           /\ step \in AllStep
<1>1. Program(test) \in Seq(AllStep) /\ pc \in 1 .. Len(Program(test)) + 1
  BY ProgramTyped DEF TypeOK
<1>2. pc \in 1 .. Len(Program(test)) /\ pc + 1 \in 1 .. Len(Program(test)) + 1
  BY <1>1 DEF ended
<1>3. QED
  BY <1>1, <1>2 DEF step

\* A frame more and a frame less in the stream of an IUT.
LEMMA StreamGrows ==
    ASSUME NEW i \in Iut, NEW e \in Frames, stream \in [Iut -> Seq(Frames)],
           stream' = [stream EXCEPT ![i] = Append(@, e)]
    PROVE  /\ stream' \in [Iut -> Seq(Frames)]
           /\ \A j \in Iut : j # i => stream'[j] = stream[j]
           /\ Len(stream'[i]) = Len(stream[i]) + 1 /\ Len(stream[i]) \in Nat
           /\ stream'[i][Len(stream[i]) + 1] = e
           /\ \A k \in 1 .. Len(stream[i]) : stream'[i][k] = stream[i][k]
           /\ \A k \in 1 .. Len(stream'[i]) : k \in 1 .. Len(stream[i]) \/ k = Len(stream[i]) + 1
<1>1. stream[i] \in Seq(Frames) /\ stream'[i] = Append(stream[i], e)
  OBVIOUS
<1>2. /\ Append(stream[i], e) \in Seq(Frames)
      /\ Len(stream'[i]) = Len(stream[i]) + 1 /\ Len(stream[i]) \in Nat
      /\ stream'[i][Len(stream[i]) + 1] = e
      /\ \A k \in 1 .. Len(stream[i]) : stream'[i][k] = stream[i][k]
  BY <1>1, AppendProperties
<1>3. stream' \in [Iut -> Seq(Frames)]
  BY <1>2
<1>4. QED
  BY <1>2, <1>3

LEMMA StreamShrinks ==
    ASSUME NEW i \in Iut, stream \in [Iut -> Seq(Frames)], stream[i] # <<>>,
           stream' = [stream EXCEPT ![i] = Tail(@)]
    PROVE  /\ stream' \in [Iut -> Seq(Frames)]
           /\ \A j \in Iut : j # i => stream'[j] = stream[j]
           /\ Len(stream'[i]) = Len(stream[i]) - 1 /\ Len(stream[i]) \in Nat \ {0}
           /\ Head(stream[i]) = stream[i][1] /\ Head(stream[i]) \in Frames /\ 1 \in 1 .. Len(stream[i])
           /\ \A k \in 1 .. Len(stream'[i]) :
                  stream'[i][k] = stream[i][k + 1] /\ k + 1 \in 1 .. Len(stream[i]) /\ k + 1 # 1
<1>1. PICK s \in Seq(Frames) : s = stream[i] /\ s # <<>> /\ stream'[i] = Tail(s)
  OBVIOUS
<1>2. /\ Tail(s) \in Seq(Frames) /\ Len(Tail(s)) = Len(s) - 1 /\ Len(s) \in Nat \ {0}
      /\ Head(s) = s[1] /\ Head(s) \in Frames
      /\ \A k \in 1 .. Len(s) - 1 : Tail(s)[k] = s[k + 1]
  BY <1>1
<1>3. stream' \in [Iut -> Seq(Frames)]
  BY <1>1, <1>2
<1>4. QED
  BY <1>1, <1>2, <1>3

LEMMA TypeInit == Init => TInv
<1> SUFFICES ASSUME Init
             PROVE  TInv
  OBVIOUS
<1>1. \A i \in Iut : pending[i] = {} /\ rspq[i] = <<>> /\ stream[i] = <<>> /\ Len(stream[i]) = 0
                     /\ Len(rspq[i]) = 0
  BY DEF Init
<1>2. TypeOK
  <2>1. Len(Program(test)) \in Nat
    BY ProgramTyped DEF Init
  <2>2. pc \in 1 .. Len(Program(test)) + 1
    BY <2>1 DEF Init
  <2>3. /\ rspq \in [Iut -> Seq(Response)] /\ \A i \in Iut : Len(rspq[i]) <= 1
        /\ due \in [Iut -> Seq(Event)] /\ stream \in [Iut -> Seq(Event \cup Response)]
    BY <1>1 DEF Init
  <2>4. /\ listeners \in [Iut -> SUBSET Event] /\ connections \in [Iut -> BOOLEAN]
        /\ pending \in [Iut -> SUBSET Command] /\ dead \in SUBSET Iut /\ crashed \in SUBSET Iut
        /\ doing \in SUBSET Activity /\ answered \in SUBSET Iut
    BY DEF Init
  <2>5. QED
    BY <2>2, <2>3, <2>4 DEF Init, TypeOK
<1>3. \A i \in Iut : ~Responding(i) /\ ~Owed(i) /\ OneResponse(i)
  BY <1>1 DEF Responding, Owed, OneResponse
<1>4. QED
  BY <1>2, <1>3 DEF TInv, Awaited

\* A step of the IUTs or of a receive thread: the test stands still, and what a
\* command waits for moves on.
LEMMA Waits ==
    ASSUME TInv, UNCHANGED <<test, pc, sent, outcome>>, \A i \in Iut : Owed(i)' => Owed(i)
    PROVE  Awaited'
BY DEF TInv, Awaited, At, ended, step

LEMMA TypeAnswer == ASSUME TInv, NEW i \in Iut, Answer(i) PROVE TInv'
<1>1. /\ UNCHANGED <<test, pc, sent, outcome, registryVars, rspq, connections, dead, due, crashed, link, lost>>
      /\ pending' = [pending EXCEPT ![i] = {}] /\ pending[i] # {}
  BY DEF Answer
<1>2. PICK c \in pending[i], r \in Response :
         /\ stream' = [stream EXCEPT ![i] = Append(@, r)]
         /\ doing' \in {doing, doing \ {"scanning"}, doing \cup Begun(c)}
         /\ answered' \in {answered, answered \cup {i}}
  BY DEF Answer, Response
<1>3. stream \in [Iut -> Seq(Frames)] /\ r \in Frames
  BY DEF TInv, TypeOK, Frames
<1>4. /\ stream' \in [Iut -> Seq(Frames)]
      /\ \A j \in Iut : j # i => stream'[j] = stream[j]
      /\ \A k \in 1 .. Len(stream[i]) : stream'[i][k] = stream[i][k]
      /\ \A k \in 1 .. Len(stream'[i]) : k \in 1 .. Len(stream[i]) \/ k = Len(stream[i]) + 1
  BY <1>2, <1>3, StreamGrows
<1>5. Begun(c) \subseteq Activity
  BY DEF Begun, Activity
<1>6. TypeOK'
  BY <1>1, <1>2, <1>4, <1>5 DEF TInv, TypeOK, Frames, Activity
<1>7. ASSUME NEW j \in Iut
      PROVE  (Owed(j)' => Owed(j)) /\ OneResponse(j)'
  <2>1. CASE j # i
    <3>1. UNCHANGED <<pending[j], rspq[j], stream[j]>>
      BY <1>1, <1>4, <2>1 DEF TInv, TypeOK
    <3>2. QED
      BY <3>1 DEF TInv, Owed, OneResponse, Responding
  <2>2. CASE j = i
    <3>1. pending'[i] = {} /\ rspq'[i] = <<>> /\ ~Responding(i) /\ Owed(i)
      BY <1>1 DEF TInv, TypeOK, OneResponse, Owed
    <3>2. \A k \in 1 .. Len(stream'[i]) : stream'[i][k] \in Response => k = Len(stream[i]) + 1
      BY <1>4, <3>1 DEF Responding
    <3>3. QED
      BY <2>2, <3>1, <3>2 DEF OneResponse
  <2>3. QED
    BY <2>1, <2>2
<1>8. QED
  BY <1>1, <1>6, <1>7, Waits DEF TInv

\* An event in the stream is not waited for by a command.
LEMMA TypeEvent ==
    ASSUME TInv, NEW i \in Iut, NEW e \in Event, UNCHANGED <<pending, rspq>>,
           stream' = [stream EXCEPT ![i] = Append(@, e)]
    PROVE  /\ stream' \in [Iut -> Seq(Event \cup Response)]
           /\ \A j \in Iut : (Owed(j)' => Owed(j)) /\ OneResponse(j)'
<1>1. stream \in [Iut -> Seq(Frames)] /\ e \in Frames /\ e \notin Response
  BY NoEventResponds DEF TInv, TypeOK, Frames
<1>2. /\ stream' \in [Iut -> Seq(Frames)]
      /\ \A j \in Iut : j # i => stream'[j] = stream[j]
      /\ stream'[i][Len(stream[i]) + 1] = e
      /\ \A k \in 1 .. Len(stream[i]) : stream'[i][k] = stream[i][k]
      /\ \A k \in 1 .. Len(stream'[i]) : k \in 1 .. Len(stream[i]) \/ k = Len(stream[i]) + 1
  BY <1>1, StreamGrows
<1>3. \A j \in Iut : \A k \in 1 .. Len(stream'[j]) : stream'[j][k] \in Response =>
          k \in 1 .. Len(stream[j]) /\ stream'[j][k] = stream[j][k]
  BY <1>1, <1>2
<1>4. \A j \in Iut : Responding(j)' => Responding(j)
  BY <1>3 DEF Responding
<1>5. \A j \in Iut : (Owed(j)' => Owed(j)) /\ OneResponse(j)'
  BY <1>3, <1>4 DEF TInv, Owed, OneResponse
<1>6. QED
  BY <1>2, <1>5 DEF Frames

LEMMA TypeSendEvent == ASSUME TInv, NEW i \in Iut, SendEvent(i) PROVE TInv'
<1>1. /\ UNCHANGED <<test, pc, sent, outcome, registryVars, rspq, connections, dead, pending>>
      /\ UNCHANGED <<crashed, doing, link, answered, lost>>
      /\ stream' = [stream EXCEPT ![i] = Append(@, Head(due[i]))]
      /\ due' = [due EXCEPT ![i] = Tail(@)] /\ due[i] # <<>> /\ due \in [Iut -> Seq(Event)]
  BY DEF SendEvent, TInv, TypeOK
<1>2. Head(due[i]) \in Event /\ Tail(due[i]) \in Seq(Event)
  BY <1>1
<1>3. due' \in [Iut -> Seq(Event)]
  BY <1>1, <1>2
<1>4. /\ stream' \in [Iut -> Seq(Event \cup Response)]
      /\ \A j \in Iut : (Owed(j)' => Owed(j)) /\ OneResponse(j)'
  BY <1>1, <1>2, TypeEvent
<1>5. TypeOK'
  BY <1>1, <1>3, <1>4 DEF TInv, TypeOK
<1>6. QED
  BY <1>1, <1>4, <1>5, Waits DEF TInv

LEMMA TypeReport == ASSUME TInv, Report PROVE TInv'
<1>1. /\ UNCHANGED <<test, pc, sent, outcome, registryVars, rspq, connections, dead, pending>>
      /\ UNCHANGED <<due, crashed, doing, link, answered, lost>>
      /\ stream' = [stream EXCEPT !["central"] = Append(@, "found")]
      /\ "central" \in Iut /\ "found" \in Event
  BY DEF Report, Iut, Event
<1>2. /\ stream' \in [Iut -> Seq(Event \cup Response)]
      /\ \A j \in Iut : (Owed(j)' => Owed(j)) /\ OneResponse(j)'
  BY <1>1, TypeEvent
<1>3. TypeOK'
  BY <1>1, <1>2 DEF TInv, TypeOK
<1>4. QED
  BY <1>1, <1>2, <1>3, Waits DEF TInv

LEMMA NoticeTyped ==
    ASSUME due \in [Iut -> Seq(Event)], NEW e \in Event, BothNotice(e)
    PROVE  due' \in [Iut -> Seq(Event)]
<1>1. \A i \in Iut : Append(due[i], e) \in Seq(Event)
  BY AppendProperties
<1>2. QED
  BY <1>1 DEF BothNotice

\* What happens on the air.
LEMMA TypeAir == ASSUME TInv, OnAir \/ LoseLink \/ \E i \in Iut : Crash(i) PROVE TInv'
<1>1. UNCHANGED <<test, pc, sent, outcome, registryVars, rspq, connections, dead, pending, stream>>
  BY DEF OnAir, ConnectOnAir, DisconnectOnAir, AskPasskey, PairOnAir, UpdateOnAir, LoseLink, Crash
<1>2. /\ due \in [Iut -> Seq(Event)] /\ crashed \in SUBSET Iut /\ doing \in SUBSET Activity
      /\ link \in BOOLEAN /\ lost \in BOOLEAN
  BY DEF TInv, TypeOK
<1>3. due' \in [Iut -> Seq(Event)]
  <2>1. CASE OnAir \/ LoseLink
    <3>1. PICK e \in Event : BothNotice(e)
      BY <2>1 DEF OnAir, ConnectOnAir, DisconnectOnAir, AskPasskey, PairOnAir, UpdateOnAir, LoseLink, Event
    <3>2. QED
      BY <1>2, <3>1, NoticeTyped
  <2>2. ASSUME NEW i \in Iut, Crash(i)
        PROVE  due' \in [Iut -> Seq(Event)]
    <3>1. \A j \in Iut : Append(due[j], "disconnected") \in Seq(Event) /\ <<>> \in Seq(Event)
      BY <1>2, AppendProperties DEF Event
    <3>2. QED
      BY <1>2, <2>2, <3>1 DEF Crash
  <2>3. QED
    BY <2>1, <2>2
<1>4. /\ crashed' \in SUBSET Iut /\ doing' \in SUBSET Activity /\ link' \in BOOLEAN
      /\ lost' \in BOOLEAN /\ answered' = answered
  BY <1>2 DEF OnAir, ConnectOnAir, DisconnectOnAir, AskPasskey, PairOnAir, UpdateOnAir, LoseLink, Crash,
              Activity
<1>5. TypeOK'
  BY <1>1, <1>3, <1>4 DEF TInv, TypeOK
<1>6. \A j \in Iut : (Owed(j)' => Owed(j)) /\ OneResponse(j)'
  BY <1>1 DEF TInv, Owed, OneResponse, Responding
<1>7. QED
  BY <1>1, <1>5, <1>6, Waits DEF TInv

\* The receive thread.
LEMMA TypeRx == ASSUME TInv, NEW i \in Iut, Rx(i) PROVE TInv'
<1>1. /\ UNCHANGED <<test, pc, sent, outcome, pending, due, crashed, doing, link, answered, lost>>
      /\ stream' = [stream EXCEPT ![i] = Tail(@)] /\ stream[i] # <<>>
      /\ stream \in [Iut -> Seq(Frames)]
  BY DEF Rx, RxResponse, ConnectedEv, DisconnectedEv, OtherEv, Notify, Receiving, TInv, TypeOK, Frames
<1>2. /\ stream' \in [Iut -> Seq(Frames)]
      /\ \A j \in Iut : j # i => stream'[j] = stream[j]
      /\ Head(stream[i]) = stream[i][1] /\ Head(stream[i]) \in Frames /\ 1 \in 1 .. Len(stream[i])
      /\ \A k \in 1 .. Len(stream'[i]) :
             stream'[i][k] = stream[i][k + 1] /\ k + 1 \in 1 .. Len(stream[i]) /\ k + 1 # 1
  BY <1>1, StreamShrinks
<1>3. Responding(i)' => Responding(i) /\ stream[i][1] \notin Response
  BY <1>2 DEF Responding, TInv, OneResponse
<1>4. \A j, k \in 1 .. Len(stream'[i]) : stream'[i][j] \in Response /\ stream'[i][k] \in Response => j = k
  <2>1. \A j, k \in 1 .. Len(stream'[i]) :
            stream'[i][j] \in Response /\ stream'[i][k] \in Response => j + 1 = k + 1
    BY <1>2 DEF TInv, OneResponse
  <2>2. \A j, k \in 1 .. Len(stream'[i]) : j + 1 = k + 1 => j = k
    OBVIOUS
  <2>3. QED
    BY <2>1, <2>2
<1>5. CASE RxResponse(i)
  <2>1. /\ UNCHANGED <<registryVars, connections, dead>> /\ stream[i][1] \in Response
        /\ rspq' = [rspq EXCEPT ![i] = Append(@, stream[i][1])] /\ Responding(i)
    BY <1>2, <1>5 DEF RxResponse, Frame, Responding
  <2>2. rspq \in [Iut -> Seq(Response)] /\ rspq[i] = <<>> /\ pending[i] = {}
    BY <2>1 DEF TInv, TypeOK, OneResponse
  <2>3. rspq'[i] = <<stream[i][1]>> /\ \A j \in Iut : j # i => rspq'[j] = rspq[j]
    BY <2>1, <2>2
  <2>4. rspq' \in [Iut -> Seq(Response)] /\ \A j \in Iut : Len(rspq'[j]) <= 1
    <3>1. <<stream[i][1]>> \in Seq(Response) /\ Len(<<stream[i][1]>>) <= 1
      BY <2>1
    <3>2. QED
      BY <2>1, <2>2, <2>3, <3>1 DEF TInv, TypeOK
  <2>5. TypeOK'
    BY <1>1, <1>2, <2>1, <2>4 DEF TInv, TypeOK, Frames
  <2>6. \A j \in Iut : (Owed(j)' => Owed(j)) /\ OneResponse(j)'
    <3>1. ~Responding(i)' /\ pending'[i] = {}
      BY <1>1, <1>3, <2>1, <2>2
    <3>2. OneResponse(i)' /\ Owed(i)
      BY <1>4, <2>1, <3>1 DEF OneResponse, Owed
    <3>3. ASSUME NEW j \in Iut, j # i
          PROVE  (Owed(j)' => Owed(j)) /\ OneResponse(j)'
      <4>1. UNCHANGED <<pending[j], rspq[j], stream[j]>>
        BY <1>1, <1>2, <2>3, <3>3
      <4>2. QED
        BY <4>1 DEF TInv, Owed, OneResponse, Responding
    <3>4. QED
      BY <3>2, <3>3
  <2>7. QED
    BY <1>1, <2>5, <2>6, Waits DEF TInv
<1>6. CASE ConnectedEv(i) \/ DisconnectedEv(i) \/ OtherEv(i)
  <2>1. rspq' = rspq
    BY <1>6 DEF ConnectedEv, DisconnectedEv, OtherEv, Notify
  <2>2. /\ listeners' \in [Iut -> SUBSET Event] /\ connections' \in [Iut -> BOOLEAN] /\ dead' \in SUBSET Iut
        /\ astray' = astray /\ list' \in {"none", "current", "old"}
    BY <1>6 DEF ConnectedEv, DisconnectedEv, OtherEv, Notify, TInv, TypeOK
  <2>3. TypeOK'
    BY <1>1, <1>2, <2>1, <2>2 DEF TInv, TypeOK, Frames
  <2>4. \A j \in Iut : Responding(j)' => Responding(j)
    BY <1>2, <1>3 DEF Responding
  <2>5. \A j \in Iut : Owed(j)' => Owed(j)
    BY <1>1, <2>1, <2>4 DEF Owed
  <2>6. ASSUME NEW j \in Iut
        PROVE  OneResponse(j)'
    <3>1. CASE j = i
      BY <1>1, <1>4, <2>1, <2>4, <3>1 DEF TInv, OneResponse
    <3>2. CASE j # i
      <4>1. stream'[j] = stream[j]
        BY <1>2, <3>2
      <4>2. QED
        BY <1>1, <2>1, <4>1 DEF TInv, OneResponse, Responding
    <3>3. QED
      BY <3>1, <3>2
  <2>7. QED
    BY <1>1, <2>3, <2>5, <2>6, Waits DEF TInv
<1>7. QED
  BY <1>5, <1>6 DEF Rx

\* The test.
LEMMA TypeSend == ASSUME TInv, SendCommand PROVE TInv'
<1>1. /\ At("command") /\ ~sent /\ sent' = TRUE
      /\ pending' = [pending EXCEPT ![step.iut] = {step.what}]
      /\ UNCHANGED <<test, pc, outcome, registryVars, rspq, connections, dead, stream>>
      /\ UNCHANGED <<due, crashed, doing, link, answered, lost>>
  BY DEF SendCommand
<1>2. step.iut \in Iut /\ step.what \in Command
  BY <1>1, CurrentStep, StepTyped DEF At, TInv
<1>3. pending' \in [Iut -> SUBSET Command]
  BY <1>1, <1>2 DEF TInv, TypeOK
<1>4. TypeOK'
  BY <1>1, <1>3 DEF TInv, TypeOK
<1>5. \A i \in Iut : ~Owed(i)
  BY <1>1 DEF TInv, Awaited, At
<1>6. \A i \in Iut : Responding(i)' = Responding(i) /\ rspq'[i] = <<>>
  BY <1>1, <1>5 DEF Responding, Owed
<1>7. \A i \in Iut : OneResponse(i)'
  BY <1>1, <1>5, <1>6 DEF TInv, OneResponse, Owed
<1>8. \A i \in Iut : Owed(i)' => i = step.iut
  BY <1>1, <1>2, <1>5, <1>6 DEF Owed, TInv, TypeOK
<1>9. At("command")' /\ step' = step
  BY <1>1 DEF At, ended, step
<1>10. Awaited'
  BY <1>1, <1>8, <1>9 DEF Awaited
<1>11. QED
  BY <1>4, <1>7, <1>10 DEF TInv

LEMMA TypeRead == ASSUME TInv, ReadRsp PROVE TInv'
<1>1. /\ At("command") /\ sent' = FALSE /\ rspq[step.iut] # <<>>
      /\ rspq' = [rspq EXCEPT ![step.iut] = Tail(@)]
      /\ (pc' = pc + 1 /\ outcome' = outcome) \/ (pc' = pc /\ outcome' = "raised")
      /\ UNCHANGED <<test, registryVars, connections, dead, pending, stream>>
      /\ UNCHANGED <<due, crashed, doing, link, answered, lost>>
  BY DEF ReadRsp
<1>2. step.iut \in Iut /\ pc + 1 \in 1 .. Len(Program(test)) + 1
  BY <1>1, CurrentStep, StepTyped DEF At, TInv
<1>3. /\ rspq'[step.iut] = <<>> /\ \A i \in Iut : i # step.iut => rspq'[i] = rspq[i]
      /\ rspq' \in [Iut -> Seq(Response)] /\ \A i \in Iut : Len(rspq'[i]) <= 1
  <2>1. rspq \in [Iut -> Seq(Response)] /\ \A i \in Iut : Len(rspq[i]) <= 1
    BY DEF TInv, TypeOK
  <2>2. PICK s \in Seq(Response) : s = rspq[step.iut] /\ s # <<>> /\ Len(s) <= 1
    BY <1>1, <1>2, <2>1
  <2>3. Tail(s) = <<>> /\ Tail(s) \in Seq(Response) /\ Len(Tail(s)) <= 1
    BY <2>2
  <2>4. QED
    BY <1>1, <1>2, <2>1, <2>2, <2>3
<1>4. \A i \in Iut : ~Owed(i)'
  <2>1. \A i \in Iut : Owed(i) => i = step.iut
    BY <1>1 DEF TInv, Awaited, At
  <2>2. pending[step.iut] = {} /\ ~Responding(step.iut)
    BY <1>1, <1>2 DEF TInv, OneResponse
  <2>3. \A i \in Iut : Responding(i)' = Responding(i)
    BY <1>1 DEF Responding
  <2>4. QED
    BY <1>1, <1>2, <1>3, <2>1, <2>2, <2>3 DEF Owed
<1>5. \A i \in Iut : OneResponse(i)'
  BY <1>1, <1>4 DEF TInv, OneResponse, Owed
<1>6. TypeOK'
  BY <1>1, <1>2, <1>3 DEF TInv, TypeOK
<1>7. QED
  BY <1>4, <1>5, <1>6 DEF TInv, Awaited

LEMMA TypeTest ==
    ASSUME TInv, SkipDisconn \/ ReadTimeout \/ LookUp \/ RegisterListener \/ WaitDone \/ WaitTimeout
                 \/ CheckConnection \/ Pass
    PROVE  TInv'
<1>1. /\ UNCHANGED <<test, sent, rspq, connections, dead, pending, stream>>
      /\ UNCHANGED <<due, crashed, doing, link, answered, lost>>
  BY DEF SkipDisconn, ReadTimeout, LookUp, RegisterListener, WaitDone, WaitTimeout, CheckConnection, Pass
<1>2. /\ listeners' \in [Iut -> SUBSET Event] /\ astray' \in [Iut -> SUBSET Event]
      /\ list' \in {"none", "current", "old"}
  <2>1. CASE RegisterListener
    <3>1. step.iut \in Iut /\ step.what \in Event
      BY <2>1, CurrentStep, StepTyped DEF RegisterListener, At, TInv
    <3>2. QED
      BY <2>1, <3>1 DEF RegisterListener, TInv, TypeOK
  <2>2. CASE ~RegisterListener
    BY <2>2 DEF SkipDisconn, ReadTimeout, LookUp, WaitDone, WaitTimeout, CheckConnection, Pass, TInv, TypeOK
  <2>3. QED
    BY <2>1, <2>2
<1>3. outcome' \in {"running", "passed", "timeout", "assertion", "raised"}
  BY DEF SkipDisconn, ReadTimeout, LookUp, RegisterListener, WaitDone, WaitTimeout, CheckConnection, Pass, TInv, TypeOK
<1>4. pc' \in 1 .. Len(Program(test)) + 1
  <2>1. CASE pc' = pc
    BY <2>1 DEF TInv, TypeOK
  <2>2. CASE pc' # pc
    <3>1. pc' = pc + 1 /\ outcome = "running" /\ ~ended
      BY <2>2 DEF SkipDisconn, ReadTimeout, LookUp, RegisterListener, WaitDone, WaitTimeout, CheckConnection, Pass, At
    <3>2. QED
      BY <3>1, CurrentStep DEF TInv
  <2>3. QED
    BY <2>1, <2>2
<1>5. TypeOK'
  BY <1>1, <1>2, <1>3, <1>4 DEF TInv, TypeOK
<1>6. \A i \in Iut : OneResponse(i)' /\ Owed(i)' = Owed(i)
  BY <1>1 DEF TInv, OneResponse, Owed, Responding
<1>7. outcome' # "running" \/ \A i \in Iut : ~Owed(i)
  <2>1. CASE SkipDisconn
    BY <2>1 DEF SkipDisconn, TInv, Awaited
  <2>2. CASE LookUp \/ RegisterListener \/ WaitDone \/ CheckConnection
    BY <2>2 DEF LookUp, RegisterListener, WaitDone, CheckConnection, TInv, Awaited, At
  <2>3. CASE ReadTimeout \/ WaitTimeout \/ Pass
    BY <2>3 DEF ReadTimeout, WaitTimeout, Pass
  <2>4. QED
    BY <2>1, <2>2, <2>3
<1>8. Awaited'
  BY <1>6, <1>7 DEF Awaited
<1>9. QED
  BY <1>5, <1>6, <1>8 DEF TInv

LEMMA TypeStep == TInv /\ [Next]_vars => TInv'
<1> SUFFICES ASSUME TInv, [Next]_vars
             PROVE  TInv'
  OBVIOUS
<1>1. CASE UNCHANGED vars
  <2>1. TypeOK'
    BY <1>1 DEF vars, TInv, TypeOK
  <2>2. UNCHANGED <<test, pc, sent, outcome>> /\ \A i \in Iut : OneResponse(i)' /\ Owed(i)' = Owed(i)
    BY <1>1 DEF vars, TInv, OneResponse, Owed, Responding
  <2>3. QED
    BY <2>1, <2>2, Waits DEF TInv
<1>2. CASE \E i \in Iut : Answer(i) \/ SendEvent(i) \/ Rx(i) \/ Crash(i)
  BY <1>2, TypeAnswer, TypeSendEvent, TypeRx, TypeAir
<1>3. CASE Report \/ OnAir \/ LoseLink
  BY <1>3, TypeReport, TypeAir
<1>4. CASE RunTest
  BY <1>4, TypeSend, TypeRead, TypeTest DEF RunTest
<1>5. QED
  BY <1>1, <1>2, <1>3, <1>4 DEF Next

LEMMA TInvCorrect == Spec => []TInv
BY TypeInit, TypeStep, PTL DEF Spec

\* The steps of a test name commands, events and IUTs there are, and no more
\* than one response ever waits in the queue of an IUT's receive thread.
THEOREM TypeCorrect == Spec => []TypeOK
<1>1. TInv => TypeOK
  BY DEF TInv
<1>2. QED
  BY TInvCorrect, <1>1, PTL

-----------------------------------------------------------------------------
\* What an event says of the link, and where it may come.
State == {"up", "down"}

StateOf(b) == IF b THEN "up" ELSE "down"

Follows(state, e) ==
    IF e = "connected" THEN "up" ELSE IF e = "disconnected" THEN "down" ELSE state

Fits(state, e) ==
    /\ e = "connected" => state = "down"
    /\ e \in {"disconnected", "params", "passkey", "sec_level"} => state = "up"

\* The frames lead from one state of the link to the other, connections and
\* disconnections in turn; the link only comes up by a connection, which follows
\* from the rest by induction and is carried along instead.
Course(frames, from, to) ==
    \E f \in [0 .. Len(frames) -> State] :
        /\ f[0] = from /\ f[Len(frames)] = to
        /\ \A k \in 1 .. Len(frames) :
               Fits(f[k - 1], frames[k]) /\ f[k] = Follows(f[k - 1], frames[k])
        /\ \A a, b \in 0 .. Len(frames) :
               a <= b /\ f[b] = "up" =>
                   f[a] = "up" \/ \E k \in a + 1 .. b : frames[k] = "connected"

\* The frames an IUT has sent lead from the connections of its stack to what it
\* has noticed, and the events it has yet to send to the link as it is.
Leads(i) ==
    \E noticed \in State :
        /\ Course(stream[i], StateOf(connections[i]), noticed)
        /\ i \notin crashed => Course(due[i], noticed, StateOf(link))

OverLink == {"disconnecting", "pairing", "keys", "updating"}

LInv ==
    /\ \A a \in OverLink : a \in doing => link
    /\ crashed # {} => ~link
    /\ dead = {}
    /\ \A i \in crashed : due[i] = <<>>
    /\ \A i \in Iut : due[i] \in Seq(Event \ {"found"})
    /\ \A i \in Iut : Leads(i)

LEMMA CourseEmpty ==
    ASSUME NEW from, NEW to, NEW frames, frames = <<>>
    PROVE  Course(frames, from, to) <=> from \in State /\ from = to
<1>1. Len(frames) = 0
  OBVIOUS
<1>2. ASSUME from \in State, from = to
      PROVE  Course(frames, from, to)
  <2>1. PICK f : f = [k \in 0 .. 0 |-> from]
    OBVIOUS
  <2>2. f \in [0 .. 0 -> State] /\ f[0] = from
    BY <1>2, <2>1
  <2>3. QED
    BY <1>1, <1>2, <2>2 DEF Course
<1>3. ASSUME Course(frames, from, to)
      PROVE  from \in State /\ from = to
  BY <1>1, <1>3 DEF Course
<1>4. QED
  BY <1>2, <1>3

LEMMA CourseGrows ==
    ASSUME NEW S, NEW frames \in Seq(S), NEW e \in S, NEW from, NEW to,
           Course(frames, from, to), Fits(to, e)
    PROVE  Course(Append(frames, e), from, Follows(to, e))
<1>1. PICK f \in [0 .. Len(frames) -> State] :
         /\ f[0] = from /\ f[Len(frames)] = to
         /\ \A k \in 1 .. Len(frames) :
                Fits(f[k - 1], frames[k]) /\ f[k] = Follows(f[k - 1], frames[k])
         /\ \A a, b \in 0 .. Len(frames) :
                a <= b /\ f[b] = "up" =>
                    f[a] = "up" \/ \E k \in a + 1 .. b : frames[k] = "connected"
  BY DEF Course
<1>2. PICK n : n = Len(frames)
  OBVIOUS
<1>3. PICK more : more = Append(frames, e)
  OBVIOUS
<1>4. /\ n \in Nat /\ Len(more) = n + 1 /\ more[n + 1] = e
      /\ \A k \in 1 .. n : more[k] = frames[k]
  BY <1>2, <1>3, AppendProperties
<1>5. PICK g : g = [k \in 0 .. n + 1 |-> IF k = n + 1 THEN Follows(to, e) ELSE f[k]]
  OBVIOUS
<1>6. Follows(to, e) \in State
  BY <1>1, <1>2, <1>4 DEF Follows, State
<1>7. /\ g \in [0 .. Len(more) -> State]
      /\ g[0] = from /\ g[n] = to /\ g[n + 1] = Follows(to, e)
      /\ \A k \in 0 .. n : g[k] = f[k]
  BY <1>1, <1>2, <1>4, <1>5, <1>6
<1>8. ASSUME NEW k \in 1 .. Len(more)
      PROVE  Fits(g[k - 1], more[k]) /\ g[k] = Follows(g[k - 1], more[k])
  <2>1. CASE k \in 1 .. n
    <3>1. k - 1 \in 0 .. n /\ k \in 0 .. n
      BY <1>4, <2>1
    <3>2. g[k - 1] = f[k - 1] /\ g[k] = f[k] /\ more[k] = frames[k]
      BY <1>4, <1>7, <2>1, <3>1
    <3>3. QED
      BY <1>1, <1>2, <2>1, <3>2
  <2>2. CASE k = n + 1
    <3>1. k - 1 = n
      BY <1>4, <2>2
    <3>2. QED
      BY <1>4, <1>7, <2>2, <3>1
  <2>3. QED
    BY <1>4, <2>1, <2>2
<1>9. ASSUME NEW a \in 0 .. n + 1, NEW b \in 0 .. n + 1, a <= b, g[b] = "up"
      PROVE  g[a] = "up" \/ \E k \in a + 1 .. b : more[k] = "connected"
  <2>1. ASSUME NEW c \in 0 .. n, a <= c, f[c] = "up", c <= b
        PROVE  g[a] = "up" \/ \E k \in a + 1 .. b : more[k] = "connected"
    <3>1. a \in 0 .. n /\ g[a] = f[a] /\ c \in 0 .. Len(frames) /\ a \in 0 .. Len(frames)
      BY <1>2, <1>4, <1>7, <2>1
    <3>2. f[a] = "up" \/ \E k \in a + 1 .. c : frames[k] = "connected"
      BY <1>1, <2>1, <3>1
    <3>3. \A k \in a + 1 .. c : k \in a + 1 .. b /\ k \in 1 .. n
      BY <1>4, <2>1, <3>1
    <3>4. QED
      BY <1>4, <3>1, <3>2, <3>3
  <2>2. CASE b \in 0 .. n
    <3>1. f[b] = "up" /\ b <= b
      BY <1>4, <1>7, <1>9, <2>2
    <3>2. QED
      BY <1>9, <2>1, <2>2, <3>1
  <2>3. CASE b = n + 1 /\ a # b
    <3>1. a <= n /\ n \in 0 .. n /\ n <= b /\ n + 1 \in a + 1 .. b
      BY <1>4, <1>9, <2>3
    <3>2. Follows(to, e) = "up"
      BY <1>7, <1>9, <2>3
    <3>3. e = "connected" \/ f[n] = "up"
      BY <1>1, <1>2, <3>2 DEF Follows
    <3>4. QED
      BY <1>4, <2>1, <3>1, <3>3
  <2>4. CASE a = b
    BY <1>9, <2>4
  <2>5. QED
    BY <1>4, <1>9, <2>2, <2>3, <2>4
<1>10. Course(more, from, Follows(to, e))
  <2>1. \A a, b \in 0 .. Len(more) :
            a <= b /\ g[b] = "up" => g[a] = "up" \/ \E k \in a + 1 .. b : more[k] = "connected"
    BY <1>4, <1>9
  <2>2. g[Len(more)] = Follows(to, e)
    BY <1>4, <1>7
  <2>3. QED
    BY <1>7, <1>8, <2>1, <2>2 DEF Course
<1>11. QED
  BY <1>3, <1>10

LEMMA CourseShrinks ==
    ASSUME NEW S, NEW frames \in Seq(S), frames # <<>>, NEW from, NEW to, Course(frames, from, to)
    PROVE  /\ from \in State /\ Fits(from, Head(frames))
           /\ Course(Tail(frames), Follows(from, Head(frames)), to)
<1>1. PICK f \in [0 .. Len(frames) -> State] :
         /\ f[0] = from /\ f[Len(frames)] = to
         /\ \A k \in 1 .. Len(frames) :
                Fits(f[k - 1], frames[k]) /\ f[k] = Follows(f[k - 1], frames[k])
         /\ \A a, b \in 0 .. Len(frames) :
                a <= b /\ f[b] = "up" =>
                    f[a] = "up" \/ \E k \in a + 1 .. b : frames[k] = "connected"
  BY DEF Course
<1>2. PICK n, less : n = Len(frames) /\ less = Tail(frames)
  OBVIOUS
<1>3. /\ n \in Nat \ {0} /\ Len(less) = n - 1 /\ Head(frames) = frames[1]
      /\ \A k \in 1 .. n - 1 : less[k] = frames[k + 1]
  BY <1>2
<1>4. Fits(from, Head(frames)) /\ f[1] = Follows(from, Head(frames)) /\ from \in State
  <2>1. 1 \in 1 .. Len(frames) /\ 1 - 1 = 0 /\ 0 \in 0 .. Len(frames)
    BY <1>2, <1>3
  <2>2. QED
    BY <1>1, <1>3, <2>1
<1>5. PICK g : g = [k \in 0 .. n - 1 |-> f[k + 1]]
  OBVIOUS
<1>6. /\ g \in [0 .. Len(less) -> State]
      /\ g[0] = f[1] /\ g[n - 1] = to
      /\ \A k \in 0 .. n - 1 : g[k] = f[k + 1]
  BY <1>1, <1>2, <1>3, <1>5
<1>7. ASSUME NEW k \in 1 .. Len(less)
      PROVE  Fits(g[k - 1], less[k]) /\ g[k] = Follows(g[k - 1], less[k])
  <2>1. k \in 1 .. n - 1 /\ k \in 0 .. n - 1 /\ k - 1 \in 0 .. n - 1 /\ (k - 1) + 1 = k
        /\ k + 1 \in 1 .. Len(frames) /\ (k + 1) - 1 = k
    BY <1>2, <1>3
  <2>2. g[k - 1] = f[k] /\ g[k] = f[k + 1] /\ less[k] = frames[k + 1]
    BY <1>3, <1>6, <2>1
  <2>3. Fits(f[k], frames[k + 1]) /\ f[k + 1] = Follows(f[k], frames[k + 1])
    BY <1>1, <2>1
  <2>4. QED
    BY <2>2, <2>3
<1>8. ASSUME NEW a \in 0 .. n - 1, NEW b \in 0 .. n - 1, a <= b, g[b] = "up"
      PROVE  g[a] = "up" \/ \E k \in a + 1 .. b : less[k] = "connected"
  <2>1. /\ a + 1 \in 0 .. Len(frames) /\ b + 1 \in 0 .. Len(frames) /\ a + 1 <= b + 1
        /\ g[a] = f[a + 1] /\ f[b + 1] = "up"
    BY <1>2, <1>3, <1>6, <1>8
  <2>2. f[a + 1] = "up" \/ \E k \in (a + 1) + 1 .. b + 1 : frames[k] = "connected"
    BY <1>1, <2>1
  <2>3. ASSUME NEW k \in (a + 1) + 1 .. b + 1, frames[k] = "connected"
        PROVE  \E m \in a + 1 .. b : less[m] = "connected"
    <3>1. PICK m : m = k - 1
      OBVIOUS
    <3>2. m \in a + 1 .. b /\ m \in 1 .. n - 1 /\ m + 1 = k
      BY <1>3, <1>8, <2>3, <3>1
    <3>3. less[m] = "connected"
      BY <1>3, <2>3, <3>2
    <3>4. QED
      BY <3>2, <3>3
  <2>4. QED
    BY <2>1, <2>2, <2>3
<1>9. Course(less, Follows(from, Head(frames)), to)
  <2>1. \A a, b \in 0 .. Len(less) :
            a <= b /\ g[b] = "up" => g[a] = "up" \/ \E k \in a + 1 .. b : less[k] = "connected"
    BY <1>3, <1>8
  <2>2. g[Len(less)] = to /\ g[0] = Follows(from, Head(frames))
    BY <1>3, <1>4, <1>6
  <2>3. QED
    BY <1>6, <1>7, <2>1, <2>2 DEF Course
<1>10. QED
  BY <1>2, <1>4, <1>9

LEMMA LinkInit == Init => LInv
<1> SUFFICES ASSUME Init
             PROVE  LInv
  OBVIOUS
<1>1. ASSUME NEW i \in Iut
      PROVE  Leads(i)
  <2>1. stream[i] = <<>> /\ due[i] = <<>> /\ connections[i] = FALSE /\ link = FALSE
    BY DEF Init
  <2>2. StateOf(FALSE) = "down" /\ "down" \in State
    BY DEF StateOf, State
  <2>3. Course(stream[i], "down", "down") /\ Course(due[i], "down", "down")
    BY <2>1, <2>2, CourseEmpty
  <2>4. QED
    BY <2>1, <2>2, <2>3 DEF Leads
<1>2. QED
  BY <1>1 DEF LInv, Init

\* A frame that says nothing of the link.
LEMMA LinkFrame ==
    ASSUME TInv, LInv, NEW i \in Iut, NEW e \in Response \cup {"found"},
           stream' = [stream EXCEPT ![i] = Append(@, e)],
           UNCHANGED <<connections, crashed, due, link>>
    PROVE  \A j \in Iut : Leads(j)'
<1>1. stream \in [Iut -> Seq(Frames)]
  BY DEF TInv, TypeOK, Frames
<1>2. \A j \in Iut : j # i => stream'[j] = stream[j]
  BY <1>1
<1>3. stream'[i] = Append(stream[i], e) /\ stream[i] \in Seq(Frames) /\ e \in Frames
  BY <1>1 DEF Frames, Event
<1>4. PICK noticed \in State :
         /\ Course(stream[i], StateOf(connections[i]), noticed)
         /\ i \notin crashed => Course(due[i], noticed, StateOf(link))
  BY DEF LInv, Leads
<1>5. Fits(noticed, e) /\ Follows(noticed, e) = noticed
  BY DEF Fits, Follows, Response
<1>6. Course(stream'[i], StateOf(connections[i]), noticed)
  <2>1. Course(Append(stream[i], e), StateOf(connections[i]), Follows(noticed, e))
    BY <1>3, <1>4, <1>5, CourseGrows
  <2>2. QED
    BY <1>3, <1>5, <2>1
<1>7. Leads(i)'
  BY <1>4, <1>6 DEF Leads
<1>8. \A j \in Iut : j # i => Leads(j)'
  BY <1>2 DEF LInv, Leads
<1>9. QED
  BY <1>7, <1>8

LEMMA LinkAnswer == ASSUME TInv, LInv, NEW i \in Iut, Answer(i) PROVE LInv'
<1>1. /\ UNCHANGED <<connections, crashed, due, link, dead>>
      /\ \E e \in Response : stream' = [stream EXCEPT ![i] = Append(@, e)]
  BY DEF Answer, Response
<1>2. \A j \in Iut : Leads(j)'
  BY <1>1, LinkFrame
<1>3. ASSUME NEW a \in OverLink, a \in doing'
      PROVE  link
  <2>1. PICK c \in pending[i] :
           /\ doing' \in {doing, doing \ {"scanning"}, doing \cup Begun(c)}
           /\ c \in NeedsLink /\ ~link => doing' = doing
    BY DEF Answer
  <2>2. a \in Begun(c) => c \in NeedsLink
    BY <1>3 DEF Begun, NeedsLink, OverLink
  <2>3. QED
    BY <1>3, <2>1, <2>2 DEF LInv
<1>4. QED
  BY <1>1, <1>2, <1>3 DEF LInv

LEMMA LinkReport == ASSUME TInv, LInv, Report PROVE LInv'
<1>1. /\ UNCHANGED <<connections, crashed, due, link, dead, doing>>
      /\ stream' = [stream EXCEPT !["central"] = Append(@, "found")]
      /\ "central" \in Iut
  BY DEF Report, Iut
<1>2. QED
  BY <1>1, LinkFrame DEF LInv

\* An event is sent: it passes from what is due to the stream.
LEMMA LinkSend == ASSUME TInv, LInv, NEW i \in Iut, SendEvent(i) PROVE LInv'
<1>1. /\ UNCHANGED <<connections, crashed, link, dead, doing>>
      /\ stream' = [stream EXCEPT ![i] = Append(@, Head(due[i]))]
      /\ due' = [due EXCEPT ![i] = Tail(@)] /\ due[i] # <<>>
      /\ due \in [Iut -> Seq(Event)] /\ stream \in [Iut -> Seq(Frames)]
  BY DEF SendEvent, TInv, TypeOK, Frames
<1>2. \A j \in Iut : j # i => stream'[j] = stream[j] /\ due'[j] = due[j]
  BY <1>1
<1>3. /\ due[i] \in Seq(Event) /\ Head(due[i]) \in Event /\ Head(due[i]) \in Frames
      /\ stream[i] \in Seq(Frames)
  BY <1>1 DEF Frames
<1>4. PICK noticed \in State :
         /\ Course(stream[i], StateOf(connections[i]), noticed)
         /\ i \notin crashed => Course(due[i], noticed, StateOf(link))
  BY DEF LInv, Leads
<1>5. CASE i \notin crashed
  <2>1. Fits(noticed, Head(due[i])) /\ Course(Tail(due[i]), Follows(noticed, Head(due[i])), StateOf(link))
    BY <1>1, <1>3, <1>4, <1>5, CourseShrinks
  <2>2. Course(Append(stream[i], Head(due[i])), StateOf(connections[i]), Follows(noticed, Head(due[i])))
    BY <1>3, <1>4, <2>1, CourseGrows
  <2>3. Follows(noticed, Head(due[i])) \in State
    BY DEF Follows, State
  <2>4. stream'[i] = Append(stream[i], Head(due[i])) /\ due'[i] = Tail(due[i])
    BY <1>1
  <2>5. Leads(i)'
    BY <1>1, <2>1, <2>2, <2>3, <2>4 DEF Leads
  <2>6. \A j \in Iut : j # i => Leads(j)'
    BY <1>1, <1>2 DEF LInv, Leads
  <2>7. \A j \in crashed' : due'[j] = <<>>
    BY <1>1, <1>2, <1>5 DEF LInv, TInv, TypeOK
  <2>8. \A j \in Iut : due'[j] \in Seq(Event \ {"found"})
    <3>1. due[i] \in Seq(Event \ {"found"}) /\ due[i] # <<>>
      BY <1>1 DEF LInv
    <3>2. Tail(due[i]) \in Seq(Event \ {"found"})
      BY <3>1
    <3>3. QED
      BY <1>2, <2>4, <3>2 DEF LInv
  <2>9. QED
    BY <1>1, <2>5, <2>6, <2>7, <2>8 DEF LInv
<1>6. QED
  BY <1>1, <1>5 DEF LInv

\* Both IUTs notice what happens on the air; the stack of neither has heard yet.
LEMMA LinkNotice ==
    ASSUME TInv, LInv, NEW e \in Event \ {"found"}, BothNotice(e), Fits(StateOf(link), e),
           StateOf(link)' = Follows(StateOf(link), e), UNCHANGED <<connections, crashed, stream>>
    PROVE  /\ \A i \in crashed' : due'[i] = <<>>
           /\ \A i \in Iut : due'[i] \in Seq(Event \ {"found"}) /\ Leads(i)'
<1>1. due \in [Iut -> Seq(Event)] /\ crashed \in SUBSET Iut
  BY DEF TInv, TypeOK
<1>2. \A i \in crashed' : due'[i] = <<>>
  BY <1>1 DEF BothNotice, LInv
<1>3. ASSUME NEW i \in Iut
      PROVE  Leads(i)'
  <2>1. PICK noticed \in State :
           /\ Course(stream[i], StateOf(connections[i]), noticed)
           /\ i \notin crashed => Course(due[i], noticed, StateOf(link))
    BY DEF LInv, Leads
  <2>2. CASE i \in crashed
    BY <2>1, <2>2 DEF Leads
  <2>3. CASE i \notin crashed
    <3>1. due'[i] = Append(due[i], e) /\ due[i] \in Seq(Event)
      BY <1>1, <2>3 DEF BothNotice
    <3>2. Course(Append(due[i], e), noticed, Follows(StateOf(link), e))
      BY <2>1, <2>3, <3>1, CourseGrows
    <3>3. Course(due'[i], noticed, StateOf(link)')
      BY <3>1, <3>2
    <3>4. Course(stream'[i], StateOf(connections'[i]), noticed)
      BY <2>1
    <3>5. QED
      BY <3>3, <3>4 DEF Leads, StateOf
  <2>4. QED
    BY <2>2, <2>3
<1>4. ASSUME NEW i \in Iut
      PROVE  due'[i] \in Seq(Event \ {"found"})
  <2>1. due[i] \in Seq(Event \ {"found"})
    BY DEF LInv
  <2>2. Append(due[i], e) \in Seq(Event \ {"found"})
    BY <2>1, AppendProperties
  <2>3. QED
    BY <2>1, <2>2 DEF BothNotice
<1>5. QED
  BY <1>2, <1>3, <1>4

\* A connection is only made when there is none, and a disconnection or the loss
\* of the link ends one there is.
LEMMA LinkAir == ASSUME TInv, LInv, OnAir \/ LoseLink PROVE LInv'
<1>1. /\ UNCHANGED <<connections, crashed, stream, dead>>
      /\ link \in BOOLEAN
  BY DEF OnAir, ConnectOnAir, DisconnectOnAir, AskPasskey, PairOnAir, UpdateOnAir, LoseLink, TInv, TypeOK
<1>2. PICK e \in Event \ {"found"} : /\ BothNotice(e) /\ Fits(StateOf(link), e)
                                     /\ StateOf(link)' = Follows(StateOf(link), e)
  <2>1. CASE ConnectOnAir
    <3>1. BothNotice("connected") /\ ~link /\ link'
      BY <2>1 DEF ConnectOnAir, CanConnect
    <3>2. QED
      BY <3>1 DEF Event, Fits, Follows, StateOf
  <2>2. CASE DisconnectOnAir \/ LoseLink
    <3>1. BothNotice("disconnected") /\ link /\ ~link'
      BY <2>2 DEF DisconnectOnAir, CanDisconnect, LoseLink, LInv, OverLink
    <3>2. QED
      BY <3>1 DEF Event, Fits, Follows, StateOf
  <2>3. CASE AskPasskey \/ PairOnAir \/ UpdateOnAir
    <3>1. link' = link /\ \E e \in {"passkey", "sec_level", "params"} : BothNotice(e)
      BY <2>3 DEF AskPasskey, PairOnAir, UpdateOnAir
    <3>2. link
      BY <2>3 DEF AskPasskey, PairOnAir, UpdateOnAir, CanAsk, CanPair, CanUpdate, LInv, OverLink
    <3>3. QED
      BY <3>1, <3>2 DEF Event, Fits, Follows, StateOf
  <2>4. QED
    BY <2>1, <2>2, <2>3 DEF OnAir
<1>3. /\ \A i \in crashed' : due'[i] = <<>>
      /\ \A i \in Iut : due'[i] \in Seq(Event \ {"found"}) /\ Leads(i)'
  BY <1>1, <1>2, LinkNotice
<1>4. \A a \in OverLink : a \in doing' => link'
  BY DEF OnAir, ConnectOnAir, DisconnectOnAir, AskPasskey, CanAsk, PairOnAir, UpdateOnAir, LoseLink,
         LInv, OverLink
<1>5. crashed' # {} => ~link'
  BY <1>1 DEF OnAir, ConnectOnAir, CanConnect, DisconnectOnAir, AskPasskey, PairOnAir, UpdateOnAir,
              LoseLink, LInv
<1>6. QED
  BY <1>1, <1>3, <1>4, <1>5 DEF LInv

\* An IUT stops, and the other notices that the link is gone.
LEMMA LinkCrash == ASSUME TInv, LInv, NEW i \in Iut, Crash(i) PROVE LInv'
<1>1. /\ UNCHANGED <<connections, stream, dead>>
      /\ crashed = {} /\ crashed' = {i} /\ link' = FALSE /\ doing' = {}
      /\ due' = [j \in Iut |-> IF j = i THEN <<>>
                               ELSE IF link THEN Append(due[j], "disconnected") ELSE due[j]]
      /\ due \in [Iut -> Seq(Event)] /\ link \in BOOLEAN
  BY DEF Crash, TInv, TypeOK
<1>2. ASSUME NEW j \in Iut
      PROVE  Leads(j)'
  <2>1. PICK noticed \in State :
           /\ Course(stream[j], StateOf(connections[j]), noticed)
           /\ Course(due[j], noticed, StateOf(link))
    BY <1>1 DEF LInv, Leads
  <2>2. CASE j = i
    BY <1>1, <2>1, <2>2 DEF Leads
  <2>3. CASE j # i /\ link
    <3>1. due'[j] = Append(due[j], "disconnected") /\ due[j] \in Seq(Event) /\ "disconnected" \in Event
      BY <1>1, <2>3 DEF Event
    <3>2. Fits(StateOf(link), "disconnected") /\ Follows(StateOf(link), "disconnected") = StateOf(FALSE)
      BY <2>3 DEF Fits, Follows, StateOf
    <3>3. Course(Append(due[j], "disconnected"), noticed, Follows(StateOf(link), "disconnected"))
      BY <2>1, <3>1, <3>2, CourseGrows
    <3>4. Course(due'[j], noticed, StateOf(FALSE))
      BY <3>1, <3>2, <3>3
    <3>5. QED
      BY <1>1, <2>1, <3>4 DEF Leads
  <2>4. CASE j # i /\ ~link
    <3>1. due'[j] = due[j] /\ link = FALSE
      BY <1>1, <2>4
    <3>2. QED
      BY <1>1, <2>1, <3>1 DEF Leads
  <2>5. QED
    BY <2>2, <2>3, <2>4
<1>3. \A j \in crashed' : due'[j] = <<>>
  BY <1>1
<1>4. ASSUME NEW j \in Iut
      PROVE  due'[j] \in Seq(Event \ {"found"})
  <2>1. due[j] \in Seq(Event \ {"found"}) /\ "disconnected" \in Event \ {"found"}
    BY DEF LInv, Event
  <2>2. Append(due[j], "disconnected") \in Seq(Event \ {"found"}) /\ <<>> \in Seq(Event \ {"found"})
    BY <2>1, AppendProperties
  <2>3. QED
    BY <1>1, <2>1, <2>2
<1>5. QED
  BY <1>1, <1>2, <1>3, <1>4 DEF LInv

\* The receive thread never has to take out a connection that is not there.
LEMMA LinkRx == ASSUME TInv, LInv, NEW i \in Iut, Rx(i) PROVE LInv'
<1>1. /\ UNCHANGED <<due, crashed, link, doing>>
      /\ stream' = [stream EXCEPT ![i] = Tail(@)] /\ stream[i] # <<>>
      /\ stream \in [Iut -> Seq(Frames)] /\ connections \in [Iut -> BOOLEAN]
  BY DEF Rx, RxResponse, ConnectedEv, DisconnectedEv, OtherEv, Notify, Receiving, TInv, TypeOK, Frames
<1>2. /\ stream'[i] = Tail(stream[i]) /\ stream[i] \in Seq(Frames)
      /\ \A j \in Iut : j # i => stream'[j] = stream[j]
  BY <1>1
<1>3. PICK noticed \in State :
         /\ Course(stream[i], StateOf(connections[i]), noticed)
         /\ i \notin crashed => Course(due[i], noticed, StateOf(link))
  BY DEF LInv, Leads
<1>4. /\ Fits(StateOf(connections[i]), Frame(i))
      /\ Course(stream'[i], Follows(StateOf(connections[i]), Frame(i)), noticed)
  <2>1. /\ Fits(StateOf(connections[i]), Head(stream[i]))
        /\ Course(Tail(stream[i]), Follows(StateOf(connections[i]), Head(stream[i])), noticed)
    BY <1>1, <1>2, <1>3, CourseShrinks
  <2>2. QED
    BY <1>2, <2>1 DEF Frame
<1>5. /\ StateOf(connections'[i]) = Follows(StateOf(connections[i]), Frame(i))
      /\ \A j \in Iut : j # i => connections'[j] = connections[j]
      /\ dead' = dead
  <2>1. CASE RxResponse(i) \/ OtherEv(i)
    <3>1. connections' = connections /\ dead' = dead /\ Frame(i) \notin {"connected", "disconnected"}
      BY <2>1 DEF RxResponse, OtherEv, Response
    <3>2. QED
      BY <3>1 DEF Follows
  <2>2. CASE ConnectedEv(i)
    <3>1. Frame(i) = "connected" /\ connections' = [connections EXCEPT ![i] = TRUE] /\ dead' = dead
      BY <2>2 DEF ConnectedEv
    <3>2. connections'[i] = TRUE /\ \A j \in Iut : j # i => connections'[j] = connections[j]
      BY <1>1, <3>1
    <3>3. QED
      BY <3>1, <3>2 DEF Follows, StateOf
  <2>3. CASE DisconnectedEv(i)
    <3>1. Frame(i) = "disconnected"
      BY <2>3 DEF DisconnectedEv
    <3>2. connections[i]
      BY <1>4, <3>1 DEF Fits, StateOf
    <3>3. connections' = [connections EXCEPT ![i] = FALSE] /\ dead' = dead
      BY <2>3, <3>2 DEF DisconnectedEv
    <3>4. connections'[i] = FALSE /\ \A j \in Iut : j # i => connections'[j] = connections[j]
      BY <1>1, <3>3
    <3>5. QED
      BY <3>1, <3>3, <3>4 DEF Follows, StateOf
  <2>4. QED
    BY <2>1, <2>2, <2>3 DEF Rx
<1>6. Course(stream'[i], StateOf(connections'[i]), noticed)
  BY <1>4, <1>5
<1>7. Leads(i)'
  BY <1>1, <1>3, <1>6 DEF Leads
<1>8. \A j \in Iut : j # i => Leads(j)'
  BY <1>1, <1>2, <1>5 DEF LInv, Leads
<1>9. QED
  BY <1>1, <1>5, <1>7, <1>8 DEF LInv

LEMMA LinkStep == TInv /\ LInv /\ [Next]_vars => LInv'
<1> SUFFICES ASSUME TInv, LInv, [Next]_vars
             PROVE  LInv'
  OBVIOUS
<1>1. CASE RunTest \/ UNCHANGED vars
  <2>1. UNCHANGED <<connections, dead, stream, due, crashed, doing, link>>
    BY <1>1 DEF RunTest, SendCommand, SkipDisconn, ReadRsp, ReadTimeout, LookUp, RegisterListener, WaitDone,
                WaitTimeout, CheckConnection, Pass, vars
  <2>2. QED
    BY <2>1 DEF LInv, Leads
<1>2. CASE \E i \in Iut : Answer(i) \/ SendEvent(i) \/ Rx(i) \/ Crash(i)
  BY <1>2, LinkAnswer, LinkSend, LinkRx, LinkCrash
<1>3. CASE Report \/ OnAir \/ LoseLink
  BY <1>3, LinkReport, LinkAir
<1>4. QED
  BY <1>1, <1>2, <1>3 DEF Next

LEMMA LInvCorrect == Spec => []LInv
BY LinkInit, LinkStep, TInvCorrect, PTL DEF Spec

\* The connections of a stack are those of its IUT whenever nothing is under
\* way, and no connection is removed that is not there, whatever the order of
\* connections, losses and reconnections and however late they are heard of.
THEOREM ConnectionsFollowLinkCorrect == Spec => []ConnectionsFollowLink
<1>1. TInv /\ LInv => ConnectionsFollowLink
  <2> SUFFICES ASSUME TInv, LInv, NEW i \in Iut \ crashed
               PROVE  i \notin dead /\ (stream[i] = <<>> /\ due[i] = <<>> => connections[i] = link)
    BY DEF ConnectionsFollowLink
  <2>1. PICK noticed \in State :
           /\ Course(stream[i], StateOf(connections[i]), noticed)
           /\ Course(due[i], noticed, StateOf(link))
    BY DEF LInv, Leads
  <2>2. ASSUME stream[i] = <<>>, due[i] = <<>>
        PROVE  connections[i] = link
    <3>1. StateOf(connections[i]) = StateOf(link)
      BY <2>1, <2>2, CourseEmpty
    <3>2. connections[i] \in BOOLEAN /\ link \in BOOLEAN
      BY DEF TInv, TypeOK
    <3>3. QED
      BY <3>1, <3>2 DEF StateOf
  <2>3. QED
    BY <2>2 DEF LInv
<1>2. QED
  BY <1>1, TInvCorrect, LInvCorrect, PTL

-----------------------------------------------------------------------------
\* How the tests are made: both IUTs' listeners are registered right before the
\* connection is asked for and waited for right after it, and whatever a test
\* asserts, or a scan it stops, comes when it has waited and registered nothing.
IsConn(s) == s.do = "command" /\ s.what = "conn"
Hears(s, i) == s.do = "register" /\ s.iut = i /\ s.what = "connected"
Settled(s) == s.do \in {"wait", "assert"} \/ (s.do = "command" /\ s.what = "stop_discov")
Denies(s, i) == s.do = "assert" /\ s.iut = i /\ s.what = "disconnected"

ConnectsAt(p, k) ==
    /\ k - 2 \in 1 .. Len(p) /\ Hears(p[k - 2], "central")
    /\ k - 1 \in 1 .. Len(p) /\ Hears(p[k - 1], "peripheral")
    /\ k + 1 \in 1 .. Len(p) /\ p[k + 1].do = "wait"

SettledAt(p, k) == k - 1 \in 1 .. Len(p) /\ Settled(p[k - 1])

Procedure ==
    {p \in Seq(AllStep) :
        \A k \in 1 .. Len(p) :
            /\ IsConn(p[k]) => ConnectsAt(p, k)
            /\ Settled(p[k]) /\ p[k].do # "wait" => SettledAt(p, k)}

LEMMA ProcedureTyped == \A p \in Procedure : p \in Seq(AllStep)
BY DEF Procedure

LEMMA ProceduresJoined ==
    ASSUME NEW s \in Procedure, NEW t \in Procedure
    PROVE  s \o t \in Procedure
<1>1. s \in Seq(AllStep) /\ t \in Seq(AllStep)
  BY ProcedureTyped
<1>2. PICK p : p = s \o t
  OBVIOUS
<1>3. PICK m, n : m = Len(s) /\ n = Len(t)
  OBVIOUS
<1>4. /\ p \in Seq(AllStep) /\ m \in Nat /\ n \in Nat /\ Len(p) = m + n
      /\ \A k \in 1 .. m : p[k] = s[k]
      /\ \A k \in 1 .. n : p[m + k] = t[k]
  <2>1. /\ s \o t \in Seq(AllStep) /\ Len(s \o t) = Len(s) + Len(t)
        /\ Len(s) \in Nat /\ Len(t) \in Nat
        /\ \A k \in 1 .. Len(s) + Len(t) : (s \o t)[k] = IF k <= Len(s) THEN s[k] ELSE t[k - Len(s)]
    BY <1>1, ConcatProperties
  <2>2. /\ \A k \in 1 .. m : k \in 1 .. m + n /\ k <= m
        /\ \A k \in 1 .. n : m + k \in 1 .. m + n /\ ~(m + k <= m) /\ (m + k) - m = k
    BY <1>3, <2>1
  <2>3. QED
    BY <1>2, <1>3, <2>1, <2>2
<1>5. ASSUME NEW k \in 1 .. Len(p)
      PROVE  /\ IsConn(p[k]) => ConnectsAt(p, k)
             /\ Settled(p[k]) /\ p[k].do # "wait" => SettledAt(p, k)
  <2>1. CASE k \in 1 .. m
    <3>1. /\ IsConn(s[k]) => ConnectsAt(s, k)
          /\ Settled(s[k]) /\ s[k].do # "wait" => SettledAt(s, k)
      BY <1>3, <2>1 DEF Procedure
    <3>2. \A j \in 1 .. Len(s) : j \in 1 .. Len(p) /\ p[j] = s[j]
      BY <1>3, <1>4
    <3>3. ConnectsAt(s, k) => ConnectsAt(p, k)
      BY <3>2 DEF ConnectsAt
    <3>4. SettledAt(s, k) => SettledAt(p, k)
      BY <3>2 DEF SettledAt
    <3>5. p[k] = s[k]
      BY <1>4, <2>1
    <3>6. QED
      BY <3>1, <3>3, <3>4, <3>5
  <2>2. CASE k \notin 1 .. m
    <3>1. PICK l \in 1 .. n : k = m + l
      <4>1. k - m \in 1 .. n /\ k = m + (k - m)
        BY <1>4, <2>2
      <4>2. QED
        BY <4>1
    <3>2. /\ IsConn(t[l]) => ConnectsAt(t, l)
          /\ Settled(t[l]) /\ t[l].do # "wait" => SettledAt(t, l)
      BY <1>3, <3>1 DEF Procedure
    <3>3. \A j \in 1 .. Len(t) : m + j \in 1 .. Len(p) /\ p[m + j] = t[j]
      BY <1>3, <1>4
    <3>4. k - 2 = m + (l - 2) /\ k - 1 = m + (l - 1) /\ k + 1 = m + (l + 1)
      BY <1>4, <3>1
    <3>5. ConnectsAt(t, l) => ConnectsAt(p, k)
      BY <3>3, <3>4 DEF ConnectsAt
    <3>6. SettledAt(t, l) => SettledAt(p, k)
      BY <3>3, <3>4 DEF SettledAt
    <3>7. p[k] = t[l]
      BY <1>4, <3>1
    <3>8. QED
      BY <3>2, <3>5, <3>6, <3>7
  <2>3. QED
    BY <2>1, <2>2
<1>6. QED
  BY <1>2, <1>4, <1>5 DEF Procedure

\* One step that needs nothing before it.
LEMMA OneProcedure ==
    ASSUME NEW s \in AllStep, ~IsConn(s), Settled(s) => s.do = "wait"
    PROVE  <<s>> \in Procedure
<1>1. PICK p : p = <<s>>
  OBVIOUS
<1>2. p \in Seq(AllStep) /\ \A k \in 1 .. Len(p) : p[k] = s
  BY <1>1
<1>3. QED
  BY <1>1, <1>2 DEF Procedure

\* A sequence and one more step.
LEMMA LastStep ==
    ASSUME NEW p \in Seq(AllStep), NEW s \in AllStep, NEW q, q = p \o <<s>>
    PROVE  /\ q \in Seq(AllStep) /\ Len(q) = Len(p) + 1 /\ Len(p) \in Nat
           /\ q[Len(q)] = s /\ q[Len(p) + 1] = s
           /\ \A k \in 1 .. Len(p) : k \in 1 .. Len(q) /\ q[k] = p[k]
<1>1. <<s>> \in Seq(AllStep) /\ Len(<<s>>) = 1 /\ <<s>>[1] = s
  OBVIOUS
<1>2. PICK n : n = Len(p)
  OBVIOUS
<1>3. /\ p \o <<s>> \in Seq(AllStep) /\ Len(p \o <<s>>) = n + 1 /\ n \in Nat
      /\ \A k \in 1 .. n + 1 :
             (p \o <<s>>)[k] = IF k <= n THEN p[k] ELSE <<s>>[k - n]
  BY <1>1, <1>2, ConcatProperties
<1>4. /\ n + 1 \in 1 .. n + 1 /\ ~(n + 1 <= n) /\ (n + 1) - n = 1
      /\ \A k \in 1 .. n : k \in 1 .. n + 1 /\ k <= n
  BY <1>3
<1>5. QED
  BY <1>1, <1>2, <1>3, <1>4

\* One more step that comes when the test has waited.
Ready == {p \in Procedure : Len(p) # 0 /\ Settled(p[Len(p)])}

LEMMA SettledProcedure ==
    ASSUME NEW p \in Ready, NEW s \in AllStep, ~IsConn(s), Settled(s)
    PROVE  p \o <<s>> \in Ready
<1>1. PICK n, q : n = Len(p) /\ q = p \o <<s>>
  OBVIOUS
<1>2. p \in Procedure /\ p \in Seq(AllStep) /\ n # 0 /\ Settled(p[n])
  BY <1>1, ProcedureTyped DEF Ready
<1>3. /\ q \in Seq(AllStep) /\ n \in Nat \ {0} /\ Len(q) = n + 1 /\ q[n + 1] = s
      /\ \A k \in 1 .. n : q[k] = p[k]
  BY <1>1, <1>2, LastStep
<1>4. ASSUME NEW k \in 1 .. Len(q)
      PROVE  /\ IsConn(q[k]) => ConnectsAt(q, k)
             /\ Settled(q[k]) /\ q[k].do # "wait" => SettledAt(q, k)
  <2>1. \A j \in 1 .. Len(p) : j \in 1 .. Len(q) /\ q[j] = p[j]
    BY <1>1, <1>3
  <2>2. CASE k \in 1 .. n
    <3>1. /\ IsConn(p[k]) => ConnectsAt(p, k)
          /\ Settled(p[k]) /\ p[k].do # "wait" => SettledAt(p, k)
      BY <1>1, <1>2, <2>2 DEF Procedure
    <3>2. (ConnectsAt(p, k) => ConnectsAt(q, k)) /\ (SettledAt(p, k) => SettledAt(q, k))
      BY <2>1 DEF ConnectsAt, SettledAt
    <3>3. QED
      BY <1>3, <2>2, <3>1, <3>2
  <2>3. CASE k = n + 1
    <3>1. k - 1 = n /\ n \in 1 .. Len(q) /\ q[n] = p[n]
      BY <1>1, <1>3, <2>1, <2>3
    <3>2. SettledAt(q, k)
      BY <1>2, <3>1 DEF SettledAt
    <3>3. QED
      BY <1>3, <2>3, <3>2
  <2>4. QED
    BY <1>3, <2>2, <2>3
<1>5. q \in Procedure /\ Len(q) # 0 /\ Settled(q[Len(q)])
  BY <1>3, <1>4 DEF Procedure
<1>6. QED
  BY <1>1, <1>5 DEF Ready

\* A wait may come at any time.
LEMMA WaitProcedure ==
    ASSUME NEW p \in Procedure
    PROVE  p \o WaitFutures \in Ready
<1>1. PICK w : w = Step("wait", "none", "none")
  OBVIOUS
<1>2. w \in AllStep /\ w.do = "wait" /\ WaitFutures = <<w>>
  BY <1>1 DEF Step, AllStep, WaitFutures
<1>3. ~IsConn(w) /\ Settled(w)
  BY <1>2 DEF IsConn, Settled
<1>4. <<w>> \in Procedure
  BY <1>2, <1>3, OneProcedure
<1>5. p \o <<w>> \in Procedure
  BY <1>4, ProceduresJoined
<1>6. PICK q : q = p \o <<w>>
  OBVIOUS
<1>7. Len(q) # 0 /\ Settled(q[Len(q)])
  BY <1>2, <1>3, <1>6, ProcedureTyped, LastStep
<1>8. QED
  BY <1>2, <1>5, <1>6, <1>7 DEF Ready

LEMMA AssertProcedure ==
    ASSUME NEW p \in Ready, NEW i \in Iut, NEW w \in {"connected", "disconnected"}
    PROVE  p \o Assert(i, w) \in Ready
<1>1. PICK s : s = Step("assert", i, w)
  OBVIOUS
<1>2. s \in AllStep /\ s.do = "assert" /\ Assert(i, w) = <<s>>
  BY <1>1 DEF Step, AllStep, Assert
<1>3. ~IsConn(s) /\ Settled(s)
  BY <1>2 DEF IsConn, Settled
<1>4. QED
  BY <1>2, <1>3, SettledProcedure

LEMMA SendProcedure ==
    ASSUME NEW i \in Iut, NEW c \in Command \ {"conn", "stop_discov"}
    PROVE  Send(i, c) \in Procedure
<1>1. PICK s : s = Step("command", i, c)
  OBVIOUS
<1>2. s \in AllStep /\ s.do = "command" /\ s.what = c /\ Send(i, c) = <<s>>
  BY <1>1 DEF Step, AllStep, Send
<1>3. ~IsConn(s) /\ ~Settled(s)
  BY <1>2 DEF IsConn, Settled
<1>4. QED
  BY <1>2, <1>3, OneProcedure

LEMMA RegisterProcedure ==
    ASSUME NEW i \in Iut, NEW e \in Event
    PROVE  Register(i, e) \in Procedure
<1>1. PICK s : s = Step("register", i, e)
  OBVIOUS
<1>2. s \in AllStep /\ s.do = "register" /\ Register(i, e) = <<s>>
  BY <1>1 DEF Step, AllStep, Register
<1>3. ~IsConn(s) /\ ~Settled(s)
  BY <1>2 DEF IsConn, Settled
<1>4. QED
  BY <1>2, <1>3, OneProcedure

LEMMA CommandProcedures ==
    ASSUME NEW i \in Iut
    PROVE  /\ gap_set_io_cap(i) \in Procedure
           /\ gap_set_conn(i) \in Procedure
           /\ gap_set_gendiscov(i) \in Procedure
           /\ gap_adv_ind_on(i) \in Procedure
           /\ gap_start_direct_adv(i) \in Procedure
           /\ gap_start_discov(i) \in Procedure
           /\ gap_disconn(i) \in Procedure
           /\ gap_pair(i) \in Procedure
           /\ gap_passkey_confirm(i) \in Procedure
           /\ gap_passkey_entry_rsp(i) \in Procedure
           /\ gap_conn_param_update(i) \in Procedure
<1>1. {"set_io_cap", "set_conn", "set_gendiscov", "start_adv", "start_direct_adv", "start_discov",
       "disconn", "pair", "passkey_rsp", "conn_param_update"} \subseteq Command \ {"conn", "stop_discov"}
  BY DEF Command
<1>2. \A c \in Command \ {"conn", "stop_discov"} : Send(i, c) \in Procedure
  BY SendProcedure
<1>3. QED
  BY <1>1, <1>2, Zenon DEF gap_set_io_cap, gap_set_conn, gap_set_gendiscov, gap_adv_ind_on,
     gap_start_direct_adv, gap_start_discov, gap_disconn, gap_pair, gap_passkey_confirm,
     gap_passkey_entry_rsp, gap_conn_param_update

LEMMA ListenerProcedures ==
    ASSUME NEW i \in Iut
    PROVE  /\ gap_device_found_ev(i) \in Procedure
           /\ gap_disconnected_ev(i) \in Procedure
           /\ gap_passkey_disp_ev(i) \in Procedure
           /\ gap_passkey_entry_req_ev(i) \in Procedure
           /\ gap_passkey_confirm_req_ev(i) \in Procedure
           /\ gap_conn_param_update_ev(i) \in Procedure
           /\ gap_sec_level_changed_ev(i) \in Procedure
<1>1. \A e \in Event : Register(i, e) \in Procedure
  BY RegisterProcedure
<1>2. QED
  BY <1>1, Zenon DEF Event, gap_device_found_ev, gap_disconnected_ev,
     gap_passkey_disp_ev, gap_passkey_entry_req_ev, gap_passkey_confirm_req_ev,
     gap_conn_param_update_ev, gap_sec_level_changed_ev

LEMMA BothProcedures ==
    /\ Both(gap_set_io_cap) \in Procedure
    /\ Both(gap_passkey_confirm) \in Procedure
    /\ Both(gap_disconnected_ev) \in Procedure
    /\ Both(gap_passkey_confirm_req_ev) \in Procedure
    /\ Both(gap_conn_param_update_ev) \in Procedure
    /\ Both(gap_sec_level_changed_ev) \in Procedure
<1>1. "central" \in Iut /\ "peripheral" \in Iut
  BY DEF Iut
<1>2. QED
  BY <1>1, CommandProcedures, ListenerProcedures, ProceduresJoined, Zenon DEF Both

\* The one place where a connection is asked for.
LEMMA ConnectProcedure == Connect \in Procedure
<1>1. PICK r1, r2, c, w :
         /\ r1 = Step("register", "central", "connected")
         /\ r2 = Step("register", "peripheral", "connected")
         /\ c = Step("command", "central", "conn")
         /\ w = Step("wait", "none", "none")
  OBVIOUS
<1>2. /\ Both(gap_connected_ev) = <<r1>> \o <<r2>>
      /\ gap_conn("central") = <<c>> /\ WaitFutures = <<w>>
  BY <1>1 DEF Both, gap_connected_ev, Register, gap_conn, Send, WaitFutures
<1>3. /\ r1 \in AllStep /\ Hears(r1, "central") /\ r1.do = "register"
      /\ r2 \in AllStep /\ Hears(r2, "peripheral") /\ r2.do = "register"
      /\ c \in AllStep /\ c.do = "command" /\ c.what = "conn"
      /\ w \in AllStep /\ w.do = "wait"
  BY <1>1 DEF Step, AllStep, Hears, Iut, Command, Event
<1>4. PICK p1, p2, p3, p : p1 = <<r1>> /\ p2 = p1 \o <<r2>> /\ p3 = p2 \o <<c>> /\ p = p3 \o <<w>>
  OBVIOUS
<1>5. p = ((<<r1>> \o <<r2>>) \o <<c>>) \o <<w>>
  BY <1>4
<1>6. /\ p \in Seq(AllStep) /\ Len(p) = 4
      /\ p[1] = r1 /\ p[2] = r2 /\ p[3] = c /\ p[4] = w
  <2>1. p1 \in Seq(AllStep) /\ Len(p1) = 1 /\ p1[1] = r1
    BY <1>3, <1>4
  <2>2. p2 \in Seq(AllStep) /\ Len(p2) = 2 /\ p2[1] = r1 /\ p2[2] = r2
    BY <1>3, <1>4, <2>1, LastStep
  <2>3. p3 \in Seq(AllStep) /\ Len(p3) = 3 /\ p3[1] = r1 /\ p3[2] = r2 /\ p3[3] = c
    BY <1>3, <1>4, <2>2, LastStep
  <2>4. QED
    BY <1>3, <1>4, <2>3, LastStep
<1>7. p \in Procedure
  <2>1. ASSUME NEW k \in 1 .. Len(p), k # 3
        PROVE  ~IsConn(p[k]) /\ (Settled(p[k]) => p[k].do = "wait")
    BY <1>3, <1>6, <2>1 DEF IsConn, Settled
  <2>2. ConnectsAt(p, 3) /\ ~Settled(p[3])
    BY <1>3, <1>6 DEF ConnectsAt, Settled
  <2>3. QED
    BY <1>6, <2>1, <2>2 DEF Procedure
<1>8. p \in Ready
  <2>1. Len(p) # 0 /\ Settled(p[Len(p)])
    BY <1>3, <1>6 DEF Settled
  <2>2. QED
    BY <1>7, <2>1 DEF Ready
<1>9. Connect = p \o Assert("central", "connected") \o Assert("peripheral", "connected")
  BY <1>2, <1>5 DEF Connect
<1>10. "central" \in Iut /\ "peripheral" \in Iut
  BY DEF Iut
<1>11. QED
  BY <1>8, <1>9, <1>10, AssertProcedure DEF Ready

LEMMA DiscoverProcedure == Discover \in Ready
<1>1. "central" \in Iut /\ "peripheral" \in Iut
  BY DEF Iut
<1>2. PICK p : p = gap_set_conn("peripheral") \o gap_set_gendiscov("peripheral")
                   \o gap_adv_ind_on("peripheral") \o gap_start_discov("central")
                   \o gap_device_found_ev("central")
  OBVIOUS
<1>3. p \in Procedure
  BY <1>1, <1>2, CommandProcedures, ListenerProcedures, ProceduresJoined, Zenon
<1>4. PICK s : s = Step("command", "central", "stop_discov")
  OBVIOUS
<1>5. /\ s \in AllStep /\ s.do = "command" /\ s.what = "stop_discov"
      /\ gap_stop_discov("central") = <<s>>
  BY <1>1, <1>4 DEF Step, AllStep, gap_stop_discov, Send, Command
<1>6. ~IsConn(s) /\ Settled(s)
  BY <1>5 DEF IsConn, Settled
<1>7. (p \o WaitFutures) \o <<s>> \in Ready
  BY <1>3, <1>5, <1>6, WaitProcedure, SettledProcedure
<1>8. QED
  BY <1>2, <1>5, <1>7 DEF Discover

\* A test that connects ends by asserting that both sides are disconnected.
EndsDenied(p) ==
    /\ Len(p) - 1 \in 1 .. Len(p) /\ Denies(p[Len(p) - 1], "peripheral")
    /\ Len(p) \in 1 .. Len(p) /\ Denies(p[Len(p)], "central")

LEMMA EndKept ==
    ASSUME NEW s \in Seq(AllStep), NEW t \in Seq(AllStep), EndsDenied(t)
    PROVE  EndsDenied(s \o t)
<1>1. PICK m, n, p : m = Len(s) /\ n = Len(t) /\ p = s \o t
  OBVIOUS
<1>2. /\ m \in Nat /\ n \in Nat /\ n - 1 \in 1 .. n /\ n \in 1 .. n
      /\ Denies(t[n - 1], "peripheral") /\ Denies(t[n], "central")
  BY <1>1 DEF EndsDenied
<1>3. /\ Len(p) = m + n
      /\ \A k \in 1 .. m + n : p[k] = IF k <= m THEN s[k] ELSE t[k - m]
  BY <1>1, ConcatProperties
<1>4. /\ m + n \in 1 .. m + n /\ (m + n) - 1 \in 1 .. m + n
      /\ ~(m + n <= m) /\ ~((m + n) - 1 <= m)
      /\ (m + n) - m = n /\ ((m + n) - 1) - m = n - 1
  BY <1>2
<1>5. p[m + n] = t[n] /\ p[(m + n) - 1] = t[n - 1]
  BY <1>3, <1>4
<1>6. QED
  BY <1>1, <1>2, <1>3, <1>4, <1>5 DEF EndsDenied

LEMMA DisconnectProcedure ==
    /\ disconnection_procedure \in Procedure
    /\ EndsDenied(disconnection_procedure)
<1>1. "central" \in Iut /\ "peripheral" \in Iut
  BY DEF Iut
<1>2. PICK p : p = Both(gap_disconnected_ev) \o gap_disconn("central") \o WaitFutures
  OBVIOUS
<1>3. p \in Ready
  BY <1>1, <1>2, CommandProcedures, BothProcedures, ProceduresJoined, WaitProcedure
<1>4. disconnection_procedure \in Procedure
  <2>1. (p \o Assert("peripheral", "disconnected")) \o Assert("central", "disconnected") \in Ready
    BY <1>1, <1>3, AssertProcedure
  <2>2. QED
    BY <1>2, <2>1 DEF Ready, disconnection_procedure
<1>5. PICK a, b : a = Step("assert", "peripheral", "disconnected") /\ b = Step("assert", "central", "disconnected")
  OBVIOUS
<1>6. /\ a \in AllStep /\ Denies(a, "peripheral") /\ b \in AllStep /\ Denies(b, "central")
      /\ Assert("peripheral", "disconnected") = <<a>> /\ Assert("central", "disconnected") = <<b>>
  BY <1>5 DEF Step, AllStep, Denies, Assert, Iut
<1>7. PICK q, r : q = p \o <<a>> /\ r = q \o <<b>>
  OBVIOUS
<1>8. p \in Seq(AllStep)
  BY <1>3, ProcedureTyped DEF Ready
<1>9. q \in Seq(AllStep) /\ Len(q) = Len(p) + 1 /\ Len(p) \in Nat /\ q[Len(q)] = a
  BY <1>6, <1>7, <1>8, LastStep
<1>10. /\ Len(r) = Len(q) + 1 /\ r[Len(r)] = b
       /\ \A k \in 1 .. Len(q) : k \in 1 .. Len(r) /\ r[k] = q[k]
  BY <1>6, <1>7, <1>9, LastStep
<1>11. Len(r) - 1 = Len(q) /\ Len(q) \in 1 .. Len(q) /\ Len(r) \in 1 .. Len(r)
  BY <1>9, <1>10
<1>12. EndsDenied(r)
  BY <1>6, <1>9, <1>10, <1>11 DEF EndsDenied
<1>13. r = disconnection_procedure
  BY <1>2, <1>6, <1>7 DEF disconnection_procedure
<1>14. QED
  BY <1>4, <1>12, <1>13

LEMMA TestProcedures ==
    /\ connection_procedure \in Procedure
    /\ \A i \in Iut : Pair(i) \in Procedure
<1>1. "central" \in Iut /\ "peripheral" \in Iut
  BY DEF Iut
<1>2. \A p \in Procedure : p \o WaitFutures \in Procedure
  BY WaitProcedure DEF Ready
<1>3. Discover \in Procedure
  BY DiscoverProcedure DEF Ready
<1>4. QED
  BY <1>1, <1>2, <1>3, ConnectProcedure, CommandProcedures, BothProcedures, ProceduresJoined, Zenon
     DEF connection_procedure, Pair

\* A test that connects: whatever it does in between, it ends in a disconnection.
LEMMA DisconnectsLast ==
    ASSUME NEW p \in Procedure
    PROVE  p \o disconnection_procedure \in Procedure /\ EndsDenied(p \o disconnection_procedure)
BY DisconnectProcedure, ProceduresJoined, ProcedureTyped, EndKept

LEMMA ParamUpdateProcedure ==
    ASSUME NEW i \in Iut
    PROVE  ParamUpdate(i) \in Procedure /\ EndsDenied(ParamUpdate(i))
<1>1. \A p \in Procedure : p \o WaitFutures \in Procedure
  BY WaitProcedure DEF Ready
<1>2. PICK p : p = connection_procedure \o gap_conn_param_update(i)
                   \o Both(gap_conn_param_update_ev) \o WaitFutures
  OBVIOUS
<1>3. p \in Procedure
  BY <1>1, <1>2, TestProcedures, CommandProcedures, BothProcedures, ProceduresJoined, Zenon
<1>4. QED
  BY <1>2, <1>3, DisconnectsLast DEF ParamUpdate

LEMMA TestsConnect ==
    /\ CONN_DCON_1 \in Procedure /\ EndsDenied(CONN_DCON_1)
    /\ CONN_PAIR_1 \in Procedure /\ EndsDenied(CONN_PAIR_1)
    /\ CONN_PAIR_2 \in Procedure /\ EndsDenied(CONN_PAIR_2)
    /\ CONN_PAIR_3 \in Procedure /\ EndsDenied(CONN_PAIR_3)
<1>1. "central" \in Iut /\ "peripheral" \in Iut
  BY DEF Iut
<1>2. \A p \in Procedure : p \o WaitFutures \in Procedure
  BY WaitProcedure DEF Ready
<1>3. CONN_DCON_1 \in Procedure /\ EndsDenied(CONN_DCON_1)
  <2>1. PICK p : p = connection_procedure \o Pair("peripheral") \o disconnection_procedure
                     \o gap_start_direct_adv("peripheral") \o Connect
    OBVIOUS
  <2>2. p \in Procedure
    BY <1>1, <2>1, TestProcedures, DisconnectProcedure, ConnectProcedure, CommandProcedures,
       ProceduresJoined, Zenon
  <2>3. QED
    BY <2>1, <2>2, DisconnectsLast DEF CONN_DCON_1
<1>4. CONN_PAIR_1 \in Procedure /\ EndsDenied(CONN_PAIR_1)
  <2>1. PICK p : p = gap_set_io_cap("peripheral") \o connection_procedure \o Pair("central")
    OBVIOUS
  <2>2. p \in Procedure
    BY <1>1, <2>1, TestProcedures, CommandProcedures, ProceduresJoined, Zenon
  <2>3. QED
    BY <2>1, <2>2, DisconnectsLast DEF CONN_PAIR_1
<1>5. CONN_PAIR_2 \in Procedure /\ EndsDenied(CONN_PAIR_2)
  <2>1. PICK p : p = Both(gap_set_io_cap) \o connection_procedure
                     \o gap_pair("central") \o Both(gap_passkey_confirm_req_ev) \o WaitFutures
                     \o Both(gap_passkey_confirm)
                     \o Both(gap_sec_level_changed_ev) \o WaitFutures
    OBVIOUS
  <2>2. p \in Procedure
    BY <1>1, <1>2, <2>1, TestProcedures, CommandProcedures, BothProcedures, ProceduresJoined, Zenon
  <2>3. QED
    BY <2>1, <2>2, DisconnectsLast DEF CONN_PAIR_2
<1>6. CONN_PAIR_3 \in Procedure /\ EndsDenied(CONN_PAIR_3)
  <2>1. PICK p : p = Both(gap_set_io_cap) \o connection_procedure
                     \o gap_pair("central")
                     \o gap_passkey_disp_ev("peripheral") \o gap_passkey_entry_req_ev("central")
                     \o WaitFutures
                     \o gap_passkey_entry_rsp("central")
                     \o Both(gap_sec_level_changed_ev) \o WaitFutures
    OBVIOUS
  <2>2. p \in Procedure
    BY <1>1, <1>2, <2>1, TestProcedures, CommandProcedures, ListenerProcedures, BothProcedures,
       ProceduresJoined, Zenon
  <2>3. QED
    BY <2>1, <2>2, DisconnectsLast DEF CONN_PAIR_3
<1>7. QED
  BY <1>3, <1>4, <1>5, <1>6

\* The test that connects to nobody.
LEMMA DiscoverConnectsNobody == \A k \in 1 .. Len(Discover) : ~IsConn(Discover[k])
<1>1. PICK S : S = {s \in AllStep : ~IsConn(s)}
  OBVIOUS
<1>2. \A s, t \in Seq(S) : s \o t \in Seq(S)
  BY ConcatProperties
<1>3. ASSUME NEW i \in Iut, NEW c \in Command \ {"conn"}
      PROVE  Send(i, c) \in Seq(S)
  <2>1. Step("command", i, c) \in S
    BY <1>1 DEF Step, AllStep, IsConn
  <2>2. QED
    BY <2>1 DEF Send
<1>4. Register("central", "found") \in Seq(S) /\ WaitFutures \in Seq(S)
  <2>1. Step("register", "central", "found") \in S /\ Step("wait", "none", "none") \in S
    BY <1>1 DEF Step, AllStep, IsConn, Iut, Event
  <2>2. QED
    BY <2>1 DEF Register, WaitFutures
<1>5. /\ Send("peripheral", "set_conn") \in Seq(S) /\ Send("peripheral", "set_gendiscov") \in Seq(S)
      /\ Send("peripheral", "start_adv") \in Seq(S) /\ Send("central", "start_discov") \in Seq(S)
      /\ Send("central", "stop_discov") \in Seq(S)
  BY <1>3 DEF Iut, Command
<1>6. Discover \in Seq(S)
  BY <1>2, <1>4, <1>5, Zenon DEF Discover, gap_set_conn, gap_set_gendiscov, gap_adv_ind_on,
     gap_start_discov, gap_device_found_ev, gap_stop_discov
<1>7. QED
  BY <1>1, <1>6

\* Every test is such a procedure, and none ends before it has waited.
LEMMA ProgramShaped ==
    ASSUME NEW t \in Test
    PROVE  /\ Program(t) \in Procedure
           /\ Len(Program(t)) \in 1 .. Len(Program(t)) /\ Settled(Program(t)[Len(Program(t))])
           /\ IF t = "DISC_GENM_1"
              THEN \A k \in 1 .. Len(Program(t)) : ~IsConn(Program(t)[k])
              ELSE EndsDenied(Program(t))
<1>1. CASE t = "DISC_GENM_1"
  <2>1. Program(t) = Discover
    BY <1>1 DEF Program
  <2>2. Discover \in Procedure /\ Len(Discover) # 0 /\ Settled(Discover[Len(Discover)])
    BY DiscoverProcedure DEF Ready
  <2>3. Len(Discover) \in Nat
    BY <2>2, ProcedureTyped
  <2>4. QED
    BY <1>1, <2>1, <2>2, <2>3, DiscoverConnectsNobody
<1>2. CASE t # "DISC_GENM_1"
  <2>1. /\ connection_procedure \o disconnection_procedure \in Procedure
        /\ EndsDenied(connection_procedure \o disconnection_procedure)
    BY TestProcedures, DisconnectsLast
  <2>2. \A i \in Iut : ParamUpdate(i) \in Procedure /\ EndsDenied(ParamUpdate(i))
    BY ParamUpdateProcedure
  <2>3. Program(t) \in Procedure /\ EndsDenied(Program(t))
    BY <1>2, <2>1, <2>2, TestsConnect, TestAssumption DEF Program, Iut
  <2>4. QED
    BY <1>2, <2>3 DEF EndsDenied, Denies, Settled
<1>3. QED
  BY <1>1, <1>2

-----------------------------------------------------------------------------
\* A connection is under way from the command that asks for it to the event each
\* stack hears of it by.
Coming(c, frames) == \E k \in 1 .. Len(frames) : frames[k] = c

Once(c, frames) ==
    \A j, k \in 1 .. Len(frames) : frames[j] = c /\ frames[k] = c => j = k

Pends(x) == \E j \in Iut : x \in pending[j]

Heading(i) == Pends("conn") \/ "connecting" \in doing \/ Coming("connected", stream[i]) \/ Coming("connected", due[i])

\* Never two at a time.
OneConnection(i) ==
    /\ Pends("conn") => "connecting" \notin doing /\ ~Coming("connected", stream[i]) /\ ~Coming("connected", due[i])
    /\ "connecting" \in doing => ~Coming("connected", stream[i]) /\ ~Coming("connected", due[i])
    /\ Coming("connected", stream[i]) => ~Coming("connected", due[i])
    /\ Once("connected", stream[i]) /\ Once("connected", due[i])

\* The test is at the command that connects, or waits for it to be heard.
Connecting ==
    \/ ~ended /\ IsConn(step) /\ sent
    \/ pc - 1 \in 1 .. Len(Program(test)) /\ IsConn(Program(test)[pc - 1])

Expected(i) == Heading(i) => Connecting /\ "connected" \in listeners[i]

ListensFirst ==
    /\ ~ended /\ IsConn(step) /\ ~sent => \A i \in Iut : "connected" \in listeners[i]
    /\ pc + 1 \in 1 .. Len(Program(test)) /\ IsConn(Program(test)[pc + 1]) =>
           "connected" \in listeners["central"]

HasWaited ==
    pc - 1 \in 1 .. Len(Program(test)) /\ Settled(Program(test)[pc - 1]) => AllDone

HasDenied ==
    IF test = "DISC_GENM_1" THEN \A i \in Iut : ~connections[i]
    ELSE /\ pc >= Len(Program(test)) => ~connections["peripheral"]
         /\ pc > Len(Program(test)) => ~connections["central"]

Tidy ==
    /\ \A i \in Iut : OneConnection(i) /\ Expected(i)
    /\ ListensFirst /\ HasWaited /\ HasDenied

CInv ==
    /\ outcome \in {"running", "passed"} => Tidy
    /\ outcome = "passed" => ended /\ \A i \in Iut : ~Responding(i)

\* A frame more and a frame less.
LEMMA ComingGrows ==
    ASSUME NEW S, NEW s \in Seq(S), NEW e \in S, NEW c
    PROVE  /\ Coming(c, Append(s, e)) <=> Coming(c, s) \/ e = c
           /\ Once(c, s) /\ (e = c => ~Coming(c, s)) => Once(c, Append(s, e))
<1>1. PICK n, t : n = Len(s) /\ t = Append(s, e)
  OBVIOUS
<1>2. /\ n \in Nat /\ Len(t) = n + 1 /\ t[n + 1] = e
      /\ \A k \in 1 .. n : t[k] = s[k]
      /\ \A k \in 1 .. n + 1 : k \in 1 .. n \/ k = n + 1
      /\ \A k \in 1 .. n : k \in 1 .. n + 1
      /\ n + 1 \in 1 .. n + 1
  BY <1>1, AppendProperties
<1>3. Coming(c, t) <=> Coming(c, s) \/ e = c
  BY <1>1, <1>2 DEF Coming
<1>4. ASSUME Once(c, s), e = c => ~Coming(c, s)
      PROVE  Once(c, t)
  <2> SUFFICES ASSUME NEW j \in 1 .. n + 1, NEW k \in 1 .. n + 1, t[j] = c, t[k] = c
               PROVE  j = k
    BY <1>2 DEF Once
  <2>1. CASE j \in 1 .. n /\ k \in 1 .. n
    BY <1>1, <1>2, <1>4, <2>1 DEF Once
  <2>2. CASE j = n + 1 /\ k = n + 1
    BY <2>2
  <2>3. CASE (j = n + 1 /\ k \in 1 .. n) \/ (k = n + 1 /\ j \in 1 .. n)
    BY <1>1, <1>2, <1>4, <2>3 DEF Coming
  <2>4. QED
    BY <1>2, <2>1, <2>2, <2>3
<1>5. QED
  BY <1>1, <1>3, <1>4

LEMMA ComingShrinks ==
    ASSUME NEW S, NEW s \in Seq(S), s # <<>>, NEW c
    PROVE  /\ Coming(c, s) <=> Coming(c, Tail(s)) \/ Head(s) = c
           /\ Once(c, s) => Once(c, Tail(s)) /\ (Head(s) = c => ~Coming(c, Tail(s)))
<1>1. PICK n, t : n = Len(s) /\ t = Tail(s)
  OBVIOUS
<1>2. /\ n \in Nat \ {0} /\ Len(t) = n - 1 /\ Head(s) = s[1] /\ 1 \in 1 .. n
      /\ \A k \in 1 .. n - 1 : t[k] = s[k + 1] /\ k + 1 \in 1 .. n /\ k + 1 # 1
      /\ \A k \in 1 .. n : k = 1 \/ (k - 1 \in 1 .. n - 1 /\ (k - 1) + 1 = k)
      /\ \A j, k \in 1 .. n - 1 : j + 1 = k + 1 => j = k
  BY <1>1
<1>3. Coming(c, t) => Coming(c, s)
  BY <1>1, <1>2 DEF Coming
<1>4. Head(s) = c => Coming(c, s)
  BY <1>1, <1>2 DEF Coming
<1>5. ASSUME Coming(c, s), Head(s) # c
      PROVE  Coming(c, t)
  <2>1. PICK k \in 1 .. n : s[k] = c
    BY <1>1, <1>5 DEF Coming
  <2>2. k - 1 \in 1 .. n - 1 /\ t[k - 1] = s[k]
    BY <1>2, <1>5, <2>1
  <2>3. QED
    BY <1>2, <2>1, <2>2 DEF Coming
<1>6. ASSUME Once(c, s)
      PROVE  Once(c, t) /\ (Head(s) = c => ~Coming(c, t))
  <2>1. Once(c, t)
    BY <1>1, <1>2, <1>6 DEF Once
  <2>2. Head(s) = c => ~Coming(c, t)
    BY <1>1, <1>2, <1>6 DEF Once, Coming
  <2>3. QED
    BY <2>1, <2>2
<1>7. QED
  BY <1>1, <1>3, <1>4, <1>5, <1>6

\* Where the test can be while a connection is under way.
LEMMA ConnectingWhere ==
    ASSUME TInv, Connecting
    PROVE  /\ test # "DISC_GENM_1" /\ pc < Len(Program(test)) /\ ~ended
           /\ step.do = "wait" \/ (IsConn(step) /\ sent)
           /\ ~(pc + 1 \in 1 .. Len(Program(test)) /\ IsConn(Program(test)[pc + 1]))
<1>1. PICK p : p = Program(test)
  OBVIOUS
<1>2. PICK n : n = Len(p)
  OBVIOUS
<1>3. /\ p \in Procedure /\ n \in Nat /\ pc \in 1 .. n + 1
      /\ IF test = "DISC_GENM_1" THEN \A k \in 1 .. n : ~IsConn(p[k]) ELSE EndsDenied(p)
  <2>1. test \in Test /\ pc \in 1 .. Len(Program(test)) + 1
    BY DEF TInv, TypeOK
  <2>2. QED
    BY <1>1, <1>2, <2>1, ProgramShaped, ProcedureTyped
<1>4. PICK k \in 1 .. n : IsConn(p[k]) /\ ((k = pc /\ sent) \/ k = pc - 1)
  BY <1>1, <1>2, <1>3 DEF Connecting, ended, step
<1>5. test # "DISC_GENM_1" /\ EndsDenied(p)
  BY <1>3, <1>4
<1>6. k + 1 \in 1 .. n /\ p[k + 1].do = "wait" /\ p[k].do = "command"
  BY <1>2, <1>3, <1>4 DEF Procedure, ConnectsAt, IsConn
<1>7. p[n].do = "assert" /\ p[n - 1].do = "assert" /\ n - 1 \in 1 .. n
  BY <1>2, <1>5 DEF EndsDenied, Denies
<1>8. k + 1 # n
  BY <1>6, <1>7
<1>9. pc < n /\ pc \in 1 .. n
  BY <1>3, <1>4, <1>6, <1>8
<1>10. step.do = "wait" \/ (IsConn(step) /\ sent)
  <2>1. CASE k = pc /\ sent
    BY <1>1, <1>4, <2>1 DEF step
  <2>2. CASE k = pc - 1
    <3>1. k + 1 = pc
      BY <1>3, <2>2
    <3>2. QED
      BY <1>1, <1>6, <3>1 DEF step
  <2>3. QED
    BY <1>4, <2>1, <2>2
<1>11. ASSUME pc + 1 \in 1 .. n, IsConn(p[pc + 1])
       PROVE  FALSE
  <2>1. p[(pc + 1) - 1].do = "register"
    BY <1>2, <1>3, <1>11 DEF Procedure, ConnectsAt, Hears
  <2>2. (pc + 1) - 1 = pc
    BY <1>3
  <2>3. step.do = "register"
    BY <1>1, <2>1, <2>2 DEF step
  <2>4. QED
    BY <1>10, <2>3 DEF IsConn
<1>12. QED
  BY <1>1, <1>2, <1>5, <1>9, <1>10, <1>11 DEF ended

LEMMA TidyInit == Init => CInv
<1> SUFFICES ASSUME Init
             PROVE  CInv
  OBVIOUS
<1>1. TInv
  BY TypeInit
<1>2. PICK p, n : p = Program(test) /\ n = Len(p)
  OBVIOUS
<1>3. /\ p \in Procedure /\ n \in Nat /\ n # 0 /\ pc = 1
      /\ IF test = "DISC_GENM_1" THEN \A k \in 1 .. n : ~IsConn(p[k]) ELSE EndsDenied(p)
  BY <1>2, ProgramShaped, ProcedureTyped DEF Init
<1>4. \A i \in Iut : OneConnection(i) /\ ~Heading(i)
  <2>1. \A i \in Iut : stream[i] = <<>> /\ due[i] = <<>> /\ pending[i] = {} /\ doing = {}
    BY DEF Init
  <2>2. Len(<<>>) = 0
    OBVIOUS
  <2>3. \A i \in Iut : ~Coming("connected", stream[i]) /\ ~Coming("connected", due[i]) /\ Once("connected", stream[i]) /\ Once("connected", due[i])
    BY <2>1, <2>2 DEF Coming, Once
  <2>4. ~Pends("conn") /\ "connecting" \notin doing
    BY <2>1 DEF Pends, Init
  <2>5. QED
    BY <2>3, <2>4 DEF OneConnection, Heading
<1>5. \A k \in 1 .. n : IsConn(p[k]) => k > 2
  BY <1>2, <1>3 DEF Procedure, ConnectsAt
<1>6. ListensFirst
  BY <1>2, <1>3, <1>5 DEF ListensFirst, ended, step
<1>7. HasWaited
  BY <1>3 DEF HasWaited
<1>8. HasDenied
  BY DEF HasDenied, Init, Iut
<1>9. QED
  BY <1>4, <1>6, <1>7, <1>8 DEF CInv, Tidy, Expected, Init


\* A step that starts no connection and leaves the test and the stacks alone.
LEMMA TidyKept ==
    ASSUME Tidy, UNCHANGED <<test, pc, sent, listeners, connections>>,
           \A i \in Iut : OneConnection(i)' /\ (Heading(i)' => Heading(i))
    PROVE  Tidy'
<1>1. \A i \in Iut : Expected(i)'
  BY DEF Tidy, Expected, Connecting, ended, step
<1>2. ListensFirst' /\ HasWaited' /\ HasDenied'
  BY DEF Tidy, ListensFirst, HasWaited, HasDenied, AllDone, ended, step
<1>3. QED
  BY <1>1, <1>2 DEF Tidy

LEMMA TidyAnswer == ASSUME TInv, Tidy, NEW i \in Iut, Answer(i) PROVE Tidy'
<1>1. /\ UNCHANGED <<test, pc, sent, listeners, connections, due>>
      /\ pending' = [pending EXCEPT ![i] = {}] /\ pending[i] # {} /\ outcome = "running"
      /\ stream \in [Iut -> Seq(Frames)]
  BY DEF Answer, TInv, TypeOK, Frames
<1>2. PICK c \in pending[i], r \in Response :
         /\ stream' = [stream EXCEPT ![i] = Append(@, r)]
         /\ doing' \in {doing, doing \ {"scanning"}, doing \cup Begun(c)}
  BY DEF Answer, Response
<1>3. ~Pends("conn")'
  <2>1. \A j \in Iut : pending[j] # {} => j = i
    BY <1>1 DEF TInv, Awaited, Owed
  <2>2. \A j \in Iut : pending'[j] = {}
    BY <1>1, <2>1 DEF TInv, TypeOK
  <2>3. QED
    BY <2>2 DEF Pends
<1>4. "connecting" \in doing' => "connecting" \in doing \/ Pends("conn")
  BY <1>2 DEF Begun, Pends
<1>5. ASSUME NEW j \in Iut
      PROVE  Coming("connected", stream'[j]) = Coming("connected", stream[j]) /\ (Once("connected", stream[j]) => Once("connected", stream'[j]))
  <2>1. CASE j = i
    <3>1. stream'[i] = Append(stream[i], r) /\ stream[i] \in Seq(Frames) /\ r \in Frames /\ r # "connected"
      BY <1>1, <1>2 DEF Frames, Response
    <3>2. (Coming("connected", Append(stream[i], r)) <=> Coming("connected", stream[i])) /\ (Once("connected", stream[i]) => Once("connected", Append(stream[i], r)))
      BY <3>1, ComingGrows
    <3>3. QED
      BY <2>1, <3>1, <3>2 DEF Coming
  <2>2. CASE j # i
    BY <1>1, <1>2, <2>2
  <2>3. QED
    BY <2>1, <2>2
<1>6. ASSUME NEW j \in Iut
      PROVE  OneConnection(j)' /\ (Heading(j)' => Heading(j))
  BY <1>1, <1>3, <1>4, <1>5 DEF Tidy, OneConnection, Heading
<1>7. QED
  BY <1>1, <1>6, TidyKept

LEMMA TidyReport == ASSUME TInv, Tidy, Report PROVE Tidy'
<1>1. /\ UNCHANGED <<test, pc, sent, listeners, connections, due, doing, pending>>
      /\ stream' = [stream EXCEPT !["central"] = Append(@, "found")]
      /\ stream \in [Iut -> Seq(Frames)] /\ "central" \in Iut /\ "found" \in Frames
  BY DEF Report, TInv, TypeOK, Frames, Event, Iut
<1>2. ASSUME NEW j \in Iut
      PROVE  Coming("connected", stream'[j]) = Coming("connected", stream[j]) /\ (Once("connected", stream[j]) => Once("connected", stream'[j]))
  <2>1. CASE j = "central"
    <3>1. stream'[j] = Append(stream[j], "found") /\ stream[j] \in Seq(Frames)
      BY <1>1, <2>1
    <3>2. (Coming("connected", Append(stream[j], "found")) <=> Coming("connected", stream[j]))
          /\ (Once("connected", stream[j]) => Once("connected", Append(stream[j], "found")))
      BY <1>1, <3>1, ComingGrows
    <3>3. QED
      BY <3>1, <3>2 DEF Coming
  <2>2. CASE j # "central"
    BY <1>1, <2>2
  <2>3. QED
    BY <2>1, <2>2
<1>3. Pends("conn")' = Pends("conn")
  BY <1>1 DEF Pends
<1>4. ASSUME NEW j \in Iut
      PROVE  OneConnection(j)' /\ (Heading(j)' => Heading(j))
  BY <1>1, <1>2, <1>3 DEF Tidy, OneConnection, Heading
<1>5. QED
  BY <1>1, <1>4, TidyKept

LEMMA TidySend == ASSUME TInv, Tidy, NEW i \in Iut, SendEvent(i) PROVE Tidy'
<1>1. /\ UNCHANGED <<test, pc, sent, listeners, connections, doing, pending>>
      /\ stream' = [stream EXCEPT ![i] = Append(@, Head(due[i]))]
      /\ due' = [due EXCEPT ![i] = Tail(@)] /\ due[i] # <<>>
      /\ stream \in [Iut -> Seq(Frames)] /\ due \in [Iut -> Seq(Event)]
  BY DEF SendEvent, TInv, TypeOK, Frames
<1>2. Pends("conn")' = Pends("conn")
  BY <1>1 DEF Pends
<1>3. ASSUME NEW j \in Iut
      PROVE  OneConnection(j)' /\ (Heading(j)' => Heading(j))
  <2>1. CASE j # i
    <3>1. stream'[j] = stream[j] /\ due'[j] = due[j]
      BY <1>1, <2>1
    <3>2. QED
      BY <1>1, <1>2, <3>1 DEF Tidy, OneConnection, Heading
  <2>2. CASE j = i
    <3>1. PICK e, less : e = Head(due[i]) /\ less = Tail(due[i])
      OBVIOUS
    <3>2. e \in Frames /\ stream[i] \in Seq(Frames) /\ due[i] \in Seq(Event)
      BY <1>1, <3>1 DEF Frames
    <3>3. stream'[i] = Append(stream[i], e) /\ due'[i] = less
      BY <1>1, <3>1
    <3>4. /\ Coming("connected", due[i]) <=> Coming("connected", less) \/ e = "connected"
          /\ Once("connected", due[i]) => Once("connected", less) /\ (e = "connected" => ~Coming("connected", less))
      BY <1>1, <3>1, <3>2, ComingShrinks
    <3>5. /\ Coming("connected", stream'[i]) <=> Coming("connected", stream[i]) \/ e = "connected"
          /\ Once("connected", stream[i]) /\ (e = "connected" => ~Coming("connected", stream[i])) => Once("connected", stream'[i])
      BY <3>2, <3>3, ComingGrows
    <3>6. Coming("connected", due'[i]) = Coming("connected", less) /\ Once("connected", due'[i]) = Once("connected", less)
      BY <3>3
    <3>7. OneConnection(i)
      BY DEF Tidy
    <3>8. OneConnection(i)' /\ (Heading(i)' => Heading(i))
      BY <1>1, <1>2, <3>4, <3>5, <3>6, <3>7 DEF OneConnection, Heading
    <3>9. QED
      BY <2>2, <3>8
  <2>3. QED
    BY <2>1, <2>2
<1>4. QED
  BY <1>1, <1>3, TidyKept

\* What happens on the air: the one connection that was asked for is made, and
\* nothing else makes one.
LEMMA TidyAir == ASSUME TInv, Tidy, OnAir \/ LoseLink \/ \E i \in Iut : Crash(i) PROVE Tidy'
<1>1. /\ UNCHANGED <<test, pc, sent, listeners, connections, pending, stream>>
      /\ due \in [Iut -> Seq(Event)]
  BY DEF OnAir, ConnectOnAir, DisconnectOnAir, AskPasskey, PairOnAir, UpdateOnAir, LoseLink, Crash,
         TInv, TypeOK
<1>2. Pends("conn")' = Pends("conn")
  BY <1>1 DEF Pends
<1>3. \A e \in Event : \A i \in Iut :
          /\ Coming("connected", Append(due[i], e)) <=> Coming("connected", due[i]) \/ e = "connected"
          /\ Once("connected", due[i]) /\ (e = "connected" => ~Coming("connected", due[i])) => Once("connected", Append(due[i], e))
  BY <1>1, ComingGrows
<1>4. CASE ConnectOnAir
  <2>1. BothNotice("connected") /\ "connecting" \in doing /\ "connecting" \notin doing'
    BY <1>4 DEF ConnectOnAir, CanConnect
  <2>2. ASSUME NEW i \in Iut
        PROVE  OneConnection(i)' /\ (Heading(i)' => Heading(i))
    <3>1. due'[i] \in {due[i], Append(due[i], "connected")} /\ "connected" \in Event
      BY <2>1 DEF BothNotice, Event
    <3>2. ~Pends("conn") /\ ~Coming("connected", stream[i]) /\ ~Coming("connected", due[i]) /\ Once("connected", due[i]) /\ Once("connected", stream[i]) /\ Heading(i)
      BY <2>1 DEF Tidy, OneConnection, Heading
    <3>3. Once("connected", due'[i])
      BY <1>3, <3>1, <3>2
    <3>4. QED
      BY <1>1, <1>2, <2>1, <3>2, <3>3 DEF OneConnection
  <2>3. QED
    BY <1>1, <2>2, TidyKept
<1>5. CASE ~ConnectOnAir
  <2>1. "connecting" \in doing' => "connecting" \in doing
    BY <1>5 DEF OnAir, DisconnectOnAir, AskPasskey, PairOnAir, UpdateOnAir, LoseLink, Crash
  <2>2. ASSUME NEW i \in Iut
        PROVE  \/ due'[i] \in {due[i], <<>>}
               \/ \E e \in Event \ {"connected"} : due'[i] = Append(due[i], e)
    <3>1. CASE OnAir \/ LoseLink
      <4>1. PICK e \in Event \ {"connected"} : BothNotice(e)
        BY <1>5, <3>1 DEF OnAir, DisconnectOnAir, AskPasskey, PairOnAir, UpdateOnAir, LoseLink, Event
      <4>2. QED
        BY <4>1 DEF BothNotice
    <3>2. ASSUME NEW j \in Iut, Crash(j)
          PROVE  \/ due'[i] \in {due[i], <<>>}
                 \/ \E e \in Event \ {"connected"} : due'[i] = Append(due[i], e)
      BY <3>2 DEF Crash, Event
    <3>3. QED
      BY <3>1, <3>2
  <2>3. ~Coming("connected", <<>>) /\ Once("connected", <<>>)
    <3>1. Len(<<>>) = 0
      OBVIOUS
    <3>2. QED
      BY <3>1 DEF Coming, Once
  <2>4. ASSUME NEW i \in Iut
        PROVE  OneConnection(i)' /\ (Heading(i)' => Heading(i))
    <3>1. (Coming("connected", due'[i]) => Coming("connected", due[i])) /\ (Once("connected", due[i]) => Once("connected", due'[i]))
      BY <1>3, <2>2, <2>3
    <3>2. OneConnection(i)
      BY DEF Tidy
    <3>3. QED
      BY <1>1, <1>2, <2>1, <3>1, <3>2 DEF OneConnection, Heading
  <2>5. QED
    BY <1>1, <2>4, TidyKept
<1>6. QED
  BY <1>4, <1>5

\* The receive thread: the connection is heard of when it is waited for.
LEMMA TidyRx == ASSUME TInv, Tidy, NEW i \in Iut, Rx(i) PROVE Tidy'
<1>1. /\ UNCHANGED <<test, pc, sent, due, doing, pending>>
      /\ stream' = [stream EXCEPT ![i] = Tail(@)] /\ stream[i] # <<>>
      /\ stream \in [Iut -> Seq(Frames)] /\ connections \in [Iut -> BOOLEAN]
      /\ listeners \in [Iut -> SUBSET Event]
  BY DEF Rx, RxResponse, ConnectedEv, DisconnectedEv, OtherEv, Notify, Receiving, TInv, TypeOK, Frames
<1>2. /\ stream'[i] = Tail(stream[i]) /\ stream[i] \in Seq(Frames)
      /\ \A j \in Iut : j # i => stream'[j] = stream[j]
  BY <1>1
<1>3. /\ Coming("connected", stream[i]) <=> Coming("connected", stream'[i]) \/ Frame(i) = "connected"
      /\ Once("connected", stream[i]) => Once("connected", stream'[i]) /\ (Frame(i) = "connected" => ~Coming("connected", stream'[i]))
  <2>1. /\ Coming("connected", stream[i]) <=> Coming("connected", Tail(stream[i])) \/ Head(stream[i]) = "connected"
        /\ Once("connected", stream[i]) =>
              Once("connected", Tail(stream[i])) /\ (Head(stream[i]) = "connected" => ~Coming("connected", Tail(stream[i])))
    BY <1>1, <1>2, ComingShrinks
  <2>2. QED
    BY <1>2, <2>1 DEF Frame
<1>4. Pends("conn")' = Pends("conn")
  BY <1>1 DEF Pends
<1>5. ASSUME NEW j \in Iut
      PROVE  OneConnection(j)' /\ (Heading(j)' => Heading(j))
             /\ (j = i /\ Frame(i) = "connected" => Heading(j) /\ ~Heading(j)')
  <2>1. OneConnection(j)
    BY DEF Tidy
  <2>2. CASE j = i
    BY <1>1, <1>3, <1>4, <2>1, <2>2 DEF OneConnection, Heading
  <2>3. CASE j # i
    <3>1. stream'[j] = stream[j]
      BY <1>2, <2>3
    <3>2. QED
      BY <1>1, <1>4, <2>1, <2>3, <3>1 DEF OneConnection, Heading
  <2>4. QED
    BY <2>2, <2>3
<1>6. /\ \A j \in Iut : listeners'[j] \subseteq listeners[j]
      /\ \A j \in Iut : "connected" \in listeners[j] =>
             "connected" \in listeners'[j] \/ (j = i /\ Frame(i) = "connected")
      /\ \A j \in Iut : connections'[j] => connections[j] \/ (j = i /\ Frame(i) = "connected")
  BY <1>1 DEF Rx, RxResponse, ConnectedEv, DisconnectedEv, OtherEv, Notify
<1>7. Connecting' = Connecting
  BY <1>1 DEF Connecting, ended, step
<1>8. \A j \in Iut : Expected(j)'
  BY <1>5, <1>6, <1>7 DEF Tidy, Expected
<1>9. Frame(i) = "connected" => Connecting
  BY <1>5 DEF Tidy, Expected
<1>10. HasWaited'
  BY <1>1, <1>6 DEF Tidy, HasWaited, AllDone
<1>11. ListensFirst'
  <2>1. CASE Frame(i) = "connected"
    <3>1. /\ ~ended /\ (step.do = "wait" \/ (IsConn(step) /\ sent))
          /\ ~(pc + 1 \in 1 .. Len(Program(test)) /\ IsConn(Program(test)[pc + 1]))
      BY <1>9, <2>1, ConnectingWhere
    <3>2. QED
      BY <1>1, <3>1 DEF ListensFirst, ended, step, IsConn
  <2>2. CASE Frame(i) # "connected"
    <3>1. \A j \in Iut : "connected" \in listeners[j] => "connected" \in listeners'[j]
      BY <1>6, <2>2
    <3>2. QED
      BY <1>1, <3>1 DEF Tidy, ListensFirst, ended, step, Iut
  <2>3. QED
    BY <2>1, <2>2
<1>12. HasDenied'
  <2>1. CASE Frame(i) = "connected"
    <3>1. /\ test # "DISC_GENM_1" /\ pc < Len(Program(test))
          /\ pc \in Nat /\ Len(Program(test)) \in Nat
      BY <1>9, <2>1, ConnectingWhere, ProgramTyped DEF TInv, TypeOK
    <3>2. ~(pc >= Len(Program(test))) /\ ~(pc > Len(Program(test)))
      BY <3>1
    <3>3. QED
      BY <1>1, <3>1, <3>2 DEF HasDenied
  <2>2. CASE Frame(i) # "connected"
    <3>1. \A j \in Iut : connections'[j] => connections[j]
      BY <1>6, <2>2
    <3>2. QED
      BY <1>1, <3>1 DEF Tidy, HasDenied, Iut
  <2>3. QED
    BY <2>1, <2>2
<1>13. QED
  BY <1>5, <1>8, <1>10, <1>11, <1>12 DEF Tidy


\* The test sends a command: only the one that connects starts a connection, and
\* nothing is under way then.
LEMMA TidySendCommand == ASSUME TInv, Tidy, SendCommand PROVE Tidy'
<1>1. /\ UNCHANGED <<test, pc, registryVars, connections, stream, due, doing>>
      /\ At("command") /\ ~sent /\ sent'
      /\ pending' = [pending EXCEPT ![step.iut] = {step.what}]
  BY DEF SendCommand
<1>2. step.do = "command" /\ ~ended
  BY <1>1 DEF At
<1>3. ~Connecting /\ \A i \in Iut : ~Heading(i) /\ OneConnection(i)
  <2>1. ~Connecting
    BY <1>1, <1>2, ConnectingWhere
  <2>2. QED
    BY <2>1 DEF Tidy, Expected
<1>4. step.iut \in Iut /\ pending \in [Iut -> SUBSET Command]
  BY <1>1, CurrentStep, StepTyped DEF At, TInv, TypeOK
<1>5. Pends("conn")' => IsConn(step)
  <2>1. \A j \in Iut : "conn" \notin pending[j]
    BY <1>3 DEF Heading, Pends
  <2>2. \A j \in Iut : "conn" \in pending'[j] => step.what = "conn"
    BY <1>1, <1>4, <2>1
  <2>3. QED
    BY <1>2, <2>2 DEF Pends, IsConn
<1>6. \A i \in Iut : Heading(i)' => IsConn(step)
  BY <1>1, <1>3, <1>5 DEF Heading
<1>7. ended' = ended /\ step' = step
  BY <1>1 DEF ended, step
<1>8. IsConn(step) => Connecting' /\ \A i \in Iut : "connected" \in listeners'[i]
  BY <1>1, <1>2, <1>7 DEF Connecting, Tidy, ListensFirst
<1>9. \A i \in Iut : OneConnection(i)'
  BY <1>1, <1>3 DEF OneConnection, Heading
<1>10. \A i \in Iut : Expected(i)'
  BY <1>6, <1>8 DEF Expected
<1>11. ListensFirst' /\ HasWaited' /\ HasDenied'
  BY <1>1 DEF Tidy, ListensFirst, HasWaited, HasDenied, AllDone
<1>12. QED
  BY <1>9, <1>10, <1>11 DEF Tidy

\* The test goes on to its next step.
Onward == /\ outcome = "running" /\ ~ended /\ pc' = pc + 1
          /\ UNCHANGED <<test, connections, stream, due, doing, pending>>

\* What it must have done before the steps to come.
LEMMA OnwardNext ==
    ASSUME TInv, Onward
    PROVE  /\ pc \in 1 .. Len(Program(test)) /\ step = Program(test)[pc]
           /\ (pc + 1) - 1 = pc
           /\ ended' \/ step' = Program(test)[pc + 1]
           /\ ~ended' /\ IsConn(step') =>
                  /\ Hears(step, "peripheral")
                  /\ pc + 1 \in 1 .. Len(Program(test)) /\ IsConn(Program(test)[pc + 1])
           /\ (pc + 1) + 1 \in 1 .. Len(Program(test)) /\ IsConn(Program(test)[(pc + 1) + 1]) =>
                  Hears(step, "central")
<1>1. PICK p, n : p = Program(test) /\ n = Len(p)
  OBVIOUS
<1>2. /\ p \in Procedure /\ n \in Nat /\ pc \in 1 .. n + 1
  BY <1>1, ProgramShaped, ProcedureTyped DEF TInv, TypeOK
<1>3. /\ pc \in 1 .. n /\ step = p[pc] /\ pc + 1 \in 1 .. n + 1
      /\ (pc + 1) - 1 = pc /\ ((pc + 1) + 1) - 2 = pc
  BY <1>1, <1>2 DEF Onward, ended, step
<1>4. (ended' <=> pc + 1 > n) /\ step' = p[pc + 1]
  BY <1>1 DEF Onward, ended, step
<1>5. \A k \in 1 .. n : IsConn(p[k]) => Hears(p[k - 1], "peripheral") /\ Hears(p[k - 2], "central")
  BY <1>1, <1>2 DEF Procedure, ConnectsAt
<1>6. ASSUME pc + 1 \in 1 .. n, IsConn(p[pc + 1])
      PROVE  Hears(step, "peripheral")
  BY <1>3, <1>5, <1>6
<1>7. ASSUME (pc + 1) + 1 \in 1 .. n, IsConn(p[(pc + 1) + 1])
      PROVE  Hears(step, "central")
  BY <1>3, <1>5, <1>7
<1>8. ~ended' => pc + 1 \in 1 .. n
  BY <1>2, <1>3, <1>4
<1>9. QED
  BY <1>1, <1>3, <1>4, <1>6, <1>7, <1>8

\* Which part of the end of a test it has passed.
LEMMA OnwardEnd ==
    ASSUME TInv, Onward, test # "DISC_GENM_1"
    PROVE  /\ pc + 1 >= Len(Program(test)) =>
                  \/ pc >= Len(Program(test)) /\ Denies(step, "central")
                  \/ ~(pc + 1 > Len(Program(test))) /\ Denies(step, "peripheral")
           /\ pc + 1 > Len(Program(test)) => pc >= Len(Program(test)) /\ Denies(step, "central")
<1>1. PICK p, n : p = Program(test) /\ n = Len(p)
  OBVIOUS
<1>2. n \in Nat /\ pc \in 1 .. n + 1 /\ EndsDenied(p)
  BY <1>1, ProgramShaped, ProcedureTyped DEF TInv, TypeOK
<1>3. pc \in 1 .. n /\ step = p[pc]
  BY <1>1, <1>2 DEF Onward, ended, step
<1>4. Denies(p[n - 1], "peripheral") /\ Denies(p[n], "central")
  BY <1>1, <1>2 DEF EndsDenied
<1>5. CASE pc = n
  BY <1>1, <1>3, <1>4, <1>5
<1>6. CASE pc = n - 1
  <2>1. Denies(step, "peripheral")
    BY <1>3, <1>4, <1>6
  <2>2. ~(pc + 1 > n)
    BY <1>2, <1>6
  <2>3. QED
    BY <1>1, <2>1, <2>2
<1>7. CASE pc \notin {n, n - 1}
  <2>1. ~(pc + 1 >= n) /\ ~(pc + 1 > n)
    BY <1>2, <1>3, <1>7
  <2>2. QED
    BY <1>1, <2>1
<1>8. QED
  BY <1>5, <1>6, <1>7

\* The next step finds the listeners it needs, and nothing under way that it
\* does not wait for.
LEMMA TidyOnward ==
    ASSUME TInv, Tidy, Onward,
           \A i \in Iut : Heading(i) => IsConn(step) /\ UNCHANGED listeners,
           IF step.do = "register"
           THEN listeners' = [listeners EXCEPT ![step.iut] = @ \cup {step.what}]
           ELSE UNCHANGED listeners,
           step.do = "wait" => AllDone,
           \A i \in Iut : Denies(step, i) => ~connections[i]
    PROVE  Tidy'
<1>1. /\ UNCHANGED <<test, connections, stream, due, doing, pending>>
      /\ pc' = pc + 1 /\ ~ended /\ listeners \in [Iut -> SUBSET Event]
      /\ "central" \in Iut /\ "peripheral" \in Iut
  BY DEF Onward, TInv, TypeOK, Iut
<1>2. /\ pc \in 1 .. Len(Program(test)) /\ step = Program(test)[pc] /\ (pc + 1) - 1 = pc
      /\ ~ended' /\ IsConn(step') =>
             /\ Hears(step, "peripheral")
             /\ pc + 1 \in 1 .. Len(Program(test)) /\ IsConn(Program(test)[pc + 1])
      /\ (pc + 1) + 1 \in 1 .. Len(Program(test)) /\ IsConn(Program(test)[(pc + 1) + 1]) =>
             Hears(step, "central")
  BY OnwardNext
<1>3. \A i \in Iut : OneConnection(i)' /\ (Heading(i)' <=> Heading(i))
  BY <1>1 DEF Tidy, OneConnection, Heading, Pends
<1>4. ASSUME NEW i \in Iut
      PROVE  Expected(i)'
  <2> SUFFICES ASSUME Heading(i)'
               PROVE  Connecting' /\ "connected" \in listeners'[i]
    BY DEF Expected
  <2>1. IsConn(step) /\ UNCHANGED listeners
    BY <1>3
  <2>2. "connected" \in listeners[i]
    BY <1>3 DEF Tidy, Expected
  <2>3. Connecting'
    BY <1>1, <1>2, <2>1 DEF Connecting
  <2>4. QED
    BY <2>1, <2>2, <2>3
<1>5. ASSUME NEW i \in Iut, Hears(step, i)
      PROVE  /\ "connected" \in listeners'[i]
             /\ \A j \in Iut : listeners[j] \subseteq listeners'[j]
  BY <1>1, <1>5 DEF Hears
<1>6. ListensFirst'
  <2>1. ASSUME ~ended', IsConn(step')
        PROVE  \A i \in Iut : "connected" \in listeners'[i]
    <3>1. "connected" \in listeners["central"]
      BY <1>2, <2>1 DEF Tidy, ListensFirst
    <3>2. "connected" \in listeners'["central"] /\ "connected" \in listeners'["peripheral"]
      BY <1>1, <1>2, <1>5, <2>1, <3>1
    <3>3. QED
      BY <3>2 DEF Iut
  <2>2. ASSUME (pc + 1) + 1 \in 1 .. Len(Program(test)), IsConn(Program(test)[(pc + 1) + 1])
        PROVE  "connected" \in listeners'["central"]
    BY <1>1, <1>2, <1>5, <2>2
  <2>3. QED
    BY <1>1, <2>1, <2>2 DEF ListensFirst
<1>7. HasWaited'
  <2> SUFFICES ASSUME Settled(step)
               PROVE  AllDone'
    BY <1>1, <1>2 DEF HasWaited
  <2>1. UNCHANGED listeners
    BY DEF Settled
  <2>2. AllDone
    <3>1. CASE step.do = "wait"
      BY <3>1
    <3>2. CASE step.do # "wait"
      <4>1. SettledAt(Program(test), pc)
        BY <1>2, <3>2, ProgramShaped DEF Procedure, TInv, TypeOK
      <4>2. QED
        BY <4>1 DEF SettledAt, Tidy, HasWaited
    <3>3. QED
      BY <3>1, <3>2
  <2>3. QED
    BY <2>1, <2>2 DEF AllDone
<1>8. HasDenied'
  <2>1. CASE test = "DISC_GENM_1"
    BY <1>1, <2>1 DEF Tidy, HasDenied
  <2>2. CASE test # "DISC_GENM_1"
    <3>1. /\ pc + 1 >= Len(Program(test)) =>
                 \/ pc >= Len(Program(test)) /\ Denies(step, "central")
                 \/ ~(pc + 1 > Len(Program(test))) /\ Denies(step, "peripheral")
          /\ pc + 1 > Len(Program(test)) => pc >= Len(Program(test)) /\ Denies(step, "central")
      BY <2>2, OnwardEnd
    <3>2. pc >= Len(Program(test)) => ~connections["peripheral"]
      BY <2>2 DEF Tidy, HasDenied
    <3>3. /\ pc + 1 >= Len(Program(test)) => ~connections["peripheral"]
          /\ pc + 1 > Len(Program(test)) => ~connections["central"]
      BY <1>1, <3>1, <3>2
    <3>4. QED
      BY <1>1, <2>2, <3>3 DEF HasDenied
  <2>3. QED
    BY <2>1, <2>2
<1>9. QED
  BY <1>3, <1>4, <1>6, <1>7, <1>8 DEF Tidy

LEMMA TidyTest ==
    ASSUME TInv, Tidy, outcome' = "running",
           SkipDisconn \/ ReadRsp \/ RegisterListener \/ WaitDone \/ CheckConnection
    PROVE  Tidy'
<1>1. Onward
  BY DEF Onward, SkipDisconn, ReadRsp, RegisterListener, WaitDone, CheckConnection, At
<1>2. /\ IF step.do = "register"
         THEN listeners' = [listeners EXCEPT ![step.iut] = @ \cup {step.what}]
         ELSE UNCHANGED listeners
      /\ step.do = "wait" => AllDone
  BY DEF SkipDisconn, ReadRsp, RegisterListener, WaitDone, CheckConnection, At
<1>3. \A i \in Iut : Denies(step, i) => ~connections[i]
  BY DEF SkipDisconn, ReadRsp, RegisterListener, WaitDone, CheckConnection, At, Denies
<1>4. ASSUME NEW i \in Iut, Heading(i)
      PROVE  IsConn(step) /\ UNCHANGED listeners
  <2>1. Connecting /\ "connected" \in listeners[i]
    BY <1>4 DEF Tidy, Expected
  <2>2. step.do = "wait" \/ (IsConn(step) /\ sent)
    BY <2>1, ConnectingWhere
  <2>3. ~AllDone
    BY <2>1 DEF AllDone
  <2>4. IsConn(step)
    BY <1>2, <2>2, <2>3
  <2>5. QED
    BY <1>2, <2>4 DEF IsConn
<1>5. QED
  BY <1>1, <1>2, <1>3, <1>4, TidyOnward

LEMMA CInvStep == TInv /\ CInv /\ [Next]_vars => CInv'
<1> SUFFICES ASSUME TInv, CInv, [Next]_vars
             PROVE  CInv'
  OBVIOUS
<1>1. CASE UNCHANGED vars
  <2>1. Tidy' = Tidy
    BY <1>1 DEF vars, Tidy, OneConnection, Expected, Heading, Pends, Connecting, ListensFirst,
                HasWaited, HasDenied, AllDone, ended, step
  <2>2. QED
    BY <1>1, <2>1 DEF vars, CInv, ended, Responding
<1>2. CASE \E i \in Iut : Answer(i) \/ SendEvent(i) \/ Rx(i) \/ Crash(i)
  <2>1. outcome = "running" /\ UNCHANGED <<test, pc, outcome>>
    BY <1>2 DEF Answer, SendEvent, Rx, RxResponse, ConnectedEv, DisconnectedEv, OtherEv, Notify,
                Receiving, Crash
  <2>2. Tidy
    BY <2>1 DEF CInv
  <2>3. Tidy'
    BY <1>2, <2>2, TidyAnswer, TidySend, TidyRx, TidyAir
  <2>4. QED
    BY <2>1, <2>3 DEF CInv
<1>3. CASE Report \/ OnAir \/ LoseLink
  <2>1. outcome = "running" /\ UNCHANGED <<test, pc, outcome>>
    BY <1>3 DEF Report, OnAir, LoseLink, ConnectOnAir, DisconnectOnAir, AskPasskey, PairOnAir, UpdateOnAir
  <2>2. Tidy
    BY <2>1 DEF CInv
  <2>3. Tidy'
    BY <1>3, <2>2, TidyReport, TidyAir
  <2>4. QED
    BY <2>1, <2>3 DEF CInv
<1>4. CASE RunTest
  <2>1. outcome = "running"
    BY <1>4 DEF RunTest, SendCommand, SkipDisconn, ReadRsp, ReadTimeout, LookUp, RegisterListener, WaitDone,
                WaitTimeout, CheckConnection, Pass, At
  <2>2. Tidy
    BY <2>1 DEF CInv
  <2>3. CASE SendCommand
    <3>1. outcome' = "running"
      BY <2>1, <2>3 DEF SendCommand
    <3>2. QED
      BY <2>2, <2>3, <3>1, TidySendCommand DEF CInv
  <2>4. CASE SkipDisconn \/ ReadRsp \/ RegisterListener \/ WaitDone \/ CheckConnection
    <3>1. outcome' \in {"running", "raised", "assertion"}
      BY <2>1, <2>4 DEF SkipDisconn, ReadRsp, RegisterListener, WaitDone, CheckConnection
    <3>2. QED
      BY <2>2, <2>4, <3>1, TidyTest DEF CInv
  <2>5. CASE ReadTimeout \/ WaitTimeout
    BY <2>5 DEF ReadTimeout, WaitTimeout, CInv
  <2>6. CASE LookUp
    <3>1. UNCHANGED <<test, pc, sent, outcome, listeners, connections, stream, due, doing, pending>>
      BY <2>6 DEF LookUp
    <3>2. \A i \in Iut : OneConnection(i)' /\ (Heading(i)' => Heading(i))
      BY <2>2, <3>1 DEF Tidy, OneConnection, Heading, Pends
    <3>3. Tidy'
      BY <2>2, <3>1, <3>2, TidyKept
    <3>4. QED
      BY <2>1, <3>1, <3>3 DEF CInv
  <2>7. CASE Pass
    <3>1. /\ UNCHANGED <<test, pc, sent, listeners, connections, stream, due, doing, pending>>
          /\ ended /\ outcome' = "passed"
      BY <2>7 DEF Pass
    <3>2. \A i \in Iut : OneConnection(i)' /\ (Heading(i)' => Heading(i))
      BY <2>2, <3>1 DEF Tidy, OneConnection, Heading, Pends
    <3>3. Tidy'
      BY <2>2, <3>1, <3>2, TidyKept
    <3>4. \A i \in Iut : ~Responding(i)'
      BY <2>1, <3>1 DEF TInv, Awaited, Owed, At, Responding
    <3>5. QED
      BY <3>1, <3>3, <3>4 DEF CInv, ended
  <2>8. QED
    BY <1>4, <2>3, <2>4, <2>5, <2>6, <2>7 DEF RunTest
<1>5. QED
  BY <1>1, <1>2, <1>3, <1>4 DEF Next

LEMMA CInvCorrect == Spec => []CInv
BY TidyInit, CInvStep, TInvCorrect, PTL DEF Spec

\* Frames without a connection lead nowhere from a link that is down.
LEMMA StaysDown ==
    ASSUME NEW frames \in Seq(Frames), NEW to, Course(frames, "down", to), ~Coming("connected", frames)
    PROVE  /\ to = "down"
           /\ \A k \in 1 .. Len(frames) : frames[k] \in Response \cup {"found"}
<1>1. PICK f \in [0 .. Len(frames) -> State] :
         /\ f[0] = "down" /\ f[Len(frames)] = to
         /\ \A k \in 1 .. Len(frames) :
                Fits(f[k - 1], frames[k]) /\ f[k] = Follows(f[k - 1], frames[k])
         /\ \A a, b \in 0 .. Len(frames) :
                a <= b /\ f[b] = "up" =>
                    f[a] = "up" \/ \E k \in a + 1 .. b : frames[k] = "connected"
  BY DEF Course
<1>2. PICK n : n = Len(frames) /\ n \in Nat
  OBVIOUS
<1>3. ASSUME NEW k \in 0 .. n
      PROVE  f[k] = "down"
  <2>1. 0 \in 0 .. n /\ 0 <= k /\ \A j \in 0 + 1 .. k : j \in 1 .. n
    BY <1>2
  <2>2. f[k] # "up"
    BY <1>1, <1>2, <2>1 DEF Coming
  <2>3. QED
    BY <1>1, <1>2, <2>2 DEF State
<1>4. to = "down"
  BY <1>1, <1>2, <1>3
<1>5. ASSUME NEW k \in 1 .. n
      PROVE  frames[k] \in Response \cup {"found"}
  <2>1. k - 1 \in 0 .. n
    BY <1>2
  <2>2. Fits("down", frames[k])
    BY <1>1, <1>2, <1>3, <2>1
  <2>3. frames[k] \in Frames /\ frames[k] # "connected"
    BY <1>2 DEF Coming
  <2>4. QED
    BY <2>2, <2>3 DEF Fits, Frames, Event
<1>6. QED
  BY <1>2, <1>4, <1>5


LEMMA PassedLeaves == TInv /\ LInv /\ CInv => PassedIsClean
<1> SUFFICES ASSUME TInv, LInv, CInv, outcome = "passed"
             PROVE  /\ ~link
                    /\ \A i \in Iut :
                          /\ ~connections[i] /\ listeners[i] = {} /\ due[i] = <<>>
                          /\ \A k \in DOMAIN stream[i] : stream[i][k] = "found"
  BY DEF PassedIsClean
<1>1. Tidy /\ ended /\ \A i \in Iut : ~Responding(i)
  BY DEF CInv
<1>2. PICK p, n : p = Program(test) /\ n = Len(p)
  OBVIOUS
<1>3. /\ n \in 1 .. n /\ n \in Nat /\ Settled(p[n])
      /\ test # "DISC_GENM_1" => EndsDenied(p)
      /\ pc \in 1 .. n + 1
  <2>1. test \in Test /\ pc \in 1 .. Len(Program(test)) + 1
    BY DEF TInv, TypeOK
  <2>2. QED
    BY <1>2, <2>1, ProgramShaped, ProcedureTyped
<1>4. pc > n /\ pc >= n /\ pc - 1 = n
  BY <1>1, <1>2, <1>3 DEF ended
<1>5. AllDone
  BY <1>1, <1>2, <1>3, <1>4 DEF Tidy, HasWaited
<1>6. \A i \in Iut : connections[i] = FALSE
  <2>1. \A i \in Iut : ~connections[i]
    BY <1>1, <1>2, <1>4 DEF Tidy, HasDenied, Iut
  <2>2. QED
    BY <2>1 DEF TInv, TypeOK
<1>7. \A i \in Iut : ~Heading(i)
  BY <1>5 DEF AllDone, Tidy, Expected, CInv
<1>8. ASSUME NEW i \in Iut
      PROVE  /\ \A k \in DOMAIN stream[i] : stream[i][k] = "found"
             /\ i \notin crashed => due[i] = <<>> /\ ~link
  <2>1. PICK noticed \in State :
           /\ Course(stream[i], StateOf(connections[i]), noticed)
           /\ i \notin crashed => Course(due[i], noticed, StateOf(link))
    BY DEF LInv, Leads
  <2>2. stream[i] \in Seq(Frames) /\ due[i] \in Seq(Frames) /\ ~Coming("connected", stream[i]) /\ ~Coming("connected", due[i])
    <3>1. stream[i] \in Seq(Frames) /\ due[i] \in Seq(Event)
      BY DEF TInv, TypeOK, Frames
    <3>2. due[i] \in Seq(Frames)
      BY <3>1 DEF Frames
    <3>3. QED
      BY <1>7, <3>1, <3>2 DEF Heading
  <2>3. StateOf(connections[i]) = "down"
    BY <1>6 DEF StateOf
  <2>4. /\ noticed = "down"
        /\ \A k \in 1 .. Len(stream[i]) : stream[i][k] \in Response \cup {"found"}
    BY <2>1, <2>2, <2>3, StaysDown
  <2>5. \A k \in 1 .. Len(stream[i]) : stream[i][k] = "found"
    BY <1>1, <2>4 DEF Responding
  <2>6. ASSUME i \notin crashed
        PROVE  due[i] = <<>> /\ ~link
    <3>1. /\ StateOf(link) = "down"
          /\ \A k \in 1 .. Len(due[i]) : due[i][k] \in Response \cup {"found"}
      BY <2>1, <2>2, <2>4, <2>6, StaysDown
    <3>2. ~link
      BY <3>1 DEF StateOf
    <3>3. due[i] \in Seq(Event \ {"found"})
      BY DEF LInv
    <3>4. \A k \in 1 .. Len(due[i]) : due[i][k] \in Event \ {"found"}
      BY <3>3
    <3>5. (Event \ {"found"}) \cap (Response \cup {"found"}) = {}
      BY DEF Event, Response
    <3>6. 1 \notin 1 .. Len(due[i])
      BY <3>1, <3>4, <3>5
    <3>7. Len(due[i]) \in Nat
      BY <3>3
    <3>8. Len(due[i]) = 0
      BY <3>6, <3>7
    <3>9. due[i] = <<>>
      BY <3>3, <3>8, EmptySeq
    <3>10. QED
      BY <3>2, <3>9
  <2>7. DOMAIN stream[i] = 1 .. Len(stream[i])
    BY <2>2
  <2>8. QED
    BY <2>5, <2>6, <2>7
<1>9. \A i \in Iut : due[i] = <<>>
  BY <1>8 DEF LInv
<1>10. ~link
  BY <1>8 DEF LInv, Iut
<1>11. QED
  BY <1>5, <1>6, <1>8, <1>9, <1>10 DEF AllDone

\* A test that passes leaves nothing behind: no link, no connection in a stack,
\* no listener, and no frame under way but advertising reports, whatever was
\* lost while it ran.  A connection is only ever under way while the test waits
\* for it on both sides, every wait hears of it, and the last it looks at is
\* that both sides are disconnected.
THEOREM PassedIsCleanCorrect == Spec => []PassedIsClean
BY PassedLeaves, TInvCorrect, LInvCorrect, CInvCorrect, PTL

-----------------------------------------------------------------------------
\* The phases of a test, by the steps that lead from one to the next.
Plain == {"idle", "advertising", "scanning", "finding", "found", "listen1", "listen2",
          "calling", "up", "leave1", "leave2", "leaving"}
Securing == {"sec1", "sec2", "securing"}
Phase == Plain \cup Securing \cup {"loose"}

CommandMoves(c, from, to) ==
    \/ c \in {"set_io_cap", "set_conn", "set_gendiscov"} /\ from = "idle" /\ to = "idle"
    \/ c \in {"start_adv", "start_direct_adv"} /\ from = "idle" /\ to = "advertising"
    \/ c = "start_discov" /\ from = "advertising" /\ to = "scanning"
    \/ c = "stop_discov" /\ from = "found" /\ to = "advertising"
    \/ c = "conn" /\ from = "listen2" /\ to = "calling"
    \/ c = "disconn" /\ from = "leave2" /\ to = "leaving"
    \/ c = "pair" /\ from = "sec2" /\ to = "securing"
    \/ c \in {"pair", "passkey_rsp", "conn_param_update"} /\ from \in {"up", "loose"} /\ to = "loose"

RegisterMoves(i, e, from, to) ==
    \/ i = "central" /\ e = "found" /\ from = "scanning" /\ to = "finding"
    \/ i = "central" /\ e = "connected" /\ from = "advertising" /\ to = "listen1"
    \/ i = "peripheral" /\ e = "connected" /\ from = "listen1" /\ to = "listen2"
    \/ i = "central" /\ e = "disconnected" /\ from = "up" /\ to = "leave1"
    \/ i = "peripheral" /\ e = "disconnected" /\ from = "leave1" /\ to = "leave2"
    \/ i = "central" /\ e = "sec_level" /\ from = "up" /\ to = "sec1"
    \/ i = "peripheral" /\ e = "sec_level" /\ from = "sec1" /\ to = "sec2"
    \/ e \in {"params", "passkey", "sec_level"} /\ from \in {"up", "loose"} /\ to = "loose"

WaitMoves(from, to) ==
    \/ from = "finding" /\ to = "found"
    \/ from = "calling" /\ to = "up"
    \/ from = "leaving" /\ to = "idle"
    \/ from = "securing" /\ to = "up"
    \/ from = "loose" /\ to = "up"

AssertMoves(w, from, to) ==
    \/ w = "connected" /\ from = "up" /\ to = "up"
    \/ w = "disconnected" /\ from = "idle" /\ to = "idle"

Moves(from, s, to) ==
    \/ s.do = "command" /\ CommandMoves(s.what, from, to)
    \/ s.do = "register" /\ RegisterMoves(s.iut, s.what, from, to)
    \/ s.do = "wait" /\ WaitMoves(from, to)
    \/ s.do = "assert" /\ AssertMoves(s.what, from, to)

\* The steps of p lead from one phase to the other without leaving the phases ok.
Passage(ok, p, from, to) ==
    \E f \in [0 .. Len(p) -> ok] :
        /\ f[0] = from /\ f[Len(p)] = to
        /\ \A k \in 1 .. Len(p) : Moves(f[k - 1], p[k], f[k])

LEMMA PassageJoined ==
    ASSUME NEW ok, NEW s \in Seq(AllStep), NEW t \in Seq(AllStep), NEW a, NEW b, NEW c,
           Passage(ok, s, a, b), Passage(ok, t, b, c)
    PROVE  s \o t \in Seq(AllStep) /\ Passage(ok, s \o t, a, c)
<1>1. PICK m, n, p : m = Len(s) /\ n = Len(t) /\ p = s \o t
  OBVIOUS
<1>2. /\ p \in Seq(AllStep) /\ m \in Nat /\ n \in Nat /\ Len(p) = m + n
      /\ \A k \in 1 .. m + n : p[k] = IF k <= m THEN s[k] ELSE t[k - m]
  BY <1>1, ConcatProperties
<1>3. PICK f \in [0 .. m -> ok] :
         f[0] = a /\ f[m] = b /\ \A k \in 1 .. m : Moves(f[k - 1], s[k], f[k])
  BY <1>1 DEF Passage
<1>4. PICK g \in [0 .. n -> ok] :
         g[0] = b /\ g[n] = c /\ \A k \in 1 .. n : Moves(g[k - 1], t[k], g[k])
  BY <1>1 DEF Passage
<1>5. PICK h : h = [k \in 0 .. m + n |-> IF k <= m THEN f[k] ELSE g[k - m]]
  OBVIOUS
<1>6. h \in [0 .. m + n -> ok]
  <2>1. \A k \in 0 .. m + n : IF k <= m THEN k \in 0 .. m ELSE k - m \in 0 .. n
    BY <1>2
  <2>2. QED
    BY <1>3, <1>4, <1>5, <2>1
<1>7. /\ \A k \in 0 .. m : h[k] = f[k]
      /\ \A k \in 0 .. n : h[m + k] = g[k]
  <2>1. \A k \in 0 .. m : k \in 0 .. m + n /\ k <= m
    BY <1>2
  <2>2. ASSUME NEW k \in 0 .. n
        PROVE  h[m + k] = g[k]
    <3>1. CASE k = 0
      <4>1. m + k = m /\ m \in 0 .. m + n /\ m <= m
        BY <1>2, <3>1
      <4>2. QED
        BY <1>3, <1>4, <1>5, <3>1, <4>1
    <3>2. CASE k # 0
      <4>1. m + k \in 0 .. m + n /\ ~(m + k <= m) /\ (m + k) - m = k
        BY <1>2, <3>2
      <4>2. QED
        BY <1>5, <4>1
    <3>3. QED
      BY <3>1, <3>2
  <2>3. QED
    BY <1>5, <2>1, <2>2
<1>8. h[0] = a /\ h[m + n] = c
  BY <1>2, <1>3, <1>4, <1>7
<1>9. ASSUME NEW k \in 1 .. m + n
      PROVE  Moves(h[k - 1], p[k], h[k])
  <2>1. CASE k <= m
    <3>1. k - 1 \in 0 .. m /\ k \in 0 .. m /\ k \in 1 .. m
      BY <1>2, <2>1
    <3>2. h[k - 1] = f[k - 1] /\ h[k] = f[k] /\ p[k] = s[k]
      BY <1>2, <1>7, <2>1, <3>1
    <3>3. QED
      BY <1>3, <3>1, <3>2
  <2>2. CASE ~(k <= m)
    <3>1. PICK l : l = k - m
      OBVIOUS
    <3>2. l \in 1 .. n /\ l \in 0 .. n /\ l - 1 \in 0 .. n /\ m + l = k /\ m + (l - 1) = k - 1
      BY <1>2, <2>2, <3>1
    <3>3. h[k - 1] = g[l - 1] /\ h[k] = g[l] /\ p[k] = t[l]
      BY <1>2, <1>7, <2>2, <3>1, <3>2
    <3>4. QED
      BY <1>4, <3>2, <3>3
  <2>3. QED
    BY <2>1, <2>2
<1>10. Passage(ok, p, a, c)
  BY <1>2, <1>6, <1>8, <1>9 DEF Passage
<1>11. QED
  BY <1>1, <1>2, <1>10

LEMMA PassageOne ==
    ASSUME NEW ok, NEW s \in AllStep, NEW a \in ok, NEW b \in ok, Moves(a, s, b)
    PROVE  <<s>> \in Seq(AllStep) /\ Passage(ok, <<s>>, a, b)
<1>1. PICK p, f : p = <<s>> /\ f = [k \in 0 .. 1 |-> IF k = 0 THEN a ELSE b]
  OBVIOUS
<1>2. p \in Seq(AllStep) /\ Len(p) = 1 /\ p[1] = s
  BY <1>1
<1>3. f \in [0 .. 1 -> ok] /\ f[0] = a /\ f[1] = b
  BY <1>1
<1>4. \A k \in 1 .. 1 : k = 1 /\ k - 1 = 0
  OBVIOUS
<1>5. Passage(ok, p, a, b)
  <2>1. \A k \in 1 .. Len(p) : Moves(f[k - 1], p[k], f[k])
    BY <1>2, <1>3, <1>4
  <2>2. QED
    BY <1>2, <1>3, <2>1 DEF Passage
<1>6. QED
  BY <1>1, <1>2, <1>5

\* Steps of each kind.
LEMMA CommandPassage ==
    ASSUME NEW ok, NEW i \in Iut, NEW c \in Command, NEW a \in ok, NEW b \in ok, CommandMoves(c, a, b)
    PROVE  Send(i, c) \in Seq(AllStep) /\ Passage(ok, Send(i, c), a, b)
<1>1. PICK s : s = Step("command", i, c)
  OBVIOUS
<1>2. s \in AllStep /\ Moves(a, s, b) /\ Send(i, c) = <<s>>
  BY <1>1 DEF Step, AllStep, Moves, Send
<1>3. QED
  BY <1>2, PassageOne

LEMMA RegisterPassage ==
    ASSUME NEW ok, NEW i \in Iut, NEW e \in Event, NEW a \in ok, NEW b \in ok, RegisterMoves(i, e, a, b)
    PROVE  Register(i, e) \in Seq(AllStep) /\ Passage(ok, Register(i, e), a, b)
<1>1. PICK s : s = Step("register", i, e)
  OBVIOUS
<1>2. s \in AllStep /\ Moves(a, s, b) /\ Register(i, e) = <<s>>
  BY <1>1 DEF Step, AllStep, Moves, Register
<1>3. QED
  BY <1>2, PassageOne

LEMMA WaitPassage ==
    ASSUME NEW ok, NEW a \in ok, NEW b \in ok, WaitMoves(a, b)
    PROVE  WaitFutures \in Seq(AllStep) /\ Passage(ok, WaitFutures, a, b)
<1>1. PICK s : s = Step("wait", "none", "none")
  OBVIOUS
<1>2. s \in AllStep /\ Moves(a, s, b) /\ WaitFutures = <<s>>
  BY <1>1 DEF Step, AllStep, Moves, WaitFutures
<1>3. QED
  BY <1>2, PassageOne

LEMMA AssertPassage ==
    ASSUME NEW ok, NEW i \in Iut, NEW w \in {"connected", "disconnected"}, NEW a \in ok, NEW b \in ok,
           AssertMoves(w, a, b)
    PROVE  Assert(i, w) \in Seq(AllStep) /\ Passage(ok, Assert(i, w), a, b)
<1>1. PICK s : s = Step("assert", i, w)
  OBVIOUS
<1>2. s \in AllStep /\ Moves(a, s, b) /\ Assert(i, w) = <<s>>
  BY <1>1 DEF Step, AllStep, Moves, Assert
<1>3. QED
  BY <1>2, PassageOne


\* The programs that lead from one phase to another.
From(ok, a, b) == {p \in Seq(AllStep) : Passage(ok, p, a, b)}

LEMMA FromJoined ==
    \A ok, a, b, c : \A s \in From(ok, a, b), t \in From(ok, b, c) : s \o t \in From(ok, a, c)
BY PassageJoined DEF From

LEMMA SendFrom ==
    ASSUME NEW ok, NEW i \in Iut, NEW c \in Command, NEW a \in ok, NEW b \in ok, CommandMoves(c, a, b)
    PROVE  Send(i, c) \in From(ok, a, b)
BY CommandPassage DEF From

LEMMA RegisterFrom ==
    ASSUME NEW ok, NEW i \in Iut, NEW e \in Event, NEW a \in ok, NEW b \in ok, RegisterMoves(i, e, a, b)
    PROVE  Register(i, e) \in From(ok, a, b)
BY RegisterPassage DEF From

LEMMA WaitFrom ==
    ASSUME NEW ok, NEW a \in ok, NEW b \in ok, WaitMoves(a, b)
    PROVE  WaitFutures \in From(ok, a, b)
BY WaitPassage DEF From

LEMMA AssertFrom ==
    ASSUME NEW ok, NEW i \in Iut, NEW w \in {"connected", "disconnected"}, NEW a \in ok, NEW b \in ok,
           AssertMoves(w, a, b)
    PROVE  Assert(i, w) \in From(ok, a, b)
BY AssertPassage DEF From

LEMMA DiscoverFrom ==
    ASSUME NEW ok, Plain \subseteq ok
    PROVE  Discover \in From(ok, "idle", "advertising")
<1>1. "central" \in Iut /\ "peripheral" \in Iut
  BY DEF Iut
<1>2. /\ gap_set_conn("peripheral") \in From(ok, "idle", "idle")
      /\ gap_set_gendiscov("peripheral") \in From(ok, "idle", "idle")
      /\ gap_adv_ind_on("peripheral") \in From(ok, "idle", "advertising")
      /\ gap_start_discov("central") \in From(ok, "advertising", "scanning")
      /\ gap_stop_discov("central") \in From(ok, "found", "advertising")
  BY <1>1, SendFrom DEF gap_set_conn, gap_set_gendiscov, gap_adv_ind_on, gap_start_discov,
     gap_stop_discov, CommandMoves, Command, Plain
<1>3. gap_device_found_ev("central") \in From(ok, "scanning", "finding")
  BY <1>1, RegisterFrom DEF gap_device_found_ev, RegisterMoves, Event, Plain
<1>4. WaitFutures \in From(ok, "finding", "found")
  BY WaitFrom DEF WaitMoves, Plain
<1>5. gap_set_conn("peripheral") \o gap_set_gendiscov("peripheral")
      \o gap_adv_ind_on("peripheral") \in From(ok, "idle", "advertising")
  BY <1>2, FromJoined
<1>6. gap_set_conn("peripheral") \o gap_set_gendiscov("peripheral")
      \o gap_adv_ind_on("peripheral") \o gap_start_discov("central")
      \o gap_device_found_ev("central") \in From(ok, "idle", "finding")
  BY <1>2, <1>3, <1>5, FromJoined
<1>7. QED
  BY <1>2, <1>4, <1>6, FromJoined DEF Discover

LEMMA ConnectFrom ==
    ASSUME NEW ok, Plain \subseteq ok
    PROVE  Connect \in From(ok, "advertising", "up")
<1>1. "central" \in Iut /\ "peripheral" \in Iut
  BY DEF Iut
<1>2. /\ gap_connected_ev("central") \in From(ok, "advertising", "listen1")
      /\ gap_connected_ev("peripheral") \in From(ok, "listen1", "listen2")
  BY <1>1, RegisterFrom DEF gap_connected_ev, RegisterMoves, Event, Plain
<1>3. gap_conn("central") \in From(ok, "listen2", "calling")
  BY <1>1, SendFrom DEF gap_conn, CommandMoves, Command, Plain
<1>4. WaitFutures \in From(ok, "calling", "up")
  BY WaitFrom DEF WaitMoves, Plain
<1>5. \A i \in Iut : Assert(i, "connected") \in From(ok, "up", "up")
  BY AssertFrom DEF AssertMoves, Plain
<1>6. Both(gap_connected_ev) \in From(ok, "advertising", "listen2")
  BY <1>2, FromJoined DEF Both
<1>7. Both(gap_connected_ev) \o gap_conn("central") \o WaitFutures \in From(ok, "advertising", "up")
  BY <1>3, <1>4, <1>6, FromJoined
<1>8. QED
  BY <1>1, <1>5, <1>7, FromJoined DEF Connect

LEMMA DisconnectFrom ==
    ASSUME NEW ok, Plain \subseteq ok
    PROVE  disconnection_procedure \in From(ok, "up", "idle")
<1>1. "central" \in Iut /\ "peripheral" \in Iut
  BY DEF Iut
<1>2. /\ gap_disconnected_ev("central") \in From(ok, "up", "leave1")
      /\ gap_disconnected_ev("peripheral") \in From(ok, "leave1", "leave2")
  BY <1>1, RegisterFrom DEF gap_disconnected_ev, RegisterMoves, Event, Plain
<1>3. gap_disconn("central") \in From(ok, "leave2", "leaving")
  BY <1>1, SendFrom DEF gap_disconn, CommandMoves, Command, Plain
<1>4. WaitFutures \in From(ok, "leaving", "idle")
  BY WaitFrom DEF WaitMoves, Plain
<1>5. \A i \in Iut : Assert(i, "disconnected") \in From(ok, "idle", "idle")
  BY AssertFrom DEF AssertMoves, Plain
<1>6. Both(gap_disconnected_ev) \in From(ok, "up", "leave2")
  BY <1>2, FromJoined DEF Both
<1>7. Both(gap_disconnected_ev) \o gap_disconn("central") \o WaitFutures \in From(ok, "up", "idle")
  BY <1>3, <1>4, <1>6, FromJoined
<1>8. QED
  BY <1>1, <1>5, <1>7, FromJoined DEF disconnection_procedure

LEMMA ConnectionFrom ==
    ASSUME NEW ok, Plain \subseteq ok
    PROVE  connection_procedure \in From(ok, "idle", "up")
BY DiscoverFrom, ConnectFrom, FromJoined DEF connection_procedure

\* Pairing that asks nothing: the listeners are registered first.
LEMMA PairFrom ==
    ASSUME NEW ok, Plain \cup Securing \subseteq ok, NEW i \in Iut
    PROVE  Pair(i) \in From(ok, "up", "up")
<1>1. "central" \in Iut /\ "peripheral" \in Iut
  BY DEF Iut
<1>2. /\ gap_sec_level_changed_ev("central") \in From(ok, "up", "sec1")
      /\ gap_sec_level_changed_ev("peripheral") \in From(ok, "sec1", "sec2")
  BY <1>1, RegisterFrom DEF gap_sec_level_changed_ev, RegisterMoves, Event, Plain, Securing
<1>3. gap_pair(i) \in From(ok, "sec2", "securing")
  BY <1>1, SendFrom DEF gap_pair, CommandMoves, Command, Plain, Securing
<1>4. WaitFutures \in From(ok, "securing", "up")
  BY WaitFrom DEF WaitMoves, Plain, Securing
<1>5. Both(gap_sec_level_changed_ev) \in From(ok, "up", "sec2")
  BY <1>2, FromJoined DEF Both
<1>6. QED
  BY <1>3, <1>4, <1>5, FromJoined DEF Pair

\* The steps of a test that sends a command before it registers for its events.
LEMMA LooseFrom ==
    ASSUME NEW ok, Plain \cup {"loose"} \subseteq ok, NEW i \in Iut
    PROVE  /\ gap_pair(i) \in From(ok, "up", "loose")
           /\ gap_conn_param_update(i) \in From(ok, "up", "loose")
           /\ gap_passkey_entry_rsp(i) \in From(ok, "up", "loose")
           /\ gap_passkey_disp_ev(i) \in From(ok, "loose", "loose")
           /\ gap_passkey_entry_req_ev(i) \in From(ok, "loose", "loose")
           /\ Both(gap_passkey_confirm) \in From(ok, "up", "loose")
           /\ Both(gap_passkey_confirm_req_ev) \in From(ok, "loose", "loose")
           /\ Both(gap_sec_level_changed_ev) \in From(ok, "loose", "loose")
           /\ Both(gap_conn_param_update_ev) \in From(ok, "loose", "loose")
           /\ WaitFutures \in From(ok, "loose", "up")
<1>1. "central" \in Iut /\ "peripheral" \in Iut /\ "up" \in ok /\ "loose" \in ok
  BY DEF Iut, Plain
<1>2. \A j \in Iut, c \in {"pair", "passkey_rsp", "conn_param_update"}, a \in {"up", "loose"} :
          Send(j, c) \in From(ok, a, "loose")
  BY <1>1, SendFrom DEF CommandMoves, Command
<1>3. \A j \in Iut, e \in {"params", "passkey", "sec_level"} :
          Register(j, e) \in From(ok, "loose", "loose")
  BY <1>1, RegisterFrom DEF RegisterMoves, Event
<1>4. WaitFutures \in From(ok, "loose", "up")
  BY <1>1, WaitFrom DEF WaitMoves
<1>5. Both(gap_passkey_confirm) \in From(ok, "up", "loose")
  BY <1>1, <1>2, FromJoined DEF Both, gap_passkey_confirm
<1>6. /\ Both(gap_passkey_confirm_req_ev) \in From(ok, "loose", "loose")
      /\ Both(gap_sec_level_changed_ev) \in From(ok, "loose", "loose")
      /\ Both(gap_conn_param_update_ev) \in From(ok, "loose", "loose")
  BY <1>1, <1>3, FromJoined DEF Both, gap_passkey_confirm_req_ev, gap_sec_level_changed_ev,
     gap_conn_param_update_ev
<1>7. QED
  BY <1>1, <1>2, <1>3, <1>4, <1>5, <1>6 DEF gap_pair, gap_conn_param_update, gap_passkey_entry_rsp,
     gap_passkey_disp_ev, gap_passkey_entry_req_ev

LEMMA IoCapFrom ==
    ASSUME NEW ok, Plain \subseteq ok
    PROVE  /\ gap_set_io_cap("peripheral") \in From(ok, "idle", "idle")
           /\ Both(gap_set_io_cap) \in From(ok, "idle", "idle")
           /\ gap_start_direct_adv("peripheral") \in From(ok, "idle", "advertising")
<1>1. "central" \in Iut /\ "peripheral" \in Iut
  BY DEF Iut
<1>2. \A i \in Iut : gap_set_io_cap(i) \in From(ok, "idle", "idle")
  BY SendFrom DEF gap_set_io_cap, CommandMoves, Command, Plain
<1>3. gap_start_direct_adv("peripheral") \in From(ok, "idle", "advertising")
  BY <1>1, SendFrom DEF gap_start_direct_adv, CommandMoves, Command, Plain
<1>4. QED
  BY <1>1, <1>2, <1>3, FromJoined DEF Both

\* The phases a test may be in.
PhasesOf(t) ==
    Plain \cup (IF t \in RegistersLate THEN {"loose"} ELSE {})
          \cup (IF t \in {"CONN_PAIR_1", "CONN_DCON_1"} THEN Securing ELSE {})

LEMMA ProgramPassage ==
    ASSUME NEW t \in Test
    PROVE  \E end \in {"idle", "advertising"} : Program(t) \in From(PhasesOf(t), "idle", end)
<1>1. PICK ok : ok = PhasesOf(t)
  OBVIOUS
<1>2. Plain \subseteq ok
  BY <1>1 DEF PhasesOf
<1>3. /\ Discover \in From(ok, "idle", "advertising") /\ Connect \in From(ok, "advertising", "up")
      /\ connection_procedure \in From(ok, "idle", "up")
      /\ disconnection_procedure \in From(ok, "up", "idle")
  BY <1>2, DiscoverFrom, ConnectFrom, ConnectionFrom, DisconnectFrom
<1>4. /\ gap_set_io_cap("peripheral") \in From(ok, "idle", "idle")
      /\ Both(gap_set_io_cap) \in From(ok, "idle", "idle")
      /\ gap_start_direct_adv("peripheral") \in From(ok, "idle", "advertising")
  BY <1>2, IoCapFrom
<1>5. "central" \in Iut /\ "peripheral" \in Iut
  BY DEF Iut
<1>6. CASE t = "DISC_GENM_1"
  BY <1>1, <1>3, <1>6 DEF Program
<1>7. CASE t = "CONN_GCEP_1"
  <2>1. connection_procedure \o disconnection_procedure \in From(ok, "idle", "idle")
    BY <1>3, FromJoined
  <2>2. QED
    BY <1>1, <1>7, <2>1 DEF Program
<1>8. CASE t = "CONN_DCON_1"
  <2>1. Plain \cup Securing \subseteq ok
    BY <1>1, <1>8 DEF PhasesOf
  <2>2. Pair("peripheral") \in From(ok, "up", "up")
    BY <1>5, <2>1, PairFrom
  <2>3. connection_procedure \o Pair("peripheral") \o disconnection_procedure \in From(ok, "idle", "idle")
    BY <1>3, <2>2, FromJoined
  <2>4. connection_procedure \o Pair("peripheral") \o disconnection_procedure
        \o gap_start_direct_adv("peripheral") \in From(ok, "idle", "advertising")
    BY <1>4, <2>3, FromJoined
  <2>5. CONN_DCON_1 \in From(ok, "idle", "idle")
    BY <1>3, <2>4, FromJoined DEF CONN_DCON_1
  <2>6. QED
    BY <1>1, <1>8, <2>5 DEF Program
<1>9. CASE t = "CONN_PAIR_1"
  <2>1. Plain \cup Securing \subseteq ok
    BY <1>1, <1>9 DEF PhasesOf
  <2>2. Pair("central") \in From(ok, "up", "up")
    BY <1>5, <2>1, PairFrom
  <2>3. gap_set_io_cap("peripheral") \o connection_procedure \in From(ok, "idle", "up")
    BY <1>3, <1>4, FromJoined
  <2>4. CONN_PAIR_1 \in From(ok, "idle", "idle")
    BY <1>3, <2>2, <2>3, FromJoined DEF CONN_PAIR_1
  <2>5. QED
    BY <1>1, <1>9, <2>4 DEF Program
<1>10. CASE t \in {"CONN_CPUP_1", "CONN_CPUP_2"}
  <2>1. Plain \cup {"loose"} \subseteq ok
    BY <1>1, <1>10 DEF PhasesOf, RegistersLate
  <2>2. ASSUME NEW i \in Iut
        PROVE  ParamUpdate(i) \in From(ok, "idle", "idle")
    <3>1. /\ gap_conn_param_update(i) \in From(ok, "up", "loose")
          /\ Both(gap_conn_param_update_ev) \in From(ok, "loose", "loose")
          /\ WaitFutures \in From(ok, "loose", "up")
      BY <2>1, LooseFrom
    <3>2. connection_procedure \o gap_conn_param_update(i) \in From(ok, "idle", "loose")
      BY <1>3, <3>1, FromJoined
    <3>3. connection_procedure \o gap_conn_param_update(i) \o Both(gap_conn_param_update_ev)
          \in From(ok, "idle", "loose")
      BY <3>1, <3>2, FromJoined
    <3>4. QED
      BY <1>3, <3>1, <3>3, FromJoined DEF ParamUpdate
  <2>3. QED
    BY <1>1, <1>5, <1>10, <2>2 DEF Program
<1>11. CASE t = "CONN_PAIR_2"
  <2>1. Plain \cup {"loose"} \subseteq ok
    BY <1>1, <1>11 DEF PhasesOf, RegistersLate
  <2>2. /\ gap_pair("central") \in From(ok, "up", "loose")
        /\ Both(gap_passkey_confirm) \in From(ok, "up", "loose")
        /\ Both(gap_passkey_confirm_req_ev) \in From(ok, "loose", "loose")
        /\ Both(gap_sec_level_changed_ev) \in From(ok, "loose", "loose")
        /\ WaitFutures \in From(ok, "loose", "up")
    BY <1>5, <2>1, LooseFrom
  <2>3. Both(gap_set_io_cap) \o connection_procedure \in From(ok, "idle", "up")
    BY <1>3, <1>4, FromJoined
  <2>4. Both(gap_set_io_cap) \o connection_procedure \o gap_pair("central") \in From(ok, "idle", "loose")
    BY <2>2, <2>3, FromJoined
  <2>5. Both(gap_set_io_cap) \o connection_procedure \o gap_pair("central")
        \o Both(gap_passkey_confirm_req_ev) \o WaitFutures \in From(ok, "idle", "up")
    BY <2>2, <2>4, FromJoined
  <2>6. Both(gap_set_io_cap) \o connection_procedure \o gap_pair("central")
        \o Both(gap_passkey_confirm_req_ev) \o WaitFutures \o Both(gap_passkey_confirm)
        \o Both(gap_sec_level_changed_ev) \in From(ok, "idle", "loose")
    BY <2>2, <2>5, FromJoined
  <2>7. CONN_PAIR_2 \in From(ok, "idle", "idle")
    BY <1>3, <2>2, <2>6, FromJoined DEF CONN_PAIR_2
  <2>8. QED
    BY <1>1, <1>11, <2>7 DEF Program
<1>12. CASE t = "CONN_PAIR_3"
  <2>1. Plain \cup {"loose"} \subseteq ok
    BY <1>1, <1>12 DEF PhasesOf, RegistersLate
  <2>2. /\ gap_pair("central") \in From(ok, "up", "loose")
        /\ gap_passkey_disp_ev("peripheral") \in From(ok, "loose", "loose")
        /\ gap_passkey_entry_req_ev("central") \in From(ok, "loose", "loose")
        /\ gap_passkey_entry_rsp("central") \in From(ok, "up", "loose")
        /\ Both(gap_sec_level_changed_ev) \in From(ok, "loose", "loose")
        /\ WaitFutures \in From(ok, "loose", "up")
    BY <1>5, <2>1, LooseFrom
  <2>3. Both(gap_set_io_cap) \o connection_procedure \in From(ok, "idle", "up")
    BY <1>3, <1>4, FromJoined
  <2>4. Both(gap_set_io_cap) \o connection_procedure \o gap_pair("central") \in From(ok, "idle", "loose")
    BY <2>2, <2>3, FromJoined
  <2>5. Both(gap_set_io_cap) \o connection_procedure \o gap_pair("central")
        \o gap_passkey_disp_ev("peripheral") \o gap_passkey_entry_req_ev("central")
        \o WaitFutures \in From(ok, "idle", "up")
    BY <2>2, <2>4, FromJoined
  <2>6. Both(gap_set_io_cap) \o connection_procedure \o gap_pair("central")
        \o gap_passkey_disp_ev("peripheral") \o gap_passkey_entry_req_ev("central")
        \o WaitFutures \o gap_passkey_entry_rsp("central")
        \o Both(gap_sec_level_changed_ev) \in From(ok, "idle", "loose")
    BY <2>2, <2>5, FromJoined
  <2>7. CONN_PAIR_3 \in From(ok, "idle", "idle")
    BY <1>3, <2>2, <2>6, FromJoined DEF CONN_PAIR_3
  <2>8. QED
    BY <1>1, <1>12, <2>7 DEF Program
<1>13. QED
  BY <1>6, <1>7, <1>8, <1>9, <1>10, <1>11, <1>12, TestAssumption

\* A way through the phases of a test, and where on it the test is.
Route(t) ==
    CHOOSE f \in [0 .. Len(Program(t)) -> PhasesOf(t)] :
        /\ f[0] = "idle"
        /\ \A k \in 1 .. Len(Program(t)) : Moves(f[k - 1], Program(t)[k], f[k])

phase == Route(test)[pc - 1]

LEMMA PhaseMoves ==
    ASSUME TInv
    PROVE  /\ phase \in PhasesOf(test) /\ (pc = 1 => phase = "idle")
           /\ outcome = "running" /\ ~ended =>
                  \E next \in PhasesOf(test) :
                      /\ Moves(phase, step, next)
                      /\ test' = test /\ pc' = pc + 1 => phase' = next
<1>1. PICK n, f : n = Len(Program(test)) /\ f = Route(test)
  OBVIOUS
<1>2. n \in Nat /\ pc \in 1 .. n + 1 /\ test \in Test
  BY <1>1, ProgramTyped DEF TInv, TypeOK
<1>3. /\ f \in [0 .. n -> PhasesOf(test)] /\ f[0] = "idle"
      /\ \A k \in 1 .. n : Moves(f[k - 1], Program(test)[k], f[k])
  <2>1. \E g \in [0 .. Len(Program(test)) -> PhasesOf(test)] :
            /\ g[0] = "idle"
            /\ \A k \in 1 .. Len(Program(test)) : Moves(g[k - 1], Program(test)[k], g[k])
    <3>1. PICK end : Program(test) \in From(PhasesOf(test), "idle", end)
      BY <1>2, ProgramPassage
    <3>2. QED
      BY <3>1 DEF From, Passage
  <2>2. QED
    BY <1>1, <2>1 DEF Route
<1>4. pc - 1 \in 0 .. n /\ (pc = 1 => pc - 1 = 0)
  BY <1>2
<1>5. phase = f[pc - 1]
  BY <1>1 DEF phase
<1>6. ASSUME ~ended
      PROVE  \E next \in PhasesOf(test) :
                 /\ Moves(phase, step, next)
                 /\ test' = test /\ pc' = pc + 1 => phase' = next
  <2>1. pc \in 1 .. n /\ pc \in 0 .. n /\ (pc + 1) - 1 = pc
    BY <1>1, <1>2, <1>6 DEF ended
  <2>2. Moves(phase, step, f[pc]) /\ f[pc] \in PhasesOf(test)
    BY <1>3, <1>5, <2>1 DEF step
  <2>3. test' = test /\ pc' = pc + 1 => phase' = f[pc]
    BY <1>1, <2>1 DEF phase
  <2>4. QED
    BY <2>2, <2>3
<1>7. QED
  BY <1>3, <1>4, <1>5, <1>6

\* The commands whose events a test registers for before it sends them: the
\* event, what the IUTs are about until it happens, the phase in which the
\* command is sent and the one that waits for the event.
Heard == {"conn", "disconn"} \cup (IF JustWorks THEN {"pair"} ELSE {})

EventOf(x) ==
    IF x = "conn" THEN "connected" ELSE IF x = "disconn" THEN "disconnected" ELSE "sec_level"

ActivityOf(x) ==
    IF x = "conn" THEN "connecting" ELSE IF x = "disconn" THEN "disconnecting" ELSE "pairing"

ReadyPhase(x) ==
    IF x = "conn" THEN "listen2" ELSE IF x = "disconn" THEN "leave2" ELSE "sec2"

RunPhase(x) ==
    IF x = "conn" THEN "calling" ELSE IF x = "disconn" THEN "leaving" ELSE "securing"

Runs(x) == phase = RunPhase(x) \/ (phase = ReadyPhase(x) /\ sent)
Begins(x) == Pends(x) \/ ActivityOf(x) \in doing
Under(x, i) == Begins(x) \/ Coming(EventOf(x), stream[i]) \/ Coming(EventOf(x), due[i])

\* Never two at a time.
One(x, i) ==
    /\ Pends(x) => ActivityOf(x) \notin doing
    /\ Begins(x) => ~Coming(EventOf(x), stream[i]) /\ ~Coming(EventOf(x), due[i])
    /\ Coming(EventOf(x), stream[i]) => ~Coming(EventOf(x), due[i])
    /\ Once(EventOf(x), stream[i]) /\ Once(EventOf(x), due[i])

\* What is awaited is under way, and what is under way is awaited.
HeardOf(x, i) == One(x, i) /\ (Under(x, i) <=> Runs(x) /\ EventOf(x) \in listeners[i])

\* The listeners of a phase; and the phases in which none of them is released.
Awaits(ph, i) ==
    IF ph = "finding" THEN {"found"}
    ELSE IF ph \in {"listen2", "calling"} \/ (ph = "listen1" /\ i = "central") THEN {"connected"}
    ELSE IF ph \in {"leave2", "leaving"} \/ (ph = "leave1" /\ i = "central") THEN {"disconnected"}
    ELSE IF ph \in {"sec2", "securing"} \/ (ph = "sec1" /\ i = "central") THEN {"sec_level"}
    ELSE IF ph = "loose" THEN {"params", "passkey", "sec_level"} ELSE {}

Collects == {"listen1", "leave1", "sec1", "listen2", "leave2", "sec2"}
Linked == {"up", "leave1", "leave2", "sec1", "sec2", "securing", "loose"}

Obeying ==
    /\ crashed = {}
    /\ sent => At("command")
    /\ \A i \in Iut : pending[i] \subseteq {step.what}
    /\ \A i \in Iut : ~Coming("error", stream[i]) /\ ~Coming("error", rspq[i])

Listening ==
    \A i \in Iut :
        /\ listeners[i] \subseteq Awaits(phase, i)
        /\ phase \in Collects /\ ~sent => listeners[i] = Awaits(phase, i)

Expecting == \A x \in Heard : \A i \in Iut : HeardOf(x, i)

Linking ==
    /\ Runs("conn") =>
           /\ link <=> ~Begins("conn")
           /\ \A i \in Iut : connections[i] <=> "connected" \notin listeners[i]
    /\ Runs("disconn") =>
           /\ link <=> Begins("disconn")
           /\ \A i \in Iut : connections[i] <=> "disconnected" \in listeners[i]
    /\ ~Runs("conn") /\ ~Runs("disconn") =>
           /\ link <=> phase \in Linked
           /\ \A i \in Iut : connections[i] <=> phase \in Linked

Showing ==
    /\ phase \in {"advertising", "scanning", "finding", "found", "listen1"} => "advertising" \in doing
    /\ (phase = "listen2" /\ ~sent) \/ Begins("conn") => "advertising" \in doing
    /\ phase \in {"scanning", "finding"} => "scanning" \in doing
    /\ sent /\ step.what \in {"start_adv", "start_direct_adv"} =>
           "advertising" \in doing \/ Pends(step.what)
    /\ sent /\ step.what = "start_discov" => "scanning" \in doing \/ Pends(step.what)
    /\ JustWorks => "keys" \notin doing

Steady == Obeying /\ Listening /\ Expecting /\ Linking /\ Showing

\* The listeners registered before their command never go astray, as no event of
\* theirs is handled while they are.
Reaching ==
    /\ list # "none" => At("register")
    /\ list = "old" => \A x \in Heard : EventOf(x) # step.what
    /\ \A i \in Iut : astray[i] \subseteq listeners[i]
    /\ \A i \in Iut : \A x \in Heard : EventOf(x) \notin astray[i]

\* What the test needs is there as long as nothing is lost and it runs.
FInv == ~lost /\ outcome = "running" => Steady /\ Reaching

\* Where the test is as long as it stands still.
LEMMA PhaseSame ==
    ASSUME UNCHANGED <<test, pc, sent, outcome>>
    PROVE  /\ phase' = phase /\ ended' = ended /\ step' = step /\ At("command")' = At("command")
           /\ Heard' = Heard /\ JustWorks' = JustWorks
           /\ \A x : Runs(x)' = Runs(x)
BY DEF phase, ended, step, At, Heard, JustWorks, Runs

LEMMA SteadyInit == Init => FInv
<1> SUFFICES ASSUME Init
             PROVE  Steady /\ Reaching
  BY DEF FInv
<1>1. TInv
  BY TypeInit
<1>2. phase = "idle" /\ sent = FALSE
  BY <1>1, PhaseMoves DEF Init
<1>3. \A c : ~Coming(c, <<>>) /\ Once(c, <<>>)
  <2>1. Len(<<>>) = 0
    OBVIOUS
  <2>2. QED
    BY <2>1 DEF Coming, Once
<1>4. \A i \in Iut : stream[i] = <<>> /\ due[i] = <<>> /\ rspq[i] = <<>> /\ pending[i] = {} /\ listeners[i] = {}
  BY DEF Init
<1>5. Obeying
  BY <1>2, <1>3, <1>4 DEF Obeying, Init
<1>6. \A x : ~Runs(x) /\ ~Begins(x)
  BY <1>2, <1>4 DEF Runs, Begins, Pends, RunPhase, ReadyPhase, Init
<1>7. Listening
  BY <1>2, <1>4 DEF Listening, Collects
<1>8. Expecting
  <2>1. \A x : ~Pends(x)
    BY <1>4 DEF Pends
  <2>2. QED
    BY <1>3, <1>4, <1>6, <2>1 DEF Expecting, HeardOf, One, Under
<1>9. Linking
  BY <1>2, <1>6 DEF Linking, Linked, Init
<1>10. Showing
  BY <1>2, <1>6 DEF Showing, Init
<1>11. Reaching
  BY DEF Reaching, Init
<1>12. QED
  BY <1>5, <1>7, <1>8, <1>9, <1>10, <1>11 DEF Steady

\* A step of the IUTs: the test stands still, and so do the stacks.
LEMMA SteadyKept ==
    ASSUME Steady, UNCHANGED <<test, pc, sent, outcome, registryVars, connections>>,
           UNCHANGED <<crashed, link, rspq>>,
           \A x \in {"conn", "disconn"} : Begins(x)' = Begins(x),
           \A i \in Iut : pending'[i] \subseteq pending[i],
           \A i \in Iut : Coming("error", stream'[i]) => Coming("error", stream[i]),
           \A x \in Heard : \A i \in Iut : One(x, i)' /\ (Under(x, i)' <=> Under(x, i)),
           Showing'
    PROVE  Steady'
<1>1. /\ phase' = phase /\ step' = step /\ At("command")' = At("command") /\ Heard' = Heard
      /\ \A x : Runs(x)' = Runs(x)
  BY PhaseSame
<1>2. Obeying'
  BY <1>1 DEF Steady, Obeying
<1>3. Listening'
  BY <1>1 DEF Steady, Listening
<1>4. Expecting'
  BY <1>1 DEF Steady, Expecting, HeardOf
<1>5. Linking'
  BY <1>1 DEF Steady, Linking
<1>6. QED
  BY <1>2, <1>3, <1>4, <1>5 DEF Steady

\* The phase a command belongs to.
LEMMA CommandPhase ==
    ASSUME TInv, At("command")
    PROVE  \E next \in PhasesOf(test) :
               /\ CommandMoves(step.what, phase, next)
               /\ test' = test /\ pc' = pc + 1 => phase' = next
<1>1. PICK next \in PhasesOf(test) :
         Moves(phase, step, next) /\ (test' = test /\ pc' = pc + 1 => phase' = next)
  BY PhaseMoves DEF At
<1>2. step.do = "command"
  BY DEF At
<1>3. QED
  BY <1>1, <1>2 DEF Moves

\* The commands of the phases that are heard of, and of no other.
LEMMA HeardCommand ==
    ASSUME TInv, At("command")
    PROVE  /\ \A x \in Heard : step.what = x <=> phase = ReadyPhase(x)
           /\ \A x \in Heard : phase # RunPhase(x)
           /\ phase \notin {"listen1", "leave1", "sec1", "scanning", "finding"}
<1>1. PICK next \in PhasesOf(test) : CommandMoves(step.what, phase, next)
  BY CommandPhase
<1>2. /\ step.what = "conn" <=> phase = "listen2"
      /\ step.what = "disconn" <=> phase = "leave2"
      /\ phase = "sec2" => step.what = "pair"
      /\ step.what = "pair" => phase = "sec2" \/ next = "loose"
      /\ phase \notin {"calling", "leaving", "securing", "listen1", "leave1", "sec1", "scanning", "finding"}
  BY <1>1 DEF CommandMoves
<1>3. JustWorks => next # "loose"
  BY <1>1 DEF JustWorks, PhasesOf, RegistersLate, Plain, Securing
<1>4. QED
  BY <1>2, <1>3 DEF Heard, ReadyPhase, RunPhase

LEMMA SteadyAnswer == ASSUME TInv, Steady, NEW i \in Iut, Answer(i) PROVE Steady'
<1>1. /\ UNCHANGED <<test, pc, sent, outcome, registryVars, rspq, connections, due, crashed, link>>
      /\ pending' = [pending EXCEPT ![i] = {}] /\ pending[i] # {} /\ outcome = "running"
      /\ pending \in [Iut -> SUBSET Command] /\ stream \in [Iut -> Seq(Frames)]
  BY DEF Answer, TInv, TypeOK, Frames
<1>2. At("command") /\ sent /\ step.iut = i /\ \A j \in Iut : j # i => pending[j] = {}
  BY <1>1 DEF TInv, Awaited, Owed
<1>3. PICK c \in pending[i] :
         IF c \in NeedsLink /\ ~link THEN TRUE
         ELSE /\ stream' = [stream EXCEPT ![i] = Append(@, "success")]
              /\ doing' = IF c = "stop_discov" THEN doing \ {"scanning"} ELSE doing \cup Begun(c)
  BY DEF Answer
<1>4. c = step.what /\ pending[i] = {c}
  BY <1>1 DEF Steady, Obeying
<1>5. PICK next \in PhasesOf(test) : CommandMoves(c, phase, next)
  BY <1>2, <1>4, CommandPhase
<1>6. \A x : (Pends(x) <=> x = c) /\ ~Pends(x)'
  BY <1>1, <1>2, <1>4 DEF Pends
<1>7. c \in NeedsLink => link
  <2>1. CASE c = "disconn"
    <3>1. phase = "leave2"
      BY <1>5, <2>1 DEF CommandMoves
    <3>2. Runs("disconn") /\ Begins("disconn")
      BY <1>2, <1>6, <2>1, <3>1 DEF Runs, ReadyPhase, Begins
    <3>3. QED
      BY <3>2 DEF Steady, Linking
  <2>2. CASE c \in {"pair", "passkey_rsp", "conn_param_update"}
    <3>1. phase \in {"sec2", "up", "loose"}
      BY <1>5, <2>2 DEF CommandMoves
    <3>2. ~Runs("conn") /\ ~Runs("disconn") /\ phase \in Linked
      BY <3>1 DEF Runs, RunPhase, ReadyPhase, Linked
    <3>3. QED
      BY <3>2 DEF Steady, Linking
  <2>3. QED
    BY <2>1, <2>2 DEF NeedsLink
<1>8. /\ stream' = [stream EXCEPT ![i] = Append(@, "success")]
      /\ doing' = IF c = "stop_discov" THEN doing \ {"scanning"} ELSE doing \cup Begun(c)
  BY <1>3, <1>7
<1>9. \A x \in {"conn", "disconn", "pair"} : ActivityOf(x) \in doing' <=> ActivityOf(x) \in doing \/ x = c
  BY <1>8 DEF ActivityOf, Begun
<1>10. \A x \in {"conn", "disconn", "pair"} : Begins(x)' = Begins(x)
  BY <1>6, <1>9 DEF Begins
<1>11. ASSUME NEW j \in Iut, NEW e, e # "success"
       PROVE  Coming(e, stream'[j]) = Coming(e, stream[j]) /\ (Once(e, stream[j]) => Once(e, stream'[j]))
  <2>1. CASE j = i
    <3>1. stream'[i] = Append(stream[i], "success") /\ stream[i] \in Seq(Frames) /\ "success" \in Frames
      BY <1>1, <1>8 DEF Frames, Response
    <3>2. /\ Coming(e, Append(stream[i], "success")) <=> Coming(e, stream[i])
          /\ Once(e, stream[i]) => Once(e, Append(stream[i], "success"))
      BY <1>11, <3>1, ComingGrows
    <3>3. QED
      BY <2>1, <3>1, <3>2 DEF Coming
  <2>2. CASE j # i
    BY <1>1, <1>8, <2>2
  <2>3. QED
    BY <2>1, <2>2
<1>12. Heard \subseteq {"conn", "disconn", "pair"} /\ \A x : EventOf(x) # "success"
  BY DEF Heard, EventOf
<1>13. ASSUME NEW x \in Heard, NEW j \in Iut
       PROVE  One(x, j)' /\ (Under(x, j)' <=> Under(x, j))
  <2>1. One(x, j)
    BY DEF Steady, Expecting, HeardOf
  <2>2. /\ Coming(EventOf(x), stream'[j]) = Coming(EventOf(x), stream[j])
        /\ Once(EventOf(x), stream[j]) => Once(EventOf(x), stream'[j])
    BY <1>11, <1>12
  <2>3. QED
    BY <1>1, <1>6, <1>10, <1>12, <2>1, <2>2 DEF One, Under
<1>14. Showing'
  <2>1. phase' = phase /\ step' = step /\ JustWorks' = JustWorks
    BY <1>1, PhaseSame
  <2>2. "advertising" \in doing' <=> "advertising" \in doing \/ c \in {"start_adv", "start_direct_adv"}
    BY <1>8 DEF Begun
  <2>3. "scanning" \in doing => "scanning" \in doing' \/ c = "stop_discov"
    BY <1>8
  <2>4. c = "start_discov" => "scanning" \in doing'
    BY <1>8 DEF Begun
  <2>5. "keys" \in doing' <=> "keys" \in doing
    BY <1>8 DEF Begun
  <2>6. c = "stop_discov" => phase = "found"
    BY <1>5 DEF CommandMoves
  <2>7. QED
    BY <1>1, <1>4, <1>6, <1>10, <2>1, <2>2, <2>3, <2>4, <2>5, <2>6 DEF Steady, Showing
<1>15. QED
  BY <1>1, <1>10, <1>11, <1>13, <1>14, SteadyKept

LEMMA SteadyReport == ASSUME TInv, Steady, Report PROVE Steady'
<1>1. /\ UNCHANGED <<test, pc, sent, outcome, registryVars, rspq, connections, due, crashed, link>>
      /\ UNCHANGED <<doing, pending>>
      /\ stream' = [stream EXCEPT !["central"] = Append(@, "found")]
      /\ stream \in [Iut -> Seq(Frames)] /\ "central" \in Iut /\ "found" \in Frames
  BY DEF Report, TInv, TypeOK, Frames, Event, Iut
<1>2. ASSUME NEW j \in Iut, NEW e, e # "found"
      PROVE  Coming(e, stream'[j]) = Coming(e, stream[j]) /\ (Once(e, stream[j]) => Once(e, stream'[j]))
  <2>1. CASE j = "central"
    <3>1. stream'[j] = Append(stream[j], "found") /\ stream[j] \in Seq(Frames)
      BY <1>1, <2>1
    <3>2. /\ Coming(e, Append(stream[j], "found")) <=> Coming(e, stream[j])
          /\ Once(e, stream[j]) => Once(e, Append(stream[j], "found"))
      BY <1>1, <1>2, <3>1, ComingGrows
    <3>3. QED
      BY <3>1, <3>2 DEF Coming
  <2>2. CASE j # "central"
    BY <1>1, <2>2
  <2>3. QED
    BY <2>1, <2>2
<1>3. \A x : Pends(x)' = Pends(x) /\ Begins(x)' = Begins(x)
  BY <1>1 DEF Begins, Pends
<1>4. ASSUME NEW x \in Heard, NEW j \in Iut
      PROVE  One(x, j)' /\ (Under(x, j)' <=> Under(x, j))
  <2>1. One(x, j) /\ EventOf(x) # "found"
    BY DEF Steady, Expecting, HeardOf, EventOf
  <2>2. /\ Coming(EventOf(x), stream'[j]) = Coming(EventOf(x), stream[j])
        /\ Once(EventOf(x), stream[j]) => Once(EventOf(x), stream'[j])
    BY <1>2, <2>1
  <2>3. QED
    BY <1>1, <1>3, <2>1, <2>2 DEF One, Under
<1>5. phase' = phase /\ step' = step /\ JustWorks' = JustWorks
  BY <1>1, PhaseSame
<1>6. Showing'
  BY <1>1, <1>3, <1>5 DEF Steady, Showing
<1>7. QED
  BY <1>1, <1>2, <1>3, <1>4, <1>6, SteadyKept

LEMMA SteadySendEvent == ASSUME TInv, Steady, NEW i \in Iut, SendEvent(i) PROVE Steady'
<1>1. /\ UNCHANGED <<test, pc, sent, outcome, registryVars, rspq, connections, crashed, link>>
      /\ UNCHANGED <<doing, pending>>
      /\ stream' = [stream EXCEPT ![i] = Append(@, Head(due[i]))]
      /\ due' = [due EXCEPT ![i] = Tail(@)] /\ due[i] # <<>>
      /\ stream \in [Iut -> Seq(Frames)] /\ due \in [Iut -> Seq(Event)]
  BY DEF SendEvent, TInv, TypeOK, Frames
<1>2. \A x : Pends(x)' = Pends(x) /\ Begins(x)' = Begins(x)
  BY <1>1 DEF Begins, Pends
<1>3. PICK e, less : e = Head(due[i]) /\ less = Tail(due[i])
  OBVIOUS
<1>4. /\ e \in Frames /\ e # "error" /\ stream[i] \in Seq(Frames) /\ due[i] \in Seq(Event)
      /\ stream'[i] = Append(stream[i], e) /\ due'[i] = less
      /\ \A j \in Iut : j # i => stream'[j] = stream[j] /\ due'[j] = due[j]
  <2>1. e \in Event
    BY <1>1, <1>3
  <2>2. QED
    BY <1>1, <1>3, <2>1 DEF Frames, Event
<1>5. ASSUME NEW c
      PROVE  /\ Coming(c, due[i]) <=> Coming(c, due'[i]) \/ e = c
             /\ Once(c, due[i]) => Once(c, due'[i]) /\ (e = c => ~Coming(c, due'[i]))
             /\ Coming(c, stream'[i]) <=> Coming(c, stream[i]) \/ e = c
             /\ Once(c, stream[i]) /\ (e = c => ~Coming(c, stream[i])) => Once(c, stream'[i])
  <2>1. /\ Coming(c, due[i]) <=> Coming(c, less) \/ e = c
        /\ Once(c, due[i]) => Once(c, less) /\ (e = c => ~Coming(c, less))
    BY <1>1, <1>3, <1>4, ComingShrinks
  <2>2. /\ Coming(c, stream'[i]) <=> Coming(c, stream[i]) \/ e = c
        /\ Once(c, stream[i]) /\ (e = c => ~Coming(c, stream[i])) => Once(c, stream'[i])
    BY <1>4, ComingGrows
  <2>3. QED
    BY <1>4, <2>1, <2>2
<1>6. ASSUME NEW x \in Heard, NEW j \in Iut
      PROVE  One(x, j)' /\ (Under(x, j)' <=> Under(x, j))
  <2>1. One(x, j)
    BY DEF Steady, Expecting, HeardOf
  <2>2. CASE j # i
    <3>1. stream'[j] = stream[j] /\ due'[j] = due[j]
      BY <1>4, <2>2
    <3>2. QED
      BY <1>1, <1>2, <2>1, <3>1 DEF One, Under
  <2>3. CASE j = i
    BY <1>1, <1>2, <1>5, <2>1, <2>3 DEF One, Under
  <2>4. QED
    BY <2>2, <2>3
<1>7. \A j \in Iut : Coming("error", stream'[j]) => Coming("error", stream[j])
  BY <1>4, <1>5
<1>8. phase' = phase /\ step' = step /\ JustWorks' = JustWorks
  BY <1>1, PhaseSame
<1>9. Showing'
  BY <1>1, <1>2, <1>8 DEF Steady, Showing
<1>10. QED
  BY <1>1, <1>2, <1>6, <1>7, <1>9, SteadyKept

\* Both IUTs notice the event e.
LEMMA NoticeComing ==
    ASSUME TInv, crashed = {}, NEW e \in Event, BothNotice(e), NEW i \in Iut, NEW c
    PROVE  /\ Coming(c, due'[i]) <=> Coming(c, due[i]) \/ e = c
           /\ Once(c, due[i]) /\ (e = c => ~Coming(c, due[i])) => Once(c, due'[i])
<1>1. due'[i] = Append(due[i], e) /\ due[i] \in Seq(Event)
  BY DEF BothNotice, TInv, TypeOK
<1>2. /\ Coming(c, Append(due[i], e)) <=> Coming(c, due[i]) \/ e = c
      /\ Once(c, due[i]) /\ (e = c => ~Coming(c, due[i])) => Once(c, Append(due[i], e))
  BY <1>1, ComingGrows
<1>3. QED
  BY <1>1, <1>2

\* The event of x, which was under way.
LEMMA NoticeHeard ==
    ASSUME TInv, Steady, NEW x \in Heard, BothNotice(EventOf(x)), UNCHANGED <<pending, stream>>,
           ActivityOf(x) \in doing, ActivityOf(x) \notin doing'
    PROVE  /\ Begins(x) /\ ~Begins(x)' /\ Runs(x)
           /\ \A i \in Iut : One(x, i)' /\ (Under(x, i)' <=> Under(x, i)) /\ EventOf(x) \in listeners[i]
<1>1. crashed = {} /\ EventOf(x) \in Event
  BY DEF Steady, Obeying, EventOf, Event
<1>2. Pends(x)' = Pends(x)
  BY DEF Pends
<1>3. ASSUME NEW i \in Iut
      PROVE  /\ ~Pends(x) /\ One(x, i)' /\ (Under(x, i)' <=> Under(x, i))
             /\ Runs(x) /\ EventOf(x) \in listeners[i]
  <2>1. HeardOf(x, i)
    BY DEF Steady, Expecting
  <2>2. /\ ~Pends(x) /\ Under(x, i)
        /\ ~Coming(EventOf(x), stream[i]) /\ ~Coming(EventOf(x), due[i])
        /\ Once(EventOf(x), stream[i]) /\ Once(EventOf(x), due[i])
    BY <2>1 DEF HeardOf, One, Begins, Under
  <2>3. Coming(EventOf(x), due'[i]) /\ Once(EventOf(x), due'[i])
    BY <1>1, <2>2, NoticeComing
  <2>4. QED
    BY <1>2, <2>1, <2>2, <2>3 DEF HeardOf, One, Begins, Under
<1>4. Begins(x) /\ ~Begins(x)' /\ Runs(x)
  BY <1>2, <1>3 DEF Begins, Iut
<1>5. QED
  BY <1>3, <1>4

\* Another event.
LEMMA NoticeOther ==
    ASSUME TInv, Steady, NEW x \in Heard, NEW e \in Event, e # EventOf(x), BothNotice(e),
           UNCHANGED <<pending, stream>>, ActivityOf(x) \in doing' <=> ActivityOf(x) \in doing
    PROVE  /\ Begins(x)' = Begins(x)
           /\ \A i \in Iut : One(x, i)' /\ (Under(x, i)' <=> Under(x, i))
<1>1. crashed = {}
  BY DEF Steady, Obeying
<1>2. Pends(x)' = Pends(x)
  BY DEF Pends
<1>3. Begins(x)' = Begins(x)
  BY <1>2 DEF Begins
<1>4. ASSUME NEW i \in Iut
      PROVE  One(x, i)' /\ (Under(x, i)' <=> Under(x, i))
  <2>1. One(x, i)
    BY DEF Steady, Expecting, HeardOf
  <2>2. /\ Coming(EventOf(x), due'[i]) <=> Coming(EventOf(x), due[i])
        /\ Once(EventOf(x), due[i]) => Once(EventOf(x), due'[i])
    BY <1>1, NoticeComing
  <2>3. QED
    BY <1>2, <1>3, <2>1, <2>2 DEF One, Under
<1>5. QED
  BY <1>3, <1>4

LEMMA SteadyConnect == ASSUME TInv, Steady, outcome = "running", ConnectOnAir PROVE Steady'
<1>1. /\ UNCHANGED <<test, pc, sent, outcome, registryVars, rspq, connections, pending, stream, crashed>>
      /\ BothNotice("connected") /\ link' = TRUE
      /\ doing' = doing \ {"advertising", "connecting"} /\ "connecting" \in doing
  BY DEF ConnectOnAir, CanConnect
<1>2. /\ phase' = phase /\ step' = step /\ At("command")' = At("command") /\ Heard' = Heard
      /\ JustWorks' = JustWorks /\ \A x : Runs(x)' = Runs(x)
  BY <1>1, PhaseSame
<1>3. "conn" \in Heard /\ "disconn" \in Heard /\ Heard \subseteq {"conn", "disconn", "pair"}
  BY DEF Heard
<1>4. /\ Begins("conn") /\ ~Begins("conn")' /\ Runs("conn")
      /\ \A i \in Iut : /\ One("conn", i)' /\ (Under("conn", i)' <=> Under("conn", i))
                        /\ "connected" \in listeners[i]
  BY <1>1, <1>3, NoticeHeard DEF EventOf, ActivityOf
<1>5. \A x \in Heard \ {"conn"} :
          /\ Begins(x)' = Begins(x)
          /\ \A i \in Iut : One(x, i)' /\ (Under(x, i)' <=> Under(x, i))
  <2>1. \A x \in Heard \ {"conn"} : EventOf(x) # "connected" /\ ActivityOf(x) \notin {"advertising", "connecting"}
    BY <1>3 DEF EventOf, ActivityOf
  <2>2. "connected" \in Event
    BY DEF Event
  <2>3. QED
    BY <1>1, <2>1, <2>2, NoticeOther
<1>6. Obeying'
  BY <1>1, <1>2 DEF Steady, Obeying
<1>7. Listening'
  BY <1>1, <1>2 DEF Steady, Listening
<1>8. Expecting'
  BY <1>1, <1>2, <1>4, <1>5 DEF Steady, Expecting, HeardOf
<1>9. ~Runs("disconn")
  BY <1>4 DEF Runs, RunPhase, ReadyPhase
<1>10. Linking'
  BY <1>1, <1>2, <1>4, <1>9 DEF Steady, Linking
<1>11. Showing'
  <2>1. phase \in {"calling", "listen2"} /\ (phase = "listen2" => sent)
    BY <1>4 DEF Runs, RunPhase, ReadyPhase
  <2>2. sent => step.what = "conn"
    <3>1. ASSUME sent
          PROVE  step.what = "conn"
      <4>1. At("command")
        BY <3>1 DEF Steady, Obeying
      <4>2. PICK next : CommandMoves(step.what, phase, next)
        BY <4>1, CommandPhase
      <4>3. QED
        BY <2>1, <4>2 DEF CommandMoves
    <3>2. QED
      BY <3>1
  <2>3. "keys" \in doing' => "keys" \in doing
    BY <1>1
  <2>4. QED
    BY <1>1, <1>2, <1>4, <2>1, <2>2, <2>3 DEF Steady, Showing
<1>12. QED
  BY <1>6, <1>7, <1>8, <1>10, <1>11 DEF Steady

LEMMA SteadyDisconnect == ASSUME TInv, Steady, outcome = "running", DisconnectOnAir PROVE Steady'
<1>1. /\ UNCHANGED <<test, pc, sent, outcome, registryVars, rspq, connections, pending, stream, crashed>>
      /\ BothNotice("disconnected") /\ link' = FALSE
      /\ doing' = {} /\ "disconnecting" \in doing
  BY DEF DisconnectOnAir, CanDisconnect
<1>2. /\ phase' = phase /\ step' = step /\ At("command")' = At("command") /\ Heard' = Heard
      /\ JustWorks' = JustWorks /\ \A x : Runs(x)' = Runs(x)
  BY <1>1, PhaseSame
<1>3. "conn" \in Heard /\ "disconn" \in Heard /\ Heard \subseteq {"conn", "disconn", "pair"}
  BY DEF Heard
<1>4. /\ Begins("disconn") /\ ~Begins("disconn")' /\ Runs("disconn")
      /\ \A i \in Iut : /\ One("disconn", i)' /\ (Under("disconn", i)' <=> Under("disconn", i))
                        /\ "disconnected" \in listeners[i]
  BY <1>1, <1>3, NoticeHeard DEF EventOf, ActivityOf
<1>5. phase \in {"leaving", "leave2"}
  BY <1>4 DEF Runs, RunPhase, ReadyPhase
<1>6. \A x \in Heard \ {"disconn"} : ~Runs(x)
  BY <1>3, <1>5 DEF Runs, RunPhase, ReadyPhase
<1>7. \A x \in Heard \ {"disconn"} :
          /\ Begins(x)' = Begins(x)
          /\ \A i \in Iut : One(x, i)' /\ (Under(x, i)' <=> Under(x, i))
  <2>1. \A x \in Heard \ {"disconn"} : EventOf(x) # "disconnected"
    BY <1>3 DEF EventOf
  <2>2. "disconnected" \in Event
    BY DEF Event
  <2>3. \A x \in Heard \ {"disconn"} : ActivityOf(x) \notin doing
    BY <1>6 DEF Steady, Expecting, HeardOf, Under, Begins, Iut
  <2>4. QED
    BY <1>1, <2>1, <2>2, <2>3, NoticeOther
<1>8. Obeying'
  BY <1>1, <1>2 DEF Steady, Obeying
<1>9. Listening'
  BY <1>1, <1>2 DEF Steady, Listening
<1>10. Expecting'
  BY <1>1, <1>2, <1>4, <1>7 DEF Steady, Expecting, HeardOf
<1>11. Linking'
  BY <1>1, <1>2, <1>3, <1>4, <1>6 DEF Steady, Linking
<1>12. Showing'
  <2>1. sent => step.what = "disconn"
    <3>1. ASSUME sent
          PROVE  step.what = "disconn"
      <4>1. At("command")
        BY <3>1 DEF Steady, Obeying
      <4>2. PICK next : CommandMoves(step.what, phase, next)
        BY <4>1, CommandPhase
      <4>3. QED
        BY <1>5, <4>2 DEF CommandMoves
    <3>2. QED
      BY <3>1
  <2>2. ~Begins("conn")'
    BY <1>3, <1>6, <1>7 DEF Steady, Expecting, HeardOf, Under, Iut
  <2>3. QED
    BY <1>1, <1>2, <1>5, <2>1, <2>2 DEF Showing
<1>13. QED
  BY <1>8, <1>9, <1>10, <1>11, <1>12 DEF Steady

\* What happens over a link that stays.
LEMMA SteadyOverLink ==
    ASSUME TInv, Steady, outcome = "running", AskPasskey \/ PairOnAir \/ UpdateOnAir
    PROVE  Steady'
<1>1. /\ UNCHANGED <<test, pc, sent, outcome, registryVars, rspq, connections, pending, stream, crashed, link>>
      /\ doing \ doing' \subseteq {"pairing", "keys", "updating"} /\ doing' \ doing \subseteq {"keys"}
      /\ JustWorks => doing' \subseteq doing
  BY DEF AskPasskey, PairOnAir, UpdateOnAir, CanAsk
<1>2. PICK e \in {"passkey", "sec_level", "params"} :
         /\ BothNotice(e)
         /\ IF e = "sec_level" /\ JustWorks THEN "pairing" \in doing /\ "pairing" \notin doing'
            ELSE JustWorks => ("pairing" \in doing' <=> "pairing" \in doing)
  <2>1. CASE AskPasskey
    BY <2>1 DEF AskPasskey, CanAsk
  <2>2. CASE PairOnAir
    <3>1. JustWorks => "pairing" \in doing
      BY <2>2 DEF PairOnAir, CanPair, Steady, Showing
    <3>2. QED
      BY <2>2, <3>1 DEF PairOnAir
  <2>3. CASE UpdateOnAir
    BY <2>3 DEF UpdateOnAir
  <2>4. QED
    BY <2>1, <2>2, <2>3
<1>3. \A x \in {"conn", "disconn"} : Begins(x)' = Begins(x)
  <2>1. \A x \in {"conn", "disconn"} : ActivityOf(x) \in doing' <=> ActivityOf(x) \in doing
    BY <1>1 DEF ActivityOf
  <2>2. QED
    BY <1>1, <2>1 DEF Begins, Pends
<1>4. ASSUME NEW x \in Heard
      PROVE  \A i \in Iut : One(x, i)' /\ (Under(x, i)' <=> Under(x, i))
  <2>1. e \in Event
    BY DEF Event
  <2>2. CASE e = EventOf(x)
    <3>1. x = "pair" /\ JustWorks /\ e = "sec_level" /\ ActivityOf(x) = "pairing"
      BY <2>2 DEF Heard, EventOf, ActivityOf
    <3>2. QED
      BY <1>1, <1>2, <2>2, <3>1, NoticeHeard
  <2>3. CASE e # EventOf(x)
    <3>1. ActivityOf(x) \in doing' <=> ActivityOf(x) \in doing
      <4>1. CASE x \in {"conn", "disconn"}
        BY <1>1, <4>1 DEF ActivityOf
      <4>2. CASE x = "pair" /\ JustWorks
        BY <1>2, <2>3, <4>2 DEF ActivityOf, EventOf
      <4>3. QED
        BY <4>1, <4>2 DEF Heard
    <3>2. QED
      BY <1>1, <1>2, <2>1, <2>3, <3>1, NoticeOther
  <2>4. QED
    BY <2>2, <2>3
<1>5. Showing'
  <2>1. phase' = phase /\ step' = step /\ JustWorks' = JustWorks
    BY <1>1, PhaseSame
  <2>2. /\ "advertising" \in doing' <=> "advertising" \in doing
        /\ "scanning" \in doing' <=> "scanning" \in doing
        /\ JustWorks /\ "keys" \in doing' => "keys" \in doing
    BY <1>1
  <2>3. \A x : Pends(x)' = Pends(x)
    BY <1>1 DEF Pends
  <2>4. QED
    BY <1>1, <1>3, <2>1, <2>2, <2>3 DEF Steady, Showing
<1>6. QED
  BY <1>1, <1>3, <1>4, <1>5, SteadyKept

\* The receive thread: what it hears is awaited.
LEMMA SteadyRx == ASSUME TInv, Steady, Reaching, NEW i \in Iut, Rx(i) PROVE Steady'
<1>1. /\ UNCHANGED <<test, pc, sent, outcome, pending, due, crashed, doing, link>>
      /\ stream' = [stream EXCEPT ![i] = Tail(@)] /\ stream[i] # <<>>
      /\ stream \in [Iut -> Seq(Frames)] /\ connections \in [Iut -> BOOLEAN]
      /\ listeners \in [Iut -> SUBSET Event] /\ rspq \in [Iut -> Seq(Response)]
  BY DEF Rx, RxResponse, ConnectedEv, DisconnectedEv, OtherEv, Notify, Receiving, TInv, TypeOK, Frames
<1>2. /\ phase' = phase /\ step' = step /\ At("command")' = At("command") /\ Heard' = Heard
      /\ JustWorks' = JustWorks /\ \A x : Runs(x)' = Runs(x)
  BY <1>1, PhaseSame
<1>3. PICK f : f = Frame(i)
  OBVIOUS
<1>4. /\ stream'[i] = Tail(stream[i]) /\ stream[i] \in Seq(Frames)
      /\ \A j \in Iut : j # i => stream'[j] = stream[j]
  BY <1>1
<1>5. ASSUME NEW c
      PROVE  /\ Coming(c, stream[i]) <=> Coming(c, stream'[i]) \/ f = c
             /\ Once(c, stream[i]) => Once(c, stream'[i]) /\ (f = c => ~Coming(c, stream'[i]))
  <2>1. /\ Coming(c, stream[i]) <=> Coming(c, Tail(stream[i])) \/ Head(stream[i]) = c
        /\ Once(c, stream[i]) =>
              Once(c, Tail(stream[i])) /\ (Head(stream[i]) = c => ~Coming(c, Tail(stream[i])))
    BY <1>1, <1>4, ComingShrinks
  <2>2. QED
    BY <1>3, <1>4, <2>1 DEF Frame
<1>6. f # "error"
  BY <1>5 DEF Steady, Obeying
<1>7. \A x : Pends(x)' = Pends(x) /\ Begins(x)' = Begins(x)
  BY <1>1 DEF Begins, Pends
<1>8. ASSUME NEW x \in Heard
      PROVE  /\ \A j \in Iut : One(x, j)'
             /\ \A j \in Iut : Under(x, j)' <=> Under(x, j) /\ ~(j = i /\ f = EventOf(x))
             /\ f = EventOf(x) => Runs(x) /\ EventOf(x) \in listeners[i]
  <2>1. \A j \in Iut : HeardOf(x, j)
    BY DEF Steady, Expecting
  <2>2. ASSUME NEW j \in Iut, j # i
        PROVE  One(x, j)' /\ (Under(x, j)' <=> Under(x, j))
    <3>1. stream'[j] = stream[j]
      BY <1>4, <2>2
    <3>2. QED
      BY <1>1, <1>7, <2>1, <3>1 DEF HeardOf, One, Under
  <2>3. One(x, i)' /\ (Under(x, i)' <=> Under(x, i) /\ f # EventOf(x)) /\ (f = EventOf(x) => Under(x, i))
    BY <1>1, <1>5, <1>7, <2>1 DEF HeardOf, One, Under
  <2>4. QED
    BY <2>1, <2>2, <2>3 DEF HeardOf
<1>9. "conn" \in Heard /\ "disconn" \in Heard /\ EventOf("conn") = "connected" /\ EventOf("disconn") = "disconnected"
  BY DEF Heard, EventOf
<1>10. /\ f = "connected" => Runs("conn") /\ "connected" \in listeners[i]
       /\ f = "disconnected" => Runs("disconn") /\ "disconnected" \in listeners[i]
       /\ f = "sec_level" /\ JustWorks => Runs("pair") /\ "sec_level" \in listeners[i]
  <2>1. JustWorks => "pair" \in Heard /\ EventOf("pair") = "sec_level"
    BY DEF Heard, EventOf
  <2>2. QED
    BY <1>8, <1>9, <2>1
<1>11. ~(Runs("conn") /\ Runs("disconn"))
  BY DEF Runs, RunPhase, ReadyPhase
<1>12. f = "disconnected" => connections[i]
  BY <1>10 DEF Steady, Linking
<1>13. /\ f = "success" \/ f \in Event
       /\ f = "success" => listeners' = listeners /\ rspq' = [rspq EXCEPT ![i] = Append(@, f)]
       /\ f \in Event => listeners' = [listeners EXCEPT ![i] = @ \ ({f} \ astray[i])] /\ rspq' = rspq
       /\ f = "connected" => connections' = [connections EXCEPT ![i] = TRUE]
       /\ f = "disconnected" => connections' = [connections EXCEPT ![i] = FALSE]
       /\ f \notin {"connected", "disconnected"} => connections' = connections
  <2>1. CASE RxResponse(i)
    BY <1>3, <1>6, <2>1 DEF RxResponse, Response, Event
  <2>2. CASE ConnectedEv(i)
    BY <1>3, <2>2 DEF ConnectedEv, Notify, Event
  <2>3. CASE DisconnectedEv(i)
    BY <1>3, <1>12, <2>3 DEF DisconnectedEv, Notify, Event
  <2>4. CASE OtherEv(i)
    BY <1>3, <2>4 DEF OtherEv, Notify, Event
  <2>5. QED
    BY <2>1, <2>2, <2>3, <2>4 DEF Rx
<1>14. /\ \A j \in Iut : j # i => listeners'[j] = listeners[j] /\ connections'[j] = connections[j]
       /\ listeners'[i] \subseteq listeners[i] /\ listeners[i] \ {f} \subseteq listeners'[i]
       /\ \A x \in Heard : f = EventOf(x) => f \notin listeners'[i]
       /\ f = "connected" => connections'[i]
       /\ f = "disconnected" => ~connections'[i]
       /\ f \notin {"connected", "disconnected"} => connections'[i] = connections[i]
  <2>1. \A x \in Heard : EventOf(x) \in Event /\ EventOf(x) \notin astray[i]
    BY DEF Reaching, Heard, EventOf, Event
  <2>2. /\ f \in Event => listeners'[i] = listeners[i] \ ({f} \ astray[i])
        /\ f \notin Event => listeners'[i] = listeners[i]
        /\ \A j \in Iut : j # i => listeners'[j] = listeners[j]
    BY <1>1, <1>13
  <2>3. /\ \A j \in Iut : j # i => connections'[j] = connections[j]
        /\ f = "connected" => connections'[i]
        /\ f = "disconnected" => ~connections'[i]
        /\ f \notin {"connected", "disconnected"} => connections'[i] = connections[i]
    BY <1>1, <1>13
  <2>4. \A x \in Heard : f = EventOf(x) => f \notin listeners'[i]
    BY <2>1, <2>2
  <2>5. listeners'[i] \subseteq listeners[i] /\ listeners[i] \ {f} \subseteq listeners'[i]
    BY <2>2
  <2>6. QED
    BY <2>2, <2>3, <2>4, <2>5
<1>15. Obeying'
  <2>1. \A j \in Iut : ~Coming("error", rspq'[j])
    <3>1. CASE f = "success"
      <4>1. /\ rspq'[i] = Append(rspq[i], "success") /\ rspq[i] \in Seq(Response)
            /\ "success" \in Response /\ \A j \in Iut : j # i => rspq'[j] = rspq[j]
        BY <1>1, <1>13, <3>1 DEF Response
      <4>2. Coming("error", Append(rspq[i], "success")) <=> Coming("error", rspq[i])
        BY <4>1, ComingGrows
      <4>3. QED
        BY <4>1, <4>2 DEF Steady, Obeying
    <3>2. CASE f # "success"
      BY <1>13, <3>2 DEF Steady, Obeying
    <3>3. QED
      BY <3>1, <3>2
  <2>2. \A j \in Iut : ~Coming("error", stream'[j])
    BY <1>4, <1>5 DEF Steady, Obeying
  <2>3. QED
    BY <1>1, <1>2, <2>1, <2>2 DEF Steady, Obeying
<1>16. phase \in Collects /\ ~sent => f \notin listeners[i]
  <2> SUFFICES ASSUME phase \in Collects, ~sent, f \in listeners[i]
               PROVE  FALSE
    OBVIOUS
  <2>1. f \in Awaits(phase, i)
    BY DEF Steady, Listening
  <2>2. ~Runs("conn") /\ ~Runs("disconn") /\ ~Runs("pair")
    BY DEF Collects, Runs, RunPhase
  <2>3. f = "sec_level" /\ phase \in {"sec1", "sec2"}
    BY <1>10, <2>1, <2>2 DEF Collects, Awaits
  <2>4. JustWorks
    BY <2>3, PhaseMoves DEF PhasesOf, Plain, JustWorks
  <2>5. QED
    BY <1>10, <2>2, <2>3, <2>4
<1>17. Listening'
  <2>1. ASSUME NEW j \in Iut
        PROVE  /\ listeners'[j] \subseteq listeners[j]
               /\ phase \in Collects /\ ~sent => listeners'[j] = listeners[j]
    <3>1. CASE j # i
      BY <1>14, <3>1
    <3>2. CASE j = i
      <4>1. listeners'[i] \subseteq listeners[i] /\ listeners[i] \ {f} \subseteq listeners'[i]
        BY <1>14
      <4>2. QED
        BY <1>16, <3>2, <4>1
    <3>3. QED
      BY <3>1, <3>2
  <2>2. QED
    BY <1>1, <1>2, <2>1 DEF Steady, Listening
<1>18. Expecting'
  <2>1. ASSUME NEW x \in Heard, NEW j \in Iut
        PROVE  HeardOf(x, j)'
    <3>1. HeardOf(x, j)
      BY DEF Steady, Expecting
    <3>2. EventOf(x) \in listeners'[j] <=> EventOf(x) \in listeners[j] /\ ~(j = i /\ f = EventOf(x))
      BY <1>14
    <3>3. QED
      BY <1>2, <1>8, <3>1, <3>2 DEF HeardOf
  <2>2. QED
    BY <1>2, <2>1 DEF Expecting
<1>19. Linking'
  <2>1. ASSUME Runs("conn"), NEW j \in Iut
        PROVE  connections'[j] <=> "connected" \notin listeners'[j]
    <3>1. connections[j] <=> "connected" \notin listeners[j]
      BY <2>1 DEF Steady, Linking
    <3>2. f # "disconnected"
      BY <1>10, <1>11, <2>1
    <3>3. f = "connected" /\ j = i => connections'[j] /\ "connected" \notin listeners'[j]
      BY <1>9, <1>14
    <3>4. ~(f = "connected" /\ j = i) =>
              connections'[j] = connections[j] /\ ("connected" \in listeners'[j] <=> "connected" \in listeners[j])
      BY <1>14, <3>2
    <3>5. QED
      BY <3>1, <3>3, <3>4
  <2>2. ASSUME Runs("disconn"), NEW j \in Iut
        PROVE  connections'[j] <=> "disconnected" \in listeners'[j]
    <3>1. connections[j] <=> "disconnected" \in listeners[j]
      BY <2>2 DEF Steady, Linking
    <3>2. f # "connected"
      BY <1>10, <1>11, <2>2
    <3>3. f = "disconnected" /\ j = i => ~connections'[j] /\ "disconnected" \notin listeners'[j]
      BY <1>9, <1>14
    <3>4. ~(f = "disconnected" /\ j = i) =>
              connections'[j] = connections[j] /\ ("disconnected" \in listeners'[j] <=> "disconnected" \in listeners[j])
      BY <1>14, <3>2
    <3>5. QED
      BY <3>1, <3>3, <3>4
  <2>3. ASSUME ~Runs("conn"), ~Runs("disconn"), NEW j \in Iut
        PROVE  connections'[j] <=> phase \in Linked
    <3>1. f \notin {"connected", "disconnected"}
      BY <1>10, <2>3
    <3>2. QED
      BY <1>14, <2>3, <3>1 DEF Steady, Linking
  <2>4. QED
    BY <1>1, <1>2, <1>7, <2>1, <2>2, <2>3 DEF Steady, Linking
<1>20. Showing'
  BY <1>1, <1>2, <1>7 DEF Steady, Showing
<1>21. QED
  BY <1>15, <1>17, <1>18, <1>19, <1>20 DEF Steady

\* The test sends a command, for whose events it has registered.
LEMMA SteadySendCommand == ASSUME TInv, Steady, SendCommand PROVE Steady'
<1>1. /\ UNCHANGED <<test, pc, outcome, registryVars, rspq, connections, stream, due, doing, crashed, link>>
      /\ At("command") /\ ~sent /\ sent' = TRUE
      /\ pending' = [pending EXCEPT ![step.iut] = {step.what}]
  BY DEF SendCommand
<1>2. /\ step.iut \in Iut /\ pending \in [Iut -> SUBSET Command] /\ \A j \in Iut : pending[j] = {}
  BY <1>1, CurrentStep, StepTyped DEF At, TInv, TypeOK, Awaited, Owed
<1>3. /\ phase' = phase /\ step' = step /\ At("command")' = At("command") /\ Heard' = Heard
      /\ JustWorks' = JustWorks
  BY <1>1 DEF phase, step, At, ended, Heard, JustWorks
<1>4. \A x : ~Pends(x) /\ (Pends(x)' <=> x = step.what)
  BY <1>1, <1>2 DEF Pends
<1>5. /\ \A x \in Heard : step.what = x <=> phase = ReadyPhase(x)
      /\ \A x \in Heard : phase # RunPhase(x)
      /\ phase \notin {"listen1", "leave1", "sec1", "scanning", "finding"}
  BY <1>1, HeardCommand
<1>6. \A x \in Heard : ~Runs(x) /\ (Runs(x)' <=> x = step.what)
  BY <1>1, <1>3, <1>5 DEF Runs
<1>7. "conn" \in Heard /\ "disconn" \in Heard
  BY DEF Heard
<1>8. \A x \in Heard : x = step.what => \A i \in Iut : EventOf(x) \in listeners[i]
  <2>1. ASSUME NEW x \in Heard, x = step.what, NEW i \in Iut
        PROVE  EventOf(x) \in listeners[i]
    <3>1. phase = ReadyPhase(x) /\ x \in {"conn", "disconn", "pair"}
      BY <1>5, <2>1 DEF Heard
    <3>2. phase \in Collects /\ EventOf(x) \in Awaits(phase, i)
      BY <3>1 DEF ReadyPhase, Collects, Awaits, EventOf
    <3>3. QED
      BY <1>1, <3>2 DEF Steady, Listening
  <2>2. QED
    BY <2>1
<1>9. Obeying'
  BY <1>1, <1>2, <1>3 DEF Steady, Obeying
<1>10. Listening'
  BY <1>1, <1>3 DEF Steady, Listening
<1>11. Expecting'
  <2>1. ASSUME NEW x \in Heard, NEW i \in Iut
        PROVE  HeardOf(x, i)'
    <3>1. HeardOf(x, i) /\ ~Under(x, i)
      BY <1>6 DEF Steady, Expecting, HeardOf
    <3>2. Under(x, i)' <=> x = step.what
      BY <1>1, <1>4, <3>1 DEF Under, Begins
    <3>3. One(x, i)'
      BY <1>1, <1>4, <3>1 DEF HeardOf, One, Under, Begins
    <3>4. QED
      BY <1>1, <1>6, <1>8, <3>2, <3>3 DEF HeardOf
  <2>2. QED
    BY <1>3, <2>1 DEF Expecting
<1>12. Linking'
  <2>1. /\ link <=> phase \in Linked
        /\ \A i \in Iut : connections[i] <=> phase \in Linked
    BY <1>6, <1>7 DEF Steady, Linking
  <2>2. ASSUME step.what = "conn"
        PROVE  /\ ~link /\ Begins("conn")'
               /\ \A i \in Iut : ~connections[i] /\ "connected" \in listeners[i]
    <3>1. phase = "listen2"
      BY <1>5, <1>7, <2>2 DEF ReadyPhase
    <3>2. phase \notin Linked
      BY <3>1 DEF Linked
    <3>3. QED
      BY <1>4, <1>7, <1>8, <2>1, <2>2, <3>2 DEF Begins, EventOf
  <2>3. ASSUME step.what = "disconn"
        PROVE  /\ link /\ Begins("disconn")'
               /\ \A i \in Iut : connections[i] /\ "disconnected" \in listeners[i]
    <3>1. phase = "leave2"
      BY <1>5, <1>7, <2>3 DEF ReadyPhase
    <3>2. phase \in Linked
      BY <3>1 DEF Linked
    <3>3. QED
      BY <1>4, <1>7, <1>8, <2>1, <2>3, <3>2 DEF Begins, EventOf
  <2>4. QED
    BY <1>1, <1>3, <1>6, <1>7, <2>1, <2>2, <2>3 DEF Linking
<1>13. Showing'
  <2>1. Begins("conn")' => "advertising" \in doing
    <3>1. ASSUME step.what = "conn"
          PROVE  "advertising" \in doing
      <4>1. phase = "listen2"
        BY <1>5, <1>7, <3>1 DEF ReadyPhase
      <4>2. QED
        BY <1>1, <4>1 DEF Steady, Showing
    <3>2. Begins("conn")' => step.what = "conn" \/ Begins("conn")
      BY <1>1, <1>4 DEF Begins
    <3>3. QED
      BY <3>1, <3>2 DEF Steady, Showing
  <2>2. QED
    BY <1>1, <1>3, <1>4, <2>1 DEF Steady, Showing
<1>14. QED
  BY <1>9, <1>10, <1>11, <1>12, <1>13 DEF Steady

\* A step of the test that leaves the IUTs and the link alone, with no command
\* under way after it.
Passes ==
    /\ outcome = "running" /\ ~ended /\ test' = test /\ pc' = pc + 1 /\ sent' = FALSE
    /\ UNCHANGED <<connections, pending, stream, due, doing, crashed, link>>
    /\ \A i \in Iut : pending[i] = {} /\ ~Coming("error", rspq'[i])

LEMMA PassesKeep ==
    ASSUME TInv, Steady, Passes
    PROVE  /\ Obeying' /\ Heard' = Heard /\ JustWorks' = JustWorks
           /\ \A x : ~Pends(x) /\ ~Pends(x)' /\ Begins(x)' = Begins(x)
           /\ \A x \in Heard : \A i \in Iut : One(x, i)' /\ (Under(x, i)' <=> Under(x, i))
           /\ \A x : Runs(x)' <=> phase' = RunPhase(x)
<1>1. \A x : ~Pends(x) /\ ~Pends(x)' /\ Begins(x)' = Begins(x)
  BY DEF Passes, Pends, Begins
<1>2. Obeying'
  BY DEF Steady, Obeying, Passes
<1>3. Heard' = Heard /\ JustWorks' = JustWorks
  BY DEF Passes, Heard, JustWorks
<1>4. ASSUME NEW x \in Heard, NEW i \in Iut
      PROVE  One(x, i)' /\ (Under(x, i)' <=> Under(x, i))
  <2>1. One(x, i)
    BY DEF Steady, Expecting, HeardOf
  <2>2. QED
    BY <1>1, <2>1 DEF One, Under, Passes
<1>5. \A x : Runs(x)' <=> phase' = RunPhase(x)
  BY DEF Runs, Passes
<1>6. QED
  BY <1>1, <1>2, <1>3, <1>4, <1>5

\* No command is under way at a step that is none.
LEMMA NoneUnderWay ==
    ASSUME TInv, Steady, outcome = "running", ~ended, step.do # "command"
    PROVE  sent = FALSE /\ \A i \in Iut : pending[i] = {} /\ ~Coming("error", rspq[i])
<1>1. ~At("command")
  BY DEF At
<1>2. \A i \in Iut : ~Owed(i)
  BY <1>1 DEF TInv, Awaited
<1>3. sent = FALSE
  BY <1>1 DEF Steady, Obeying, TInv, TypeOK
<1>4. QED
  BY <1>2, <1>3 DEF Owed, Steady, Obeying

LEMMA SteadyRead == ASSUME TInv, Steady, ReadRsp, outcome' = "running" PROVE Steady'
<1>1. /\ At("command") /\ sent /\ rspq[step.iut] # <<>> /\ sent' = FALSE /\ pc' = pc + 1
      /\ rspq' = [rspq EXCEPT ![step.iut] = Tail(@)]
      /\ UNCHANGED <<test, registryVars, connections, pending, stream, due, doing, crashed, link>>
  BY DEF ReadRsp
<1>2. step.iut \in Iut /\ rspq \in [Iut -> Seq(Response)]
  BY <1>1, CurrentStep, StepTyped DEF At, TInv, TypeOK
<1>3. \A i \in Iut : pending[i] = {}
  <2>1. pending[step.iut] = {}
    BY <1>1, <1>2 DEF TInv, OneResponse
  <2>2. QED
    BY <1>1, <2>1 DEF TInv, Awaited, Owed, At
<1>4. \A i \in Iut : ~Coming("error", rspq'[i])
  <2>1. rspq[step.iut] \in Seq(Response)
    BY <1>2
  <2>2. Coming("error", Tail(rspq[step.iut])) => Coming("error", rspq[step.iut])
    BY <1>1, <2>1, ComingShrinks
  <2>3. QED
    BY <1>1, <1>2, <2>2 DEF Steady, Obeying
<1>5. Passes
  BY <1>1, <1>3, <1>4 DEF Passes, At
<1>6. /\ Obeying' /\ Heard' = Heard /\ JustWorks' = JustWorks
      /\ \A x : ~Pends(x) /\ ~Pends(x)' /\ Begins(x)' = Begins(x)
      /\ \A x \in Heard : \A i \in Iut : One(x, i)' /\ (Under(x, i)' <=> Under(x, i))
      /\ \A x : Runs(x)' <=> phase' = RunPhase(x)
  BY <1>5, PassesKeep
<1>7. CommandMoves(step.what, phase, phase') /\ phase' \in PhasesOf(test)
  BY <1>1, CommandPhase
<1>8. \A x \in Heard : Runs(x)' <=> Runs(x)
  <2>1. \A x \in {"conn", "disconn", "pair"} :
            phase # RunPhase(x) /\ (phase' = RunPhase(x) <=> phase = ReadyPhase(x))
    BY <1>7 DEF CommandMoves, RunPhase, ReadyPhase
  <2>2. QED
    BY <1>1, <1>6, <2>1 DEF Heard, Runs
<1>9. Listening'
  <2>1. phase' \notin Collects
    BY <1>7 DEF CommandMoves, Collects
  <2>2. \A i \in Iut : Awaits(phase, i) \subseteq Awaits(phase', i)
    BY <1>7 DEF CommandMoves, Awaits
  <2>3. QED
    BY <1>1, <2>1, <2>2 DEF Steady, Listening
<1>10. Expecting'
  BY <1>1, <1>6, <1>8 DEF Steady, Expecting, HeardOf
<1>11. Linking'
  <2>1. "conn" \in Heard /\ "disconn" \in Heard
    BY DEF Heard
  <2>2. ~Runs("conn") /\ ~Runs("disconn") => (phase' \in Linked <=> phase \in Linked)
    <3>1. phase \notin {"listen2", "leave2"} => (phase' \in Linked <=> phase \in Linked)
      BY <1>7 DEF CommandMoves, Linked
    <3>2. QED
      BY <1>1, <3>1 DEF Runs, ReadyPhase
  <2>3. QED
    BY <1>1, <1>6, <1>8, <2>1, <2>2 DEF Steady, Linking
<1>12. Showing'
  <2>1. phase' \in {"advertising", "scanning", "finding", "found", "listen1"} => "advertising" \in doing
    <3>1. phase' \in {"advertising", "scanning", "finding", "found", "listen1"} =>
              step.what \in {"start_adv", "start_direct_adv"} \/ phase \in {"advertising", "found"}
      BY <1>7 DEF CommandMoves
    <3>2. QED
      BY <1>1, <1>6, <3>1 DEF Steady, Showing
  <2>2. phase' # "listen2"
    BY <1>7 DEF CommandMoves
  <2>3. phase' \in {"scanning", "finding"} => "scanning" \in doing
    <3>1. phase' \in {"scanning", "finding"} => step.what = "start_discov"
      BY <1>7 DEF CommandMoves
    <3>2. QED
      BY <1>1, <1>6, <3>1 DEF Steady, Showing
  <2>4. QED
    BY <1>1, <1>6, <2>1, <2>2, <2>3 DEF Steady, Showing
<1>13. QED
  BY <1>6, <1>9, <1>10, <1>11, <1>12 DEF Steady

LEMMA SteadyRegister == ASSUME TInv, Steady, RegisterListener PROVE Steady'
<1>1. /\ At("register") /\ pc' = pc + 1
      /\ listeners' = [listeners EXCEPT ![step.iut] = @ \cup {step.what}]
      /\ UNCHANGED <<test, sent, outcome, rspq, connections, pending, stream, due, doing, crashed, link>>
  BY DEF RegisterListener
<1>2. step.iut \in Iut /\ listeners \in [Iut -> SUBSET Event]
  BY <1>1, CurrentStep, StepTyped DEF At, TInv, TypeOK
<1>3. sent = FALSE /\ \A i \in Iut : pending[i] = {} /\ ~Coming("error", rspq[i])
  BY <1>1, NoneUnderWay DEF At
<1>4. Passes
  BY <1>1, <1>3 DEF Passes, At
<1>5. /\ Obeying' /\ Heard' = Heard /\ JustWorks' = JustWorks
      /\ \A x : ~Pends(x) /\ ~Pends(x)' /\ Begins(x)' = Begins(x)
      /\ \A x \in Heard : \A i \in Iut : One(x, i)' /\ (Under(x, i)' <=> Under(x, i))
      /\ \A x : Runs(x)' <=> phase' = RunPhase(x)
  BY <1>4, PassesKeep
<1>6. RegisterMoves(step.iut, step.what, phase, phase')
  BY <1>1, PhaseMoves DEF At, Moves
<1>7. \A x : ~Runs(x) /\ ~Runs(x)'
  BY <1>3, <1>5, <1>6 DEF Runs, RunPhase, RegisterMoves
<1>8. /\ \A i \in Iut : i # step.iut => listeners'[i] = listeners[i]
      /\ listeners'[step.iut] = listeners[step.iut] \cup {step.what}
  BY <1>1, <1>2
<1>9. Listening'
  <2>1. \A i \in Iut : /\ listeners[i] \subseteq Awaits(phase, i)
                       /\ phase \in Collects => listeners[i] = Awaits(phase, i)
    BY <1>3 DEF Steady, Listening
  <2>2. /\ \A i \in Iut : i # step.iut => Awaits(phase, i) \subseteq Awaits(phase', i)
        /\ Awaits(phase, step.iut) \cup {step.what} \subseteq Awaits(phase', step.iut)
    BY <1>2, <1>6 DEF RegisterMoves, Awaits, Iut
  <2>3. ASSUME phase' \in Collects
        PROVE  /\ phase \in Collects \/ \A i \in Iut : Awaits(phase, i) = {}
               /\ \A i \in Iut : i # step.iut => Awaits(phase', i) = Awaits(phase, i)
               /\ Awaits(phase', step.iut) = Awaits(phase, step.iut) \cup {step.what}
    BY <1>2, <1>6, <2>3 DEF RegisterMoves, Awaits, Iut, Collects
  <2>4. \A i \in Iut : listeners'[i] \subseteq Awaits(phase', i)
    BY <1>8, <2>1, <2>2
  <2>5. ASSUME phase' \in Collects, NEW i \in Iut
        PROVE  listeners'[i] = Awaits(phase', i)
    <3>1. listeners[i] = Awaits(phase, i)
      BY <2>1, <2>3, <2>5
    <3>2. QED
      BY <1>8, <2>3, <2>5, <3>1
  <2>6. QED
    BY <2>4, <2>5 DEF Listening
<1>10. Expecting'
  BY <1>5, <1>7 DEF Steady, Expecting, HeardOf
<1>11. Linking'
  <2>1. phase' \in Linked <=> phase \in Linked
    BY <1>6 DEF RegisterMoves, Linked
  <2>2. QED
    BY <1>1, <1>7, <2>1 DEF Steady, Linking
<1>12. Showing'
  <2>1. phase' \in {"advertising", "scanning", "finding", "found", "listen1", "listen2"} =>
            phase \in {"scanning", "advertising", "listen1"}
    BY <1>6 DEF RegisterMoves
  <2>2. phase' \in {"scanning", "finding"} => phase = "scanning"
    BY <1>6 DEF RegisterMoves
  <2>3. QED
    BY <1>1, <1>3, <1>5, <2>1, <2>2 DEF Steady, Showing
<1>13. QED
  BY <1>5, <1>9, <1>10, <1>11, <1>12 DEF Steady

LEMMA SteadyWait == ASSUME TInv, Steady, WaitDone PROVE Steady'
<1>1. /\ At("wait") /\ pc' = pc + 1 /\ \A i \in Iut : listeners[i] = {}
      /\ UNCHANGED <<test, sent, outcome, registryVars, rspq, connections, pending, stream, due, doing,
                     crashed, link>>
  BY DEF WaitDone, AllDone
<1>2. sent = FALSE /\ \A i \in Iut : pending[i] = {} /\ ~Coming("error", rspq[i])
  BY <1>1, NoneUnderWay DEF At
<1>3. Passes
  BY <1>1, <1>2 DEF Passes, At
<1>4. /\ Obeying' /\ Heard' = Heard /\ JustWorks' = JustWorks
      /\ \A x : ~Pends(x) /\ ~Pends(x)' /\ Begins(x)' = Begins(x)
      /\ \A x \in Heard : \A i \in Iut : One(x, i)' /\ (Under(x, i)' <=> Under(x, i))
      /\ \A x : Runs(x)' <=> phase' = RunPhase(x)
  BY <1>3, PassesKeep
<1>5. WaitMoves(phase, phase')
  BY <1>1, PhaseMoves DEF At, Moves
<1>6. \A x \in Heard : ~Runs(x)' /\ \A i \in Iut : ~Under(x, i)
  <2>1. \A x : ~Runs(x)'
    BY <1>4, <1>5 DEF WaitMoves, RunPhase
  <2>2. QED
    BY <1>1, <2>1 DEF Steady, Expecting, HeardOf
<1>7. "conn" \in Heard /\ "disconn" \in Heard
  BY DEF Heard
<1>8. Listening'
  BY <1>1, <1>5 DEF WaitMoves, Listening, Collects
<1>9. Expecting'
  BY <1>1, <1>4, <1>6 DEF Steady, Expecting, HeardOf
<1>10. Linking'
  <2>1. ~Begins("conn") /\ ~Begins("disconn")
    BY <1>6, <1>7 DEF Under, Iut
  <2>2. CASE phase = "calling"
    <3>1. Runs("conn") /\ phase' = "up"
      BY <1>5, <2>2 DEF WaitMoves, Runs, RunPhase
    <3>2. QED
      BY <1>1, <1>6, <1>7, <2>1, <3>1 DEF Steady, Linking, Linked
  <2>3. CASE phase = "leaving"
    <3>1. Runs("disconn") /\ phase' = "idle"
      BY <1>5, <2>3 DEF WaitMoves, Runs, RunPhase
    <3>2. QED
      BY <1>1, <1>6, <1>7, <2>1, <3>1 DEF Steady, Linking, Linked
  <2>4. CASE phase \notin {"calling", "leaving"}
    <3>1. ~Runs("conn") /\ ~Runs("disconn") /\ (phase' \in Linked <=> phase \in Linked)
      BY <1>2, <1>5, <2>4 DEF WaitMoves, Runs, RunPhase, Linked
    <3>2. QED
      BY <1>1, <1>6, <1>7, <3>1 DEF Steady, Linking
  <2>5. QED
    BY <2>2, <2>3, <2>4
<1>11. Showing'
  <2>1. /\ phase' \in {"advertising", "scanning", "finding", "found", "listen1", "listen2"} => phase = "finding"
        /\ phase' \notin {"scanning", "finding"}
    BY <1>5 DEF WaitMoves
  <2>2. QED
    BY <1>1, <1>2, <1>4, <2>1 DEF Steady, Showing
<1>12. QED
  BY <1>4, <1>8, <1>9, <1>10, <1>11 DEF Steady

\* Every assertion of a test holds.
LEMMA SteadyCheck == ASSUME TInv, Steady, CheckConnection PROVE outcome' = "running" /\ Steady'
<1>1. /\ At("assert")
      /\ IF connections[step.iut] = (step.what = "connected")
         THEN pc' = pc + 1 /\ UNCHANGED outcome
         ELSE outcome' = "assertion" /\ UNCHANGED pc
      /\ UNCHANGED <<test, sent, registryVars, rspq, connections, pending, stream, due, doing, crashed, link>>
  BY DEF CheckConnection
<1>2. step.iut \in Iut /\ connections \in [Iut -> BOOLEAN] /\ outcome = "running"
  BY <1>1, CurrentStep, StepTyped DEF At, TInv, TypeOK
<1>3. sent = FALSE /\ \A i \in Iut : pending[i] = {} /\ ~Coming("error", rspq[i])
  BY <1>1, NoneUnderWay DEF At
<1>4. PICK next : AssertMoves(step.what, phase, next) /\ (pc' = pc + 1 => phase' = next)
  BY <1>1, PhaseMoves DEF At, Moves
<1>5. next = phase /\ ~Runs("conn") /\ ~Runs("disconn") /\ (phase \in Linked <=> step.what = "connected")
  BY <1>3, <1>4 DEF AssertMoves, Runs, RunPhase, Linked
<1>6. connections[step.iut] = (step.what = "connected")
  BY <1>2, <1>5 DEF Steady, Linking
<1>7. pc' = pc + 1 /\ outcome' = "running" /\ phase' = phase
  BY <1>1, <1>2, <1>4, <1>5, <1>6
<1>8. Passes
  BY <1>1, <1>3, <1>7 DEF Passes, At
<1>9. /\ Obeying' /\ Heard' = Heard /\ JustWorks' = JustWorks
      /\ \A x : ~Pends(x) /\ ~Pends(x)' /\ Begins(x)' = Begins(x)
      /\ \A x \in Heard : \A i \in Iut : One(x, i)' /\ (Under(x, i)' <=> Under(x, i))
      /\ \A x : Runs(x)' <=> phase' = RunPhase(x)
  BY <1>8, PassesKeep
<1>10. \A x : Runs(x)' <=> Runs(x)
  BY <1>3, <1>7, <1>9 DEF Runs
<1>11. Listening'
  BY <1>1, <1>7 DEF Steady, Listening
<1>12. Expecting'
  BY <1>1, <1>9, <1>10 DEF Steady, Expecting, HeardOf
<1>13. Linking'
  BY <1>1, <1>7, <1>9, <1>10 DEF Steady, Linking
<1>14. Showing'
  BY <1>1, <1>3, <1>7, <1>9 DEF Steady, Showing
<1>15. QED
  BY <1>7, <1>9, <1>11, <1>12, <1>13, <1>14 DEF Steady

\* gap_disconn finds the connection it is to end.
LEMMA SkipsNothing == ASSUME TInv, Steady, SkipDisconn PROVE FALSE
<1>1. At("command") /\ ~sent /\ step.what = "disconn" /\ ~connections[step.iut]
  BY DEF SkipDisconn
<1>2. step.iut \in Iut /\ "disconn" \in Heard
  BY <1>1, CurrentStep, StepTyped DEF At, TInv, Heard
<1>3. phase = "leave2"
  BY <1>1, <1>2, HeardCommand DEF ReadyPhase
<1>4. ~Runs("conn") /\ ~Runs("disconn") /\ phase \in Linked
  BY <1>1, <1>3 DEF Runs, RunPhase, ReadyPhase, Linked
<1>5. QED
  BY <1>1, <1>2, <1>4 DEF Steady, Linking

\* A step of the IUTs leaves the registry alone.
LEMMA ReachingKept ==
    ASSUME Reaching, UNCHANGED <<testVars, registryVars>>
    PROVE  Reaching'
BY DEF Reaching, At, ended, step, Heard, JustWorks, EventOf

\* The receive thread: the lists it replaces are of events that are under way.
LEMMA ReachingRx == ASSUME TInv, Steady, Reaching, NEW i \in Iut, Rx(i) PROVE Reaching'
<1>1. /\ UNCHANGED <<testVars, astray>> /\ listeners \in [Iut -> SUBSET Event]
      /\ stream[i] # <<>> /\ stream \in [Iut -> Seq(Frames)]
      /\ \A j \in Iut : astray[j] \subseteq listeners[j] => astray[j] \subseteq listeners'[j]
      /\ list' # list => list = "current" /\ list' = "old" /\ step.iut = i /\ step.what = Frame(i)
  BY DEF Rx, RxResponse, ConnectedEv, DisconnectedEv, OtherEv, Notify, Receiving, TInv, TypeOK, Frames
<1>2. At("register")' = At("register") /\ step' = step /\ Heard' = Heard
  BY <1>1 DEF At, ended, step, Heard, JustWorks
<1>3. ASSUME list' # list, NEW x \in Heard
      PROVE  EventOf(x) # step.what
  <2> SUFFICES ASSUME EventOf(x) = step.what
               PROVE  FALSE
    OBVIOUS
  <2>1. At("register") /\ step.iut = i /\ Frame(i) = EventOf(x)
    BY <1>1, <1>3 DEF Reaching
  <2>2. stream[i] \in Seq(Frames) /\ Coming(EventOf(x), stream[i])
    <3>1. stream[i] \in Seq(Frames)
      BY <1>1
    <3>2. QED
      BY <1>1, <2>1, <3>1, ComingShrinks DEF Frame
  <2>3. Runs(x)
    BY <2>2 DEF Steady, Expecting, HeardOf, Under
  <2>4. sent = FALSE
    BY <2>1, NoneUnderWay DEF At
  <2>5. RegisterMoves(step.iut, step.what, phase, phase) \/ phase # RunPhase(x)
    <3>1. PICK next : RegisterMoves(step.iut, step.what, phase, next)
      BY <2>1, PhaseMoves DEF At, Moves
    <3>2. QED
      BY <3>1 DEF RegisterMoves, RunPhase
  <2>6. QED
    BY <2>3, <2>4, <2>5 DEF Runs, RegisterMoves, RunPhase
<1>4. QED
  BY <1>1, <1>2, <1>3 DEF Reaching, EventOf

LEMMA ReachingTest == ASSUME TInv, Reaching, RunTest, outcome' = "running" PROVE Reaching'
<1>1. Heard' = Heard /\ outcome = "running" /\ listeners \in [Iut -> SUBSET Event] /\ astray \in [Iut -> SUBSET Event]
  BY DEF RunTest, SendCommand, SkipDisconn, ReadRsp, ReadTimeout, LookUp, RegisterListener, WaitDone,
         WaitTimeout, CheckConnection, Pass, At, Heard, JustWorks, TInv, TypeOK
<1>2. CASE LookUp
  <2>1. At("register")' = At("register") /\ step' = step /\ At("register") /\ list' = "current"
        /\ UNCHANGED <<listeners, astray>>
    BY <1>2 DEF LookUp, At, ended, step
  <2>2. QED
    BY <1>1, <2>1 DEF Reaching, EventOf
<1>3. CASE RegisterListener
  <2>1. /\ list' = "none" /\ listeners' = [listeners EXCEPT ![step.iut] = @ \cup {step.what}]
        /\ \/ astray' = astray
           \/ /\ astray' = [astray EXCEPT ![step.iut] = @ \cup {step.what}]
              /\ \A x \in Heard : EventOf(x) # step.what
    BY <1>3 DEF RegisterListener, TInv, TypeOK, Reaching
  <2>2. QED
    BY <1>1, <2>1 DEF Reaching, EventOf
<1>4. CASE ~LookUp /\ ~RegisterListener
  <2>1. UNCHANGED registryVars /\ ~At("register")
    BY <1>1, <1>4 DEF RunTest, SendCommand, SkipDisconn, ReadRsp, ReadTimeout, WaitDone,
           WaitTimeout, CheckConnection, Pass, At
  <2>2. QED
    BY <1>1, <2>1 DEF Reaching, EventOf
<1>5. QED
  BY <1>2, <1>3, <1>4

LEMMA FInvStep == TInv /\ FInv /\ [Next]_vars => FInv'
<1> SUFFICES ASSUME TInv, FInv, [Next]_vars, ~lost', outcome' = "running"
             PROVE  Steady' /\ Reaching'
  BY DEF FInv
<1>1. CASE UNCHANGED vars
  <2>1. Steady' = Steady
    BY <1>1 DEF vars, Steady, Obeying, Listening, Expecting, Linking, Showing, HeardOf, One, Under,
                Begins, Pends, Runs, Heard, JustWorks, phase, step, ended, At
  <2>2. QED
    BY <1>1, <2>1, ReachingKept DEF vars, FInv
<1>2. CASE \E i \in Iut : Answer(i) \/ SendEvent(i) \/ Rx(i)
  <2>1. outcome = "running" /\ lost' = lost
    BY <1>2 DEF Answer, SendEvent, Rx, RxResponse, ConnectedEv, DisconnectedEv, OtherEv, Notify, Receiving
  <2>2. QED
    <3>1. CASE \E i \in Iut : Rx(i)
      BY <2>1, <3>1, SteadyRx, ReachingRx DEF FInv
    <3>2. CASE \E i \in Iut : Answer(i) \/ SendEvent(i)
      <4>1. UNCHANGED <<testVars, registryVars>>
        BY <3>2 DEF Answer, SendEvent
      <4>2. QED
        BY <2>1, <3>2, <4>1, SteadyAnswer, SteadySendEvent, ReachingKept DEF FInv
    <3>3. QED
      BY <1>2, <3>1, <3>2
<1>3. CASE LoseLink \/ \E i \in Iut : Crash(i)
  BY <1>3 DEF LoseLink, Crash
<1>4. CASE Report
  <2>1. outcome = "running" /\ lost' = lost /\ UNCHANGED <<testVars, registryVars>>
    BY <1>4 DEF Report
  <2>2. QED
    BY <1>4, <2>1, SteadyReport, ReachingKept DEF FInv
<1>5. CASE OnAir
  <2>1. outcome = "running" /\ lost' = lost /\ UNCHANGED <<testVars, registryVars>>
    BY <1>5 DEF OnAir, ConnectOnAir, DisconnectOnAir, AskPasskey, PairOnAir, UpdateOnAir
  <2>2. QED
    BY <1>5, <2>1, SteadyConnect, SteadyDisconnect, SteadyOverLink, ReachingKept DEF OnAir, FInv
<1>6. CASE RunTest
  <2>1. outcome = "running" /\ lost' = lost
    BY <1>6 DEF RunTest, SendCommand, SkipDisconn, ReadRsp, ReadTimeout, LookUp, RegisterListener, WaitDone,
                WaitTimeout, CheckConnection, Pass, At
  <2>2. Steady /\ Reaching'
    BY <1>6, <2>1, ReachingTest DEF FInv
  <2>3. CASE SendCommand \/ SkipDisconn \/ ReadRsp \/ RegisterListener \/ WaitDone \/ CheckConnection
    BY <2>2, <2>3, SteadySendCommand, SkipsNothing, SteadyRead, SteadyRegister, SteadyWait, SteadyCheck
  <2>4. CASE ReadTimeout \/ WaitTimeout \/ Pass
    BY <2>4 DEF ReadTimeout, WaitTimeout, Pass
  <2>5. CASE LookUp
    <3>1. /\ UNCHANGED <<testVars, listeners, rspq, connections, pending, stream>>
          /\ UNCHANGED <<due, crashed, doing, link>>
      BY <2>5 DEF LookUp
    <3>2. Steady' = Steady
      BY <3>1 DEF Steady, Obeying, Listening, Expecting, Linking, Showing, HeardOf, One, Under,
                  Begins, Pends, Runs, Heard, JustWorks, phase, step, ended, At
    <3>3. QED
      BY <2>2, <3>2
  <2>6. QED
    BY <1>6, <2>2, <2>3, <2>4, <2>5 DEF RunTest
<1>7. QED
  BY <1>1, <1>2, <1>3, <1>4, <1>5, <1>6 DEF Next

LEMMA FInvCorrect == Spec => []FInv
BY SteadyInit, FInvStep, TInvCorrect, PTL DEF Spec

\* No command is refused.
LEMMA NeverRefused == ASSUME TInv, Steady, ReadRsp PROVE outcome' = "running"
<1>1. /\ At("command") /\ rspq[step.iut] # <<>>
      /\ Head(rspq[step.iut]) = "success" => outcome' = outcome
  BY DEF ReadRsp
<1>2. step.iut \in Iut /\ outcome = "running"
  BY <1>1, CurrentStep, StepTyped DEF At, TInv
<1>3. PICK q : q = rspq[step.iut]
  OBVIOUS
<1>4. q \in Seq(Response) /\ q # <<>> /\ ~Coming("error", q)
  BY <1>1, <1>2, <1>3 DEF TInv, TypeOK, Steady, Obeying
<1>5. Head(q) # "error"
  BY <1>4, ComingShrinks
<1>6. Head(q) \in Response
  BY <1>4
<1>7. Head(q) = "success"
  BY <1>5, <1>6 DEF Response
<1>8. QED
  BY <1>1, <1>2, <1>3, <1>7

\* A test that registers before it sends never waits for what does not come, but for
\* a report whose listener went astray.
LEMMA NeverInVain ==
    ASSUME TInv, LInv, Steady, Reaching, WaitTimeout
    PROVE  test \in RegistersLate \/ \E i \in Iut : "found" \in astray[i]
<1> SUFFICES ASSUME test \notin RegistersLate, \A i \in Iut : "found" \notin astray[i]
             PROVE  FALSE
  OBVIOUS
<1>1. At("wait") /\ \E i \in Iut : listeners[i] # {}
  BY DEF WaitTimeout, AllDone
<1>2. dead = {} /\ crashed = {}
  BY DEF LInv, Steady, Obeying
<1>3. sent = FALSE /\ \A i \in Iut : pending[i] = {}
  BY <1>1, NoneUnderWay DEF At
<1>4. PICK next \in PhasesOf(test) : WaitMoves(phase, next)
  BY <1>1, PhaseMoves DEF At, Moves
<1>5. phase \in PhasesOf(test)
  BY PhaseMoves
<1>6. phase \in {"finding", "calling", "leaving", "securing"} /\ (phase = "securing" => JustWorks)
  BY <1>4, <1>5 DEF WaitMoves, PhasesOf, JustWorks, Plain, Securing
<1>7. Quiet
  <2>1. \A i \in Iut : astray[i] \subseteq Awaits(phase, i)
    BY DEF Reaching, Steady, Listening
  <2>2. phase = "finding" => \A i \in Iut : Awaits(phase, i) = {"found"}
    BY DEF Awaits
  <2>3. phase # "finding" => \E x \in Heard : \A i \in Iut : Awaits(phase, i) = {EventOf(x)}
    BY <1>6 DEF Heard, Awaits, EventOf
  <2>4. \A i \in Iut : astray[i] = {}
    BY <2>1, <2>2, <2>3 DEF Reaching
  <2>5. QED
    BY <2>4 DEF WaitTimeout
<1>8. /\ \A i \in Iut : stream[i] = <<>> /\ due[i] = <<>>
      /\ ~CanReport /\ ~CanConnect /\ ~CanDisconnect /\ ~CanPair
  BY <1>2, <1>7 DEF Quiet
<1>9. phase # "finding"
  BY <1>2, <1>8 DEF Steady, Showing, CanReport
<1>10. PICK x \in Heard : phase = RunPhase(x)
  BY <1>6, <1>9 DEF Heard, RunPhase
<1>11. PICK i \in Iut : \E e : e \in listeners[i]
  BY <1>1
<1>12. EventOf(x) \in listeners[i]
  <2>1. listeners[i] \subseteq Awaits(phase, i)
    BY DEF Steady, Listening
  <2>2. Awaits(phase, i) = {EventOf(x)}
    BY <1>10 DEF Heard, Awaits, RunPhase, EventOf
  <2>3. QED
    BY <1>11, <2>1, <2>2
<1>13. Under(x, i)
  BY <1>10, <1>12 DEF Steady, Expecting, HeardOf, Runs
<1>14. ActivityOf(x) \in doing /\ Begins(x)
  <2>1. ~Pends(x)
    BY <1>3 DEF Pends
  <2>2. ~Coming(EventOf(x), stream[i]) /\ ~Coming(EventOf(x), due[i])
    <3>1. Len(<<>>) = 0
      OBVIOUS
    <3>2. QED
      BY <1>8, <3>1 DEF Coming
  <2>3. QED
    BY <1>13, <2>1, <2>2 DEF Under, Begins
<1>15. CASE x = "conn"
  <2>1. "connecting" \in doing /\ "advertising" \in doing /\ ~link
    BY <1>10, <1>14, <1>15 DEF ActivityOf, Steady, Showing, Linking, Runs
  <2>2. QED
    BY <1>2, <1>8, <2>1 DEF CanConnect
<1>16. CASE x = "disconn"
  BY <1>8, <1>14, <1>16 DEF ActivityOf, CanDisconnect
<1>17. CASE x = "pair"
  BY <1>8, <1>10, <1>14, <1>17 DEF ActivityOf, CanPair, Heard
<1>18. QED
  BY <1>15, <1>16, <1>17 DEF Heard

LEMMA CauseStep == TInv /\ LInv /\ FInv /\ FailureHasCause /\ [Next]_vars => FailureHasCause'
<1> SUFFICES ASSUME TInv, LInv, FInv, FailureHasCause, [Next]_vars
             PROVE  FailureHasCause'
  OBVIOUS
<1>1. CASE UNCHANGED vars
  BY <1>1 DEF vars, testVars, airVars, FailureHasCause
<1>2. CASE Next
  <2>1. outcome = "running" /\ (lost => lost') /\ test' = test
    <3>1. ASSUME NEW i \in Iut, Answer(i) \/ SendEvent(i) \/ Crash(i)
          PROVE  outcome = "running" /\ (lost => lost') /\ test' = test
      BY <3>1 DEF Answer, SendEvent, Crash, testVars
    <3>2. ASSUME NEW i \in Iut, Rx(i)
          PROVE  outcome = "running" /\ (lost => lost') /\ test' = test
      BY <3>2 DEF Rx, RxResponse, ConnectedEv, DisconnectedEv, OtherEv, Notify, Receiving, testVars, airVars
    <3>3. CASE Report \/ OnAir \/ LoseLink
      BY <3>3 DEF Report, OnAir, ConnectOnAir, DisconnectOnAir, AskPasskey, PairOnAir, UpdateOnAir,
                  LoseLink, testVars, airVars
    <3>4. CASE SendCommand \/ SkipDisconn \/ ReadRsp \/ ReadTimeout \/ LookUp
      BY <3>4 DEF SendCommand, SkipDisconn, ReadRsp, ReadTimeout, LookUp, At, testVars, airVars
    <3>5. CASE RegisterListener \/ WaitDone \/ WaitTimeout \/ CheckConnection \/ Pass
      BY <3>5 DEF RegisterListener, WaitDone, WaitTimeout, CheckConnection, Pass, At, testVars, airVars
    <3>6. QED
      BY <1>2, <3>1, <3>2, <3>3, <3>4, <3>5 DEF Next, RunTest
  <2>2. CASE lost
    BY <2>1, <2>2 DEF FailureHasCause
  <2>3. CASE ~lost
    <3>1. Steady /\ Reaching
      BY <2>1, <2>3 DEF FInv
    <3>2. CASE ReadRsp \/ CheckConnection
      BY <3>1, <3>2, NeverRefused, SteadyCheck DEF FailureHasCause
    <3>3. CASE ReadTimeout
      <4>1. dead = {} /\ crashed = {}
        BY <3>1 DEF LInv, Steady, Obeying
      <4>2. QED
        BY <3>3, <4>1 DEF ReadTimeout
    <3>4. CASE WaitTimeout
      <4>1. test \in RegistersLate \/ \E i \in Iut : "found" \in astray[i]
        BY <3>1, <3>4, NeverInVain
      <4>2. QED
        BY <2>1, <3>4, <4>1 DEF WaitTimeout, FailureHasCause
    <3>5. CASE ~(ReadRsp \/ CheckConnection \/ ReadTimeout \/ WaitTimeout)
      <4>1. outcome' \in {"running", "passed"}
        BY <1>2, <2>1, <3>5 DEF Next, Answer, SendEvent, Rx, RxResponse, ConnectedEv, DisconnectedEv,
                    OtherEv, Notify, Crash, Report, OnAir, ConnectOnAir, DisconnectOnAir, AskPasskey,
                    PairOnAir, UpdateOnAir, LoseLink, RunTest, SendCommand, SkipDisconn,
                    LookUp, RegisterListener, WaitDone, Pass
      <4>2. QED
        BY <4>1 DEF FailureHasCause
    <3>6. QED
      BY <3>2, <3>3, <3>4, <3>5
  <2>4. QED
    BY <2>2, <2>3
<1>3. QED
  BY <1>1, <1>2

\* A test fails only when the link or an IUT is lost, for want of an event that one
\* of the four tests did not register for in time, or for want of a report whose
\* listener was added to a list just being replaced: as long as both
\* stand, every command finds the link as it needs it, every awaited event is
\* under way, and each assertion on is_connected() finds what the events said.
THEOREM FailureHasCauseCorrect == Spec => []FailureHasCause
<1>1. Init => FailureHasCause
  BY DEF Init, FailureHasCause
<1>2. QED
  BY <1>1, CauseStep, TInvCorrect, LInvCorrect, FInvCorrect, PTL DEF Spec

=============================================================================
