---------------------------- MODULE GapProcedures ----------------------------
(***************************************************************************)
(* The GAP tests of testcases/GapTestCase.py, made of the procedures of    *)
(* testcases/utils.py: a test sends commands to two IUTs, registers        *)
(* listeners for their events and waits for the futures, while each IUT's  *)
(* receive thread applies the events to that IUT's Gap object.             *)
(*                                                                         *)
(* A test is a program of four kinds of step.  BTPEventHandler has the     *)
(* detail of a listener, BTPWorker that of a response and GapSettings that *)
(* of the settings a command looks at; here a listener is the event it     *)
(* waits for.  The parts of the Gap object that only hold data (names,     *)
(* parameters, advertising reports) are left out.                          *)
(***************************************************************************)
EXTENDS Naturals, Sequences

CONSTANTS
    Test,        \* the tests to run
    MaxFlight    \* bound on the frames under way when a report is sent

ASSUME TestAssumption ==
    Test \subseteq {"DISC_GENM_1", "CONN_GCEP_1", "CONN_DCON_1", "CONN_CPUP_1",
                   "CONN_CPUP_2", "CONN_PAIR_1", "CONN_PAIR_2", "CONN_PAIR_3"}

Iut == {"central", "peripheral"}
Event == {"found", "connected", "disconnected", "params", "passkey", "sec_level"}

Step(do, i, what) == [do |-> do, iut |-> i, what |-> what]
Send(i, command) == <<Step("command", i, command)>>
Register(i, event) == <<Step("register", i, event)>>
WaitFutures == <<Step("wait", "none", "none")>>
Assert(i, what) == <<Step("assert", i, what)>>

\* The commands and the listeners, by the names they have in pybtp/btp.py.
gap_set_io_cap(i) == Send(i, "set_io_cap")
gap_set_conn(i) == Send(i, "set_conn")
gap_set_gendiscov(i) == Send(i, "set_gendiscov")
gap_adv_ind_on(i) == Send(i, "start_adv")
gap_start_direct_adv(i) == Send(i, "start_direct_adv")
gap_start_discov(i) == Send(i, "start_discov")
gap_stop_discov(i) == Send(i, "stop_discov")
gap_conn(i) == Send(i, "conn")
gap_disconn(i) == Send(i, "disconn")
gap_pair(i) == Send(i, "pair")
gap_passkey_confirm(i) == Send(i, "passkey_rsp")
gap_passkey_entry_rsp(i) == Send(i, "passkey_rsp")
gap_conn_param_update(i) == Send(i, "conn_param_update")

gap_device_found_ev(i) == Register(i, "found")
gap_connected_ev(i) == Register(i, "connected")
gap_disconnected_ev(i) == Register(i, "disconnected")
gap_passkey_disp_ev(i) == Register(i, "passkey")
gap_passkey_entry_req_ev(i) == Register(i, "passkey")
gap_passkey_confirm_req_ev(i) == Register(i, "passkey")
gap_conn_param_update_ev(i) == Register(i, "params")
gap_sec_level_changed_ev(i) == Register(i, "sec_level")

Both(ev(_)) == ev("central") \o ev("peripheral")

\* The test DISC_GENM_1, with which connection_procedure begins too.
Discover ==
    gap_set_conn("peripheral") \o gap_set_gendiscov("peripheral")
    \o gap_adv_ind_on("peripheral")
    \o gap_start_discov("central")
    \o gap_device_found_ev("central") \o WaitFutures
    \o gap_stop_discov("central")

\* Mutant: the listeners for the connection are registered after gap_conn.
ConnectThenRegister ==
    gap_conn("central") \o Both(gap_connected_ev) \o WaitFutures
    \o Assert("central", "connected") \o Assert("peripheral", "connected")

Connect ==
    Both(gap_connected_ev) \o gap_conn("central") \o WaitFutures
    \o Assert("central", "connected") \o Assert("peripheral", "connected")

connection_procedure == Discover \o Connect

\* Mutant: nobody waits for the disconnection, or looks at it.
DisconnectAndGo == gap_disconn("central")

disconnection_procedure ==
    Both(gap_disconnected_ev) \o gap_disconn("central") \o WaitFutures
    \o Assert("peripheral", "disconnected") \o Assert("central", "disconnected")

Pair(i) == Both(gap_sec_level_changed_ev) \o gap_pair(i) \o WaitFutures

CONN_DCON_1 ==
    connection_procedure \o Pair("peripheral") \o disconnection_procedure
    \o gap_start_direct_adv("peripheral") \o Connect \o disconnection_procedure

ParamUpdate(i) ==
    connection_procedure
    \o gap_conn_param_update(i) \o Both(gap_conn_param_update_ev) \o WaitFutures
    \o disconnection_procedure

CONN_PAIR_1 ==
    gap_set_io_cap("peripheral")
    \o connection_procedure \o Pair("central") \o disconnection_procedure

CONN_PAIR_2 ==
    Both(gap_set_io_cap) \o connection_procedure
    \o gap_pair("central") \o Both(gap_passkey_confirm_req_ev) \o WaitFutures
    \o Both(gap_passkey_confirm)
    \o Both(gap_sec_level_changed_ev) \o WaitFutures
    \o disconnection_procedure

CONN_PAIR_3 ==
    Both(gap_set_io_cap) \o connection_procedure
    \o gap_pair("central")
    \o gap_passkey_disp_ev("peripheral") \o gap_passkey_entry_req_ev("central")
    \o WaitFutures
    \o gap_passkey_entry_rsp("central")
    \o Both(gap_sec_level_changed_ev) \o WaitFutures
    \o disconnection_procedure

Program(t) ==
    CASE t = "DISC_GENM_1" -> Discover
      [] t = "CONN_GCEP_1" -> connection_procedure \o disconnection_procedure
      [] t = "CONN_DCON_1" -> CONN_DCON_1
      [] t = "CONN_CPUP_1" -> ParamUpdate("peripheral")
      [] t = "CONN_CPUP_2" -> ParamUpdate("central")
      [] t = "CONN_PAIR_1" -> CONN_PAIR_1
      [] t = "CONN_PAIR_2" -> CONN_PAIR_2
      [] t = "CONN_PAIR_3" -> CONN_PAIR_3

VARIABLES
    test,        \* the test that runs
    pc,          \* its next step
    sent,        \* it has sent the step's command and reads the response
    outcome,     \* running, passed, or how it failed
    listeners,   \* the events of each IUT that its futures wait for
    list,        \* the list of listeners a registration has looked up
    astray,      \* the events whose listener is in a list no longer looked up
    rspq,        \* each IUT's BTPWorker._rx_queue
    connections, \* each IUT's Gap.connections is not empty
    dead,        \* the IUTs whose receive thread has died
    pending,     \* the command each IUT has not answered
    due,         \* events it has noticed and not sent
    stream,      \* the frames it has sent
    crashed,     \* the IUTs that have stopped
    doing,       \* what the IUTs are about on the air
    link,        \* they are connected
    answered,    \* the IUTs that have been given the passkey
    lost         \* history: the link or an IUT was lost

testVars == <<test, pc, sent, outcome>>
registryVars == <<listeners, list, astray>>
airVars == <<due, crashed, doing, link, answered, lost>>
vars == <<testVars, registryVars, rspq, connections, dead, pending, stream, airVars>>

Activity == {"advertising", "scanning", "connecting", "disconnecting", "pairing",
             "keys", "updating"}
Command == {"set_conn", "set_gendiscov", "start_adv", "start_direct_adv",
            "start_discov", "stop_discov", "conn", "disconn", "pair",
            "passkey_rsp", "conn_param_update", "set_io_cap"}
Response == {"success", "error"}

TypeOK ==
    /\ test \in Test
    /\ pc \in 1 .. Len(Program(test)) + 1
    /\ sent \in BOOLEAN
    /\ outcome \in {"running", "passed", "timeout", "assertion", "raised"}
    /\ listeners \in [Iut -> SUBSET Event] /\ astray \in [Iut -> SUBSET Event]
    /\ list \in {"none", "current", "old"}
    /\ rspq \in [Iut -> Seq(Response)] /\ \A i \in Iut : Len(rspq[i]) <= 1
    /\ connections \in [Iut -> BOOLEAN]
    /\ dead \in SUBSET Iut
    /\ pending \in [Iut -> SUBSET Command]
    /\ due \in [Iut -> Seq(Event)]
    /\ stream \in [Iut -> Seq(Event \cup Response)]
    /\ crashed \in SUBSET Iut
    /\ doing \in SUBSET Activity
    /\ link \in BOOLEAN /\ answered \in SUBSET Iut /\ lost \in BOOLEAN

\* setUp() has run preconditions() on both IUTs.
Init ==
    /\ test \in Test /\ pc = 1 /\ sent = FALSE /\ outcome = "running"
    /\ listeners = [i \in Iut |-> {}] /\ list = "none" /\ astray = [i \in Iut |-> {}]
    /\ rspq = [i \in Iut |-> <<>>]
    /\ connections = [i \in Iut |-> FALSE]
    /\ dead = {}
    /\ pending = [i \in Iut |-> {}]
    /\ stream = [i \in Iut |-> <<>>] /\ due = [i \in Iut |-> <<>>]
    /\ crashed = {}
    /\ doing = {} /\ link = FALSE /\ answered = {} /\ lost = FALSE

-----------------------------------------------------------------------------
\* The IUTs (external).

Begun(c) ==
    CASE c \in {"start_adv", "start_direct_adv"} -> {"advertising"}
      [] c = "start_discov" -> {"scanning"}
      [] c = "conn" -> {"connecting"}
      [] c = "disconn" -> {"disconnecting"}
      [] c = "pair" -> {"pairing"}
      [] c = "conn_param_update" -> {"updating"}
      [] OTHER -> {}

NeedsLink == {"disconn", "pair", "passkey_rsp", "conn_param_update"}

Answer(i) ==
    /\ outcome = "running" /\ i \notin crashed
    /\ \E c \in pending[i] :
          IF c \in NeedsLink /\ ~link
          THEN /\ stream' = [stream EXCEPT ![i] = Append(@, "error")]
               /\ UNCHANGED <<doing, answered>>
          ELSE /\ stream' = [stream EXCEPT ![i] = Append(@, "success")]
               /\ doing' = IF c = "stop_discov" THEN doing \ {"scanning"}
                                               ELSE doing \cup Begun(c)
               /\ answered' = IF c = "passkey_rsp" THEN answered \cup {i}
                                                   ELSE answered
    /\ pending' = [pending EXCEPT ![i] = {}]
    /\ UNCHANGED <<testVars, registryVars, rspq, connections, dead, due, crashed,
                   link, lost>>

\* Both IUTs notice what happens on the air, and report it when they can.
BothNotice(e) ==
    due' = [i \in Iut |-> IF i \in crashed THEN due[i] ELSE Append(due[i], e)]

testerVars == <<testVars, registryVars, rspq, connections, dead>>

SendEvent(i) ==
    /\ outcome = "running" /\ due[i] # <<>>
    /\ stream' = [stream EXCEPT ![i] = Append(@, Head(due[i]))]
    /\ due' = [due EXCEPT ![i] = Tail(@)]
    /\ UNCHANGED <<testerVars, pending, crashed, doing, link, answered, lost>>

CanReport == {"advertising", "scanning"} \subseteq doing /\ crashed = {}
CanConnect == {"advertising", "connecting"} \subseteq doing /\ ~link /\ crashed = {}
CanDisconnect == "disconnecting" \in doing
JustWorks == test \in {"CONN_PAIR_1", "CONN_DCON_1"}
CanAsk == "pairing" \in doing /\ ~JustWorks
CanPair ==
    \/ "pairing" \in doing /\ JustWorks
    \/ "keys" \in doing /\ "central" \in answered
       /\ (test = "CONN_PAIR_3" \/ "peripheral" \in answered)
CanUpdate == "updating" \in doing

\* An advertising report: a scan goes on until it is stopped.
Report ==
    /\ outcome = "running" /\ CanReport
    /\ Len(stream["central"]) < MaxFlight
    /\ stream' = [stream EXCEPT !["central"] = Append(@, "found")]
    /\ UNCHANGED <<testerVars, pending, airVars>>

ConnectOnAir ==
    /\ CanConnect
    /\ BothNotice("connected")
    /\ link' = TRUE
    /\ doing' = doing \ {"advertising", "connecting"}
    /\ UNCHANGED <<testerVars, pending, stream, crashed, answered, lost>>

DisconnectOnAir ==
    /\ CanDisconnect
    /\ BothNotice("disconnected")
    /\ link' = FALSE
    /\ doing' = {}
    /\ UNCHANGED <<testerVars, pending, stream, crashed, answered, lost>>

AskPasskey ==
    /\ CanAsk
    /\ BothNotice("passkey")
    /\ doing' = (doing \ {"pairing"}) \cup {"keys"}
    /\ UNCHANGED <<testerVars, pending, stream, crashed, link, answered, lost>>

PairOnAir ==
    /\ CanPair
    /\ BothNotice("sec_level")
    /\ doing' = doing \ {"pairing", "keys"}
    /\ UNCHANGED <<testerVars, pending, stream, crashed, link, answered, lost>>

UpdateOnAir ==
    /\ CanUpdate
    /\ BothNotice("params")
    /\ doing' = doing \ {"updating"}
    /\ UNCHANGED <<testerVars, pending, stream, crashed, link, answered, lost>>

\* Supervision timeout: whatever was going on over the link is over.
LoseLink ==
    /\ outcome = "running" /\ link
    /\ BothNotice("disconnected")
    /\ link' = FALSE /\ lost' = TRUE
    /\ doing' = {}
    /\ UNCHANGED <<testerVars, pending, stream, crashed, answered>>

\* An IUT stops: it answers and reports nothing more, and the other notices
\* that the link is gone.
Crash(i) ==
    /\ outcome = "running" /\ crashed = {}
    /\ crashed' = {i}
    /\ due' = [j \in Iut |-> IF j = i THEN <<>>
                             ELSE IF link THEN Append(due[j], "disconnected")
                                  ELSE due[j]]
    /\ link' = FALSE /\ lost' = TRUE
    /\ doing' = {}
    /\ UNCHANGED <<testerVars, pending, stream, answered>>

OnAir ==
    /\ outcome = "running"
    /\ \/ ConnectOnAir
       \/ DisconnectOnAir
       \/ AskPasskey
       \/ PairOnAir
       \/ UpdateOnAir

-----------------------------------------------------------------------------
\* Where the test is.

ended == pc > Len(Program(test))
step == Program(test)[pc]
At(do) == outcome = "running" /\ ~ended /\ step.do = do

-----------------------------------------------------------------------------
\* The receive thread of an IUT.

receiveUnchanged == <<testVars, pending, airVars>>

Frame(i) == Head(stream[i])
Receiving(i) == outcome = "running" /\ i \notin dead /\ stream[i] # <<>>

RxResponse(i) ==
    /\ Receiving(i) /\ Frame(i) \in Response
    /\ stream' = [stream EXCEPT ![i] = Tail(@)]
    /\ rspq' = [rspq EXCEPT ![i] = Append(@, Frame(i))]
    /\ UNCHANGED <<receiveUnchanged, registryVars, connections, dead>>

\* Every callback returns to the handler, which releases the listeners in the list
\* of its event and replaces the list: a registration may have looked it up.
Notify(i) ==
    /\ Receiving(i)
    /\ stream' = [stream EXCEPT ![i] = Tail(@)]
    /\ listeners' = [listeners EXCEPT ![i] = @ \ ({Frame(i)} \ astray[i])]
    /\ list' = IF list = "current" /\ step.iut = i /\ step.what = Frame(i)
               THEN "old" ELSE list
    /\ UNCHANGED <<receiveUnchanged, astray, rspq>>

\* Mutant: the connection is entered under a key that is never looked up.
ConnectedEvUnseen(i) ==
    /\ Receiving(i) /\ Frame(i) = "connected"
    /\ UNCHANGED <<connections, dead>>
    /\ Notify(i)

ConnectedEv(i) ==
    /\ Receiving(i) /\ Frame(i) = "connected"
    /\ connections' = [connections EXCEPT ![i] = TRUE]
    /\ UNCHANGED dead
    /\ Notify(i)

\* Mutant: the connection is not taken out.
DisconnectedEvKeeps(i) ==
    /\ Receiving(i) /\ Frame(i) = "disconnected"
    /\ UNCHANGED <<connections, dead>>
    /\ Notify(i)

\* connections.pop(addr), which raises KeyError when addr is not there.
DisconnectedEv(i) ==
    /\ Receiving(i) /\ Frame(i) = "disconnected"
    /\ IF connections[i]
       THEN /\ connections' = [connections EXCEPT ![i] = FALSE]
            /\ UNCHANGED dead
            /\ Notify(i)
       ELSE /\ dead' = dead \cup {i}
            /\ stream' = [stream EXCEPT ![i] = Tail(@)]
            /\ UNCHANGED <<receiveUnchanged, rspq, registryVars, connections>>

\* The other callbacks return what the event says.
OtherEv(i) ==
    /\ Receiving(i)
    /\ Frame(i) \in {"found", "params", "passkey", "sec_level"}
    /\ UNCHANGED <<connections, dead>>
    /\ Notify(i)

Rx(i) == RxResponse(i) \/ ConnectedEv(i) \/ DisconnectedEv(i) \/ OtherEv(i)

-----------------------------------------------------------------------------
\* The test.

SendCommand ==
    /\ At("command") /\ ~sent
    /\ ~(step.what = "disconn" /\ ~connections[step.iut])
    /\ pending' = [pending EXCEPT ![step.iut] = {step.what}]
    /\ sent' = TRUE
    /\ UNCHANGED <<test, pc, outcome, registryVars, rspq, connections, dead, stream,
                   airVars>>

\* gap_disconn returns when there is no connection.
SkipDisconn ==
    /\ At("command") /\ ~sent
    /\ step.what = "disconn" /\ ~connections[step.iut]
    /\ pc' = pc + 1
    /\ UNCHANGED <<test, sent, outcome, registryVars, rspq, connections, dead,
                   pending, stream, airVars>>

\* Mutant: the response stays in the queue for the next command.
ReadRspPeek ==
    /\ At("command") /\ sent /\ rspq[step.iut] # <<>>
    /\ sent' = FALSE
    /\ IF Head(rspq[step.iut]) = "success"
       THEN pc' = pc + 1 /\ UNCHANGED outcome
       ELSE outcome' = "raised" /\ UNCHANGED pc
    /\ UNCHANGED <<test, registryVars, rspq, connections, dead, pending, stream,
                   airVars>>

\* gap_command_rsp_succ: an error status raises.
ReadRsp ==
    /\ At("command") /\ sent /\ rspq[step.iut] # <<>>
    /\ rspq' = [rspq EXCEPT ![step.iut] = Tail(@)]
    /\ sent' = FALSE
    /\ IF Head(rspq[step.iut]) = "success"
       THEN pc' = pc + 1 /\ UNCHANGED outcome
       ELSE outcome' = "raised" /\ UNCHANGED pc
    /\ UNCHANGED <<test, registryVars, connections, dead, pending, stream, airVars>>

\* Nobody fills the queue any more.
ReadTimeout ==
    /\ At("command") /\ sent /\ rspq[step.iut] = <<>>
    /\ step.iut \in dead \/ (step.iut \in crashed /\ stream[step.iut] = <<>>)
    /\ outcome' = "raised"
    /\ UNCHANGED <<test, pc, sent, registryVars, rspq, connections, dead, pending,
                   stream, airVars>>

\* wait_for_event() looks the list of listeners up,
LookUp ==
    /\ At("register") /\ list = "none"
    /\ list' = "current"
    /\ UNCHANGED <<testVars, listeners, astray, rspq, connections, dead, pending,
                   stream, airVars>>

\* and adds one to it, which nobody finds if the list has been replaced by now.
RegisterListener ==
    /\ At("register") /\ list # "none"
    /\ listeners' = [listeners EXCEPT ![step.iut] = @ \cup {step.what}]
    /\ astray' = IF list = "current" THEN astray
                 ELSE [astray EXCEPT ![step.iut] = @ \cup {step.what}]
    /\ list' = "none"
    /\ pc' = pc + 1
    /\ UNCHANGED <<test, sent, outcome, rspq, connections, dead, pending, stream,
                   airVars>>

AllDone == \A i \in Iut : listeners[i] = {}

WaitDone ==
    /\ At("wait") /\ AllDone
    /\ pc' = pc + 1
    /\ UNCHANGED <<test, sent, outcome, registryVars, rspq, connections, dead,
                   pending, stream, airVars>>

\* Nothing more will happen by itself that a listener could hear.
Quiet ==
    /\ \A i \in Iut : (stream[i] = <<>> /\ due[i] = <<>>) \/ i \in dead
    /\ ~(CanReport \/ CanConnect \/ CanDisconnect \/ CanAsk \/ CanPair \/ CanUpdate)

\* Mutant: wait() is called without its timeout.
WaitForever ==
    /\ At("wait") /\ AllDone /\ Quiet
    /\ outcome' = "timeout"
    /\ UNCHANGED <<test, pc, sent, registryVars, rspq, connections, dead, pending,
                   stream, airVars>>

\* EV_TIMEOUT is over.  A timeout before things are quiet fails the test
\* earlier, and what a failed test leaves behind is torn down; but with a listener
\* astray the wait can only time out, whatever is still reported.
WaitTimeout ==
    /\ At("wait") /\ ~AllDone
    /\ Quiet \/ \E i \in Iut : astray[i] # {}
    /\ outcome' = "timeout"
    /\ UNCHANGED <<test, pc, sent, registryVars, rspq, connections, dead, pending,
                   stream, airVars>>

CheckConnection ==
    /\ At("assert")
    /\ IF connections[step.iut] = (step.what = "connected")
       THEN pc' = pc + 1 /\ UNCHANGED outcome
       ELSE outcome' = "assertion" /\ UNCHANGED pc
    /\ UNCHANGED <<test, sent, registryVars, rspq, connections, dead, pending,
                   stream, airVars>>

Pass ==
    /\ outcome = "running" /\ ended
    /\ outcome' = "passed"
    /\ UNCHANGED <<test, pc, sent, registryVars, rspq, connections, dead, pending,
                   stream, airVars>>

RunTest ==
    \/ SendCommand
    \/ SkipDisconn
    \/ ReadRsp
    \/ ReadTimeout
    \/ LookUp
    \/ RegisterListener
    \/ WaitDone
    \/ WaitTimeout
    \/ CheckConnection
    \/ Pass

Next ==
    \/ \E i \in Iut : Answer(i) \/ SendEvent(i) \/ Rx(i) \/ Crash(i)
    \/ Report
    \/ OnAir
    \/ LoseLink
    \/ RunTest

Spec == Init /\ [][Next]_vars

\* Unless they crash, the IUTs answer, advertise, report and do what they were
\* told, and the threads of the tester run.
FairSpec ==
    /\ Spec
    /\ \A i \in Iut : WF_vars(Answer(i)) /\ WF_vars(SendEvent(i)) /\ WF_vars(Rx(i))
    /\ WF_vars(Report)
    /\ WF_vars(OnAir)
    /\ WF_vars(RunTest)

-----------------------------------------------------------------------------
\* The tests that send a command before they register for its events.
RegistersLate == {"CONN_CPUP_1", "CONN_CPUP_2", "CONN_PAIR_2", "CONN_PAIR_3"}

\* A test fails only when the link or an IUT is lost.  As long as both stand no
\* assertion on is_connected() fails, no command is refused or unanswered, and
\* every awaited event is heard; except that the tests that register a listener
\* after the command that brings its event may time out, and that every test may
\* time out over the listener for advertising reports: it alone is registered while
\* its events come in, and may go astray with a list that is just being replaced.
FailureHasCause ==
    outcome \notin {"running", "passed"} =>
        \/ lost
        \/ outcome = "timeout" /\ test \in RegistersLate
        \/ outcome = "timeout" /\ \E i \in Iut : "found" \in astray[i]

\* The connections of a stack are those of its IUT whenever nothing is under
\* way, and the receive thread survives every order of connections, losses and
\* reconnections: no connection is removed that is not there.
ConnectionsFollowLink ==
    \A i \in Iut \ crashed :
        /\ i \notin dead
        /\ stream[i] = <<>> /\ due[i] = <<>> => connections[i] = link

\* A test that passes leaves no link, no connection in either stack, no
\* listener and no event but an advertising report behind.
PassedIsClean ==
    outcome = "passed" =>
        /\ ~link
        /\ \A i \in Iut :
              /\ ~connections[i] /\ listeners[i] = {} /\ due[i] = <<>>
              /\ \A k \in DOMAIN stream[i] : stream[i][k] = "found"

\* Every test ends, whatever is lost and wherever: no IUT waits for the other.
TestEnds == <>(outcome # "running")

\* What the pairing test says it verifies: the IUT can perform the procedure.
PairingHeard == outcome = "timeout" => lost

=============================================================================
