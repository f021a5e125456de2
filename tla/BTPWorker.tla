------------------------------ MODULE BTPWorker ------------------------------
(***************************************************************************)
(* pybtp/btp_worker.py: the worker of one IUT.  Its receive thread (rx)    *)
(* moves frames from the socket to the event handler or to the response    *)
(* queue; the test (main) sends a command and reads the queue until a      *)
(* response or a timer comes; close() joins rx and empties the queue.      *)
(*                                                                         *)
(* A frame keeps the number of the command it answers, which the program   *)
(* cannot see: btp_hdr_check() compares service and opcode only.  The wire *)
(* is the FrameChannel that BTPSocket.read() implements; a frame of a      *)
(* broken channel is one more stray.  The IUT is external: it answers the  *)
(* commands in order and at any time, sends events, reboots, or hangs up.  *)
(***************************************************************************)
EXTENDS Naturals, Sequences

CONSTANTS
    Op,            \* opcodes of commands
    Script,        \* the opcodes of the commands the test sends, in order
    MaxUnasked     \* bound: frames the IUT sends unasked

ASSUME ScriptAssumption == Script \in Seq(Op)
ASSUME BoundAssumption == MaxUnasked \in Nat

VARIABLES
    wire,          \* frames sent by the IUT and not read by rx yet
    peer,          \* "up", or "gone" after a hang-up
    todo,          \* commands the IUT has received and not answered
    unasked,       \* frames it has sent unasked
    running,       \* _running
    rx,            \* where _rx_task is
    hand,          \* the frame it is handling, if any
    queue,         \* _rx_queue
    main,          \* where the test is
    timer,         \* read_timer, and the flag it clears when it fires
    sent,          \* number of commands sent
    expect,        \* what the read in progress is checked against
    log            \* how each read ended

iutVars == <<wire, peer, todo, unasked>>
rxVars == <<running, rx, hand, queue>>
mainVars == <<main, timer, sent, expect, log>>
vars == <<iutVars, rxVars, mainVars>>

Commands == 1 .. Len(Script)

Answer(kind, n) == [kind |-> kind, cmd |-> n]
Unasked(kind) == [kind |-> kind, cmd |-> 0]

\* "ready" is the IUT_READY event of the CORE service, which rx queues.  A
\* "stray" is any other frame nobody waits for that ends on the queue: an event
\* without a callback, a frame of a broken channel.  An "event" is handled; a
\* "poison" one makes its callback raise.
UnaskedKinds == {"ready", "stray", "event", "poison"}
AnswerKinds == {"rsp", "status"}

Frame == [kind : AnswerKinds, cmd : Commands]
         \cup [kind : UnaskedKinds, cmd : {0}]

Expected == [kind : {"rsp"}, cmd : Commands]
            \cup [kind : {"ready"}, cmd : {0}]

NoFrame == [kind |-> "none", cmd |-> 0]

TypeOK ==
    /\ wire \in Seq(Frame)
    /\ peer \in {"up", "gone"}
    /\ todo \in Seq(Commands)
    /\ unasked \in 0 .. MaxUnasked
    /\ running \in BOOLEAN
    /\ rx \in {"none", "loop", "read", "handle", "ended", "dead"}
    /\ hand \in Seq(Frame) /\ Len(hand) <= 1
    /\ queue \in Seq(Frame)
    /\ main \in {"new", "idle", "poll", "check", "joining", "closed"}
    /\ timer \in {"off", "armed", "fired"}
    /\ sent \in 0 .. Len(Script)
    /\ expect \in Expected \cup {NoFrame}
    /\ log \in Seq([expect : Expected, frame : Frame \cup {NoFrame},
                    outcome : {"ok", "error", "timeout"}])

Init ==
    /\ wire = <<>> /\ peer = "up" /\ todo = <<>> /\ unasked = 0
    /\ running = FALSE /\ rx = "none" /\ hand = <<>> /\ queue = <<>>
    /\ main = "new" /\ timer = "off" /\ sent = 0
    /\ expect = NoFrame /\ log = <<>>

-----------------------------------------------------------------------------
\* The IUT.

IutAnswer(kind) ==
    /\ peer = "up" /\ todo # <<>>
    /\ wire' = Append(wire, Answer(kind, Head(todo)))
    /\ todo' = Tail(todo)
    /\ UNCHANGED <<peer, unasked, rxVars, mainVars>>

IutSend(kind) ==
    /\ peer = "up" /\ unasked < MaxUnasked
    /\ wire' = Append(wire, Unasked(kind))
    /\ unasked' = unasked + 1
    \* Only a boot makes an IUT_READY, and a boot forgets the commands.
    /\ todo' = IF kind = "ready" THEN <<>> ELSE todo
    /\ UNCHANGED <<peer, rxVars, mainVars>>

IutHangUp ==
    /\ peer = "up"
    /\ peer' = "gone"
    /\ UNCHANGED <<wire, todo, unasked, rxVars, mainVars>>

-----------------------------------------------------------------------------
\* _rx_task

\* Mutant: the thread does not look at _running.
RxLoopForever ==
    /\ rx = "loop"
    /\ rx' = "read"
    /\ UNCHANGED <<iutVars, running, hand, queue, mainVars>>

RxLoop ==
    /\ rx = "loop"
    /\ rx' = IF running THEN "read" ELSE "ended"
    /\ UNCHANGED <<iutVars, running, hand, queue, mainVars>>

RxRead ==
    /\ rx = "read" /\ wire # <<>>
    /\ hand' = <<Head(wire)>>
    /\ wire' = Tail(wire)
    /\ rx' = "handle"
    /\ UNCHANGED <<peer, todo, unasked, running, queue, mainVars>>

\* socket.timeout after a second without a frame.  After a hang-up there is no
\* timeout any more: BTPSocket.read() spins on empty reads.
RxTimeout ==
    /\ rx = "read" /\ wire = <<>> /\ peer = "up"
    /\ rx' = "loop"
    /\ UNCHANGED <<iutVars, running, hand, queue, mainVars>>

\* Mutant: the frame is queued after it was let go.
RxHandleLate ==
    /\ rx = "handle"
    /\ LET f == Head(hand)
       IN  /\ rx' = IF f.kind = "poison" THEN "dead" ELSE "loop"
           /\ queue' = IF f.kind \in {"event", "poison"} THEN queue
                       ELSE Append(queue, NoFrame)
    /\ hand' = <<>>
    /\ UNCHANGED <<iutVars, running, mainVars>>

RxHandle ==
    /\ rx = "handle"
    /\ LET f == Head(hand)
       IN  /\ rx' = IF f.kind = "poison" THEN "dead" ELSE "loop"
           /\ queue' = IF f.kind \in {"event", "poison"} THEN queue
                       ELSE Append(queue, f)
    /\ hand' = <<>>
    /\ UNCHANGED <<iutVars, running, mainVars>>

Rx == RxLoop \/ RxRead \/ RxTimeout \/ RxHandle

-----------------------------------------------------------------------------
\* main

\* accept(); when it times out, main stays "new" and can only close.
Accept ==
    /\ main = "new"
    /\ running' = TRUE
    /\ rx' = "loop"
    /\ main' = "idle"
    /\ UNCHANGED <<iutVars, hand, queue, timer, sent, expect, log>>

StartRead(f) ==
    /\ main = "idle"
    /\ main' = "poll"
    /\ timer' = "armed"
    /\ expect' = f

\* wait_iut_ready_event() reads before anything is sent.
AwaitReady ==
    /\ log = <<>> /\ sent = 0
    /\ StartRead(Unasked("ready"))
    /\ UNCHANGED <<iutVars, rxVars, sent, log>>

\* A function of btp.py: send() the command, then read() its response.
Send ==
    /\ sent < Len(Script)
    /\ sent' = sent + 1
    /\ todo' = IF peer = "up" THEN Append(todo, sent') ELSE todo
    /\ StartRead(Answer("rsp", sent'))
    /\ UNCHANGED <<wire, peer, unasked, rxVars, log>>

\* The timer thread clears the flag.
TimerFires ==
    /\ timer = "armed"
    /\ timer' = "fired"
    /\ UNCHANGED <<iutVars, rxVars, main, sent, expect, log>>

EndRead(frame, outcome) ==
    /\ main' = "idle"
    /\ log' = Append(log, [expect |-> expect, frame |-> frame, outcome |-> outcome])
    /\ expect' = NoFrame

\* Mutant: the loop of read() does not look at the flag.
PollForever ==
    /\ main = "poll"
    /\ main' = "check"
    /\ UNCHANGED <<iutVars, rxVars, timer, sent, expect, log>>

\* while flag.is_set(): and, past the loop, raise socket.timeout
PollFlag ==
    /\ main = "poll"
    /\ IF timer = "fired"
       THEN EndRead(NoFrame, "timeout")
       ELSE main' = "check" /\ UNCHANGED <<expect, log>>
    /\ UNCHANGED <<iutVars, rxVars, timer, sent>>

\* Mutant: the header check finds fault with BTP_STATUS only.
AnyFrame(f, g) == f.kind # "status" /\ g # NoFrame

\* The opcode a frame carries is that of the command it answers.
SameOpcode(f, g) ==
    /\ f.kind = g.kind
    /\ f.kind = "rsp" => Script[f.cmd] = Script[g.cmd]

\* Mutant: the newest frame is taken, not the oldest.
CheckQueueLast ==
    /\ main = "check"
    /\ IF queue = <<>>
       THEN main' = "poll" /\ UNCHANGED <<queue, timer, expect, log>>
       ELSE /\ timer' = "off"
            /\ queue' = SubSeq(queue, 1, Len(queue) - 1)
            /\ EndRead(queue[Len(queue)],
                       IF SameOpcode(queue[Len(queue)], expect) THEN "ok" ELSE "error")
    /\ UNCHANGED <<iutVars, running, rx, hand, sent>>

\* if empty(): continue; otherwise cancel the timer, get() and check the header.
CheckQueue ==
    /\ main = "check"
    /\ IF queue = <<>>
       THEN main' = "poll" /\ UNCHANGED <<queue, timer, expect, log>>
       ELSE /\ timer' = "off"
            /\ queue' = Tail(queue)
            /\ EndRead(Head(queue),
                       IF SameOpcode(Head(queue), expect) THEN "ok" ELSE "error")
    /\ UNCHANGED <<iutVars, running, rx, hand, sent>>

Close ==
    /\ main \in {"new", "idle"}
    /\ running' = FALSE
    /\ main' = "joining"
    /\ UNCHANGED <<iutVars, rx, hand, queue, timer, sent, expect, log>>

\* Mutant: close() does not join the receive thread.
NotJoined ==
    /\ main = "joining"
    /\ timer' = "off"
    /\ queue' = <<>>
    /\ main' = "closed"
    /\ UNCHANGED <<iutVars, running, rx, hand, sent, expect, log>>

\* The rest of close(), once rx has been joined (if it was ever started).
Joined ==
    /\ main = "joining"
    /\ rx \in {"none", "ended", "dead"}
    /\ timer' = "off"
    /\ queue' = <<>>
    /\ main' = "closed"
    /\ UNCHANGED <<iutVars, running, rx, hand, sent, expect, log>>

MainRead == PollFlag \/ CheckQueue

Next ==
    \/ \E kind \in AnswerKinds : IutAnswer(kind)
    \/ \E kind \in UnaskedKinds : IutSend(kind)
    \/ IutHangUp
    \/ Rx
    \/ Accept
    \/ AwaitReady
    \/ Send
    \/ TimerFires
    \/ MainRead
    \/ Close
    \/ Joined

Spec == Init /\ [][Next]_vars

\* Threads run and timers fire; the IUT owes nothing.
FairSpec ==
    /\ Spec
    /\ WF_vars(Rx)
    /\ WF_vars(MainRead)
    /\ WF_vars(TimerFires)
    /\ WF_vars(Joined)

-----------------------------------------------------------------------------
IsAnswer(f) == f.kind \in AnswerKinds

\* The answers of s are those of earlier commands than the answers of t.
Precede(s, t) ==
    \A i \in DOMAIN s, j \in DOMAIN t : IsAnswer(s[i]) /\ IsAnswer(t[j]) => s[i].cmd < t[j].cmd

Ascend(s) ==
    \A i, j \in DOMAIN s : i < j /\ IsAnswer(s[i]) /\ IsAnswer(s[j]) => s[i].cmd < s[j].cmd

\* Where answers are on their way, the end first, and the commands yet to answer.
ReadFrames == [i \in DOMAIN log |-> log[i].frame]
Unanswered == [i \in DOMAIN todo |-> Answer("rsp", todo[i])]
Pipe == <<ReadFrames, queue, hand, wire, Unanswered>>

\* Answers are read in the order of their commands, none of them twice, from
\* the IUT through the wire, the receive thread and the queue to read().
AnswersInOrder ==
    \A a \in DOMAIN Pipe :
        /\ Ascend(Pipe[a])
        /\ \A b \in DOMAIN Pipe : a < b => Precede(Pipe[a], Pipe[b])

\* The frame a command accepts is its own answer, unless an earlier read failed:
\* then it may be the answer of an earlier command with the same opcode, left
\* on the queue by that failure.
AcceptsOwnAnswer ==
    \A i \in 1 .. Len(log) :
        log[i].outcome = "ok" /\ log[i].frame.kind = "rsp" =>
            \/ log[i].frame.cmd = log[i].expect.cmd
            \/ /\ log[i].frame.cmd < log[i].expect.cmd
               /\ Script[log[i].frame.cmd] = Script[log[i].expect.cmd]
               /\ \E j \in 1 .. i - 1 : log[j].outcome # "ok"

\* When close() returns no thread is left that could queue a frame or fire a
\* timer, and no frame is left for the next one to read.
ClosedIsQuiet ==
    main = "closed" =>
        queue = <<>> /\ timer # "armed" /\ rx \in {"none", "ended", "dead"}

\* Every read ends: with a frame, or with socket.timeout even when the receive
\* thread has died of an exception in a callback or is stuck on a hang-up.
ReadReturns == (main \in {"poll", "check"}) ~> (main = "idle")

\* close() returns, unless the IUT hung up while rx was reading: then the join
\* waits for a thread that never ends.
CloseReturns == (main = "joining") ~> (main = "closed" \/ peer = "gone")

=============================================================================
