---------------------------- MODULE BTPWorkerProofs ----------------------------
(***************************************************************************)
(* Theorems about BTPWorker, for every script of commands and any number   *)
(* of frames that the IUT sends unasked.                                   *)
(***************************************************************************)
EXTENDS BTPWorker, SequenceTheorems, TLAPS

USE ScriptAssumption, BoundAssumption

\* How a read ends, and what is logged of it.
Ends == [expect : Expected, frame : Frame \cup {NoFrame}, outcome : {"ok", "error", "timeout"}]

Reading == main \in {"poll", "check"}

\* The thread has a frame in hand while it handles it, and is started by main,
\* which expects something while it reads.
Hands ==
    /\ main = "new" => rx = "none"
    /\ (rx = "handle") <=> (hand # <<>>)
    /\ Reading <=> (expect # NoFrame)

TInv == TypeOK /\ Hands

-----------------------------------------------------------------------------
\* Frames are told apart from what is none.
LEMMA FrameFields ==
    /\ NoFrame \notin Frame /\ NoFrame \notin Expected /\ Expected \subseteq Frame
    /\ \A f \in Frame : f.kind \in AnswerKinds \cup UnaskedKinds
    /\ \A f \in Frame : IsAnswer(f) => f.cmd \in Commands
<1>1. NoFrame.kind = "none" /\ \A f \in Frame : f.kind # "none"
  BY DEF NoFrame, Frame, AnswerKinds, UnaskedKinds
<1>2. Expected \subseteq Frame
  BY DEF Expected, Frame, AnswerKinds, UnaskedKinds
<1>3. \A f \in Frame : f.kind \in AnswerKinds \cup UnaskedKinds
  BY DEF Frame
<1>4. \A f \in Frame : IsAnswer(f) => f.cmd \in Commands
  BY DEF Frame, IsAnswer, AnswerKinds, UnaskedKinds
<1>5. QED
  BY <1>1, <1>2, <1>3, <1>4

LEMMA SentFrames ==
    /\ \A kind \in AnswerKinds, n \in Commands : Answer(kind, n) \in Frame
    /\ \A kind \in UnaskedKinds : Unasked(kind) \in Frame
    /\ \A n \in Commands : Answer("rsp", n) \in Expected
    /\ Unasked("ready") \in Expected
BY DEF Answer, Unasked, Frame, Expected, AnswerKinds, UnaskedKinds

LEMMA TypeInit == Init => TInv
<1> SUFFICES ASSUME Init
             PROVE  TInv
  OBVIOUS
<1>1. /\ wire \in Seq(Frame) /\ todo \in Seq(Commands) /\ hand \in Seq(Frame) /\ Len(hand) = 0
      /\ queue \in Seq(Frame) /\ log \in Seq(Ends) /\ expect \in Expected \cup {NoFrame}
  BY DEF Init
<1>2. unasked \in 0 .. MaxUnasked /\ sent \in 0 .. Len(Script)
  BY DEF Init
<1>3. TypeOK
  <2>1. /\ peer \in {"up", "gone"} /\ running \in BOOLEAN
        /\ rx \in {"none", "loop", "read", "handle", "ended", "dead"}
        /\ main \in {"new", "idle", "poll", "check", "joining", "closed"}
        /\ timer \in {"off", "armed", "fired"}
    BY DEF Init
  <2>2. Len(hand) <= 1
    BY <1>1
  <2>3. QED
    BY <1>1, <1>2, <2>1, <2>2 DEF TypeOK, Ends
<1>4. Hands
  BY DEF Init, Hands, Reading
<1>5. QED
  BY <1>3, <1>4 DEF TInv

LEMMA TypeIut ==
    ASSUME TInv,
           \/ \E kind \in AnswerKinds : IutAnswer(kind)
           \/ \E kind \in UnaskedKinds : IutSend(kind)
           \/ IutHangUp
    PROVE  TInv'
<1> USE DEF TInv, TypeOK, Hands, Reading, rxVars, mainVars
<1>1. ASSUME NEW kind \in AnswerKinds, IutAnswer(kind)
      PROVE  TInv'
  <2>1. Head(todo) \in Commands /\ Tail(todo) \in Seq(Commands)
    BY <1>1 DEF IutAnswer
  <2>2. Append(wire, Answer(kind, Head(todo))) \in Seq(Frame)
    BY <2>1, SentFrames
  <2>3. QED
    BY <1>1, <2>1, <2>2 DEF IutAnswer
<1>2. ASSUME NEW kind \in UnaskedKinds, IutSend(kind)
      PROVE  TInv'
  <2>1. Append(wire, Unasked(kind)) \in Seq(Frame)
    BY SentFrames
  <2>2. unasked' \in 0 .. MaxUnasked /\ todo' \in Seq(Commands)
    BY <1>2 DEF IutSend
  <2>3. QED
    BY <1>2, <2>1, <2>2 DEF IutSend
<1>3. CASE IutHangUp
  BY <1>3 DEF IutHangUp
<1>4. QED
  BY <1>1, <1>2, <1>3

LEMMA TypeRx == ASSUME TInv, Rx PROVE TInv'
<1> USE DEF TInv, TypeOK, Hands, Reading, iutVars, mainVars
<1>1. CASE RxLoop
  BY <1>1 DEF RxLoop
<1>2. CASE RxRead
  <2>1. Head(wire) \in Frame /\ Tail(wire) \in Seq(Frame)
    BY <1>2 DEF RxRead
  <2>2. hand' \in Seq(Frame) /\ Len(hand') = 1 /\ hand' # <<>>
    BY <1>2, <2>1 DEF RxRead
  <2>3. QED
    BY <1>2, <2>1, <2>2 DEF RxRead
<1>3. CASE RxTimeout
  BY <1>3 DEF RxTimeout
<1>4. CASE RxHandle
  <2>1. Head(hand) \in Frame
    BY <1>4 DEF RxHandle
  <2>2. queue' \in Seq(Frame) /\ hand' = <<>> /\ rx' \in {"dead", "loop"}
    BY <1>4, <2>1 DEF RxHandle
  <2>3. QED
    BY <1>4, <2>2 DEF RxHandle
<1>5. QED
  BY <1>1, <1>2, <1>3, <1>4 DEF Rx

\* A read that ends is logged.
LEMMA EndReadType ==
    ASSUME TInv, Reading, NEW frame \in Frame \cup {NoFrame},
           NEW outcome \in {"ok", "error", "timeout"}, EndRead(frame, outcome)
    PROVE  log' \in Seq(Ends) /\ main' = "idle" /\ expect' = NoFrame
<1>1. expect \in Expected /\ log \in Seq(Ends)
  BY DEF TInv, TypeOK, Hands, Ends
<1>2. [expect |-> expect, frame |-> frame, outcome |-> outcome] \in Ends
  BY <1>1 DEF Ends
<1>3. QED
  BY <1>1, <1>2 DEF EndRead

LEMMA TypeMain ==
    ASSUME TInv, Accept \/ AwaitReady \/ Send \/ TimerFires \/ MainRead \/ Close \/ Joined
    PROVE  TInv'
<1> USE DEF TInv, TypeOK, Hands, Reading, iutVars, rxVars
<1>1. CASE Accept
  BY <1>1 DEF Accept
<1>2. CASE AwaitReady
  BY <1>2, SentFrames, FrameFields DEF AwaitReady, StartRead
<1>3. CASE Send
  <2>1. sent' \in Commands /\ sent' \in 0 .. Len(Script)
    BY <1>3 DEF Send, Commands
  <2>2. todo' \in Seq(Commands)
    BY <1>3, <2>1 DEF Send
  <2>3. expect' \in Expected /\ expect' # NoFrame
    BY <1>3, <2>1, SentFrames, FrameFields DEF Send, StartRead
  <2>4. QED
    BY <1>3, <2>1, <2>2, <2>3 DEF Send, StartRead
<1>4. CASE TimerFires
  BY <1>4 DEF TimerFires
<1>5. CASE PollFlag
  <2>1. CASE timer = "fired"
    <3>1. log' \in Seq(Ends) /\ main' = "idle" /\ expect' = NoFrame
      BY <1>5, <2>1, EndReadType DEF PollFlag
    <3>2. QED
      BY <1>5, <3>1 DEF PollFlag, Ends
  <2>2. CASE timer # "fired"
    BY <1>5, <2>2 DEF PollFlag
  <2>3. QED
    BY <2>1, <2>2
<1>6. CASE CheckQueue
  <2>1. CASE queue = <<>>
    BY <1>6, <2>1 DEF CheckQueue
  <2>2. CASE queue # <<>>
    <3>1. Head(queue) \in Frame /\ Tail(queue) \in Seq(Frame)
      BY <2>2
    <3>2. PICK outcome \in {"ok", "error"} : EndRead(Head(queue), outcome)
      BY <1>6, <2>2 DEF CheckQueue
    <3>3. log' \in Seq(Ends) /\ main' = "idle" /\ expect' = NoFrame
      BY <1>6, <3>1, <3>2, EndReadType DEF CheckQueue
    <3>4. queue' = Tail(queue) /\ timer' = "off"
      BY <1>6, <2>2 DEF CheckQueue
    <3>5. QED
      BY <1>6, <3>1, <3>3, <3>4 DEF CheckQueue, Ends
  <2>3. QED
    BY <2>1, <2>2
<1>7. CASE Close
  BY <1>7 DEF Close
<1>8. CASE Joined
  BY <1>8 DEF Joined
<1>9. QED
  BY <1>1, <1>2, <1>3, <1>4, <1>5, <1>6, <1>7, <1>8 DEF MainRead

LEMMA TypeStep == TInv /\ [Next]_vars => TInv'
<1> SUFFICES ASSUME TInv, [Next]_vars
             PROVE  TInv'
  OBVIOUS
<1>1. CASE UNCHANGED vars
  BY <1>1 DEF vars, iutVars, rxVars, mainVars, TInv, TypeOK, Hands, Reading
<1>2. CASE Next
  BY <1>2, TypeIut, TypeRx, TypeMain DEF Next
<1>3. QED
  BY <1>1, <1>2

LEMMA TInvCorrect == Spec => []TInv
BY TypeInit, TypeStep, PTL DEF Spec

\* The queue, the thread's hand and the log hold frames only, and a timer runs
\* or has fired only as the code says, for every script.
THEOREM TypeCorrect == Spec => []TypeOK
<1>1. TInv => TypeOK
  BY DEF TInv
<1>2. QED
  BY TInvCorrect, <1>1, PTL

-----------------------------------------------------------------------------
\* When close() has returned no thread is left that could queue a frame or
\* fire a timer, and the queue is empty.
THEOREM ClosedIsQuietCorrect == Spec => []ClosedIsQuiet
<1>1. Init => ClosedIsQuiet
  BY DEF Init, ClosedIsQuiet
<1>2. ClosedIsQuiet /\ [Next]_vars => ClosedIsQuiet'
  <2> SUFFICES ASSUME ClosedIsQuiet, [Next]_vars
               PROVE  ClosedIsQuiet'
    OBVIOUS
  <2> USE DEF ClosedIsQuiet
  <2>1. ASSUME NEW kind, IutAnswer(kind) \/ IutSend(kind)
        PROVE  ClosedIsQuiet'
    BY <2>1 DEF IutAnswer, IutSend, rxVars, mainVars
  <2>2. CASE IutHangUp
    BY <2>2 DEF IutHangUp, rxVars, mainVars
  <2>3. CASE Rx
    BY <2>3 DEF Rx, RxLoop, RxRead, RxTimeout, RxHandle, mainVars
  <2>4. CASE Accept \/ AwaitReady \/ Send
    BY <2>4 DEF Accept, AwaitReady, Send, StartRead
  <2>5. CASE TimerFires
    BY <2>5 DEF TimerFires, rxVars
  <2>6. CASE MainRead
    BY <2>6 DEF MainRead, PollFlag, CheckQueue, EndRead
  <2>7. CASE Close
    BY <2>7 DEF Close
  <2>8. CASE Joined
    BY <2>8 DEF Joined
  <2>9. CASE UNCHANGED vars
    BY <2>9 DEF vars, rxVars, mainVars
  <2>10. QED
    BY <2>1, <2>2, <2>3, <2>4, <2>5, <2>6, <2>7, <2>8, <2>9 DEF Next
<1>3. QED
  BY <1>1, <1>2, PTL DEF Spec

-----------------------------------------------------------------------------
\* What Append and Tail do to the order of answers.

\* The order of one frame against others is that of the frame.
LEMMA PrecedeSingle ==
    \A x, t : /\ Precede(<<x>>, t) <=> \A j \in DOMAIN t : IsAnswer(x) /\ IsAnswer(t[j]) => x.cmd < t[j].cmd
              /\ Precede(t, <<x>>) <=> \A i \in DOMAIN t : IsAnswer(t[i]) /\ IsAnswer(x) => t[i].cmd < x.cmd
<1> SUFFICES ASSUME NEW x, NEW t
             PROVE  /\ Precede(<<x>>, t) <=> \A j \in DOMAIN t : IsAnswer(x) /\ IsAnswer(t[j]) => x.cmd < t[j].cmd
                    /\ Precede(t, <<x>>) <=> \A i \in DOMAIN t : IsAnswer(t[i]) /\ IsAnswer(x) => t[i].cmd < x.cmd
  OBVIOUS
<1>1. DOMAIN <<x>> = {1} /\ <<x>>[1] = x
  OBVIOUS
<1>2. QED
  BY <1>1, Zenon DEF Precede

LEMMA PrecedeTail ==
    ASSUME NEW S, NEW s \in Seq(S), s # <<>>, NEW t
    PROVE  /\ Precede(s, t) => Precede(Tail(s), t) /\ Precede(<<Head(s)>>, t)
           /\ Precede(t, s) => Precede(t, Tail(s)) /\ Precede(t, <<Head(s)>>)
           /\ Ascend(s) => Ascend(Tail(s)) /\ Precede(<<Head(s)>>, Tail(s))
<1>1. PICK h, r : h = Head(s) /\ r = Tail(s)
  OBVIOUS
<1>2. /\ DOMAIN s = 1 .. Len(s) /\ Len(s) \in Nat \ {0} /\ h = s[1]
      /\ DOMAIN r = 1 .. Len(s) - 1 /\ \A i \in 1 .. Len(s) - 1 : r[i] = s[i + 1]
  BY <1>1
<1>3. /\ 1 \in DOMAIN s
      /\ \A i \in DOMAIN r : i \in Nat /\ i + 1 \in DOMAIN s /\ 1 < i + 1 /\ r[i] = s[i + 1]
  BY <1>2
<1>4. Precede(s, t) => Precede(r, t) /\ Precede(<<h>>, t)
  BY <1>2, <1>3, PrecedeSingle DEF Precede
<1>5. Precede(t, s) => Precede(t, r) /\ Precede(t, <<h>>)
  <2>1. Precede(t, s) => Precede(t, r)
    BY <1>3 DEF Precede
  <2>2. Precede(t, s) => Precede(t, <<h>>)
    BY <1>2, <1>3, PrecedeSingle DEF Precede
  <2>3. QED
    BY <2>1, <2>2
<1>6. Ascend(s) => Ascend(r)
  BY <1>3 DEF Ascend
<1>7. Ascend(s) => Precede(<<h>>, r)
  BY <1>2, <1>3, PrecedeSingle DEF Ascend
<1>8. QED
  BY <1>1, <1>4, <1>5, <1>6, <1>7

LEMMA PrecedeAppend ==
    ASSUME NEW S, NEW s \in Seq(S), NEW t, NEW x \in S
    PROVE  /\ Precede(s, t) /\ Precede(<<x>>, t) => Precede(Append(s, x), t)
           /\ Precede(t, s) /\ Precede(t, <<x>>) => Precede(t, Append(s, x))
           /\ Ascend(s) /\ Precede(s, <<x>>) => Ascend(Append(s, x))
<1>1. PICK a : a = Append(s, x)
  OBVIOUS
<1>2. /\ DOMAIN s = 1 .. Len(s) /\ Len(s) \in Nat
      /\ DOMAIN a = 1 .. Len(s) + 1
      /\ \A i \in 1 .. Len(s) : a[i] = s[i]
      /\ a[Len(s) + 1] = x
  BY <1>1
<1>3. \A i \in DOMAIN a : (i \in DOMAIN s /\ a[i] = s[i]) \/ a[i] = x
  BY <1>2
<1>4. Precede(s, t) /\ Precede(<<x>>, t) => Precede(a, t)
  BY <1>3, PrecedeSingle DEF Precede
<1>5. Precede(t, s) /\ Precede(t, <<x>>) => Precede(t, a)
  BY <1>3, PrecedeSingle DEF Precede
<1>6. ASSUME Ascend(s), Precede(s, <<x>>), NEW i \in DOMAIN a, NEW j \in DOMAIN a,
             i < j, IsAnswer(a[i]), IsAnswer(a[j])
      PROVE  a[i].cmd < a[j].cmd
  <2>1. i \in DOMAIN s /\ a[i] = s[i]
    BY <1>2, <1>6
  <2>2. CASE j = Len(s) + 1
    BY <1>2, <1>6, <2>1, <2>2, PrecedeSingle
  <2>3. CASE j # Len(s) + 1
    <3>1. j \in DOMAIN s /\ a[j] = s[j]
      BY <1>2, <2>3
    <3>2. QED
      BY <1>6, <2>1, <3>1 DEF Ascend
  <2>4. QED
    BY <2>2, <2>3
<1>7. Ascend(s) /\ Precede(s, <<x>>) => Ascend(a)
  BY <1>6 DEF Ascend
<1>8. QED
  BY <1>1, <1>4, <1>5, <1>7

\* Only what is an answer, and its command, matters.
LEMMA PrecedeSame ==
    ASSUME NEW x, NEW y, IsAnswer(x) => IsAnswer(y) /\ x.cmd = y.cmd, NEW t
    PROVE  /\ Precede(<<y>>, t) => Precede(<<x>>, t)
           /\ Precede(t, <<y>>) => Precede(t, <<x>>)
BY PrecedeSingle

\* What is no answer goes anywhere.
LEMMA PrecedeNone ==
    ASSUME NEW x, ~IsAnswer(x), NEW t
    PROVE  Precede(<<x>>, t) /\ Precede(t, <<x>>)
BY PrecedeSingle

LEMMA PrecedeEmpty == \A t : Precede(<<>>, t) /\ Precede(t, <<>>) /\ Ascend(<<>>)
BY DEF Precede, Ascend

LEMMA AscendSingle == \A x : Ascend(<<x>>)
<1> SUFFICES ASSUME NEW x
             PROVE  Ascend(<<x>>)
  OBVIOUS
<1>1. DOMAIN <<x>> = {1}
  OBVIOUS
<1>2. QED
  BY <1>1 DEF Ascend

-----------------------------------------------------------------------------
\* The first command that has not been sent comes after all that were.
Unsent == <<Answer("rsp", sent + 1)>>

OInv ==
    /\ AnswersInOrder
    /\ \A a \in DOMAIN Pipe : Precede(Pipe[a], Unsent)

\* The same, stage by stage.
Staged(r, q, h, w, u, n) ==
    /\ Ascend(r) /\ Ascend(q) /\ Ascend(h) /\ Ascend(w) /\ Ascend(u)
    /\ Precede(r, q) /\ Precede(r, h) /\ Precede(r, w) /\ Precede(r, u) /\ Precede(r, n)
    /\ Precede(q, h) /\ Precede(q, w) /\ Precede(q, u) /\ Precede(q, n)
    /\ Precede(h, w) /\ Precede(h, u) /\ Precede(h, n)
    /\ Precede(w, u) /\ Precede(w, n)
    /\ Precede(u, n)

LEMMA Stages == OInv <=> Staged(ReadFrames, queue, hand, wire, Unanswered, Unsent)
<1>1. DOMAIN Pipe = {1, 2, 3, 4, 5}
  BY DEF Pipe
<1>2. /\ Pipe[1] = ReadFrames /\ Pipe[2] = queue /\ Pipe[3] = hand
      /\ Pipe[4] = wire /\ Pipe[5] = Unanswered
  BY DEF Pipe
<1>3. QED
  BY <1>1, <1>2 DEF OInv, AnswersInOrder, Staged

\* The answers of t come before what has not been read yet.
Before(t, q, h, w, u) == Precede(t, q) /\ Precede(t, h) /\ Precede(t, w) /\ Precede(t, u)

\* A step that brings no new command keeps what comes before all of them.
KeepsBefore ==
    \A t : Before(t, queue, hand, wire, Unanswered) => Before(t, queue', hand', wire', Unanswered')

StagesTyped ==
    /\ ReadFrames \in Seq(Frame \cup {NoFrame}) /\ Len(ReadFrames) = Len(log)
    /\ queue \in Seq(Frame) /\ hand \in Seq(Frame) /\ wire \in Seq(Frame)
    /\ Unanswered \in Seq(Frame) /\ Len(Unanswered) = Len(todo)

LEMMA StageTypes == TypeOK => StagesTyped
<1> SUFFICES ASSUME TypeOK
             PROVE  StagesTyped
  OBVIOUS
<1>1. log \in Seq(Ends) /\ \A i \in 1 .. Len(log) : log[i].frame \in Frame \cup {NoFrame}
  <2>1. log \in Seq(Ends)
    BY DEF TypeOK, Ends
  <2>2. \A i \in 1 .. Len(log) : log[i] \in Ends
    BY <2>1
  <2>3. QED
    BY <2>1, <2>2 DEF Ends
<1>2. todo \in Seq(Commands) /\ \A i \in 1 .. Len(todo) : Answer("rsp", todo[i]) \in Frame
  BY SentFrames DEF TypeOK, AnswerKinds
<1>3. ReadFrames \in Seq(Frame \cup {NoFrame}) /\ Len(ReadFrames) = Len(log)
  BY <1>1 DEF ReadFrames
<1>4. Unanswered \in Seq(Frame) /\ Len(Unanswered) = Len(todo)
  BY <1>2 DEF Unanswered
<1>5. QED
  BY <1>3, <1>4 DEF TypeOK, StagesTyped

LEMMA OrderInit == Init => OInv
<1> SUFFICES ASSUME Init
             PROVE  OInv
  OBVIOUS
<1>1. wire = <<>> /\ queue = <<>> /\ hand = <<>> /\ ReadFrames = <<>> /\ Unanswered = <<>>
  BY DEF Init, ReadFrames, Unanswered
<1>2. QED
  BY <1>1, PrecedeEmpty, Stages DEF Staged

\* An answer takes the place of its command.
LEMMA OrderAnswer ==
    ASSUME TInv, OInv, NEW kind \in AnswerKinds, IutAnswer(kind)
    PROVE  OInv' /\ KeepsBefore
<1>1. Staged(ReadFrames, queue, hand, wire, Unanswered, Unsent)
  BY Stages
<1>2. PICK c, x : c = Head(Unanswered) /\ x = Answer(kind, Head(todo))
  OBVIOUS
<1>3. /\ Unanswered \in Seq(Frame) /\ Unanswered # <<>> /\ todo # <<>>
      /\ wire \in Seq(Frame) /\ x \in Frame /\ todo \in Seq(Commands)
      /\ Len(Unanswered) = Len(todo)
  <2>1. todo # <<>> /\ todo \in Seq(Commands) /\ Head(todo) \in Commands
    BY DEF IutAnswer, TInv, TypeOK
  <2>2. x \in Frame
    BY <1>2, <2>1, SentFrames
  <2>3. QED
    BY <2>1, <2>2, StageTypes DEF TInv, StagesTyped
<1>4. IsAnswer(c) /\ x.cmd = c.cmd
  <2>1. c = Answer("rsp", Head(todo))
    BY <1>2, <1>3 DEF Unanswered
  <2>2. QED
    BY <1>2, <2>1 DEF Answer, IsAnswer, AnswerKinds
<1>5. Unanswered' = Tail(Unanswered)
  <2>1. todo' = Tail(todo)
    BY DEF IutAnswer
  <2>2. /\ Unanswered' = [i \in 1 .. Len(todo) - 1 |-> Answer("rsp", todo[i + 1])]
        /\ Tail(Unanswered) = [i \in 1 .. Len(todo) - 1 |-> Answer("rsp", todo[i + 1])]
    BY <1>3, <2>1 DEF Unanswered
  <2>3. QED
    BY <2>2
<1>6. /\ wire' = Append(wire, x) /\ queue' = queue /\ hand' = hand
      /\ ReadFrames' = ReadFrames /\ Unsent' = Unsent
  BY <1>2 DEF IutAnswer, rxVars, mainVars, ReadFrames, Unsent
<1>7. \A t : /\ Precede(t, Unanswered) => Precede(t, Tail(Unanswered)) /\ Precede(t, <<x>>)
             /\ Precede(Unanswered, t) => Precede(Tail(Unanswered), t) /\ Precede(<<x>>, t)
             /\ Ascend(Unanswered) => Ascend(Tail(Unanswered)) /\ Precede(<<x>>, Tail(Unanswered))
  <2>1. \A t : /\ Precede(t, Unanswered) => Precede(t, Tail(Unanswered)) /\ Precede(t, <<c>>)
               /\ Precede(Unanswered, t) => Precede(Tail(Unanswered), t) /\ Precede(<<c>>, t)
               /\ Ascend(Unanswered) => Ascend(Tail(Unanswered)) /\ Precede(<<c>>, Tail(Unanswered))
    BY <1>2, <1>3, PrecedeTail
  <2>2. \A t : /\ Precede(<<c>>, t) => Precede(<<x>>, t)
               /\ Precede(t, <<c>>) => Precede(t, <<x>>)
    BY <1>4, PrecedeSame
  <2>3. QED
    BY <2>1, <2>2
<1>8. \A t : /\ Precede(wire, t) /\ Precede(<<x>>, t) => Precede(Append(wire, x), t)
             /\ Precede(t, wire) /\ Precede(t, <<x>>) => Precede(t, Append(wire, x))
             /\ Ascend(wire) /\ Precede(wire, <<x>>) => Ascend(Append(wire, x))
  BY <1>3, PrecedeAppend
<1>9. Staged(ReadFrames, queue, hand, Append(wire, x), Tail(Unanswered), Unsent)
  BY <1>1, <1>7, <1>8 DEF Staged
<1>10. Staged(ReadFrames, queue, hand, wire, Unanswered, Unsent)'
  BY <1>5, <1>6, <1>9 DEF Staged
<1>11. OInv'
  BY <1>10, Stages, PTL
<1>12. KeepsBefore
  BY <1>5, <1>6, <1>7, <1>8 DEF KeepsBefore, Before
<1>13. QED
  BY <1>11, <1>12

\* A frame sent unasked, and a boot forgets the commands.
LEMMA OrderUnasked ==
    ASSUME TInv, OInv, NEW kind \in UnaskedKinds, IutSend(kind)
    PROVE  OInv' /\ KeepsBefore
<1>1. Staged(ReadFrames, queue, hand, wire, Unanswered, Unsent)
  BY Stages
<1>2. PICK x : x = Unasked(kind)
  OBVIOUS
<1>3. x \in Frame /\ ~IsAnswer(x) /\ wire \in Seq(Frame)
  BY <1>2, SentFrames, StageTypes DEF Unasked, IsAnswer, AnswerKinds, UnaskedKinds, TInv, StagesTyped
<1>4. /\ wire' = Append(wire, x) /\ queue' = queue /\ hand' = hand
      /\ ReadFrames' = ReadFrames /\ Unsent' = Unsent
      /\ Unanswered' \in {Unanswered, <<>>}
  <2>1. CASE kind = "ready"
    <3>1. todo' = <<>>
      BY <2>1 DEF IutSend
    <3>2. Unanswered' = <<>>
      BY <3>1 DEF Unanswered
    <3>3. QED
      BY <1>2, <3>2 DEF IutSend, rxVars, mainVars, ReadFrames, Unsent
  <2>2. CASE kind # "ready"
    BY <1>2, <2>2 DEF IutSend, rxVars, mainVars, ReadFrames, Unsent, Unanswered
  <2>3. QED
    BY <2>1, <2>2
<1>5. \A t : /\ Precede(wire, t) => Precede(Append(wire, x), t)
             /\ Precede(t, wire) => Precede(t, Append(wire, x))
             /\ Ascend(wire) => Ascend(Append(wire, x))
  BY <1>3, PrecedeAppend, PrecedeNone
<1>6. Staged(ReadFrames, queue, hand, wire, Unanswered, Unsent)'
  BY <1>1, <1>4, <1>5, PrecedeEmpty DEF Staged
<1>7. OInv'
  BY <1>6, Stages, PTL
<1>8. KeepsBefore
  BY <1>4, <1>5, PrecedeEmpty DEF KeepsBefore, Before
<1>9. QED
  BY <1>7, <1>8

\* The thread takes the first frame off the wire.
LEMMA OrderRead == ASSUME TInv, OInv, RxRead PROVE OInv' /\ KeepsBefore
<1>1. Staged(ReadFrames, queue, hand, wire, Unanswered, Unsent)
  BY Stages
<1>2. wire \in Seq(Frame) /\ wire # <<>>
  BY DEF RxRead, TInv, TypeOK
<1>3. /\ wire' = Tail(wire) /\ queue' = queue /\ hand' = <<Head(wire)>>
      /\ ReadFrames' = ReadFrames /\ Unsent' = Unsent /\ Unanswered' = Unanswered
  BY DEF RxRead, mainVars, ReadFrames, Unsent, Unanswered
<1>4. \A t : /\ Precede(wire, t) => Precede(Tail(wire), t) /\ Precede(<<Head(wire)>>, t)
             /\ Precede(t, wire) => Precede(t, Tail(wire)) /\ Precede(t, <<Head(wire)>>)
             /\ Ascend(wire) => Ascend(Tail(wire)) /\ Precede(<<Head(wire)>>, Tail(wire))
  BY <1>2, PrecedeTail
<1>5. Staged(ReadFrames, queue, hand, wire, Unanswered, Unsent)'
  BY <1>1, <1>3, <1>4, AscendSingle DEF Staged
<1>6. OInv'
  BY <1>5, Stages, PTL
<1>7. KeepsBefore
  BY <1>3, <1>4 DEF KeepsBefore, Before
<1>8. QED
  BY <1>6, <1>7

\* The thread queues the frame it has, or has it handled.
LEMMA OrderHandle == ASSUME TInv, OInv, RxHandle PROVE OInv' /\ KeepsBefore
<1>1. Staged(ReadFrames, queue, hand, wire, Unanswered, Unsent)
  BY Stages
<1>2. PICK x : x = Head(hand)
  OBVIOUS
<1>3. hand \in Seq(Frame) /\ hand # <<>> /\ queue \in Seq(Frame) /\ x \in Frame
  <2>1. hand \in Seq(Frame) /\ hand # <<>> /\ queue \in Seq(Frame)
    BY DEF RxHandle, TInv, TypeOK, Hands
  <2>2. QED
    BY <1>2, <2>1
<1>4. /\ wire' = wire /\ queue' \in {queue, Append(queue, x)} /\ hand' = <<>>
      /\ ReadFrames' = ReadFrames /\ Unsent' = Unsent /\ Unanswered' = Unanswered
  BY <1>2 DEF RxHandle, iutVars, mainVars, ReadFrames, Unsent, Unanswered
<1>5. \A t : /\ Precede(hand, t) => Precede(<<x>>, t)
             /\ Precede(t, hand) => Precede(t, <<x>>)
  BY <1>2, <1>3, PrecedeTail
<1>6. \A t : /\ Precede(queue, t) /\ Precede(<<x>>, t) => Precede(Append(queue, x), t)
             /\ Precede(t, queue) /\ Precede(t, <<x>>) => Precede(t, Append(queue, x))
             /\ Ascend(queue) /\ Precede(queue, <<x>>) => Ascend(Append(queue, x))
  BY <1>3, PrecedeAppend
<1>7. Staged(ReadFrames, queue, hand, wire, Unanswered, Unsent)'
  BY <1>1, <1>4, <1>5, <1>6, PrecedeEmpty DEF Staged
<1>8. OInv'
  BY <1>7, Stages, PTL
<1>9. KeepsBefore
  BY <1>4, <1>5, <1>6, PrecedeEmpty DEF KeepsBefore, Before
<1>10. QED
  BY <1>8, <1>9

\* A sequence one longer than s that goes on with x is s with x appended.
LEMMA AppendIs ==
    ASSUME NEW S, NEW s \in Seq(S), NEW x \in S, NEW t \in Seq(S), Len(t) = Len(s) + 1,
           \A i \in 1 .. Len(s) : t[i] = s[i], t[Len(s) + 1] = x
    PROVE  t = Append(s, x)
<1>1. PICK a : a = Append(s, x)
  OBVIOUS
<1>2. /\ a \in Seq(S) /\ Len(a) = Len(t) /\ Len(s) \in Nat
      /\ \A i \in 1 .. Len(s) : a[i] = t[i]
      /\ a[Len(s) + 1] = t[Len(s) + 1]
  BY <1>1
<1>3. \A i \in 1 .. Len(a) : i \in 1 .. Len(s) \/ i = Len(s) + 1
  BY <1>2
<1>4. \A i \in 1 .. Len(a) : a[i] = t[i]
  BY <1>2, <1>3
<1>5. a = t
  BY <1>2, <1>4, SeqEqual
<1>6. QED
  BY <1>1, <1>5

\* What is logged of a read is its frame.
LEMMA ReadLogged ==
    ASSUME TInv, TInv', NEW frame \in Frame \cup {NoFrame}, NEW outcome, EndRead(frame, outcome)
    PROVE  /\ ReadFrames' = Append(ReadFrames, frame)
           /\ Len(log') = Len(log) + 1 /\ Len(log) \in Nat
           /\ \A i \in 1 .. Len(log) : log'[i] = log[i]
           /\ log'[Len(log) + 1] = [expect |-> expect, frame |-> frame, outcome |-> outcome]
<1>1. PICK e : e = [expect |-> expect, frame |-> frame, outcome |-> outcome]
  OBVIOUS
<1>2. log' = Append(log, e) /\ log \in Seq(Ends) /\ e.frame = frame
  BY <1>1 DEF EndRead, TInv, TypeOK, Ends
<1>3. /\ Len(log') = Len(log) + 1 /\ Len(log) \in Nat
      /\ DOMAIN log' = 1 .. Len(log) + 1 /\ DOMAIN log = 1 .. Len(log)
      /\ \A i \in 1 .. Len(log) : log'[i] = log[i]
      /\ log'[Len(log) + 1] = e
  BY <1>2
<1>4. /\ ReadFrames \in Seq(Frame \cup {NoFrame}) /\ Len(ReadFrames) = Len(log)
      /\ ReadFrames' \in Seq(Frame \cup {NoFrame}) /\ Len(ReadFrames') = Len(log')
  <2>1. TypeOK /\ TypeOK'
    BY DEF TInv
  <2>2. TypeOK' => StagesTyped'
    BY StageTypes, PTL
  <2>3. QED
    BY <2>1, <2>2, StageTypes DEF StagesTyped
<1>5. /\ \A i \in 1 .. Len(log) : ReadFrames'[i] = ReadFrames[i]
      /\ ReadFrames'[Len(log) + 1] = frame
  BY <1>2, <1>3 DEF ReadFrames
<1>6. ReadFrames' = Append(ReadFrames, frame)
  BY <1>3, <1>4, <1>5, AppendIs
<1>7. QED
  BY <1>1, <1>3, <1>6

\* read() returns the first frame of the queue, or none.
LEMMA OrderMainRead == ASSUME TInv, TInv', OInv, MainRead PROVE OInv'
<1>1. Staged(ReadFrames, queue, hand, wire, Unanswered, Unsent)
  BY Stages
<1>2. /\ wire' = wire /\ hand' = hand /\ Unsent' = Unsent /\ Unanswered' = Unanswered
  BY DEF MainRead, PollFlag, CheckQueue, iutVars, rxVars, Unsent, Unanswered
<1>3. queue \in Seq(Frame) /\ ReadFrames \in Seq(Frame \cup {NoFrame})
  BY StageTypes DEF TInv, StagesTyped
<1>4. CASE UNCHANGED <<queue, log>>
  <2>1. ReadFrames' = ReadFrames /\ queue' = queue
    BY <1>4 DEF ReadFrames
  <2>2. Staged(ReadFrames, queue, hand, wire, Unanswered, Unsent)'
    BY <1>1, <1>2, <2>1 DEF Staged
  <2>3. QED
    BY <2>2, Stages, PTL
<1>5. CASE queue' = queue /\ EndRead(NoFrame, "timeout")
  <2>1. ReadFrames' = Append(ReadFrames, NoFrame)
    BY <1>5, ReadLogged
  <2>2. ~IsAnswer(NoFrame) /\ NoFrame \in Frame \cup {NoFrame}
    BY DEF IsAnswer, NoFrame, AnswerKinds
  <2>3. /\ \A t : Precede(ReadFrames, t) => Precede(Append(ReadFrames, NoFrame), t)
        /\ Ascend(ReadFrames) => Ascend(Append(ReadFrames, NoFrame))
    <3>1. \A t : Precede(<<NoFrame>>, t) /\ Precede(t, <<NoFrame>>)
      BY <2>2, PrecedeNone
    <3>2. QED
      BY <1>3, <2>2, <3>1, PrecedeAppend
  <2>4. Staged(ReadFrames, queue, hand, wire, Unanswered, Unsent)'
    BY <1>1, <1>2, <1>5, <2>1, <2>3 DEF Staged
  <2>5. QED
    BY <2>4, Stages, PTL
<1>6. CASE /\ queue # <<>> /\ queue' = Tail(queue)
           /\ \E outcome \in {"ok", "error"} : EndRead(Head(queue), outcome)
  <2>1. ReadFrames' = Append(ReadFrames, Head(queue))
    <3>1. Head(queue) \in Frame \cup {NoFrame}
      BY <1>3, <1>6
    <3>2. QED
      BY <1>6, <3>1, ReadLogged
  <2>2. \A t : /\ Precede(queue, t) => Precede(Tail(queue), t) /\ Precede(<<Head(queue)>>, t)
               /\ Precede(t, queue) => Precede(t, Tail(queue)) /\ Precede(t, <<Head(queue)>>)
               /\ Ascend(queue) => Ascend(Tail(queue)) /\ Precede(<<Head(queue)>>, Tail(queue))
    BY <1>3, <1>6, PrecedeTail
  <2>3. Head(queue) \in Frame \cup {NoFrame}
    BY <1>3, <1>6
  <2>4. /\ \A t : /\ Precede(ReadFrames, t) /\ Precede(<<Head(queue)>>, t)
                      => Precede(Append(ReadFrames, Head(queue)), t)
        /\ Ascend(ReadFrames) /\ Precede(ReadFrames, <<Head(queue)>>)
             => Ascend(Append(ReadFrames, Head(queue)))
    BY <1>3, <2>3, PrecedeAppend
  <2>5. Staged(ReadFrames, queue, hand, wire, Unanswered, Unsent)'
    BY <1>1, <1>2, <1>6, <2>1, <2>2, <2>4 DEF Staged
  <2>6. QED
    BY <2>5, Stages, PTL
<1>7. QED
  BY <1>4, <1>5, <1>6 DEF MainRead, PollFlag, CheckQueue, rxVars

\* The next command is sent, and reaches the IUT while it is there.
LEMMA OrderSend ==
    ASSUME TInv, TInv', OInv, Send
    PROVE  /\ OInv'
           /\ \A t : Before(t, queue, hand, wire, Unanswered) /\ Precede(t, Unsent)
                      => Before(t, queue', hand', wire', Unanswered')
<1>1. Staged(ReadFrames, queue, hand, wire, Unanswered, Unsent)
  BY Stages
<1>2. PICK x, y : x = Answer("rsp", sent + 1) /\ y = Answer("rsp", sent + 2)
  OBVIOUS
<1>3. sent + 1 \in Commands /\ x \in Frame /\ sent \in Nat
  <2>1. sent + 1 \in Commands /\ sent \in Nat
    BY DEF Send, TInv, TypeOK, Commands
  <2>2. QED
    BY <1>2, <2>1, SentFrames DEF AnswerKinds
<1>4. /\ wire' = wire /\ queue' = queue /\ hand' = hand
      /\ ReadFrames' = ReadFrames /\ Unsent = <<x>> /\ Unsent' = <<y>>
  <2>1. sent' + 1 = sent + 2
    BY <1>3 DEF Send
  <2>2. QED
    BY <1>2, <2>1 DEF Send, rxVars, ReadFrames, Unsent
<1>5. /\ Unanswered' \in {Unanswered, Append(Unanswered, x)}
      /\ Unanswered \in Seq(Frame)
  <2>1. CASE todo' = todo
    BY <2>1, StageTypes DEF Unanswered, TInv, StagesTyped
  <2>2. CASE todo' = Append(todo, sent + 1)
    <3>1. /\ todo \in Seq(Commands) /\ Unanswered \in Seq(Frame) /\ Len(Unanswered) = Len(todo)
          /\ Unanswered' \in Seq(Frame) /\ Len(Unanswered') = Len(todo')
      <4>1. TypeOK' => StagesTyped'
        BY StageTypes, PTL
      <4>2. QED
        BY <4>1, StageTypes DEF TInv, TypeOK, StagesTyped
    <3>2. /\ Len(todo') = Len(todo) + 1 /\ Len(todo) \in Nat
          /\ DOMAIN todo' = 1 .. Len(todo) + 1 /\ DOMAIN todo = 1 .. Len(todo)
          /\ \A i \in 1 .. Len(todo) : todo'[i] = todo[i]
          /\ todo'[Len(todo) + 1] = sent + 1
      BY <1>3, <2>2, <3>1
    <3>3. /\ \A i \in 1 .. Len(todo) : Unanswered'[i] = Unanswered[i]
          /\ Unanswered'[Len(todo) + 1] = x
      BY <1>2, <3>2 DEF Unanswered
    <3>4. QED
      BY <1>3, <3>1, <3>2, <3>3, AppendIs
  <2>3. QED
    BY <2>1, <2>2 DEF Send
<1>6. IsAnswer(x) /\ IsAnswer(y) /\ x.cmd = sent + 1 /\ y.cmd = sent + 2
  BY <1>2 DEF IsAnswer, Answer, AnswerKinds
<1>7. Precede(<<x>>, <<y>>)
  <2>1. DOMAIN <<y>> = {1} /\ <<y>>[1] = y
    OBVIOUS
  <2>2. QED
    BY <1>3, <1>6, <2>1, PrecedeSingle
<1>8. \A t \in Seq(Frame \cup {NoFrame}) : Precede(t, <<x>>) => Precede(t, <<y>>)
  <2> SUFFICES ASSUME NEW t \in Seq(Frame \cup {NoFrame}), Precede(t, <<x>>)
               PROVE  Precede(t, <<y>>)
    OBVIOUS
  <2>1. ASSUME NEW i \in DOMAIN t, IsAnswer(t[i])
        PROVE  t[i].cmd < y.cmd
    <3>1. t[i] \in Frame \cup {NoFrame}
      OBVIOUS
    <3>2. t[i] \in Frame
      BY <2>1, <3>1 DEF IsAnswer, NoFrame, AnswerKinds
    <3>3. t[i].cmd \in Nat
      BY <2>1, <3>2, FrameFields DEF Commands
    <3>4. t[i].cmd < x.cmd
      BY <1>6, <2>1, PrecedeSingle
    <3>5. QED
      BY <1>3, <1>6, <3>3, <3>4
  <2>2. QED
    BY <2>1, PrecedeSingle
<1>9. /\ ReadFrames \in Seq(Frame \cup {NoFrame}) /\ queue \in Seq(Frame \cup {NoFrame})
      /\ hand \in Seq(Frame \cup {NoFrame}) /\ wire \in Seq(Frame \cup {NoFrame})
      /\ Unanswered \in Seq(Frame \cup {NoFrame})
  BY StageTypes DEF TInv, StagesTyped
<1>10. /\ \A t : Precede(t, Unanswered) /\ Precede(t, <<x>>) => Precede(t, Append(Unanswered, x))
       /\ Precede(Unanswered, <<y>>) => Precede(Append(Unanswered, x), <<y>>)
       /\ Ascend(Unanswered) /\ Precede(Unanswered, <<x>>) => Ascend(Append(Unanswered, x))
  BY <1>3, <1>5, <1>7, PrecedeAppend
<1>11. Staged(ReadFrames, queue, hand, wire, Unanswered, <<y>>)
  BY <1>1, <1>4, <1>8, <1>9 DEF Staged
<1>12. Staged(ReadFrames, queue, hand, wire, Append(Unanswered, x), <<y>>)
  BY <1>1, <1>4, <1>10, <1>11 DEF Staged
<1>13. Staged(ReadFrames, queue, hand, wire, Unanswered, Unsent)'
  BY <1>4, <1>5, <1>11, <1>12 DEF Staged
<1>14. OInv'
  BY <1>13, Stages, PTL
<1>15. QED
  BY <1>4, <1>5, <1>10, <1>14 DEF Before

\* The other steps move no answer, or drop the queue.
LEMMA OrderOther ==
    ASSUME TInv, OInv,
           \/ IutHangUp \/ RxLoop \/ RxTimeout \/ Accept \/ AwaitReady
           \/ TimerFires \/ Close \/ Joined \/ UNCHANGED vars
    PROVE  OInv' /\ KeepsBefore
<1>1. Staged(ReadFrames, queue, hand, wire, Unanswered, Unsent)
  BY Stages
<1>2. UNCHANGED <<log, hand, wire, todo, sent>> /\ queue' \in {queue, <<>>}
  <2>1. CASE IutHangUp \/ RxLoop \/ RxTimeout \/ UNCHANGED vars
    BY <2>1 DEF IutHangUp, RxLoop, RxTimeout, vars, iutVars, rxVars, mainVars
  <2>2. CASE Accept \/ AwaitReady \/ TimerFires \/ Close \/ Joined
    BY <2>2 DEF Accept, AwaitReady, StartRead, TimerFires, Close, Joined, iutVars, rxVars
  <2>3. QED
    BY <2>1, <2>2
<1>3. /\ ReadFrames' = ReadFrames /\ Unanswered' = Unanswered /\ Unsent' = Unsent
      /\ hand' = hand /\ wire' = wire
  BY <1>2 DEF ReadFrames, Unanswered, Unsent
<1>4. Staged(ReadFrames, queue, hand, wire, Unanswered, Unsent)'
  BY <1>1, <1>2, <1>3, PrecedeEmpty DEF Staged
<1>5. OInv'
  BY <1>4, Stages, PTL
<1>6. KeepsBefore
  BY <1>2, <1>3, PrecedeEmpty DEF KeepsBefore, Before
<1>7. QED
  BY <1>5, <1>6

LEMMA OrderStep == TInv /\ OInv /\ [Next]_vars => OInv'
<1> SUFFICES ASSUME TInv, OInv, [Next]_vars
             PROVE  OInv'
  OBVIOUS
<1>1. TInv'
  BY TypeStep
<1>2. CASE \/ \E kind \in AnswerKinds : IutAnswer(kind)
           \/ \E kind \in UnaskedKinds : IutSend(kind)
  BY <1>2, OrderAnswer, OrderUnasked
<1>3. CASE RxRead \/ RxHandle
  BY <1>3, OrderRead, OrderHandle
<1>4. CASE MainRead \/ Send
  BY <1>1, <1>4, OrderMainRead, OrderSend
<1>5. CASE \/ IutHangUp \/ RxLoop \/ RxTimeout \/ Accept \/ AwaitReady
           \/ TimerFires \/ Close \/ Joined \/ UNCHANGED vars
  BY <1>5, OrderOther
<1>6. QED
  BY <1>2, <1>3, <1>4, <1>5 DEF Next, Rx

LEMMA OInvCorrect == Spec => []OInv
BY OrderInit, OrderStep, TInvCorrect, PTL DEF Spec

\* Answers are read in the order of their commands and none of them twice,
\* whatever the IUT sends between them and wherever it hangs up or boots.
THEOREM AnswersInOrderCorrect == Spec => []AnswersInOrder
<1>1. OInv => AnswersInOrder
  BY DEF OInv
<1>2. QED
  BY OInvCorrect, <1>1, PTL

-----------------------------------------------------------------------------
\* While no read has failed, what is still to come answers later commands than
\* the last one read for.
Clean == \A j \in 1 .. Len(log) : log[j].outcome = "ok"

LastRead == IF expect.kind = "rsp" THEN sent - 1 ELSE sent

AInv ==
    /\ expect.kind = "rsp" => expect.cmd = sent
    /\ Clean => Before(<<Answer("rsp", LastRead)>>, queue, hand, wire, Unanswered)
    /\ AcceptsOwnAnswer

LEMMA OwnInit == Init => AInv
<1> SUFFICES ASSUME Init
             PROVE  AInv
  OBVIOUS
<1>1. wire = <<>> /\ queue = <<>> /\ hand = <<>> /\ Unanswered = <<>>
  BY DEF Init, Unanswered
<1>2. expect.kind # "rsp" /\ Len(log) = 0
  BY DEF Init, NoFrame
<1>3. AcceptsOwnAnswer
  BY <1>2 DEF AcceptsOwnAnswer
<1>4. QED
  BY <1>1, <1>2, <1>3, PrecedeEmpty DEF AInv, Before

\* A step that neither reads nor sends.
LEMMA OwnKept ==
    ASSUME TInv, AInv, KeepsBefore, UNCHANGED <<log, sent, expect>>
    PROVE  AInv'
BY DEF AInv, KeepsBefore, Clean, LastRead, AcceptsOwnAnswer

LEMMA OwnSend == ASSUME TInv, TInv', OInv, AInv, Send PROVE AInv'
<1>1. PICK d : d = <<Answer("rsp", sent)>>
  OBVIOUS
<1>2. /\ UNCHANGED log /\ sent' = sent + 1 /\ sent \in Nat
      /\ expect' = Answer("rsp", sent + 1) /\ expect = NoFrame
  BY DEF Send, StartRead, TInv, TypeOK, Hands, Reading
<1>3. expect'.kind = "rsp" /\ expect'.cmd = sent'
  BY <1>2 DEF Answer
<1>4. LastRead = sent /\ LastRead' = sent
  BY <1>2, <1>3 DEF LastRead, NoFrame
<1>5. Precede(d, Unsent)
  <2>1. PICK x, y : x = Answer("rsp", sent) /\ y = Answer("rsp", sent + 1)
    OBVIOUS
  <2>2. x.cmd = sent /\ y.cmd = sent + 1
    BY <2>1 DEF Answer
  <2>3. DOMAIN <<y>> = {1} /\ <<y>>[1] = y
    OBVIOUS
  <2>4. Precede(<<x>>, <<y>>)
    BY <1>2, <2>2, <2>3, PrecedeSingle
  <2>5. QED
    BY <1>1, <2>1, <2>4 DEF Unsent
<1>6. Before(d, queue, hand, wire, Unanswered) => Before(d, queue', hand', wire', Unanswered')
  BY <1>5, OrderSend
<1>7. Clean' => Before(d, queue', hand', wire', Unanswered')
  BY <1>1, <1>2, <1>4, <1>6 DEF AInv, Clean
<1>8. AcceptsOwnAnswer'
  BY <1>2 DEF AInv, AcceptsOwnAnswer
<1>9. QED
  BY <1>1, <1>3, <1>4, <1>7, <1>8 DEF AInv

\* A read that ends adds itself to what was accepted.
LEMMA OwnLogged ==
    ASSUME TInv, TInv', AInv, NEW frame \in Frame \cup {NoFrame}, NEW outcome,
           EndRead(frame, outcome),
           outcome = "ok" /\ frame.kind = "rsp" =>
               \/ frame.cmd = expect.cmd
               \/ frame.cmd < expect.cmd /\ Script[frame.cmd] = Script[expect.cmd] /\ ~Clean
    PROVE  AcceptsOwnAnswer' /\ (Clean' => Clean /\ outcome = "ok")
<1>1. /\ Len(log') = Len(log) + 1 /\ Len(log) \in Nat
      /\ \A i \in 1 .. Len(log) : log'[i] = log[i]
      /\ log'[Len(log) + 1] = [expect |-> expect, frame |-> frame, outcome |-> outcome]
  BY ReadLogged
<1>2. PICK e : e = log'[Len(log) + 1]
  OBVIOUS
<1>3. e.expect = expect /\ e.frame = frame /\ e.outcome = outcome
  BY <1>1, <1>2
<1>4. Clean' => Clean /\ outcome = "ok"
  <2>1. Len(log) + 1 \in 1 .. Len(log') /\ \A i \in 1 .. Len(log) : i \in 1 .. Len(log')
    BY <1>1
  <2>2. QED
    BY <1>1, <1>2, <1>3, <2>1 DEF Clean
<1>5. ASSUME NEW i \in 1 .. Len(log'), log'[i].outcome = "ok", log'[i].frame.kind = "rsp"
      PROVE  \/ log'[i].frame.cmd = log'[i].expect.cmd
             \/ /\ log'[i].frame.cmd < log'[i].expect.cmd
                /\ Script[log'[i].frame.cmd] = Script[log'[i].expect.cmd]
                /\ \E j \in 1 .. i - 1 : log'[j].outcome # "ok"
  <2>1. CASE i \in 1 .. Len(log)
    <3>1. \A j \in 1 .. i - 1 : j \in 1 .. Len(log)
      BY <1>1, <2>1
    <3>2. QED
      BY <1>1, <1>5, <2>1, <3>1 DEF AInv, AcceptsOwnAnswer
  <2>2. CASE i = Len(log) + 1
    <3>1. log'[i] = e /\ i - 1 = Len(log)
      BY <1>1, <1>2, <2>2
    <3>2. ~Clean => \E j \in 1 .. i - 1 : log'[j].outcome # "ok"
      BY <1>1, <3>1 DEF Clean
    <3>3. QED
      BY <1>3, <1>5, <3>1, <3>2
  <2>3. QED
    BY <1>1, <2>1, <2>2
<1>6. AcceptsOwnAnswer'
  BY <1>5 DEF AcceptsOwnAnswer
<1>7. QED
  BY <1>4, <1>6

\* The oldest frame of the queue answers the last command or an earlier one;
\* with no failure before, the last.
LEMMA OwnCheck ==
    ASSUME TInv, TInv', OInv, AInv, CheckQueue, queue # <<>>
    PROVE  AInv'
<1>1. PICK f : f = Head(queue)
  OBVIOUS
<1>2. PICK d : d = Answer("rsp", LastRead)
  OBVIOUS
<1>3. /\ queue \in Seq(Frame) /\ f \in Frame /\ sent \in Nat
      /\ expect \in Expected /\ expect # NoFrame
  BY <1>1 DEF CheckQueue, TInv, TypeOK, Hands, Reading
<1>4. PICK outcome \in {"ok", "error"} :
         EndRead(f, outcome) /\ (outcome = "ok" => SameOpcode(f, expect))
  BY <1>1 DEF CheckQueue
<1>5. /\ expect' = NoFrame /\ sent' = sent /\ queue' = Tail(queue)
      /\ UNCHANGED <<hand, wire, todo>>
  BY <1>4 DEF EndRead, CheckQueue, iutVars
<1>6. ASSUME outcome = "ok", f.kind = "rsp"
      PROVE  /\ expect.kind = "rsp" /\ expect.cmd = sent
             /\ Script[f.cmd] = Script[expect.cmd]
             /\ f.cmd \in Nat /\ f.cmd <= sent
             /\ Clean => f.cmd = sent
  <2>1. expect.kind = "rsp" /\ expect.cmd = sent /\ Script[f.cmd] = Script[expect.cmd]
    BY <1>4, <1>6 DEF SameOpcode, AInv
  <2>2. IsAnswer(f) /\ f.cmd \in Nat
    BY <1>3, <1>6, FrameFields DEF IsAnswer, AnswerKinds, Commands
  <2>3. f.cmd < sent + 1
    <3>1. Precede(queue, Unsent)
      BY Stages DEF Staged
    <3>2. PICK y : y = Answer("rsp", sent + 1)
      OBVIOUS
    <3>3. Precede(<<f>>, <<y>>)
      BY <1>1, <1>3, <3>1, <3>2, PrecedeTail DEF Unsent
    <3>4. y.cmd = sent + 1 /\ IsAnswer(y)
      BY <3>2 DEF Answer, IsAnswer, AnswerKinds
    <3>5. DOMAIN <<y>> = {1} /\ <<y>>[1] = y
      OBVIOUS
    <3>6. QED
      BY <2>2, <3>3, <3>4, <3>5, PrecedeSingle
  <2>4. ASSUME Clean
        PROVE  sent - 1 < f.cmd
    <3>1. LastRead = sent - 1
      BY <2>1 DEF LastRead
    <3>2. d.cmd = sent - 1 /\ IsAnswer(d)
      BY <1>2, <3>1 DEF Answer, IsAnswer, AnswerKinds
    <3>3. Precede(<<d>>, queue)
      BY <1>2, <2>4 DEF AInv, Before
    <3>4. 1 \in DOMAIN queue /\ queue[1] = f
      BY <1>1, <1>3
    <3>5. QED
      BY <2>2, <3>2, <3>3, <3>4, PrecedeSingle
  <2>5. QED
    BY <1>3, <2>1, <2>2, <2>3, <2>4
<1>7. AcceptsOwnAnswer' /\ (Clean' => Clean /\ outcome = "ok")
  <2>1. outcome = "ok" /\ f.kind = "rsp" =>
           \/ f.cmd = expect.cmd
           \/ f.cmd < expect.cmd /\ Script[f.cmd] = Script[expect.cmd] /\ ~Clean
    BY <1>3, <1>6
  <2>2. QED
    BY <1>3, <1>4, <2>1, OwnLogged
<1>8. expect'.kind # "rsp" /\ LastRead' = sent
  BY <1>5 DEF NoFrame, LastRead
<1>9. ASSUME Clean'
      PROVE  Before(<<Answer("rsp", LastRead)>>, queue, hand, wire, Unanswered)'
  <2>1. Clean /\ outcome = "ok" /\ SameOpcode(f, expect)
    BY <1>4, <1>7, <1>9
  <2>2. Before(<<d>>, queue, hand, wire, Unanswered)
    BY <1>2, <2>1 DEF AInv
  <2>3. PICK n : n = Answer("rsp", sent)
    OBVIOUS
  <2>4. Before(<<n>>, Tail(queue), hand, wire, Unanswered)
    <3>1. CASE expect.kind = "rsp"
      <4>1. f.kind = "rsp" /\ f.cmd = sent
        BY <1>6, <2>1, <3>1 DEF SameOpcode
      <4>2. IsAnswer(f) /\ n.cmd = sent
        BY <2>3, <4>1 DEF IsAnswer, AnswerKinds, Answer
      <4>3. \A t : Precede(<<f>>, t) => Precede(<<n>>, t)
        BY <4>1, <4>2, PrecedeSame
      <4>4. Precede(<<f>>, Tail(queue))
        BY <1>1, <1>3, PrecedeTail, Stages DEF Staged
      <4>5. Precede(<<f>>, hand) /\ Precede(<<f>>, wire) /\ Precede(<<f>>, Unanswered)
        BY <1>1, <1>3, PrecedeTail, Stages DEF Staged
      <4>6. QED
        BY <4>3, <4>4, <4>5 DEF Before
    <3>2. CASE expect.kind # "rsp"
      <4>1. n = d
        BY <1>2, <2>3, <3>2 DEF LastRead
      <4>2. QED
        BY <1>3, <2>2, <4>1, PrecedeTail DEF Before
    <3>3. QED
      BY <3>1, <3>2
  <2>5. Unanswered' = Unanswered
    BY <1>5 DEF Unanswered
  <2>6. QED
    BY <1>5, <1>8, <2>3, <2>4, <2>5 DEF Before
<1>10. QED
  BY <1>7, <1>8, <1>9 DEF AInv

\* read() goes round its loop, or gives up.
LEMMA OwnPoll ==
    ASSUME TInv, TInv', AInv, PollFlag \/ (CheckQueue /\ queue = <<>>)
    PROVE  AInv'
<1>1. UNCHANGED <<queue, hand, wire, todo, sent>> /\ Unanswered' = Unanswered
  BY DEF PollFlag, CheckQueue, iutVars, rxVars, Unanswered
<1>2. CASE UNCHANGED <<log, expect>>
  BY <1>1, <1>2, OwnKept DEF KeepsBefore
<1>3. CASE EndRead(NoFrame, "timeout")
  <2>1. AcceptsOwnAnswer' /\ ~Clean'
    BY <1>3, OwnLogged
  <2>2. expect'.kind # "rsp"
    BY <1>3 DEF EndRead, NoFrame
  <2>3. QED
    BY <2>1, <2>2 DEF AInv
<1>4. QED
  BY <1>2, <1>3 DEF PollFlag, CheckQueue

LEMMA OwnStep == TInv /\ OInv /\ AInv /\ [Next]_vars => AInv'
<1> SUFFICES ASSUME TInv, OInv, AInv, [Next]_vars
             PROVE  AInv'
  OBVIOUS
<1>1. TInv'
  BY TypeStep
<1>2. CASE Send
  BY <1>1, <1>2, OwnSend
<1>3. CASE MainRead
  BY <1>1, <1>3, OwnPoll, OwnCheck DEF MainRead
<1>4. CASE \E kind \in AnswerKinds : IutAnswer(kind)
  <2>1. KeepsBefore
    BY <1>4, OrderAnswer
  <2>2. UNCHANGED <<log, sent, expect>>
    BY <1>4 DEF IutAnswer, mainVars
  <2>3. QED
    BY <2>1, <2>2, OwnKept
<1>5. CASE \E kind \in UnaskedKinds : IutSend(kind)
  <2>1. KeepsBefore
    BY <1>5, OrderUnasked
  <2>2. UNCHANGED <<log, sent, expect>>
    BY <1>5 DEF IutSend, mainVars
  <2>3. QED
    BY <2>1, <2>2, OwnKept
<1>6. CASE Rx
  <2>1. KeepsBefore
    BY <1>6, OrderRead, OrderHandle, OrderOther DEF Rx
  <2>2. UNCHANGED <<log, sent, expect>>
    BY <1>6 DEF Rx, RxLoop, RxRead, RxTimeout, RxHandle, mainVars
  <2>3. QED
    BY <2>1, <2>2, OwnKept
<1>7. CASE IutHangUp \/ Accept \/ TimerFires \/ Close \/ Joined \/ UNCHANGED vars
  <2>1. KeepsBefore
    BY <1>7, OrderOther
  <2>2. UNCHANGED <<log, sent, expect>>
    BY <1>7 DEF IutHangUp, Accept, TimerFires, Close, Joined, vars, mainVars
  <2>3. QED
    BY <2>1, <2>2, OwnKept
<1>8. CASE AwaitReady
  <2>1. KeepsBefore
    BY <1>8, OrderOther
  <2>2. UNCHANGED <<log, sent>> /\ expect' = Unasked("ready") /\ expect = NoFrame
    BY <1>8 DEF AwaitReady, StartRead, TInv, Hands, Reading
  <2>3. LastRead' = LastRead /\ expect'.kind # "rsp"
    BY <2>2 DEF LastRead, Unasked, NoFrame
  <2>4. QED
    BY <2>1, <2>2, <2>3 DEF AInv, KeepsBefore, Clean, AcceptsOwnAnswer
<1>9. QED
  BY <1>2, <1>3, <1>4, <1>5, <1>6, <1>7, <1>8 DEF Next

\* The frame a command accepts is its own answer until a read has failed; after
\* that it may be the answer of an earlier command with the same opcode.
THEOREM AcceptsOwnAnswerCorrect == Spec => []AcceptsOwnAnswer
<1>1. AInv => AcceptsOwnAnswer
  BY DEF AInv
<1>2. Spec => []AInv
  BY OwnInit, OwnStep, TInvCorrect, OInvCorrect, PTL DEF Spec
<1>3. QED
  BY <1>1, <1>2, PTL
=============================================================================
