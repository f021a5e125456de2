---------------------- MODULE CoapAutomationHandlerProofs ----------------------
(***************************************************************************)
(* Theorems about CoapAutomationHandler, for a Defensics run of any number *)
(* of cases, any queue and any number of errors.                           *)
(***************************************************************************)
EXTENDS CoapAutomationHandler, SequenceTheorems, TLAPS

USE BoundsAssumption
USE DEF clientVars, lockVars, statusVars, workerVars, listVars, errorVars, threadVars,
        dataVars, httpKeeps, workerKeeps, verdictKeeps, dataKeeps

-----------------------------------------------------------------------------
\* Defensics posts before-run once and first, so that the data thread is
\* started once.
FirstStep ==
    /\ client = "before-run" /\ http \in {"idle", "wait", "locked", "put", "raised"} =>
           q = <<>> /\ job = "none" /\ data = "off" /\ worker = "idle"
    /\ \A k \in 1 .. Len(q) :
           q[k] = "before-run" => k = 1 /\ job = "none" /\ data = "off" /\ worker = "idle"
    /\ job = "before-run" /\ worker \in {"lock", "work"} => data = "off"

\* A request is made by a step and finds room, and every case is judged once.
Requests ==
    /\ http # "idle" => client \in Steps
    /\ http \in {"wait", "locked", "put"} => Len(q) < MaxQueue
    /\ client \in {"before-run", "before-case", "test", "check"} => Len(results) = case - 1
    /\ client \in {"fail", "after-case"} => Len(results) = case

TInv == TypeOK /\ FirstStep /\ Requests

LEMMA QueueGrows ==
    ASSUME NEW step \in Steps, q \in Seq(Steps), q' = Append(q, step)
    PROVE  /\ q' \in Seq(Steps) /\ Len(q') = Len(q) + 1 /\ Len(q) \in Nat
           /\ q'[Len(q) + 1] = step
           /\ \A k \in 1 .. Len(q) : q'[k] = q[k]
           /\ \A k \in 1 .. Len(q') : k \in 1 .. Len(q) \/ k = Len(q) + 1
<1>1. /\ q' \in Seq(Steps) /\ Len(q') = Len(q) + 1 /\ Len(q) \in Nat
      /\ q'[Len(q) + 1] = step
      /\ \A k \in 1 .. Len(q) : q'[k] = q[k]
  BY AppendProperties
<1>2. QED
  BY <1>1

LEMMA QueueShrinks ==
    ASSUME q \in Seq(Steps), q # <<>>, q' = Tail(q)
    PROVE  /\ q' \in Seq(Steps) /\ Len(q') = Len(q) - 1 /\ Len(q) \in Nat \ {0}
           /\ Head(q) = q[1] /\ Head(q) \in Steps /\ 1 \in 1 .. Len(q)
           /\ \A k \in 1 .. Len(q') : q'[k] = q[k + 1] /\ k + 1 \in 1 .. Len(q) /\ k + 1 # 1
<1>1. Len(q) \in Nat \ {0} /\ q' \in Seq(Steps) /\ Len(q') = Len(q) - 1
      /\ Head(q) = q[1] /\ Head(q) \in Steps
      /\ \A k \in 1 .. Len(q) - 1 : q'[k] = q[k + 1]
  OBVIOUS
<1>2. QED
  BY <1>1

LEMMA StatusTypes ==
    /\ NoStatus \in Status /\ [verdict |-> "fail", errs |-> {0}] \in Status
    /\ \A s \in Status : s.verdict \in Verdicts /\ s.errs \subseteq 0 .. MaxErrors
<1>1. {0} \in SUBSET (0 .. MaxErrors) /\ {} \in SUBSET (0 .. MaxErrors)
  OBVIOUS
<1>2. QED
  BY <1>1 DEF NoStatus, Status, Verdicts

LEMMA TypeInit == Init => TInv
<1> SUFFICES ASSUME Init
             PROVE  TInv
  OBVIOUS
<1>1. results \in Seq(Status) /\ Len(results) = 0 /\ q \in Seq(Steps) /\ Len(q) = 0
  BY DEF Init
<1>2. TypeOK
  <2>1. /\ case \in 1 .. Cases /\ recorded \in 0 .. MaxErrors /\ Len(results) <= Cases
        /\ Len(q) <= MaxQueue /\ found \subseteq 0 .. MaxErrors
    BY <1>1 DEF Init
  <2>2. errors \subseteq 1 .. recorded /\ lost \subseteq 1 .. MaxErrors /\ adding \in 0 .. recorded
    BY DEF Init
  <2>3. status \in Status /\ answer \in Status
    BY StatusTypes DEF Init
  <2>4. QED
    BY <1>1, <2>1, <2>2, <2>3 DEF Init, TypeOK, Steps
<1>3. QED
  BY <1>1, <1>2 DEF TInv, Init, FirstStep, Requests

\* Defensics.
LEMMA TypeClient ==
    ASSUME TInv, Request \/ Connect \/ Receive \/ \E drop \in {"up", "rst"} : EndCase(drop)
    PROVE  TInv'
<1>1. CASE Request
  <2>1. TypeOK'
    BY <1>1 DEF Request, TInv, TypeOK
  <2>2. FirstStep' /\ Requests'
    BY <1>1 DEF Request, TInv, FirstStep, Requests
  <2>3. QED
    BY <2>1, <2>2 DEF TInv
<1>2. CASE Connect \/ Receive
  <2>1. TypeOK'
    <3>1. CASE Connect
      BY <3>1 DEF Connect, TInv, TypeOK
    <3>2. CASE Receive
      BY <3>2 DEF Receive, TInv, TypeOK
    <3>3. QED
      BY <1>2, <3>1, <3>2
  <2>2. FirstStep' /\ Requests'
    BY <1>2 DEF Connect, Receive, TInv, FirstStep, Requests
  <2>3. QED
    BY <2>1, <2>2 DEF TInv
<1>3. ASSUME NEW drop \in {"up", "rst"}, EndCase(drop)
      PROVE  TInv'
  <2>1. TypeOK'
    BY <1>3 DEF EndCase, TInv, TypeOK, Steps
  <2>2. FirstStep' /\ Requests'
    BY <1>3 DEF EndCase, TInv, FirstStep, Requests, Steps
  <2>3. QED
    BY <2>1, <2>2 DEF TInv
<1>4. QED
  BY <1>1, <1>2, <1>3

\* What Defensics does when the script has ended.
LEMMA TypeEnded ==
    ASSUME TInv, client \in Steps, NEW s \in Status, (client = "check" /\ Judged(s)) \/ (client # "check" /\ NextStep)
    PROVE  /\ client' \in Steps \cup {"test", "done"} /\ client' # "before-run"
           /\ case' \in 1 .. Cases
           /\ results' \in Seq(Status) /\ Len(results') <= Cases
           /\ client' \in {"before-case", "test", "check"} => Len(results') = case' - 1
           /\ client' \in {"fail", "after-case"} => Len(results') = case'
<1>1. case \in 1 .. Cases /\ results \in Seq(Status) /\ Len(results) <= Cases /\ Len(results) \in Nat
  BY DEF TInv, TypeOK
<1>2. CASE client = "check" /\ Judged(s)
  <2>1. results' \in Seq(Status) /\ Len(results') = Len(results) + 1
    BY <1>1, <1>2, AppendProperties DEF Judged
  <2>2. Len(results) = case - 1
    BY <1>2 DEF TInv, Requests
  <2>3. QED
    BY <1>1, <1>2, <2>1, <2>2 DEF Judged, Steps
<1>3. CASE client # "check" /\ NextStep
  <2>1. client \in {"before-run", "before-case", "fail", "after-case", "after-run"}
    BY <1>3 DEF Steps
  <2>2. UNCHANGED results
    BY <1>3 DEF NextStep
  <2>3. CASE client = "after-case"
    <3>1. /\ case < Cases => client' = "before-case" /\ case' = case + 1
          /\ case = Cases => client' = "after-run" /\ case' = case
      BY <1>1, <1>3, <2>3 DEF NextStep
    <3>2. QED
      BY <1>1, <2>2, <2>3, <3>1 DEF Steps, TInv, Requests
  <2>4. CASE client # "after-case"
    <3>1. /\ case' = case
          /\ client = "before-run" => client' = "before-case"
          /\ client = "before-case" => client' = "test"
          /\ client = "fail" => client' = "after-case"
          /\ client = "after-run" => client' = "done"
      BY <1>3, <2>1, <2>4 DEF NextStep
    <3>2. QED
      BY <1>1, <2>1, <2>2, <2>4, <3>1 DEF Steps, TInv, Requests
  <2>5. QED
    BY <2>3, <2>4
<1>4. QED
  BY <1>2, <1>3

\* The HTTP server.
LEMMA TypeHttp == ASSUME TInv, HttpSteps PROVE TInv'
<1>1. CASE PostAcquires \/ PostReleases
  <2>1. TypeOK'
    <3>1. CASE PostAcquires
      BY <3>1 DEF PostAcquires, TInv, TypeOK
    <3>2. CASE PostReleases
      BY <3>2 DEF PostReleases, TInv, TypeOK
    <3>3. QED
      BY <1>1, <3>1, <3>2
  <2>2. FirstStep' /\ Requests'
    BY <1>1 DEF PostAcquires, PostReleases, TInv, FirstStep, Requests
  <2>3. QED
    BY <2>1, <2>2 DEF TInv
<1>2. CASE PostPuts
  <2>1. q \in Seq(Steps) /\ client \in Steps /\ Len(q) < MaxQueue /\ q' = Append(q, client)
    BY <1>2 DEF PostPuts, TInv, TypeOK, Requests
  <2>2. /\ q' \in Seq(Steps) /\ Len(q') = Len(q) + 1 /\ Len(q) \in Nat
        /\ q'[Len(q) + 1] = client
        /\ \A k \in 1 .. Len(q) : q'[k] = q[k]
        /\ \A k \in 1 .. Len(q') : k \in 1 .. Len(q) \/ k = Len(q) + 1
    BY <2>1, QueueGrows
  <2>3. Len(q') <= MaxQueue
    BY <2>1, <2>2
  <2>4. TypeOK'
    BY <1>2, <2>2, <2>3 DEF PostPuts, TInv, TypeOK
  <2>5. FirstStep'
    <3>1. \A k \in 1 .. Len(q') : q'[k] = "before-run" =>
             k = 1 /\ job = "none" /\ data = "off" /\ worker = "idle"
      <4>1. CASE client = "before-run"
        <5>1. q = <<>> /\ job = "none" /\ data = "off" /\ worker = "idle"
          BY <1>2, <4>1 DEF PostPuts, TInv, FirstStep
        <5>2. Len(q) = 0
          BY <5>1
        <5>3. QED
          BY <2>2, <5>1, <5>2
      <4>2. CASE client # "before-run"
        BY <2>2, <4>2 DEF TInv, FirstStep
      <4>3. QED
        BY <4>1, <4>2
    <3>2. QED
      BY <1>2, <3>1 DEF PostPuts, TInv, FirstStep
  <2>6. Requests'
    BY <1>2 DEF PostPuts, TInv, Requests
  <2>7. QED
    BY <2>4, <2>5, <2>6 DEF TInv
<1>3. CASE GetStatus
  <2>1. TypeOK'
    BY <1>3, StatusTypes DEF GetStatus, TInv, TypeOK
  <2>2. FirstStep' /\ Requests'
    BY <1>3 DEF GetStatus, TInv, FirstStep, Requests
  <2>3. QED
    BY <2>1, <2>2 DEF TInv
<1>4. CASE (Respond /\ (client # "check" \/ answer.verdict # "")) \/ NoResponse
  <2>1. client \in Steps /\ client \in Steps \cup {"test", "done"} /\ http \in {"json", "raised"}
    BY <1>4 DEF Respond, NoResponse, TInv, Requests
  <2>2. PICK s \in Status : (client = "check" /\ Judged(s)) \/ (client # "check" /\ NextStep)
    <3>1. answer \in Status
      BY DEF TInv, TypeOK
    <3>2. CASE Respond
      <4>1. (client = "check" /\ Judged(answer)) \/ (client # "check" /\ NextStep)
        BY <1>4, <3>2 DEF Respond, NoResponse
      <4>2. QED
        BY <3>1, <4>1
    <3>3. CASE NoResponse
      <4>1. CASE client = "check"
        <5>1. PICK s : s = [verdict |-> "fail", errs |-> {0}]
          OBVIOUS
        <5>2. Judged(s) /\ s \in Status
          BY <3>3, <4>1, <5>1, StatusTypes DEF NoResponse
        <5>3. QED
          BY <4>1, <5>2
      <4>2. CASE client # "check"
        BY <3>1, <3>3, <4>2 DEF NoResponse
      <4>3. QED
        BY <4>1, <4>2
    <3>4. QED
      BY <1>4, <3>2, <3>3
  <2>3. /\ client' \in Steps \cup {"test", "done"} /\ client' # "before-run"
        /\ case' \in 1 .. Cases
        /\ results' \in Seq(Status) /\ Len(results') <= Cases
        /\ client' \in {"before-case", "test", "check"} => Len(results') = case' - 1
        /\ client' \in {"fail", "after-case"} => Len(results') = case'
    BY <2>1, <2>2, TypeEnded
  <2>4. /\ UNCHANGED <<q, lock, robbed, status, worker, job, found>>
        /\ UNCHANGED <<data, resume, ready, errors, recorded, adding, kept, tcp>>
        /\ http' = "idle" /\ answer' \in {answer, NoStatus} /\ held' \in {held, "sent"}
    BY <1>4 DEF Respond, NoResponse
  <2>8. lost' \subseteq 1 .. MaxErrors
    <3>1. status.errs \subseteq 0 .. MaxErrors /\ lost \subseteq 1 .. MaxErrors
      BY StatusTypes DEF TInv, TypeOK
    <3>2. lost' \in {lost, lost \cup (status.errs \ {0})}
      BY <1>4 DEF Respond, NoResponse
    <3>3. QED
      BY <3>1, <3>2
  <2>5. TypeOK'
    BY <2>3, <2>4, <2>8, StatusTypes DEF TInv, TypeOK
  <2>6. FirstStep' /\ Requests'
    BY <2>3, <2>4 DEF TInv, FirstStep, Requests
  <2>7. QED
    BY <2>5, <2>6 DEF TInv
<1>5. CASE Respond /\ client = "check" /\ answer.verdict = ""
  <2>1. /\ UNCHANGED <<client, case, results, q, lock, robbed, status, worker, job, found>>
        /\ UNCHANGED <<data, resume, ready, errors, recorded, adding, kept, lost, tcp>>
        /\ http' = "idle" /\ answer' = NoStatus /\ held' \in {held, "sent"}
    BY <1>5 DEF Respond
  <2>2. TypeOK'
    BY <2>1, StatusTypes DEF TInv, TypeOK
  <2>3. FirstStep' /\ Requests'
    BY <1>5, <2>1 DEF TInv, FirstStep, Requests
  <2>4. QED
    BY <2>2, <2>3 DEF TInv
<1>6. QED
  BY <1>1, <1>2, <1>3, <1>4, <1>5 DEF HttpSteps

LEMMA TypeVerdict ==
    ASSUME TInv, NEW v \in {"success", "fail"}, Verdict(v)
    PROVE  status' \in Status /\ answer' \in Status /\ lost' \subseteq 1 .. MaxErrors
<1>1. \A s \in Status : Write(s, v) \in Status
  <2>1. ASSUME NEW s \in Status
        PROVE  Write(s, v) \in Status
    <3>1. PICK errs : errs = IF v = "fail" THEN s.errs \cup found ELSE {}
      OBVIOUS
    <3>2. errs \in SUBSET (0 .. MaxErrors) /\ v \in Verdicts
      BY <3>1, StatusTypes DEF TInv, TypeOK, Verdicts
    <3>3. Write(s, v) = [verdict |-> v, errs |-> errs]
      BY <3>1 DEF Write
    <3>4. QED
      BY <3>2, <3>3 DEF Status
  <2>2. QED
    BY <2>1
<1>2. \A errs \in SUBSET (0 .. MaxErrors) : Lose(errs) => lost' \subseteq 1 .. MaxErrors
  BY DEF Lose, TInv, TypeOK
<1>3. PICK errs \in SUBSET (0 .. MaxErrors) : Lose(errs)
  <2>1. status.errs \subseteq 0 .. MaxErrors /\ answer.errs \subseteq 0 .. MaxErrors
        /\ found \subseteq 0 .. MaxErrors
    BY StatusTypes DEF TInv, TypeOK
  <2>2. QED
    BY <2>1 DEF Verdict
<1>4. QED
  BY <1>1, <1>2, <1>3 DEF Verdict, TInv, TypeOK

\* An exception of a step.
LEMMA TypeRaise ==
    ASSUME TInv, Raise
    PROVE  /\ worker' = "raise" /\ held' = "self" /\ job' = "none"
           /\ recorded' = recorded + 1 /\ recorded' \in 0 .. MaxErrors /\ recorded \in Nat
           /\ found' = {recorded'} /\ found' \subseteq 0 .. MaxErrors
           /\ \A k \in 0 .. recorded : k \in 0 .. recorded'
           /\ \A k \in 1 .. recorded : k \in 1 .. recorded'
BY DEF Raise, Reaches, TInv, TypeOK

\* The handler's thread.
LEMMA TypeWorker == ASSUME TInv, Worker PROVE TInv'
<1>1. CASE Get
  <2>1. /\ q' \in Seq(Steps) /\ Len(q') = Len(q) - 1 /\ Len(q) \in Nat \ {0}
        /\ Head(q) = q[1] /\ Head(q) \in Steps /\ 1 \in 1 .. Len(q)
        /\ \A k \in 1 .. Len(q') : q'[k] = q[k + 1] /\ k + 1 \in 1 .. Len(q) /\ k + 1 # 1
    BY <1>1, QueueShrinks DEF Get, TInv, TypeOK
  <2>2. Len(q') <= MaxQueue /\ Len(q') < Len(q)
    BY <2>1 DEF TInv, TypeOK
  <2>3. TypeOK'
    BY <1>1, <2>1, <2>2 DEF Get, TInv, TypeOK
  <2>4. FirstStep'
    <3>1. \A k \in 1 .. Len(q') : q'[k] # "before-run"
      BY <2>1 DEF TInv, FirstStep
    <3>2. job' = "before-run" => data' = "off"
      BY <1>1, <2>1 DEF Get, TInv, FirstStep
    <3>3. q # <<>> /\ UNCHANGED <<client, http>>
      BY <1>1 DEF Get
    <3>4. QED
      BY <3>1, <3>2, <3>3 DEF TInv, FirstStep
  <2>5. Requests'
    <3>1. http \in {"wait", "locked", "put"} => Len(q') < MaxQueue
      BY <2>1, <2>2 DEF TInv, Requests
    <3>2. QED
      BY <1>1, <3>1 DEF Get, TInv, Requests
  <2>6. QED
    BY <2>3, <2>4, <2>5 DEF TInv
<1>2. CASE AcquireLock \/ ProxyReady \/ OtherStep(TRUE) \/ LookForErrors
  <2>1. TypeOK'
    <3>1. CASE AcquireLock
      BY <3>1 DEF AcquireLock, Reaches, TInv, TypeOK
    <3>2. CASE ProxyReady
      BY <3>2 DEF ProxyReady, Reaches, TInv, TypeOK
    <3>3. CASE OtherStep(TRUE)
      <4>1. /\ worker' = "release" /\ held' = "self" /\ job' = "none"
            /\ UNCHANGED <<client, case, results, http, q, lock, robbed, status, answer, found>>
            /\ UNCHANGED <<data, resume, ready, tcp, errors, adding, kept, recorded, lost>>
        BY <3>3 DEF OtherStep, Reaches
      <4>2. QED
        BY <4>1 DEF TInv, TypeOK
    <3>4. CASE LookForErrors
      BY <3>4 DEF LookForErrors, Reaches, TInv, TypeOK
    <3>5. QED
      BY <1>2, <3>1, <3>2, <3>3, <3>4
  <2>2. FirstStep' /\ Requests'
    BY <1>2 DEF AcquireLock, ProxyReady, OtherStep, LookForErrors, Reaches, TInv, FirstStep, Requests
  <2>3. QED
    BY <2>1, <2>2 DEF TInv
<1>3. CASE BeforeRun(TRUE)
  <2>1. data = "off" /\ tcp # "listening"
    BY <1>3 DEF BeforeRun, TInv, TypeOK, FirstStep
  <2>2. TypeOK'
    <3>1. /\ worker' = "ready" /\ data' = "run"
          /\ UNCHANGED <<client, case, results, http, q, lock, robbed, status, answer, held, job, found>>
          /\ UNCHANGED <<resume, ready, tcp, errors, adding, kept, recorded, lost>>
      BY <1>3 DEF BeforeRun
    <3>2. QED
      BY <2>1, <3>1 DEF TInv, TypeOK
  <2>3. FirstStep' /\ Requests'
    BY <1>3 DEF BeforeRun, TInv, FirstStep, Requests
  <2>4. QED
    BY <2>2, <2>3 DEF TInv
<1>9. CASE LacksParameters \/ BeforeRun(FALSE) \/ OtherStep(FALSE) \/ AfterRun(FALSE)
  <2>1. Raise /\ worker \in {"lock", "work"}
    BY <1>9 DEF LacksParameters, BeforeRun, OtherStep, AfterRun
  <2>2. /\ UNCHANGED <<client, case, results, http, q, lock, robbed, status, answer>>
        /\ UNCHANGED <<resume, ready, tcp, errors, adding, kept, lost>>
        /\ data' = data \/ (data = "off" /\ data' = "run")
    BY <1>9 DEF LacksParameters, BeforeRun, OtherStep, AfterRun, TInv, FirstStep
  <2>3. TypeOK'
    BY <2>1, <2>2, TypeRaise DEF TInv, TypeOK
  <2>4. FirstStep' /\ Requests'
    BY <2>1, <2>2, TypeRaise DEF TInv, FirstStep, Requests
  <2>5. QED
    BY <2>3, <2>4 DEF TInv
<1>4. CASE ResetErrors
  <2>1. found' \subseteq 0 .. MaxErrors /\ errors' \subseteq 1 .. recorded' /\ kept' \in BOOLEAN
        /\ (~kept' => data' = "append")
    BY <1>4 DEF ResetErrors, TInv, TypeOK
  <2>2. TypeOK'
    BY <1>4, <2>1 DEF ResetErrors, Reaches, TInv, TypeOK
  <2>3. FirstStep' /\ Requests'
    BY <1>4 DEF ResetErrors, Reaches, TInv, FirstStep, Requests
  <2>4. QED
    BY <2>2, <2>3 DEF TInv
<1>5. CASE CheckVerdict \/ Raised
  <2>1. status' \in Status /\ answer' \in Status /\ lost' \subseteq 1 .. MaxErrors
    BY <1>5, TypeVerdict DEF CheckVerdict, Raised
  <2>2. /\ UNCHANGED <<client, case, results, http, q, lock, robbed>>
        /\ UNCHANGED <<data, resume, ready, errors, recorded, adding, kept, tcp>>
        /\ worker # "idle" /\ worker' \in {"release", "finally"} /\ held' = "self"
        /\ found' = {} /\ job' = "none"
    BY <1>5 DEF CheckVerdict, Raised, Reaches
  <2>3. TypeOK'
    BY <2>1, <2>2 DEF TInv, TypeOK
  <2>4. FirstStep' /\ Requests'
    BY <2>2 DEF TInv, FirstStep, Requests
  <2>5. QED
    BY <2>3, <2>4 DEF TInv
<1>6. CASE AfterRun(TRUE)
  <2>1. TypeOK'
    <3>1. /\ worker' = "killed" /\ client' = "done" /\ http' = "idle"
          /\ UNCHANGED <<case, results, q, lock, robbed, status, answer, held, job, found>>
          /\ UNCHANGED <<data, resume, ready, tcp, errors, adding, kept, recorded, lost>>
      BY <1>6 DEF AfterRun
    <3>2. QED
      BY <3>1 DEF TInv, TypeOK
  <2>2. FirstStep' /\ Requests'
    BY <1>6 DEF AfterRun, TInv, FirstStep, Requests
  <2>3. QED
    BY <2>1, <2>2 DEF TInv
<1>7. CASE ReleaseLock \/ Finally \/ LetGo
  <2>1. TypeOK'
    <3>1. CASE ReleaseLock
      BY <3>1 DEF ReleaseLock, Reaches, TInv, TypeOK
    <3>2. CASE Finally
      BY <3>2 DEF Finally, Reaches, TInv, TypeOK
    <3>3. CASE LetGo
      BY <3>3 DEF LetGo, Reaches, TInv, TypeOK
    <3>4. QED
      BY <1>7, <3>1, <3>2, <3>3
  <2>2. FirstStep' /\ Requests'
    BY <1>7 DEF ReleaseLock, Finally, LetGo, Reaches, TInv, FirstStep, Requests
  <2>3. QED
    BY <2>1, <2>2 DEF TInv
<1>8. QED
  BY <1>1, <1>2, <1>3, <1>4, <1>5, <1>6, <1>7, <1>9 DEF Worker

\* The data thread.
LEMMA TypeError ==
    ASSUME TInv, NEW next \in {"accept", "recv", "restart"}, Error(next)
    PROVE  /\ data' = "append" /\ resume' \in {"accept", "recv", "restart"}
           /\ recorded' = recorded + 1 /\ recorded' \in 0 .. MaxErrors /\ recorded \in Nat
           /\ adding' = recorded' /\ adding' # 0 /\ adding' \in 0 .. recorded'
           /\ errors' = errors /\ lost' = lost /\ kept' = kept
           /\ errors' \subseteq 1 .. recorded'
BY DEF Error, TInv, TypeOK

LEMMA TypeData == ASSUME TInv, Data PROVE TInv'
<1>1. /\ UNCHANGED <<client, case, results, http, q, lock, robbed, status, answer, held>>
      /\ UNCHANGED <<worker, job, found>>
      /\ data # "off"
  BY DEF Data, AppendError, ProxyRuns, Relisten, SendOn, MockCsm, SendFails
<1>2. FirstStep' /\ Requests'
  BY <1>1 DEF TInv, FirstStep, Requests
<1>3. TypeOK'
  <2>1. CASE AppendError
    <3>1. recorded' = recorded /\ data = "append" /\ data' = resume /\ kept' = TRUE
          /\ resume' = "recv" /\ ready' = ready /\ adding' = 0
          /\ tcp' = IF resume = "accept" THEN "listening" ELSE tcp
      BY <2>1 DEF AppendError
    <3>2. errors' \subseteq 1 .. recorded' /\ lost' \subseteq 1 .. MaxErrors /\ recorded' \in 0 .. MaxErrors
          /\ adding' \in 0 .. recorded'
      <4>1. adding \in 1 .. recorded /\ adding \in 1 .. MaxErrors /\ recorded' = recorded
            /\ recorded \in 0 .. MaxErrors /\ adding' = 0
        BY <2>1 DEF AppendError, TInv, TypeOK
      <4>2. /\ errors \subseteq 1 .. recorded /\ lost \subseteq 1 .. MaxErrors
            /\ errors' \subseteq errors \cup {adding} /\ lost' \subseteq lost \cup {adding}
        BY <2>1 DEF AppendError, TInv, TypeOK
      <4>3. QED
        BY <4>1, <4>2
    <3>3. QED
      BY <1>1, <3>1, <3>2 DEF TInv, TypeOK
  <2>2. CASE \E outcome \in {"ready", "missing", "dbus", "raise"} : ProxyRuns(outcome)
    <3>1. PICK outcome \in {"ready", "missing", "dbus", "raise"} : ProxyRuns(outcome)
      BY <2>2
    <3>2. ready' \in BOOLEAN
      BY <3>1 DEF ProxyRuns, TInv, TypeOK
    <3>3. CASE outcome = "dbus"
      <4>1. PICK next \in {"accept", "recv", "restart"} : Error(next)
        BY <3>1, <3>3 DEF ProxyRuns
      <4>2. tcp' = tcp /\ tcp # "listening" /\ data # "append"
        BY <3>1, <3>3 DEF ProxyRuns, TInv, TypeOK
      <4>3. QED
        <5>1. /\ data' = "append" /\ resume' \in {"accept", "recv", "restart"} /\ lost' = lost
              /\ recorded' \in 0 .. MaxErrors /\ adding' # 0 /\ adding' \in 0 .. recorded'
              /\ errors' \subseteq 1 .. recorded' /\ kept' = kept
          BY <4>1, TypeError
        <5>2. QED
          BY <1>1, <3>2, <4>2, <5>1 DEF TInv, TypeOK
    <3>4. CASE outcome # "dbus"
      <4>1. /\ UNCHANGED <<resume, errors, recorded, adding, kept, lost>>
            /\ kept = TRUE /\ data # "append" /\ tcp # "listening"
        BY <3>1, <3>4 DEF ProxyRuns, TInv, TypeOK
      <4>2. \/ data' = "accept" /\ tcp' = "listening"
            \/ data' \in {"recv", "dead"} /\ tcp' = tcp
        BY <3>1, <3>4 DEF ProxyRuns
      <4>3. QED
        BY <1>1, <3>2, <4>1, <4>2 DEF TInv, TypeOK
    <3>5. QED
      BY <3>3, <3>4
  <2>3. CASE Relisten \/ (\E answered \in BOOLEAN : SendOn(answered)) \/ \E sent \in BOOLEAN : MockCsm(sent)
    <3>1. /\ UNCHANGED <<resume, ready, errors, recorded, adding, kept, lost>>
          /\ kept = TRUE /\ data # "append" /\ tcp # "listening"
      BY <2>3 DEF Relisten, SendOn, MockCsm, TInv, TypeOK
    <3>2. \/ data' \in {"refail", "reaccept"} /\ tcp' = "listening"
          \/ data' \in {"recv", "dead"} /\ tcp' = tcp
      BY <2>3 DEF Relisten, SendOn, MockCsm
    <3>3. QED
      BY <1>1, <3>1, <3>2 DEF TInv, TypeOK
  <2>4. CASE \E next \in {"recv", "restart"} : SendFails(next)
    <3>1. PICK next \in {"accept", "recv", "restart"} : Error(next)
      BY <2>4 DEF SendFails
    <3>2. tcp' = tcp /\ tcp # "listening" /\ data # "append" /\ ready' = ready
      BY <2>4 DEF SendFails, TInv, TypeOK
    <3>3. QED
      <4>1. /\ data' = "append" /\ resume' \in {"accept", "recv", "restart"} /\ lost' = lost
            /\ recorded' \in 0 .. MaxErrors /\ adding' # 0 /\ adding' \in 0 .. recorded'
            /\ errors' \subseteq 1 .. recorded' /\ kept' = kept
        BY <3>1, TypeError
      <4>2. QED
        BY <1>1, <3>2, <4>1 DEF TInv, TypeOK
  <2>5. QED
    BY <2>1, <2>2, <2>3, <2>4 DEF Data
<1>4. QED
  BY <1>2, <1>3 DEF TInv

LEMMA TypeStep == TInv /\ [Next]_vars => TInv'
<1> SUFFICES ASSUME TInv, [Next]_vars
             PROVE  TInv'
  OBVIOUS
<1>1. CASE UNCHANGED vars
  <2>1. TypeOK'
    BY <1>1 DEF vars, TInv, TypeOK
  <2>2. FirstStep' /\ Requests'
    BY <1>1 DEF vars, TInv, FirstStep, Requests
  <2>3. QED
    BY <2>1, <2>2 DEF TInv
<1>2. CASE Next
  BY <1>2, TypeClient, TypeHttp, TypeWorker, TypeData DEF Next
<1>3. QED
  BY <1>1, <1>2

LEMMA TInvCorrect == Spec => []TInv
BY TypeInit, TypeStep, PTL DEF Spec

\* The data thread listens exactly where it accepts, and loads an error list
\* that is no longer in use only while it appends to it.
THEOREM TypeCorrect == Spec => []TypeOK
<1>1. TInv => TypeOK
  BY DEF TInv
<1>2. QED
  BY TInvCorrect, <1>1, PTL

-----------------------------------------------------------------------------
InQueue(step) == \E k \in 1 .. Len(q) : q[k] = step

\* Nothing is judged any more.
Ending == client \in {"after-run", "done"}

\* after-run is the last step.
LastStep == job = "after-run" \/ InQueue("after-run") => Ending

LEMMA LastInit == Init => LastStep
<1>1. Init => Len(q) = 0 /\ job = "none"
  BY DEF Init
<1>2. QED
  BY <1>1 DEF LastStep, InQueue

LEMMA EndingKept == TInv /\ Ending /\ [Next]_vars => Ending'
<1> SUFFICES ASSUME TInv, Ending, [Next]_vars, client' # client
             PROVE  Ending'
  BY DEF Ending
<1>1. CASE \E drop \in {"up", "rst"} : EndCase(drop)
  BY <1>1 DEF EndCase, Ending
<1>2. CASE Respond \/ NoResponse
  <2>1. client = "after-run"
    BY <1>2 DEF Respond, NoResponse, TInv, Requests, Steps, Ending
  <2>2. client' = "done"
    BY <1>2, <2>1 DEF Respond, NoResponse, NextStep
  <2>3. QED
    BY <2>2 DEF Ending
<1>3. CASE Worker
  BY <1>3 DEF Worker, Get, LacksParameters, AcquireLock, BeforeRun, ProxyReady, OtherStep, LookForErrors, ResetErrors,
              CheckVerdict, AfterRun, ReleaseLock, Raised, Finally, LetGo, Raise, Reaches, Ending
<1>4. UNCHANGED client \/ Worker \/ Respond \/ NoResponse \/ \E drop \in {"up", "rst"} : EndCase(drop)
  BY DEF Next, Request, Connect, Receive, HttpSteps, PostAcquires, PostReleases, PostPuts, GetStatus,
         Data, AppendError, ProxyRuns, Relisten, SendOn, MockCsm, SendFails, vars
<1>5. QED
  BY <1>1, <1>2, <1>3, <1>4

LEMMA LastStepKept == TInv /\ LastStep /\ [Next]_vars => LastStep'
<1> SUFFICES ASSUME TInv, LastStep, [Next]_vars, job' = "after-run" \/ InQueue("after-run")'
             PROVE  Ending'
  BY DEF LastStep
<1>1. CASE PostPuts
  <2>1. q \in Seq(Steps) /\ client \in Steps /\ q' = Append(q, client) /\ job' = job /\ client' = client
    BY <1>1 DEF PostPuts, TInv, TypeOK, Requests
  <2>2. /\ q'[Len(q) + 1] = client
        /\ \A k \in 1 .. Len(q) : q'[k] = q[k]
        /\ \A k \in 1 .. Len(q') : k \in 1 .. Len(q) \/ k = Len(q) + 1
    BY <2>1, QueueGrows
  <2>3. client = "after-run" \/ job = "after-run" \/ InQueue("after-run")
    BY <2>1, <2>2 DEF InQueue
  <2>4. QED
    BY <2>1, <2>3 DEF LastStep, Ending
<1>2. CASE Get
  <2>1. /\ Head(q) = q[1] /\ 1 \in 1 .. Len(q)
        /\ \A k \in 1 .. Len(q') : q'[k] = q[k + 1] /\ k + 1 \in 1 .. Len(q) /\ k + 1 # 1
    BY <1>2, QueueShrinks DEF Get, TInv, TypeOK
  <2>2. InQueue("after-run")
    BY <1>2, <2>1 DEF Get, InQueue
  <2>3. QED
    BY <1>2, <2>2 DEF Get, LastStep, Ending
<1>3. CASE ~PostPuts /\ ~Get
  <2>1. q' = q /\ job' \in {job, "none"}
    <3>1. CASE Worker
      BY <1>3, <3>1 DEF Worker, LacksParameters, AcquireLock, BeforeRun, ProxyReady, OtherStep, LookForErrors,
                        ResetErrors, CheckVerdict, AfterRun, ReleaseLock, Raised, Finally, LetGo,
                        Raise, Reaches
    <3>2. CASE HttpSteps
      BY <1>3, <3>2 DEF HttpSteps, PostAcquires, PostReleases, GetStatus, Respond, NoResponse
    <3>3. CASE ~Worker /\ ~HttpSteps
      BY <3>3 DEF Next, Request, Connect, Receive, EndCase, Data, AppendError, ProxyRuns, Relisten,
                  SendOn, MockCsm, SendFails, vars
    <3>4. QED
      BY <3>1, <3>2, <3>3
  <2>2. job = "after-run" \/ InQueue("after-run")
    BY <2>1 DEF InQueue
  <2>3. QED
    BY <2>2, EndingKept DEF LastStep
<1>4. QED
  BY <1>1, <1>2, <1>3

-----------------------------------------------------------------------------
\* Until the finally clause has released a lock that is not the worker's, each
\* of the two has the lock from its acquire to its release.
Numbered == found \cup status.errs \cup answer.errs

Exclusive ==
    /\ http = "locked" <=> lock = "http"
    /\ worker \in {"work", "ready", "reset", "verdict", "release"} => lock = "worker"
    /\ http # "raised" /\ worker # "dead"
    /\ 0 \notin Numbered
    /\ \A i \in 1 .. Len(results) : 0 \notin results[i].errs

XInv == robbed \/ Exclusive

LEMMA NoStatusErrs == NoStatus.errs = {} /\ NoStatus.verdict = ""
BY DEF NoStatus

LEMMA ExclusiveInit == Init => XInv
<1> SUFFICES ASSUME Init
             PROVE  Exclusive
  BY DEF XInv
<1>1. Len(results) = 0 /\ 1 .. 0 = {} /\ found = {} /\ status = NoStatus /\ answer = NoStatus
  BY DEF Init
<1>4. 0 \notin Numbered
  BY <1>1, NoStatusErrs DEF Numbered
<1>2. \A i \in 1 .. Len(results) : 0 \notin results[i].errs
  BY <1>1, Zenon
<1>3. QED
  BY <1>4, <1>2 DEF Init, Exclusive

\* A lock released unheld is not forgotten.
LEMMA NotRobbed == [Next]_vars /\ ~robbed' => ~robbed
<1> SUFFICES ASSUME [Next]_vars, ~robbed'
             PROVE  ~robbed
  OBVIOUS
<1>1. CASE Worker
  BY <1>1 DEF Worker, Get, LacksParameters, AcquireLock, BeforeRun, ProxyReady, OtherStep,
              LookForErrors, ResetErrors, CheckVerdict, AfterRun, ReleaseLock, Raised, Finally, LetGo
<1>2. CASE HttpSteps
  BY <1>2 DEF HttpSteps, PostAcquires, PostReleases, PostPuts, GetStatus, Respond, NoResponse
<1>3. CASE ~Worker /\ ~HttpSteps
  BY <1>3 DEF Next, Request, Connect, Receive, EndCase, Data, AppendError, ProxyRuns, Relisten,
              SendOn, MockCsm, SendFails, vars
<1>4. QED
  BY <1>1, <1>2, <1>3

\* A verdict takes the errors found with it.
LEMMA VerdictErrs ==
    ASSUME NEW v \in {"success", "fail"}, Verdict(v)
    PROVE  /\ status'.errs \subseteq status.errs \cup found
           /\ answer'.errs \subseteq answer.errs \cup found
           /\ status' # status => status'.verdict = v /\ (v = "fail" => found \subseteq status'.errs)
           /\ answer' # answer => answer'.verdict = v /\ (v = "fail" => found \subseteq answer'.errs)
           /\ status' = status \/ answer' = answer
<1>1. PICK w, z : w = Write(status, v) /\ z = Write(answer, v)
  OBVIOUS
<1>2. /\ w.verdict = v /\ w.errs = IF v = "fail" THEN status.errs \cup found ELSE {}
      /\ z.verdict = v /\ z.errs = IF v = "fail" THEN answer.errs \cup found ELSE {}
  BY <1>1 DEF Write
<1>3. \/ status' = w /\ answer' = answer
      \/ status' = status /\ answer' = z
      \/ status' = status /\ answer' = answer
  BY <1>1 DEF Verdict
<1>4. QED
  BY <1>2, <1>3

LEMMA ExclusiveStep == TInv /\ XInv /\ [Next]_vars => XInv'
<1> SUFFICES ASSUME TInv, XInv, [Next]_vars, ~robbed'
             PROVE  Exclusive'
  BY DEF XInv
<1>1. ~robbed /\ Exclusive
  BY NotRobbed DEF XInv
<1>2. CASE Worker
  <2>1. results' = results
    BY <1>2 DEF Worker, Get, LacksParameters, AcquireLock, BeforeRun, ProxyReady, OtherStep,
                LookForErrors, ResetErrors, CheckVerdict, AfterRun, ReleaseLock, Raised, Finally, LetGo
  <2>2. 0 \notin Numbered'
    <3>1. CASE CheckVerdict \/ Raised
      <4>1. found' = {} /\ \E v \in {"success", "fail"} : Verdict(v)
        BY <3>1 DEF CheckVerdict, Raised
      <4>2. Numbered' \subseteq Numbered
        BY <4>1, VerdictErrs DEF Numbered
      <4>3. QED
        BY <1>1, <4>2 DEF Exclusive
    <3>2. CASE ~CheckVerdict /\ ~Raised
      <4>1. status' = status /\ answer' = answer
        BY <1>2, <3>2 DEF Worker, Get, LacksParameters, AcquireLock, BeforeRun, ProxyReady, OtherStep,
                          LookForErrors, ResetErrors, AfterRun, ReleaseLock, Finally, LetGo
      <4>2. 0 \notin found'
        <5>1. CASE ResetErrors
          BY <5>1 DEF ResetErrors, TInv, TypeOK
        <5>2. CASE ReleaseLock
          BY <1>1, <5>2 DEF ReleaseLock, Exclusive
        <5>3. CASE Raise
          BY <5>3, TypeRaise
        <5>4. CASE found' = found
          BY <1>1, <5>4 DEF Exclusive, Numbered
        <5>5. QED
          BY <1>2, <3>2, <5>1, <5>2, <5>3, <5>4
             DEF Worker, Get, LacksParameters, AcquireLock, BeforeRun, ProxyReady, OtherStep,
                 LookForErrors, AfterRun, Finally, LetGo
      <4>3. QED
        BY <1>1, <4>1, <4>2 DEF Exclusive, Numbered
    <3>3. QED
      BY <3>1, <3>2
  <2>3. /\ http' = "locked" <=> lock' = "http"
        /\ worker' \in {"work", "ready", "reset", "verdict", "release"} => lock' = "worker"
        /\ http' # "raised" /\ worker' # "dead"
    <3>1. CASE Get \/ AcquireLock \/ ProxyReady \/ LookForErrors \/ ResetErrors \/ CheckVerdict \/ Raised
      BY <1>1, <3>1 DEF Exclusive, Get, AcquireLock, ProxyReady, LookForErrors, ResetErrors,
                        CheckVerdict, Raised, Reaches
    <3>2. CASE LacksParameters \/ \E ok \in BOOLEAN : BeforeRun(ok) \/ OtherStep(ok) \/ AfterRun(ok)
      BY <1>1, <3>2 DEF Exclusive, LacksParameters, BeforeRun, OtherStep, AfterRun, Raise, Reaches
    <3>3. CASE ReleaseLock \/ Finally
      BY <1>1, <3>3 DEF Exclusive, ReleaseLock, Finally, Reaches
    <3>4. CASE LetGo
      BY <1>1, <3>4 DEF Exclusive, LetGo
    <3>5. QED
      BY <1>2, <3>1, <3>2, <3>3, <3>4 DEF Worker
  <2>4. QED
    BY <1>1, <2>1, <2>2, <2>3 DEF Exclusive
<1>3. CASE HttpSteps
  <2>1. ~NoResponse
    BY <1>1 DEF Exclusive, NoResponse
  <2>2. UNCHANGED <<worker, found>>
    BY <1>3 DEF HttpSteps, PostAcquires, PostReleases, PostPuts, GetStatus, Respond, NoResponse
  <2>3. /\ http' = "locked" <=> lock' = "http"
        /\ worker \in {"work", "ready", "reset", "verdict", "release"} => lock' = "worker"
        /\ http' # "raised"
    BY <1>1, <1>3, <2>1 DEF Exclusive, HttpSteps, PostAcquires, PostReleases, PostPuts, GetStatus, Respond
  <2>4. Numbered' \subseteq Numbered
    <3>1. CASE GetStatus
      BY <2>2, <3>1, NoStatusErrs DEF GetStatus, Numbered
    <3>2. CASE Respond
      BY <2>2, <3>2, NoStatusErrs DEF Respond, Numbered
    <3>3. CASE ~GetStatus /\ ~Respond
      BY <1>3, <2>1, <2>2, <3>3 DEF HttpSteps, PostAcquires, PostReleases, PostPuts, Numbered
    <3>4. QED
      BY <3>1, <3>2, <3>3
  <2>5. \A i \in 1 .. Len(results') : 0 \notin results'[i].errs
    <3>1. CASE client = "check" /\ Respond /\ Judged(answer)
      <4>1. results \in Seq(Status) /\ answer \in Status /\ results' = Append(results, answer)
        BY <3>1 DEF Judged, TInv, TypeOK
      <4>2. /\ Len(results) \in Nat /\ Len(results') = Len(results) + 1
            /\ results'[Len(results) + 1] = answer
            /\ \A i \in 1 .. Len(results) : results'[i] = results[i]
        BY ONLY <4>1, AppendProperties
      <4>3. \A i \in 1 .. Len(results') : i \in 1 .. Len(results) \/ i = Len(results) + 1
        BY <4>2
      <4>4. 0 \notin answer.errs
        BY <1>1 DEF Exclusive, Numbered
      <4>5. QED
        BY <1>1, <4>2, <4>3, <4>4 DEF Exclusive
    <3>2. CASE ~(client = "check" /\ Respond /\ Judged(answer))
      <4>1. results' = results
        BY <1>3, <2>1, <3>2 DEF HttpSteps, PostAcquires, PostReleases, PostPuts, GetStatus, Respond, NextStep
      <4>2. QED
        BY <1>1, <4>1 DEF Exclusive
    <3>3. QED
      BY <3>1, <3>2
  <2>6. QED
    BY <1>1, <2>2, <2>3, <2>4, <2>5 DEF Exclusive
<1>4. CASE ~Worker /\ ~HttpSteps
  <2>1. UNCHANGED <<lock, worker, found, status, answer, results>>
        /\ (http' = http \/ (http = "idle" /\ http' \in {"put", "wait"}))
    BY <1>4 DEF Next, Request, Connect, Receive, EndCase, Data, AppendError, ProxyRuns, Relisten,
                SendOn, MockCsm, SendFails, vars
  <2>2. QED
    BY <1>1, <2>1 DEF Exclusive, Numbered
<1>5. QED
  BY <1>2, <1>3, <1>4

-----------------------------------------------------------------------------
\* The worker carries errors only between what it finds and its verdict.
Carried ==
    /\ found # {} => worker \in {"verdict", "raise"}
    /\ worker = "raise" => found # {}

LEMMA CarriedInit == Init => Carried
BY DEF Init, Carried

LEMMA CarriedStep == TInv /\ Carried /\ [Next]_vars => Carried'
<1> SUFFICES ASSUME TInv, Carried, [Next]_vars
             PROVE  Carried'
  OBVIOUS
<1>1. CASE Worker
  <2>1. CASE Raise
    BY <2>1 DEF Raise, Reaches, Carried
  <2>2. CASE Get \/ AcquireLock \/ ProxyReady \/ LookForErrors \/ ResetErrors \/ CheckVerdict \/ Raised
    BY <2>2 DEF Carried, Get, AcquireLock, ProxyReady, LookForErrors, ResetErrors, CheckVerdict,
                Raised, Reaches
  <2>3. CASE ~Raise /\ (LacksParameters \/ \E ok \in BOOLEAN : BeforeRun(ok) \/ OtherStep(ok) \/ AfterRun(ok))
    <3>1. found' = found /\ worker \in {"lock", "work"} /\ worker' \in {"ready", "release", "killed"}
      BY <2>3 DEF LacksParameters, BeforeRun, OtherStep, AfterRun, Reaches
    <3>2. QED
      BY <3>1 DEF Carried
  <2>4. CASE ReleaseLock \/ Finally \/ LetGo
    BY <2>4 DEF Carried, ReleaseLock, Finally, LetGo, Reaches
  <2>5. QED
    BY <1>1, <2>1, <2>2, <2>3, <2>4 DEF Worker
<1>2. CASE ~Worker
  <2>1. UNCHANGED <<worker, found>>
    BY <1>2 DEF Next, Request, Connect, Receive, EndCase, HttpSteps, PostAcquires, PostReleases, PostPuts,
                GetStatus, Respond, NoResponse, Data, AppendError, ProxyRuns, Relisten, SendOn, MockCsm,
                SendFails, vars
  <2>2. QED
    BY <2>1 DEF Carried
<1>3. QED
  BY <1>1, <1>2

-----------------------------------------------------------------------------
\* An error is in one place at a time, and moves on to fail one case.
Apart(e, d, f, s, a) ==
    /\ e \cap d \subseteq {0} /\ e \cap f \subseteq {0} /\ e \cap s \subseteq {0} /\ e \cap a \subseteq {0}
    /\ d \cap f \subseteq {0} /\ d \cap s \subseteq {0} /\ d \cap a \subseteq {0}
    /\ f \cap s \subseteq {0} /\ f \cap a \subseteq {0}
    /\ s \cap a \subseteq {0}

Open == errors \cup {adding} \cup found \cup status.errs \cup answer.errs

Reported(s) == s.verdict = "fail" <=> s.errs # {}

ResultsApart ==
    /\ \A i \in 1 .. Len(results) :
           /\ results[i].errs \subseteq 0 .. recorded
           /\ results[i].errs \cap Open \subseteq {0}
           /\ results[i].verdict = "fail" => results[i].errs # {}
    /\ \A i, j \in 1 .. Len(results) : i # j => results[i].errs \cap results[j].errs \subseteq {0}

ErrorsApart ==
    /\ Open \subseteq 0 .. recorded
    /\ Apart(errors, {adding}, found, status.errs, answer.errs)
    /\ Reported(status) /\ Reported(answer)
    /\ ResultsApart

LEMMA ApartInit == Init => ErrorsApart
<1> SUFFICES ASSUME Init
             PROVE  ErrorsApart
  OBVIOUS
<1>1. /\ errors = {} /\ found = {} /\ status = NoStatus /\ answer = NoStatus /\ Len(results) = 0
      /\ adding = 0 /\ recorded = 0
  BY DEF Init
<1>2. status.errs = {} /\ answer.errs = {} /\ status.verdict = "" /\ answer.verdict = ""
  BY <1>1, NoStatusErrs
<1>3. Open \subseteq 0 .. recorded
  <2>1. Open = {0}
    BY <1>1, <1>2, Zenon DEF Open
  <2>2. 0 \in 0 .. recorded
    BY <1>1
  <2>3. QED
    BY <2>1, <2>2
<1>4. Apart(errors, {adding}, found, status.errs, answer.errs)
  BY <1>1, <1>2 DEF Apart
<1>5. ResultsApart
  <2>1. 1 .. 0 = {}
    OBVIOUS
  <2>2. 1 .. Len(results) = {}
    BY <1>1, <2>1, Zenon
  <2>3. QED
    BY <2>2, Zenon DEF ResultsApart
<1>6. QED
  BY <1>2, <1>3, <1>4, <1>5 DEF ErrorsApart, Reported

\* The errors of one place move to another, or are lost on the way.
LEMMA ApartMoved ==
    ASSUME TInv, ErrorsApart, results' = results, recorded' = recorded, Open' \subseteq Open \cup {0},
           Apart(errors', {adding'}, found', status'.errs, answer'.errs),
           Reported(status)', Reported(answer)'
    PROVE  ErrorsApart'
<1>1. 0 \in 0 .. recorded
  BY DEF TInv, TypeOK
<1>2. Open' \subseteq 0 .. recorded'
  BY <1>1 DEF ErrorsApart
<1>3. ResultsApart'
  BY DEF ErrorsApart, ResultsApart
<1>4. QED
  BY <1>2, <1>3 DEF ErrorsApart

\* A step that moves no error, or lets some out of sight, and makes no result.
LEMMA ApartKept ==
    ASSUME TInv, ErrorsApart, results' = results, recorded' = recorded,
           errors' \subseteq errors, adding' \in {adding, 0}, found' \subseteq found,
           status'.errs \subseteq status.errs, answer'.errs \subseteq answer.errs,
           Reported(status)', Reported(answer)'
    PROVE  ErrorsApart'
<1>1. Open' \subseteq Open \cup {0}
  BY DEF Open
<1>2. Apart(errors', {adding'}, found', status'.errs, answer'.errs)
  BY DEF ErrorsApart, Apart
<1>3. QED
  BY <1>1, <1>2, ApartMoved

\* An error is new.
LEMMA ApartFresh ==
    ASSUME TInv, ErrorsApart, recorded' = recorded + 1,
           UNCHANGED <<results, errors, status, answer>>,
           \/ adding' = recorded' /\ found' = found
           \/ adding' = adding /\ found' = {recorded'}
    PROVE  ErrorsApart'
<1>1. /\ recorded' \notin 0 .. recorded /\ recorded' \in 0 .. recorded'
      /\ 0 .. recorded \subseteq 0 .. recorded'
  BY DEF TInv, TypeOK
<1>2. Open' \subseteq Open \cup {recorded'} /\ recorded' \notin Open
  BY <1>1 DEF Open, ErrorsApart
<1>3. Open' \subseteq 0 .. recorded'
  BY <1>1, <1>2 DEF ErrorsApart
<1>4. Apart(errors', {adding'}, found', status'.errs, answer'.errs)
  BY <1>2 DEF ErrorsApart, Apart, Open
<1>5. ResultsApart'
  <2>1. ASSUME NEW i \in 1 .. Len(results)
        PROVE  results[i].errs \subseteq 0 .. recorded' /\ results[i].errs \cap Open' \subseteq {0}
    <3>1. results[i].errs \subseteq 0 .. recorded /\ results[i].errs \cap Open \subseteq {0}
      BY DEF ErrorsApart, ResultsApart
    <3>2. QED
      BY <1>1, <1>2, <3>1
  <2>2. QED
    BY <2>1 DEF ErrorsApart, ResultsApart
<1>6. QED
  BY <1>3, <1>4, <1>5 DEF ErrorsApart, Reported

\* A verdict is given.
LEMMA ApartVerdict ==
    ASSUME TInv, Carried, ErrorsApart, CheckVerdict \/ Raised
    PROVE  ErrorsApart'
<1>1. UNCHANGED <<results, errors, adding, recorded>> /\ found' = {}
  BY DEF CheckVerdict, Raised
<1>2. PICK v \in {"success", "fail"} : Verdict(v) /\ (v = "fail" <=> found # {})
  BY DEF CheckVerdict, Raised, Carried
<1>3. PICK w, z : w = Write(status, v) /\ z = Write(answer, v)
  OBVIOUS
<1>4. /\ w.verdict = v /\ w.errs = IF v = "fail" THEN status.errs \cup found ELSE {}
      /\ z.verdict = v /\ z.errs = IF v = "fail" THEN answer.errs \cup found ELSE {}
  BY <1>3 DEF Write
<1>5. \/ status' = w /\ answer' = answer
      \/ status' = status /\ answer' = z
      \/ status' = status /\ answer' = answer
  BY <1>2, <1>3 DEF Verdict
<1>6. Open' \subseteq Open
  BY <1>1, <1>4, <1>5 DEF Open
<1>7. Apart(errors', {adding'}, found', status'.errs, answer'.errs)
  BY <1>1, <1>4, <1>5 DEF ErrorsApart, Apart
<1>8. Reported(status)' /\ Reported(answer)'
  BY <1>2, <1>4, <1>5 DEF ErrorsApart, Reported
<1>9. QED
  BY <1>1, <1>6, <1>7, <1>8, ApartMoved

\* A case is judged, and the answer's errors, if it is by the answer, are given away.
LEMMA ApartJudged ==
    ASSUME TInv, ErrorsApart, NEW s \in Status, Judged(s),
           UNCHANGED <<errors, adding, found, status, recorded>>,
           \/ s = answer /\ answer' = NoStatus
           \/ s.errs = {0} /\ answer' = answer
    PROVE  ErrorsApart'
<1>1. /\ results \in Seq(Status) /\ Len(results) \in Nat
      /\ Len(results') = Len(results) + 1
      /\ results'[Len(results) + 1] = s
      /\ \A i \in 1 .. Len(results) : results'[i] = results[i]
      /\ \A i \in 1 .. Len(results') : i \in 1 .. Len(results) \/ i = Len(results) + 1
  <2>1. results \in Seq(Status) /\ results' = Append(results, s)
    BY DEF TInv, TypeOK, Judged
  <2>2. /\ Len(results) \in Nat /\ Len(results') = Len(results) + 1
        /\ results'[Len(results) + 1] = s
        /\ \A i \in 1 .. Len(results) : results'[i] = results[i]
    BY ONLY <2>1, AppendProperties, s \in Status
  <2>3. QED
    BY <2>1, <2>2
<1>2. /\ Open' \subseteq Open /\ s.errs \cap Open' \subseteq {0}
      /\ s.errs \subseteq Open \cup {0}
      /\ Open \subseteq 0 .. recorded /\ 0 \in 0 .. recorded
      /\ Apart(errors', {adding'}, found', status'.errs, answer'.errs)
      /\ Reported(status)' /\ Reported(answer)'
      /\ s.verdict = "fail" => s.errs # {}
  <2>1. Open \subseteq 0 .. recorded /\ 0 \in 0 .. recorded
    BY DEF ErrorsApart, TInv, TypeOK
  <2>2. CASE s = answer /\ answer' = NoStatus
    <3>1. /\ answer'.errs = {} /\ answer'.verdict = ""
          /\ Open' = errors \cup {adding} \cup found \cup status.errs
      BY <2>2, NoStatusErrs DEF Open
    <3>2. Open' \subseteq Open /\ s.errs \subseteq Open /\ s.errs \cap Open' \subseteq {0}
      BY <2>2, <3>1 DEF ErrorsApart, Apart, Open
    <3>3. Apart(errors', {adding'}, found', status'.errs, answer'.errs)
      BY <3>1 DEF ErrorsApart, Apart
    <3>4. Reported(status)' /\ Reported(answer)' /\ (s.verdict = "fail" => s.errs # {})
      BY <2>2, <3>1 DEF ErrorsApart, Reported
    <3>5. QED
      BY <2>1, <3>2, <3>3, <3>4
  <2>3. CASE s.errs = {0} /\ answer' = answer
    BY <2>1, <2>3 DEF ErrorsApart, Open, Reported
  <2>4. QED
    BY <2>2, <2>3
<1>3. ResultsApart'
  <2>1. \A i \in 1 .. Len(results) :
           results[i].errs \cap Open' \subseteq {0} /\ results[i].errs \cap s.errs \subseteq {0}
    BY <1>2 DEF ErrorsApart, ResultsApart
  <2>2. ASSUME NEW i \in 1 .. Len(results')
        PROVE  /\ results'[i].errs \subseteq 0 .. recorded'
               /\ results'[i].errs \cap Open' \subseteq {0}
               /\ results'[i].verdict = "fail" => results'[i].errs # {}
    <3>1. CASE i \in 1 .. Len(results)
      BY <1>1, <2>1, <3>1 DEF ErrorsApart, ResultsApart
    <3>2. CASE i = Len(results) + 1
      BY <1>1, <1>2, <3>2
    <3>3. QED
      BY <1>1, <3>1, <3>2
  <2>3. ASSUME NEW i \in 1 .. Len(results'), NEW j \in 1 .. Len(results'), i # j
        PROVE  results'[i].errs \cap results'[j].errs \subseteq {0}
    <3>1. CASE i \in 1 .. Len(results) /\ j \in 1 .. Len(results)
      BY <1>1, <2>3, <3>1 DEF ErrorsApart, ResultsApart
    <3>2. CASE i \in 1 .. Len(results) /\ j = Len(results) + 1
      BY <1>1, <2>1, <3>2
    <3>3. CASE i = Len(results) + 1 /\ j \in 1 .. Len(results)
      BY <1>1, <2>1, <3>3
    <3>4. QED
      BY <1>1, <2>3, <3>1, <3>2, <3>3
  <2>4. QED
    BY <2>2, <2>3 DEF ResultsApart
<1>4. QED
  BY <1>2, <1>3 DEF ErrorsApart

LEMMA ApartStep == TInv /\ Carried /\ ErrorsApart /\ [Next]_vars => ErrorsApart'
<1> SUFFICES ASSUME TInv, Carried, ErrorsApart, [Next]_vars
             PROVE  ErrorsApart'
  OBVIOUS
<1>1. CASE AppendError
  <2>1. /\ UNCHANGED <<results, recorded, found, status, answer>>
        /\ errors' \in {errors, errors \cup {adding}} /\ adding' = 0
    BY <1>1 DEF AppendError
  <2>2. Open' \subseteq Open \cup {0} /\ Apart(errors', {adding'}, found', status'.errs, answer'.errs)
    BY <2>1 DEF ErrorsApart, Apart, Open
  <2>3. QED
    BY <2>1, <2>2, ApartMoved DEF ErrorsApart, Reported
<1>2. CASE ResetErrors
  <2>1. /\ UNCHANGED <<results, recorded, adding, status, answer>>
        /\ errors' = {} /\ found' = errors
    BY <1>2 DEF ResetErrors
  <2>2. Open' \subseteq Open \cup {0} /\ Apart(errors', {adding'}, found', status'.errs, answer'.errs)
    BY <2>1 DEF ErrorsApart, Apart, Open
  <2>3. QED
    BY <2>1, <2>2, ApartMoved DEF ErrorsApart, Reported
<1>3. CASE CheckVerdict \/ Raised
  BY <1>3, ApartVerdict
<1>4. CASE GetStatus
  <2>1. /\ UNCHANGED <<results, recorded, errors, adding, found>>
        /\ answer' = status /\ status' = NoStatus
    BY <1>4 DEF GetStatus
  <2>2. Open' \subseteq Open \cup {0} /\ Apart(errors', {adding'}, found', status'.errs, answer'.errs)
    BY <2>1, NoStatusErrs DEF ErrorsApart, Apart, Open
  <2>3. QED
    BY <2>1, <2>2, NoStatusErrs, ApartMoved DEF ErrorsApart, Reported
<1>5. CASE Respond
  <2>1. UNCHANGED <<errors, adding, found, status, recorded>> /\ answer' = NoStatus /\ answer \in Status
    BY <1>5 DEF Respond, TInv, TypeOK
  <2>2. CASE Judged(answer)
    BY <2>1, <2>2, ApartJudged
  <2>3. CASE ~Judged(answer)
    <3>1. results' = results
      BY <1>5, <2>3 DEF Respond, NextStep
    <3>2. QED
      BY <2>1, <3>1, NoStatusErrs, ApartKept DEF ErrorsApart, Reported
  <2>4. QED
    BY <2>2, <2>3
<1>6. CASE NoResponse
  <2>1. UNCHANGED <<errors, adding, found, status, answer, recorded>>
    BY <1>6 DEF NoResponse
  <2>2. CASE client = "check"
    <3>1. PICK s : s = [verdict |-> "fail", errs |-> {0}]
      OBVIOUS
    <3>2. s \in Status /\ Judged(s) /\ s.errs = {0}
      BY <1>6, <2>2, <3>1, StatusTypes DEF NoResponse
    <3>3. QED
      BY <2>1, <3>2, ApartJudged
  <2>3. CASE client # "check"
    <3>1. results' = results
      BY <1>6, <2>3 DEF NoResponse, NextStep
    <3>2. QED
      BY <2>1, <3>1, ApartKept DEF ErrorsApart, Reported
  <2>4. QED
    BY <2>2, <2>3
<1>7. CASE Raise /\ UNCHANGED <<results, errors, status, answer, adding>>
  <2>1. recorded' = recorded + 1 /\ found' = {recorded'}
    BY <1>7, TypeRaise
  <2>2. QED
    BY <1>7, <2>1, ApartFresh
<1>8. CASE (\E next \in {"accept", "recv", "restart"} : Error(next)) /\ UNCHANGED <<results, found, status, answer>>
  <2>1. recorded' = recorded + 1 /\ adding' = recorded' /\ errors' = errors
    BY <1>8, TypeError
  <2>2. QED
    BY <1>8, <2>1, ApartFresh
<1>9. CASE UNCHANGED <<results, recorded, errors, adding, status, answer>> /\ found' \in {found, {0}} /\ ReleaseLock
  <2>1. found = {} /\ found' \subseteq {0}
    BY <1>9 DEF ReleaseLock, Carried
  <2>2. Open' \subseteq Open \cup {0} /\ Apart(errors', {adding'}, found', status'.errs, answer'.errs)
    BY <1>9, <2>1 DEF ErrorsApart, Apart, Open
  <2>3. QED
    BY <1>9, <2>2, ApartMoved DEF ErrorsApart, Reported
<1>10. CASE UNCHANGED <<results, recorded, errors, adding, found, status, answer>>
  BY <1>10, ApartKept DEF ErrorsApart, Reported
<1>11. CASE Worker
  <2>1. CASE LacksParameters \/ \E ok \in BOOLEAN : BeforeRun(ok) \/ OtherStep(ok) \/ AfterRun(ok)
    BY <1>7, <1>10, <2>1 DEF LacksParameters, BeforeRun, OtherStep, AfterRun
  <2>2. CASE ReleaseLock
    <3>1. found = {}
      BY <2>2 DEF ReleaseLock, Carried
    <3>2. QED
      BY <1>9, <2>2, <3>1 DEF ReleaseLock
  <2>3. CASE Get \/ AcquireLock \/ ProxyReady \/ LookForErrors \/ Finally \/ LetGo
    BY <1>10, <2>3 DEF Get, AcquireLock, ProxyReady, LookForErrors, Finally, LetGo
  <2>4. QED
    BY <1>2, <1>3, <1>11, <2>1, <2>2, <2>3 DEF Worker
<1>12. CASE HttpSteps
  BY <1>4, <1>5, <1>6, <1>10, <1>12 DEF HttpSteps, PostAcquires, PostReleases, PostPuts
<1>13. CASE Data
  <2>1. CASE \E outcome \in {"ready", "missing", "dbus", "raise"} : ProxyRuns(outcome)
    BY <1>8, <1>10, <2>1 DEF ProxyRuns
  <2>2. CASE Relisten \/ (\E answered \in BOOLEAN : SendOn(answered)) \/ \E sent \in BOOLEAN : MockCsm(sent)
    BY <1>10, <2>2 DEF Relisten, SendOn, MockCsm
  <2>3. CASE \E next \in {"recv", "restart"} : SendFails(next)
    BY <1>8, <2>3 DEF SendFails
  <2>4. QED
    BY <1>1, <1>13, <2>1, <2>2, <2>3 DEF Data
<1>14. CASE Request \/ Connect \/ Receive \/ (\E drop \in {"up", "rst"} : EndCase(drop)) \/ UNCHANGED vars
  BY <1>10, <1>14 DEF Request, Connect, Receive, EndCase, vars
<1>15. QED
  BY <1>11, <1>12, <1>13, <1>14 DEF Next

LEMMA ApartCorrect == Spec => [](TInv /\ LastStep /\ XInv /\ Carried /\ ErrorsApart)
<1>1. Spec => []LastStep
  BY LastInit, LastStepKept, TInvCorrect, PTL DEF Spec
<1>2. Spec => []XInv
  BY ExclusiveInit, ExclusiveStep, TInvCorrect, PTL DEF Spec
<1>3. Spec => []Carried
  BY CarriedInit, CarriedStep, TInvCorrect, PTL DEF Spec
<1>4. Spec => []ErrorsApart
  BY <1>3, ApartInit, ApartStep, TInvCorrect, PTL DEF Spec
<1>5. QED
  BY <1>1, <1>2, <1>3, <1>4, TInvCorrect, PTL

\* A case fails only on errors of the data thread or an exception of a step, each
\* of which fails one case; the worker dies, a request goes unanswered and a
\* release raises only when the finally clause has released a lock it did not hold.
THEOREM FaultsHaveCauseCorrect == Spec => []FaultsHaveCause
<1>1. XInv /\ ErrorsApart => FaultsHaveCause
  BY DEF XInv, Exclusive, ErrorsApart, ResultsApart, FaultsHaveCause
<1>2. QED
  BY <1>1, ApartCorrect, PTL

-----------------------------------------------------------------------------
\* The errors of a verdict that are not lost have been promised to the case that
\* waits for it.
Owed(s) == s.errs \subseteq lost \cup {0}

Promised ==
    /\ Owed(answer) \/ (http = "json" /\ client = "check")
    /\ Owed(status) \/ Waiting
    /\ Loaded /\ held = "answer" => http = "json" /\ status.errs = {}

FailedCase(e) == \E i \in 1 .. Len(results) : results[i].verdict = "fail" /\ e \in results[i].errs

Places == errors \cup found \cup status.errs \cup answer.errs \cup lost

AllKept == \A e \in 1 .. recorded : e \in Places \/ e = adding \/ FailedCase(e)

KInv == Promised /\ AllKept

LEMMA KeptInit == Init => KInv
<1> SUFFICES ASSUME Init
             PROVE  Promised /\ AllKept
  BY DEF KInv
<1>1. recorded = 0 /\ 1 .. 0 = {} /\ status = NoStatus /\ answer = NoStatus /\ worker = "idle"
  BY DEF Init
<1>2. Promised
  BY <1>1, NoStatusErrs DEF Promised, Owed, Loaded
<1>3. AllKept
  BY <1>1, Zenon DEF AllKept
<1>4. QED
  BY <1>2, <1>3

\* A step after which every error is where it was, or in another place.
LEMMA KeptMoves ==
    ASSUME AllKept, recorded' = recorded,
           \A e \in Places \cup {adding} : e \in Places' \/ e = adding' \/ FailedCase(e)' \/ e = 0,
           \A e \in 1 .. recorded : FailedCase(e) => FailedCase(e)'
    PROVE  AllKept'
<1>1. \A e \in 1 .. recorded : e # 0
  OBVIOUS
<1>2. QED
  BY <1>1 DEF AllKept

\* A new error has a place.
LEMMA KeptFresh ==
    ASSUME TInv, AllKept, recorded' = recorded + 1, recorded' = adding' \/ recorded' \in Places',
           Places \subseteq Places', adding = adding' \/ adding = 0, results' = results
    PROVE  AllKept'
<1>1. \A e \in 1 .. recorded' : (e \in 1 .. recorded /\ e # 0) \/ e = recorded'
  BY DEF TInv, TypeOK
<1>2. \A e : FailedCase(e)' = FailedCase(e)
  BY DEF FailedCase
<1>3. QED
  BY <1>1, <1>2 DEF AllKept

\* A step that changes neither a verdict, nor who waits for one, nor what is lost.
LEMMA PromisedKept ==
    ASSUME Promised, UNCHANGED <<status, answer, client>>, lost \subseteq lost',
           http' = "json" <=> http = "json",
           Loaded' /\ held' = "answer" => Loaded /\ held = "answer"
    PROVE  Promised'
BY DEF Promised, Owed, Waiting

\* A verdict is given.
LEMMA KeptVerdict ==
    ASSUME TInv, Carried, ErrorsApart, Promised, AllKept, CheckVerdict \/ Raised
    PROVE  Promised' /\ AllKept'
<1>1. /\ UNCHANGED <<client, http, results, errors, adding, recorded>>
      /\ found' = {} /\ held' = "self" /\ Loaded
  BY DEF CheckVerdict, Raised, Reaches, Loaded
<1>2. PICK v \in {"success", "fail"} : Verdict(v) /\ (v = "fail" <=> found # {})
  BY DEF CheckVerdict, Raised, Carried
<1>3. PICK w, z : w = Write(status, v) /\ z = Write(answer, v)
  OBVIOUS
<1>4. /\ w.verdict = v /\ w.errs = IF v = "fail" THEN status.errs \cup found ELSE {}
      /\ z.verdict = v /\ z.errs = IF v = "fail" THEN answer.errs \cup found ELSE {}
  BY <1>3 DEF Write
<1>5. CASE status' = w /\ answer' = answer
           /\ Lose(IF v = "success" THEN status.errs ELSE IF Waiting THEN {} ELSE found)
  <2>1. Waiting' = Waiting
    BY <1>1, <1>5 DEF Waiting
  <2>2. /\ lost \subseteq lost'
        /\ v = "success" => status.errs \subseteq lost' \cup {0}
        /\ ~Waiting => found \subseteq lost' \cup {0}
    BY <1>2, <1>5 DEF Lose
  <2>3. Promised'
    BY <1>1, <1>2, <1>4, <1>5, <2>1, <2>2 DEF Promised, Owed
  <2>4. \A e \in Places \cup {adding} : e \in Places' \/ e = adding' \/ e = 0
    BY <1>1, <1>2, <1>4, <1>5, <2>2 DEF Places
  <2>5. \A e : FailedCase(e)' = FailedCase(e)
    BY <1>1 DEF FailedCase
  <2>6. QED
    BY <1>1, <2>3, <2>4, <2>5, KeptMoves
<1>6. CASE held = "answer" /\ answer' = z /\ status' = status
           /\ Lose(IF v = "success" THEN answer.errs ELSE IF client = "check" THEN {} ELSE found)
  <2>1. http = "json" /\ status.errs = {}
    BY <1>1, <1>6 DEF Promised
  <2>2. /\ lost \subseteq lost'
        /\ v = "success" => answer.errs \subseteq lost' \cup {0}
        /\ client # "check" => found \subseteq lost' \cup {0}
    BY <1>2, <1>6 DEF Lose
  <2>3. Promised'
    BY <1>1, <1>2, <1>4, <1>6, <2>1, <2>2 DEF Promised, Owed
  <2>4. \A e \in Places \cup {adding} : e \in Places' \/ e = adding' \/ e = 0
    BY <1>1, <1>2, <1>4, <1>6, <2>2 DEF Places
  <2>5. \A e : FailedCase(e)' = FailedCase(e)
    BY <1>1 DEF FailedCase
  <2>6. QED
    BY <1>1, <2>3, <2>4, <2>5, KeptMoves
<1>7. CASE UNCHANGED <<status, answer>> /\ Lose(found)
  <2>1. lost \subseteq lost' /\ found \subseteq lost' \cup {0}
    BY <1>7 DEF Lose
  <2>2. Promised'
    BY <1>1, <1>7, <2>1 DEF Promised, Owed, Waiting
  <2>3. \A e \in Places \cup {adding} : e \in Places' \/ e = adding' \/ e = 0
    BY <1>1, <1>7, <2>1 DEF Places
  <2>4. \A e : FailedCase(e)' = FailedCase(e)
    BY <1>1 DEF FailedCase
  <2>5. QED
    BY <1>1, <2>2, <2>3, <2>4, KeptMoves
<1>8. QED
  BY <1>2, <1>3, <1>5, <1>6, <1>7 DEF Verdict

\* The worker's other steps.
LEMMA KeptWorker ==
    ASSUME TInv, LastStep, Carried, ErrorsApart, Promised, AllKept, Worker
    PROVE  Promised' /\ AllKept'
<1>1. CASE CheckVerdict \/ Raised
  BY <1>1, KeptVerdict
<1>2. CASE ResetErrors
  <2>1. /\ UNCHANGED <<client, http, results, status, answer, recorded, adding, lost>>
        /\ found = {} /\ found' = errors /\ held' = "self"
    BY <1>2 DEF ResetErrors, Reaches, Carried
  <2>2. Promised'
    BY <2>1, PromisedKept
  <2>3. Places \subseteq Places' /\ \A e : FailedCase(e)' = FailedCase(e)
    BY <2>1 DEF Places, FailedCase
  <2>4. QED
    BY <2>1, <2>2, <2>3, KeptMoves
<1>3. CASE Raise /\ (LacksParameters \/ \E ok \in BOOLEAN : BeforeRun(ok) \/ OtherStep(ok) \/ AfterRun(ok))
  <2>1. /\ UNCHANGED <<client, http, results, status, answer, errors, adding, lost>>
        /\ worker \in {"lock", "work"}
    BY <1>3 DEF LacksParameters, BeforeRun, OtherStep, AfterRun, Raise, Reaches
  <2>2. recorded' = recorded + 1 /\ found' = {recorded'} /\ held' = "self" /\ found = {}
    BY <1>3, <2>1, TypeRaise DEF Carried
  <2>3. Promised'
    BY <2>1, <2>2, PromisedKept
  <2>4. Places \subseteq Places' /\ recorded' \in Places'
    BY <2>1, <2>2 DEF Places
  <2>5. QED
    BY <2>1, <2>2, <2>3, <2>4, KeptFresh
<1>4. CASE AfterRun(TRUE)
  <2>1. /\ UNCHANGED <<results, status, answer, errors, adding, found, recorded, lost>>
        /\ client' = "done" /\ http' = "idle" /\ worker' = "killed" /\ job = "after-run"
    BY <1>4 DEF AfterRun
  <2>2. client # "check"
    BY <2>1 DEF LastStep, Ending
  <2>3. Owed(status) /\ Owed(answer)
    BY <2>2 DEF Promised, Waiting
  <2>4. Promised'
    BY <2>1, <2>3 DEF Promised, Owed, Loaded
  <2>5. Places \subseteq Places' /\ \A e : FailedCase(e)' = FailedCase(e)
    BY <2>1 DEF Places, FailedCase
  <2>6. QED
    BY <2>1, <2>4, <2>5, KeptMoves
<1>5. CASE Get \/ AcquireLock \/ ProxyReady \/ LookForErrors \/ BeforeRun(TRUE) \/ OtherStep(TRUE)
           \/ ReleaseLock \/ Finally \/ LetGo
  <2>1. /\ UNCHANGED <<client, http, results, status, answer, errors, adding, recorded, lost>>
        /\ held' = "self" \/ worker' \notin {"verdict", "raise"}
    BY <1>5 DEF Get, AcquireLock, ProxyReady, LookForErrors, BeforeRun, OtherStep, ReleaseLock, Finally,
                LetGo, Reaches
  <2>2. found = {} \/ found' = found
    BY <1>5 DEF Get, AcquireLock, ProxyReady, LookForErrors, BeforeRun, OtherStep, ReleaseLock, Finally,
                LetGo, Carried
  <2>3. Promised'
    BY <2>1, PromisedKept DEF Loaded
  <2>4. Places \subseteq Places' /\ \A e : FailedCase(e)' = FailedCase(e)
    BY <2>1, <2>2 DEF Places, FailedCase
  <2>5. QED
    BY <2>1, <2>3, <2>4, KeptMoves
<1>6. \A ok \in BOOLEAN : /\ BeforeRun(ok) => BeforeRun(TRUE) \/ Raise
                          /\ OtherStep(ok) => OtherStep(TRUE) \/ Raise
                          /\ AfterRun(ok) => AfterRun(TRUE) \/ Raise
  BY DEF BeforeRun, OtherStep, AfterRun
<1>7. CASE LacksParameters
  BY <1>3, <1>7 DEF LacksParameters
<1>8. CASE \E ok \in BOOLEAN : BeforeRun(ok) \/ OtherStep(ok) \/ AfterRun(ok)
  BY <1>3, <1>4, <1>5, <1>6, <1>8
<1>9. QED
  BY <1>1, <1>2, <1>5, <1>7, <1>8 DEF Worker

\* The answer takes the status; a case that fails by it has its errors.
LEMMA KeptHttp ==
    ASSUME TInv, ErrorsApart, Promised, AllKept, HttpSteps
    PROVE  Promised' /\ AllKept'
<1>1. UNCHANGED <<worker, errors, adding, found, recorded>>
  BY DEF HttpSteps, PostAcquires, PostReleases, PostPuts, GetStatus, Respond, NoResponse
<1>2. CASE PostAcquires \/ PostReleases \/ PostPuts
  <2>1. UNCHANGED <<client, results, status, answer, held, lost>> /\ http # "json" /\ http' # "json"
    BY <1>2 DEF PostAcquires, PostReleases, PostPuts
  <2>2. Promised'
    BY <1>1, <2>1, PromisedKept DEF Loaded
  <2>3. Places \subseteq Places' /\ \A e : FailedCase(e)' = FailedCase(e)
    BY <1>1, <2>1 DEF Places, FailedCase
  <2>4. QED
    BY <1>1, <2>2, <2>3, KeptMoves
<1>3. CASE GetStatus
  <2>1. /\ UNCHANGED <<client, results, lost>> /\ answer' = status /\ status' = NoStatus
        /\ status'.errs = {} /\ http = "status" /\ http' = "json"
    BY <1>3, NoStatusErrs DEF GetStatus
  <2>2. Owed(answer)
    BY <2>1 DEF Promised
  <2>3. Owed(status) \/ client = "check"
    BY DEF Promised, Waiting
  <2>4. Promised'
    BY <2>1, <2>3 DEF Promised, Owed
  <2>5. \A e \in Places \cup {adding} : e \in Places' \/ e = adding' \/ e = 0
    BY <1>1, <2>1, <2>2 DEF Places, Owed
  <2>6. \A e : FailedCase(e)' = FailedCase(e)
    BY <2>1 DEF FailedCase
  <2>7. QED
    BY <1>1, <2>4, <2>5, <2>6, KeptMoves
<1>4. CASE Respond
  <2>1. /\ UNCHANGED <<status, lost>> /\ answer' = NoStatus /\ answer'.errs = {}
        /\ http = "json" /\ http' = "idle" /\ (held' = "answer" => held = "answer")
        /\ held' # "answer"
    BY <1>4, NoStatusErrs DEF Respond
  <2>2. CASE client # "check"
    <3>1. Owed(answer) /\ Owed(status) /\ results' = results
      BY <1>4, <2>2 DEF Promised, Waiting, Respond, NextStep
    <3>2. Promised'
      BY <2>1, <3>1 DEF Promised, Owed
    <3>3. \A e \in Places \cup {adding} : e \in Places' \/ e = adding' \/ e = 0
      BY <1>1, <2>1, <3>1 DEF Places, Owed
    <3>4. \A e : FailedCase(e)' = FailedCase(e)
      BY <3>1 DEF FailedCase
    <3>5. QED
      BY <1>1, <3>2, <3>3, <3>4, KeptMoves
  <2>3. CASE client = "check" /\ answer.verdict = ""
    <3>1. client' = client /\ results' = results /\ answer.errs = {}
      BY <1>4, <2>3 DEF Respond, ErrorsApart, Reported
    <3>2. Promised'
      BY <2>1, <2>3, <3>1 DEF Promised, Owed, Waiting
    <3>3. Places \subseteq Places' /\ \A e : FailedCase(e)' = FailedCase(e)
      BY <1>1, <2>1, <3>1 DEF Places, FailedCase
    <3>4. QED
      BY <1>1, <3>2, <3>3, KeptMoves
  <2>4. CASE client = "check" /\ answer.verdict # ""
    <3>1. Owed(status) /\ results' = Append(results, answer)
      BY <1>4, <2>1, <2>4 DEF Promised, Waiting, Respond, Judged
    <3>2. Promised'
      BY <2>1, <3>1 DEF Promised, Owed
    <3>3. results \in Seq(Status) /\ answer \in Status
      BY DEF TInv, TypeOK
    <3>4. /\ Len(results) \in Nat /\ Len(results') = Len(results) + 1
          /\ results'[Len(results) + 1] = answer
          /\ \A i \in 1 .. Len(results) : results'[i] = results[i]
      BY ONLY <3>1, <3>3, AppendProperties
    <3>5. /\ Len(results) + 1 \in 1 .. Len(results')
          /\ 1 .. Len(results) \subseteq 1 .. Len(results')
      BY <3>4
    <3>6. \A e : FailedCase(e) => FailedCase(e)'
      BY <3>4, <3>5 DEF FailedCase
    <3>7. \A e \in answer.errs : FailedCase(e)'
      BY <3>4, <3>5 DEF FailedCase, ErrorsApart, Reported
    <3>8. \A e \in Places \cup {adding} : e \in Places' \/ e = adding' \/ FailedCase(e)'
      BY <1>1, <2>1, <3>7 DEF Places
    <3>9. QED
      BY <1>1, <3>2, <3>6, <3>8, KeptMoves
  <2>5. QED
    BY <2>2, <2>3, <2>4
<1>5. CASE NoResponse
  <2>1. UNCHANGED <<status, answer, held>> /\ http = "raised" /\ http' = "idle" /\ lost \subseteq lost'
    BY <1>5 DEF NoResponse
  <2>2. Owed(answer) /\ (client # "check" => Owed(status)) /\ (Loaded => held # "answer")
    BY <2>1 DEF Promised, Waiting
  <2>3. client = "check" => status.errs \subseteq lost' \cup {0}
    BY <1>5 DEF NoResponse
  <2>4. Promised'
    BY <1>1, <2>1, <2>2, <2>3 DEF Promised, Owed, Loaded
  <2>5. \A e : FailedCase(e) => FailedCase(e)'
    <3>1. CASE client = "check"
      <4>1. PICK s : s = [verdict |-> "fail", errs |-> {0}]
        OBVIOUS
      <4>2. results' = Append(results, s) /\ s \in Status /\ results \in Seq(Status)
        BY <1>5, <3>1, <4>1, StatusTypes DEF NoResponse, Judged, TInv, TypeOK
      <4>3. /\ Len(results) \in Nat /\ Len(results') = Len(results) + 1
            /\ \A i \in 1 .. Len(results) : results'[i] = results[i]
        BY ONLY <4>2, AppendProperties
      <4>4. QED
        BY <4>3 DEF FailedCase
    <3>2. CASE client # "check"
      <4>1. results' = results
        BY <1>5, <3>2 DEF NoResponse, NextStep
      <4>2. QED
        BY <4>1 DEF FailedCase
    <3>3. QED
      BY <3>1, <3>2
  <2>6. Places \subseteq Places'
    BY <1>1, <2>1 DEF Places
  <2>7. QED
    BY <1>1, <2>4, <2>5, <2>6, KeptMoves
<1>6. QED
  BY <1>2, <1>3, <1>4, <1>5 DEF HttpSteps

\* The data thread appends its error or has a new one.
LEMMA KeptData == ASSUME TInv, Promised, AllKept, Data PROVE Promised' /\ AllKept'
<1>1. UNCHANGED <<client, http, results, found, status, answer, held, worker>>
  BY DEF Data, AppendError, ProxyRuns, Relisten, SendOn, MockCsm, SendFails
<1>2. \A e : FailedCase(e)' = FailedCase(e)
  BY <1>1 DEF FailedCase
<1>3. CASE AppendError
  <2>1. /\ recorded' = recorded /\ errors \subseteq errors' /\ lost \subseteq lost'
        /\ adding \in errors' \cup lost'
    BY <1>3 DEF AppendError
  <2>2. Places \subseteq Places' /\ adding \in Places'
    BY <1>1, <2>1 DEF Places
  <2>3. Promised'
    BY <1>1, <2>1, PromisedKept DEF Loaded
  <2>4. QED
    BY <1>2, <2>1, <2>2, <2>3, KeptMoves
<1>4. CASE ~AppendError
  <2>1. UNCHANGED <<errors, lost>> /\ data # "append"
    BY <1>4 DEF Data, ProxyRuns, Relisten, SendOn, MockCsm, SendFails, Error
  <2>2. UNCHANGED <<recorded, adding>> \/ (recorded' = recorded + 1 /\ adding' = recorded')
    BY <1>4 DEF Data, ProxyRuns, Relisten, SendOn, MockCsm, SendFails, Error
  <2>3. Places' = Places /\ adding = 0
    BY <1>1, <2>1 DEF Places, TInv, TypeOK
  <2>4. Promised'
    BY <1>1, <2>1, PromisedKept DEF Loaded
  <2>5. CASE UNCHANGED <<recorded, adding>>
    BY <1>2, <2>3, <2>4, <2>5, KeptMoves
  <2>6. CASE recorded' = recorded + 1 /\ adding' = recorded'
    BY <1>1, <2>3, <2>4, <2>6, KeptFresh
  <2>7. QED
    BY <2>2, <2>5, <2>6
<1>5. QED
  BY <1>3, <1>4

LEMMA KeptStep ==
    TInv /\ LastStep /\ Carried /\ ErrorsApart /\ KInv /\ [Next]_vars => KInv'
<1> SUFFICES ASSUME TInv, LastStep, Carried, ErrorsApart, Promised, AllKept, [Next]_vars
             PROVE  Promised' /\ AllKept'
  BY DEF KInv
<1>1. CASE Request \/ Connect \/ Receive \/ (\E drop \in {"up", "rst"} : EndCase(drop)) \/ UNCHANGED vars
  <2>1. /\ UNCHANGED <<results, errors, adding, found, status, answer, held, worker, recorded, lost>>
        /\ http' = "json" <=> http = "json"
    BY <1>1 DEF Request, Connect, Receive, EndCase, vars
  <2>2. client' = client \/ (client = "test" /\ client' = "check" /\ http # "json")
    BY <1>1 DEF Request, Connect, Receive, EndCase, vars, TInv, Requests, Steps
  <2>3. Promised'
    <3>1. CASE client' = client
      BY <2>1, <3>1, PromisedKept DEF Loaded
    <3>2. CASE client = "test" /\ client' = "check" /\ http # "json"
      BY <2>1, <3>2 DEF Promised, Owed, Waiting, Loaded
    <3>3. QED
      BY <2>2, <3>1, <3>2
  <2>4. Places \subseteq Places' /\ \A e : FailedCase(e)' = FailedCase(e)
    BY <2>1 DEF Places, FailedCase
  <2>5. QED
    BY <2>1, <2>3, <2>4, KeptMoves
<1>2. QED
  BY <1>1, KeptWorker, KeptHttp, KeptData DEF Next

\* No error is forgotten but in the ways the property names: what a check finds
\* while its case waits for it reaches that case.
THEOREM ErrorsKeptCorrect == Spec => []ErrorsKept
<1>1. Spec => []KInv
  BY KeptInit, KeptStep, ApartCorrect, PTL DEF Spec
<1>2. KInv => ErrorsKept
  BY DEF KInv, AllKept, Places, FailedCase, ErrorsKept
<1>3. QED
  BY <1>1, <1>2, PTL

=============================================================================
