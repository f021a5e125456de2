----------------------- MODULE BTPAutomationHandlerProofs -----------------------
(***************************************************************************)
(* Theorems about BTPAutomationHandler, for a Defensics run of any number  *)
(* of cases and of requests.                                               *)
(***************************************************************************)
EXTENDS BTPAutomationHandler, SequenceTheorems, TLAPS

USE BoundsAssumption

-----------------------------------------------------------------------------
\* Jobs are processed in the order they were posted: what is on the queue is
\* what comes after the job at hand.
QueueIsRest ==
    /\ Len(q) = Len(jobs) - job
    /\ \A k \in 1 .. Len(q) : q[k] = job + k
    /\ worker # "idle" => job > 0

Posting == http \in {"post", "wait", "locked", "put"}

TInv ==
    /\ TypeOK
    /\ QueueIsRest
    /\ Posting => Len(jobs) < MaxJobs
    /\ Posting => client # "done"
    /\ client # "done" => case <= Cases

LEMMA TypeInit == Init => TInv
<1> SUFFICES ASSUME Init
             PROVE  TInv
  OBVIOUS
<1>1. /\ jobs \in Seq([step : Steps, case : 1 .. Cases]) /\ Len(jobs) = 0
      /\ q \in Seq(1 .. MaxJobs) /\ Len(q) = 0
      /\ results \in Seq(Status)
  BY DEF Init
<1>2. NoStatus \in Status
  BY DEF NoStatus, Status, Verdicts
<1>3. TypeOK
  BY <1>1, <1>2 DEF Init, TypeOK, Steps
<1>4. QED
  BY <1>1, <1>3 DEF TInv, QueueIsRest, Posting, Init

LEMMA NoStatusType == NoStatus \in Status
BY DEF NoStatus, Status, Verdicts

\* A sequence that counts on from d goes on counting.
LEMMA CountOn ==
    ASSUME NEW d \in Nat, NEW s \in Seq(Nat), \A k \in 1 .. Len(s) : s[k] = d + k
    PROVE  /\ \A k \in 1 .. Len(Append(s, d + Len(s) + 1)) : Append(s, d + Len(s) + 1)[k] = d + k
           /\ s # <<>> => /\ Head(s) = d + 1
                          /\ \A k \in 1 .. Len(Tail(s)) : Tail(s)[k] = d + 1 + k
<1>1. PICK a, r : a = Append(s, d + Len(s) + 1) /\ r = Tail(s)
  OBVIOUS
<1>2. /\ Len(a) = Len(s) + 1 /\ Len(s) \in Nat /\ a[Len(s) + 1] = d + Len(s) + 1
      /\ \A k \in 1 .. Len(s) : a[k] = s[k]
  BY <1>1
<1>3. \A k \in 1 .. Len(a) : a[k] = d + k
  <2>1. \A k \in 1 .. Len(a) : k \in 1 .. Len(s) \/ k = Len(s) + 1
    BY <1>2
  <2>2. ASSUME NEW k \in 1 .. Len(s)
        PROVE  a[k] = d + k
    BY <1>2
  <2>3. a[Len(s) + 1] = d + (Len(s) + 1)
    BY <1>2
  <2>4. QED
    BY <2>1, <2>2, <2>3
<1>4. ASSUME s # <<>>
      PROVE  Head(s) = d + 1 /\ \A k \in 1 .. Len(r) : r[k] = d + 1 + k
  <2>1. /\ Len(r) = Len(s) - 1 /\ Len(s) \in Nat \ {0} /\ Head(s) = s[1]
        /\ \A k \in 1 .. Len(r) : r[k] = s[k + 1]
    BY <1>1, <1>4
  <2>2. QED
    BY <2>1
<1>5. QED
  BY <1>1, <1>3, <1>4

\* The thread's own steps, but for taking a job, leave it the job.
LEMMA TypeVerdict ==
    ASSUME TInv, worker # "idle", NEW v \in {"success", "fail"}, Verdict(v)
    PROVE  /\ status' \in {status, [verdict |-> v, of |-> job]}
           /\ answer' \in {answer, [verdict |-> v, of |-> job]}
           /\ status' \in Status /\ answer' \in Status
<1>1. [verdict |-> v, of |-> job] \in Status
  BY DEF Status, Verdicts, TInv, TypeOK
<1>2. QED
  BY <1>1 DEF Verdict, TInv, TypeOK

\* A request is put on the queue.
LEMMA TypePuts == ASSUME TInv, PostPuts PROVE TInv'
<1>1. PICK j, n : j = [step |-> client, case |-> case] /\ n = Len(jobs) + 1
  OBVIOUS
<1>2. /\ jobs \in Seq([step : Steps, case : 1 .. Cases]) /\ q \in Seq(1 .. MaxJobs)
      /\ q \in Seq(Nat) /\ Len(jobs) \in Nat /\ Len(q) \in Nat /\ job \in Nat
      /\ Len(jobs) < MaxJobs
  BY DEF PostPuts, TInv, TypeOK, Posting
<1>3. Len(q) = Len(jobs) - job /\ \A k \in 1 .. Len(q) : q[k] = job + k
  BY DEF TInv, QueueIsRest
<1>4. n = job + Len(q) + 1 /\ n \in 1 .. MaxJobs
  BY <1>1, <1>2, <1>3
<1>5. j \in [step : Steps, case : 1 .. Cases]
  <2>1. client \in Steps /\ case \in 1 .. Cases
    BY DEF PostPuts, TInv, TypeOK, Posting
  <2>2. QED
    BY <1>1, <2>1
<1>6. jobs' = Append(jobs, j)
  BY <1>1 DEF PostPuts
<1>7. Len(jobs') = n /\ jobs' \in Seq([step : Steps, case : 1 .. Cases])
  BY <1>1, <1>2, <1>5, <1>6, AppendProperties
<1>8. q' = Append(q, n)
  BY <1>7 DEF PostPuts
<1>9. q' \in Seq(1 .. MaxJobs) /\ Len(q') = Len(q) + 1
  BY <1>2, <1>4, <1>8, AppendProperties
<1>10. \A k \in 1 .. Len(q') : q'[k] = job + k
  <2>1. \A k \in 1 .. Len(Append(q, job + Len(q) + 1)) : Append(q, job + Len(q) + 1)[k] = job + k
    BY <1>2, <1>3, CountOn
  <2>2. QED
    BY <1>4, <1>8, <2>1
<1>11. http' = "status" /\ UNCHANGED <<client, case, results, lock, status, answer, held>>
       /\ UNCHANGED <<worker, job, health, died>>
  BY DEF PostPuts, clientVars, statusVars, workerVars
<1>12. TypeOK'
  BY <1>7, <1>9, <1>11 DEF TInv, TypeOK
<1>13. QueueIsRest'
  <2>1. Len(q') = Len(jobs') - job'
    BY <1>1, <1>2, <1>3, <1>7, <1>9, <1>11
  <2>2. QED
    BY <1>10, <1>11, <2>1 DEF TInv, QueueIsRest
<1>14. QED
  BY <1>11, <1>12, <1>13 DEF TInv, Posting

\* The thread takes the first job of the queue.
LEMMA TypeGet == ASSUME TInv, Get PROVE TInv'
<1>1. /\ q \in Seq(1 .. MaxJobs) /\ q \in Seq(Nat) /\ q # <<>> /\ Len(q) \in Nat \ {0}
      /\ job \in Nat /\ Len(jobs) \in Nat
  BY DEF Get, TInv, TypeOK
<1>2. Len(q) = Len(jobs) - job /\ \A k \in 1 .. Len(q) : q[k] = job + k
  BY DEF TInv, QueueIsRest
<1>3. /\ q' = Tail(q) /\ job' = Head(q) /\ worker' = "start" /\ health' = "none"
      /\ UNCHANGED <<client, case, results, http, jobs, lock, status, answer, held, died>>
  BY DEF Get, clientVars, statusVars
<1>4. q' \in Seq(1 .. MaxJobs) /\ Len(q') = Len(q) - 1 /\ job' \in 1 .. MaxJobs
  BY <1>1, <1>3
<1>5. job' = job + 1 /\ \A k \in 1 .. Len(q') : q'[k] = job + 1 + k
  BY <1>1, <1>2, <1>3, CountOn
<1>6. TypeOK'
  <2>1. job' \in 0 .. MaxJobs
    BY <1>4
  <2>2. QED
    BY <1>3, <1>4, <2>1 DEF TInv, TypeOK
<1>7. QueueIsRest'
  <2>1. Len(q') = Len(jobs') - job' /\ job' > 0
    BY <1>1, <1>2, <1>3, <1>4, <1>5
  <2>2. \A k \in 1 .. Len(q') : q'[k] = job' + k
    BY <1>5
  <2>3. QED
    BY <2>1, <2>2 DEF QueueIsRest
<1>8. QED
  BY <1>3, <1>6, <1>7 DEF TInv, Posting

\* The answer goes out, and Defensics takes its next step.
LEMMA TypeRespond == ASSUME TInv, Respond PROVE TInv'
<1>1. UNCHANGED <<jobs, q, lock, status, worker, job, health, died>> /\ http' = "idle"
      /\ answer' = NoStatus /\ held' \in {"self", "answer", "sent"}
  BY DEF Respond, workerVars, TInv, TypeOK
<1>2. client' \in Steps \cup {"done"}
  BY DEF Respond, NextStep, Steps, TInv, TypeOK, clientVars
<1>3. results' \in Seq(Status)
  <2>1. results \in Seq(Status) /\ answer \in Status
    BY DEF TInv, TypeOK
  <2>2. results' \in {results, Append(results, answer)}
    BY DEF Respond, NextStep, clientVars
  <2>3. QED
    BY <2>1, <2>2
<1>4. case' \in 1 .. Cases + 1 /\ (client' # "done" => case' <= Cases)
  <2>1. case \in 1 .. Cases /\ client # "done"
    <3>1. client # "done"
      BY DEF Respond, NextStep
    <3>2. case \in 1 .. Cases + 1 /\ case <= Cases
      BY <3>1 DEF TInv, TypeOK
    <3>3. QED
      BY <3>1, <3>2
  <2>2. \/ case' = case /\ client' # "done"
        \/ case' = case + 1 /\ client' = IF case = Cases THEN "done" ELSE "before"
    BY <2>1 DEF Respond, NextStep, clientVars
  <2>3. QED
    BY <2>1, <2>2
<1>5. TypeOK'
  BY <1>1, <1>2, <1>3, <1>4, NoStatusType DEF TInv, TypeOK
<1>6. QueueIsRest'
  BY <1>1 DEF TInv, QueueIsRest
<1>7. QED
  BY <1>1, <1>4, <1>5, <1>6 DEF TInv, Posting

LEMMA TypeHttp == ASSUME TInv, Request \/ HttpSteps PROVE TInv'
<1> USE DEF TInv, TypeOK, QueueIsRest, Posting, clientVars, statusVars, workerVars
<1>1. CASE Request
  BY <1>1 DEF Request
<1>2. CASE PostLooksAtLock \/ PostAcquires \/ PostReleases
  BY <1>2 DEF PostLooksAtLock, PostAcquires, PostReleases
<1>3. CASE PostPuts
  BY ONLY TInv, <1>3, TypePuts
<1>4. CASE GetStatus
  BY <1>4, NoStatusType DEF GetStatus
<1>5. CASE Respond
  BY ONLY TInv, <1>5, TypeRespond
<1>6. QED
  BY <1>1, <1>2, <1>3, <1>4, <1>5 DEF HttpSteps

LEMMA TypeWorker == ASSUME TInv, Worker PROVE TInv'
<1> USE DEF TInv, TypeOK, QueueIsRest, Posting, clientVars, statusVars, Reaches
<1>1. CASE Get
  BY ONLY TInv, <1>1, TypeGet
<1>2. CASE Start
  BY <1>2 DEF Start
<1>3. CASE AcquireLock \/ ReleaseLock
  BY <1>3 DEF AcquireLock, ReleaseLock
<1>4. CASE \E ok \in BOOLEAN : RunCase(ok)
  BY <1>4 DEF RunCase
<1>5. CASE \E h \in {"ok", "timeout", "error"} : CheckHealth(h)
  BY <1>5 DEF CheckHealth
<1>6. CASE HealthTimeout
  <2>1. status' \in Status /\ answer' \in Status
    BY <1>6, TypeVerdict DEF HealthTimeout
  <2>2. QED
    BY <1>6, <2>1 DEF HealthTimeout
<1>7. CASE HealthFinally
  <2>1. status' \in Status /\ answer' \in Status
    BY <1>7, TypeVerdict DEF HealthFinally
  <2>2. QED
    BY <1>7, <2>1 DEF HealthFinally
<1>8. CASE Raised
  <2>1. status' \in Status /\ answer' \in Status
    BY <1>8, TypeVerdict DEF Raised
  <2>2. died' \in SUBSET (1 .. MaxJobs)
    <3>1. job \in 1 .. MaxJobs
      BY <1>8 DEF Raised
    <3>2. died' \in {died, died \cup {job}}
      BY <1>8 DEF Raised
    <3>3. QED
      BY <3>1, <3>2
  <2>3. QED
    BY <1>8, <2>1, <2>2 DEF Raised
<1>9. QED
  BY <1>1, <1>2, <1>3, <1>4, <1>5, <1>6, <1>7, <1>8 DEF Worker

LEMMA TypeStep == TInv /\ [Next]_vars => TInv'
<1> SUFFICES ASSUME TInv, [Next]_vars
             PROVE  TInv'
  OBVIOUS
<1>1. CASE UNCHANGED vars
  BY <1>1 DEF vars, clientVars, statusVars, workerVars, TInv, TypeOK, QueueIsRest, Posting
<1>2. CASE Next
  BY <1>2, TypeHttp, TypeWorker DEF Next
<1>3. QED
  BY <1>1, <1>2

LEMMA TInvCorrect == Spec => []TInv
BY TypeInit, TypeStep, PTL DEF Spec

\* The thread only processes jobs that were posted, and never more than
\* Defensics has requested.
THEOREM TypeCorrect == Spec => []TypeOK
<1>1. TInv => TypeOK
  BY DEF TInv
<1>2. QED
  BY TInvCorrect, <1>1, PTL

-----------------------------------------------------------------------------
\* The results follow the cases, and jobs are those of this case and earlier.
CaseOfStep ==
    /\ client \in {"before", "check"} => case = Len(results) + 1
    /\ client = "after" => case = Len(results)
    /\ \A j \in 1 .. Len(jobs) : jobs[j].case <= case

\* Who holds the lock: post() while it is past its wait, the thread from
\* acquire() to release().
LockHeld ==
    /\ lock = "http" <=> http = "locked"
    /\ worker \in {"work", "timeout", "verdict", "release"} => lock = "worker"

\* The job that judged the last case.
LastOf == IF results = <<>> THEN 0 ELSE results[Len(results)].of

Seen == {status.of, answer.of, LastOf}

\* Verdicts come from jobs that were processed.  A job that has a verdict and
\* may yet get another one holds the lock.
SeenDone ==
    /\ status.verdict = "" <=> status.of = 0
    /\ answer.verdict = "" <=> answer.of = 0
    /\ \A of \in Seen : of <= job
    /\ worker \in {"start", "lock", "work", "timeout"} => job \notin Seen
    /\ worker = "raise" /\ job \in Seen => lock = "worker"

\* The request that goes past the lock after a case was judged finds the job
\* that judged it finished.
PastLock ==
    \/ client \in {"before", "check"}
    \/ client = "after" /\ http \in {"put", "locked", "status", "json"}

\* The request after that carries off the last verdict that job left.
PastStatus ==
    \/ client \in {"before", "check"}
    \/ client = "after" /\ http = "json"

Newer ==
    /\ PastLock /\ worker \in {"verdict", "raise"} => LastOf < job
    /\ PastStatus /\ status.of > 0 => LastOf < status.of
    /\ client \in {"before", "check"} /\ answer.of > 0 => LastOf < answer.of

ResultsAdvance ==
    \A i \in 1 .. Len(results) :
        /\ results[i].of \in 1 .. job
        /\ jobs[results[i].of].case <= i
        /\ i > 1 => results[i - 1].of < results[i].of

VInv == CaseOfStep /\ LockHeld /\ SeenDone /\ Newer /\ ResultsAdvance

\* What the types say of the numbers compared here.
Numbers ==
    /\ job \in Nat /\ case \in Nat /\ LastOf \in Nat
    /\ status.of \in Nat /\ answer.of \in Nat
    /\ worker # "idle" => job > 0
    /\ results \in Seq(Status) /\ Len(results) \in Nat
    /\ Len(jobs) \in Nat /\ job <= Len(jobs)
    /\ \A j \in 1 .. Len(jobs) : jobs[j].case \in Nat

LEMMA TypedNumbers == TInv => Numbers
<1> SUFFICES ASSUME TInv
             PROVE  Numbers
  OBVIOUS
<1>1. job \in Nat /\ case \in Nat /\ (worker # "idle" => job > 0)
  BY DEF TInv, TypeOK, QueueIsRest
<1>2. results \in Seq(Status) /\ Len(results) \in Nat /\ \A s \in Status : s.of \in Nat
  BY DEF TInv, TypeOK, Status
<1>3. LastOf \in Nat
  <2>1. results # <<>> => results[Len(results)] \in Status
    BY <1>2
  <2>2. QED
    BY <1>2, <2>1 DEF LastOf
<1>4. status.of \in Nat /\ answer.of \in Nat
  BY <1>2 DEF TInv, TypeOK
<1>5. /\ Len(jobs) \in Nat /\ job <= Len(jobs)
      /\ \A j \in 1 .. Len(jobs) : jobs[j].case \in Nat
  <2>1. jobs \in Seq([step : Steps, case : 1 .. Cases]) /\ q \in Seq(1 .. MaxJobs)
    BY DEF TInv, TypeOK
  <2>2. Len(q) = Len(jobs) - job /\ Len(q) \in Nat /\ Len(jobs) \in Nat
    BY <2>1 DEF TInv, QueueIsRest
  <2>3. \A j \in 1 .. Len(jobs) : jobs[j] \in [step : Steps, case : 1 .. Cases]
    BY <2>1, ElementOfSeq
  <2>4. \A r \in [step : Steps, case : 1 .. Cases] : r.case \in Nat
    OBVIOUS
  <2>5. QED
    BY <1>1, <2>2, <2>3, <2>4
<1>6. QED
  BY <1>1, <1>2, <1>3, <1>4, <1>5 DEF Numbers

LEMMA AdvanceInit == Init => VInv
<1> SUFFICES ASSUME Init
             PROVE  VInv
  OBVIOUS
<1>1. Len(jobs) = 0 /\ Len(results) = 0 /\ LastOf = 0
  BY DEF Init, LastOf
<1>2. Seen = {0} /\ status.of = 0 /\ answer.of = 0
  BY <1>1 DEF Init, Seen, NoStatus
<1>3. SeenDone
  <2>1. status.verdict = "" /\ answer.verdict = "" /\ job = 0 /\ worker = "idle"
    BY DEF Init, NoStatus
  <2>2. \A of \in Seen : of <= job
    <3>1. 0 <= 0
      OBVIOUS
    <3>2. QED
      BY <1>2, <2>1, <3>1, Zenon
  <2>3. QED
    BY <1>2, <2>1, <2>2 DEF SeenDone
<1>4. QED
  BY <1>1, <1>2, <1>3 DEF VInv, CaseOfStep, LockHeld, Newer, ResultsAdvance, Init

\* Requests and the lock.
LEMMA AdvanceLock ==
    ASSUME TInv, VInv, Request \/ PostLooksAtLock \/ PostAcquires \/ PostReleases
    PROVE  VInv'
<1>1. Numbers
  BY TypedNumbers
<1>2. UNCHANGED <<client, case, results, jobs, status, answer, worker, job>>
  BY DEF Request, PostLooksAtLock, PostAcquires, PostReleases, clientVars, statusVars, workerVars
<1>3. LastOf' = LastOf /\ Seen' = Seen
  BY <1>2 DEF LastOf, Seen
<1>4. LockHeld' /\ (lock = "worker" => lock' = "worker")
  BY <1>2 DEF VInv, LockHeld, Request, PostLooksAtLock, PostAcquires, PostReleases
<1>5. SeenDone'
  BY <1>2, <1>3, <1>4 DEF VInv, SeenDone
<1>6. Newer'
  <2>1. ASSUME PastLock', worker' \in {"verdict", "raise"}
        PROVE  LastOf' < job'
    <3>1. CASE PastLock
      BY <1>2, <1>3, <2>1, <3>1 DEF VInv, Newer
    <3>2. CASE ~PastLock
      <4>1. lock = "free"
        BY <1>2, <2>1, <3>2 DEF PastLock, Request, PostLooksAtLock, PostAcquires, PostReleases
      <4>2. LastOf \in Seen /\ LastOf # job
        BY <1>2, <2>1, <4>1 DEF VInv, LockHeld, SeenDone, Seen
      <4>3. LastOf <= job
        BY <4>2 DEF VInv, SeenDone
      <4>4. QED
        BY <1>1, <1>2, <1>3, <4>2, <4>3 DEF Numbers
    <3>3. QED
      BY <3>1, <3>2
  <2>2. PastStatus' => PastStatus
    BY <1>2 DEF PastStatus, Request, PostLooksAtLock, PostAcquires, PostReleases
  <2>3. QED
    BY <1>2, <1>3, <2>1, <2>2 DEF VInv, Newer
<1>7. CaseOfStep' /\ ResultsAdvance'
  BY <1>2 DEF VInv, CaseOfStep, ResultsAdvance
<1>8. QED
  BY <1>4, <1>5, <1>6, <1>7 DEF VInv

\* A job is posted.
LEMMA AdvancePuts == ASSUME TInv, VInv, PostPuts PROVE VInv'
<1>1. Numbers
  BY TypedNumbers
<1>2. UNCHANGED <<client, case, results, status, answer, worker, job, lock>> /\ http' = "status"
  BY DEF PostPuts, clientVars, statusVars, workerVars
<1>3. LastOf' = LastOf /\ Seen' = Seen
  BY <1>2 DEF LastOf, Seen
<1>4. PICK j : j = [step |-> client, case |-> case]
  OBVIOUS
<1>5. /\ j.case = case /\ Len(jobs') = Len(jobs) + 1 /\ jobs'[Len(jobs) + 1] = j
      /\ \A k \in 1 .. Len(jobs) : jobs'[k] = jobs[k]
  <2>1. j \in [step : Steps, case : 1 .. Cases] /\ j.case = case
    <3>1. client \in Steps /\ case \in 1 .. Cases
      BY DEF PostPuts, TInv, TypeOK, Posting
    <3>2. QED
      BY <1>4, <3>1
  <2>2. jobs' = Append(jobs, j) /\ jobs \in Seq([step : Steps, case : 1 .. Cases])
    BY <1>4 DEF PostPuts, TInv, TypeOK
  <2>3. QED
    BY <2>1, <2>2, AppendProperties
<1>6. CaseOfStep'
  <2>1. \A k \in 1 .. Len(jobs') : k \in 1 .. Len(jobs) \/ k = Len(jobs) + 1
    BY <1>1, <1>5 DEF Numbers
  <2>2. \A k \in 1 .. Len(jobs') : jobs'[k].case <= case
    BY <1>1, <1>5, <2>1 DEF VInv, CaseOfStep, Numbers
  <2>3. QED
    BY <1>2, <2>2 DEF VInv, CaseOfStep
<1>7. ResultsAdvance'
  <2>1. ASSUME NEW i \in 1 .. Len(results)
        PROVE  jobs'[results[i].of] = jobs[results[i].of]
    <3>1. results[i].of \in 1 .. Len(jobs)
      BY <1>1 DEF VInv, ResultsAdvance, Numbers
    <3>2. QED
      BY <1>5, <3>1
  <2>2. QED
    BY <1>2, <2>1 DEF VInv, ResultsAdvance
<1>8. LockHeld' /\ SeenDone' /\ Newer'
  <2>1. http = "put"
    BY DEF PostPuts
  <2>2. QED
    BY <1>2, <1>3, <2>1 DEF VInv, LockHeld, SeenDone, Newer, PastLock, PastStatus
<1>9. QED
  BY <1>6, <1>7, <1>8 DEF VInv

\* The status is swapped for a new one.
LEMMA AdvanceStatus == ASSUME TInv, VInv, GetStatus PROVE VInv'
<1>1. Numbers
  BY TypedNumbers
<1>2. /\ UNCHANGED <<client, case, results, jobs, worker, job, lock>>
      /\ http = "status" /\ http' = "json" /\ answer' = status /\ status' = NoStatus
  BY DEF GetStatus, clientVars, workerVars
<1>3. LastOf' = LastOf /\ Seen' = {0, status.of, LastOf} /\ status'.of = 0 /\ status'.verdict = ""
  BY <1>2 DEF LastOf, Seen, NoStatus
<1>4. LockHeld'
  BY <1>2 DEF VInv, LockHeld
<1>5. SeenDone'
  <2>1. \A of \in Seen' : of = 0 \/ of \in Seen
    BY <1>3 DEF Seen
  <2>2. \A of \in Seen' : of <= job
    <3>1. 0 <= job
      BY <1>1 DEF Numbers
    <3>2. QED
      BY <2>1, <3>1, Zenon DEF VInv, SeenDone
  <2>3. worker # "idle" /\ job \in Seen' => job \in Seen
    BY <1>1, <2>1 DEF Numbers
  <2>4. QED
    BY <1>2, <1>3, <2>2, <2>3 DEF VInv, SeenDone
<1>6. Newer'
  <2>1. PastLock' => PastLock
    BY <1>2 DEF PastLock
  <2>2. PastLock' /\ worker' \in {"verdict", "raise"} => LastOf' < job'
    BY <1>2, <1>3, <2>1 DEF VInv, Newer
  <2>3. client' \in {"before", "check"} /\ answer'.of > 0 => LastOf' < answer'.of
    <3>1. client \in {"before", "check"} => PastStatus
      BY DEF PastStatus
    <3>2. PastStatus /\ status.of > 0 => LastOf < status.of
      BY DEF VInv, Newer
    <3>3. QED
      BY <1>2, <1>3, <3>1, <3>2, Zenon
  <2>4. ~(status'.of > 0)
    <3>1. ~(0 > 0)
      OBVIOUS
    <3>2. QED
      BY <1>3, <3>1, Zenon
  <2>5. QED
    BY <2>2, <2>3, <2>4 DEF Newer
<1>7. CaseOfStep' /\ ResultsAdvance'
  BY <1>2 DEF VInv, CaseOfStep, ResultsAdvance
<1>8. QED
  BY <1>4, <1>5, <1>6, <1>7 DEF VInv

\* The answer goes out: the case is judged, or Defensics goes on.
LEMMA AdvanceRespond == ASSUME TInv, VInv, Respond PROVE VInv'
<1>1. Numbers
  BY TypedNumbers
<1>2. /\ UNCHANGED <<jobs, worker, job, lock, status>>
      /\ http = "json" /\ http' = "idle" /\ answer' = NoStatus
  BY DEF Respond, workerVars
<1>3. answer'.of = 0 /\ answer'.verdict = ""
  BY <1>2 DEF NoStatus
<1>4. LockHeld'
  BY <1>2 DEF VInv, LockHeld
<1>5. CASE UNCHANGED results
  <2>1. /\ LastOf' = LastOf /\ client # "done" /\ client' \in {"before", "check", "done"}
        /\ client = "after" => case' = case + 1
        /\ client # "after" => client \in {"before", "check"} /\ client' = "check" /\ case' = case
    <3>1. \A s : Append(results, s) # results
      BY <1>1 DEF Numbers
    <3>2. QED
      BY <1>5, <3>1 DEF Respond, NextStep, LastOf, clientVars
  <2>2. PastLock /\ PastStatus
    BY <1>2, <2>1 DEF PastLock, PastStatus, Respond, NextStep
  <2>3. SeenDone'
    <3>1. \A of \in Seen' : of = 0 \/ of \in Seen
      BY <1>2, <1>3, <2>1 DEF Seen
    <3>2. \A of \in Seen' : of <= job
      <4>1. 0 <= job
        BY <1>1 DEF Numbers
      <4>2. QED
        BY <3>1, <4>1, Zenon DEF VInv, SeenDone
    <3>3. worker # "idle" /\ job \in Seen' => job \in Seen
      BY <1>1, <3>1 DEF Numbers
    <3>4. QED
      BY <1>2, <1>3, <3>2, <3>3 DEF VInv, SeenDone
  <2>4. Newer'
    <3>1. ~(answer'.of > 0)
      <4>1. ~(0 > 0)
        OBVIOUS
      <4>2. QED
        BY <1>3, <4>1, Zenon
    <3>2. QED
      BY <1>2, <2>1, <2>2, <3>1 DEF VInv, Newer
  <2>5. CaseOfStep'
    <3>1. \A j \in 1 .. Len(jobs) : jobs[j].case <= case'
      BY <1>1, <2>1 DEF VInv, CaseOfStep, Numbers
    <3>2. client' \in {"before", "check"} => case' = Len(results) + 1
      BY <2>1, <1>1 DEF VInv, CaseOfStep, Numbers, Respond, NextStep
    <3>3. QED
      BY <1>2, <1>5, <2>1, <3>1, <3>2 DEF CaseOfStep
  <2>6. ResultsAdvance'
    BY <1>2, <1>5 DEF VInv, ResultsAdvance
  <2>7. QED
    BY <1>4, <2>3, <2>4, <2>5, <2>6 DEF VInv
<1>6. CASE /\ client = "check" /\ answer.verdict # "" /\ client' = "after"
           /\ results' = Append(results, answer) /\ UNCHANGED case
  <2>1. /\ results \in Seq(Status) /\ Len(results') = Len(results) + 1 /\ results' # <<>>
        /\ results'[Len(results) + 1] = answer
        /\ \A i \in 1 .. Len(results) : results'[i] = results[i]
    <3>1. results \in Seq(Status) /\ answer \in Status
      BY DEF TInv, TypeOK
    <3>2. results' = Append(results, answer)
      BY <1>6
    <3>3. QED
      BY ONLY <3>1, <3>2, AppendProperties
  <2>2. LastOf' = answer.of
    BY <2>1 DEF LastOf
  <2>3. answer.of \in 1 .. job /\ LastOf < answer.of
    <3>1. answer.of # 0 /\ answer.of <= job
      BY <1>6 DEF VInv, SeenDone, Seen
    <3>2. answer.of \in Nat /\ job \in Nat
      BY <1>1 DEF Numbers
    <3>3. answer.of > 0
      BY <3>1, <3>2
    <3>4. LastOf < answer.of
      BY <1>6, <3>3 DEF VInv, Newer
    <3>5. QED
      BY <3>1, <3>2, <3>3, <3>4
  <2>4. SeenDone'
    <3>1. \A of \in Seen' : of = 0 \/ of \in Seen
      BY <1>2, <1>3, <2>2 DEF Seen
    <3>2. \A of \in Seen' : of <= job
      <4>1. 0 <= job
        BY <1>1 DEF Numbers
      <4>2. QED
        BY <3>1, <4>1, Zenon DEF VInv, SeenDone
    <3>3. worker # "idle" /\ job \in Seen' => job \in Seen
      BY <1>1, <3>1 DEF Numbers
    <3>4. QED
      BY <1>2, <1>3, <3>2, <3>3 DEF VInv, SeenDone
  <2>5. Newer'
    BY <1>2, <1>6 DEF Newer, PastLock, PastStatus
  <2>6. CaseOfStep'
    BY <1>1, <1>2, <1>6, <2>1 DEF VInv, CaseOfStep, Numbers
  <2>7. ResultsAdvance'
    <3>1. ASSUME NEW i \in 1 .. Len(results')
          PROVE  /\ results'[i].of \in 1 .. job
                 /\ jobs[results'[i].of].case <= i
                 /\ i > 1 => results'[i - 1].of < results'[i].of
      <4>1. CASE i \in 1 .. Len(results)
        <5>1. i > 1 => i - 1 \in 1 .. Len(results)
          BY <4>1
        <5>2. QED
          BY <2>1, <4>1, <5>1 DEF VInv, ResultsAdvance
      <4>2. CASE i = Len(results) + 1
        <5>1. results'[i] = answer
          BY <2>1, <4>2
        <5>2. jobs[answer.of].case <= i
          <6>1. answer.of \in 1 .. Len(jobs) /\ case = i
            <7>1. case = i
              BY <1>6, <4>2 DEF VInv, CaseOfStep
            <7>2. answer.of \in 1 .. Len(jobs)
              BY <1>1, <2>3 DEF Numbers
            <7>3. QED
              BY <7>1, <7>2
          <6>2. QED
            BY <6>1 DEF VInv, CaseOfStep
        <5>3. i > 1 => results'[i - 1] = results[Len(results)] /\ LastOf = results[Len(results)].of
          <6>1. i - 1 = Len(results)
            BY <1>1, <4>2 DEF Numbers
          <6>2. i > 1 => Len(results) \in 1 .. Len(results) /\ results # <<>>
            BY <1>1, <6>1 DEF Numbers
          <6>3. QED
            BY <2>1, <6>1, <6>2 DEF LastOf
        <5>4. QED
          BY <2>3, <5>1, <5>2, <5>3
      <4>3. QED
        BY <1>1, <2>1, <4>1, <4>2 DEF Numbers
    <3>2. QED
      BY <1>2, <3>1 DEF ResultsAdvance
  <2>8. QED
    BY <1>4, <2>4, <2>5, <2>6, <2>7 DEF VInv
<1>7. QED
  BY <1>5, <1>6 DEF Respond, NextStep, clientVars

\* The thread takes the next job, or is done with one it leaves alone.
LEMMA AdvanceGet ==
    ASSUME TInv, VInv, Get \/ Start \/ AcquireLock \/ ReleaseLock
    PROVE  VInv'
<1>1. Numbers
  BY TypedNumbers
<1>2. UNCHANGED <<client, case, results, http, jobs, status, answer>>
  BY DEF Get, Start, AcquireLock, ReleaseLock, clientVars, statusVars
<1>3. LastOf' = LastOf /\ Seen' = Seen
  BY <1>2 DEF LastOf, Seen
<1>4. \/ job' = job + 1 /\ worker' = "start" /\ lock' = lock /\ worker = "idle"
      \/ job' = job /\ lock' = lock /\ worker = "start" /\ worker' \in {"lock", "raise", "idle"}
      \/ job' = job /\ lock = "free" /\ lock' = "worker" /\ worker = "lock" /\ worker' = "work"
      \/ job' = job /\ lock' = "free" /\ worker = "release" /\ worker' = "idle"
  <2>1. Get => job' = job + 1
    <3>1. Get => /\ q \in Seq(Nat) /\ q # <<>> /\ job' = Head(q)
                 /\ \A k \in 1 .. Len(q) : q[k] = job + k
      BY DEF Get, TInv, TypeOK, QueueIsRest
    <3>2. QED
      BY <1>1, <3>1, CountOn DEF Numbers
  <2>2. CASE Get
    BY <2>1, <2>2 DEF Get
  <2>3. CASE Start \/ AcquireLock \/ ReleaseLock
    BY <2>3 DEF Start, Reaches, AcquireLock, ReleaseLock
  <2>4. QED
    BY <2>2, <2>3
<1>5. job' >= job /\ job' \in Nat
  BY <1>1, <1>4 DEF Numbers
<1>6. LockHeld'
  BY <1>2, <1>4 DEF VInv, LockHeld
<1>7. SeenDone'
  <2>1. \A of \in Seen : of <= job /\ of \in Nat
    BY <1>1 DEF VInv, SeenDone, Numbers, Seen
  <2>2. \A of \in Seen : of <= job'
    BY <1>1, <1>5, <2>1 DEF Numbers
  <2>3. job' = job + 1 => job' \notin Seen
    BY <1>1, <2>1 DEF Numbers
  <2>4. worker \in {"start", "lock"} => job \notin Seen
    BY DEF VInv, SeenDone
  <2>5. /\ worker' \in {"start", "lock", "work", "timeout"} => job' \notin Seen
        /\ worker' = "raise" => job' \notin Seen
    BY <1>4, <2>3, <2>4
  <2>6. QED
    BY <1>2, <1>3, <2>2, <2>5 DEF VInv, SeenDone
<1>8. Newer'
  <2>1. worker' \in {"verdict", "raise"} => LastOf < job'
    <3>1. worker' \in {"verdict", "raise"} => worker = "start" /\ job' = job
      BY <1>4
    <3>2. worker = "start" => LastOf # job /\ LastOf <= job
      BY DEF VInv, SeenDone, Seen
    <3>3. QED
      BY <1>1, <3>1, <3>2 DEF Numbers
  <2>2. QED
    BY <1>2, <1>3, <2>1 DEF VInv, Newer, PastLock, PastStatus
<1>9. CaseOfStep'
  BY <1>2 DEF VInv, CaseOfStep
<1>10. ResultsAdvance'
  <2>1. \A of : of \in 1 .. job => of \in 1 .. job'
    BY <1>1, <1>5 DEF Numbers
  <2>2. QED
    BY <1>2, <2>1 DEF VInv, ResultsAdvance
<1>11. QED
  BY <1>6, <1>7, <1>8, <1>9, <1>10 DEF VInv

\* A step with the lock held that gives no verdict.
LEMMA AdvanceWork ==
    ASSUME TInv, VInv,
           \/ \E ok \in BOOLEAN : RunCase(ok)
           \/ \E h \in {"ok", "timeout", "error"} : CheckHealth(h)
    PROVE  VInv'
<1>1. Numbers
  BY TypedNumbers
<1>2. /\ UNCHANGED <<client, case, results, http, jobs, status, answer, lock, job>>
      /\ worker = "work" /\ worker' \in {"release", "raise", "timeout", "verdict"}
  BY DEF RunCase, CheckHealth, Reaches, clientVars
<1>3. LastOf' = LastOf /\ Seen' = Seen
  BY <1>2 DEF LastOf, Seen
<1>4. lock = "worker" /\ job \notin Seen /\ LastOf < job
  <2>1. lock = "worker" /\ job \notin Seen /\ LastOf # job /\ LastOf <= job
    BY <1>2 DEF VInv, LockHeld, SeenDone, Seen
  <2>2. QED
    BY <1>1, <2>1 DEF Numbers
<1>5. LockHeld' /\ SeenDone'
  BY <1>2, <1>3, <1>4 DEF VInv, LockHeld, SeenDone
<1>6. Newer'
  BY <1>2, <1>3, <1>4 DEF VInv, Newer, PastLock, PastStatus
<1>7. CaseOfStep' /\ ResultsAdvance'
  BY <1>2 DEF VInv, CaseOfStep, ResultsAdvance
<1>8. QED
  BY <1>5, <1>6, <1>7 DEF VInv

\* A verdict is given: to the status of now, or to the one on its way out.
LEMMA AdvanceVerdict ==
    ASSUME TInv, VInv, HealthTimeout \/ HealthFinally \/ Raised
    PROVE  VInv'
<1>1. Numbers
  BY TypedNumbers
<1>2. /\ UNCHANGED <<client, case, results, http, jobs, lock, job>>
      /\ worker \in {"timeout", "verdict", "raise"}
      /\ \/ worker = "timeout" /\ worker' = "verdict"
         \/ worker = "verdict" /\ worker' \in {"raise", "release"}
         \/ worker = "raise" /\ worker' = "idle"
  BY DEF HealthTimeout, HealthFinally, Raised, Reaches, clientVars
<1>3. PICK v \in {"success", "fail"} : Verdict(v)
  BY DEF HealthTimeout, HealthFinally, Raised
<1>4. PICK s : s = [verdict |-> v, of |-> job]
  OBVIOUS
<1>5. /\ s.verdict # "" /\ s.of = job /\ job > 0 /\ job \in Nat
      /\ status' \in {status, s} /\ answer' \in {answer, s}
  BY <1>1, <1>2, <1>3, <1>4, TypeVerdict DEF Numbers
<1>6. LastOf' = LastOf /\ \A of \in Seen' : of \in Seen \/ of = job
  BY <1>2, <1>5 DEF LastOf, Seen
<1>7. LockHeld'
  BY <1>2 DEF VInv, LockHeld
<1>8. SeenDone'
  <2>1. worker' = "raise" => lock = "worker"
    BY <1>2 DEF VInv, LockHeld
  <2>2. \A of \in Seen' : of <= job
    <3>1. job <= job
      BY <1>1 DEF Numbers
    <3>2. QED
      BY <1>6, <3>1, Zenon DEF VInv, SeenDone
  <2>3. /\ status'.verdict = "" <=> status'.of = 0
        /\ answer'.verdict = "" <=> answer'.of = 0
    <3>1. s.of # 0
      <4>1. job # 0
        BY <1>1, <1>2 DEF Numbers
      <4>2. QED
        BY <1>5, <4>1, Zenon
    <3>2. QED
      BY <1>5, <3>1 DEF VInv, SeenDone
  <2>4. QED
    BY <1>2, <2>1, <2>2, <2>3 DEF SeenDone
<1>9. Newer'
  <2>1. PastLock => LastOf < job
    <3>1. worker = "timeout" => LastOf # job /\ LastOf <= job
      BY DEF VInv, SeenDone, Seen
    <3>2. QED
      BY <1>1, <1>2, <3>1 DEF VInv, Newer, Numbers
  <2>2. PastLock' = PastLock /\ PastStatus' = PastStatus /\ (PastStatus => PastLock)
    BY <1>2 DEF PastLock, PastStatus
  <2>3. PastStatus' /\ status'.of > 0 => LastOf' < status'.of
    BY <1>5, <1>6, <2>1, <2>2 DEF VInv, Newer
  <2>4. client' \in {"before", "check"} /\ answer'.of > 0 => LastOf' < answer'.of
    BY <1>2, <1>5, <1>6, <2>1 DEF VInv, Newer, PastLock
  <2>5. QED
    BY <1>2, <1>6, <2>1, <2>2, <2>3, <2>4 DEF Newer
<1>10. CaseOfStep' /\ ResultsAdvance'
  BY <1>2 DEF VInv, CaseOfStep, ResultsAdvance
<1>11. QED
  BY <1>7, <1>8, <1>9, <1>10 DEF VInv

LEMMA AdvanceStep == TInv /\ VInv /\ [Next]_vars => VInv'
<1> SUFFICES ASSUME TInv, VInv, [Next]_vars
             PROVE  VInv'
  OBVIOUS
<1>1. CASE Request \/ HttpSteps
  BY <1>1, AdvanceLock, AdvancePuts, AdvanceStatus, AdvanceRespond DEF HttpSteps
<1>2. CASE Worker
  BY <1>2, AdvanceGet, AdvanceWork, AdvanceVerdict DEF Worker
<1>3. CASE UNCHANGED vars
  <2>1. UNCHANGED <<client, case, results, http, jobs, lock, status, answer, worker, job>>
    BY <1>3 DEF vars, clientVars, statusVars, workerVars
  <2>2. LastOf' = LastOf /\ Seen' = Seen /\ PastLock' = PastLock /\ PastStatus' = PastStatus
    BY <2>1 DEF LastOf, Seen, PastLock, PastStatus
  <2>3. CaseOfStep' /\ LockHeld' /\ ResultsAdvance'
    BY <2>1 DEF VInv, CaseOfStep, LockHeld, ResultsAdvance
  <2>4. SeenDone' /\ Newer'
    BY <2>1, <2>2 DEF VInv, SeenDone, Newer
  <2>5. QED
    BY <2>3, <2>4 DEF VInv
<1>4. QED
  BY <1>1, <1>2, <1>3 DEF Next

\* Verdicts advance with the jobs: no case is judged by the verdict an earlier
\* case was judged by, nor by that of an older job, for any run of Defensics
\* and however the thread of the handler falls behind its requests.
THEOREM VerdictsAdvanceCorrect == Spec => []VerdictsAdvance
<1>1. VInv => VerdictsAdvance
  BY DEF VInv, ResultsAdvance, VerdictsAdvance
<1>2. Spec => []VInv
  BY AdvanceInit, AdvanceStep, TInvCorrect, PTL DEF Spec
<1>3. QED
  BY <1>1, <1>2, PTL
=============================================================================
