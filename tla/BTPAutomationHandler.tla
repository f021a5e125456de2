------------------------- MODULE BTPAutomationHandler -------------------------
(***************************************************************************)
(* defensics/btp_automation_handler.py with the HTTP server and client     *)
(* around it.  For every case Defensics runs the client script once per    *)
(* instrumentation step; each request posts a job to the queue of the      *)
(* handler's thread (worker) and carries the current status away.  The     *)
(* "as-instrumentation" script repeats its request until the status holds  *)
(* a verdict.                                                              *)
(*                                                                         *)
(* The steps are "before" (set the IUT up and run the handler of the test  *)
(* group), "check" (as-instrumentation: is the IUT alive?) and "after",    *)
(* which stands for all the steps process() ignores.  A verdict keeps the  *)
(* job it comes from, which the program does not record.                   *)
(***************************************************************************)
EXTENDS Naturals, Sequences

CONSTANTS
    Cases,       \* bound: cases of the Defensics run
    MaxJobs      \* bound: requests Defensics makes

ASSUME BoundsAssumption == Cases \in Nat \ {0} /\ MaxJobs \in Nat

VARIABLES
    client,      \* the step Defensics is at
    case,        \* the case it is running
    results,     \* the verdict each finished case got
    http,        \* where do_POST() is
    jobs,        \* history: every job posted
    q,           \* self.q, as positions in jobs
    lock,        \* who holds self.processing_lock
    status,      \* self.status
    answer,      \* the status get_status() has swapped out
    worker,      \* where the handler's thread is
    job,         \* the job it is processing
    health,      \* what its health check found
    held,        \* where the status object is that it may have loaded
    died         \* history: jobs left by an exception with the lock held

clientVars == <<client, case, results>>
statusVars == <<status, answer, held>>
workerVars == <<worker, job, health, died>>
vars == <<clientVars, http, jobs, q, lock, statusVars, workerVars>>

Steps == {"before", "check", "after"}
Verdicts == {"", "success", "fail"}
NoStatus == [verdict |-> "", of |-> 0]
Status == [verdict : Verdicts, of : 0 .. MaxJobs]

TypeOK ==
    /\ client \in Steps \cup {"done"}
    /\ case \in 1 .. Cases + 1
    /\ results \in Seq(Status)
    /\ http \in {"idle", "post", "wait", "locked", "put", "status", "json"}
    /\ jobs \in Seq([step : Steps, case : 1 .. Cases])
    /\ q \in Seq(1 .. MaxJobs)
    /\ lock \in {"free", "http", "worker"}
    /\ status \in Status /\ answer \in Status
    /\ held \in {"self", "answer", "sent"}
    /\ worker \in {"idle", "start", "lock", "work", "timeout", "verdict", "release", "raise"}
    /\ job \in 0 .. MaxJobs
    /\ health \in {"none", "ok", "timeout", "error"}
    /\ died \in SUBSET (1 .. MaxJobs)

Init ==
    /\ client = "before" /\ case = 1 /\ results = <<>>
    /\ http = "idle"
    /\ jobs = <<>> /\ q = <<>>
    /\ lock = "free"
    /\ status = NoStatus /\ answer = NoStatus /\ held = "self"
    /\ worker = "idle" /\ job = 0 /\ health = "none" /\ died = {}

-----------------------------------------------------------------------------
\* Defensics, its client script, and do_POST() of the server they talk to.

Request ==
    /\ http = "idle" /\ client # "done"
    /\ Len(jobs) < MaxJobs
    /\ http' = "post"
    /\ UNCHANGED <<clientVars, jobs, q, lock, statusVars, workerVars>>

\* if self.processing_lock.locked()
PostLooksAtLock ==
    /\ http = "post"
    /\ http' = IF lock = "free" THEN "put" ELSE "wait"
    /\ UNCHANGED <<clientVars, jobs, q, lock, statusVars, workerVars>>

PostAcquires ==
    /\ http = "wait" /\ lock = "free"
    /\ lock' = "http"
    /\ http' = "locked"
    /\ UNCHANGED <<clientVars, jobs, q, statusVars, workerVars>>

\* Mutant: post() keeps the lock it has waited for.
PostKeepsLock ==
    /\ http = "locked"
    /\ http' = "put"
    /\ UNCHANGED <<clientVars, jobs, q, lock, statusVars, workerVars>>

PostReleases ==
    /\ http = "locked"
    /\ lock' = "free"
    /\ http' = "put"
    /\ UNCHANGED <<clientVars, jobs, q, statusVars, workerVars>>

\* Mutant: the queue gets the request before this one.
PostPutsPrevious ==
    /\ http = "put"
    /\ jobs' = Append(jobs, [step |-> client, case |-> case])
    /\ q' = Append(q, Len(jobs))
    /\ http' = "status"
    /\ UNCHANGED <<clientVars, lock, statusVars, workerVars>>

\* The queue has no maximum size: put_nowait() does not raise Full.
PostPuts ==
    /\ http = "put"
    /\ jobs' = Append(jobs, [step |-> client, case |-> case])
    /\ q' = Append(q, Len(jobs'))
    /\ http' = "status"
    /\ UNCHANGED <<clientVars, lock, statusVars, workerVars>>

\* What the script does with the answer: as-instrumentation asks again until
\* there is a verdict, any other step lets Defensics go on.
NextStep(s) ==
    \/ /\ client = "before"
       /\ client' = "check"
       /\ UNCHANGED <<case, results>>
    \/ /\ client = "check" /\ s.verdict = ""
       /\ UNCHANGED clientVars
    \/ /\ client = "check" /\ s.verdict # ""
       /\ results' = Append(results, s)
       /\ client' = "after"
       /\ UNCHANGED case
    \/ /\ client = "after"
       /\ case' = case + 1
       /\ client' = IF case = Cases THEN "done" ELSE "before"
       /\ UNCHANGED results

\* Mutant: get_status() does not replace the status it returns.
GetStatusKeeps ==
    /\ http = "status"
    /\ answer' = status
    /\ http' = "json"
    /\ UNCHANGED <<clientVars, jobs, q, lock, status, held, workerVars>>

\* get_status() swaps the status for a new one.
GetStatus ==
    /\ http = "status"
    /\ answer' = status
    /\ status' = NoStatus
    /\ held' = IF held = "self" THEN "answer" ELSE held
    /\ http' = "json"
    /\ UNCHANGED <<clientVars, jobs, q, lock, workerVars>>

\* to_json(), and the answer goes out.
Respond ==
    /\ http = "json"
    /\ NextStep(answer)
    /\ answer' = NoStatus
    /\ held' = IF held = "answer" THEN "sent" ELSE held
    /\ http' = "idle"
    /\ UNCHANGED <<jobs, q, lock, status, workerVars>>

HttpSteps ==
    \/ PostLooksAtLock
    \/ PostAcquires
    \/ PostReleases
    \/ PostPuts
    \/ GetStatus
    \/ Respond

-----------------------------------------------------------------------------
\* The handler's thread: run() and process().

\* self.status.verdict = v, in two steps: the object is loaded somewhere after
\* the step before this one (Reaches), so it may be the status of now or that
\* of then, which may be on its way to the client or gone.
Reaches(next) == worker' = next /\ held' = "self"

Verdict(v) ==
    LET s == [verdict |-> v, of |-> job]
    IN  \/ status' = s /\ UNCHANGED answer
        \/ held = "answer" /\ answer' = s /\ UNCHANGED status
        \/ held = "sent" /\ UNCHANGED <<status, answer>>

Get ==
    /\ worker = "idle" /\ q # <<>>
    /\ job' = Head(q)
    /\ q' = Tail(q)
    /\ worker' = "start"
    /\ health' = "none"
    /\ UNCHANGED <<clientVars, http, jobs, lock, statusVars, died>>

\* process() looks at the step; a test group nobody handles raises at once.
Start ==
    /\ worker = "start"
    /\ \/ /\ jobs[job].step \in {"before", "check"}
          /\ Reaches("lock")
       \/ /\ jobs[job].step = "before"
          /\ Reaches("raise")
       \/ /\ jobs[job].step = "after"
          /\ Reaches("idle")
    /\ UNCHANGED <<clientVars, http, jobs, q, lock, status, answer, job, health, died>>

\* Mutant: the result of a non-blocking acquire() is ignored.
AcquireAnyway ==
    /\ worker = "lock"
    /\ lock' = "worker"
    /\ worker' = "work"
    /\ UNCHANGED <<clientVars, http, jobs, q, statusVars, job, health, died>>

AcquireLock ==
    /\ worker = "lock" /\ lock = "free"
    /\ lock' = "worker"
    /\ worker' = "work"
    /\ UNCHANGED <<clientVars, http, jobs, q, statusVars, job, health, died>>

\* test_case_setup(), the handler and test_case_teardown(); whatever they
\* raise leaves process() with the lock still held.
RunCase(ok) ==
    /\ worker = "work" /\ jobs[job].step = "before"
    /\ Reaches(IF ok THEN "release" ELSE "raise")
    /\ UNCHANGED <<clientVars, http, jobs, q, lock, status, answer, job, health, died>>

\* test_case_check_health()
CheckHealth(h) ==
    /\ worker = "work" /\ jobs[job].step = "check"
    /\ health' = h
    /\ Reaches(IF h = "timeout" THEN "timeout" ELSE "verdict")
    /\ UNCHANGED <<clientVars, http, jobs, q, lock, status, answer, job, died>>

\* except socket.timeout: the IUT did not answer.
HealthTimeout ==
    /\ worker = "timeout"
    /\ Verdict("fail")
    /\ Reaches("verdict")
    /\ UNCHANGED <<clientVars, http, jobs, q, lock, job, health, died>>

\* The finally clause runs however the health check ended; an exception other
\* than the timeout then goes on its way.
HealthFinally ==
    /\ worker = "verdict"
    /\ Verdict("success")
    /\ Reaches(IF health = "error" THEN "raise" ELSE "release")
    /\ UNCHANGED <<clientVars, http, jobs, q, lock, job, health, died>>

\* Mutant: process() returns without releasing the lock.
ReleaseForgotten ==
    /\ worker = "release"
    /\ worker' = "idle"
    /\ UNCHANGED <<clientVars, http, jobs, q, lock, statusVars, job, health, died>>

ReleaseLock ==
    /\ worker = "release"
    /\ lock' = "free"
    /\ worker' = "idle"
    /\ UNCHANGED <<clientVars, http, jobs, q, statusVars, job, health, died>>

\* The except clauses of run(): a verdict, and on to the next item.
Raised ==
    /\ worker = "raise"
    /\ Verdict("fail")
    /\ died' = IF lock = "worker" THEN died \cup {job} ELSE died
    /\ Reaches("idle")
    /\ UNCHANGED <<clientVars, http, jobs, q, lock, job, health>>

Worker ==
    \/ Get
    \/ Start
    \/ AcquireLock
    \/ \E ok \in BOOLEAN : RunCase(ok)
    \/ \E h \in {"ok", "timeout", "error"} : CheckHealth(h)
    \/ HealthTimeout
    \/ HealthFinally
    \/ ReleaseLock
    \/ Raised

Next == Request \/ HttpSteps \/ Worker

Spec == Init /\ [][Next]_vars

\* Both threads run and Defensics asks on.  A lock that stays free is granted.
FairSpec ==
    /\ Spec
    /\ WF_vars(Worker)
    /\ WF_vars(HttpSteps)
    /\ WF_vars(Request)

-----------------------------------------------------------------------------
\* Every request is answered, unless a step has died with the lock held.
RequestAnswered == (http # "idle") ~> (http = "idle" \/ died # {})

\* Once its requests are answered the handler finishes what they posted: a
\* queued job does not stay behind.
QueueDrains == (q # <<>>) ~> (q = <<>> \/ died # {})

\* Verdicts advance with the jobs: no case is judged by the verdict an earlier
\* case was judged by, nor by that of an older job.  (It may be judged by a
\* surplus as-instrumentation job of the case before it.)
VerdictsAdvance ==
    \A i \in 1 .. Len(results) :
        LET of == results[i].of
        IN  jobs[of].case <= i /\ (i > 1 => results[i - 1].of < of)

-----------------------------------------------------------------------------
\* post(): "If we receive next step and we are still processing previous step
\* then we should wait for it to finish": a wait there ends.
PostWaitEnds == (http = "wait") ~> (http # "wait")

\* process(): "if IUT haven't sent response at all means it crashed": when the
\* step is over, the verdict of a health check without a response is "fail".
CrashIsReported ==
    worker = "release" /\ health = "timeout" /\ status.of = job
        => status.verdict = "fail"

=============================================================================
