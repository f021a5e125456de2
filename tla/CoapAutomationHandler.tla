------------------------- MODULE CoapAutomationHandler -------------------------
(***************************************************************************)
(* The CoAP automation of Defensics: coap_automation_handler.py and the    *)
(* data thread of tcp_data_handler.py, with the HTTP server and client of  *)
(* BTPAutomationHandler around them.  Defensics talks CoAP to the data     *)
(* thread over TCP, which passes it on to the IUT through BlueZ (proxy)    *)
(* and collects errors; the handler's thread (worker) judges a case by     *)
(* that list.                                                              *)
(*                                                                         *)
(* As coap_config.py has it, crash detection, btmon and the serial log are *)
(* off.  What the packets hold is left out; an error is a number, that of  *)
(* the lock 0, and a verdict keeps the errors it comes from, which the     *)
(* program does not.                                                       *)
(***************************************************************************)
EXTENDS Naturals, Sequences

CONSTANTS
    Cases,       \* bound: cases of the Defensics run
    MaxQueue,    \* bound: jobs Defensics lets pile up
    MaxErrors    \* bound: errors of the data thread and exceptions of steps

ASSUME BoundsAssumption ==
    Cases \in Nat \ {0} /\ MaxQueue \in Nat \ {0} /\ MaxErrors \in Nat

VARIABLES
    client,      \* the step Defensics is at
    case,        \* the case it is running
    results,     \* the verdict each finished case got
    http,        \* where do_POST() is
    q,           \* self.q
    lock,        \* who holds self.processing_lock
    robbed,      \* history: the finally clause of run() has released it unheld
    status,      \* self.status
    answer,      \* the status get_status() has swapped out
    held,        \* where the status object is that the worker may have loaded
    worker,      \* where the handler's thread is
    job,         \* the step it is processing
    found,       \* the errors its check has found, or its exception
    data,        \* where the data thread is
    resume,      \* where it goes on once it has recorded an error
    ready,       \* proxy.ready
    errors,      \* data_handler.errors
    adding,      \* the error it is appending to the list it has loaded
    kept,        \* which is still the one in use
    recorded,    \* history: how many errors there have been
    lost,        \* history: errors no case is to be judged by
    tcp          \* the server's socket

clientVars == <<client, case, results>>
lockVars == <<lock, robbed>>
statusVars == <<status, answer, held>>
workerVars == <<worker, job, found>>
listVars == <<errors, adding, kept>>
errorVars == <<listVars, recorded, lost>>
threadVars == <<data, resume, ready, tcp>>
dataVars == <<threadVars, errorVars>>
vars == <<clientVars, http, q, lockVars, statusVars, workerVars, dataVars>>

Steps == {"before-run", "before-case", "check", "fail", "after-case", "after-run"}
Verdicts == {"", "success", "fail"}
Status == [verdict : Verdicts, errs : SUBSET (0 .. MaxErrors)]
NoStatus == [verdict |-> "", errs |-> {}]

TypeOK ==
    /\ client \in Steps \cup {"test", "done"}
    /\ case \in 1 .. Cases
    /\ results \in Seq(Status) /\ Len(results) <= Cases
    /\ http \in {"idle", "wait", "locked", "put", "status", "json", "raised"}
    /\ q \in Seq(Steps) /\ Len(q) <= MaxQueue
    /\ lock \in {"free", "http", "worker"} /\ robbed \in BOOLEAN
    /\ status \in Status /\ answer \in Status
    /\ held \in {"self", "answer", "sent"}
    /\ worker \in {"idle", "lock", "work", "ready", "reset", "verdict", "release",
                   "raise", "finally", "letgo", "dead", "killed"}
    /\ job \in Steps \cup {"none"}
    /\ found \subseteq 0 .. MaxErrors
    /\ data \in {"off", "run", "accept", "recv", "send", "append", "restart",
                 "reaccept", "refail", "dead"}
    /\ resume \in {"accept", "recv", "restart"}
    /\ ready \in BOOLEAN /\ kept \in BOOLEAN
    /\ recorded \in 0 .. MaxErrors
    /\ errors \subseteq 1 .. recorded /\ adding \in 0 .. recorded
    /\ lost \subseteq 1 .. MaxErrors
    /\ tcp \in {"closed", "listening", "up", "rst"}
    /\ tcp = "listening" <=> data \in {"accept", "reaccept", "refail"}
    /\ ~kept => data = "append"
    /\ data = "append" <=> adding # 0

Init ==
    /\ client = "before-run" /\ case = 1 /\ results = <<>>
    /\ http = "idle" /\ q = <<>>
    /\ lock = "free" /\ robbed = FALSE
    /\ status = NoStatus /\ answer = NoStatus /\ held = "self"
    /\ worker = "idle" /\ job = "none" /\ found = {}
    /\ data = "off" /\ resume = "recv" /\ ready = FALSE
    /\ errors = {} /\ adding = 0 /\ kept = TRUE
    /\ recorded = 0 /\ lost = {}
    /\ tcp = "closed"

-----------------------------------------------------------------------------
\* Defensics and its client script.

Running == worker # "killed"

\* do_POST() and the look of post() at the lock.
Request ==
    /\ Running /\ http = "idle" /\ client \in Steps /\ Len(q) < MaxQueue
    /\ http' = IF lock = "free" THEN "put" ELSE "wait"
    /\ UNCHANGED <<clientVars, q, lockVars, statusVars, workerVars, dataVars>>

\* What Defensics does when the script has ended.
Judged(s) ==
    /\ results' = Append(results, s)
    /\ client' = IF s.verdict = "fail" THEN "fail" ELSE "after-case"
    /\ UNCHANGED case

NextStep ==
    /\ client' = CASE client = "before-run" -> "before-case"
                   [] client = "before-case" -> "test"
                   [] client = "fail" -> "after-case"
                   [] client = "after-case" /\ case < Cases -> "before-case"
                   [] client = "after-case" /\ case = Cases -> "after-run"
                   [] client = "after-run" -> "done"
    /\ case' = IF client = "after-case" /\ case < Cases THEN case + 1 ELSE case
    /\ UNCHANGED results

\* A test case: Defensics connects unless it still is, sends what Receive takes
\* and goes on when it likes, answered or not.
Connect ==
    /\ Running /\ client = "test"
    /\ tcp = "listening" /\ data \in {"accept", "reaccept", "refail"}
    /\ tcp' = "up"
    \* TCPServer.recv() has accepted anew, but has no data to return
    /\ data' = IF data = "refail" THEN "dead" ELSE "recv"
    /\ UNCHANGED <<clientVars, http, q, lockVars, statusVars, workerVars,
                   resume, ready, errorVars>>

EndCase(drop) ==
    /\ Running /\ client = "test"
    /\ client' = "check"
    /\ tcp' = IF tcp = "up" THEN drop ELSE tcp
    /\ UNCHANGED <<case, results, http, q, lockVars, statusVars, workerVars,
                   data, resume, ready, errorVars>>

-----------------------------------------------------------------------------
\* The rest of do_POST(), in the thread of the HTTP server.

httpKeeps == <<statusVars, workerVars, dataVars>>

PostAcquires ==
    /\ Running /\ http = "wait" /\ lock = "free"
    /\ lock' = "http"
    /\ http' = "locked"
    /\ UNCHANGED <<clientVars, q, robbed, httpKeeps>>

\* Mutant: post() keeps the lock it has waited for.
PostKeepsLock ==
    /\ Running /\ http = "locked"
    /\ http' = "put"
    /\ UNCHANGED <<clientVars, q, lockVars, httpKeeps>>

\* The lock may be another's by now, and is released all the same; a lock that
\* is free raises RuntimeError.
PostReleases ==
    /\ Running /\ http = "locked"
    /\ http' = IF lock = "free" THEN "raised" ELSE "put"
    /\ lock' = "free"
    /\ UNCHANGED <<clientVars, q, robbed, httpKeeps>>

PostPuts ==
    /\ Running /\ http = "put"
    /\ q' = Append(q, client)
    /\ http' = "status"
    /\ UNCHANGED <<clientVars, lockVars, httpKeeps>>

\* The worker has loaded the status, perhaps, and not yet written to it.
Loaded == worker \in {"verdict", "raise"}

\* get_status() swaps the status for a new one.
GetStatus ==
    /\ Running /\ http = "status"
    /\ answer' = status
    /\ status' = NoStatus
    /\ held' = IF Loaded /\ held = "self" THEN "answer" ELSE held
    /\ http' = "json"
    /\ UNCHANGED <<clientVars, q, lockVars, workerVars, dataVars>>

\* to_json(), and the answer goes out; as-instrumentation asks again until there
\* is a verdict.
Respond ==
    /\ Running /\ http = "json"
    /\ \/ client # "check" /\ NextStep
       \/ client = "check" /\ answer.verdict # "" /\ Judged(answer)
       \/ client = "check" /\ answer.verdict = "" /\ UNCHANGED clientVars
    /\ answer' = NoStatus
    /\ held' = IF held = "answer" THEN "sent" ELSE held
    /\ http' = "idle"
    /\ UNCHANGED <<q, lockVars, status, workerVars, dataVars>>

\* No response: the script reports a failure, whatever verdict was on its way.
NoResponse ==
    /\ Running /\ http = "raised"
    /\ \/ client # "check" /\ NextStep /\ UNCHANGED lost
       \/ /\ client = "check" /\ Judged([verdict |-> "fail", errs |-> {0}])
          /\ lost' = lost \cup (status.errs \ {0})
    /\ http' = "idle"
    /\ UNCHANGED <<q, lockVars, statusVars, workerVars, threadVars, listVars, recorded>>

HttpSteps ==
    \/ PostAcquires
    \/ PostReleases
    \/ PostPuts
    \/ GetStatus
    \/ Respond
    \/ NoResponse

-----------------------------------------------------------------------------
\* The worker: run() and process().

workerKeeps == <<clientVars, http>>

\* self.status.verdict = v: the status is loaded somewhere after the step before
\* this one (Reaches), so it may be on its way to the client or gone.  The name of
\* the step is not looked at again.
Reaches(next) == worker' = next /\ held' = "self" /\ job' = "none"

Write(s, v) == [verdict |-> v, errs |-> IF v = "fail" THEN s.errs \cup found ELSE {}]

\* The case that waits for a verdict does not have one in its answer.
Waiting == client = "check" /\ (http = "json" => answer.verdict = "")

\* Lost are the errors that a success replaces, that no case waits for or that
\* come when the status is sent.
Lose(errs) == lost' = lost \cup (errs \ {0})

Verdict(v) ==
    \/ /\ status' = Write(status, v) /\ UNCHANGED answer
       /\ Lose(IF v = "success" THEN status.errs ELSE IF Waiting THEN {} ELSE found)
    \/ /\ held = "answer" /\ answer' = Write(answer, v) /\ UNCHANGED status
       /\ Lose(IF v = "success" THEN answer.errs ELSE IF client = "check" THEN {} ELSE found)
    \/ /\ held = "sent" /\ UNCHANGED <<status, answer>>
       /\ Lose(found)

verdictKeeps == <<workerKeeps, q, lockVars, threadVars, listVars, recorded>>

\* An exception of process()
Raise ==
    /\ recorded < MaxErrors
    /\ recorded' = recorded + 1 /\ found' = {recorded + 1}
    /\ Reaches("raise")

Get ==
    /\ worker = "idle" /\ q # <<>>
    /\ job' = Head(q) /\ q' = Tail(q)
    /\ worker' = "lock"
    /\ UNCHANGED <<workerKeeps, lockVars, statusVars, found, dataVars>>

AcquireLock ==
    /\ worker = "lock" /\ lock = "free"
    /\ lock' = "worker"
    /\ worker' = "work"
    /\ UNCHANGED <<workerKeeps, q, robbed, statusVars, job, found, dataVars>>

\* Every step looks up CODE_SUITE and CODE_TEST_GROUP before it takes the lock.
LacksParameters ==
    /\ worker = "lock" /\ Raise
    /\ UNCHANGED <<workerKeeps, q, lockVars, status, answer, threadVars, listVars, lost>>

\* before-run starts the data thread and, unless a version is missing or mkdir()
\* fails, waits for the proxy to be ready.
BeforeRun(ok) ==
    /\ worker = "work" /\ job = "before-run"
    /\ data' = "run"
    /\ IF ok THEN worker' = "ready" /\ UNCHANGED <<job, held, found, recorded>> ELSE Raise
    /\ UNCHANGED <<workerKeeps, q, lockVars, status, answer, resume, ready, tcp,
                   listVars, lost>>

ProxyReady ==
    /\ worker = "ready" /\ ready
    /\ Reaches("release")
    /\ UNCHANGED <<workerKeeps, q, lockVars, status, answer, found, dataVars>>

\* before-case, which looks up CODE_TEST_CASE, after-case and the reset of the IUT
\* in instrument-fail, by a command that may be missing
OtherStep(ok) ==
    /\ worker = "work" /\ job \in {"before-case", "fail", "after-case"}
    /\ IF ok THEN Reaches("release") /\ UNCHANGED <<found, recorded>>
             ELSE job # "after-case" /\ Raise
    /\ UNCHANGED <<workerKeeps, q, lockVars, status, answer, threadVars, listVars, lost>>

\* as-instrumentation, in handle_errors(): len(errors) == 0
LookForErrors ==
    /\ worker = "work" /\ job = "check"
    /\ Reaches(IF errors = {} THEN "verdict" ELSE "reset")
    /\ UNCHANGED <<workerKeeps, q, lockVars, status, answer, found, dataVars>>

\* Mutant: the errors stay in the list.
KeepErrors ==
    /\ worker = "reset"
    /\ found' = errors
    /\ Reaches("verdict")
    /\ UNCHANGED <<workerKeeps, q, lockVars, status, answer, dataVars>>

\* self.data_handler.errors = []
ResetErrors ==
    /\ worker = "reset"
    /\ found' = errors
    /\ errors' = {} /\ kept' = (data # "append")
    /\ Reaches("verdict")
    /\ UNCHANGED <<workerKeeps, q, lockVars, status, answer, threadVars, adding,
                   recorded, lost>>

\* Mutant: success, whatever was found.
CheckVerdictSuccess ==
    /\ worker = "verdict"
    /\ Verdict("success")
    /\ Reaches("release")
    /\ found' = {}
    /\ UNCHANGED verdictKeeps

CheckVerdict ==
    /\ worker = "verdict"
    /\ Verdict(IF found = {} THEN "success" ELSE "fail")
    /\ Reaches("release")
    /\ found' = {}
    /\ UNCHANGED verdictKeeps

\* after-run moves the logs away, which may raise, and kills this program; the
\* script then has no more to wait for.
AfterRun(ok) ==
    /\ worker = "work" /\ job = "after-run"
    /\ IF ok THEN /\ worker' = "killed" /\ UNCHANGED <<job, held, found, recorded>>
                  /\ client' = "done" /\ http' = "idle"
             ELSE Raise /\ UNCHANGED <<client, http>>
    /\ UNCHANGED <<case, results, q, lockVars, status, answer, threadVars, listVars, lost>>

\* The release that ends every step of process().
ReleaseLock ==
    /\ worker = "release"
    /\ Reaches(IF lock = "free" THEN "raise" ELSE "finally")
    /\ found' = IF lock = "free" THEN {0} ELSE {}
    /\ lock' = "free"
    /\ UNCHANGED <<workerKeeps, q, robbed, status, answer, dataVars>>

\* except Exception
Raised ==
    /\ worker = "raise"
    /\ Verdict("fail")
    /\ Reaches("finally")
    /\ found' = {}
    /\ UNCHANGED verdictKeeps

\* finally: if self.processing_lock.locked()
Finally ==
    /\ worker = "finally"
    /\ worker' = IF lock = "free" THEN "idle" ELSE "letgo"
    /\ UNCHANGED <<workerKeeps, q, lockVars, statusVars, job, found, dataVars>>

\* Whoever holds it; a lock that is free by now ends the thread.
LetGo ==
    /\ worker = "letgo"
    /\ worker' = IF lock = "free" THEN "dead" ELSE "idle"
    /\ robbed' = (robbed \/ lock # "worker")
    /\ lock' = "free"
    /\ UNCHANGED <<workerKeeps, q, statusVars, job, found, dataVars>>

Worker ==
    \/ Get
    \/ LacksParameters
    \/ AcquireLock
    \/ \E ok \in BOOLEAN : BeforeRun(ok)
    \/ ProxyReady
    \/ \E ok \in BOOLEAN : OtherStep(ok)
    \/ LookForErrors
    \/ ResetErrors
    \/ CheckVerdict
    \/ \E ok \in BOOLEAN : AfterRun(ok)
    \/ ReleaseLock
    \/ Raised
    \/ Finally
    \/ LetGo

-----------------------------------------------------------------------------
\* The data thread: DataHandler.run().

dataKeeps == <<clientVars, http, q, lockVars, statusVars, workerVars>>

\* self.errors.append(): the list is loaded before the error is appended.
Error(next) ==
    /\ recorded < MaxErrors
    /\ recorded' = recorded + 1 /\ adding' = recorded + 1
    /\ data' = "append" /\ resume' = next
    /\ UNCHANGED <<errors, kept, lost>>

AppendError ==
    /\ Running /\ data = "append"
    /\ IF kept THEN errors' = errors \cup {adding} /\ UNCHANGED lost
               ELSE lost' = lost \cup {adding} /\ UNCHANGED errors
    /\ data' = resume /\ resume' = "recv"
    /\ adding' = 0 /\ kept' = TRUE
    /\ tcp' = IF resume = "accept" THEN "listening" ELSE tcp
    /\ UNCHANGED <<dataKeeps, ready, recorded>>

\* CoapProxy.run(), at first and after a restart of the radio, ends "ready",
\* without the characteristics ("missing"), or with an exception; only a
\* DBusException is caught.
ProxyRuns(outcome) ==
    /\ Running /\ data \in {"run", "restart"}
    /\ ready' = (ready \/ outcome = "ready")
    /\ \/ /\ outcome \in {"ready", "missing"}
          /\ data' = IF data = "run" THEN "accept" ELSE "recv"
          /\ tcp' = IF data = "run" THEN "listening" ELSE tcp
          /\ UNCHANGED <<resume, errorVars>>
       \/ /\ outcome = "dbus"
          /\ Error(IF data = "run" THEN "accept" ELSE "restart")
          /\ UNCHANGED tcp
       \/ /\ outcome = "raise"
          /\ data' = "dead"
          /\ UNCHANGED <<resume, errorVars, tcp>>
    /\ UNCHANGED dataKeeps

\* A message of the test case.
Receive ==
    /\ Running /\ data = "recv"
    /\ tcp = "up" /\ client = "test"
    /\ data' = "send"
    /\ UNCHANGED <<dataKeeps, resume, ready, errorVars, tcp>>

\* Of a connection that was reset recv() listens anew; of one that Defensics has
\* closed it returns nothing, again and again, as if nothing were sent.
Relisten ==
    /\ Running /\ data = "recv" /\ tcp = "rst"
    /\ tcp' = "listening" /\ data' = "refail"
    /\ UNCHANGED <<dataKeeps, resume, ready, errorVars>>

\* Mutant: a connection that was reset is waited for without listening.
SendOnNoListen(answered) ==
    /\ Running /\ data = "send"
    /\ \/ (~answered \/ (ready /\ tcp # "rst")) /\ data' = "recv"
       \/ answered /\ ready /\ tcp = "rst" /\ data' = "reaccept"
    /\ UNCHANGED <<dataKeeps, resume, ready, errorVars, tcp>>

\* One chunk after the other goes to the IUT; no response in time ends the rest.
SendOn(answered) ==
    /\ Running /\ data = "send"
    /\ \/ ~answered /\ data' = "recv" /\ UNCHANGED tcp
       \/ answered /\ ready /\ tcp # "rst" /\ data' = "recv" /\ UNCHANGED tcp
       \/ answered /\ ready /\ tcp = "rst" /\ data' = "reaccept" /\ tcp' = "listening"
    /\ UNCHANGED <<dataKeeps, resume, ready, errorVars>>

\* A message that mock_csm() answers itself: send() listens anew like that of
\* SendOn, and what else it raises ends the thread.
MockCsm(sent) ==
    /\ Running /\ data = "send"
    /\ data' = IF ~sent THEN "dead" ELSE IF tcp = "rst" THEN "reaccept" ELSE "recv"
    /\ tcp' = IF sent /\ tcp = "rst" THEN "listening" ELSE tcp
    /\ UNCHANGED <<dataKeeps, resume, ready, errorVars>>

\* An ATT error only skips the rest of the message, every other exception makes
\* _handle_dbus_exception() or run() have the radio restarted.
SendFails(next) ==
    /\ Running /\ data = "send"
    /\ Error(next)
    /\ UNCHANGED <<dataKeeps, ready, tcp>>

Data ==
    \/ AppendError
    \/ \E outcome \in {"ready", "missing", "dbus", "raise"} : ProxyRuns(outcome)
    \/ Relisten
    \/ \E answered \in BOOLEAN : SendOn(answered)
    \/ \E sent \in BOOLEAN : MockCsm(sent)
    \/ \E next \in {"recv", "restart"} : SendFails(next)

Next ==
    \/ Request
    \/ Connect
    \/ Receive
    \/ \E drop \in {"up", "rst"} : EndCase(drop)
    \/ HttpSteps
    \/ Worker
    \/ Data

Spec == Init /\ [][Next]_vars

\* The three threads run and Defensics asks on.
FairSpec ==
    /\ Spec
    /\ WF_vars(Request)
    /\ WF_vars(HttpSteps)
    /\ WF_vars(Worker)
    /\ WF_vars(Data)

-----------------------------------------------------------------------------
\* A case fails only on errors of the data thread or an exception of a step, each
\* of which fails one case.  That the worker dies, that a request gets no response
\* and that a release of the lock raises has one cause: the finally clause of run()
\* has released a lock which a request holds or has released already.
FaultsHaveCause ==
    /\ \A i \in 1 .. Len(results) : results[i].verdict = "fail" => results[i].errs # {}
    /\ \A i, j \in 1 .. Len(results) :
          i # j => results[i].errs \cap results[j].errs \subseteq {0}
    /\ \/ worker = "dead"
       \/ http = "raised"
       \/ \E i \in 1 .. Len(results) : 0 \in results[i].errs
       => robbed

\* No error is forgotten: it is in the list, being appended or reported, or has
\* failed a case, unless it was lost when it was appended to a list that a check
\* had taken away; when its verdict came to a status already sent, or when no case
\* waited for one (the case had got a stale verdict, or was not yet or no longer
\* at its check); when a success replaced its verdict before a case asked for it;
\* or when the request that asked got no response.  So what a check finds while its
\* case waits for it reaches that case, however often the script asks and whoever
\* waits for the lock.
ErrorsKept ==
    \A e \in 1 .. recorded :
       \/ e \in errors \cup found \cup status.errs \cup answer.errs \cup lost
       \/ e = adding
       \/ \E i \in 1 .. Len(results) :
             results[i].verdict = "fail" /\ e \in results[i].errs

\* The worker waits for a proxy that has failed, the server for the worker,
\* Defensics for the server and the data thread, if it lives, for Defensics.
Deadlocked ==
    /\ http = "wait" /\ worker = "ready" /\ ~ready
    /\ \/ data = "dead"
       \/ data \in {"accept", "reaccept", "refail", "recv"}

\* Every request is answered, unless all of them wait for each other.
RequestAnswered == (http # "idle") ~> (http = "idle" \/ Deadlocked)

=============================================================================
