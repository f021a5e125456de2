# A TLA+ model of BTPTesterCore

BTPTesterCore tests Bluetooth hosts. It drives one or two devices under test
(IUTs) over the Bluetooth Test Protocol (BTP): commands and responses, and
events the IUT sends by itself. The same machinery also serves the Defensics
fuzzer, as its "instrumentation", and a cron that tests pull
requests on GitHub.

This directory has TLA+ modules of the tester's concurrent core, TLC
configurations that check them on small instances, and TLAPS proofs of the
properties that matter most for any instance. `PROJECT.json` says which lines of
the source each definition models.

    tlc -workers 2 -config BTPWorker.cfg MCBTPWorker.tla
    tlapm FrameProofs.tla

## 1. The system

| Component | Source | State | Operations | Status |
|---|---|---|---|---|
| BTP socket | `pybtp/btp_socket.py`, `pybtp/parser.py` | listening socket, connection; inside `read()` the bytes still missing of header and data | `open`, `accept`, `read`, `send`, `close` | `BTPSocket`, `FrameChannel`; `send` is left out |
| BTP worker | `pybtp/btp_worker.py` | `_rx_queue`, `_running`, the receive thread, the read timer | `_rx_task`, `read`, `send`, `accept`, `close` | `BTPWorker`; the unused `send_wait_rsp` is left out |
| BTP event handler | `pybtp/btp.py:3870-3945`, `pybtp/utils.py` | registry of listeners, their semaphores and results, the executor | `wait_for_event`, `__call__`, `clear_listeners`, `wait_futures` | `BTPEventHandler` |
| GAP commands and events | `pybtp/btp.py:435-1229`, `stack/gap.py` | `current_settings`, `connections`, found devices, passkey, parameters | the `gap_*` commands and `gap_*_ev_` callbacks | `GapSettings`, `GapProcedures`; the stored data are left out |
| GAP test procedures | `testcases/utils.py`, `GapTestCase.py`, `BTPTestCase.py` | where a test is, the futures it waits for | the tests | `GapProcedures` |
| BTP automation | `defensics/btp_automation_handler.py`, `instrumentation_*.py`, `automation_status.py` | job queue, processing lock, status | `post`, `get_status`, `run`, `process`, the HTTP server and client | `BTPAutomationHandler` |
| GATT and GATT client | `pybtp/btp.py:1230-3337`, `stack/gatt.py`, `stack/gatt_cl.py`, `stack/common.py` | database of attributes; lists, counters and values of the procedures | the `gattc_*` and `gatt_cl_*` commands, their responses and event callbacks, the polls of `GattCl`, `find_*` | `GattDB`, `GattProcedures`; what no test calls is left out |
| GATT test procedures | `testcases/GattTestCase.py` | where a test is, what it has found | the tests | `GattProcedures` |
| L2CAP, mesh | `pybtp/btp.py`, `stack/l2cap.py`, `stack/mesh.py` | channels; values of events | commands, events | not modelled: no test calls them |
| IUT control | `projects/*/iutctl.py` | worker, stack, handler, processes of an IUT | `start`, `stop`, `reset`, wait for IUT_READY | not modelled: processes and serial ports |
| Test runner | `btptester.py` | run counters | run and rerun loop | not modelled: a sequential loop |
| CoAP automation | `defensics/coap_automation_handler.py`, `coap_proxy.py`, `tcp_*.py` | as BTP automation, plus the list of errors, the server's socket, `proxy.ready` | as BTP automation, plus the data thread that passes CoAP on | `CoapAutomationHandler` |
| Cron jobs | `cron/*.py`, `btptester_cron.py` | last comment id, pull offset, `schedule.jobs` | pull, schedule, run, cancel, toggle | `GithubCron` |
| Definitions, boards, logs, launchers | `pybtp/defs.py`, `boards/`, `common/` ... | none of interest | conversions, shell commands | not modelled: pure input and output |

How they interact. A test (main thread) calls a `gap_*` function, which calls
`BTPWorker.send` and then `BTPWorker.read`; `read` polls a queue that the
worker's receive thread fills from `BTPSocket.read`. That thread calls the event
handler instead for every frame it has a callback for; the callback changes the
IUT's `stack` object and the handler releases the listeners whose condition
holds. A listener's future runs in an executor thread, and the test waits for it
with `wait_futures`. So three kinds of thread share a registry, a queue and the
`stack` without a lock: `stack/property.py` has one, but its `__get__` and
`__set__` are never called for instance attributes.

What is hard here, and what the properties are aimed at (the list with lines is
`hazards` in `PROJECT.json`):

- a timeout in the middle of a frame, after which the stream is out of step;
- a response that arrives after its read has timed out, and is taken for that of
  the next command;
- a listener registered while the receive thread replaces the list it goes to;
- listeners nobody releases, which keep workers of a pool of ten;
- an exception in a callback, which ends the receive thread;
- two threads writing the settings cache, and commands that trust it;
- commands sent before the listener for their events exists;
- links and IUTs lost at any moment of a test;
- a processing lock that is not released when a step raises;
- a status object handed out while a thread writes to it;
- results published piece by piece by a callback while the test polls for them;
- a list of errors replaced while another thread appends to it, and a lock
  released by a thread that does not hold it;
- four parties of the CoAP automation of which each may wait for the next;
- comments passed over by an id that is not what they are sorted by, and jobs
  looked up by name after another thread has changed the list.

Correctness, per component: frames come back whole and in order; a command gets
its own answer and every read and close ends; a listener is released once, with
an event the stack already shows; the cache shows what the IUT has; a test fails
only for a cause outside the tester and leaves nothing behind; every Defensics
request is answered and every case judged by a verdict of its own age, or by
errors of its own; a GATT test passes only on the attribute it is about; a comment
with a magic tag gets its job, once, and the job runs.

## 2. Modules

`FrameChannel` is the abstract channel: frames sent come back in order and
unaltered, until the channel breaks; then anything may come.

`BTPSocket` is the byte stream and the framing of `read()`. A byte is its
position in the stream; a frame is where it starts and how much data its header
announces. Each `recv_into()` (`RecvHdr`, `RecvData`) takes any number of the
bytes that have arrived and are still wanted. `Timeout` is `socket.timeout` in
either loop: it drops what was gathered, and `torn` records it when that was
part of a frame. After that a header may be gathered anywhere and decode to any
length. A peer that has hung up makes `recv_into()` return 0, and the loop
spins, as in the code. `BTPSocket` implements `FrameChannel` with `sent`, `got`
and `broken` as `frames`, `returned` and `torn`.

`BTPWorker` is the worker on top of such a channel: the receive thread with the
frame in its hand, the response queue, `send`, the polling loop of `read` with
its timer, `accept` and `close` with its join. A frame remembers the command it
answers, which the code cannot see; the header check compares opcodes. The IUT
may answer late or never, report an error, send frames nobody waits for, restart
or hang up.

`BTPEventHandler` has one action per atomic step of the registry: the look-up of
a list and the append to it are two steps of the test; the callback, each turn
of the loop over the list, the computation of the new list and its store are
steps of the receive thread; a future's start and end are steps of the pool. A
list is the set of its listeners. `stale` says that the test holds a list that
is no longer in the registry. Mapping the source's `list(set(l) - set(r))` to two
steps is what shows the lost registration. The registry has two levels, and the first
look-up of a service creates the dict of its lists by way of a Python function
(`btp.py:3897`), so another thread may run before the dict is stored: both may create
one (`Creates`, `HandlerCreates`), and the later takes the place of the other, with
the listeners in it or with the list that is being walked (`own`).

`GapSettings` is the settings cache of one IUT. Both writers run the loop of
`__gap_current_settings_update` one bit at a time, in any order. A command
whose early return finds its setting in the cache is not enabled: it leaves no
trace. `raced` and `overlap` are history variables: an event was applied over a
response that is still to be applied; two updates ran at the same time.

`GapProcedures` has every test of `GapTestCase` as a program of commands,
registrations, waits and assertions, built with the operators of the same names
as the functions of `btp.py` and `utils.py`. One interpreter runs the program
against two IUTs, which may lose the link or crash at any time. It abstracts the
three modules below it: a listener is a pair of IUT and event, callback and
notification are one step (`FutureReturnsAppliedEvent` of `BTPEventHandler` is
what allows that), a response arrives through the queue of its IUT. A registration
is two steps, as there: when an event of its key is handled between `LookUp` and
`RegisterListener`, the listener goes to a list that has been replaced and is in
`astray`. Apart from the tests that register late, only the listener for advertising
reports is registered while its events stream in. Two things are left out. The dict of a service is
taken as created: that race is in `BTPEventHandler` only. And a link has no address:
`identity_resolved()` (`stack/gap.py:199`) does nothing, so that a peer resolved while
connected would be popped under an address that is not there, but every test uses
identity addresses, which do not change.

`BTPAutomationHandler` is the handler's thread, `post()` step by step (it looks
at the lock, waits for it, releases it and only then queues the job),
`get_status()` with the swap of the status object and its serialisation as
separate steps, and the polling client.

`GattDB` has the look-ups of `stack/gatt.py` as functions of a map from handles
to attributes: `find_*_by_uuid` and `find_characteristic_end`, which is defined
by the handles where the code's loop stops (`Stops`).

`GattProcedures` has every test of `GattTestCase` as a program, as
`GapProcedures` has, on a link that stands from the beginning and may be lost. A
central with GATT_CL answers a command at once and reports the result in an
event, whose callback is a sequence of statements (`callback`, one per step of
the receive thread), between which the test polls; a central without it answers
with the result, which the test reads from `rspq`. What a client asks is answered
from `server`, a table it does not see; what it finds goes to `db`. A notification of
an empty attribute has no data, and `gatt_cl_notification_rxed_ev_()` drops it. `torn` and
`missed` are history variables: a result was looked at in the middle of a
callback; a change was reported before its listener was there.

`CoapAutomationHandler` has the handler's thread, the HTTP server with its
client, and the data thread of `tcp_data_handler.py`, whose socket may be reset
or closed by Defensics. An error is a number, and a verdict keeps the errors it
comes from, which lets `ErrorsKept` follow each from the data thread to the case
it fails. `errors.append(...)` is two steps, the load of the list and the append
to it. A run of the proxy is one step with its outcomes. Every step but
after-case may raise where the code can (a parameter that is not in the request,
`mkdir()`, the reset command, the moving of the logs), and the exception is an
error like those of the data thread: it sets the verdict "fail", which may be
stale when the next case asks. `robbed` and `lost` are history variables: the
`finally` clause of `run()` has released a lock its thread did not hold; the errors
by which no case will be judged. The model follows `coap_config.py`: crash
detection, btmon and the serial log are off. `MaxErrors` ends the restarts of the
radio, which the code repeats for as long as the proxy raises a D-Bus exception.

`GithubCron` has one puller, the scheduler's thread and the user. The loop over
a page is one step per comment, since the user may reset `last_comment_id`
between them; `do()` and `tag()` are two, since the scheduler may look at the
list between them. After `tag()` the puller posts a comment, which raises when there is
no access token and ends the thread (`PostRaises`). Clock times are left out: any prefix of GitHub's list may be
too old, and any job due whose elder ones are. The jobs due in a turn are
collected once and run even when cancelled since. The end of a job is one step
with its wrapper and with what the `schedule` library does after it: a step of
another thread between them leads nowhere that it would not have led before or
after. The scheduler is the main thread when there is no window (`gui`), and
then takes the puller with it.

The eight `*Proofs` modules hold the theorems. `FrameProofs` has those about the two
models of frames on their way, `BTPSocket` and `GapSettings`; each of the others those
of the module it is named after. The `MC*` modules give the constants their values for
TLC.

Everything beyond the tester is external: the IUT, its UART and socat, the
kernel, Bluetooth, the Python executor, Defensics. External actions are as
liberal as the code allows for, with the bounds below.

## 3. Runs

| Run | Instance | What it shows |
|---|---|---|
| `btp_socket` | headers of 2 bytes, data of at most 2, 3 frames | read starts at a frame until a timeout tears one, ends unless the peer hangs up, and implements `FrameChannel` |
| `btp_worker` | 3 commands with opcodes a, b, a; one unasked frame | answers arrive in order; a command takes its own answer, unless an earlier read failed and left an answer of the same opcode; read and close end |
| `btp_event_handler` | 3 events, 3 listeners on 2 keys of a service, 2 workers | a listener is released once; only the replacing of its list or dict loses one; results are final and already applied; released futures complete unless the pool is exhausted; `clear_listeners` unblocks all others |
| `gap_settings` | 2 settings, 2 frames under way | the cache follows the IUT unless an event overtook a response, and mixes two reports only if two updates overlapped |
| `gap_procedures` | all 8 tests, one loss or crash per link | tests end, pass clean, and fail only for a loss or for a listener registered late or gone astray |
| `automation_handler` | 2 cases, 8 requests | requests are answered and jobs done until a step dies with the lock; verdicts advance with the cases |
| `gatt_procedures` | all 16 tests, with and without GATT_CL, 5 servers, 2 notifications | tests end, fail only for the link, the server or five named weaknesses of the tester, and pass only on the attribute they are about |
| `coap_automation` | 2 cases, 2 queued jobs, 1 error | cases fail through errors of their own; no error is forgotten but in four named ways; requests are answered unless all wait for each other |
| `github_cron` | 2 comments, 1 edit, user action or failure, pages of 2 | one job per comment and reset, run once; every tagged comment gets its run unless one of nine named causes keeps it from it |
| `automation_lock_leak` | same as `automation_handler` | *violated*: the wait that `post()` promises to end does not end |
| `automation_crash_lost` | same | *violated*: the verdict of an unresponsive IUT is overwritten by "success" |
| `gap_pairing_missed` | test CONN_PAIR_2 | *violated*: the test times out on IUTs that pair faultlessly |

Why the bounds are enough. Two bytes of header and two of data are the least
that let a timeout fall before, inside and after either, and three frames give a
torn one, its successor and one read out of step. Three commands, the first and
last with the same opcode, are the least in which a late answer is taken for that
of a later command with a different one in between. Three listeners on two keys
with two workers cover two listeners on one list, one of which accepts both
events, a listener whose event nothing handles, and an exhausted pool; that both
keys are of one service lets the dict of one be replaced for the sake of the other. Two
settings are enough to tear a cache; a second frame under way lets an event
overtake a response. The GAP tests are finite programs and are run whole; a
second connection in one test is that of CONN_DCON_1. Two cases let a verdict
of the first be read by the second. The five servers of `gatt_procedures` put a
characteristic before another at once, before a service, at the end of the table
and before one whose descriptors have the types it looks for; the empty one has
nothing. An error and two cases let the error of one case be judged in the other,
and two queued jobs, the second posted while the first holds the lock, are the
least with which the lock is released by the wrong thread; the safety properties of
`coap_automation` also pass with two errors and one or two queued jobs, and with
three cases. All properties of `github_cron` pass with `PerPage = 1`, where a second
comment waits for the first to grow old. One event
of `MaxEvents` is enough for each cause in `Excused` to be needed: without any
one of them TLC finds `CommentRuns` violated.

Deadlock is not checked where a test, a connection or a run of Defensics ends
for good; each cfg says so, and the liveness properties say what must not stop
before.

Every property of a passing run has a mutant in `PROJECT.json`: an operator
beside the definition it replaces, marked "Mutant", that TLC finds in violation
of that property.

## 4. Fairness

Weak fairness on the steps of threads that are runnable: the receive thread, the
pool, a call that has begun, a timer that has been armed, a join whose thread has
ended. This is what the operating system and the interpreter give. Nothing is
assumed of what the tester does not control: an IUT need not answer (`BTPWorker`)
or send (`BTPSocket`), a test need not go on to its next call, a link need not
hold. `GapProcedures` alone has fair IUTs, as its tests can only end by
themselves when an IUT that has not crashed does what it was told; there a wait
times out only when nothing is under way that could end it, since a timeout
before that ends the test in a state of which nothing is claimed. A wait whose
listener has gone astray is one that nothing can end, whatever is under way.
`BTPAutomationHandler` assumes that Defensics asks on, as its polling client
does, and that a lock that stays free is granted; `CoapAutomationHandler` that
Defensics asks on, with its data thread running. In `GattProcedures` the IUTs
answer, report and notify as long as the link stands, for the reason given for
`GapProcedures`. `GithubCron` assumes of GitHub that it answers some request at
last (the code repeats them), that time passes, so that comments grow old and
jobs become due, and that a job ends or hangs; nobody need write, edit or cancel.

## 5. Theorems

All hold for every value of the constants, under the assumptions the modules
name: the header is not empty (`HdrLenAssumption`) and the data bound is a number
(`MaxDataAssumption`); the script sends opcodes (`ScriptAssumption`); keys and
conditions of listeners are functions (`KeyAssumption`, `AcceptsAssumption`) and
None is not an event (`NoResultAssumption`); the tests are those of `GapTestCase`
(`TestAssumption`); the bounds of `BTPWorker`, of the automation handlers and of
the cron's model are numbers, and cases, queued CoAP jobs, a page and the number of
runs are not zero (`BoundAssumption`, `BoundsAssumption`). `GapSettings` needs none.
`GattProcedures` assumes the tests of `GattTestCase` (its own `TestAssumption`), at
least one notification (`MaxNotesAssumption`) and servers as GATT prescribes them
(`ServerAssumption`, `Ordered`): services do not overlap, included services and
characteristics lie in a service, the value of a characteristic is in front of the
next attribute that can be discovered, and a descriptor comes after a characteristic
of its service. The IUTs are Bluetooth stacks, and a server out of this order is one
that `find_characteristic_end` is not written for. The five servers of the run, one
of them empty, satisfy it; TLC evaluates it there.

**BTPSocket**: `TypeCorrect`, `ReadStartsAtFrameCorrect`, `FramesIntactCorrect`,
`ChannelImplemented`. `ReadStartsAtFrame` is not inductive: it says nothing while
a read is going on. `IInv` adds where that read stands (`Aligned`: how many bytes
of which frame it has taken), that frames are contiguous, and that no byte is
taken before it has arrived. Each `recv_into()` then keeps the difference between
taken bytes and bytes still missing, and the last one lands on the frame's end.
The refinement follows from `Aligned`: the frame that a read returns is the next
one sent.

**BTPWorker**: `TypeCorrect`, `ClosedIsQuietCorrect`, `AnswersInOrderCorrect`,
`AcceptsOwnAnswerCorrect`. An answer passes from the commands the IUT has yet to
answer over the wire, the hand of the receive thread and the queue to the log
(`Pipe`). `AnswersInOrder` is almost inductive: `OInv` adds that everything in the
pipe precedes the command to be sent next, which keeps the order when `send` adds
it. Every step then moves a frame to the next stage, or drops it, and `Precede` and
`Ascend` say what `Append` and `Tail` do to that. Order alone does not make a
command take its own answer: the one of an earlier command, left by a read that
failed, is in order too. `AInv` adds that while no read has failed all that is
still to come answers later commands than the last one read for.

**BTPEventHandler**: `TypeCorrect`, `ReleasedOnceCorrect`,
`ListenerLostOnlyInRaceCorrect`, `FutureReturnsAppliedEventCorrect`,
`ResultIsFinalCorrect`. The invariant has to follow the receive thread through
its walk (`Walk`): what it will remove has been released, what it will keep is
all that has not, up to late comers, who are in `raced`. `Releases` says what a
release leaves behind; `Registry` that a list holds registered listeners of its
key only, and is in the dict of its service; a list that is walked while another is in
its place (`own`) leaves only listeners in `raced` there. `ResultIsFinal`, an action property, follows from the same invariant,
as only a listener that is still waiting gets a result.

**GapSettings**: `CacheTypeCorrect`, `CacheFollowsIutCorrect`, `CacheNotTornCorrect`.
The inductive invariant is `CacheInv`.
`NewestInFlight` says that the last frame under way has what the IUT has;
`OneResponse` that only a test that waits has a response under way, and only
one; `NewestWins` that, unless an event overtook a response, whoever holds the
newest report is the only writer; `Written` where each loop is. When nothing is
under way the last writer has finished, with the newest report.

**GithubCron**: `TypeCorrect`, `RunOnceCorrect`. The invariant has two halves.
`Counted` adds to a comment's jobs its places among the tagged comments that have
no job yet (`Waiting`) and bounds both by how often the puller may have come by it
(`Passes`): the walk lets an id through only when `last_comment_id` is lower, and
then raises it, so only a reset lets it through again. The other half says that a
job which ran is off the list. Without a window `schedule` takes it off. With one
`pr_job_finish_wrapper()` cancels by name, and two jobs of one comment have one
name; `InTurn` says that the jobs run in the order they were scheduled in, so the
first of that name is the one that ended (`FirstOfItsName`). Were jobs of a comment
run in another order, the wrapper would cancel the wrong one. TLC checks the
whole invariant on the instance of `github_cron`, also with two events.

**GapProcedures**: `TypeCorrect`, `ConnectionsFollowLinkCorrect`,
`PassedIsCleanCorrect`, `FailureHasCauseCorrect`. The types
need that a program is a sequence of steps that name commands, events and IUTs
(`ProgramTyped`), and that no more than one response is anywhere between an IUT and
the command that waits for it (`OneResponse`, `Awaited`). `ConnectionsFollowLink`
speaks of the moments at which nothing is under way. `Leads` speaks of all: the
frames an IUT has sent lead from the connections of its stack to the state of the
link it has noticed, connections and disconnections in turn, and the events it has
yet to send lead from there to the link as it is (`Course`). An event noticed is
one step more at one end, a frame received one step less at the other, and a
disconnection at the head of a course always finds the connection it takes out.
The rest is what happens on the air: a disconnection needs a link, and an IUT that
has stopped reports nothing.

The other two need to know what the tests do. For `PassedIsClean` it is enough how
a program is put together: the two steps before each "conn" register for its event,
a wait follows it (`Procedure`, kept when programs are joined), and all tests but
the discovery end by looking at both connections (`EndsDenied`). `Tidy` says that a
connection is only ever on its way, from the command over the air to the event, while
the test waits for it. When a test has passed nothing can bring the link up again,
so both courses lead from a stack without a connection to a link that is down,
through nothing but advertising reports.

`FailureHasCause` is about what every step finds. Each program is a walk through
phases (`Moves`; `ProgramPassage`, again by joining its parts), and `phase` is where
on it the test is. As long as nothing is lost, `Steady` fixes what each phase has:
the listeners (`Listening`), the link and both connections (`Linking`), advertising
and scan (`Showing`), and no refusal under way (`Obeying`). Its core is `Expecting`:
a connection, a disconnection and, where nothing is asked, a pairing is under way to
an IUT exactly when the test has begun it and that IUT's listener is still there.
So no event is heard in vain and no wait waits for nothing. `Reaching` adds that no
listener for these events goes astray: none of them can come between the two steps of
a registration, as what brings it has not been asked for yet. The phase "loose", of
which this is not claimed, is the one in which the four late tests send before they
register. TLC checked the same invariant on the instance of `gap_procedures`.

**BTPAutomationHandler**: `TypeCorrect`, `VerdictsAdvanceCorrect`. A verdict is
given by a job (`of`) and travels from the status to the answer to the results, so
`VInv` says of each place which jobs it may hold: those that have been processed
(`SeenDone`) and, from the moment the request after a judged case has passed the
lock or taken the status, only younger ones than the job that judged it (`Newer`).
That the lock makes a request wait for the running job is `LockHeld`; a job that
already has a verdict and may get another one holds it. The argument does not need
the queue to be empty: surplus jobs only make the verdicts younger.

**CoapAutomationHandler**: `TypeCorrect`, `FaultsHaveCauseCorrect`,
`ErrorsKeptCorrect`. `TInv` adds to the types that before-run is posted once and
first and that every case is judged once. `XInv`: until the `finally` clause has
released a lock of another (`robbed`), each of the two threads has the lock from its
acquire to its release (`Exclusive`), so that no release raises and nobody dies. It
holds however often a request waits for the lock. `ErrorsApart`: an error is in one
place at a time (the list, the one being appended, what a step has found, the
status, the answer, one result), and a verdict "fail" has errors; `Carried` says
between which steps the worker carries some. A failed case then has errors of its
own, whatever order verdicts and requests come in. For `ErrorsKept` an error may be
out of these places only in a result or in `lost`: `Promised` says that a verdict
"fail" in the status or the answer, unless its errors are in `lost`, has a case
waiting for it, so that the next swap and the next answer hand it over, and
`AllKept` that no step drops an error otherwise. Neither needs a bound on how often
a case polls.

**GattProcedures**: `TypeCorrect`, `PassedIsRightCorrect`, `FailureHasCauseCorrect`,
for every set of servers, any number of notifications, and centrals with GATT_CL and
without it. The look-ups take the lowest handle of a set, so all rests on
`LeastNumber`: a set of numbers that is not empty has a least one, which the
library's facts about well-founded relations give without an induction of our own.
From it follow what `find_characteristic_end`, `find_*_by_uuid` and the sorted lists
of a discovery return on any table.

As for the GAP tests, every program is a walk through phases (`Moves`,
`ProgramPassage`), and what is known at a step depends on `phase`. Four invariants
build on each other:

- `TInv`: the types; at most one response is under way, and only after a command
  (`OneResponse`); what a test has found are handles (`Locals`); no more
  notifications are under way than were sent (`NoteBound`).
- `FInv`: what comes back is the result of the command that was sent. `OneReport`
  lets a report under GATT_CL be in one place only (the air, the stream, the callback
  that stores it piece by piece, the lists); `Results` says what is in it; `Taken`
  that the test takes it to its local variables.
- `PInv`: a discovery finds nothing but what it looks for (`OnlySought`), as long as
  the link stands all of it (`AllSought`), and the first attribute before the others
  (`FirstFirst`). So what the test chooses (`Chosen`) is what it looks for, and the end
  it computes lies in front of the next characteristic (`EndRight`), unless the list
  was taken from an unfinished callback (`torn`). `PassedIsRight` follows.
- `GInv`: on a link that stands nothing is lost. A response is under way until it is
  read (`ResponseOwed`); no service is skipped in the search for included ones
  (`IncludedSought`), no descriptor of the characteristic lies behind its computed
  end (`EndFar`), and what is chosen is the right one if there is one
  (`ChosenRight`); a written value is reported to its listener (`Heard`), a value
  that was asked for comes (`ValuesCome`), and so does a notification (`NotesCome`).
  Each step that can fail is then looked at: it fails only when one of the causes
  of `FailureHasCause` is there, and a cause once there stays.

TLC checked all four on the instance of `gatt_procedures` before they were proved.
The exceptions of the properties are where the invariants need them: `torn` in
`EndRight` and `ChosenRight`, `missed` in `Heard`, and the empty value in `ValuesCome` and `NotesCome`.

Only model-checked: the liveness properties (`TestEnds`, `ReadEnds`, `QueueDrains`,
`RequestAnswered`, `CommentRuns` and their like), which rest on fairness and ENABLED
and are beyond the prover.

## 6. Findings

1. `defensics/btp_automation_handler.py:54`: a step that raises leaves the
   processing lock held. The next step and every later request wait for ever.
2. `defensics/btp_automation_handler.py:76`: the `finally` clause of the health
   check sets the verdict to "success" after the timeout has set it to "fail".
3. `testcases/GapTestCase.py:290`: the pairing test by numeric comparison (and
   likewise CONN_PAIR_3, CONN_CPUP_1 and CONN_CPUP_2) registers for events after
   the command that brings them, and times out when they are faster.

Further weaknesses are stated as the exceptions of properties that hold: a listener
registered while its list or its service's dict is replaced (`ListenerLostOnlyInRace`;
in `FailureHasCause` of `GapProcedures` a test that times out over it), a late answer
with the same opcode (`AcceptsOwnAnswer`), and the settings written by an older
response over a newer event (`CacheFollowsIut`). `FailureHasCause` of
`GattProcedures` names a result read from an unfinished callback, a listener that
comes after the write it is for, an empty value under GATT_CL that is taken for no
answer, a notification without data that is dropped, and a subscription without GATT_CL, whose response is read twice.
`PassedIsRight` names the last characteristic of a service, whose range goes on
into the next. `FaultsHaveCause` names the lock that `run()` releases for another
thread, `ErrorsKept` the errors appended to a list taken away, the verdicts that come
to a status already sent or when no case waits for one, those that a success
replaces before a case has asked for them, and those whose request got no response;
`Deadlocked` says who waits for whom.
`Excused` of `GithubCron` lists what keeps a comment from its job, among them a
job cancelled while it runs, which ends the scheduler's thread, and a missing token,
which ends the puller.

## 7. Not modelled, and the plan

Left out of the modelled components: `BTPSocket.send` and partial sends, whose
other end is external; wording and logging; the encoding of commands and the
parsing of advertising data; the found devices, passkey and connection parameters
that GAP events store, and the addresses of links; `gap_reset`, `gap_unpair` and the polling waits of
`stack/gap.py`, which no GAP test uses; the GATT commands no test calls
(multiple, signed and reliable accesses, security) and the `gatts_*` ones that
build a server, which is a given table here; the D-Bus signals behind a run of
the CoAP proxy, crash detection; of the cron the search for a
start time, a second puller (which could meet the first one between `do()` and
`tag()` as the scheduler does), what the window shows, and the git, file and
report work inside a job, of which only the outcome is kept.

Not modelled at all: L2CAP and mesh, which no test calls and which keep single
values; IUT control, which starts and stops processes and whose handshake is the
first frame of `BTPWorker`'s queue; the run loop of `btptester.py`, which is
sequential; the Android web socket, a transport with an asyncio loop of its own in
the place of `BTPSocket`; case handlers, launchers, boards, logs and encodings,
straight lines of commands and conversions.

Next, in this order:

1. An abstract specification "one step at a time, every request answered" that
   both automation handlers are compared with, and a command/response
   specification refined by `BTPWorker`.
2. `IutCtl`: start, stop, reset and IUT_READY, composed with `BTPWorker`'s accept
   and close, and the web socket as a second implementation of `FrameChannel`.

No RECURSIVE operator is used in any module.
