----------------------------- MODULE GapSettings -----------------------------
(***************************************************************************)
(* The cache of an IUT's GAP settings (Gap.current_settings of             *)
(* stack/gap.py) and the two threads that write it, bit by bit and without *)
(* a lock: the test, from the response to a command, and the receive       *)
(* thread, from a New Settings event.  The GAP commands of pybtp/btp.py    *)
(* look into the cache and send nothing when it says that the setting is   *)
(* already what they want.                                                 *)
(*                                                                         *)
(* BTPSocket and BTPWorker show how frames get here: in order, responses   *)
(* into a queue of one, events straight to the handler.  A command that    *)
(* fails, by a timeout or an error status, ends the test.                  *)
(***************************************************************************)
EXTENDS Naturals, Sequences

CONSTANTS
    Bit,         \* the settings of gap_settings_btp2txt that are modelled
    MaxFlight    \* bound on the frames under way

Settings == [Bit -> BOOLEAN]
Report == [kind: {"rsp", "event"}, settings: Settings]

\* A command: the bit it is about, the value it asks for, and whether it
\* returns early when the cache has that value.
Cmd(bit, on, guarded) == [bit |-> bit, on |-> on, guarded |-> guarded]

ReadCtrlInfo == Cmd("none", FALSE, FALSE)

Command ==
    {c \in {Cmd("Advertising", TRUE, TRUE),      \* gap_adv_ind_on
            Cmd("Advertising", FALSE, TRUE),     \* gap_adv_off
            Cmd("Advertising", TRUE, FALSE),     \* gap_start_direct_adv
            Cmd("Connectable", TRUE, TRUE),      \* gap_set_conn
            Cmd("Connectable", FALSE, TRUE),     \* gap_set_nonconn
            Cmd("Discoverable", FALSE, TRUE),    \* gap_set_nondiscov
            Cmd("Discoverable", TRUE, FALSE),    \* gap_set_gendiscov, limdiscov
            Cmd("Powered", TRUE, FALSE),         \* gap_set_powered_on
            Cmd("Powered", FALSE, FALSE)} :      \* gap_set_powered_off
        c.bit \in Bit}

VARIABLES
    iut,         \* the settings the IUT has
    pending,     \* the command it has not answered
    flight,      \* frames it has sent
    rspq,        \* BTPWorker._rx_queue
    cache,       \* Gap.current_settings
    rx,          \* the receive thread: idle, updating the cache, or dead
    rxNew,       \* the settings it writes
    rxTodo,      \* the bits it has not written
    main,        \* the test: from core_reg_svc_gap to its commands
    mainNew,     \* the settings it writes
    mainTodo,    \* the bits it has not written
    raced,       \* history: an event was applied over a response still to be applied
    overlap      \* history: the last two updates ran at the same time

iutVars == <<iut, pending>>
rxVars == <<rx, rxNew, rxTodo>>
mainVars == <<main, mainNew, mainTodo>>
cacheVars == <<iutVars, flight, rspq, cache, rxVars, mainVars, raced, overlap>>

CacheTypeOK ==
    /\ iut \in Settings
    /\ pending \in SUBSET (Command \cup {ReadCtrlInfo})
    /\ flight \in Seq(Report)
    /\ rspq \in Seq(Report) /\ \A i \in DOMAIN rspq : rspq[i].kind = "rsp"
    /\ cache \in Settings
    /\ rx \in {"idle", "update", "dead"}
    /\ rxNew \in Settings /\ rxTodo \in SUBSET Bit
    /\ main \in {"registered", "reading", "idle", "sent", "update", "failed"}
    /\ mainNew \in Settings /\ mainTodo \in SUBSET Bit
    /\ raced \in BOOLEAN /\ overlap \in BOOLEAN

NoSettings == [b \in Bit |-> FALSE]

\* preconditions() has registered the GAP service and not yet run gap_init().
CacheInit ==
    /\ iut \in Settings /\ pending = {}
    /\ flight = <<>> /\ rspq = <<>>
    /\ cache = NoSettings
    /\ rx = "idle" /\ rxNew = NoSettings /\ rxTodo = {}
    /\ main = "registered" /\ mainNew = NoSettings /\ mainTodo = {}
    /\ raced = FALSE /\ overlap = FALSE

-----------------------------------------------------------------------------
\* The IUT (external): settings in its answers, and an event when it changes
\* them itself, as it does when a connection stops the advertising.

Answer(c, s) ==
    /\ c \in pending
    /\ Len(flight) < MaxFlight
    /\ IF c = ReadCtrlInfo THEN s = iut ELSE s[c.bit] = c.on
    /\ iut' = s
    /\ pending' = {}
    /\ flight' = Append(flight, [kind |-> "rsp", settings |-> s])
    /\ UNCHANGED <<rspq, cache, rxVars, mainVars, raced, overlap>>

ChangeItself(s) ==
    /\ s # iut
    /\ Len(flight) < MaxFlight
    /\ iut' = s
    /\ flight' = Append(flight, [kind |-> "event", settings |-> s])
    /\ UNCHANGED <<pending, rspq, cache, rxVars, mainVars, raced, overlap>>

-----------------------------------------------------------------------------
\* The receive thread.

\* Mutant: every frame goes to the queue of responses.
RxAnything ==
    /\ rx = "idle" /\ flight # <<>>
    /\ rspq' = Append(rspq, Head(flight))
    /\ flight' = Tail(flight)
    /\ raced' = FALSE
    /\ UNCHANGED <<iutVars, cache, rxVars, mainVars, overlap>>

RxResponse ==
    /\ rx = "idle" /\ flight # <<>> /\ Head(flight).kind = "rsp"
    /\ rspq' = Append(rspq, Head(flight))
    /\ flight' = Tail(flight)
    /\ raced' = FALSE
    /\ UNCHANGED <<iutVars, cache, rxVars, mainVars, overlap>>

\* gap_new_settings_ev_ begins; without a Gap object it raises.
RxEvent ==
    /\ rx = "idle" /\ flight # <<>> /\ Head(flight).kind = "event"
    /\ flight' = Tail(flight)
    /\ IF main = "registered"
       THEN /\ rx' = "dead"
            /\ UNCHANGED <<rxNew, rxTodo, raced, overlap>>
       ELSE /\ rx' = "update"
            /\ rxNew' = Head(flight).settings
            /\ rxTodo' = Bit
            /\ raced' = (rspq # <<>> \/ main = "update")
            /\ overlap' = (main = "update")
    /\ UNCHANGED <<iutVars, rspq, cache, mainVars>>

\* One turn of the loop of __gap_current_settings_update.
RxSet(b) ==
    /\ rx = "update" /\ b \in rxTodo
    /\ cache' = [cache EXCEPT ![b] = rxNew[b]]
    /\ rxTodo' = rxTodo \ {b}
    /\ UNCHANGED <<iutVars, flight, rspq, rx, rxNew, mainVars, raced, overlap>>

RxDone ==
    /\ rx = "update" /\ rxTodo = {}
    /\ rx' = "idle"
    /\ UNCHANGED <<iutVars, flight, rspq, cache, rxNew, rxTodo, mainVars, raced,
                   overlap>>

-----------------------------------------------------------------------------
\* The test.

\* gap_init(), then gap_read_ctrl_info up to its read.
GapInit ==
    /\ main = "registered"
    /\ cache' = NoSettings
    /\ main' = "reading"
    /\ pending' = {ReadCtrlInfo}
    /\ UNCHANGED <<iut, flight, rspq, rxVars, mainNew, mainTodo, raced, overlap>>

\* Nothing is sent, and nothing changes, when the cache has the value.
Send(c) ==
    /\ main = "idle"
    /\ ~(c.guarded /\ cache[c.bit] = c.on)
    /\ main' = "sent"
    /\ pending' = {c}
    /\ UNCHANGED <<iut, flight, rspq, cache, rxVars, mainNew, mainTodo, raced,
                   overlap>>

\* BTPWorker.read(), and the header of the response is as expected.
ReadRsp ==
    /\ main \in {"reading", "sent"} /\ rspq # <<>>
    /\ rspq' = Tail(rspq)
    /\ main' = "update"
    /\ mainNew' = Head(rspq).settings
    /\ mainTodo' = Bit
    /\ overlap' = (rx = "update")
    /\ UNCHANGED <<iutVars, flight, cache, rxVars, raced>>

\* Mutant: bits are set and never cleared.
SetOnly(b) ==
    /\ main = "update" /\ b \in mainTodo
    /\ cache' = [cache EXCEPT ![b] = cache[b] \/ mainNew[b]]
    /\ mainTodo' = mainTodo \ {b}
    /\ UNCHANGED <<iutVars, flight, rspq, rxVars, main, mainNew, raced, overlap>>

Set(b) ==
    /\ main = "update" /\ b \in mainTodo
    /\ cache' = [cache EXCEPT ![b] = mainNew[b]]
    /\ mainTodo' = mainTodo \ {b}
    /\ UNCHANGED <<iutVars, flight, rspq, rxVars, main, mainNew, raced, overlap>>

\* Mutant: the loop stops one bit early.
DoneEarly ==
    /\ main = "update" /\ \A b, c \in mainTodo : b = c
    /\ main' = "idle"
    /\ UNCHANGED <<iutVars, flight, rspq, cache, rxVars, mainNew, mainTodo, raced,
                   overlap>>

Done ==
    /\ main = "update" /\ mainTodo = {}
    /\ main' = "idle"
    /\ UNCHANGED <<iutVars, flight, rspq, cache, rxVars, mainNew, mainTodo, raced,
                   overlap>>

\* read() raises Empty, or btp_hdr_check() an error.
Fail ==
    /\ main \in {"reading", "sent"}
    /\ main' = "failed"
    /\ UNCHANGED <<iutVars, flight, rspq, cache, rxVars, mainNew, mainTodo, raced,
                   overlap>>

CacheNext ==
    \/ \E s \in Settings :
          \/ \E c \in Command \cup {ReadCtrlInfo} : Answer(c, s)
          \/ ChangeItself(s)
    \/ RxResponse
    \/ RxEvent
    \/ RxDone
    \/ GapInit
    \/ \E c \in Command : Send(c)
    \/ ReadRsp
    \/ \E b \in Bit : RxSet(b) \/ Set(b)
    \/ Done
    \/ Fail

CacheSpec == CacheInit /\ [][CacheNext]_cacheVars

-----------------------------------------------------------------------------
\* When nothing is under way the cache shows the IUT's settings, so a command
\* that returns early leaves the IUT as its caller asked.  The exception is an
\* event that overtook the response before it: the test wrote the older
\* settings over the newer ones, and its next command may return early although
\* the IUT has, say, stopped advertising.
CacheFollowsIut ==
    (main = "idle" /\ rx = "idle" /\ flight = <<>> /\ ~raced) => cache = iut

\* The cache is the whole of some report, stale perhaps, and mixes two reports
\* only when both threads were in their loops at the same time.
CacheNotTorn ==
    (main = "idle" /\ rx = "idle" /\ ~overlap) => cache \in {rxNew, mainNew}

-----------------------------------------------------------------------------
(* The inductive invariant behind them.                                      *)

\* Only a test that waits for it has a response under way, and only one.
OneResponse ==
    /\ pending # {} => main \in {"reading", "sent", "failed"} /\ rspq = <<>>
    /\ \A i \in DOMAIN flight : flight[i].kind = "rsp" =>
          /\ main \in {"reading", "sent", "failed"}
          /\ pending = {} /\ rspq = <<>>
          /\ \A j \in DOMAIN flight : flight[j].kind = "rsp" => i = j
    /\ rspq # <<>> => main \in {"reading", "sent", "failed"} /\ Len(rspq) = 1
    /\ rx = "dead" => main \in {"registered", "reading", "failed"} /\ rspq = <<>>
    /\ main = "registered" => rx # "update" /\ rxNew = NoSettings

\* The last frame under way has what the IUT has.
NewestInFlight == flight # <<>> => flight[Len(flight)].settings = iut

\* When no event has overtaken a response, whoever holds the newest report is
\* the only one that writes, and will leave the cache as it says.
NewestWins ==
    ~raced =>
        /\ rx = "update" => main # "update" /\ rspq = <<>>
        /\ rx = "update" \/ main = "update" => ~overlap
        /\ flight = <<>> /\ main \notin {"registered", "failed"} =>
              /\ rx = "update" => rxNew = iut
              /\ main = "update" => mainNew = iut
              /\ rspq # <<>> => rspq[1].settings = iut
              /\ rx # "update" /\ rspq = <<>> /\ main \in {"idle", "sent"}
                    => cache = iut

\* Where each update is.
Written ==
    ~overlap =>
        /\ ~(rx = "update" /\ main = "update")
        /\ rx = "update" => \A b \in Bit \ rxTodo : cache[b] = rxNew[b]
        /\ main = "update" => \A b \in Bit \ mainTodo : cache[b] = mainNew[b]
        /\ rx # "update" /\ main # "update" => cache \in {rxNew, mainNew}

CacheInv ==
    /\ CacheTypeOK
    /\ OneResponse
    /\ NewestInFlight
    /\ NewestWins
    /\ Written

=============================================================================
