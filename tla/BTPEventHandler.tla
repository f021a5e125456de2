--------------------------- MODULE BTPEventHandler ---------------------------
(***************************************************************************)
(* BTPEventHandler and BTPEventListener of pybtp/btp.py: a test registers  *)
(* listeners for the events of an IUT and waits for their futures, while   *)
(* the receive thread runs the handler on each event it reads.             *)
(*                                                                         *)
(* Three kinds of thread share the registry without a lock: the test       *)
(* (main), the receive thread (rx) and the workers of the executor, each   *)
(* of which blocks in BTPEventListener.acquire().  A registry entry is a   *)
(* list object: main looks it up and appends to it in two steps, rx walks  *)
(* it and then replaces it by another object.  The order of a list does    *)
(* not matter here, so an entry is the set of its listeners; that main may *)
(* still hold the object rx has replaced is "stale".                       *)
(*                                                                         *)
(* The lists of a service are in a dict that its first look-up creates.    *)
(* The factory of the outer defaultdict is a Python function, so another   *)
(* thread may run before what it returns is put into the registry, and     *)
(* create a dict of its own: the later of the two replaces the other.      *)
(***************************************************************************)
EXTENDS Naturals, FiniteSets

CONSTANTS
    Key,         \* the (svc_id, op) pairs events have
    Event,       \* occurrences of events
    Listener,    \* listeners a test may register
    ServiceOf,   \* the svc_id of a key
    KeyOf,       \* the (svc_id, op) of an event
    For,         \* the (svc_id, op) a listener is registered for
    Accepts,     \* the events its verify_f holds of
    Handled,     \* the events that have an entry in self.callbacks
    Workers,     \* max_workers of the ThreadPoolExecutor
    NoResult     \* None

ASSUME KeyAssumption == KeyOf \in [Event -> Key] /\ For \in [Listener -> Key]
ASSUME AcceptsAssumption == Accepts \in [Listener -> SUBSET Event]
ASSUME NoResultAssumption == NoResult \notin Event

VARIABLES
    listeners,   \* self.listeners
    made,        \* the services that have a dict in it
    applied,     \* events whose callback has updated the stack
    delivered,   \* events the IUT has sent
    rx,          \* where the receive thread is
    event,       \* the event it is handling
    visited,     \* listeners its loop has verified
    to_remove,   \* those whose verify() returned True
    kept,        \* the list that is about to replace the entry
    own,         \* it walks a list of a dict that main's has replaced
    main,        \* where the test is
    reg,         \* the listener it is registering
    stale,       \* the list it has looked up is no longer the entry
    registered,  \* history: listeners appended to a list
    raced,       \* history: those in a list or a dict that was being replaced
    sem,         \* value of each listener's semaphore
    result,      \* _result of each listener
    future,      \* state of the future of its acquire()
    value        \* what that future returned

registryVars == <<listeners, made>>
rxVars == <<rx, event, visited, to_remove, kept, own>>
mainVars == <<main, reg>>
poolVars == <<future, value>>
vars == <<registryVars, applied, delivered, rxVars, mainVars, stale,
          registered, raced, sem, result, poolVars>>

Results == Event \cup {NoResult}
Service == {ServiceOf[k] : k \in Key}

TypeOK ==
    /\ listeners \in [Key -> SUBSET Listener]
    /\ made \in SUBSET Service
    /\ applied \in SUBSET Event /\ delivered \in SUBSET Event
    /\ rx \in {"idle", "callback", "create", "notify", "subtract", "store", "dead"}
    /\ event \in Results
    /\ visited \in SUBSET Listener
    /\ to_remove \in SUBSET Listener
    /\ kept \in SUBSET Listener
    /\ own \in BOOLEAN
    /\ main \in {"idle", "create", "append", "submit", "wait", "failed", "ended"}
    /\ reg \in SUBSET Listener
    /\ stale \in BOOLEAN
    /\ registered \in SUBSET Listener /\ raced \in SUBSET Listener
    /\ sem \in [Listener -> Nat]
    /\ result \in [Listener -> Results]
    /\ future \in [Listener -> {"none", "queued", "blocked", "done"}]
    /\ value \in [Listener -> Results]

Init ==
    /\ listeners = [k \in Key |-> {}] /\ made = {}
    /\ applied = {} /\ delivered = {}
    /\ rx = "idle" /\ event = NoResult
    /\ visited = {} /\ to_remove = {} /\ kept = {} /\ own = FALSE
    /\ main = "idle" /\ reg = {} /\ stale = FALSE
    /\ registered = {} /\ raced = {}
    /\ sem = [l \in Listener |-> 0]
    /\ result = [l \in Listener |-> NoResult]
    /\ future = [l \in Listener |-> "none"]
    /\ value = [l \in Listener |-> NoResult]

-----------------------------------------------------------------------------
\* A service gets a dict of its own that has no lists yet.
KeysOf(s) == {k \in Key : ServiceOf[k] = s}
NewDict(s) == [k \in Key |-> IF k \in KeysOf(s) THEN {} ELSE listeners[k]]

-----------------------------------------------------------------------------
\* The receive thread, in __call__.

\* An event without a callback, or before the IUT has a stack: __call__ returns
\* False and leaves no trace.
Ignore(e) ==
    /\ rx = "idle" /\ main # "ended"
    /\ e \in Event \ (Handled \cup delivered)
    /\ delivered' = delivered \cup {e}
    /\ UNCHANGED <<registryVars, applied, rxVars, mainVars, stale, registered,
                   raced, sem, result, poolVars>>

Receive(e) ==
    /\ rx = "idle" /\ main # "ended"
    /\ e \in Handled \ delivered
    /\ delivered' = delivered \cup {e}
    /\ rx' = "callback"
    /\ event' = e
    /\ UNCHANGED <<registryVars, applied, visited, to_remove, kept, own, mainVars,
                   stale, registered, raced, sem, result, poolVars>>

\* cb(stack, ...) and the look-up of the list: a service without a dict gets
\* one first.
RunCallback ==
    /\ rx = "callback"
    /\ applied' = applied \cup {event}
    /\ rx' = IF ServiceOf[KeyOf[event]] \in made THEN "notify" ELSE "create"
    /\ visited' = {} /\ to_remove' = {} /\ own' = FALSE
    /\ UNCHANGED <<registryVars, delivered, event, kept, mainVars, stale,
                   registered, raced, sem, result, poolVars>>

\* The dict that was created for it takes the place of one the test may have
\* put there since, with all its listeners; a list that is looked up in that
\* one is stale.
HandlerCreates ==
    /\ rx = "create"
    /\ LET s == ServiceOf[KeyOf[event]] IN
       /\ listeners' = NewDict(s)
       /\ made' = made \cup {s}
       /\ raced' = raced \cup UNION {listeners[k] : k \in KeysOf(s)}
       /\ stale' = (stale \/ \E l \in reg : main = "append" /\ ServiceOf[For[l]] = s)
    /\ rx' = "notify"
    /\ UNCHANGED <<applied, delivered, event, visited, to_remove, kept, own,
                   mainVars, registered, sem, result, poolVars>>

Walking == rx \in {"notify", "subtract", "store"}

\* The list the loop walks.
Walked == IF own THEN {} ELSE listeners[KeyOf[event]]

\* The callback raises, or the verify_f of a listener the loop has come to:
\* nothing above catches that, and the thread ends.
HandlerRaises ==
    /\ \/ rx = "callback"
       \/ rx = "notify" /\ ~(Walked \subseteq visited)
    /\ rx' = "dead"
    /\ UNCHANGED <<registryVars, applied, delivered, event, visited, to_remove,
                   kept, own, mainVars, stale, registered, raced, sem, result,
                   poolVars>>

\* Mutant: the listener is released whatever verify() returned.
NotifyAlways(l) ==
    /\ rx = "notify"
    /\ l \in Walked \ visited
    /\ visited' = visited \cup {l}
    /\ result' = IF event \in Accepts[l] THEN [result EXCEPT ![l] = event]
                                         ELSE result
    /\ sem' = [sem EXCEPT ![l] = @ + 1]
    /\ to_remove' = to_remove \cup {l}
    /\ UNCHANGED <<registryVars, applied, delivered, rx, event, kept, own,
                   mainVars, stale, registered, raced, poolVars>>

\* Mutant: verify() stores its argument before it looks at verify_f.
NotifyStoresFirst(l) ==
    /\ rx = "notify"
    /\ l \in Walked \ visited
    /\ visited' = visited \cup {l}
    /\ result' = [result EXCEPT ![l] = event]
    /\ IF event \in Accepts[l]
       THEN /\ sem' = [sem EXCEPT ![l] = @ + 1]
            /\ to_remove' = to_remove \cup {l}
       ELSE UNCHANGED <<sem, to_remove>>
    /\ UNCHANGED <<registryVars, applied, delivered, rx, event, kept, own,
                   mainVars, stale, registered, raced, poolVars>>

\* One turn of the loop: verify() and, when it holds, release().  The loop
\* also reaches what is appended to the list while it runs.
Notify(l) ==
    /\ rx = "notify"
    /\ l \in Walked \ visited
    /\ visited' = visited \cup {l}
    /\ IF event \in Accepts[l]
       THEN /\ result' = [result EXCEPT ![l] = event]
            /\ sem' = [sem EXCEPT ![l] = @ + 1]
            /\ to_remove' = to_remove \cup {l}
       ELSE UNCHANGED <<result, sem, to_remove>>
    /\ UNCHANGED <<registryVars, applied, delivered, rx, event, kept, own,
                   mainVars, stale, registered, raced, poolVars>>

EndLoop ==
    /\ rx = "notify"
    /\ Walked \subseteq visited
    /\ rx' = "subtract"
    /\ UNCHANGED <<registryVars, applied, delivered, event, visited, to_remove,
                   kept, own, mainVars, stale, registered, raced, sem, result,
                   poolVars>>

\* Mutant: the new list is made of the listeners the loop has walked over.
SubtractFromVisited ==
    /\ rx = "subtract"
    /\ kept' = visited \ to_remove
    /\ rx' = "store"
    /\ UNCHANGED <<registryVars, applied, delivered, event, visited, to_remove,
                   own, mainVars, stale, registered, raced, sem, result, poolVars>>

\* Mutant: released listeners stay in the list.
SubtractNothing ==
    /\ rx = "subtract"
    /\ kept' = Walked
    /\ rx' = "store"
    /\ UNCHANGED <<registryVars, applied, delivered, event, visited, to_remove,
                   own, mainVars, stale, registered, raced, sem, result, poolVars>>

\* list(set(listeners) - set(to_remove))
Subtract ==
    /\ rx = "subtract"
    /\ kept' = Walked \ to_remove
    /\ rx' = "store"
    /\ UNCHANGED <<registryVars, applied, delivered, event, visited, to_remove,
                   own, mainVars, stale, registered, raced, sem, result, poolVars>>

\* The entry becomes the new list; whoever had looked up the old one keeps it.
Store ==
    /\ rx = "store"
    /\ listeners' = [listeners EXCEPT ![KeyOf[event]] = kept]
    /\ stale' = (stale \/ \E l \in reg : main = "append" /\ For[l] = KeyOf[event])
    /\ rx' = "idle"
    /\ UNCHANGED <<made, applied, delivered, event, visited, to_remove, kept,
                   own, mainVars, registered, raced, sem, result, poolVars>>

HandleEvent ==
    \/ RunCallback
    \/ HandlerCreates
    \/ HandlerRaises
    \/ \E l \in Listener : Notify(l)
    \/ EndLoop
    \/ Subtract
    \/ Store

-----------------------------------------------------------------------------
\* The test: wait_for_event, wait_futures, and clear_listeners in stop().

\* self.listeners[svc_id][op] is looked up, which creates a dict for the first
\* listener of a service ...
LookUp(l) ==
    /\ main = "idle"
    /\ l \notin registered
    /\ main' = IF ServiceOf[For[l]] \in made THEN "append" ELSE "create"
    /\ reg' = {l}
    /\ stale' = FALSE
    /\ UNCHANGED <<registryVars, applied, delivered, rxVars, registered, raced,
                   sem, result, poolVars>>

\* ... that takes the place of one the receive thread may have put there since
\* and whose list it is walking ...
Creates(l) ==
    /\ main = "create" /\ l \in reg
    /\ LET s == ServiceOf[For[l]] IN
       /\ listeners' = NewDict(s)
       /\ made' = made \cup {s}
       /\ own' = (own \/ (Walking /\ ServiceOf[KeyOf[event]] = s))
    /\ main' = "append"
    /\ UNCHANGED <<applied, delivered, rx, event, visited, to_remove, kept, reg,
                   stale, registered, raced, sem, result, poolVars>>

\* The list that will replace the entry is made without what comes to the entry
\* now.
Missed(l) == Walking /\ For[l] = KeyOf[event] /\ (own \/ rx = "store")

\* ... and the listener is appended to what was found.
AppendListener(l) ==
    /\ main = "append" /\ l \in reg
    /\ IF stale
       THEN UNCHANGED listeners
       ELSE listeners' = [listeners EXCEPT ![For[l]] = @ \cup {l}]
    /\ registered' = registered \cup {l}
    /\ raced' = IF stale \/ Missed(l) THEN raced \cup {l} ELSE raced
    /\ main' = "submit"
    /\ UNCHANGED <<made, applied, delivered, rxVars, reg, stale, sem, result,
                   poolVars>>

Submit(l) ==
    /\ main = "submit" /\ l \in reg
    /\ future' = [future EXCEPT ![l] = "queued"]
    /\ main' = "idle"
    /\ reg' = {}
    /\ UNCHANGED <<registryVars, applied, delivered, rxVars, stale, registered,
                   raced, sem, result, value>>

Pending == {l \in registered : future[l] # "done"}

Wait ==
    /\ main = "idle" /\ registered # {}
    /\ main' = "wait"
    /\ UNCHANGED <<registryVars, applied, delivered, rxVars, reg, stale,
                   registered, raced, sem, result, poolVars>>

WaitDone ==
    /\ main = "wait" /\ Pending = {}
    /\ main' = "idle"
    /\ UNCHANGED <<registryVars, applied, delivered, rxVars, reg, stale,
                   registered, raced, sem, result, poolVars>>

\* wait_futures() raises TimeoutError; the futures that are not done stay so.
WaitTimeout ==
    /\ main = "wait" /\ Pending # {}
    /\ main' = "failed"
    /\ UNCHANGED <<registryVars, applied, delivered, rxVars, reg, stale,
                   registered, raced, sem, result, poolVars>>

\* Mutant: the registry is replaced and nobody released.
ClearWithoutRelease ==
    /\ main \in {"idle", "failed"}
    /\ rx \in {"idle", "dead"}
    /\ listeners' = [k \in Key |-> {}] /\ made' = {}
    /\ main' = "ended"
    /\ UNCHANGED <<applied, delivered, rxVars, reg, stale, registered, raced,
                   sem, result, poolVars>>

\* clear_listeners(): stop() has closed the worker, so rx has been joined.
Clear ==
    /\ main \in {"idle", "failed"}
    /\ rx \in {"idle", "dead"}
    /\ sem' = [l \in Listener |->
                  IF \E k \in Key : l \in listeners[k] THEN sem[l] + 1
                                                       ELSE sem[l]]
    /\ listeners' = [k \in Key |-> {}] /\ made' = {}
    /\ main' = "ended"
    /\ UNCHANGED <<applied, delivered, rxVars, reg, stale, registered, raced,
                   result, poolVars>>

-----------------------------------------------------------------------------
\* The executor: at most Workers futures run, and each blocks in acquire().

\* Mutant: a worker is not given back when its future is done.
BusyForever == {l \in Listener : future[l] \in {"blocked", "done"}}

Busy == {l \in Listener : future[l] = "blocked"}

StartFuture(l) ==
    /\ future[l] = "queued"
    /\ Cardinality(Busy) < Workers
    /\ future' = [future EXCEPT ![l] = "blocked"]
    /\ UNCHANGED <<registryVars, applied, delivered, rxVars, mainVars, stale,
                   registered, raced, sem, result, value>>

\* Mutant: acquire() does not block.
FinishAtOnce(l) ==
    /\ future[l] = "blocked"
    /\ sem' = [sem EXCEPT ![l] = @ - 1]
    /\ value' = [value EXCEPT ![l] = result[l]]
    /\ future' = [future EXCEPT ![l] = "done"]
    /\ UNCHANGED <<registryVars, applied, delivered, rxVars, mainVars, stale,
                   registered, raced, result>>

\* acquire() gets past the semaphore and returns the result.
FinishFuture(l) ==
    /\ future[l] = "blocked" /\ sem[l] > 0
    /\ sem' = [sem EXCEPT ![l] = @ - 1]
    /\ value' = [value EXCEPT ![l] = result[l]]
    /\ future' = [future EXCEPT ![l] = "done"]
    /\ UNCHANGED <<registryVars, applied, delivered, rxVars, mainVars, stale,
                   registered, raced, result>>

RegisterSteps(l) == Creates(l) \/ AppendListener(l) \/ Submit(l)
PoolSteps(l) == StartFuture(l) \/ FinishFuture(l)

Next ==
    \/ \E e \in Event : Ignore(e) \/ Receive(e)
    \/ HandleEvent
    \/ \E l \in Listener : LookUp(l) \/ RegisterSteps(l) \/ PoolSteps(l)
    \/ Wait
    \/ WaitDone
    \/ WaitTimeout
    \/ Clear

Spec == Init /\ [][Next]_vars

\* Runnable threads run: the handler, a registration that was begun, the
\* workers, and a teardown once wait_futures has given up.  Events are up to
\* the IUT, registrations and waits up to the test.
FairSpec ==
    /\ Spec
    /\ WF_vars(HandleEvent)
    /\ WF_vars(WaitTimeout)
    /\ WF_vars(main = "failed" /\ Clear)
    /\ \A l \in Listener : WF_vars(RegisterSteps(l)) /\ WF_vars(StartFuture(l))
                           /\ WF_vars(FinishFuture(l))

-----------------------------------------------------------------------------
Released(l) == sem[l] > 0 \/ future[l] = "done"
Listening(l) == l \in listeners[For[l]]

\* A registered listener is waiting in the registry or has been released.  The
\* one exception is a listener whose list, or whose service's dict, one of the
\* two threads was replacing while it was appended: it is in no list any more
\* and nobody will release it.
ListenerLostOnlyInRace ==
    \A l \in registered \ raced : Listening(l) \/ Released(l)

\* A listener is released once, by one event or by clear_listeners: it does
\* not stay behind in the registry for the next event to release it again,
\* although it is removed only after the whole list has been walked.  Only when
\* the handler dies in that walk will clear_listeners release it a second time.
ReleasedOnce ==
    \A l \in Listener :
        /\ rx # "dead" => sem[l] = 0 \/ (sem[l] = 1 /\ future[l] # "done")
        /\ Listening(l) /\ Released(l) => rx # "idle" /\ l \in to_remove

\* A future that returned an event returned one its verify_f holds of and
\* whose callback has updated the stack, so a test that reads the stack after
\* future.result() finds the event there.  None means that the test was over.
FutureReturnsAppliedEvent ==
    \A l \in Listener : future[l] = "done" =>
        \/ value[l] \in Accepts[l] \cap applied
        \/ value[l] = NoResult /\ main = "ended"

\* An event found for a listener is never replaced by a later one.
ResultIsFinal ==
    [][\A l \in Listener : result[l] # NoResult => result'[l] = result[l]]_vars

\* The workers are all taken by futures whose listeners nobody has released.
PoolExhausted ==
    Cardinality({l \in Listener : future[l] = "blocked" /\ sem[l] = 0}) = Workers

\* The future of a released listener completes, unless abandoned futures have
\* taken every worker.
ReleasedFutureCompletes ==
    \A l \in Listener :
        (sem[l] > 0) ~> (future[l] = "done" \/ PoolExhausted)

\* After clear_listeners no worker stays blocked, except for a listener lost
\* in the registration race: those keep their worker, and the interpreter that
\* joins it at exit, for ever.
ClearUnblocks ==
    \A l \in Listener :
        (main = "ended" /\ future[l] = "blocked") ~> (future[l] = "done" \/ l \in raced)

-----------------------------------------------------------------------------
(* The inductive invariant behind ReleasedOnce, ListenerLostOnlyInRace,      *)
(* FutureReturnsAppliedEvent and ResultIsFinal.                              *)

\* A list is in the dict of its service and holds registered listeners of its
\* key; nobody waits for, and nothing releases, a listener that is not
\* registered yet.
Registry ==
    /\ \A k \in Key : \A l \in listeners[k] :
          For[l] = k /\ l \in registered /\ ServiceOf[k] \in made
    /\ \A l, m \in reg : l = m
    /\ main \in {"create", "append"} => reg \cap registered = {}
    /\ main = "create" => \A l \in reg : \A k \in KeysOf(ServiceOf[For[l]]) : listeners[k] = {}
    /\ main = "append" => \A l \in reg : ServiceOf[For[l]] \in made
    /\ main = "submit" => reg \subseteq registered
    /\ \A l \in Listener :
          /\ future[l] # "none" => l \in registered /\ l \notin reg
          /\ Released(l) => l \in registered

\* Where the receive thread is in its event: what it will remove has been
\* released, what it will keep is all that has not, except for late comers.
Walk ==
    /\ rx \notin {"idle", "dead"} => event \in Event
    /\ rx = "create" => event \in applied /\ visited = {} /\ to_remove = {}
    /\ Walking =>
          /\ event \in applied
          /\ to_remove \subseteq visited
          /\ \A l \in to_remove : Released(l) /\ For[l] = KeyOf[event]
          /\ own => listeners[KeyOf[event]] \subseteq raced
    /\ rx = "store" =>
          /\ kept \cap to_remove = {}
          /\ kept \subseteq listeners[KeyOf[event]]
          /\ listeners[KeyOf[event]] \subseteq kept \cup to_remove \cup raced

\* What a release leaves behind, and what only a release does.
Releases ==
    \A l \in Listener :
        /\ rx # "dead" => sem[l] = 0 \/ (sem[l] = 1 /\ future[l] # "done")
        /\ Listening(l) /\ Released(l) => (Walking \/ rx = "dead") /\ l \in to_remove
        /\ result[l] # NoResult => Released(l) /\ result[l] \in Accepts[l] \cap applied
        /\ sem[l] > 0 => result[l] # NoResult \/ main = "ended"

IInv ==
    /\ TypeOK
    /\ Registry
    /\ Walk
    /\ Releases
    /\ FutureReturnsAppliedEvent
    /\ ListenerLostOnlyInRace

=============================================================================
