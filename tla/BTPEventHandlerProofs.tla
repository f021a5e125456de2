----------------------- MODULE BTPEventHandlerProofs -----------------------
(***************************************************************************)
(* Theorems about BTPEventHandler, for any number of events, listeners,    *)
(* keys and workers.                                                       *)
(***************************************************************************)
EXTENDS BTPEventHandler, TLAPS

USE KeyAssumption, AcceptsAssumption, NoResultAssumption

\* Nothing is registered, nobody waits, and the receive thread is idle.
LEMMA InductiveInit == Init => IInv
<1> SUFFICES ASSUME Init
             PROVE  IInv
  OBVIOUS
<1>1. TypeOK
  BY DEF Init, TypeOK, Results
<1>2. Registry
  BY DEF Init, Registry, Released
<1>3. Walk
  BY DEF Init, Walk, Walking
<1>4. Releases
  BY DEF Init, Releases, Released, Listening
<1>5. FutureReturnsAppliedEvent /\ ListenerLostOnlyInRace
  BY DEF Init, FutureReturnsAppliedEvent, ListenerLostOnlyInRace
<1>6. QED
  BY <1>1, <1>2, <1>3, <1>4, <1>5 DEF IInv

-----------------------------------------------------------------------------
\* The receive thread.
LEMMA IgnoreStep ==
    ASSUME IInv, NEW e \in Event, Ignore(e)
    PROVE  IInv'
<1> USE DEF IInv, registryVars, rxVars, mainVars, poolVars, Ignore
<1>1. TypeOK'
  BY DEF TypeOK, Results, Walk
<1>2. Registry'
  BY DEF Registry, Released, TypeOK
<1>3. Walk'
  BY DEF Walk, Walking, Released, TypeOK
<1>4. Releases'
  BY DEF Releases, Released, Listening, Walk, Walking, Registry, TypeOK
<1>5. FutureReturnsAppliedEvent'
  BY DEF FutureReturnsAppliedEvent, Releases, Released, TypeOK
<1>6. ListenerLostOnlyInRace'
  BY DEF ListenerLostOnlyInRace, Listening, Released, Registry, TypeOK
<1>7. QED
  BY <1>1, <1>2, <1>3, <1>4, <1>5, <1>6

LEMMA ReceiveStep ==
    ASSUME IInv, NEW e \in Event, Receive(e)
    PROVE  IInv'
<1> USE DEF IInv, registryVars, rxVars, mainVars, poolVars, Receive
<1>1. TypeOK'
  BY DEF TypeOK, Results, Walk
<1>2. Registry'
  BY DEF Registry, Released, TypeOK
<1>3. Walk'
  BY DEF Walk, Walking, Released, TypeOK
<1>4. Releases'
  BY DEF Releases, Released, Listening, Walk, Walking, Registry, TypeOK
<1>5. FutureReturnsAppliedEvent'
  BY DEF FutureReturnsAppliedEvent, Releases, Released, TypeOK
<1>6. ListenerLostOnlyInRace'
  BY DEF ListenerLostOnlyInRace, Listening, Released, Registry, TypeOK
<1>7. QED
  BY <1>1, <1>2, <1>3, <1>4, <1>5, <1>6

LEMMA RunCallbackStep ==
    ASSUME IInv, RunCallback
    PROVE  IInv'
<1> USE DEF IInv, registryVars, rxVars, mainVars, poolVars, RunCallback
<1>1. TypeOK'
  BY DEF TypeOK, Results, Walk
<1>2. Registry'
  BY DEF Registry, Released, TypeOK
<1>3. Walk'
  BY DEF Walk, Walking, Released, TypeOK
<1>4. Releases'
  BY DEF Releases, Released, Listening, Walk, Walking, Registry, TypeOK
<1>5. FutureReturnsAppliedEvent'
  BY DEF FutureReturnsAppliedEvent, Releases, Released, TypeOK
<1>6. ListenerLostOnlyInRace'
  BY DEF ListenerLostOnlyInRace, Listening, Released, Registry, TypeOK
<1>7. QED
  BY <1>1, <1>2, <1>3, <1>4, <1>5, <1>6

LEMMA HandlerCreatesStep ==
    ASSUME IInv, HandlerCreates
    PROVE  IInv'
<1> USE DEF IInv, registryVars, rxVars, mainVars, poolVars, HandlerCreates, NewDict, KeysOf, Service
<1>1. TypeOK'
  BY DEF TypeOK, Results, Walk
<1>2. Registry'
  BY DEF Registry, Released, TypeOK, Walk, Walking
<1>3. Walk'
  BY DEF Walk, Walking, Released, TypeOK
<1>4. Releases'
  BY DEF Releases, Released, Listening, Walk, Walking, Registry, TypeOK
<1>5. FutureReturnsAppliedEvent'
  BY DEF FutureReturnsAppliedEvent, Releases, Released, TypeOK
<1>6. ListenerLostOnlyInRace'
  BY DEF ListenerLostOnlyInRace, Listening, Released, Registry, TypeOK, Walk, Walking
<1>7. QED
  BY <1>1, <1>2, <1>3, <1>4, <1>5, <1>6

LEMMA HandlerRaisesStep ==
    ASSUME IInv, HandlerRaises
    PROVE  IInv'
<1> USE DEF IInv, registryVars, rxVars, mainVars, poolVars, HandlerRaises, Walked
<1>1. TypeOK'
  BY DEF TypeOK, Results, Walk
<1>2. Registry'
  BY DEF Registry, Released, TypeOK
<1>3. Walk'
  BY DEF Walk, Walking, Released, TypeOK
<1>4. Releases'
  BY DEF Releases, Released, Listening, Walk, Walking, Registry, TypeOK
<1>5. FutureReturnsAppliedEvent'
  BY DEF FutureReturnsAppliedEvent, Releases, Released, TypeOK
<1>6. ListenerLostOnlyInRace'
  BY DEF ListenerLostOnlyInRace, Listening, Released, Registry, TypeOK
<1>7. QED
  BY <1>1, <1>2, <1>3, <1>4, <1>5, <1>6

LEMMA NotifyStep ==
    ASSUME IInv, NEW l \in Listener, Notify(l)
    PROVE  IInv'
<1> USE DEF IInv, registryVars, rxVars, mainVars, poolVars, Notify, Walked
<1>1. TypeOK'
  BY DEF TypeOK, Results, Walk
<1>2. Registry'
  BY DEF Registry, Released, TypeOK
<1>3. Walk'
  BY DEF Walk, Walking, Released, TypeOK, Registry
<1>4. Releases'
  BY DEF Releases, Released, Listening, Walk, Walking, Registry, TypeOK
<1>5. FutureReturnsAppliedEvent'
  BY DEF FutureReturnsAppliedEvent, Releases, Released, TypeOK
<1>6. ListenerLostOnlyInRace'
  BY DEF ListenerLostOnlyInRace, Listening, Released, Registry, TypeOK
<1>7. QED
  BY <1>1, <1>2, <1>3, <1>4, <1>5, <1>6

LEMMA EndLoopStep ==
    ASSUME IInv, EndLoop
    PROVE  IInv'
<1> USE DEF IInv, registryVars, rxVars, mainVars, poolVars, EndLoop, Walked
<1>1. TypeOK'
  BY DEF TypeOK, Results, Walk
<1>2. Registry'
  BY DEF Registry, Released, TypeOK
<1>3. Walk'
  BY DEF Walk, Walking, Released, TypeOK
<1>4. Releases'
  BY DEF Releases, Released, Listening, Walk, Walking, Registry, TypeOK
<1>5. FutureReturnsAppliedEvent'
  BY DEF FutureReturnsAppliedEvent, Releases, Released, TypeOK
<1>6. ListenerLostOnlyInRace'
  BY DEF ListenerLostOnlyInRace, Listening, Released, Registry, TypeOK
<1>7. QED
  BY <1>1, <1>2, <1>3, <1>4, <1>5, <1>6

LEMMA SubtractStep ==
    ASSUME IInv, Subtract
    PROVE  IInv'
<1> USE DEF IInv, registryVars, rxVars, mainVars, poolVars, Subtract, Walked
<1>1. TypeOK'
  BY DEF TypeOK, Results, Walk
<1>2. Registry'
  BY DEF Registry, Released, TypeOK
<1>3. Walk'
  BY DEF Walk, Walking, Released, TypeOK
<1>4. Releases'
  BY DEF Releases, Released, Listening, Walk, Walking, Registry, TypeOK
<1>5. FutureReturnsAppliedEvent'
  BY DEF FutureReturnsAppliedEvent, Releases, Released, TypeOK
<1>6. ListenerLostOnlyInRace'
  BY DEF ListenerLostOnlyInRace, Listening, Released, Registry, TypeOK
<1>7. QED
  BY <1>1, <1>2, <1>3, <1>4, <1>5, <1>6

LEMMA StoreStep ==
    ASSUME IInv, Store
    PROVE  IInv'
<1> USE DEF IInv, registryVars, rxVars, mainVars, poolVars, Store
<1>1. TypeOK'
  BY DEF TypeOK, Results, Walk
<1>2. Registry'
  BY DEF Registry, Released, TypeOK, Walk, Walking
<1>3. Walk'
  BY DEF Walk, Walking, Released, TypeOK
<1>4. Releases'
  BY DEF Releases, Released, Listening, Walk, Walking, Registry, TypeOK
<1>5. FutureReturnsAppliedEvent'
  BY DEF FutureReturnsAppliedEvent, Releases, Released, TypeOK
<1>6. ListenerLostOnlyInRace'
  BY DEF ListenerLostOnlyInRace, Listening, Released, Registry, TypeOK, Walk, Walking
<1>7. QED
  BY <1>1, <1>2, <1>3, <1>4, <1>5, <1>6

-----------------------------------------------------------------------------
\* The test and the executor.
LEMMA LookUpStep ==
    ASSUME IInv, NEW l \in Listener, LookUp(l)
    PROVE  IInv'
<1> USE DEF IInv, registryVars, rxVars, mainVars, poolVars, LookUp, KeysOf, Service
<1>1. TypeOK'
  BY DEF TypeOK, Results, Walk
<1>2. Registry'
  BY DEF Registry, Released, TypeOK
<1>3. Walk'
  BY DEF Walk, Walking, Released, TypeOK
<1>4. Releases'
  BY DEF Releases, Released, Listening, Walk, Walking, Registry, TypeOK
<1>5. FutureReturnsAppliedEvent'
  BY DEF FutureReturnsAppliedEvent, Releases, Released, TypeOK
<1>6. ListenerLostOnlyInRace'
  BY DEF ListenerLostOnlyInRace, Listening, Released, Registry, TypeOK
<1>7. QED
  BY <1>1, <1>2, <1>3, <1>4, <1>5, <1>6

LEMMA CreatesStep ==
    ASSUME IInv, NEW l \in Listener, Creates(l)
    PROVE  IInv'
<1> USE DEF IInv, registryVars, rxVars, mainVars, poolVars, Creates, NewDict, KeysOf, Service, Walking
<1>1. TypeOK'
  BY DEF TypeOK, Results, Walk
<1>2. Registry'
  BY DEF Registry, Released, TypeOK
<1>3. Walk'
  BY DEF Registry, Walk, Walking, Released, TypeOK
<1>4. Releases'
  BY DEF Releases, Released, Listening, Walk, Walking, Registry, TypeOK
<1>5. FutureReturnsAppliedEvent'
  BY DEF FutureReturnsAppliedEvent, Releases, Released, TypeOK
<1>6. ListenerLostOnlyInRace'
  BY DEF ListenerLostOnlyInRace, Listening, Released, Registry, TypeOK
<1>7. QED
  BY <1>1, <1>2, <1>3, <1>4, <1>5, <1>6

LEMMA AppendListenerStep ==
    ASSUME IInv, NEW l \in Listener, AppendListener(l)
    PROVE  IInv'
<1> USE DEF IInv, registryVars, rxVars, mainVars, poolVars, AppendListener, Missed, KeysOf, Service
<1>1. TypeOK'
  BY DEF TypeOK, Results, Walk
<1>2. Registry'
  BY DEF Registry, Released, TypeOK
<1>3. Walk'
  BY DEF Walk, Walking, Released, TypeOK
<1>4. Releases'
  BY DEF Releases, Released, Listening, Walk, Walking, Registry, TypeOK
<1>5. FutureReturnsAppliedEvent'
  BY DEF FutureReturnsAppliedEvent, Releases, Released, TypeOK
<1>6. ListenerLostOnlyInRace'
  BY DEF ListenerLostOnlyInRace, Listening, Released, Registry, TypeOK
<1>7. QED
  BY <1>1, <1>2, <1>3, <1>4, <1>5, <1>6

LEMMA SubmitStep ==
    ASSUME IInv, NEW l \in Listener, Submit(l)
    PROVE  IInv'
<1> USE DEF IInv, registryVars, rxVars, mainVars, poolVars, Submit
<1>1. TypeOK'
  BY DEF TypeOK, Results, Walk
<1>2. Registry'
  BY DEF Registry, Released, TypeOK
<1>3. Walk'
  BY DEF Walk, Walking, Released, TypeOK, Registry
<1>4. Releases'
  BY DEF Releases, Released, Listening, Walk, Walking, Registry, TypeOK
<1>5. FutureReturnsAppliedEvent'
  BY DEF FutureReturnsAppliedEvent, Releases, Released, TypeOK
<1>6. ListenerLostOnlyInRace'
  BY DEF ListenerLostOnlyInRace, Listening, Released, Registry, TypeOK
<1>7. QED
  BY <1>1, <1>2, <1>3, <1>4, <1>5, <1>6

LEMMA StartFutureStep ==
    ASSUME IInv, NEW l \in Listener, StartFuture(l)
    PROVE  IInv'
<1> USE DEF IInv, registryVars, rxVars, mainVars, poolVars, StartFuture
<1>1. TypeOK'
  BY DEF TypeOK, Results, Walk
<1>2. Registry'
  BY DEF Registry, Released, TypeOK
<1>3. Walk'
  BY DEF Walk, Walking, Released, TypeOK
<1>4. Releases'
  BY DEF Releases, Released, Listening, Walk, Walking, Registry, TypeOK
<1>5. FutureReturnsAppliedEvent'
  BY DEF FutureReturnsAppliedEvent, Releases, Released, TypeOK
<1>6. ListenerLostOnlyInRace'
  BY DEF ListenerLostOnlyInRace, Listening, Released, Registry, TypeOK
<1>7. QED
  BY <1>1, <1>2, <1>3, <1>4, <1>5, <1>6

LEMMA FinishFutureStep ==
    ASSUME IInv, NEW l \in Listener, FinishFuture(l)
    PROVE  IInv'
<1> USE DEF IInv, registryVars, rxVars, mainVars, poolVars, FinishFuture
<1>1. TypeOK'
  BY DEF TypeOK, Results, Walk
<1>2. Registry'
  BY DEF Registry, Released, TypeOK
<1>3. Walk'
  BY DEF Walk, Walking, Released, TypeOK
<1>4. Releases'
  BY DEF Releases, Released, Listening, Walk, Walking, Registry, TypeOK
<1>5. FutureReturnsAppliedEvent'
  BY DEF FutureReturnsAppliedEvent, Releases, Released, TypeOK
<1>6. ListenerLostOnlyInRace'
  BY DEF ListenerLostOnlyInRace, Listening, Released, Registry, TypeOK
<1>7. QED
  BY <1>1, <1>2, <1>3, <1>4, <1>5, <1>6

LEMMA WaitStep ==
    ASSUME IInv, Wait
    PROVE  IInv'
<1> USE DEF IInv, registryVars, rxVars, mainVars, poolVars, Wait
<1>1. TypeOK'
  BY DEF TypeOK, Results, Walk
<1>2. Registry'
  BY DEF Registry, Released, TypeOK
<1>3. Walk'
  BY DEF Walk, Walking, Released, TypeOK
<1>4. Releases'
  BY DEF Releases, Released, Listening, Walk, Walking, Registry, TypeOK
<1>5. FutureReturnsAppliedEvent'
  BY DEF FutureReturnsAppliedEvent, Releases, Released, TypeOK
<1>6. ListenerLostOnlyInRace'
  BY DEF ListenerLostOnlyInRace, Listening, Released, Registry, TypeOK
<1>7. QED
  BY <1>1, <1>2, <1>3, <1>4, <1>5, <1>6

LEMMA WaitDoneStep ==
    ASSUME IInv, WaitDone
    PROVE  IInv'
<1> USE DEF IInv, registryVars, rxVars, mainVars, poolVars, WaitDone
<1>1. TypeOK'
  BY DEF TypeOK, Results, Walk
<1>2. Registry'
  BY DEF Registry, Released, TypeOK
<1>3. Walk'
  BY DEF Walk, Walking, Released, TypeOK
<1>4. Releases'
  BY DEF Releases, Released, Listening, Walk, Walking, Registry, TypeOK
<1>5. FutureReturnsAppliedEvent'
  BY DEF FutureReturnsAppliedEvent, Releases, Released, TypeOK
<1>6. ListenerLostOnlyInRace'
  BY DEF ListenerLostOnlyInRace, Listening, Released, Registry, TypeOK
<1>7. QED
  BY <1>1, <1>2, <1>3, <1>4, <1>5, <1>6

LEMMA WaitTimeoutStep ==
    ASSUME IInv, WaitTimeout
    PROVE  IInv'
<1> USE DEF IInv, registryVars, rxVars, mainVars, poolVars, WaitTimeout
<1>1. TypeOK'
  BY DEF TypeOK, Results, Walk
<1>2. Registry'
  BY DEF Registry, Released, TypeOK
<1>3. Walk'
  BY DEF Walk, Walking, Released, TypeOK
<1>4. Releases'
  BY DEF Releases, Released, Listening, Walk, Walking, Registry, TypeOK
<1>5. FutureReturnsAppliedEvent'
  BY DEF FutureReturnsAppliedEvent, Releases, Released, TypeOK
<1>6. ListenerLostOnlyInRace'
  BY DEF ListenerLostOnlyInRace, Listening, Released, Registry, TypeOK
<1>7. QED
  BY <1>1, <1>2, <1>3, <1>4, <1>5, <1>6

LEMMA ClearStep ==
    ASSUME IInv, Clear
    PROVE  IInv'
<1> USE DEF IInv, registryVars, rxVars, mainVars, poolVars, Clear
<1>1. TypeOK'
  BY DEF TypeOK, Results, Walk
<1>2. Registry'
  BY DEF Registry, Released, TypeOK
<1>3. Walk'
  BY DEF Walk, Walking, Released, TypeOK
<1>4. Releases'
  BY DEF Releases, Released, Listening, Walk, Walking, Registry, TypeOK
<1>5. FutureReturnsAppliedEvent'
  BY DEF FutureReturnsAppliedEvent, Releases, Released, TypeOK
<1>6. ListenerLostOnlyInRace'
  BY DEF ListenerLostOnlyInRace, Listening, Released, Registry, TypeOK
<1>7. QED
  BY <1>1, <1>2, <1>3, <1>4, <1>5, <1>6

LEMMA StutterStep ==
    ASSUME IInv, UNCHANGED vars
    PROVE  IInv'
<1> USE DEF IInv, registryVars, rxVars, mainVars, poolVars
<1>1. TypeOK'
  BY DEF TypeOK, Results, Walk, vars
<1>2. Registry'
  BY DEF Registry, Released, TypeOK, vars
<1>3. Walk'
  BY DEF Walk, Walking, Released, TypeOK, vars
<1>4. Releases'
  BY DEF Releases, Released, Listening, Walk, Walking, Registry, TypeOK, vars
<1>5. FutureReturnsAppliedEvent'
  BY DEF FutureReturnsAppliedEvent, Releases, Released, TypeOK, vars
<1>6. ListenerLostOnlyInRace'
  BY DEF ListenerLostOnlyInRace, Listening, Released, Registry, TypeOK, vars
<1>7. QED
  BY <1>1, <1>2, <1>3, <1>4, <1>5, <1>6

-----------------------------------------------------------------------------
\* Every step of the three kinds of thread keeps the invariant.
LEMMA InductiveStep == IInv /\ [Next]_vars => IInv'
<1> SUFFICES ASSUME IInv, [Next]_vars
             PROVE  IInv'
  OBVIOUS
<1>1. CASE \E e \in Event : Ignore(e) \/ Receive(e)
  BY <1>1, IgnoreStep, ReceiveStep
<1>2. CASE HandleEvent
  BY <1>2, RunCallbackStep, HandlerCreatesStep, HandlerRaisesStep, NotifyStep, EndLoopStep,
     SubtractStep, StoreStep DEF HandleEvent
<1>3. CASE \E l \in Listener : LookUp(l) \/ RegisterSteps(l) \/ PoolSteps(l)
  BY <1>3, LookUpStep, CreatesStep, AppendListenerStep, SubmitStep, StartFutureStep,
     FinishFutureStep DEF RegisterSteps, PoolSteps
<1>4. CASE Wait \/ WaitDone \/ WaitTimeout \/ Clear
  BY <1>4, WaitStep, WaitDoneStep, WaitTimeoutStep, ClearStep
<1>5. CASE UNCHANGED vars
  BY <1>5, StutterStep
<1>6. QED
  BY <1>1, <1>2, <1>3, <1>4, <1>5 DEF Next

\* So it holds of every reachable state of the handler.
LEMMA InductiveInvariant == Spec => []IInv
BY InductiveInit, InductiveStep, PTL DEF Spec

\* The registry, the semaphores and the futures keep their types: no semaphore
\* is ever acquired below zero.
THEOREM TypeCorrect == Spec => []TypeOK
<1>1. IInv => TypeOK
  BY DEF IInv
<1>2. QED
  BY <1>1, InductiveInvariant, PTL

\* However registrations, events and clear_listeners interleave, a listener is
\* released once, unless the handler dies in the middle of its walk.
THEOREM ReleasedOnceCorrect == Spec => []ReleasedOnce
<1>1. IInv => ReleasedOnce
  BY DEF IInv, TypeOK, Releases, ReleasedOnce, Walking
<1>2. QED
  BY <1>1, InductiveInvariant, PTL

\* A registered listener stays in the registry until it is released, unless
\* its list or its service's dict was being replaced while it was appended.
THEOREM ListenerLostOnlyInRaceCorrect == Spec => []ListenerLostOnlyInRace
<1>1. IInv => ListenerLostOnlyInRace
  BY DEF IInv
<1>2. QED
  BY <1>1, InductiveInvariant, PTL

\* A future returns an event its verify_f holds of and that the stack shows,
\* or None when the test is over.
THEOREM FutureReturnsAppliedEventCorrect == Spec => []FutureReturnsAppliedEvent
<1>1. IInv => FutureReturnsAppliedEvent
  BY DEF IInv
<1>2. QED
  BY <1>1, InductiveInvariant, PTL

\* Only the loop of the handler writes a result, and it never comes to a
\* listener that has one.
LEMMA ResultStep ==
    IInv /\ [Next]_vars =>
        [\A l \in Listener : result[l] # NoResult => result'[l] = result[l]]_vars
<1> SUFFICES ASSUME IInv, Next
             PROVE  \A l \in Listener : result[l] # NoResult => result'[l] = result[l]
  OBVIOUS
<1>1. CASE UNCHANGED result
  BY <1>1
<1>2. ASSUME NEW m \in Listener, Notify(m)
      PROVE  result[m] = NoResult /\ \A l \in Listener \ {m} : result'[l] = result[l]
  <2>1. m \in listeners[KeyOf[event]] \ visited /\ rx = "notify"
    BY <1>2 DEF Notify, Walked
  <2>2. Listening(m) /\ m \notin to_remove
    BY <2>1 DEF IInv, TypeOK, Registry, Walk, Walking, Listening
  <2>3. result[m] = NoResult
    BY <2>2 DEF IInv, Releases
  <2>4. QED
    BY <1>2, <2>3 DEF Notify, IInv, TypeOK
<1>3. (\E m \in Listener : Notify(m)) \/ UNCHANGED result
  BY DEF Next, Ignore, Receive, HandleEvent, RunCallback, HandlerCreates, HandlerRaises, EndLoop,
     Subtract, Store, LookUp, RegisterSteps, Creates, AppendListener, Submit, PoolSteps,
     StartFuture, FinishFuture, Wait, WaitDone, WaitTimeout, Clear
<1>4. QED
  BY <1>1, <1>2, <1>3

\* An event found for a listener is never replaced by a later one.
THEOREM ResultIsFinalCorrect == Spec => ResultIsFinal
BY InductiveInvariant, ResultStep, PTL DEF Spec, ResultIsFinal

=============================================================================
