------------------------ MODULE ConnLifecycle_proofs ------------------------
(***************************************************************************)
(* Proofs about ConnLifecycle, for every set of connection classes and     *)
(* whether or not the creation of threads may fail: no thread outlives the *)
(* object, the deletion finds it closed and its session released, and an   *)
(* active connection has its session.                                      *)
(***************************************************************************)
EXTENDS ConnLifecycle, TLAPS

\* on_establish() is not under way.
Quiet == eth \in {"none", "done"}

\* on_establish() has a session.
Holding == eth \in {"active", "thread", "active2", "pool", "threads"}

\* The shutdown has not reached on_shutdown().
BeforeOnShutdown == sth \in {"none", "cancel", "join"}

\* How far the manager, on_establish() and the shutdown can be of each other.
ControlInv ==
    /\ manager \in {"configure", "establish"} =>
           /\ eth = "none" /\ sth = "none" /\ work = "none"
           /\ alive /\ ~session /\ ~init
           /\ state \in {"not_configured", "configured"}
    /\ manager = "establishing" => cls = "Local"
    /\ sth # "none" => manager = "gone"
    /\ \/ alive
       \/ sth = "deleted"
       \/ sth = "none" /\ manager = "gone" /\ Quiet /\ work = "none"
    /\ ~BeforeOnShutdown => Quiet

\* A local connection is established and shut down by its manager.
LocalInv ==
    cls = "Local" =>
        /\ eth \in {"none", "start", "done"} /\ ~init
        /\ manager \in {"registered", "shutdown"} \/ sth # "none" => eth = "done"
        /\ eth = "start" => state = "establishing"
        /\ sth = "none" => state # "closed"
        /\ sth \notin {"cancel", "join"}
        /\ work # "none" => established
        /\ state = "suspended" /\ sth = "none" => session

\* The steps that each class takes, and the threads there are at each of them.
WorkInv ==
    /\ work # "none" => eth \in {"active2", "done"}
    /\ eth \in {"session", "active"} => IsST2110
    /\ eth = "thread" => cls = "ST2110Rx"
    /\ eth \in {"pool", "threads"} => cls = "Rdma"
    /\ cls = "ST2110Tx" => work = "none" /\ eth # "active2"
                           /\ sth \notin {"joinwork", "closed"}
    /\ sth = "close" => IsST2110
    /\ sth \in {"closed", "delete", "deleted"} => work \in {"none", "joined"}

\* What holds the session, and what is left of it during the shutdown.
SessionInv ==
    /\ Holding => session
    /\ IsST2110 => ~init
    /\ eth \in {"none", "start", "pool"} => ~init
    /\ cls = "Rdma" /\ eth \in {"threads", "active2"} => init
    /\ cls = "Rdma" /\ (Quiet \/ eth = "start") /\ ~init => ~session
    /\ IsST2110 /\ sth \in {"joinwork", "closed"} => ~session
    /\ state = "active" /\ sth = "none" => session
    /\ sth = "delete" => state = "closed" /\ ~session /\ ~init

\* The inductive invariant, its type part apart.
Rest == ControlInv /\ LocalInv /\ WorkInv /\ SessionInv
IInv == TypeOK /\ Rest
-----------------------------------------------------------------------------
\* The flags of the object; x' = FALSE tells the SMT solver nothing of x' being
\* a Boolean, so their types are a fact of their own.
Flags ==
    /\ alive \in BOOLEAN /\ crashed \in BOOLEAN /\ established \in BOOLEAN
    /\ session \in BOOLEAN /\ init \in BOOLEAN /\ pool \in BOOLEAN
    /\ ectx \in BOOLEAN /\ fctx \in BOOLEAN /\ flag \in BOOLEAN
    /\ misused \in BOOLEAN

\* Every step keeps the types of the variables, and "init" of an RDMA bridge
\* stands for its buffer block.
LEMMA TypeStep == IInv /\ [Next]_vars => TypeOK'
<1> SUFFICES ASSUME TypeOK, SessionInv, [Next]_vars PROVE TypeOK'
  BY DEF IInv, Rest
<1> USE DEF TypeOK, threads, res, ctxs
<1>1. CASE Configure
  <2>1. Flags'
    BY <1>1, Zenon DEF Configure, Flags
  <2> QED
    BY <1>1, <2>1 DEF Configure, Flags
<1>2. CASE Establish
  BY <1>2 DEF Establish
<1>3. CASE EstablishNoThread
  <2>1. Flags'
    BY <1>3, Zenon DEF EstablishNoThread, Flags
  <2> QED
    BY <1>3, <2>1 DEF EstablishNoThread, Flags
<1>4. CASE Established
  <2>1. Flags'
    BY <1>4, Zenon DEF Established, Flags
  <2> QED
    BY <1>4, <2>1 DEF Established, Flags
<1>5. CASE Resume
  BY <1>5 DEF Resume
<1>6. CASE Shutdown
  BY <1>6 DEF Shutdown
<1>7. CASE Closing
  BY <1>7 DEF Closing
<1>8. CASE ClosingNoThread
  BY <1>8 DEF ClosingNoThread
<1>9. CASE EstablishFails
  BY <1>9 DEF EstablishFails
<1>10. CASE EstablishFailsSilently
  BY <1>10 DEF EstablishFailsSilently
<1>11. CASE EstablishDevice
  <2>1. Flags'
    BY <1>11, Zenon DEF EstablishDevice, Flags
  <2> QED
    BY <1>11, <2>1 DEF EstablishDevice, Flags
<1>12. CASE EstablishSession
  BY <1>12 DEF EstablishSession
<1>13. CASE EstablishEndpoints
  <2>1. Flags'
    BY <1>13, Zenon DEF EstablishEndpoints, Flags
  <2> QED
    BY <1>13, <2>1 DEF EstablishEndpoints, Flags
<1>14. CASE EstablishPoolFails
  <2>1. Flags'
    BY <1>14, Zenon DEF EstablishPoolFails, Flags
  <2> QED
    BY <1>14, <2>1 DEF EstablishPoolFails, Flags, SessionInv
<1>15. CASE EstablishPool
  BY <1>15 DEF EstablishPool
<1>16. CASE EstablishThreadsFail
  <2>1. Flags'
    BY <1>16, Zenon DEF EstablishThreadsFail, Flags
  <2> QED
    BY <1>16, <2>1 DEF EstablishThreadsFail, Flags
<1>17. CASE EstablishThreads
  BY <1>17 DEF EstablishThreads
<1>18. CASE EstablishActive
  <2>1. Flags'
    BY <1>18, Zenon DEF EstablishActive, Flags
  <2> QED
    BY <1>18, <2>1 DEF EstablishActive, Flags
<1>19. CASE EstablishFrameThread
  BY <1>19 DEF EstablishFrameThread
<1>20. CASE EstablishNoFrameThread
  BY <1>20 DEF EstablishNoFrameThread
<1>21. CASE EstablishReady
  BY <1>21 DEF EstablishReady
<1>22. CASE EstablishLocal
  BY <1>22 DEF EstablishLocal
<1>23. CASE WorkExit
  BY <1>23 DEF WorkExit
<1>24. CASE WorkGet
  BY <1>24 DEF WorkGet
<1>25. CASE WorkPut
  BY <1>25 DEF WorkPut
<1>26. CASE WorkWake
  <2>1. Flags'
    BY <1>26, Zenon DEF WorkWake, Flags
  <2> QED
    BY <1>26, <2>1 DEF WorkWake, Flags
<1>27. CASE ShutdownCancel
  <2>1. Flags'
    BY <1>27, Zenon DEF ShutdownCancel, Flags
  <2>2. /\ UNCHANGED <<cls, alive, crashed, state, manager, eth, work, established, session,
                       init, pool, flag, misused>>
        /\ sth' = "join"
    BY <1>27 DEF ShutdownCancel
  <2> QED
    BY <2>1, <2>2 DEF Flags
<1>28. CASE ShutdownJoinEstablish
  BY <1>28 DEF ShutdownJoinEstablish
<1>29. CASE ShutdownNotify
  BY <1>29 DEF ShutdownNotify
<1>30. CASE ShutdownClose
  <2>1. Flags'
    BY <1>30, Zenon DEF ShutdownClose, Flags
  <2> QED
    BY <1>30, <2>1 DEF ShutdownClose, Flags
<1>31. CASE ShutdownJoinWork
  BY <1>31 DEF ShutdownJoinWork
<1>32. CASE ShutdownJoinThrows
  BY <1>32 DEF ShutdownJoinThrows
<1>33. CASE ShutdownClosed
  <2>1. Flags'
    BY <1>33, Zenon DEF ShutdownClosed, Flags
  <2> QED
    BY <1>33, <2>1 DEF ShutdownClosed, Flags
<1>34. CASE Delete
  <2>1. Flags'
    BY <1>34, Zenon DEF Delete, Flags
  <2> QED
    BY <1>34, <2>1 DEF Delete, Flags
<1>35. CASE Available
  BY <1>35 DEF Available
<1>36. CASE UNCHANGED vars
  BY <1>36 DEF vars
<1> QED
  BY <1>1, <1>2, <1>3, <1>4, <1>5, <1>6, <1>7, <1>8, <1>9, <1>10, <1>11, <1>12, <1>13, <1>14, <1>15, <1>16, <1>17, <1>18, <1>19, <1>20, <1>21, <1>22, <1>23, <1>24, <1>25, <1>26, <1>27, <1>28, <1>29, <1>30, <1>31, <1>32, <1>33, <1>34, <1>35, <1>36 DEF Next, Manager, OnEstablish, Work, OnShutdown

\* The steps of the manager keep the rest of the invariant.
LEMMA ManagerStep == IInv /\ Manager => Rest'
<1> SUFFICES ASSUME TypeOK, Rest, Manager PROVE Rest'
  BY DEF IInv, Rest
<1> USE DEF TypeOK, ControlInv, LocalInv, WorkInv, SessionInv,
      Quiet, Holding, BeforeOnShutdown, IsST2110, Async, threads, res, ctxs, Rest
<1>1. CASE Configure
  <2>1. ControlInv'
    BY <1>1 DEF Configure
  <2>2. LocalInv'
    BY <1>1 DEF Configure
  <2>3. WorkInv'
    BY <1>1 DEF Configure
  <2>4. SessionInv'
    BY <1>1 DEF Configure
  <2> QED
    BY <2>1, <2>2, <2>3, <2>4 DEF Rest
<1>2. CASE Establish
  BY <1>2 DEF Establish
<1>3. CASE EstablishNoThread
  <2>1. ControlInv'
    BY <1>3 DEF EstablishNoThread
  <2>2. LocalInv'
    BY <1>3 DEF EstablishNoThread
  <2>3. WorkInv'
    BY <1>3 DEF EstablishNoThread
  <2>4. SessionInv'
    BY <1>3 DEF EstablishNoThread
  <2> QED
    BY <2>1, <2>2, <2>3, <2>4 DEF Rest
<1>4. CASE Established
  <2>1. ControlInv'
    BY <1>4 DEF Established
  <2>2. LocalInv'
    BY <1>4 DEF Established
  <2>3. WorkInv'
    BY <1>4 DEF Established
  <2>4. SessionInv'
    BY <1>4 DEF Established
  <2> QED
    BY <2>1, <2>2, <2>3, <2>4 DEF Rest
<1>5. CASE Resume
  <2>1. ControlInv'
    BY <1>5 DEF Resume
  <2>2. LocalInv'
    BY <1>5 DEF Resume
  <2>3. WorkInv'
    BY <1>5 DEF Resume
  <2>4. SessionInv'
    BY <1>5 DEF Resume
  <2> QED
    BY <2>1, <2>2, <2>3, <2>4 DEF Rest
<1>6. CASE Shutdown
  BY <1>6 DEF Shutdown
<1>7. CASE Closing
  BY <1>7 DEF Closing
<1>8. CASE ClosingNoThread
  BY <1>8 DEF ClosingNoThread
<1> QED
  BY <1>1, <1>2, <1>3, <1>4, <1>5, <1>6, <1>7, <1>8 DEF Manager

\* So do the steps of on_establish(), whatever the shutdown is doing.
LEMMA OnEstablishStep == IInv /\ OnEstablish => Rest'
<1> SUFFICES ASSUME TypeOK, Rest, OnEstablish PROVE Rest'
  BY DEF IInv, Rest
<1> USE DEF TypeOK, ControlInv, LocalInv, WorkInv, SessionInv,
      Quiet, Holding, BeforeOnShutdown, IsST2110, Async, threads, res, ctxs, Rest
<1>1. CASE EstablishFails
  <2>1. ControlInv'
    BY <1>1 DEF EstablishFails
  <2>2. LocalInv'
    BY <1>1 DEF EstablishFails
  <2>3. WorkInv'
    BY <1>1 DEF EstablishFails
  <2>4. SessionInv'
    BY <1>1 DEF EstablishFails
  <2> QED
    BY <2>1, <2>2, <2>3, <2>4 DEF Rest
<1>2. CASE EstablishFailsSilently
  <2>1. ControlInv'
    BY <1>2 DEF EstablishFailsSilently
  <2>2. LocalInv'
    BY <1>2 DEF EstablishFailsSilently
  <2>3. WorkInv'
    BY <1>2 DEF EstablishFailsSilently
  <2>4. SessionInv'
    BY <1>2 DEF EstablishFailsSilently
  <2> QED
    BY <2>1, <2>2, <2>3, <2>4 DEF Rest
<1>3. CASE EstablishDevice
  <2>1. ControlInv'
    BY <1>3 DEF EstablishDevice
  <2>2. LocalInv'
    BY <1>3 DEF EstablishDevice
  <2>3. WorkInv'
    BY <1>3 DEF EstablishDevice
  <2>4. SessionInv'
    BY <1>3 DEF EstablishDevice
  <2> QED
    BY <2>1, <2>2, <2>3, <2>4 DEF Rest
<1>4. CASE EstablishSession
  BY <1>4 DEF EstablishSession
<1>5. CASE EstablishEndpoints
  <2>1. ControlInv'
    BY <1>5 DEF EstablishEndpoints
  <2>2. LocalInv'
    BY <1>5 DEF EstablishEndpoints
  <2>3. WorkInv'
    BY <1>5 DEF EstablishEndpoints
  <2>4. SessionInv'
    BY <1>5 DEF EstablishEndpoints
  <2> QED
    BY <2>1, <2>2, <2>3, <2>4 DEF Rest
<1>6. CASE EstablishPoolFails
  <2>1. ControlInv'
    BY <1>6 DEF EstablishPoolFails
  <2>2. LocalInv'
    BY <1>6 DEF EstablishPoolFails
  <2>3. WorkInv'
    BY <1>6 DEF EstablishPoolFails
  <2>4. SessionInv'
    BY <1>6 DEF EstablishPoolFails
  <2> QED
    BY <2>1, <2>2, <2>3, <2>4 DEF Rest
<1>7. CASE EstablishPool
  BY <1>7 DEF EstablishPool
<1>8. CASE EstablishThreadsFail
  <2>1. ControlInv'
    BY <1>8 DEF EstablishThreadsFail
  <2>2. LocalInv'
    BY <1>8 DEF EstablishThreadsFail
  <2>3. WorkInv'
    BY <1>8 DEF EstablishThreadsFail
  <2>4. SessionInv'
    BY <1>8 DEF EstablishThreadsFail
  <2> QED
    BY <2>1, <2>2, <2>3, <2>4 DEF Rest
<1>9. CASE EstablishThreads
  BY <1>9 DEF EstablishThreads
<1>10. CASE EstablishActive
  <2>1. ControlInv'
    BY <1>10 DEF EstablishActive
  <2>2. LocalInv'
    BY <1>10 DEF EstablishActive
  <2>3. WorkInv'
    BY <1>10 DEF EstablishActive
  <2>4. SessionInv'
    BY <1>10 DEF EstablishActive
  <2> QED
    BY <2>1, <2>2, <2>3, <2>4 DEF Rest
<1>11. CASE EstablishFrameThread
  BY <1>11 DEF EstablishFrameThread
<1>12. CASE EstablishNoFrameThread
  BY <1>12 DEF EstablishNoFrameThread
<1>13. CASE EstablishReady
  <2>1. ControlInv'
    BY <1>13 DEF EstablishReady
  <2>2. LocalInv'
    BY <1>13 DEF EstablishReady
  <2>3. WorkInv'
    BY <1>13 DEF EstablishReady
  <2>4. SessionInv'
    BY <1>13 DEF EstablishReady
  <2> QED
    BY <2>1, <2>2, <2>3, <2>4 DEF Rest
<1>14. CASE EstablishLocal
  BY <1>14 DEF EstablishLocal
<1> QED
  BY <1>1, <1>2, <1>3, <1>4, <1>5, <1>6, <1>7, <1>8, <1>9, <1>10, <1>11, <1>12, <1>13, <1>14 DEF OnEstablish

\* So do the steps of the transport's threads.
LEMMA WorkStep == IInv /\ Work => Rest'
<1> SUFFICES ASSUME TypeOK, Rest, Work PROVE Rest'
  BY DEF IInv, Rest
<1> USE DEF TypeOK, ControlInv, LocalInv, WorkInv, SessionInv,
      Quiet, Holding, BeforeOnShutdown, IsST2110, Async, threads, res, ctxs, Rest
<1>1. CASE WorkExit
  BY <1>1 DEF WorkExit
<1>2. CASE WorkGet
  BY <1>2 DEF WorkGet
<1>3. CASE WorkPut
  BY <1>3 DEF WorkPut
<1>4. CASE WorkWake
  <2>1. ControlInv'
    BY <1>4 DEF WorkWake
  <2>2. LocalInv'
    BY <1>4 DEF WorkWake
  <2>3. WorkInv'
    BY <1>4 DEF WorkWake
  <2>4. SessionInv'
    BY <1>4 DEF WorkWake
  <2> QED
    BY <2>1, <2>2, <2>3, <2>4 DEF Rest
<1> QED
  BY <1>1, <1>2, <1>3, <1>4 DEF Work

\* So do the steps of the shutdown: on_shutdown() runs once establish_th is
\* joined, and takes apart what on_establish() has left.
LEMMA OnShutdownStep == IInv /\ OnShutdown => Rest'
<1> SUFFICES ASSUME TypeOK, Rest, OnShutdown PROVE Rest'
  BY DEF IInv, Rest
<1> USE DEF TypeOK, ControlInv, LocalInv, WorkInv, SessionInv,
      Quiet, Holding, BeforeOnShutdown, IsST2110, Async, threads, res, ctxs, Rest
<1>1. CASE ShutdownCancel
  <2>1. ControlInv'
    BY <1>1 DEF ShutdownCancel
  <2>2. LocalInv'
    BY <1>1 DEF ShutdownCancel
  <2>3. WorkInv'
    BY <1>1 DEF ShutdownCancel
  <2>4. SessionInv'
    BY <1>1 DEF ShutdownCancel
  <2> QED
    BY <2>1, <2>2, <2>3, <2>4 DEF Rest
<1>2. CASE ShutdownJoinEstablish
  BY <1>2 DEF ShutdownJoinEstablish
<1>3. CASE ShutdownNotify
  BY <1>3 DEF ShutdownNotify
<1>4. CASE ShutdownClose
  <2>1. ControlInv'
    BY <1>4 DEF ShutdownClose
  <2>2. LocalInv'
    BY <1>4 DEF ShutdownClose
  <2>3. WorkInv'
    BY <1>4 DEF ShutdownClose
  <2>4. SessionInv'
    BY <1>4 DEF ShutdownClose
  <2> QED
    BY <2>1, <2>2, <2>3, <2>4 DEF Rest
<1>5. CASE ShutdownJoinWork
  BY <1>5 DEF ShutdownJoinWork
<1>6. CASE ShutdownJoinThrows
  BY <1>6 DEF ShutdownJoinThrows
<1>7. CASE ShutdownClosed
  <2>1. ControlInv'
    BY <1>7 DEF ShutdownClosed
  <2>2. LocalInv'
    BY <1>7 DEF ShutdownClosed
  <2>3. WorkInv'
    BY <1>7 DEF ShutdownClosed
  <2>4. SessionInv'
    BY <1>7 DEF ShutdownClosed
  <2> QED
    BY <2>1, <2>2, <2>3, <2>4 DEF Rest
<1>8. CASE Delete
  <2>1. ControlInv'
    BY <1>8 DEF Delete
  <2>2. LocalInv'
    BY <1>8 DEF Delete
  <2>3. WorkInv'
    BY <1>8 DEF Delete
  <2>4. SessionInv'
    BY <1>8 DEF Delete
  <2> QED
    BY <2>1, <2>2, <2>3, <2>4 DEF Rest
<1> QED
  BY <1>1, <1>2, <1>3, <1>4, <1>5, <1>6, <1>7, <1>8 DEF OnShutdown

\* The invariant is inductive.
LEMMA Inductive == IInv /\ [Next]_vars => IInv'
<1> SUFFICES ASSUME IInv, [Next]_vars PROVE Rest'
  BY TypeStep DEF IInv
<1>1. CASE Manager
  BY <1>1, ManagerStep
<1>2. CASE OnEstablish
  BY <1>2, OnEstablishStep
<1>3. CASE Work
  BY <1>3, WorkStep
<1>4. CASE OnShutdown
  BY <1>4, OnShutdownStep
<1>5. CASE Available \/ UNCHANGED vars
  BY <1>5 DEF IInv, Rest, ControlInv, LocalInv, WorkInv, SessionInv, Quiet, Holding,
     BeforeOnShutdown, IsST2110, Available, threads, res, vars
<1> QED
  BY <1>1, <1>2, <1>3, <1>4, <1>5 DEF Next

\* It holds of every behaviour.
LEMMA Invariance == Spec => []IInv
<1>1. Init => TypeOK
  BY DEF Init, TypeOK
<1>2. Init => Rest
  BY DEF Init, Rest, ControlInv, LocalInv, WorkInv, SessionInv, Quiet, Holding,
     BeforeOnShutdown, IsST2110
<1>3. Init => IInv
  BY <1>1, <1>2 DEF IInv
<1> QED
  BY <1>3, Inductive, PTL DEF Spec
-----------------------------------------------------------------------------
\* No thread runs on a deleted object: neither establish_th, which the shutdown
\* joins before on_shutdown(), nor the transport's threads, which on_shutdown()
\* joins before "delete this"; the deletions by the manager come before either
\* is started.
THEOREM NoThreadOutlivesHolds == Spec => []NoThreadOutlives
<1>1. IInv => NoThreadOutlives
  BY DEF IInv, Rest, TypeOK, ControlInv, WorkInv, NoThreadOutlives, Quiet, BeforeOnShutdown
<1> QED
  BY <1>1, Invariance, PTL

\* "delete this" finds the connection closed, its session released and its
\* buffers freed, wherever on_establish() was when the shutdown began and
\* wherever it failed.
THEOREM ClosedBeforeDeleteHolds == Spec => []ClosedBeforeDelete
<1>1. IInv => ClosedBeforeDelete
  BY DEF IInv, Rest, SessionInv, ClosedBeforeDelete
<1> QED
  BY <1>1, Invariance, PTL

\* A connection in state active that nobody shuts down has its session: every
\* error path of on_establish() that gives the session up also leaves the
\* state, and no late step of on_establish() brings it back.
THEOREM ActiveIsOpenHolds == Spec => []ActiveIsOpen
<1>1. IInv => ActiveIsOpen
  BY DEF IInv, Rest, SessionInv, ActiveIsOpen
<1> QED
  BY <1>1, Invariance, PTL
=============================================================================
