---------------------------- MODULE ConnLifecycle ----------------------------
(***************************************************************************)
(* The life of one connection object of the media proxy, from its creation *)
(* by a manager to "delete this": conn.cc and the on_establish() and       *)
(* on_shutdown() of the connection classes, with the threads that run on   *)
(* the object.                                                             *)
(*                                                                         *)
(*   manager    BridgesManager or LocalManager: configures, establishes    *)
(*              and later deletes the connection;                          *)
(*   eth        establish_th of a bridge, which runs on_establish(); a     *)
(*              local connection runs it in the manager;                   *)
(*   sth        shutdown_th of a bridge: cancels and joins establish_th,   *)
(*              runs on_shutdown() and deletes the object; a local         *)
(*              connection does the last two in the manager;               *)
(*   work       the threads the connection starts for its transport: the   *)
(*              frame thread of an ST2110 receiver, the buffer threads of  *)
(*              an RDMA bridge, the memif loop of a local connection.      *)
(***************************************************************************)
EXTENDS Naturals

CONSTANTS Classes,      \* the connection classes that are created
          ThreadsFail   \* TRUE: the creation of a thread may fail

ASSUME LifecycleAssumption ==
    /\ Classes \subseteq {"ST2110Rx", "ST2110Tx", "Rdma", "Local"}
    /\ ThreadsFail \in BOOLEAN

VARIABLES
    cls,         \* the class of the object
    alive,       \* the object exists
    crashed,     \* an exception left a thread: std::terminate()
    state,       \* Connection::_state
    manager,     \* where the manager is
    eth,         \* where on_establish() is
    established, \* on_establish() returned success
    sth,         \* where the shutdown is
    work,        \* where the transport's threads are
    session,     \* MTL session, RDMA endpoints or memif interface
    init, pool,  \* RDMA: "init" is set, the buffer block is allocated
    ectx,        \* establish_ctx is cancelled
    fctx,        \* the context of the transport's threads is cancelled
    flag,        \* frame_available or buf_available
    misused      \* history: a frame call on a session that is not open

threads == <<eth, sth, work>>
res     == <<session, init, pool>>
ctxs    == <<ectx, fctx, flag>>
vars    == <<cls, alive, crashed, state, manager, eth, established, sth, work, session,
             init, pool, ectx, fctx, flag, misused>>

IsST2110 == cls \in {"ST2110Rx", "ST2110Tx"}
Async    == cls # "Local"

\* The object has been allocated.
Init ==
    /\ cls \in Classes
    /\ alive = TRUE /\ crashed = FALSE
    /\ state = "not_configured" /\ manager = "configure"
    /\ eth = "none" /\ established = FALSE /\ sth = "none" /\ work = "none"
    /\ session = FALSE /\ init = FALSE /\ pool = FALSE
    /\ ectx = FALSE /\ fctx = FALSE /\ flag = FALSE
    /\ misused = FALSE
-----------------------------------------------------------------------------
(* The manager. *)

\* configure() of the class; a failure deletes the object.
Configure ==
    /\ manager = "configure"
    /\ \/ state' = "configured" /\ manager' = "establish" /\ UNCHANGED alive
       \/ state' = "deleting" /\ manager' = "gone" /\ alive' = FALSE
    /\ UNCHANGED <<cls, crashed, threads, established, res, ctxs, misused>>

\* establish_async(), or establish() for a local connection.
Establish ==
    /\ manager = "establish" /\ state \in {"configured", "closed"}
    /\ state' = "establishing"
    /\ eth' = "start"
    /\ manager' = IF Async THEN "registered" ELSE "establishing"
    /\ UNCHANGED <<cls, alive, crashed, established, sth, work, res, ctxs, misused>>

\* The thread cannot be created: create_bridge() deletes the object.
EstablishNoThread ==
    /\ manager = "establish" /\ Async /\ ThreadsFail
    /\ alive' = FALSE /\ state' = "deleting" /\ manager' = "gone"
    /\ UNCHANGED <<cls, crashed, threads, established, res, ctxs, misused>>

\* create_connection_sdk() gets the result of establish().
Established ==
    /\ manager = "establishing" /\ eth = "done"
    /\ IF established
         THEN manager' = "registered" /\ UNCHANGED <<alive, state>>
         ELSE manager' = "gone" /\ alive' = FALSE /\ state' = "deleting"
    /\ UNCHANGED <<cls, crashed, threads, established, res, ctxs, misused>>

\* activate_connection_sdk(): resume().
Resume ==
    /\ manager = "registered" /\ ~Async /\ state = "suspended"
    /\ state' = "active"
    /\ UNCHANGED <<cls, alive, crashed, manager, threads, established, res, ctxs, misused>>

\* delete_bridge() or delete_connection_sdk() reads the state in
\* shutdown_async() or shutdown().  A closed bridge is left as it is; a closed
\* local connection is deleted.
Shutdown ==
    /\ manager = "registered"
    /\ IF state = "closed"
         THEN /\ manager' = "gone"
              /\ sth' = IF Async THEN sth ELSE "delete"
         ELSE /\ manager' = "shutdown"
              /\ UNCHANGED sth
    /\ UNCHANGED <<cls, alive, crashed, state, eth, work, established, res, ctxs, misused>>

\* Then the state is set, and the shutdown begins.
Closing ==
    /\ manager = "shutdown"
    /\ state' = "closing"
    /\ manager' = "gone"
    /\ sth' = IF Async THEN "cancel" ELSE "notify"
    /\ UNCHANGED <<cls, alive, crashed, eth, work, established, res, ctxs, misused>>

\* The thread for the shutdown cannot be created.
ClosingNoThread ==
    /\ manager = "shutdown" /\ Async /\ ThreadsFail
    /\ state' = "closing"
    /\ manager' = "gone"
    /\ UNCHANGED <<cls, alive, crashed, threads, established, res, ctxs, misused>>
-----------------------------------------------------------------------------
(* on_establish(). *)

\* ST2110: no MTL device or no session; RDMA: no device or endpoints.
EstablishFails ==
    /\ \/ IsST2110 /\ eth \in {"start", "session"}
       \/ cls = "Rdma" /\ eth = "start"
    /\ eth' = "done" /\ state' = "closed"
    /\ UNCHANGED <<cls, alive, crashed, manager, established, sth, work, res, ctxs, misused>>

\* RDMA: no memory for the device; local: a memif call fails, possibly after
\* the socket has been created.  The state is left alone.
EstablishFailsSilently ==
    /\ cls \in {"Rdma", "Local"} /\ eth = "start"
    /\ eth' = "done"
    /\ session' \in IF cls = "Local" THEN BOOLEAN ELSE {session}
    /\ UNCHANGED <<cls, alive, crashed, state, manager, established, sth, work, init, pool,
                   ctxs, misused>>

\* ST2110: the device is there; the session's context is a child of
\* establish_ctx, cancelled if that one is.
EstablishDevice ==
    /\ IsST2110 /\ eth = "start"
    /\ eth' = "session"
    /\ fctx' = ectx /\ flag' = FALSE
    /\ UNCHANGED <<cls, alive, crashed, state, manager, established, sth, work, res, ectx,
                   misused>>

\* Mutant: the result of create_session() is not looked at.
EstablishSessionUnchecked ==
    /\ IsST2110 /\ eth = "session"
    /\ eth' = "active"
    /\ session' \in BOOLEAN
    /\ UNCHANGED <<cls, alive, crashed, state, manager, established, sth, work, init, pool,
                   ctxs, misused>>

\* ST2110: create_session() returns a session.
EstablishSession ==
    /\ IsST2110 /\ eth = "session"
    /\ eth' = "active"
    /\ session' = TRUE
    /\ UNCHANGED <<cls, alive, crashed, state, manager, established, sth, work, init, pool,
                   ctxs, misused>>

\* RDMA: the endpoints are up.
EstablishEndpoints ==
    /\ cls = "Rdma" /\ eth = "start"
    /\ eth' = "pool" /\ session' = TRUE /\ flag' = FALSE
    /\ UNCHANGED <<cls, alive, crashed, state, manager, established, sth, work, init, pool,
                   ectx, fctx, misused>>

\* RDMA: the buffer queue cannot be allocated, or its memory not registered; in
\* the second case the block stays allocated.
EstablishPoolFails ==
    /\ cls = "Rdma" /\ eth = "pool"
    /\ eth' = "done" /\ state' = "closed"
    /\ session' = FALSE
    /\ pool' \in BOOLEAN
    /\ UNCHANGED <<cls, alive, crashed, manager, established, sth, work, init, ctxs, misused>>

\* Mutant: "init" is not set.
EstablishPoolNoInit ==
    /\ cls = "Rdma" /\ eth = "pool"
    /\ eth' = "threads"
    /\ pool' = TRUE
    /\ UNCHANGED <<cls, alive, crashed, state, manager, established, sth, work, session, init,
                   ctxs, misused>>

\* RDMA: the buffer queue is there and registered.
EstablishPool ==
    /\ cls = "Rdma" /\ eth = "pool"
    /\ eth' = "threads"
    /\ pool' = TRUE /\ init' = TRUE
    /\ UNCHANGED <<cls, alive, crashed, state, manager, established, sth, work, session, ctxs,
                   misused>>

\* RDMA: start_threads() fails, with or without a thread already running.
EstablishThreadsFail ==
    /\ cls = "Rdma" /\ eth = "threads" /\ ThreadsFail
    /\ eth' = "done" /\ state' = "closed"
    /\ session' = FALSE
    /\ fctx' = ectx
    /\ work' \in {"none", "check"}
    /\ UNCHANGED <<cls, alive, crashed, manager, established, sth, init, pool, ectx, flag,
                   misused>>

\* RDMA: the threads run; their contexts are children of establish_ctx.
EstablishThreads ==
    /\ cls = "Rdma" /\ eth = "threads"
    /\ eth' = "active2"
    /\ fctx' = ectx
    /\ work' = "check"
    /\ UNCHANGED <<cls, alive, crashed, state, manager, established, sth, res, ectx, flag,
                   misused>>

\* ST2110::on_establish() ends in state active; the receiver goes on.
EstablishActive ==
    /\ IsST2110 /\ eth = "active"
    /\ state' = "active"
    /\ IF cls = "ST2110Rx" THEN eth' = "thread" /\ UNCHANGED established
                           ELSE eth' = "done" /\ established' = TRUE
    /\ UNCHANGED <<cls, alive, crashed, manager, sth, work, res, ctxs, misused>>

\* The frame thread; it returns at once if a frame does not fit a buffer.
EstablishFrameThread ==
    /\ eth = "thread"
    /\ eth' = "active2" /\ work' \in {"check", "exited"}
    /\ UNCHANGED <<cls, alive, crashed, state, manager, established, sth, res, ctxs, misused>>

\* No frame thread: the state is closed, the session stays open.
EstablishNoFrameThread ==
    /\ eth = "thread" /\ ThreadsFail
    /\ eth' = "done" /\ state' = "closed"
    /\ UNCHANGED <<cls, alive, crashed, manager, established, sth, work, res, ctxs, misused>>

\* The last step of ST2110Rx and RDMA.
EstablishReady ==
    /\ eth = "active2"
    /\ eth' = "done" /\ state' = "active" /\ established' = TRUE
    /\ UNCHANGED <<cls, alive, crashed, manager, sth, work, res, ctxs, misused>>

\* Local::on_establish().
EstablishLocal ==
    /\ cls = "Local" /\ eth = "start"
    /\ eth' = "done" /\ state' = "suspended" /\ established' = TRUE
    /\ session' = TRUE /\ work' = "check"
    /\ UNCHANGED <<cls, alive, crashed, manager, sth, init, pool, ctxs, misused>>
-----------------------------------------------------------------------------
(* The transport's threads. *)

\* The context is cancelled; or a completion queue has failed for good, or the
\* memif peer has disconnected.
WorkExit ==
    /\ work = "check"
    /\ fctx \/ cls # "ST2110Rx"
    /\ work' = "exited"
    /\ UNCHANGED <<cls, alive, crashed, state, manager, eth, established, sth, res, ctxs,
                   misused>>

\* get_frame(): a frame or nothing.  The loops of RDMA and memif wait likewise.
WorkGet ==
    /\ work = "check" /\ ~fctx
    /\ work' \in IF cls = "ST2110Rx" THEN {"hold", "wait"} ELSE {"wait"}
    /\ misused' = (misused \/ (cls = "ST2110Rx" /\ ~session))
    /\ UNCHANGED <<cls, alive, crashed, state, manager, eth, established, sth, res, ctxs>>

\* The frame has been transmitted; put_frame().
WorkPut ==
    /\ work = "hold"
    /\ work' = "check"
    /\ misused' = (misused \/ ~session)
    /\ UNCHANGED <<cls, alive, crashed, state, manager, eth, established, sth, res, ctxs>>

\* wait_frame_available(), wait_buf_available(), memif_poll_event().
WorkWake ==
    /\ work = "wait" /\ flag
    /\ work' = "check" /\ flag' = FALSE
    /\ UNCHANGED <<cls, alive, crashed, state, manager, eth, established, sth, res, ectx,
                   fctx, misused>>

\* The library's callback: something has arrived.
Available ==
    /\ session /\ alive /\ ~flag
    /\ flag' = TRUE
    /\ UNCHANGED <<cls, alive, crashed, state, manager, threads, established, res, ectx, fctx,
                   misused>>
-----------------------------------------------------------------------------
(* The shutdown. *)

\* establish_ctx.cancel() reaches the contexts made from it.
ShutdownCancel ==
    /\ sth = "cancel"
    /\ sth' = "join"
    /\ ectx' = TRUE
    /\ fctx' = IF eth \in {"none", "start"} THEN fctx ELSE TRUE
    /\ UNCHANGED <<cls, alive, crashed, state, manager, eth, work, established, res, flag,
                   misused>>

\* Mutant: establish_th is not joined.
ShutdownJoinEstablishSkipped ==
    /\ sth = "join"
    /\ sth' = "notify"
    /\ UNCHANGED <<cls, alive, crashed, state, manager, eth, work, established, res, ctxs,
                   misused>>

\* establish_th.join().
ShutdownJoinEstablish ==
    /\ sth = "join" /\ eth \in {"none", "done"}
    /\ sth' = "notify"
    /\ UNCHANGED <<cls, alive, crashed, state, manager, eth, work, established, res, ctxs,
                   misused>>

\* Mutant: the waiting thread is not notified.
ShutdownNotifySilent ==
    /\ sth = "notify"
    /\ sth' = IF IsST2110 THEN "close" ELSE "joinwork"
    /\ fctx' = TRUE
    /\ UNCHANGED <<cls, alive, crashed, state, manager, eth, work, established, res, ectx,
                   flag, misused>>

\* on_shutdown() cancels the threads' contexts and wakes them.
ShutdownNotify ==
    /\ sth = "notify"
    /\ sth' = IF IsST2110 THEN "close" ELSE "joinwork"
    /\ fctx' = TRUE /\ flag' = TRUE
    /\ UNCHANGED <<cls, alive, crashed, state, manager, eth, work, established, res, ectx,
                   misused>>

\* ST2110::on_shutdown() closes the session.
ShutdownClose ==
    /\ sth = "close"
    /\ session' = FALSE
    /\ state' = "closed"
    /\ sth' = IF cls = "ST2110Rx" THEN "joinwork" ELSE "delete"
    /\ UNCHANGED <<cls, alive, crashed, manager, eth, work, established, init, pool, ctxs,
                   misused>>

\* The join.  Only RDMA asks whether there is a thread to join.
ShutdownJoinWork ==
    /\ sth = "joinwork"
    /\ work = "exited" \/ (work = "none" /\ cls = "Rdma")
    /\ work' = IF work = "none" THEN "none" ELSE "joined"
    /\ sth' = "closed"
    /\ UNCHANGED <<cls, alive, crashed, state, manager, eth, established, res, ctxs, misused>>

\* join() of a thread that was never started throws.  No other thread is left
\* on this object then.
ShutdownJoinThrows ==
    /\ sth = "joinwork" /\ work = "none" /\ cls # "Rdma"
    /\ crashed' = TRUE
    /\ sth' = "crashed"
    /\ UNCHANGED <<cls, alive, state, manager, eth, work, established, res, ctxs, misused>>

\* Mutant: the state is not set in the end.
ShutdownClosedForgotten ==
    /\ sth = "closed"
    /\ sth' = "delete"
    /\ IF cls = "Rdma" /\ ~init
         THEN UNCHANGED res
         ELSE session' = FALSE /\ init' = FALSE /\ pool' = FALSE
    /\ UNCHANGED <<cls, alive, crashed, state, manager, eth, work, established, ctxs, misused>>

\* The rest of on_shutdown(): RDMA cleans up what "init" stands for, a local
\* connection deletes its memif interface.
ShutdownClosed ==
    /\ sth = "closed"
    /\ sth' = "delete"
    /\ state' = "closed"
    /\ IF cls = "Rdma" /\ ~init
         THEN UNCHANGED res
         ELSE session' = FALSE /\ init' = FALSE /\ pool' = FALSE
    /\ UNCHANGED <<cls, alive, crashed, manager, eth, work, established, ctxs, misused>>

\* delete this.
Delete ==
    /\ sth = "delete"
    /\ sth' = "deleted" /\ alive' = FALSE /\ state' = "deleting"
    /\ UNCHANGED <<cls, crashed, manager, eth, work, established, res, ctxs, misused>>
-----------------------------------------------------------------------------
Manager ==
    \/ Configure
    \/ Establish
    \/ EstablishNoThread
    \/ Established
    \/ Resume
    \/ Shutdown
    \/ Closing
    \/ ClosingNoThread

OnEstablish ==
    \/ EstablishFails
    \/ EstablishFailsSilently
    \/ EstablishDevice
    \/ EstablishSession
    \/ EstablishEndpoints
    \/ EstablishPoolFails
    \/ EstablishPool
    \/ EstablishThreadsFail
    \/ EstablishThreads
    \/ EstablishActive
    \/ EstablishFrameThread
    \/ EstablishNoFrameThread
    \/ EstablishReady
    \/ EstablishLocal

Work == WorkExit \/ WorkGet \/ WorkPut \/ WorkWake

OnShutdown ==
    \/ ShutdownCancel
    \/ ShutdownJoinEstablish
    \/ ShutdownNotify
    \/ ShutdownClose
    \/ ShutdownJoinWork
    \/ ShutdownJoinThrows
    \/ ShutdownClosed
    \/ Delete

Next == Manager \/ OnEstablish \/ Work \/ Available \/ OnShutdown

Spec == Init /\ [][Next]_vars

\* The threads run; nobody is obliged to delete a connection.
Fairness ==
    /\ WF_vars(OnEstablish)
    /\ WF_vars(Work)
    /\ WF_vars(OnShutdown)
    /\ WF_vars(Closing \/ ClosingNoThread)

FairSpec == Spec /\ Fairness
-----------------------------------------------------------------------------
\* The type invariant; "init" of an RDMA bridge stands for its buffer block.
TypeOK ==
    /\ cls \in Classes /\ alive \in BOOLEAN /\ crashed \in BOOLEAN
    /\ state \in {"not_configured", "configured", "establishing", "active", "suspended",
                  "closing", "closed", "deleting"}
    /\ manager \in {"configure", "establish", "establishing", "registered", "shutdown",
                    "gone"}
    /\ eth \in {"none", "start", "session", "active", "thread", "active2", "pool",
                "threads", "done"}
    /\ established \in BOOLEAN
    /\ sth \in {"none", "cancel", "join", "notify", "close", "joinwork", "closed",
                "delete", "deleted", "crashed"}
    /\ work \in {"none", "check", "hold", "wait", "exited", "joined"}
    /\ session \in BOOLEAN /\ init \in BOOLEAN /\ pool \in BOOLEAN /\ (init => pool)
    /\ ectx \in BOOLEAN /\ fctx \in BOOLEAN /\ flag \in BOOLEAN
    /\ misused \in BOOLEAN

\* No thread runs on an object that has been deleted: "delete this" comes after
\* the joins, and the other deletions before any thread.
NoThreadOutlives ==
    ~alive => eth \in {"none", "done"} /\ work \in {"none", "joined"}

\* A shutdown that reaches the deletion leaves the connection closed and its
\* session released, whatever on_establish() was doing when it began: nothing
\* the establishing thread did is left behind or comes later.  All the while
\* the variables keep their types.
ClosedBeforeDelete ==
    /\ TypeOK
    /\ sth = "delete" => state = "closed" /\ ~session /\ ~init

\* A connection that is active, and not being shut down, has its session.
ActiveIsOpen == state = "active" /\ sth = "none" => session

\* A shutdown that has begun gets to the deletion, unless the process dies of
\* the exception of join().
ShutdownCompletes == sth # "none" ~> (~alive \/ crashed)

\* The frame thread gives its frames back to an open session.
FramesToOpenSession == ~misused

\* A bridge that was deleted is destroyed.
DeletedIsDestroyed == manager = "gone" ~> ~alive
=============================================================================
