------------------------------- MODULE RdmaTx -------------------------------
(***************************************************************************)
(* The sending side of an RDMA bridge: media-proxy/src/mesh/               *)
(* conn_rdma_tx.cc with the buffer queue of conn_rdma.cc.                  *)
(*                                                                         *)
(* The hot path calls on_receive(), which takes a buffer from the pool and *)
(* posts it; rdma_cq_thread sleeps until it is told of a send, then polls  *)
(* the completion queue for at most one second and gives the buffers back. *)
(* The pool is a set: which free buffer is taken makes no difference.      *)
(***************************************************************************)
EXTENDS Integers

CONSTANTS Bufs,      \* the buffers, "queue_size" of them
          NoBuf,
          Slow       \* TRUE: a completion may take longer than TIMEOUT_US

ASSUME RdmaTxAssumption == NoBuf \notin Bufs /\ Slow \in BOOLEAN

VARIABLES
    buffer_queue,
    buf_available,
    hpc, reg_buf,    \* on_receive(): place, the buffer in hand
    inflight,        \* posted to an endpoint, not yet completed
    cq, cqerr,       \* completions and error completions not yet read
    tpc,             \* rdma_cq_thread
    cancelled,       \* on_shutdown() has cancelled the thread's context
    abandoned,       \* history: the last round of polling ended with buffers
                     \* still out, by timeout or by a failed read
    failed           \* history: a read of the completion queue has failed

hot  == <<hpc, reg_buf>>
vars == <<buffer_queue, buf_available, hpc, reg_buf, inflight, cq, cqerr, tpc, cancelled,
          abandoned, failed>>

Outstanding == inflight \cup cq \cup cqerr

\* init_queue_with_elements() and start_threads().
Init ==
    /\ buffer_queue = Bufs
    /\ buf_available = FALSE
    /\ hpc = "idle" /\ reg_buf = NoBuf
    /\ inflight = {} /\ cq = {} /\ cqerr = {}
    /\ tpc = "wait"
    /\ cancelled = FALSE
    /\ abandoned = FALSE /\ failed = FALSE
-----------------------------------------------------------------------------
\* The hot path enters on_receive().  A bridge is unlinked before it is shut
\* down, so nobody enters later.
OnReceive ==
    /\ hpc = "idle" /\ ~cancelled
    /\ hpc' = "acquire"
    /\ UNCHANGED <<buffer_queue, buf_available, reg_buf, inflight, cq, cqerr, tpc, cancelled,
                   abandoned, failed>>

\* consume_from_queue() returns a buffer.
Acquire ==
    /\ hpc = "acquire"
    /\ \E b \in buffer_queue : /\ reg_buf' = b
                               /\ buffer_queue' = buffer_queue \ {b}
    /\ hpc' = "send"
    /\ UNCHANGED <<buf_available, inflight, cq, cqerr, tpc, cancelled, abandoned, failed>>

\* Mutant: the missing buffer is not noticed.
AcquireTimeoutUnchecked ==
    /\ hpc = "acquire" /\ buffer_queue = {}
    /\ hpc' = "send"
    /\ UNCHANGED <<buffer_queue, buf_available, reg_buf, inflight, cq, cqerr, tpc, cancelled,
                   abandoned, failed>>

\* No buffer for a second: the frame is dropped.
AcquireTimeout ==
    /\ hpc = "acquire" /\ buffer_queue = {}
    /\ hpc' = "idle"
    /\ UNCHANGED <<buffer_queue, buf_available, reg_buf, inflight, cq, cqerr, tpc, cancelled,
                   abandoned, failed>>

\* The caller's context is cancelled while it waits for a buffer.
AcquireCancelled ==
    /\ hpc = "acquire"
    /\ hpc' = "idle"
    /\ UNCHANGED <<buffer_queue, buf_available, reg_buf, inflight, cq, cqerr, tpc, cancelled,
                   abandoned, failed>>

\* The frame is copied and numbered and ep_send_buf() succeeds ...
SendBuf ==
    /\ hpc = "send"
    /\ inflight' = inflight \cup {reg_buf}
    /\ reg_buf' = NoBuf
    /\ hpc' = "notify"
    /\ UNCHANGED <<buffer_queue, buf_available, cq, cqerr, tpc, cancelled, abandoned, failed>>

\* ... or fails.
SendBufFails ==
    /\ hpc = "send"
    /\ hpc' = "notify"
    /\ UNCHANGED <<buffer_queue, buf_available, reg_buf, inflight, cq, cqerr, tpc, cancelled,
                   abandoned, failed>>

\* Mutant: the thread is not told of the send.
NotifySentSilent ==
    /\ hpc = "notify" /\ reg_buf = NoBuf
    /\ hpc' = "idle"
    /\ UNCHANGED <<buffer_queue, buf_available, reg_buf, inflight, cq, cqerr, tpc, cancelled,
                   abandoned, failed>>

\* notify_buf_available() after the send.
NotifySent ==
    /\ hpc = "notify" /\ reg_buf = NoBuf
    /\ buf_available' = TRUE
    /\ hpc' = "idle"
    /\ UNCHANGED <<buffer_queue, reg_buf, inflight, cq, cqerr, tpc, cancelled, abandoned,
                   failed>>

\* Mutant: the buffer of a failed send is not returned to the pool.
ReturnUnsentLeak ==
    /\ hpc = "notify" /\ reg_buf # NoBuf
    /\ buf_available' = TRUE
    /\ reg_buf' = NoBuf
    /\ hpc' = "idle"
    /\ UNCHANGED <<buffer_queue, inflight, cq, cqerr, tpc, cancelled, abandoned, failed>>

\* The buffer of a failed send goes back to the pool.
ReturnUnsent ==
    /\ hpc = "notify" /\ reg_buf # NoBuf
    /\ buf_available' = TRUE
    /\ buffer_queue' = buffer_queue \cup {reg_buf}
    /\ reg_buf' = NoBuf
    /\ hpc' = "idle"
    /\ UNCHANGED <<inflight, cq, cqerr, tpc, cancelled, abandoned, failed>>
-----------------------------------------------------------------------------
\* The provider completes a send, with or without an error.
Complete(b) ==
    /\ b \in inflight
    /\ inflight' = inflight \ {b}
    /\ \/ cq' = cq \cup {b} /\ UNCHANGED cqerr
       \/ cqerr' = cqerr \cup {b} /\ UNCHANGED cq
    /\ UNCHANGED <<buffer_queue, buf_available, hot, tpc, cancelled, abandoned, failed>>
-----------------------------------------------------------------------------
\* wait_buf_available() in rdma_cq_thread: the wait returns, then the flag is
\* cleared.
WaitBufAvailable ==
    /\ tpc = "wait" /\ buf_available
    /\ tpc' = "clear"
    /\ abandoned' = FALSE
    /\ UNCHANGED <<buffer_queue, buf_available, hot, inflight, cq, cqerr, cancelled, failed>>

ClearBufAvailable ==
    /\ tpc = "clear"
    /\ buf_available' = FALSE
    /\ tpc' = IF cancelled THEN "stopped" ELSE "poll"
    /\ UNCHANGED <<buffer_queue, hot, inflight, cq, cqerr, cancelled, abandoned, failed>>

\* The outer loop's condition.
Again == IF cancelled THEN "stopped" ELSE "wait"

\* Mutant: the buffers are pushed without a notification.
PollSilent ==
    /\ tpc = "poll" /\ ~cancelled /\ cq # {}
    /\ buffer_queue' = buffer_queue \cup cq
    /\ cq' = {}
    /\ tpc' = Again
    /\ UNCHANGED <<buf_available, hot, inflight, cqerr, cancelled, abandoned, failed>>

\* fi_cq_read() returns completions: the buffers go back, each with a
\* notification, and the round ends.
Poll ==
    /\ tpc = "poll" /\ ~cancelled /\ cq # {}
    /\ buffer_queue' = buffer_queue \cup cq
    /\ cq' = {}
    /\ buf_available' = TRUE
    /\ tpc' = Again
    /\ UNCHANGED <<hot, inflight, cqerr, cancelled, abandoned, failed>>

\* -FI_EAVAIL: the failed buffer is reclaimed.
PollErr(b) ==
    /\ tpc = "poll" /\ ~cancelled /\ b \in cqerr
    /\ buffer_queue' = buffer_queue \cup {b}
    /\ cqerr' = cqerr \ {b}
    /\ buf_available' = TRUE
    /\ tpc' = Again
    /\ UNCHANGED <<hot, inflight, cq, cancelled, abandoned, failed>>

\* Any other error of fi_cq_read() or fi_cq_readerr() ends the round.
PollFails ==
    /\ tpc = "poll" /\ ~cancelled
    /\ failed' = TRUE
    /\ abandoned' = (Outstanding # {})
    /\ tpc' = Again
    /\ UNCHANGED <<buffer_queue, buf_available, hot, inflight, cq, cqerr, cancelled>>

\* Nothing has completed for TIMEOUT_US.
PollTimeout ==
    /\ tpc = "poll" /\ ~cancelled /\ cq \cup cqerr = {}
    /\ Slow \/ inflight = {}
    /\ abandoned' = (Outstanding # {})
    /\ tpc' = Again
    /\ UNCHANGED <<buffer_queue, buf_available, hot, inflight, cq, cqerr, cancelled, failed>>

\* The polling loop finds the context cancelled.
PollCancelled ==
    /\ tpc = "poll" /\ cancelled
    /\ tpc' = "stopped"
    /\ UNCHANGED <<buffer_queue, buf_available, hot, inflight, cq, cqerr, cancelled,
                   abandoned, failed>>
-----------------------------------------------------------------------------
\* Mutant: the context is cancelled and the thread is not woken.
ShutdownNoNotify ==
    /\ ~cancelled /\ hpc = "idle"
    /\ cancelled' = TRUE
    /\ UNCHANGED <<buffer_queue, buf_available, hot, inflight, cq, cqerr, tpc, abandoned,
                   failed>>

\* on_shutdown() up to the join: cancel, then notify.
Shutdown ==
    /\ ~cancelled /\ hpc = "idle"
    /\ cancelled' = TRUE
    /\ buf_available' = TRUE
    /\ UNCHANGED <<buffer_queue, hot, inflight, cq, cqerr, tpc, abandoned, failed>>

HotStep ==
    \/ Acquire
    \/ AcquireTimeout
    \/ AcquireCancelled
    \/ SendBuf
    \/ SendBufFails
    \/ NotifySent
    \/ ReturnUnsent

CqThread ==
    \/ WaitBufAvailable
    \/ ClearBufAvailable
    \/ Poll
    \/ \E b \in Bufs : PollErr(b)
    \/ PollFails
    \/ PollTimeout
    \/ PollCancelled

Next ==
    \/ OnReceive
    \/ HotStep
    \/ \E b \in Bufs : Complete(b)
    \/ CqThread
    \/ Shutdown

Spec == Init /\ [][Next]_vars

\* A call that has begun goes on, the thread runs, and the provider completes
\* every send.  Nobody is obliged to call on_receive() again.  Strong fairness
\* stands for the order of the completion queue: a thread that keeps polling
\* comes to every entry.
Fairness ==
    /\ WF_vars(HotStep)
    /\ WF_vars(CqThread)
    /\ \A b \in Bufs : WF_vars(Complete(b)) /\ SF_vars(PollErr(b))
    /\ SF_vars(Poll)

FairSpec == Spec /\ Fairness

\* The same with a source that never stops sending.
BusySpec == FairSpec /\ WF_vars(OnReceive)
-----------------------------------------------------------------------------
\* The type invariant; on_receive() never sends without a buffer.
TypeOK ==
    /\ buffer_queue \subseteq Bufs
    /\ buf_available \in BOOLEAN
    /\ hpc \in {"idle", "acquire", "send", "notify"}
    /\ reg_buf \in Bufs \cup {NoBuf}
    /\ hpc = "send" => reg_buf # NoBuf
    /\ hpc \in {"idle", "acquire"} => reg_buf = NoBuf
    /\ inflight \subseteq Bufs /\ cq \subseteq Bufs /\ cqerr \subseteq Bufs
    /\ tpc \in {"wait", "clear", "poll", "stopped"}
    /\ cancelled \in BOOLEAN /\ abandoned \in BOOLEAN /\ failed \in BOOLEAN

InHand == {reg_buf} \ {NoBuf}

\* Every buffer is in exactly one place: the one being filled is not under way,
\* the ones under way are not free, and none is lost to the pool.
OneOwner ==
    /\ buffer_queue \cup InHand \cup Outstanding = Bufs
    /\ buffer_queue \cap (InHand \cup Outstanding) = {}
    /\ InHand \cap Outstanding = {}
    /\ inflight \cap (cq \cup cqerr) = {}
    /\ cq \cap cqerr = {}

\* rdma_cq_thread does not sleep on a send it has been told of: when it waits
\* and buffers are out, a notification is there or on its way, or it has given
\* up on them itself.
NoLostWakeup ==
    tpc = "wait" /\ ~buf_available /\ Outstanding # {} => hpc = "notify" \/ abandoned

\* A buffer that was sent comes back to the pool, unless the bridge is shut
\* down or the completion queue fails.
BuffersReplenished ==
    \A b \in Bufs : b \in inflight ~> (b \in buffer_queue \/ cancelled \/ failed)

\* on_shutdown() gets through its join.
ShutdownJoins == cancelled ~> tpc = "stopped"
=============================================================================
