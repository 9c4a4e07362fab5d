------------------------------- MODULE RdmaRx -------------------------------
(***************************************************************************)
(* The receiving side of an RDMA bridge: media-proxy/src/mesh/             *)
(* conn_rdma_rx.cc with the buffer queue of conn_rdma.cc.                  *)
(*                                                                         *)
(* Two threads share a pool of buffers.  process_buffers_thread takes      *)
(* buffers off the queue and posts them to the endpoints, rdma_cq_thread   *)
(* reads completions, puts the buffers in order of the sequence number in  *)
(* their trailer, hands them to the hot path and gives them back to the    *)
(* queue.                                                                  *)
(*                                                                         *)
(* The sender is RdmaTx::on_receive of the peer: it numbers the frames and *)
(* deals them out to the endpoints in turn.  Each endpoint is a reliable   *)
(* FIFO connection; frames overtake each other between endpoints only.     *)
(***************************************************************************)
EXTENDS Integers, Sequences, FiniteSets, SequencesExt

CONSTANTS Bufs,          \* the buffers, "queue_size" of them
          Eps,           \* number of endpoints, rdma_num_eps
          REORDER_WINDOW,
          MaxSeq,        \* bound: sequence numbers below this one are used
          Faults,        \* bound: failed posts and error completions
          Skips,         \* bound: numbers of the shared counter that this
                         \* receiver's peer does not send
          FirstArrivesFirst, \* TRUE: no frame overtakes the very first one
          NoBuf

ASSUME RdmaRxAssumption ==
    /\ Eps \in Nat \ {0} /\ REORDER_WINDOW \in Nat \ {0}
    /\ MaxSeq \in Nat /\ Faults \in Nat /\ Skips \in Nat
    /\ NoBuf \notin Bufs
    /\ FirstArrivesFirst \in BOOLEAN

Endpoints == 0..(Eps - 1)
Slots     == 0..(REORDER_WINDOW - 1)

VARIABLES
    \* The sender and the network.
    global_seq,     \* the sender's counter
    next_tx_idx,    \* the sender's endpoint counter
    net,            \* net[e]: the numbers under way on endpoint e
    skipped,        \* numbers that were drawn and not sent here
    faults,         \* faults so far
    \* The receiver.
    buffer_queue,
    buf_available,
    posted,         \* posted[e]: buffers posted to endpoint e
    next_rx_idx,
    ppc, pbuf,      \* process_buffers_thread: place, buffer in hand
    trailer,        \* trailer[b]: the number in buffer b
    cq, cqerr,      \* completions and error completions
    cpc, batch,     \* rdma_cq_thread: place, completions being processed
    reorder_ring,
    reorder_head,   \* -1 is UINT64_MAX
    cancelled,      \* on_shutdown() has cancelled the threads' contexts
    delivered       \* history: the numbers handed to transmit()

sender == <<global_seq, next_tx_idx, skipped>>
proc   == <<ppc, pbuf, next_rx_idx>>
order  == <<batch, reorder_ring, reorder_head, delivered>>
vars   == <<global_seq, next_tx_idx, net, skipped, faults, buffer_queue,
            buf_available, posted, next_rx_idx, ppc, pbuf, trailer, cq, cqerr,
            cpc, batch, reorder_ring, reorder_head, cancelled, delivered>>

\* init_queue_with_elements() and start_threads().
Init ==
    /\ global_seq = 0 /\ next_tx_idx = 0 /\ skipped = {} /\ faults = 0
    /\ net = [e \in Endpoints |-> <<>>]
    /\ buffer_queue = SetToSeq(Bufs)
    /\ buf_available = FALSE
    /\ posted = [e \in Endpoints |-> <<>>]
    /\ next_rx_idx = 0 /\ ppc = "drain" /\ pbuf = NoBuf
    /\ trailer = [b \in Bufs |-> 0]
    /\ cq = <<>> /\ cqerr = <<>> /\ cpc = "poll" /\ batch = <<>>
    /\ reorder_ring = [i \in Slots |-> NoBuf]
    /\ reorder_head = -1
    /\ cancelled = FALSE
    /\ delivered = <<>>
-----------------------------------------------------------------------------
\* RdmaTx::on_receive(): the next number, on the next endpoint.
Send ==
    /\ global_seq < MaxSeq
    /\ net' = [net EXCEPT ![next_tx_idx % Eps] = Append(@, global_seq)]
    /\ global_seq' = global_seq + 1
    /\ next_tx_idx' = next_tx_idx + 1
    /\ UNCHANGED <<skipped, faults, buffer_queue, buf_available, posted, proc, trailer,
                   cq, cqerr, cpc, order, cancelled>>

\* A number that never comes here: "global_seq" is shared by all RdmaTx, so
\* another egress bridge has drawn it; a failed send burns its number too.
Skip ==
    /\ global_seq < MaxSeq
    /\ Cardinality(skipped) < Skips
    /\ skipped' = skipped \cup {global_seq}
    /\ global_seq' = global_seq + 1
    /\ UNCHANGED <<next_tx_idx, net, faults, buffer_queue, buf_available, posted, proc,
                   trailer, cq, cqerr, cpc, order, cancelled>>

\* All the frames sent are still under way.
NoneArrived ==
    Cardinality(UNION {Range(net[e]) : e \in Endpoints}) = global_seq - Cardinality(skipped)

\* A frame fills the first buffer posted to its endpoint.  The provider
\* orders nothing between endpoints; FirstArrivesFirst is an assumption on it.
Arrive(e) ==
    /\ net[e] # <<>> /\ posted[e] # <<>>
    /\ FirstArrivesFirst /\ NoneArrived =>
           \A f \in Endpoints : net[f] # <<>> => Head(net[e]) <= Head(net[f])
    /\ trailer' = [trailer EXCEPT ![Head(posted[e])] = Head(net[e])]
    /\ cq' = Append(cq, Head(posted[e]))
    /\ net' = [net EXCEPT ![e] = Tail(@)]
    /\ posted' = [posted EXCEPT ![e] = Tail(@)]
    /\ UNCHANGED <<sender, faults, buffer_queue, buf_available, proc, cqerr, cpc, order,
                   cancelled>>

\* The provider gives a posted buffer back with an error.
Fail(e) ==
    /\ posted[e] # <<>> /\ faults < Faults
    /\ faults' = faults + 1
    /\ cqerr' = Append(cqerr, Head(posted[e]))
    /\ posted' = [posted EXCEPT ![e] = Tail(@)]
    /\ UNCHANGED <<sender, net, buffer_queue, buf_available, proc, trailer, cq, cpc, order,
                   cancelled>>
-----------------------------------------------------------------------------
\* Mutant: add_to_queue() does not notify.
AddToQueueSilent(b) ==
    /\ buffer_queue' = Append(buffer_queue, b)
    /\ UNCHANGED buf_available

\* add_to_queue() with its notify_buf_available().
AddToQueue(b) ==
    /\ buffer_queue' = Append(buffer_queue, b)
    /\ buf_available' = TRUE

\* process_buffers_thread: consume_from_queue() hands over a buffer ...
Consume ==
    /\ ppc = "drain" /\ ~cancelled /\ buffer_queue # <<>>
    /\ pbuf' = Head(buffer_queue)
    /\ buffer_queue' = Tail(buffer_queue)
    /\ ppc' = "post"
    /\ UNCHANGED <<sender, net, faults, buf_available, posted, next_rx_idx, trailer, cq,
                   cqerr, cpc, order, cancelled>>

\* ... or finds the queue empty or the context cancelled.
ConsumeNothing ==
    /\ ppc = "drain" /\ (cancelled \/ buffer_queue = <<>>)
    /\ ppc' = "wait"
    /\ UNCHANGED <<sender, net, faults, buffer_queue, buf_available, posted, pbuf,
                   next_rx_idx, trailer, cq, cqerr, cpc, order, cancelled>>

\* ep_recv_buf() on the next endpoint.
Post ==
    /\ ppc = "post"
    /\ posted' = [posted EXCEPT ![next_rx_idx % Eps] = Append(@, pbuf)]
    /\ next_rx_idx' = (next_rx_idx + 1) % Eps
    /\ ppc' = "drain" /\ pbuf' = NoBuf
    /\ UNCHANGED <<sender, net, faults, buffer_queue, buf_available, trailer, cq, cqerr,
                   cpc, order, cancelled>>

\* Mutant: the buffer is not given back when posting fails.
PostFailsLeak ==
    /\ ppc = "post" /\ faults < Faults
    /\ faults' = faults + 1
    /\ next_rx_idx' = (next_rx_idx + 1) % Eps
    /\ ppc' = "drain" /\ pbuf' = NoBuf
    /\ UNCHANGED <<sender, net, buffer_queue, buf_available, posted, trailer, cq, cqerr,
                   cpc, order, cancelled>>

\* ep_recv_buf() fails: the buffer goes back to the queue.
PostFails ==
    /\ ppc = "post" /\ faults < Faults
    /\ faults' = faults + 1
    /\ AddToQueue(pbuf)
    /\ next_rx_idx' = (next_rx_idx + 1) % Eps
    /\ ppc' = "drain" /\ pbuf' = NoBuf
    /\ UNCHANGED <<sender, net, posted, trailer, cq, cqerr, cpc, order, cancelled>>

\* wait_buf_available(): the wait returns, then the flag is cleared.
WaitBufAvailable ==
    /\ ppc = "wait" /\ buf_available
    /\ ppc' = "clear"
    /\ UNCHANGED <<sender, net, faults, buffer_queue, buf_available, posted, pbuf,
                   next_rx_idx, trailer, cq, cqerr, cpc, order, cancelled>>

ClearBufAvailable ==
    /\ ppc = "clear"
    /\ buf_available' = FALSE
    /\ ppc' = IF cancelled THEN "stopped" ELSE "drain"
    /\ UNCHANGED <<sender, net, faults, buffer_queue, posted, pbuf, next_rx_idx, trailer,
                   cq, cqerr, cpc, order, cancelled>>
-----------------------------------------------------------------------------
\* Mutant: the ring index is masked with the window less one.
SlotShort(seq) == seq % (REORDER_WINDOW - 1)

Slot(seq) == seq % REORDER_WINDOW

\* rdma_cq_thread reads the completions in a batch.
CqRead ==
    /\ cpc = "poll" /\ ~cancelled /\ cq # <<>>
    /\ batch' = cq
    /\ cq' = <<>>
    /\ cpc' = "entry"
    /\ UNCHANGED <<sender, net, faults, buffer_queue, buf_available, posted, proc, trailer,
                   cqerr, cancelled, reorder_ring, reorder_head, delivered>>

\* An entry of the batch goes into the ring.  The first frame ever seen sets
\* the head.
CqEntry ==
    /\ cpc = "entry" /\ batch # <<>>
    /\ LET b   == Head(batch)
           seq == trailer[b]
       IN  /\ reorder_head' = IF reorder_head = -1 THEN seq ELSE reorder_head
           /\ reorder_ring' = [reorder_ring EXCEPT ![Slot(seq)] = b]
    /\ batch' = Tail(batch)
    /\ cpc' = "flush"
    /\ UNCHANGED <<sender, net, faults, buffer_queue, buf_available, posted, proc, trailer,
                   cq, cqerr, cancelled, delivered>>

\* An error completion: the buffer goes back, and a cancelled operation is
\* followed by the same flush.
CqReadErr ==
    /\ cpc = "poll" /\ ~cancelled /\ cqerr # <<>>
    /\ AddToQueue(Head(cqerr))
    /\ cqerr' = Tail(cqerr)
    /\ cpc' \in IF reorder_head = -1 THEN {"poll"} ELSE {"poll", "flush"}
    /\ UNCHANGED <<sender, net, faults, posted, proc, trailer, cq, order, cancelled>>

\* The flush loop delivers the frame at the head and recycles its buffer ...
Flush ==
    /\ cpc = "flush"
    /\ LET b == reorder_ring[Slot(reorder_head)]
       IN  /\ b # NoBuf
           /\ reorder_ring' = [reorder_ring EXCEPT ![Slot(reorder_head)] = NoBuf]
           /\ delivered' = Append(delivered, trailer[b])
           /\ AddToQueue(b)
    /\ reorder_head' = reorder_head + 1
    /\ UNCHANGED <<sender, net, faults, posted, proc, trailer, cq, cqerr, cpc, batch,
                   cancelled>>

\* ... until the next frame is not there.
FlushDone ==
    /\ cpc = "flush"
    /\ reorder_ring[Slot(reorder_head)] = NoBuf
    /\ cpc' = IF batch = <<>> THEN "poll" ELSE "entry"
    /\ UNCHANGED <<sender, net, faults, buffer_queue, buf_available, posted, proc, trailer,
                   cq, cqerr, order, cancelled>>

\* Any other error of fi_cq_read() ends the thread; the state stays active.
CqFatal ==
    /\ cpc = "poll" /\ ~cancelled /\ faults < Faults
    /\ faults' = faults + 1
    /\ cpc' = "stopped"
    /\ UNCHANGED <<sender, net, buffer_queue, buf_available, posted, proc, trailer, cq,
                   cqerr, order, cancelled>>

\* The loop condition finds the context cancelled.
CqStop ==
    /\ cpc = "poll" /\ cancelled
    /\ cpc' = "stopped"
    /\ UNCHANGED <<sender, net, faults, buffer_queue, buf_available, posted, proc, trailer,
                   cq, cqerr, order, cancelled>>
-----------------------------------------------------------------------------
\* Mutant: the contexts are cancelled and nobody is woken.
ShutdownNoNotify ==
    /\ ~cancelled
    /\ cancelled' = TRUE
    /\ UNCHANGED <<sender, net, faults, buffer_queue, buf_available, posted, proc, trailer,
                   cq, cqerr, cpc, order>>

\* on_shutdown() up to the joins: cancel, then notify.
Shutdown ==
    /\ ~cancelled
    /\ cancelled' = TRUE
    /\ buf_available' = TRUE
    /\ UNCHANGED <<sender, net, faults, buffer_queue, posted, proc, trailer, cq, cqerr, cpc,
                   order>>

Process == \/ Consume
           \/ ConsumeNothing
           \/ Post
           \/ PostFails
           \/ WaitBufAvailable
           \/ ClearBufAvailable

Cq == CqRead \/ CqEntry \/ CqReadErr \/ CqFatal \/ Flush \/ FlushDone \/ CqStop

Network == \E e \in Endpoints : Arrive(e) \/ Fail(e)

Next == Send \/ Skip \/ Network \/ Process \/ Cq \/ Shutdown

Spec == Init /\ [][Next]_vars

\* The threads run, and the network delivers into buffers that are posted.
Fairness ==
    /\ WF_vars(Process)
    /\ WF_vars(Cq)
    /\ \A e \in Endpoints : WF_vars(Arrive(e))

FairSpec == Spec /\ Fairness
-----------------------------------------------------------------------------
\* The type invariant.
TypeOK ==
    /\ global_seq \in 0..MaxSeq /\ next_tx_idx \in Nat
    /\ skipped \subseteq 0..(MaxSeq - 1) /\ faults \in 0..Faults
    /\ net \in [Endpoints -> Seq(0..(MaxSeq - 1))]
    /\ buffer_queue \in Seq(Bufs) /\ buf_available \in BOOLEAN
    /\ posted \in [Endpoints -> Seq(Bufs)] /\ next_rx_idx \in Nat
    /\ ppc \in {"drain", "post", "wait", "clear", "stopped"}
    /\ pbuf \in Bufs \cup {NoBuf} /\ (ppc = "post" <=> pbuf # NoBuf)
    /\ trailer \in [Bufs -> 0..MaxSeq]
    /\ cq \in Seq(Bufs) /\ cqerr \in Seq(Bufs) /\ batch \in Seq(Bufs)
    /\ cpc \in {"poll", "entry", "flush", "stopped"}
    /\ (cpc \in {"poll", "stopped"} => batch = <<>>)
    /\ (cpc = "flush" => reorder_head >= 0)
    /\ reorder_ring \in [Slots -> Bufs \cup {NoBuf}]
    /\ reorder_head \in -1..MaxSeq
    /\ cancelled \in BOOLEAN
    /\ delivered \in Seq(0..(MaxSeq - 1))

\* The buffers, place by place.
Places ==
    buffer_queue \o FlattenSeq([i \in 1..Eps |-> posted[i - 1]]) \o cq \o cqerr \o batch
    \o SelectSeq(<<pbuf>> \o [i \in 1..REORDER_WINDOW |-> reorder_ring[i - 1]],
                 LAMBDA b : b # NoBuf)

\* Every buffer is in exactly one place: none is posted twice, so no frame is
\* overwritten before it is delivered, and none is lost to the pool; the
\* variables keep their types.
OneOwner == TypeOK /\ Len(Places) = Cardinality(Bufs) /\ Range(Places) = Bufs

\* The hot path gets the peer's frames one after the other, each once: no
\* frame is dropped, repeated or out of order in what has been delivered.
InOrder == \A i \in 2..Len(delivered) : delivered[i] = delivered[i - 1] + 1

\* A frame is delivered once every number before it has been sent here, unless
\* the bridge is shut down or the completion queue fails for good.
FramesDelivered ==
    \A s \in 0..(MaxSeq - 1) :
        (s < global_seq /\ \A k \in skipped : k > s)
            ~> (Contains(delivered, s) \/ cancelled \/ cpc = "stopped")

\* A completed buffer is returned to the buffer queue for reuse.
BuffersReturned ==
    \A b \in Bufs :
        Contains(batch, b) ~> (Contains(buffer_queue, b) \/ cancelled)

\* on_shutdown() gets through its joins: no thread sleeps through the
\* cancellation.
ShutdownJoins == cancelled ~> (ppc = "stopped" /\ cpc = "stopped")
=============================================================================
