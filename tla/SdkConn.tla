---- MODULE SdkConn ----
(***************************************************************************)
(* A connection of the SDK and the shared memory it exchanges buffers      *)
(* through with the Media Proxy: mesh_create_..., mesh_get_buffer,         *)
(* mesh_put_buffer, mesh_shutdown_connection and mesh_delete_connection    *)
(* over memif, with the calls to the proxy that may fail or time out, the  *)
(* thread that drains the queue of a receiver during shutdown, and the     *)
(* rings of the bundled libmemif.                                          *)
(*                                                                         *)
(* A sender uses the ring from the SDK (the slave) to the proxy (the       *)
(* master), a receiver the one from the proxy to the SDK.  Frames are      *)
(* numbered; their numbers wrap around like the 16-bit indices of a ring.  *)
(* The application follows the documentation: it returns the buffers it    *)
(* got, in the order it got them, before it shuts the connection down.     *)
(***************************************************************************)
EXTENDS Integers, Sequences, FiniteSets, TLC

CONSTANTS RingSize,     \* slots of a ring, a power of two
          IndexMod,     \* 2^16, the modulus of ring indices
          WorkBufs,     \* MEMIF_BUFFER_NUM
          MaxHeld       \* bound: buffers a receiving application holds

ASSUME SdkConnAssumption ==
    /\ RingSize \in Nat /\ RingSize > 0
    /\ IndexMod \in Nat /\ IndexMod > RingSize /\ IndexMod % RingSize = 0
    /\ WorkBufs \in Nat /\ WorkBufs > 0
    /\ MaxHeld \in 1..RingSize

VARIABLES
    client,     \* a mesh client exists
    st,         \* stage of the connection
    kind,       \* "tx" for a sender, "rx" for a receiver
    ring,       \* shared: [head, tail, slot, irq]; irq is the eventfd
    prod,       \* producer of the ring: [next, pc, buf]
    cons,       \* consumer of the ring: [last, pc, buf]
    work,       \* working_bufs, working_idx, buf_num of the SDK
    poll,       \* SDK: [connected, ctl, cancel], events of memif_poll_event()
    held,       \* buffers the application (or the drain thread) has got
    rpc,        \* the DeleteConnection call
    proxy,      \* the proxy has the connection
    sent, got   \* last frame put into the ring, last one out of it

vars == <<client, st, kind, ring, prod, cons, work, poll, held, rpc, proxy, sent, got>>

Slots    == 0 .. RingSize - 1
Stages   == {"none", "new", "created", "memif", "open", "drain", "drained", "closing", "closed"}
NoBuf    == [slot |-> 0, frame |-> 0]
Ready    == st \in {"open", "drain"} /\ poll.connected
Inc(i)   == (i + 1) % IndexMod
Diff(a, b) == (a - b) % IndexMod

\* memif_init_queues(): empty rings; a receiver's slots are then all offered
\* to the proxy by on_connect().
EmptyRing == [head |-> IF kind = "rx" THEN RingSize ELSE 0, tail |-> 0,
              slot |-> [s \in Slots |-> 0], irq |-> FALSE]

-----------------------------------------------------------------------------
(* libmemif.  For a sender the SDK produces at head and the proxy releases *)
(* at tail; for a receiver the SDK releases at head and the proxy produces *)
(* at tail.                                                                *)

\* memif_buffer_alloc(): free slots beyond those already allocated.
Allocatable == IF kind = "tx" THEN Diff(RingSize + ring.tail, prod.next)
               ELSE Diff(ring.head, prod.next)

\* memif_tx_burst(): the index moves, then the other side is interrupted.
Announced(r) == IF kind = "tx" THEN [r EXCEPT !.head = Inc(prod.buf)]
                ELSE [r EXCEPT !.tail = Inc(prod.buf)]

\* memif_rx_burst(): buffers announced and not yet received.
Waiting == Diff(IF kind = "tx" THEN ring.head ELSE ring.tail, cons.last)

\* The i-th of them.
Received(i) == LET s == (cons.last + i) % RingSize IN [slot |-> s, frame |-> ring.slot[s]]

\* memif_refill_queue(1) of the slave: the next slot in the order of the ring.
RefillSlave(r) ==
    IF Diff(RingSize + cons.last, r.head) = 0 THEN r ELSE [r EXCEPT !.head = Inc(@)]

\* Mutant: every slot received or announced is released.
RefillMasterAll(r, count) == [r EXCEPT !.tail = r.head]

\* memif_refill_queue() of the master compares indices that may have wrapped.
RefillMaster(r, count) ==
    [r EXCEPT !.tail = IF r.tail + count <= cons.last THEN r.tail + count ELSE cons.last]

-----------------------------------------------------------------------------
(* The life of a connection.                                               *)

Init ==
    /\ client = FALSE /\ st = "none" /\ kind = "tx"
    /\ ring = EmptyRing
    /\ prod = [next |-> 0, pc |-> "idle", buf |-> 0]
    /\ cons = [last |-> 0, pc |-> "idle", buf |-> NoBuf]
    /\ work = [bufs |-> [i \in 0 .. WorkBufs - 1 |-> NoBuf], idx |-> 0, num |-> 0]
    /\ poll = [connected |-> FALSE, ctl |-> FALSE, cancel |-> FALSE]
    /\ held = <<>> /\ rpc = "none" /\ proxy = FALSE
    /\ sent = 0 /\ got = 0

data == <<ring, prod, cons, work, held, sent, got>>

CreateClient ==
    /\ ~client
    /\ client' = TRUE
    /\ UNCHANGED <<st, kind, poll, rpc, proxy, data>>

\* mesh_delete_client() refuses while a connection is left.
DeleteClient ==
    /\ client /\ st = "none"
    /\ client' = FALSE
    /\ UNCHANGED <<st, kind, poll, rpc, proxy, data>>

\* create_conn() and apply_json_config().
CreateConnection(k) ==
    /\ client /\ st = "none"
    /\ st' = "new" /\ kind' = k
    /\ UNCHANGED <<client, poll, rpc, proxy, data>>

\* The CreateConnection call; an error, or an answer after the deadline,
\* leaves a connection without a handle.
RpcCreate ==
    /\ st = "new"
    /\ st' \in {"created", "closed"}
    /\ proxy' \in BOOLEAN /\ (st' = "created" => proxy')
    /\ UNCHANGED <<client, kind, poll, rpc, data>>

\* mcm_create_connection_memif().  Where it fails the proxy is not told.
ConnectMemif ==
    /\ st = "created"
    /\ \/ /\ st' = "memif"
          /\ poll' = [poll EXCEPT !.connected = TRUE]
          /\ ring' = EmptyRing
       \/ st' = "closed" /\ UNCHANGED <<poll, ring>>
    /\ UNCHANGED <<client, kind, prod, cons, work, held, rpc, proxy, sent, got>>

\* ActivateConnection; when it fails the connection is destroyed.
RpcActivate ==
    /\ st = "memif"
    /\ \/ st' = "open" /\ UNCHANGED rpc
       \/ st' = "closing" /\ rpc' = "pending"
    /\ UNCHANGED <<client, kind, poll, proxy, data>>

\* mesh_shutdown_connection(): a receiver drains its queue meanwhile.
Shutdown ==
    /\ st = "open" /\ held = <<>>
    /\ IF kind = "tx" THEN prod.pc = "idle" ELSE cons.pc = "idle"
    /\ st' = IF kind = "tx" THEN "closing" ELSE "drain"
    /\ rpc' = "pending"
    /\ UNCHANGED <<client, kind, poll, proxy, data>>

\* DeleteConnection at the proxy waits for the buffer in progress, and ends
\* the shared memory.
ProxyDelete ==
    /\ rpc \in {"pending", "late"} /\ proxy
    /\ IF kind = "tx" THEN cons.pc = "idle" ELSE prod.pc = "idle"
    /\ proxy' = FALSE /\ rpc' = IF rpc = "late" THEN "late" ELSE "done"
    /\ poll' = [poll EXCEPT !.ctl = poll.connected]
    /\ UNCHANGED <<client, st, kind, data>>

\* The call fails or its deadline passes; the proxy may still execute it.
RpcDeleteFails ==
    /\ rpc = "pending"
    /\ rpc' = "late"
    /\ UNCHANGED <<client, st, kind, poll, proxy, data>>

\* grpc_destroy_conn() returned: stop is requested, the thread is joined.
ShutdownReturns ==
    /\ rpc \in {"done", "late"} /\ st \in {"closing", "drained"}
    /\ st' = "closed" /\ rpc' = "none"
    /\ UNCHANGED <<client, kind, poll, proxy, data>>

\* mesh_delete_connection() of a connection that is shut down or never came up.
DeleteConnection ==
    /\ st = "closed"
    /\ st' = "none" /\ kind' = "tx"
    /\ ring' = [head |-> 0, tail |-> 0, slot |-> [s \in Slots |-> 0], irq |-> FALSE]
    /\ prod' = [next |-> 0, pc |-> "idle", buf |-> 0]
    /\ cons' = [last |-> 0, pc |-> "idle", buf |-> NoBuf]
    /\ work' = [bufs |-> [i \in 0 .. WorkBufs - 1 |-> NoBuf], idx |-> 0, num |-> 0]
    /\ poll' = [connected |-> FALSE, ctl |-> FALSE, cancel |-> FALSE]
    /\ held' = <<>> /\ proxy' = FALSE /\ sent' = 0 /\ got' = 0
    /\ UNCHANGED <<client, rpc>>

-----------------------------------------------------------------------------
(* A sender: the application gets, fills and puts one buffer at a time;    *)
(* the event loop of the proxy receives one buffer at an interrupt.        *)

life == <<client, st, kind, rpc, proxy>>

\* memif_dequeue_buffer() of a sender.  Without a free slot it waits or
\* returns an error; a disconnection is noticed by its poll.
GetTx ==
    /\ st = "open" /\ kind = "tx" /\ prod.pc = "idle" /\ poll.connected
    /\ ~poll.ctl /\ Allocatable > 0
    /\ prod' = [next |-> Inc(prod.next), pc |-> "got", buf |-> prod.next]
    /\ held' = <<[slot |-> prod.next % RingSize, frame |-> Inc(sent)]>>
    /\ ring' = [ring EXCEPT !.slot[prod.next % RingSize] = Inc(sent)]
    /\ UNCHANGED <<life, cons, work, poll, sent, got>>

\* memif_enqueue_buffer() of a sender.
PutTx ==
    /\ st = "open" /\ kind = "tx" /\ prod.pc = "got"
    /\ held' = <<>>
    /\ IF poll.connected
       THEN /\ ring' = Announced(ring)
            /\ sent' = Inc(sent)
            /\ prod' = [prod EXCEPT !.pc = "irq"]
       ELSE prod' = [prod EXCEPT !.pc = "idle"] /\ UNCHANGED <<ring, sent>>
    /\ UNCHANGED <<life, cons, work, poll, got>>

\* The end of memif_tx_burst() of either side: the eventfd is written.
Interrupt ==
    /\ prod.pc = "irq"
    /\ ring' = [ring EXCEPT !.irq = TRUE]
    /\ prod' = [prod EXCEPT !.pc = "idle"]
    /\ UNCHANGED <<life, cons, work, poll, held, sent, got>>

\* callback_on_interrupt() of the proxy receives one buffer.  With another
\* one waiting the eventfd is left set.
ProxyBurst ==
    /\ proxy /\ kind = "tx" /\ cons.pc = "idle" /\ ring.irq
    /\ cons' = IF Waiting = 0 THEN [cons EXCEPT !.pc = "empty"]
               ELSE [last |-> Inc(cons.last), buf |-> Received(0),
                     pc |-> IF Waiting > 1 THEN "send" ELSE "clear"]
    /\ UNCHANGED <<life, ring, prod, work, poll, held, sent, got>>

\* The end of memif_rx_burst(): the eventfd is read, which resets it.
ProxyClear ==
    /\ kind = "tx" /\ cons.pc \in {"empty", "clear"}
    /\ ring' = [ring EXCEPT !.irq = FALSE]
    /\ cons' = [cons EXCEPT !.pc = IF @ = "empty" THEN "idle" ELSE "send"]
    /\ UNCHANGED <<life, prod, work, poll, held, sent, got>>

\* on_memif_receive() passes the frame on, then the slot is released.
ProxySend ==
    /\ kind = "tx" /\ cons.pc \in {"send", "refill"}
    /\ IF cons.pc = "send"
       THEN /\ got' = ring.slot[cons.buf.slot]
            /\ cons' = [cons EXCEPT !.pc = "refill"]
            /\ UNCHANGED ring
       ELSE /\ ring' = RefillMaster(ring, 1)
            /\ cons' = [cons EXCEPT !.pc = "idle"]
            /\ UNCHANGED got
    /\ UNCHANGED <<life, prod, work, poll, held, sent>>

-----------------------------------------------------------------------------
(* A receiver: the proxy copies each frame into a slot the SDK offered;    *)
(* the SDK receives all that wait into working_bufs and hands them out.    *)

\* LocalTx::on_receive(): without a slot within the timeout the frame is
\* discarded.
ProxyAlloc ==
    /\ proxy /\ kind = "rx" /\ poll.connected /\ prod.pc = "idle"
    /\ Allocatable > 0
    /\ prod' = [next |-> Inc(prod.next), pc |-> "copy", buf |-> prod.next]
    /\ UNCHANGED <<life, ring, cons, work, poll, held, sent, got>>

ProxyCopy ==
    /\ kind = "rx" /\ prod.pc = "copy"
    /\ ring' = [ring EXCEPT !.slot[prod.buf % RingSize] = Inc(sent)]
    /\ prod' = [prod EXCEPT !.pc = "burst"]
    /\ UNCHANGED <<life, cons, work, poll, held, sent, got>>

ProxyTransmit ==
    /\ kind = "rx" /\ prod.pc = "burst"
    /\ ring' = Announced(ring)
    /\ sent' = Inc(sent)
    /\ prod' = [prod EXCEPT !.pc = "irq"]
    /\ UNCHANGED <<life, cons, work, poll, held, got>>

\* A thread of the SDK is between two calls: the application, or the drain
\* thread, which looks at its stop token before each buffer.
CanGet ==
    /\ Ready /\ kind = "rx" /\ cons.pc = "idle"
    /\ IF st = "open" THEN Len(held) < MaxHeld ELSE held = <<>> /\ rpc = "pending"

\* memif_dequeue_buffer() of a receiver.
GetRx ==
    /\ CanGet
    /\ cons' = [cons EXCEPT !.pc = "wait"]
    /\ UNCHANGED <<life, ring, prod, work, poll, held, sent, got>>

\* The poll sees the interrupt: rx_on_receive() receives up to WorkBufs
\* buffers.  When more wait the call of the application fails, and neither
\* working_idx nor the eventfd is reset.
RxOnReceive ==
    /\ cons.pc = "wait" /\ work.num = 0 /\ ring.irq /\ poll.connected
    /\ LET n == IF Waiting < WorkBufs THEN Waiting ELSE WorkBufs IN
       /\ work' = [work EXCEPT !.num = n,
                     !.bufs = [i \in DOMAIN @ |-> IF i < n THEN Received(i) ELSE @[i]]]
       /\ cons' = [cons EXCEPT !.last = (@ + n) % IndexMod,
                               !.pc = IF Waiting > n THEN "fail" ELSE "clear"]
    /\ UNCHANGED <<life, ring, prod, poll, held, sent, got>>

\* The rest of rx_on_receive(); the timeout may have passed meanwhile.
RxClear ==
    /\ kind = "rx" /\ cons.pc = "clear"
    /\ ring' = [ring EXCEPT !.irq = FALSE]
    /\ work' = [work EXCEPT !.idx = 0]
    /\ \E pc \in {"wait", "fail"} : cons' = [cons EXCEPT !.pc = pc]
    /\ UNCHANGED <<life, prod, poll, held, sent, got>>

\* A buffer is handed out.  Beyond the array the content is arbitrary.
RxTake ==
    /\ cons.pc = "wait" /\ work.num > 0
    /\ LET b == IF work.idx \in DOMAIN work.bufs THEN work.bufs[work.idx] ELSE NoBuf IN
       /\ held' = Append(held, b)
       /\ got' = b.frame
    /\ work' = [work EXCEPT !.idx = @ + 1, !.num = @ - 1]
    /\ cons' = [cons EXCEPT !.pc = "idle"]
    /\ UNCHANGED <<life, ring, prod, poll, sent>>

\* The poll times out or is cancelled: no buffer is returned.
RxTimeout ==
    /\ cons.pc = "wait" /\ work.num = 0
    /\ ~(ring.irq /\ poll.connected)
    /\ cons' = [cons EXCEPT !.pc = "fail"]
    /\ UNCHANGED <<life, ring, prod, work, poll, held, sent, got>>

\* The call returns an error, which ends the drain thread.
GetFails ==
    /\ cons.pc = "fail"
    /\ cons' = [cons EXCEPT !.pc = "idle"]
    /\ st' = IF st = "drain" THEN "drained" ELSE st
    /\ UNCHANGED <<client, kind, rpc, proxy, ring, prod, work, poll, held, sent, got>>

\* Mutant: a buffer returned late releases the others as well.
PutRxAll ==
    /\ kind = "rx" /\ held # <<>> /\ cons.pc = "idle"
    /\ held' = Tail(held)
    /\ ring' = [ring EXCEPT !.head = (cons.last + RingSize) % IndexMod]
    /\ UNCHANGED <<life, prod, cons, work, poll, sent, got>>

\* memif_enqueue_buffer() of a receiver offers one more slot to the proxy.
PutRx ==
    /\ kind = "rx" /\ held # <<>> /\ cons.pc = "idle"
    /\ held' = Tail(held)
    /\ ring' = IF poll.connected THEN RefillSlave(ring) ELSE ring
    /\ UNCHANGED <<life, prod, cons, work, poll, sent, got>>

\* Mutant: the drain thread goes on until a buffer fails to come.
DrainEndsOnErrorOnly ==
    /\ st = "drain" /\ cons.pc = "idle" /\ held = <<>>
    /\ ~poll.connected
    /\ st' = "drained"
    /\ UNCHANGED <<client, kind, rpc, proxy, poll, data>>

\* The drain thread sees that it is to stop, or is no longer connected.
DrainEnds ==
    /\ st = "drain" /\ cons.pc = "idle" /\ held = <<>>
    /\ rpc # "pending" \/ ~poll.connected
    /\ st' = "drained"
    /\ UNCHANGED <<client, kind, rpc, proxy, poll, data>>

-----------------------------------------------------------------------------
(* The end of the shared memory.                                           *)

\* on_disconnect(), called by the poll of the SDK.
OnDisconnect ==
    /\ poll.ctl /\ st \in {"open", "drain"}
    /\ IF kind = "tx" THEN prod.pc = "idle" ELSE cons.pc = "wait" /\ work.num = 0
    /\ poll' = [connected |-> FALSE, ctl |-> FALSE, cancel |-> TRUE]
    /\ UNCHANGED <<life, data>>

\* The proxy goes down in any state of its threads.
ProxyCrash ==
    /\ proxy /\ poll.connected
    /\ proxy' = FALSE
    /\ poll' = [poll EXCEPT !.ctl = TRUE]
    /\ IF kind = "tx" THEN cons' = [cons EXCEPT !.pc = "idle"] /\ UNCHANGED prod
       ELSE prod' = [prod EXCEPT !.pc = "idle"] /\ UNCHANGED cons
    /\ UNCHANGED <<client, st, kind, rpc, ring, work, held, sent, got>>

Next ==
    \/ CreateClient \/ DeleteClient
    \/ \E k \in {"tx", "rx"} : CreateConnection(k)
    \/ RpcCreate \/ ConnectMemif \/ RpcActivate
    \/ Shutdown \/ ProxyDelete \/ RpcDeleteFails \/ ShutdownReturns \/ DeleteConnection
    \/ GetTx \/ PutTx \/ Interrupt \/ ProxyBurst \/ ProxyClear \/ ProxySend
    \/ ProxyAlloc \/ ProxyCopy \/ ProxyTransmit
    \/ GetRx \/ RxOnReceive \/ RxClear \/ RxTake \/ RxTimeout \/ GetFails \/ PutRx
    \/ DrainEnds \/ OnDisconnect \/ ProxyCrash

\* Threads that are inside a call go on; a call to the proxy has a deadline;
\* a poll has a timeout.  Nothing makes the application call, the proxy
\* send, or the proxy crash.
Fairness ==
    /\ WF_vars(ShutdownReturns) /\ WF_vars(ProxyDelete \/ RpcDeleteFails)
    /\ WF_vars(Interrupt)
    /\ WF_vars(ProxyBurst) /\ WF_vars(ProxyClear) /\ WF_vars(ProxySend)
    /\ WF_vars(st = "drain" /\ (GetRx \/ RxOnReceive \/ RxClear \/ RxTake
                                 \/ RxTimeout \/ GetFails \/ PutRx \/ DrainEnds))

Spec == Init /\ [][Next]_vars /\ Fairness

-----------------------------------------------------------------------------
(* Properties.                                                             *)

Buffer == [slot : Slots, frame : 0 .. IndexMod - 1]

\* Every variable keeps its type; indices and frame numbers stay below
\* their modulus.
TypeOK ==
    /\ client \in BOOLEAN /\ proxy \in BOOLEAN
    /\ st \in Stages /\ kind \in {"tx", "rx"}
    /\ ring \in [head : 0 .. IndexMod - 1, tail : 0 .. IndexMod - 1,
                 slot : [Slots -> 0 .. IndexMod - 1], irq : BOOLEAN]
    /\ prod \in [next : 0 .. IndexMod - 1, buf : 0 .. IndexMod - 1,
                 pc : {"idle", "got", "copy", "burst", "irq"}]
    /\ cons \in [last : 0 .. IndexMod - 1, buf : Buffer,
                 pc : {"idle", "empty", "clear", "send", "refill", "wait", "fail"}]
    /\ work \in [bufs : [0 .. WorkBufs - 1 -> Buffer], idx : Nat, num : 0 .. WorkBufs]
    /\ poll \in [connected : BOOLEAN, ctl : BOOLEAN, cancel : BOOLEAN]
    /\ held \in Seq(Buffer) /\ Len(held) <= MaxHeld
    /\ rpc \in {"none", "pending", "done", "late"}
    /\ sent \in 0 .. IndexMod - 1 /\ got \in 0 .. IndexMod - 1

\* Received by the SDK and not yet handed out by memif_dequeue_buffer(); at
\* the end of rx_on_receive() working_idx is still to be reset.
Undelivered ==
    LET first == IF cons.pc = "clear" THEN 0 ELSE work.idx
    IN  [i \in 1 .. work.num |->
            IF first + i - 1 \in DOMAIN work.bufs THEN work.bufs[first + i - 1] ELSE NoBuf]

\* Received by the proxy and not yet passed on.
InHand == IF cons.pc \in {"clear", "send"} THEN <<cons.buf>> ELSE <<>>

\* Every frame put into the ring and not yet out of it, in order.
Pending ==
    (IF kind = "tx" THEN InHand ELSE Undelivered) \o [i \in 1 .. Waiting |-> Received(i - 1)]

\* A buffer is nobody else's while it is in use: what the application got
\* with mesh_get_buffer() and has not put back, what the SDK has received,
\* and what the proxy is passing on is not overwritten by the producer.  The
\* variables keep their types.
HeldIntact ==
    /\ TypeOK
    /\ LET inUse == IF kind = "tx" THEN InHand ELSE held \o Undelivered
       IN  \A i \in DOMAIN inUse : ring.slot[inUse[i].slot] = inUse[i].frame

\* Between mesh_put_buffer() and on_memif_receive(), and between
\* LocalTx::on_receive() and mesh_get_buffer(), no frame is lost, repeated or
\* overtaken, across the wrap-around of the indices.
NoneLost ==
    (kind = "rx" \/ proxy) =>
        /\ Diff(sent, got) = Len(Pending)
        /\ \A i \in DOMAIN Pending : Pending[i].frame = (got + i) % IndexMod

\* mesh_shutdown_connection() returns, whether or not the proxy answers,
\* is gone, or goes on sending: the drain thread always ends.
ShutdownEnds == (st \in {"closing", "drain"}) ~> (st = "closed")

\* A frame the application has put reaches the proxy if the application only
\* waits for it, as the delay in ConnectionContext::shutdown() supposes.
SentIsPassedOn ==
    \A f \in 0 .. IndexMod - 1 :
        (kind = "tx" /\ st = "open" /\ sent = f) ~> (got = f \/ st # "open" \/ ~proxy)

====
