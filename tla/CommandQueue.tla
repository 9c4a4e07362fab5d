---- MODULE CommandQueue ----
(***************************************************************************)
(* How the agent delivers configurations to one Media Proxy.               *)
(*                                                                         *)
(* The agent's worker hands one request at a time to the proxy's command   *)
(* queue and waits for the reply.  Every StartCommandQueue call of the     *)
(* proxy is a goroutine of the agent that takes requests from the queue,   *)
(* enters them into the request map and sends them down its stream; when   *)
(* the connection breaks the proxy calls again, while the goroutine of the *)
(* broken stream lives on until it notices.  The readiness channel says    *)
(* whether a stream is in service.  Replies come in through a call of      *)
(* their own and find the waiting worker through the request map.          *)
(*                                                                         *)
(* A configuration is represented by its version.                          *)
(***************************************************************************)
EXTENDS Integers, Sequences

CONSTANTS MaxVersion,   \* bound: changes of the configuration
          MaxStreams,   \* bound: calls of StartCommandQueue
          QueueCap      \* capacity of the command queue

ASSUME CommandQueueAssumption ==
    MaxVersion \in Nat /\ MaxStreams \in Nat /\ QueueCap \in Nat \ {0}

Streams  == 1 .. MaxStreams
Requests == 1 .. MaxVersion + MaxStreams    \* one for each change and each start

VARIABLES
    version,    \* the configuration the registries describe
    applyq,     \* how often the proxy is in the worker's queue
    worker,     \* [pc, req]: the worker, and the request it sends
    sent,       \* versions of the requests made so far
    queue,      \* mp.queue: requests no stream has taken
    requestMap, \* requests that wait for a reply
    reply,      \* reply[r]: [val, closed], the reply channel of request r
    ready,      \* the state of the readiness channel
    deinit,     \* the proxy is unregistered and its queue context cancelled
    stream,     \* stream[s]: [pc, req], the goroutine of stream s
    broken,     \* streams whose connection is broken
    noticed,    \* broken streams whose goroutine has been told
    net,        \* net[s]: requests under way to the proxy
    client,     \* [pc, s, req]: the proxy's command thread
    calls,      \* SendCommandReply calls under way to the agent
    applied,    \* version of the configuration the proxy applied last
    crashed     \* the agent has panicked

agent   == <<version, applyq, worker, sent, queue, requestMap, reply, ready, deinit>>
streams == <<stream, broken, noticed, net>>
proxy   == <<client, calls, applied>>
vars    == <<agent, streams, proxy, crashed>>

Empty == [val |-> "none", closed |-> FALSE]
Err   == [val |-> "err", closed |-> TRUE]
Data  == [val |-> "data", closed |-> FALSE]

Init ==
    /\ version = 1 /\ applyq = 0
    /\ worker = [pc |-> "idle", req |-> 0]
    /\ sent = <<>> /\ queue = <<>> /\ requestMap = {}
    /\ reply = [r \in Requests |-> Empty]
    /\ ready = FALSE /\ deinit = FALSE
    /\ stream = [s \in Streams |-> [pc |-> "none", req |-> 0]]
    /\ broken = {} /\ noticed = {}
    /\ net = [s \in Streams |-> <<>>]
    /\ client = [pc |-> "idle", s |-> 0, req |-> 0]
    /\ calls = {} /\ applied = 0 /\ crashed = FALSE

(***************************************************************************)
(* The agent's worker                                                      *)
(***************************************************************************)

\* Some event changes the registries and puts the proxy into the queue.
ChangeConfig ==
    /\ ~ crashed /\ version <= MaxVersion
    /\ version' = version + 1
    /\ applyq' = applyq + 1
    /\ UNCHANGED <<worker, sent, queue, requestMap, reply, ready, deinit, streams, proxy, crashed>>

WorkerTake ==
    /\ ~ crashed /\ worker.pc = "idle" /\ applyq > 0
    /\ applyq' = applyq - 1
    /\ IF deinit
       THEN UNCHANGED <<worker, sent>>
       ELSE /\ sent' = Append(sent, version)
            /\ worker' = [pc |-> "enqueue", req |-> Len(sent) + 1]
    /\ UNCHANGED <<version, queue, requestMap, reply, ready, deinit, streams, proxy, crashed>>

WorkerEnqueue ==
    /\ ~ crashed /\ worker.pc = "enqueue" /\ Len(queue) < QueueCap
    /\ queue' = Append(queue, worker.req)
    /\ worker' = [worker EXCEPT !.pc = "wait"]
    /\ UNCHANGED <<version, applyq, sent, requestMap, reply, ready, deinit, streams, proxy, crashed>>

\* sendCommandSync returns with an error, and on the way out calls
\* CancelCommandRequest: with the map locked, answer and close the channel of
\* a request that still waits.  The channel holds one reply: there must be room.
CancelCommandRequest ==
    LET r == worker.req IN
    /\ IF r \notin requestMap
       THEN UNCHANGED <<requestMap, reply, crashed>>
       ELSE /\ reply[r].closed \/ reply[r].val = "none"
            /\ crashed' = reply[r].closed
            /\ requestMap' = requestMap \ {r}
            /\ reply' = [reply EXCEPT ![r] = Err]
    /\ worker' = [pc |-> "idle", req |-> 0]
    /\ UNCHANGED <<version, applyq, sent, queue, ready, deinit, streams, proxy>>

\* Mutant: only a cancelled queue ends the wait.
WorkerNotReadyIgnored ==
    ~ crashed /\ worker.pc \in {"enqueue", "wait"} /\ deinit /\ CancelCommandRequest

\* No stream is in service, or the proxy is unregistered.
WorkerNotReady ==
    ~ crashed /\ worker.pc \in {"enqueue", "wait"} /\ (~ ready \/ deinit) /\ CancelCommandRequest

\* No reply within 10 seconds.
WorkerTimeout == ~ crashed /\ worker.pc = "wait" /\ CancelCommandRequest

WorkerReceiveError ==
    ~ crashed /\ worker.pc = "wait" /\ reply[worker.req].val = "err" /\ CancelCommandRequest

WorkerReceive ==
    /\ ~ crashed /\ worker.pc = "wait" /\ reply[worker.req].val = "data"
    /\ worker' = [pc |-> "idle", req |-> 0]
    /\ UNCHANGED <<version, applyq, sent, queue, requestMap, reply, ready, deinit, streams, proxy,
                   crashed>>

(***************************************************************************)
(* The goroutine of a stream.  Nobody receives from the readiness channel  *)
(* once the proxy is unregistered: setting it then never returns.          *)
(***************************************************************************)
StreamSetReady(s) ==
    /\ ~ crashed /\ stream[s].pc = "start" /\ ~ deinit
    /\ ready' = TRUE
    /\ stream' = [stream EXCEPT ![s].pc = "loop"]
    /\ UNCHANGED <<version, applyq, worker, sent, queue, requestMap, reply, deinit,
                   broken, noticed, net, proxy, crashed>>

\* A request the worker cancels between the take and the entry into the map
\* fares like one it cancels before the take: both are one step.
StreamTake(s) ==
    /\ ~ crashed /\ stream[s].pc = "loop" /\ queue # <<>>
    /\ stream' = [stream EXCEPT ![s] = [pc |-> "send", req |-> Head(queue)]]
    /\ queue' = Tail(queue)
    /\ requestMap' = requestMap \union {Head(queue)}
    /\ UNCHANGED <<version, applyq, worker, sent, reply, ready, deinit,
                   broken, noticed, net, proxy, crashed>>

\* Sending succeeds until the goroutine is told of the broken connection.
StreamSend(s) ==
    /\ ~ crashed /\ stream[s].pc = "send" /\ s \notin noticed
    /\ net' = IF s \in broken THEN net ELSE [net EXCEPT ![s] = Append(@, stream[s].req)]
    /\ stream' = [stream EXCEPT ![s] = [pc |-> "loop", req |-> 0]]
    /\ UNCHANGED <<agent, broken, noticed, proxy, crashed>>

\* Mutant: the request goes back into the queue.
StreamSendFailsRetries(s) ==
    /\ ~ crashed /\ stream[s].pc = "send" /\ s \in noticed /\ Len(queue) < QueueCap
    /\ requestMap' = requestMap \ {stream[s].req}
    /\ queue' = Append(queue, stream[s].req)
    /\ stream' = [stream EXCEPT ![s] = [pc |-> "loop", req |-> 0]]
    /\ UNCHANGED <<version, applyq, worker, sent, reply, ready, deinit,
                   broken, noticed, net, proxy, crashed>>

StreamSendFails(s) ==
    /\ ~ crashed /\ stream[s].pc = "send" /\ s \in noticed
    /\ requestMap' = requestMap \ {stream[s].req}
    /\ stream' = [stream EXCEPT ![s].pc = "answer"]
    /\ UNCHANGED <<version, applyq, worker, sent, queue, reply, ready, deinit,
                   broken, noticed, net, proxy, crashed>>

\* Answer the worker with the error and close the channel; if the worker has
\* cancelled the request in the meantime the channel is closed already, and
\* to send on a closed channel is a panic.
StreamAnswer(s) ==
    LET r == stream[s].req IN
    /\ ~ crashed /\ stream[s].pc = "answer" /\ (reply[r].closed \/ reply[r].val = "none")
    /\ crashed' = reply[r].closed
    /\ reply' = [reply EXCEPT ![r] = Err]
    /\ stream' = [stream EXCEPT ![s] = [pc |-> "loop", req |-> 0]]
    /\ UNCHANGED <<version, applyq, worker, sent, queue, requestMap, ready, deinit,
                   broken, noticed, net, proxy>>

\* The context of the stream or of the queue is done.
StreamEnd(s) ==
    /\ ~ crashed /\ stream[s].pc = "loop" /\ (s \in noticed \/ deinit)
    /\ ready' = (ready /\ deinit)
    /\ stream' = [stream EXCEPT ![s].pc = IF deinit THEN "blocked" ELSE "done"]
    /\ UNCHANGED <<version, applyq, worker, sent, queue, requestMap, reply, deinit,
                   broken, noticed, net, proxy, crashed>>

\* The agent's side of the connection finds out that it is broken.
Notice(s) ==
    /\ s \in broken \ noticed
    /\ noticed' = noticed \union {s}
    /\ UNCHANGED <<agent, stream, broken, net, proxy, crashed>>

(***************************************************************************)
(* The proxy's command thread                                              *)
(***************************************************************************)

\* StartCommandQueue: the call reaches the agent, which marks the proxy active
\* and posts the event that puts it into the worker's queue.
ClientStart ==
    LET s == client.s + 1 IN
    /\ client.pc = "idle" /\ ~ crashed /\ ~ deinit /\ s \in Streams
    /\ client' = [pc |-> "read", s |-> s, req |-> 0]
    /\ stream' = [stream EXCEPT ![s].pc = "start"]
    /\ applyq' = applyq + 1
    /\ UNCHANGED <<version, worker, sent, queue, requestMap, reply, ready, deinit,
                   broken, noticed, net, calls, applied, crashed>>

ClientRead ==
    LET s == client.s IN
    /\ client.pc = "read" /\ net[s] # <<>>
    /\ client' = [client EXCEPT !.pc = "reply", !.req = Head(net[s])]
    /\ net' = [net EXCEPT ![s] = Tail(@)]
    /\ UNCHANGED <<agent, stream, broken, noticed, calls, applied, crashed>>

\* The confirmation goes out before the configuration is applied; the thread
\* does not look at what becomes of it: it may be lost, or outlive its deadline
\* and reach the agent later.
ClientReply ==
    /\ client.pc = "reply"
    /\ calls' \in {calls, calls \union {client.req}}
    /\ client' = [client EXCEPT !.pc = "apply"]
    /\ UNCHANGED <<agent, streams, applied, crashed>>

ClientApply ==
    /\ client.pc = "apply"
    /\ applied' = sent[client.req]
    /\ client' = [client EXCEPT !.pc = "read", !.req = 0]
    /\ UNCHANGED <<agent, streams, calls, crashed>>

\* Read returns nothing more: the thread waits and calls again.
ClientFinish ==
    /\ client.pc = "read" /\ client.s \in broken /\ net[client.s] = <<>>
    /\ client' = [client EXCEPT !.pc = "idle"]
    /\ UNCHANGED <<agent, streams, calls, applied, crashed>>

\* The connection breaks; some of what was under way had arrived.
Break ==
    LET s == client.s IN
    /\ s \in Streams \ broken
    /\ broken' = broken \union {s}
    /\ \E n \in 0 .. Len(net[s]) : net' = [net EXCEPT ![s] = SubSeq(@, 1, n)]
    /\ UNCHANGED <<agent, stream, noticed, proxy, crashed>>

\* The proxy shuts down: its thread has ended and it unregisters, which
\* cancels the context of its command queue in the agent.
Unregister ==
    /\ client.pc = "idle" /\ client.s > 0 /\ ~ deinit /\ ~ crashed
    /\ client' = [client EXCEPT !.pc = "stopped"]
    /\ deinit' = TRUE
    /\ UNCHANGED <<version, applyq, worker, sent, queue, requestMap, reply, ready, streams,
                   calls, applied, crashed>>

\* Mutant: the request stays in the map.
SendCommandReplyKeeps(r) ==
    /\ ~ crashed /\ r \in calls
    /\ calls' = calls \ {r}
    /\ reply' = IF r \in requestMap THEN [reply EXCEPT ![r] = Data] ELSE reply
    /\ UNCHANGED <<version, applyq, worker, sent, queue, requestMap, ready, deinit, streams,
                   client, applied, crashed>>

\* The agent's handler: a request that is no longer in the map is an error.
SendCommandReply(r) ==
    /\ ~ crashed /\ r \in calls
    /\ calls' = calls \ {r}
    /\ requestMap' = requestMap \ {r}
    /\ reply' = IF r \in requestMap THEN [reply EXCEPT ![r] = Data] ELSE reply
    /\ UNCHANGED <<version, applyq, worker, sent, queue, ready, deinit, streams,
                   client, applied, crashed>>

WorkerStep ==
    \/ WorkerTake \/ WorkerEnqueue \/ WorkerNotReady \/ WorkerTimeout
    \/ WorkerReceiveError \/ WorkerReceive

StreamStep(s) ==
    \/ StreamSetReady(s) \/ StreamTake(s) \/ StreamSend(s) \/ StreamSendFails(s)
    \/ StreamAnswer(s) \/ StreamEnd(s)

Next ==
    \/ ChangeConfig
    \/ WorkerStep
    \/ \E s \in Streams : StreamStep(s) \/ Notice(s)
    \/ ClientStart \/ ClientRead \/ ClientReply \/ ClientApply \/ ClientFinish
    \/ Break \/ Unregister
    \/ \E r \in Requests : SendCommandReply(r)

\* The Go scheduler runs a goroutine that can go on, and the timer of the
\* worker expires.  Nothing is assumed of the network or of the proxy.
Fairness == WF_vars(WorkerStep) /\ \A s \in Streams : WF_vars(StreamStep(s))

Spec == Init /\ [][Next]_vars /\ Fairness

----
(***************************************************************************)
(* Properties                                                              *)
(***************************************************************************)

\* A request in the map has an open and empty reply channel, whoever of the
\* worker that gives up, the stream that fails and the reply that comes late
\* gets there first: so CancelCommandRequest, which answers with the map
\* locked, never waits for room in the channel.
MapEntryIsOpen == \A r \in requestMap : reply[r] = Empty

\* The proxy never goes back to an older configuration, although requests
\* that the worker has given up stay in the queue and are delivered later
\* and a broken stream goes on taking requests next to its successor.
NeverOlder == [][applied' >= applied]_vars

\* The worker, which serves all proxies, comes back from every command it
\* sends, whatever happens to the proxy and its streams (sendCommandSync).
WorkerReturns == worker.pc # "idle" ~> (worker.pc = "idle" \/ crashed)

\* A stream in service after a network glitch is one the agent sends commands
\* to: when the goroutines of the earlier streams have ended, the readiness
\* channel says ready.
StreamInServiceIsReady ==
    \A s \in Streams :
        /\ stream[s].pc = "loop" /\ s \notin broken /\ ~ deinit
        /\ \A o \in Streams \ {s} : stream[o].pc \in {"none", "done"}
        => ready

====
