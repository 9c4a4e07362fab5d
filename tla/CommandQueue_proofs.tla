---- MODULE CommandQueue_proofs ----
(***************************************************************************)
(* Proofs about the delivery of configurations to a proxy, for any number  *)
(* of configurations and streams and any capacity of the queue.            *)
(*                                                                         *)
(* Requests are numbered in the order in which the worker makes them.  The *)
(* argument is that this order is kept all the way: what a stream has      *)
(* taken is older than all that is in the queue, what is under way on a    *)
(* stream is older than what its goroutine holds, and what the proxy holds *)
(* is older than what is under way to it.  A request in the queue has thus *)
(* never been in the request map, and its reply channel is still empty.    *)
(***************************************************************************)
EXTENDS CommandQueue, SequenceTheorems, TLAPS

WorkerPc == {"idle", "enqueue", "wait"}
StreamPc == {"none", "start", "loop", "send", "answer", "blocked", "done"}
ClientPc == {"idle", "read", "reply", "apply", "stopped"}
Replies  == [val : {"none", "err", "data"}, closed : BOOLEAN]

\* The types, and why there are never more requests than numbers for them:
\* each is for one change of the configuration or one start of a stream.
Types ==
    /\ version \in Nat /\ version <= MaxVersion + 1 /\ version > 0 /\ applyq \in Nat
    /\ sent \in Seq(Nat)
    /\ client \in [pc : ClientPc, s : 0 .. MaxStreams, req : Nat]
    /\ client.pc \in {"read", "reply", "apply"} => client.s \in Streams
    /\ Len(sent) + applyq <= version - 1 + client.s
    /\ worker \in [pc : WorkerPc, req : Nat]
    /\ worker.pc # "idle" => worker.req = Len(sent) /\ Len(sent) > 0
    /\ queue \in Seq(Requests)
    /\ requestMap \subseteq Requests
    /\ reply \in [Requests -> Replies]
    /\ stream \in [Streams -> [pc : StreamPc, req : Nat]]
    /\ net \in [Streams -> Seq(Nat)]

\* Request x is older than every request still to be taken by a stream.
Below(x) ==
    /\ \A i \in 1 .. Len(queue) : x < queue[i]
    /\ worker.pc = "enqueue" => x < Len(sent)

\* Requests are queued in the order of their numbers, and later ones carry
\* later configurations.
QueueInv ==
    /\ \A i \in 1 .. Len(queue) : queue[i] <= Len(sent)
    /\ \A i, j \in 1 .. Len(queue) : i < j => queue[i] < queue[j]
    /\ worker.pc = "enqueue" => \A i \in 1 .. Len(queue) : queue[i] < Len(sent)
    /\ \A i \in 1 .. Len(sent) : sent[i] <= version
    /\ \A i, j \in 1 .. Len(sent) : i <= j => sent[i] <= sent[j]

\* The reply channel of a request is empty from its making until it leaves
\* the map.
MapInv ==
    /\ \A r \in requestMap : reply[r] = Empty /\ r <= Len(sent) /\ Below(r)
    /\ \A i \in 1 .. Len(queue) : reply[queue[i]] = Empty
    /\ worker.pc = "enqueue" => reply[Len(sent)] = Empty
    /\ \A r \in Requests : r > Len(sent) => reply[r] = Empty
    /\ \A s \in Streams : stream[s].pc \in {"send", "answer"} =>
           stream[s].req \in 1 .. Len(sent) /\ Below(stream[s].req)
    /\ \A s \in Streams : stream[s].pc = "answer" => stream[s].req \notin requestMap

\* A stream that is not started yet carries nothing.
Unused(s) == s > client.s => stream[s].pc = "none" /\ net[s] = <<>>

\* What is under way on a stream is in order and older than what follows.
NetOf(s) ==
    /\ \A i \in 1 .. Len(net[s]) :
           /\ net[s][i] \in 1 .. Len(sent) /\ Below(net[s][i])
           /\ stream[s].pc = "send" => net[s][i] < stream[s].req
    /\ \A i, j \in 1 .. Len(net[s]) : i < j => net[s][i] < net[s][j]

NetInv == \A s \in Streams : Unused(s) /\ NetOf(s)

\* Request x is older than everything still to come to the proxy.
Ahead(x) ==
    /\ Below(x)
    /\ client.s \in Streams =>
           /\ \A i \in 1 .. Len(net[client.s]) : x < net[client.s][i]
           /\ stream[client.s].pc = "send" => x < stream[client.s].req

Holding == client.pc \in {"reply", "apply"}

\* So is the request that the proxy holds ...
ClientInv == Holding => client.req \in 1 .. Len(sent) /\ Ahead(client.req)

\* ... and the one whose configuration it has applied.
AppliedInv ==
    \/ applied = 0
    \/ \E a \in 1 .. Len(sent) :
           applied = sent[a] /\ Ahead(a) /\ (Holding => a < client.req)

\* What every step does to the requests made and taken so far: their numbers
\* stay, and they stay older than those still to be taken.
Keeps ==
    /\ \A x \in Nat : x <= Len(sent) /\ Below(x) => Below(x)'
    /\ Len(sent) \in Nat /\ Len(sent') \in Nat /\ Len(sent) <= Len(sent')
    /\ \A i \in 1 .. Len(sent) : sent'[i] = sent[i]

IInv == Types /\ QueueInv /\ MapInv /\ NetInv /\ ClientInv /\ AppliedInv

-----------------------------------------------------------------------------
(* Sequences, as the steps use them.                                       *)

\* Taking the head of a sequence.
LEMMA Pop ==
    ASSUME NEW S, NEW q \in Seq(S), q # <<>>
    PROVE  /\ Len(q) \in Nat /\ Len(q) >= 1
           /\ Head(q) = q[1] /\ Head(q) \in S
           /\ Tail(q) \in Seq(S) /\ Len(Tail(q)) = Len(q) - 1
           /\ \A i \in 1 .. Len(Tail(q)) : Tail(q)[i] = q[i + 1]
<1>1. Len(q) \in Nat \ {0}
  BY EmptySeq
<1>2. Head(q) = q[1]
  OBVIOUS
<1>3. QED
  BY <1>1, <1>2, HeadTailProperties

\* Appending an element.
LEMMA Push ==
    ASSUME NEW S, NEW q \in Seq(S), NEW e \in S
    PROVE  /\ Append(q, e) \in Seq(S)
           /\ Len(q) \in Nat /\ Len(Append(q, e)) = Len(q) + 1
           /\ \A i \in 1 .. Len(q) : Append(q, e)[i] = q[i]
           /\ Append(q, e)[Len(q) + 1] = e
  BY AppendProperties, LenProperties

\* Keeping the first elements.
LEMMA Prefix ==
    ASSUME NEW S, NEW q \in Seq(S), NEW n \in 0 .. Len(q)
    PROVE  /\ SubSeq(q, 1, n) \in Seq(S)
           /\ Len(SubSeq(q, 1, n)) = n
           /\ \A i \in 1 .. n : SubSeq(q, 1, n)[i] = q[i]
<1>1. Len(q) \in Nat
  BY LenProperties
<1>2. \A i \in 1 .. n : q[i] \in S
  BY <1>1, ElementOfSeq
<1>3. n \in Nat /\ 1 \in Int
  BY <1>1
<1>4. QED
  BY <1>2, <1>3, SubSeqProperties

\* A stream that starts pays for the apply it asks for.
LEMMA OneMore ==
    ASSUME NEW n \in Nat, NEW a \in Nat, NEW v \in Nat, NEW s \in Int, n + a <= v - 1 + s
    PROVE  a + 1 \in Nat /\ n + (a + 1) <= v - 1 + (s + 1)
OBVIOUS

\* There is a number for every request.
LEMMA Numbered ==
    ASSUME Types
    PROVE  /\ Len(sent) \in Nat /\ \A n \in 1 .. Len(sent) : n \in Requests
           /\ applyq > 0 => Len(sent) + 1 \in Requests
<1>1. Len(sent) \in Nat
  BY LenProperties DEF Types
<1>2. QED
  BY <1>1, CommandQueueAssumption, SMTT(30) DEF Types, Requests

-----------------------------------------------------------------------------
\* Steps keep the types (one case per action).
LEMMA TypesStep ==
    ASSUME Types, [Next]_vars
    PROVE  Types'
<1> USE CommandQueueAssumption DEF Types, WorkerPc, StreamPc, ClientPc, Replies, Empty, Err, Data
<1>1. CASE ChangeConfig
  BY <1>1, SMTT(30) DEF ChangeConfig, agent, streams, proxy
<1>2. CASE WorkerTake
  <2>1. applyq' \in Nat /\ applyq' = applyq - 1
    BY <1>2 DEF WorkerTake, agent, streams, proxy
  <2>2. \/ sent' = sent /\ worker' = worker
        \/ sent' = Append(sent, version) /\ worker' = [pc |-> "enqueue", req |-> Len(sent) + 1]
    BY <1>2 DEF WorkerTake, agent, streams, proxy
  <2>3. Len(sent) \in Nat
    BY <1>2, LenProperties DEF WorkerTake, agent, streams, proxy
  <2>4. Append(sent, version) \in Seq(Nat) /\ Len(Append(sent, version)) = Len(sent) + 1
    BY <1>2, Push DEF WorkerTake, agent, streams, proxy
  <2>5. sent' \in Seq(Nat) /\ (Len(sent') = Len(sent) \/ Len(sent') = Len(sent) + 1)
    BY <2>2, <2>4, Zenon DEF Types
  <2>6. Len(sent') + applyq' <= version - 1 + client.s
    BY <1>2, <2>1, <2>3, <2>5, SMTT(30) DEF WorkerTake, agent, streams, proxy
  <2>7. /\ worker' \in [pc : WorkerPc, req : Nat]
        /\ worker'.pc # "idle" => worker'.req = Len(sent') /\ Len(sent') > 0
    BY <1>2, <2>2, <2>3, <2>4, SMTT(30) DEF WorkerTake, agent, streams, proxy
  <2>8. QED
    BY <1>2, <2>1, <2>2, <2>3, <2>4, <2>5, <2>6, <2>7, Zenon
       DEF WorkerTake, agent, streams, proxy
<1>3. CASE WorkerEnqueue
  <2>1. Len(sent) \in 1 .. Len(sent)
    BY <1>3, Numbered DEF WorkerEnqueue, agent, streams, proxy
  <2>2. Len(sent) \in Requests
    BY <1>3, Numbered, <2>1, Zenon DEF WorkerEnqueue, agent, streams, proxy
  <2>3. queue' \in Seq(Requests)
    BY <1>3, <2>2, Push DEF WorkerEnqueue, agent, streams, proxy
  <2>4. worker' \in [pc : WorkerPc, req : Nat] /\ worker'.req = Len(sent) /\ Len(sent) > 0
    BY <1>3, Zenon DEF WorkerEnqueue, agent, streams, proxy
  <2>5. QED
    BY <1>3, <2>1, <2>2, <2>3, <2>4, Zenon DEF WorkerEnqueue, agent, streams, proxy
<1>4. CASE CancelCommandRequest
  <2>1. worker' = [pc |-> "idle", req |-> 0]
    BY <1>4 DEF CancelCommandRequest, agent, streams, proxy
  <2>2. requestMap' \subseteq Requests
    BY <1>4 DEF CancelCommandRequest, agent, streams, proxy
  <2>3. Err \in Replies
    BY <1>4 DEF CancelCommandRequest, agent, streams, proxy
  <2>4. reply' = reply \/ reply' = [reply EXCEPT ![worker.req] = Err]
    BY <1>4 DEF CancelCommandRequest, agent, streams, proxy
  <2>5. reply' \in [Requests -> Replies]
    BY <1>4, <2>3, <2>4, Zenon DEF CancelCommandRequest, agent, streams, proxy
  <2>6. QED
    BY <1>4, <2>1, <2>2, <2>3, <2>4, <2>5 DEF CancelCommandRequest, agent, streams, proxy
<1>5. CASE WorkerReceive
  BY <1>5 DEF WorkerReceive, agent, streams, proxy
<1>6. ASSUME NEW s \in Streams, StreamSetReady(s) PROVE Types'
  BY <1>6, Zenon DEF StreamSetReady, agent, streams, proxy
<1>7. ASSUME NEW s \in Streams, StreamTake(s) PROVE Types'
  <2>1. Head(queue) \in Requests /\ queue' \in Seq(Requests)
    BY <1>7, Pop, Zenon DEF StreamTake, agent, streams, proxy, Requests
  <2>2. Requests \subseteq Nat
    BY <1>7, CommandQueueAssumption DEF StreamTake, agent, streams, proxy, Requests
  <2>3. Head(queue) \in Nat
    BY <1>7, <2>1, <2>2, Zenon DEF StreamTake, agent, streams, proxy, Requests
  <2>4. stream' \in [Streams -> [pc : StreamPc, req : Nat]]
    BY <1>7, <2>3 DEF StreamTake, agent, streams, proxy, Requests
  <2>5. QED
    BY <1>7, <2>1, <2>2, <2>3, <2>4, Zenon DEF StreamTake, agent, streams, proxy, Requests
<1>8. ASSUME NEW s \in Streams, StreamSend(s) PROVE Types'
  BY <1>8 DEF StreamSend, agent, streams, proxy
<1>9. ASSUME NEW s \in Streams, StreamSendFails(s) PROVE Types'
  BY <1>9, Zenon DEF StreamSendFails, agent, streams, proxy
<1>10. ASSUME NEW s \in Streams, StreamAnswer(s) PROVE Types'
  BY <1>10, Zenon DEF StreamAnswer, agent, streams, proxy
<1>11. ASSUME NEW s \in Streams, StreamEnd(s) PROVE Types'
  BY <1>11, Zenon DEF StreamEnd, agent, streams, proxy
<1>12. ASSUME NEW s \in Streams, Notice(s) PROVE Types'
  BY <1>12 DEF Notice, agent, streams, proxy
<1>13. CASE ClientStart
  <2>1. Len(sent) \in Nat
    BY <1>13, LenProperties DEF ClientStart, agent, streams, proxy
  <2>2. client.s + 1 \in Streams /\ client.s + 1 \in 0 .. MaxStreams
    BY <1>13 DEF ClientStart, agent, streams, proxy, Streams
  <2>3. client' = [pc |-> "read", s |-> client.s + 1, req |-> 0]
    BY <1>13 DEF ClientStart, agent, streams, proxy
  <2>4. applyq' \in Nat /\ applyq' = applyq + 1
        /\ Len(sent) + (applyq + 1) <= version - 1 + (client.s + 1)
    <3>1. applyq' = applyq + 1
      BY <1>13, Zenon DEF ClientStart
    <3>2. applyq \in Nat /\ version \in Nat /\ Len(sent) + applyq <= version - 1 + client.s
      BY Zenon
    <3>3. client.s \in 0 .. MaxStreams
      BY Zenon
    <3>4. client.s \in Int
      BY <3>3
    <3> QED BY <2>1, <3>1, <3>2, <3>4, OneMore, Zenon
  <2>5. client' \in [pc : ClientPc, s : 0 .. MaxStreams, req : Nat] /\ client'.s = client.s + 1
    BY <1>13, <2>2, <2>3 DEF ClientStart, agent, streams, proxy
  <2>6. Len(sent) + applyq' <= version - 1 + client'.s
    BY <2>4, <2>5, Zenon
  <2>7. stream' \in [Streams -> [pc : StreamPc, req : Nat]]
    BY <1>13, Zenon DEF ClientStart, agent, streams, proxy
  <2>8. QED
    BY <1>13, <2>1, <2>2, <2>3, <2>4, <2>5, <2>6, <2>7, Zenon DEF ClientStart, agent,
       streams, proxy
<1>14. CASE ClientRead
  <2>1. net[client.s] \in Seq(Nat)
    BY <1>14 DEF ClientRead, agent, streams, proxy
  <2>2. client' \in [pc : ClientPc, s : 0 .. MaxStreams, req : Nat] /\ client'.s = client.s
    BY <1>14, <2>1, Pop, Zenon DEF ClientRead, agent, streams, proxy
  <2>3. net' \in [Streams -> Seq(Nat)]
    BY <1>14, <2>1, Pop DEF ClientRead, agent, streams, proxy
  <2>4. QED
    BY <1>14, <2>1, <2>2, <2>3, Zenon DEF ClientRead, agent, streams, proxy
<1>15. CASE ClientReply
  BY <1>15, Zenon DEF ClientReply, agent, streams, proxy
<1>16. CASE ClientApply
  BY <1>16, Zenon DEF ClientApply, agent, streams, proxy
<1>17. CASE ClientFinish
  BY <1>17, Zenon DEF ClientFinish, agent, streams, proxy
<1>18. CASE Break
  <2>1. net[client.s] \in Seq(Nat)
    BY <1>18 DEF Break, agent, streams, proxy
  <2>2. \A n \in 0 .. Len(net[client.s]) : SubSeq(net[client.s], 1, n) \in Seq(Nat)
    BY <1>18, <2>1, Prefix, Zenon DEF Break, agent, streams, proxy
  <2>3. net' \in [Streams -> Seq(Nat)]
    BY <1>18, <2>2, SMTT(30) DEF Break, agent, streams, proxy
  <2>4. QED
    BY <1>18, <2>1, <2>2, <2>3, Zenon DEF Break, agent, streams, proxy
<1>19. CASE Unregister
  BY <1>19, Zenon DEF Unregister, agent, streams, proxy
<1>20. ASSUME NEW r \in Requests, SendCommandReply(r) PROVE Types'
  BY <1>20 DEF SendCommandReply, agent, streams, proxy
<1>21. CASE UNCHANGED vars
  BY <1>21 DEF vars, agent, streams, proxy
<1>22. QED
  BY <1>1, <1>2, <1>3, <1>4, <1>5, <1>6, <1>7, <1>8, <1>9, <1>10, <1>11, <1>12, <1>13,
     <1>14, <1>15, <1>16, <1>17, <1>18, <1>19, <1>20, <1>21, Zenon
     DEF Next, WorkerStep, WorkerNotReady, WorkerTimeout, WorkerReceiveError, StreamStep

\* Steps keep the order of the queue.
LEMMA QueueStep ==
    ASSUME Types, QueueInv, [Next]_vars
    PROVE  QueueInv'
<1>q. /\ Len(queue) \in Nat /\ Len(sent) \in Nat /\ Requests \subseteq Nat
      /\ \A i \in 1 .. Len(queue) : queue[i] \in Requests
  BY LenProperties, ElementOfSeq, CommandQueueAssumption, SMTT(30) DEF Types, Requests
<1>n. \A n \in Nat : n > 0 /\ n <= Len(sent) => n \in Requests
  BY <1>q, Numbered
<1>i. \A i \in 1 .. Len(queue) : queue[i] \in Nat
  BY <1>q, Zenon
<1>1. CASE ChangeConfig
  BY <1>1, SMTT(30) DEF ChangeConfig, QueueInv, Types
<1>2. CASE WorkerTake
  <2>1. \/ sent' = sent /\ worker' = worker
        \/ sent' = Append(sent, version) /\ worker'.pc = "enqueue"
    BY <1>2 DEF WorkerTake
  <2>2. /\ Len(sent) \in Nat /\ Len(Append(sent, version)) = Len(sent) + 1
        /\ \A i \in 1 .. Len(sent) : Append(sent, version)[i] = sent[i]
        /\ Append(sent, version)[Len(sent) + 1] = version
    BY Push DEF Types
  <2>3. \A i \in 1 .. Len(queue) : queue[i] \in Nat
    BY <1>q, Zenon
  <2>4. CASE sent' = sent /\ worker' = worker
    BY <1>2, <2>4 DEF WorkerTake, QueueInv
  <2>5. CASE sent' = Append(sent, version)
    <3>1. /\ \A i \in 1 .. Len(sent') : i \in 1 .. Len(sent) \/ i = Len(sent) + 1
          /\ Len(sent') = Len(sent) + 1 /\ version' = version /\ queue' = queue
      BY <1>2, <2>2, <2>5 DEF WorkerTake
    <3>2. \A i \in 1 .. Len(sent') : sent'[i] <= version'
      BY <2>2, <2>5, <3>1 DEF QueueInv, Types
    <3>3. \A i, j \in 1 .. Len(sent') : i <= j => sent'[i] <= sent'[j]
      <4> SUFFICES ASSUME NEW i \in 1 .. Len(sent'), NEW j \in 1 .. Len(sent'), i <= j
                   PROVE  sent'[i] <= sent'[j]
        OBVIOUS
      <4>1. CASE j = Len(sent) + 1
        <5>1. sent'[j] = version'
          BY <2>2, <2>5, <3>1, <4>1
        <5>2. QED
          BY <3>2, <5>1
      <4>2. CASE j \in 1 .. Len(sent)
        <5>1. i \in 1 .. Len(sent)
          BY <2>2, <3>1, <4>2
        <5>2. sent'[i] = sent[i] /\ sent'[j] = sent[j]
          BY <2>2, <2>5, <4>2, <5>1
        <5>3. QED
          BY <4>2, <5>1, <5>2 DEF QueueInv
      <4>3. QED
        BY <3>1, <4>1, <4>2
    <3>4. \A i \in 1 .. Len(queue') : queue'[i] < Len(sent')
      BY <1>q, <1>i, <3>1 DEF QueueInv
    <3>5. QED
      BY <1>q, <1>i, <3>1, <3>2, <3>3, <3>4 DEF QueueInv
  <2>6. QED
    BY <2>1, <2>4, <2>5
<1>3. CASE WorkerEnqueue
  <2>1. /\ queue' = Append(queue, Len(sent)) /\ worker'.pc = "wait"
        /\ UNCHANGED <<sent, version>>
    BY <1>3 DEF WorkerEnqueue, Types
  <2>2. Len(sent) \in Requests
    BY <1>3, <1>n DEF WorkerEnqueue, Types
  <2>3. /\ Len(queue) \in Nat /\ Len(queue') = Len(queue) + 1
        /\ \A i \in 1 .. Len(queue) : queue'[i] = queue[i]
        /\ queue'[Len(queue) + 1] = Len(sent)
    BY <2>1, <2>2, Push DEF Types
  <2>4. \A i \in 1 .. Len(queue) : queue[i] < Len(sent)
    BY <1>3 DEF WorkerEnqueue, QueueInv
  <2>5. QED
    BY <1>q, <1>i, <2>1, <2>2, <2>3, <2>4 DEF QueueInv
<1>4. CASE CancelCommandRequest
  BY <1>4 DEF CancelCommandRequest, QueueInv, agent, streams, proxy
<1>5. CASE WorkerReceive
  BY <1>5 DEF WorkerReceive, QueueInv, agent, streams, proxy
<1>6. ASSUME NEW s \in Streams, StreamTake(s) PROVE QueueInv'
  <2>1. queue' = Tail(queue) /\ queue # <<>> /\ UNCHANGED <<sent, version, worker>>
    BY <1>6 DEF StreamTake
  <2>2. /\ Len(queue) \in Nat /\ Len(queue') = Len(queue) - 1
        /\ \A i \in 1 .. Len(queue') : queue'[i] = queue[i + 1]
    BY <2>1, Pop DEF Types
  <2>3. QED
    BY <1>q, <1>i, <2>1, <2>2 DEF QueueInv
<1>7. CASE \/ ClientStart \/ ClientRead \/ ClientReply \/ ClientApply \/ ClientFinish \/
              Break \/ Unregister
           \/ \E s \in Streams : StreamSetReady(s) \/ StreamSend(s) \/ StreamSendFails(s)
              \/ StreamAnswer(s) \/ StreamEnd(s) \/ Notice(s)
           \/ \E r \in Requests : SendCommandReply(r)
           \/ UNCHANGED vars
  <2>1. UNCHANGED <<queue, sent, worker, version>>
    BY <1>7, Zenon DEF vars, agent, streams, proxy, StreamSetReady, StreamSend,
       StreamSendFails, StreamAnswer, StreamEnd, Notice, ClientStart, ClientRead,
       ClientReply, ClientApply, ClientFinish, Break, Unregister, SendCommandReply
  <2>2. QED
    BY <2>1, Zenon DEF QueueInv
<1>8. QED
  BY <1>1, <1>2, <1>3, <1>4, <1>5, <1>6, <1>7
     DEF Next, WorkerStep, WorkerNotReady, WorkerTimeout, WorkerReceiveError, StreamStep

\* A request that leaves the map takes its channel with it: nothing else
\* refers to the channel.
LEMMA Leaves ==
    ASSUME Types, QueueInv, MapInv,
           UNCHANGED <<queue, sent, stream>>, worker'.pc \in {worker.pc, "idle"},
           \A x : Below(x) => Below(x)',
           requestMap' \subseteq requestMap,
           \A r \in Requests : reply'[r] = reply[r] \/ r \in requestMap \ requestMap'
    PROVE  MapInv'
<1>q. /\ Len(queue) \in Nat /\ Len(sent) \in Nat /\ Requests \subseteq Nat
      /\ \A i \in 1 .. Len(queue) : queue[i] \in Requests
  BY LenProperties, ElementOfSeq, CommandQueueAssumption, SMTT(30) DEF Types, Requests
<1>n. \A n \in Nat : n > 0 /\ n <= Len(sent) => n \in Requests
  BY <1>q, Numbered
<1>i. \A i \in 1 .. Len(queue) : queue[i] \in Nat
  BY <1>q, Zenon
<1>1. \A r \in requestMap' : reply'[r] = Empty /\ r <= Len(sent') /\ Below(r)'
  BY DEF MapInv, Types
<1>2. \A i \in 1 .. Len(queue') : reply'[queue'[i]] = Empty
  BY <1>q, <1>i DEF MapInv, Below
<1>3. worker'.pc = "enqueue" => reply'[Len(sent')] = Empty
  BY <1>q, <1>n DEF MapInv, Below, Types
<1>4. \A r \in Requests : r > Len(sent') => reply'[r] = Empty
  BY <1>q DEF MapInv
<1>5. QED
  BY <1>1, <1>2, <1>3, <1>4 DEF MapInv

\* Steps keep the reply channels of waiting requests empty.
LEMMA MapStep ==
    ASSUME Types, QueueInv, MapInv, [Next]_vars
    PROVE  MapInv'
<1>q. /\ Len(queue) \in Nat /\ Len(sent) \in Nat /\ Requests \subseteq Nat
      /\ \A i \in 1 .. Len(queue) : queue[i] \in Requests
  BY LenProperties, ElementOfSeq, CommandQueueAssumption, SMTT(30) DEF Types, Requests
<1>n. \A n \in Nat : n > 0 /\ n <= Len(sent) => n \in Requests
  BY <1>q, Numbered
<1>i. \A i \in 1 .. Len(queue) : queue[i] \in Nat
  BY <1>q, Zenon
<1>1. CASE WorkerTake
  <2>1. \/ sent' = sent /\ worker' = worker
        \/ Len(sent') = Len(sent) + 1 /\ worker'.pc = "enqueue"
    BY <1>1, Push DEF WorkerTake, Types
  <2>2. Len(sent) + 1 \in Requests
    BY <1>1, Numbered DEF WorkerTake
  <2>3. UNCHANGED <<requestMap, reply, queue, stream>>
    BY <1>1 DEF WorkerTake, streams
  <2>4. CASE sent' = sent /\ worker' = worker
    BY <2>3, <2>4 DEF MapInv, Below
  <2>5. CASE Len(sent') = Len(sent) + 1 /\ worker'.pc = "enqueue"
    <3>1. \A x \in Nat : x <= Len(sent) /\ Below(x) => Below(x)'
      BY <1>q, <2>3, <2>5 DEF Below
    <3>2. \A r \in requestMap : r \in Nat
      BY <1>q DEF Types
    <3>3. QED
      BY <1>q, <1>i, <2>2, <2>3, <2>5, <3>1, <3>2, SMTT(30) DEF MapInv, Types
  <2>6. QED
    BY <2>1, <2>4, <2>5
<1>2. CASE WorkerEnqueue
  <2>1. /\ queue' = Append(queue, Len(sent)) /\ worker'.pc = "wait" /\ worker.pc = "enqueue"
        /\ UNCHANGED <<sent, requestMap, reply, stream>>
    BY <1>2 DEF WorkerEnqueue, Types, streams
  <2>2. Len(sent) \in Requests
    BY <1>2, <1>n DEF WorkerEnqueue, Types
  <2>3. /\ Len(queue') = Len(queue) + 1
        /\ \A i \in 1 .. Len(queue) : queue'[i] = queue[i]
        /\ queue'[Len(queue) + 1] = Len(sent)
    BY <2>1, <2>2, Push DEF Types
  <2>4. \A x : Below(x) => Below(x)'
    BY <1>q, <2>1, <2>3 DEF Below
  <2>5. \A i \in 1 .. Len(queue') : reply'[queue'[i]] = Empty
    BY <1>q, <2>1, <2>3 DEF MapInv
  <2>6. QED
    BY <2>1, <2>4, <2>5 DEF MapInv
<1>3. CASE CancelCommandRequest
  <2>1. UNCHANGED <<queue, sent, stream>> /\ worker'.pc = "idle"
    BY <1>3 DEF CancelCommandRequest, streams
  <2>2. \A x : Below(x) => Below(x)'
    BY <2>1 DEF Below
  <2>3. \/ requestMap' = requestMap /\ reply' = reply
        \/ /\ worker.req \in requestMap /\ requestMap' = requestMap \ {worker.req}
           /\ reply' = [reply EXCEPT ![worker.req] = Err]
    BY <1>3 DEF CancelCommandRequest
  <2>4. requestMap' \subseteq requestMap
    BY <2>3
  <2>5. \A r \in Requests : reply'[r] = reply[r] \/ r \in requestMap \ requestMap'
    BY <2>3 DEF Types
  <2>6. QED
    BY <1>q, <1>i, <2>1, <2>2, <2>4, <2>5, Leaves
<1>4. CASE WorkerReceive
  BY <1>q, <1>i, <1>4 DEF WorkerReceive, MapInv, Below, Types, agent, streams
<1>5. ASSUME NEW s \in Streams, StreamSetReady(s) PROVE MapInv'
  BY <1>q, <1>i, <1>5, Zenon DEF StreamSetReady, MapInv, Below, Types, agent, streams
<1>6. ASSUME NEW s \in Streams, StreamTake(s) PROVE MapInv'
  <2>1. /\ queue' = Tail(queue) /\ queue # <<>> /\ UNCHANGED <<sent, worker, reply>>
        /\ requestMap' = requestMap \union {Head(queue)}
        /\ stream' = [stream EXCEPT ![s] = [pc |-> "send", req |-> Head(queue)]]
    BY <1>6 DEF StreamTake
  <2>2. /\ 1 \in 1 .. Len(queue) /\ Len(queue') = Len(queue) - 1 /\ Head(queue) = queue[1]
        /\ \A i \in 1 .. Len(queue') : i + 1 \in 1 .. Len(queue) /\ queue'[i] = queue[i + 1]
    BY <1>q, <2>1, Pop DEF Types
  <2>3. \A x : Below(x) => Below(x)' /\ x # Head(queue)
    BY <1>q, <1>i, <2>1, <2>2 DEF Below
  <2>4. \A x : x = Head(queue) => Below(x)'
    BY <1>q, <1>i, <2>1, <2>2 DEF Below, QueueInv
  <2>5. Head(queue) \in 1 .. Len(sent) /\ reply[Head(queue)] = Empty
    BY <1>q, <1>i, <2>2, CommandQueueAssumption DEF QueueInv, MapInv, Requests
  <2>6. \A i \in 1 .. Len(queue') : reply'[queue'[i]] = Empty
    BY <2>1, <2>2 DEF MapInv
  <2>7. \A t \in Streams : 
           \/ stream'[t] = stream[t]
           \/ stream'[t].pc = "send" /\ stream'[t].req = Head(queue)
    BY <2>1 DEF Types
  <2>8. QED
    BY <2>1, <2>3, <2>4, <2>5, <2>6, <2>7 DEF MapInv
<1>7. ASSUME NEW s \in Streams, StreamSend(s) PROVE MapInv'
  BY <1>q, <1>i, <1>7, Zenon DEF StreamSend, MapInv, Below, Types, agent, streams
<1>8. ASSUME NEW s \in Streams, StreamSendFails(s) PROVE MapInv'
  BY <1>q, <1>i, <1>8, Zenon DEF StreamSendFails, MapInv, Below, Types, agent, streams
<1>9. ASSUME NEW s \in Streams, StreamAnswer(s) PROVE MapInv'
  <2>1. /\ UNCHANGED <<queue, sent, worker, requestMap>> /\ stream[s].pc = "answer"
        /\ stream' = [stream EXCEPT ![s] = [pc |-> "loop", req |-> 0]]
        /\ reply' = [reply EXCEPT ![stream[s].req] = Err]
    BY <1>9 DEF StreamAnswer
  <2>2. \A x : Below(x) => Below(x)'
    BY <2>1 DEF Below
  <2>3. /\ stream[s].req \in 1 .. Len(sent) /\ Below(stream[s].req)
        /\ stream[s].req \notin requestMap
    BY <2>1 DEF MapInv
  <2>4. \A r \in Requests : r # stream[s].req => reply'[r] = reply[r]
    BY <2>1 DEF Types
  <2>5. \A t \in Streams : stream'[t] = stream[t] \/ stream'[t].pc = "loop"
    BY <2>1 DEF Types
  <2>6. \A r \in requestMap' : reply'[r] = Empty /\ r <= Len(sent') /\ Below(r)'
    BY <2>1, <2>2, <2>3, <2>4, Zenon DEF MapInv, Types
  <2>7. \A i \in 1 .. Len(queue') : reply'[queue'[i]] = Empty
    BY <1>q, <1>i, <2>1, <2>3, <2>4, SMTT(30) DEF MapInv, Below
  <2>8. worker'.pc = "enqueue" => reply'[Len(sent')] = Empty
    BY <1>q, <1>n, <2>1, <2>3, <2>4, SMTT(30) DEF MapInv, Below, Types
  <2>9. \A r \in Requests : r > Len(sent') => reply'[r] = Empty
    BY <1>q, <2>1, <2>3, <2>4 DEF MapInv
  <2>10. QED
    BY <2>1, <2>2, <2>5, <2>6, <2>7, <2>8, <2>9 DEF MapInv
<1>10. ASSUME NEW s \in Streams, StreamEnd(s) PROVE MapInv'
  BY <1>q, <1>i, <1>10, Zenon DEF StreamEnd, MapInv, Below, Types, agent, streams
<1>11. CASE ClientStart
  BY <1>q, <1>i, <1>11, Zenon DEF ClientStart, MapInv, Below, Types, agent, streams
<1>12. ASSUME NEW r \in Requests, SendCommandReply(r) PROVE MapInv'
  <2>1. UNCHANGED <<queue, sent, stream, worker>>
    BY <1>12 DEF SendCommandReply, streams
  <2>2. \A x : Below(x) => Below(x)'
    BY <2>1 DEF Below
  <2>3. requestMap' \subseteq requestMap
    BY <1>12 DEF SendCommandReply
  <2>4. \A x \in Requests : reply'[x] = reply[x] \/ x \in requestMap \ requestMap'
    BY <1>12, Zenon DEF SendCommandReply, Types
  <2>5. QED
    BY <1>q, <1>i, <2>1, <2>2, <2>3, <2>4, Leaves
<1>13. CASE \/ ChangeConfig \/ ClientRead \/ ClientReply \/ ClientApply \/ ClientFinish \/
               Break \/ Unregister
            \/ \E s \in Streams : Notice(s)
            \/ UNCHANGED vars
  <2>1. UNCHANGED <<requestMap, reply, queue, worker, sent, stream>>
    BY <1>13 DEF vars, agent, streams, proxy, ChangeConfig, Notice, ClientRead,
       ClientReply, ClientApply, ClientFinish, Break, Unregister
  <2>2. QED
    BY <2>1 DEF MapInv, Below
<1>14. QED
  BY <1>1, <1>2, <1>3, <1>4, <1>5, <1>6, <1>7, <1>8, <1>9, <1>10, <1>11, <1>12, <1>13, Zenon
     DEF Next, WorkerStep, WorkerNotReady, WorkerTimeout, WorkerReceiveError, StreamStep

\* Every step keeps the requests and their order.
LEMMA KeepsStep ==
    ASSUME Types, QueueInv, [Next]_vars
    PROVE  Keeps
<1>q. /\ Len(queue) \in Nat /\ Len(sent) \in Nat /\ Requests \subseteq Nat
      /\ \A i \in 1 .. Len(queue) : queue[i] \in Requests
  BY LenProperties, ElementOfSeq, CommandQueueAssumption DEF Types, Requests
<1>n. \A n \in Nat : n > 0 /\ n <= Len(sent) => n \in Requests
  BY <1>q, Numbered
<1>i. \A i \in 1 .. Len(queue) : queue[i] \in Nat
  BY <1>q, Zenon
<1>1. CASE WorkerTake
  <2>1. \/ sent' = sent /\ worker' = worker
        \/ sent' = Append(sent, version)
    BY <1>1 DEF WorkerTake
  <2>2. /\ Len(Append(sent, version)) = Len(sent) + 1
        /\ \A i \in 1 .. Len(sent) : Append(sent, version)[i] = sent[i]
    BY Push DEF Types
  <2>3. queue' = queue
    BY <1>1 DEF WorkerTake
  <2>4. CASE sent' = sent /\ worker' = worker
    BY <1>q, <2>3, <2>4 DEF Keeps, Below
  <2>5. CASE sent' = Append(sent, version)
    BY <1>q, <2>2, <2>3, <2>5 DEF Keeps, Below
  <2>6. QED
    BY <2>1, <2>4, <2>5
<1>2. CASE WorkerEnqueue
  <2>1. /\ queue' = Append(queue, Len(sent)) /\ worker'.pc = "wait" /\ worker.pc = "enqueue"
        /\ sent' = sent
    BY <1>2 DEF WorkerEnqueue, Types
  <2>2. Len(sent) \in Requests
    BY <1>2, <1>n DEF WorkerEnqueue, Types
  <2>3. /\ Len(queue') = Len(queue) + 1
        /\ \A i \in 1 .. Len(queue) : queue'[i] = queue[i]
        /\ queue'[Len(queue) + 1] = Len(sent)
    BY <2>1, <2>2, Push DEF Types
  <2>4. QED
    BY <1>q, <2>1, <2>3 DEF Keeps, Below
<1>3. CASE CancelCommandRequest
  BY <1>q, <1>3 DEF CancelCommandRequest, Keeps, Below
<1>4. CASE WorkerReceive
  BY <1>q, <1>4 DEF WorkerReceive, Keeps, Below
<1>5. ASSUME NEW s \in Streams, StreamTake(s) PROVE Keeps
  <2>1. queue' = Tail(queue) /\ queue # <<>> /\ UNCHANGED <<sent, worker>>
    BY <1>5 DEF StreamTake
  <2>2. /\ Len(queue') = Len(queue) - 1
        /\ \A i \in 1 .. Len(queue') : i + 1 \in 1 .. Len(queue) /\ queue'[i] = queue[i + 1]
    BY <1>q, <2>1, Pop DEF Types
  <2>3. QED
    BY <1>q, <2>1, <2>2 DEF Keeps, Below
<1>6. CASE \/ ChangeConfig \/ ClientStart \/ ClientRead \/ ClientReply \/ ClientApply \/
              ClientFinish \/ Break \/ Unregister
           \/ \E s \in Streams : StreamSetReady(s) \/ StreamSend(s) \/ StreamSendFails(s)
              \/ StreamAnswer(s) \/ StreamEnd(s) \/ Notice(s)
           \/ \E r \in Requests : SendCommandReply(r)
           \/ UNCHANGED vars
  <2>1. UNCHANGED <<queue, worker, sent>>
    BY <1>6 DEF vars, agent, streams, proxy, ChangeConfig, StreamSetReady,
       StreamSend, StreamSendFails, StreamAnswer, StreamEnd, Notice, ClientStart,
       ClientRead, ClientReply, ClientApply, ClientFinish, Break, Unregister,
       SendCommandReply
  <2>2. QED
    BY <1>q, <2>1, SMTT(30) DEF Keeps, Below
<1>7. QED
  BY <1>1, <1>2, <1>3, <1>4, <1>5, <1>6
     DEF Next, WorkerStep, WorkerNotReady, WorkerTimeout, WorkerReceiveError, StreamStep

\* A stream on which nothing changes, or whose goroutine lets go of its
\* request, stays in order.
LEMMA NetFrame ==
    ASSUME NetInv, Keeps, NEW t \in Streams, net'[t] = net[t],
           stream'[t] = stream[t] \/ stream'[t].pc # "send"
    PROVE  NetOf(t)'
<1>1. \A x \in 1 .. Len(sent) : Below(x) => Below(x)' /\ x \in 1 .. Len(sent')
  BY DEF Keeps
<1>2. QED
  BY <1>1, Zenon DEF NetInv, NetOf

\* Taking from the front or the back of what is under way keeps its order.
LEMMA NetPart ==
    ASSUME NetInv, Keeps, NEW t \in Streams, stream' = stream,
           NEW d \in {0, 1}, Len(net'[t]) \in Int,
           \A i \in 1 .. Len(net'[t]) : i + d \in 1 .. Len(net[t]) /\ net'[t][i] = net[t][i + d]
    PROVE  NetOf(t)'
<1>1. \A x \in 1 .. Len(sent) : Below(x) => Below(x)' /\ x \in 1 .. Len(sent')
  BY DEF Keeps
<1>2. ASSUME NEW i \in 1 .. Len(net'[t]), NEW j \in 1 .. Len(net'[t]), i < j
      PROVE  net'[t][i] < net'[t][j]
  <2>1. i + d \in 1 .. Len(net[t]) /\ j + d \in 1 .. Len(net[t]) /\ i + d < j + d
    BY <1>2
  <2>2. QED
    BY <2>1, Zenon DEF NetInv, NetOf
<1>3. QED
  BY <1>1, <1>2, Zenon DEF NetInv, NetOf

\* Steps keep what is under way in order.
LEMMA NetStep ==
    ASSUME Types, QueueInv, MapInv, NetInv, [Next]_vars
    PROVE  NetInv'
<1>k. Keeps
  BY KeepsStep
<1>e. \A t \in Streams : /\ net[t] \in Seq(Nat) /\ Len(net[t]) \in Nat
                          /\ \A i \in 1 .. Len(net[t]) : net[t][i] \in Nat
  BY LenProperties, ElementOfSeq, Zenon DEF Types
<1>1. ASSUME NEW s \in Streams, StreamSetReady(s) PROVE NetInv'
  <2>1. UNCHANGED <<client, net>>
    BY <1>1 DEF StreamSetReady, proxy, agent
  <2>2. \A t \in Streams :
            \/ stream'[t] = stream[t]
            \/ stream[t].pc # "none" /\ stream'[t].pc # "send"
    BY <1>1 DEF StreamSetReady, Types
  <2>3. \A t \in Streams : Unused(t)'
    BY <2>1, <2>2, Zenon DEF NetInv, Unused
  <2>4. \A t \in Streams : NetOf(t)'
    BY <1>k, <2>1, <2>2, NetFrame
  <2>5. QED
    BY <2>3, <2>4 DEF NetInv
<1>2. ASSUME NEW s \in Streams, StreamTake(s) PROVE NetInv'
  <2>1. /\ queue # <<>> /\ UNCHANGED <<net, client>> /\ stream[s].pc = "loop"
        /\ stream' = [stream EXCEPT ![s] = [pc |-> "send", req |-> Head(queue)]]
    BY <1>2, Zenon DEF StreamTake, proxy
  <2>2. 1 \in 1 .. Len(queue) /\ Head(queue) = queue[1]
    BY <2>1, Pop DEF Types
  <2>3. \A i \in 1 .. Len(net[s]) : net[s][i] < Head(queue)
    BY <2>2, Zenon DEF NetInv, NetOf, Below
  <2>4. /\ stream'[s].pc = "send" /\ stream'[s].req = Head(queue)
        /\ \A t \in Streams : t # s => stream'[t] = stream[t]
    BY <2>1, Zenon DEF Types
  <2>5. \A t \in Streams : Unused(t)'
    BY <2>1, <2>4 DEF NetInv, Unused
  <2>6. \A t \in Streams \ {s} : NetOf(t)'
    BY <1>k, <2>1, <2>4, NetFrame, Zenon
  <2>7. NetOf(s)'
    BY <1>k, <1>e, <2>1, <2>3, <2>4, SMTT(30) DEF NetInv, NetOf, Keeps
  <2>8. QED
    BY <2>5, <2>6, <2>7 DEF NetInv
<1>3. ASSUME NEW s \in Streams, StreamSend(s) PROVE NetInv'
  <2>1. /\ net' = net \/ net' = [net EXCEPT ![s] = Append(@, stream[s].req)]
        /\ stream' = [stream EXCEPT ![s] = [pc |-> "loop", req |-> 0]]
        /\ stream[s].pc = "send" /\ client' = client
    BY <1>3 DEF StreamSend, proxy
  <2>2. /\ stream'[s].pc = "loop"
        /\ \A t \in Streams : t # s => stream'[t] = stream[t] /\ net'[t] = net[t]
    BY <2>1, Zenon DEF Types
  <2>3. \A t \in Streams : Unused(t)'
    BY <2>1, <2>2 DEF NetInv, Unused
  <2>4. \A t \in Streams \ {s} : NetOf(t)'
    BY <1>k, <2>2, NetFrame
  <2>5. stream[s].req \in 1 .. Len(sent) /\ Below(stream[s].req)
    BY <2>1 DEF MapInv
  <2>6. /\ Len(Append(net[s], stream[s].req)) = Len(net[s]) + 1
        /\ \A i \in 1 .. Len(net[s]) : Append(net[s], stream[s].req)[i] = net[s][i]
        /\ Append(net[s], stream[s].req)[Len(net[s]) + 1] = stream[s].req
    BY <1>e, <2>5, Push DEF Types
  <2>7. NetOf(s)'
    <3>1. CASE net' = net
      BY <1>k, <2>2, <3>1, NetFrame
    <3>2. CASE net' = [net EXCEPT ![s] = Append(@, stream[s].req)]
      <4>1. /\ Len(net'[s]) = Len(net[s]) + 1 /\ net'[s][Len(net[s]) + 1] = stream[s].req
            /\ \A i \in 1 .. Len(net[s]) : net'[s][i] = net[s][i]
        BY <2>6, <3>2, Zenon DEF Types
      <4>2. \A i \in 1 .. Len(net'[s]) : i \in 1 .. Len(net[s]) \/ i = Len(net[s]) + 1
        BY <1>e, <4>1, SMTT(30)
      <4>3. \A x \in 1 .. Len(sent) : Below(x) => Below(x)' /\ x \in 1 .. Len(sent')
        BY <1>k DEF Keeps
      <4>4. ASSUME NEW i \in 1 .. Len(net'[s])
            PROVE  net'[s][i] \in 1 .. Len(sent) /\ Below(net'[s][i])
        BY <2>5, <4>1, <4>2, Zenon DEF NetInv, NetOf
      <4>5. ASSUME NEW i \in 1 .. Len(net'[s]), NEW j \in 1 .. Len(net'[s]), i < j
            PROVE  net'[s][i] < net'[s][j]
        <5>1. i \in 1 .. Len(net[s])
          BY <1>e, <4>1, <4>5, SMTT(30)
        <5>2. CASE j \in 1 .. Len(net[s])
          BY <4>1, <4>5, <5>1, <5>2 DEF NetInv, NetOf
        <5>3. CASE j = Len(net[s]) + 1
          BY <2>1, <4>1, <5>1, <5>3 DEF NetInv, NetOf
        <5>4. QED
          BY <4>2, <5>2, <5>3
      <4>6. QED
        BY <2>2, <4>3, <4>4, <4>5, Zenon DEF NetOf
    <3>3. QED
      BY <2>1, <3>1, <3>2
  <2>8. QED
    BY <2>3, <2>4, <2>7 DEF NetInv
<1>4. ASSUME NEW s \in Streams, StreamSendFails(s) PROVE NetInv'
  <2>1. UNCHANGED <<client, net>>
    BY <1>4 DEF StreamSendFails, proxy, agent
  <2>2. \A t \in Streams :
            \/ stream'[t] = stream[t]
            \/ stream[t].pc # "none" /\ stream'[t].pc # "send"
    BY <1>4, Zenon DEF StreamSendFails, Types
  <2>3. \A t \in Streams : Unused(t)'
    BY <2>1, <2>2 DEF NetInv, Unused
  <2>4. \A t \in Streams : NetOf(t)'
    BY <1>k, <2>1, <2>2, NetFrame
  <2>5. QED
    BY <2>3, <2>4 DEF NetInv
<1>5. ASSUME NEW s \in Streams, StreamAnswer(s) PROVE NetInv'
  <2>1. UNCHANGED <<client, net>>
    BY <1>5, Zenon DEF StreamAnswer, proxy, agent
  <2>2. \A t \in Streams :
            \/ stream'[t] = stream[t]
            \/ stream[t].pc # "none" /\ stream'[t].pc # "send"
    BY <1>5 DEF StreamAnswer, Types
  <2>3. \A t \in Streams : Unused(t)'
    BY <2>1, <2>2 DEF NetInv, Unused
  <2>4. \A t \in Streams : NetOf(t)'
    BY <1>k, <2>1, <2>2, NetFrame
  <2>5. QED
    BY <2>3, <2>4 DEF NetInv
<1>6. ASSUME NEW s \in Streams, StreamEnd(s) PROVE NetInv'
  <2>1. UNCHANGED <<client, net>>
    BY <1>6 DEF StreamEnd, proxy, agent
  <2>2. \A t \in Streams :
            \/ stream'[t] = stream[t]
            \/ stream[t].pc # "none" /\ stream'[t].pc # "send"
    BY <1>6 DEF StreamEnd, Types
  <2>3. \A t \in Streams : Unused(t)'
    BY <2>1, <2>2 DEF NetInv, Unused
  <2>4. \A t \in Streams : NetOf(t)'
    BY <1>k, <2>1, <2>2, NetFrame
  <2>5. QED
    BY <2>3, <2>4 DEF NetInv
<1>7. CASE ClientStart
  <2>1. /\ client'.s = client.s + 1 /\ client.s \in Nat /\ net' = net
        /\ stream' = [stream EXCEPT ![client.s + 1].pc = "start"]
    BY <1>7 DEF ClientStart, Types
  <2>2. \A t \in Streams :
            IF t = client.s + 1 THEN stream'[t].pc = "start" ELSE stream'[t] = stream[t]
    BY <2>1 DEF Types
  <2>3. Streams \subseteq Nat
    BY CommandQueueAssumption DEF Streams
  <2>4. \A t \in Streams : Unused(t)'
    BY <2>1, <2>2, <2>3 DEF NetInv, Unused
  <2>5. \A t \in Streams : NetOf(t)'
    BY <1>k, <2>1, <2>2, NetFrame
  <2>6. QED
    BY <2>4, <2>5 DEF NetInv
<1>8. CASE ClientRead
  <2>1. /\ client'.s = client.s /\ stream' = stream /\ net[client.s] # <<>> /\ client.s \in Streams
        /\ net' = [net EXCEPT ![client.s] = Tail(@)]
    BY <1>8 DEF ClientRead, Types
  <2>2. \A t \in Streams : t # client.s => net'[t] = net[t]
    BY <2>1 DEF Types
  <2>3. net'[client.s] = Tail(net[client.s])
    BY <2>1 DEF Types
  <2>4. /\ Len(net'[client.s]) \in Int
        /\ \A i \in 1 .. Len(net'[client.s]) :
               i + 1 \in 1 .. Len(net[client.s]) /\ net'[client.s][i] = net[client.s][i + 1]
    <3>1. net[client.s] \in Seq(Nat) /\ Len(net[client.s]) \in Nat
      BY <1>e, <2>1
    <3>2. /\ Len(Tail(net[client.s])) = Len(net[client.s]) - 1
          /\ \A i \in 1 .. Len(Tail(net[client.s])) :
                 Tail(net[client.s])[i] = net[client.s][i + 1]
      BY <2>1, <3>1, Pop
    <3>3. QED
      BY <2>3, <3>1, <3>2
  <2>5. client.s \in Nat
    BY CommandQueueAssumption, SMTT(30) DEF Types
  <2>6. \A t \in Streams : Unused(t)'
    BY <2>1, <2>2, <2>5, Zenon DEF NetInv, Unused
  <2>7. \A t \in Streams \ {client.s} : NetOf(t)'
    BY <1>k, <2>1, <2>2, NetFrame
  <2>8. \A t \in Streams : t = client.s => NetOf(t)'
    BY <1>k, <2>1, <2>4, NetPart, Zenon
  <2>9. QED
    BY <2>6, <2>7, <2>8 DEF NetInv
<1>9. CASE ClientReply
  <2>1. client'.s = client.s /\ UNCHANGED <<stream, net>>
    BY <1>9 DEF ClientReply, Types, agent, streams
  <2>2. \A t \in Streams : Unused(t)'
    BY <2>1, Zenon DEF NetInv, Unused
  <2>3. \A t \in Streams : NetOf(t)'
    BY <1>k, <2>1, NetFrame
  <2>4. QED
    BY <2>2, <2>3 DEF NetInv
<1>10. CASE ClientApply
  <2>1. client'.s = client.s /\ UNCHANGED <<stream, net>>
    BY <1>10 DEF ClientApply, Types, agent, streams
  <2>2. \A t \in Streams : Unused(t)'
    BY <2>1 DEF NetInv, Unused
  <2>3. \A t \in Streams : NetOf(t)'
    BY <1>k, <2>1, NetFrame
  <2>4. QED
    BY <2>2, <2>3 DEF NetInv
<1>11. CASE ClientFinish
  <2>1. client'.s = client.s /\ UNCHANGED <<stream, net>>
    BY <1>11 DEF ClientFinish, Types, agent, streams
  <2>2. \A t \in Streams : Unused(t)'
    BY <2>1 DEF NetInv, Unused
  <2>3. \A t \in Streams : NetOf(t)'
    BY <1>k, <2>1, NetFrame
  <2>4. QED
    BY <2>2, <2>3 DEF NetInv
<1>12. CASE Break
  <2>1. /\ client' = client /\ stream' = stream /\ client.s \in Streams
        /\ \E n \in 0 .. Len(net[client.s]) : net' = [net EXCEPT ![client.s] = SubSeq(@, 1, n)]
    BY <1>12, Zenon DEF Break, agent, proxy
  <2>2. \A t \in Streams : t # client.s => net'[t] = net[t]
    BY <2>1 DEF Types
  <2>3. \E n \in 0 .. Len(net[client.s]) : net'[client.s] = SubSeq(net[client.s], 1, n)
    BY <2>1, Zenon DEF Types
  <2>4. /\ Len(net'[client.s]) \in Int
        /\ \A i \in 1 .. Len(net'[client.s]) :
               i + 0 \in 1 .. Len(net[client.s]) /\ net'[client.s][i] = net[client.s][i + 0]
    BY <1>e, <2>1, <2>3, Prefix
  <2>5. client.s \in Nat
    BY CommandQueueAssumption DEF Types
  <2>6. \A t \in Streams : Unused(t)'
    BY <2>1, <2>2, <2>5, SMTT(30) DEF NetInv, Unused
  <2>7. \A t \in Streams \ {client.s} : NetOf(t)'
    BY <1>k, <2>1, <2>2, NetFrame
  <2>8. \A t \in Streams : t = client.s => NetOf(t)'
    BY <1>k, <2>1, <2>4, NetPart
  <2>9. QED
    BY <2>6, <2>7, <2>8 DEF NetInv
<1>13. CASE Unregister
  <2>1. client'.s = client.s /\ UNCHANGED <<stream, net>>
    BY <1>13 DEF Unregister, Types, agent, streams
  <2>2. \A t \in Streams : Unused(t)'
    BY <2>1 DEF NetInv, Unused
  <2>3. \A t \in Streams : NetOf(t)'
    BY <1>k, <2>1, NetFrame
  <2>4. QED
    BY <2>2, <2>3 DEF NetInv
<1>14. CASE \/ ChangeConfig \/ WorkerTake \/ WorkerEnqueue \/ CancelCommandRequest \/
               WorkerReceive
            \/ \E s \in Streams : Notice(s)
            \/ \E r \in Requests : SendCommandReply(r)
            \/ UNCHANGED vars
  <2>1. UNCHANGED <<client, stream, net>>
    BY <1>14, Zenon DEF vars, agent, streams, proxy, ChangeConfig, WorkerTake,
       WorkerEnqueue, CancelCommandRequest, WorkerReceive, Notice, SendCommandReply
  <2>2. QED
    <3>1. \A t \in Streams : Unused(t)'
      BY <2>1 DEF NetInv, Unused
    <3>2. \A t \in Streams : NetOf(t)'
      BY <1>k, <2>1, NetFrame, Zenon
    <3>3. QED
      BY <3>1, <3>2 DEF NetInv
<1>15. QED
  BY <1>1, <1>2, <1>3, <1>4, <1>5, <1>6, <1>7, <1>8, <1>9, <1>10, <1>11, <1>12, <1>13, <1>14
     DEF Next, WorkerStep, WorkerNotReady, WorkerTimeout, WorkerReceiveError, StreamStep

\* A request older than everything still to come to the proxy stays so.
LEMMA AheadStep ==
    ASSUME Types, QueueInv, NetInv, NEW x \in 1 .. Len(sent), Ahead(x), [Next]_vars
    PROVE  Ahead(x)'
<1>k. Keeps
  BY KeepsStep
<1>e. \A t \in Streams : /\ net[t] \in Seq(Nat) /\ Len(net[t]) \in Nat
                          /\ \A i \in 1 .. Len(net[t]) : net[t][i] \in Nat
  BY LenProperties, ElementOfSeq, Zenon DEF Types
<1>b. Below(x)'
  BY <1>k, SMTT(30) DEF Keeps, Ahead
<1>1. ASSUME NEW s \in Streams, StreamSetReady(s) PROVE Ahead(x)'
  <2>1. UNCHANGED <<client, net>>
    BY <1>1 DEF StreamSetReady, proxy, agent
  <2>2. \A t \in Streams : stream'[t] = stream[t] \/ stream'[t].pc # "send"
    BY <1>1, Zenon DEF StreamSetReady, Types
  <2>3. QED
    BY <1>b, <2>1, <2>2 DEF Ahead
<1>2. ASSUME NEW s \in Streams, StreamTake(s) PROVE Ahead(x)'
  <2>1. /\ queue # <<>> /\ UNCHANGED <<net, client>>
        /\ stream' = [stream EXCEPT ![s] = [pc |-> "send", req |-> Head(queue)]]
    BY <1>2, Zenon DEF StreamTake, proxy
  <2>2. 1 \in 1 .. Len(queue) /\ Head(queue) = queue[1]
    BY <2>1, Pop DEF Types
  <2>3. x < Head(queue)
    BY <2>2, Zenon DEF Ahead, Below
  <2>4. stream'[s].req = Head(queue) /\ \A t \in Streams : t # s => stream'[t] = stream[t]
    BY <2>1 DEF Types
  <2>5. QED
    BY <1>b, <2>1, <2>3, <2>4, Zenon DEF Ahead
<1>3. ASSUME NEW s \in Streams, StreamSend(s) PROVE Ahead(x)'
  <2>1. /\ net' = net \/ net' = [net EXCEPT ![s] = Append(@, stream[s].req)]
        /\ stream' = [stream EXCEPT ![s] = [pc |-> "loop", req |-> 0]]
        /\ stream[s].pc = "send" /\ client' = client
    BY <1>3 DEF StreamSend, proxy
  <2>2. /\ stream'[s].pc = "loop"
        /\ \A t \in Streams : t # s => stream'[t] = stream[t] /\ net'[t] = net[t]
    BY <2>1, Zenon DEF Types
  <2>3. stream[s].req \in Nat
    BY <2>1 DEF Types
  <2>4. /\ Len(Append(net[s], stream[s].req)) = Len(net[s]) + 1
        /\ \A i \in 1 .. Len(net[s]) : Append(net[s], stream[s].req)[i] = net[s][i]
        /\ Append(net[s], stream[s].req)[Len(net[s]) + 1] = stream[s].req
    BY <1>e, <2>3, Push
  <2>5. net'[s] = net[s] \/ net'[s] = Append(net[s], stream[s].req)
    BY <2>1, Zenon DEF Types
  <2>6. client.s = s => \A i \in 1 .. Len(net'[s]) : x < net'[s][i]
    <3>1. CASE net'[s] = net[s]
      BY <3>1 DEF Ahead
    <3>2. CASE net'[s] = Append(net[s], stream[s].req)
      <4>1. \A i \in 1 .. Len(net'[s]) : i \in 1 .. Len(net[s]) \/ i = Len(net[s]) + 1
        BY <1>e, <2>4, <3>2
      <4>2. QED
        BY <2>1, <2>4, <3>2, <4>1 DEF Ahead
    <3>3. QED
      BY <2>5, <3>1, <3>2
  <2>7. QED
    BY <1>b, <2>1, <2>2, <2>6 DEF Ahead
<1>4. ASSUME NEW s \in Streams, StreamSendFails(s) PROVE Ahead(x)'
  <2>1. UNCHANGED <<client, net>>
    BY <1>4 DEF StreamSendFails, proxy, agent
  <2>2. \A t \in Streams : stream'[t] = stream[t] \/ stream'[t].pc # "send"
    BY <1>4 DEF StreamSendFails, Types
  <2>3. QED
    BY <1>b, <2>1, <2>2 DEF Ahead
<1>5. ASSUME NEW s \in Streams, StreamAnswer(s) PROVE Ahead(x)'
  <2>1. UNCHANGED <<client, net>>
    BY <1>5, Zenon DEF StreamAnswer, proxy, agent
  <2>2. \A t \in Streams : stream'[t] = stream[t] \/ stream'[t].pc # "send"
    BY <1>5 DEF StreamAnswer, Types
  <2>3. QED
    BY <1>b, <2>1, <2>2 DEF Ahead
<1>6. ASSUME NEW s \in Streams, StreamEnd(s) PROVE Ahead(x)'
  <2>1. UNCHANGED <<client, net>>
    BY <1>6 DEF StreamEnd, proxy, agent
  <2>2. \A t \in Streams : stream'[t] = stream[t] \/ stream'[t].pc # "send"
    BY <1>6 DEF StreamEnd, Types
  <2>3. QED
    BY <1>b, <2>1, <2>2 DEF Ahead
<1>7. CASE ClientStart
  <2>1. /\ client'.s = client.s + 1 /\ net' = net /\ client.s \in Nat /\ client.s + 1 \in Streams
        /\ stream' = [stream EXCEPT ![client.s + 1].pc = "start"]
    BY <1>7 DEF ClientStart, Types
  <2>2. net[client.s + 1] = <<>> /\ stream'[client.s + 1].pc = "start"
    BY <2>1 DEF NetInv, Unused, Types
  <2>3. QED
    BY <1>b, <2>1, <2>2 DEF Ahead
<1>8. CASE ClientRead
  <2>1. /\ client'.s = client.s /\ stream' = stream /\ net[client.s] # <<>> /\ client.s \in Streams
        /\ net'[client.s] = Tail(net[client.s])
    BY <1>8 DEF ClientRead, Types
  <2>2. net[client.s] \in Seq(Nat) /\ Len(net[client.s]) \in Nat
    BY <1>e, <2>1
  <2>3. /\ Len(Tail(net[client.s])) = Len(net[client.s]) - 1
        /\ \A i \in 1 .. Len(Tail(net[client.s])) :
               Tail(net[client.s])[i] = net[client.s][i + 1]
    BY <2>1, <2>2, Pop, Zenon
  <2>4. \A i \in 1 .. Len(net'[client.s]) : x < net'[client.s][i]
    BY <2>1, <2>2, <2>3 DEF Ahead
  <2>5. QED
    BY <1>b, <2>1, <2>4 DEF Ahead
<1>9. CASE ClientReply
  <2>1. client'.s = client.s /\ UNCHANGED <<stream, net>>
    BY <1>9 DEF ClientReply, Types, agent, streams
  <2>2. QED
    BY <1>b, <2>1 DEF Ahead
<1>10. CASE ClientApply
  <2>1. client'.s = client.s /\ UNCHANGED <<stream, net>>
    BY <1>10 DEF ClientApply, Types, agent, streams
  <2>2. QED
    BY <1>b, <2>1 DEF Ahead
<1>11. CASE ClientFinish
  <2>1. client'.s = client.s /\ UNCHANGED <<stream, net>>
    BY <1>11 DEF ClientFinish, Types, agent, streams
  <2>2. QED
    BY <1>b, <2>1 DEF Ahead
<1>12. CASE Break
  <2>1. /\ client' = client /\ stream' = stream /\ client.s \in Streams
        /\ \E n \in 0 .. Len(net[client.s]) : net'[client.s] = SubSeq(net[client.s], 1, n)
    BY <1>12, Zenon DEF Break, agent, proxy, Types
  <2>2. \A i \in 1 .. Len(net'[client.s]) :
            i \in 1 .. Len(net[client.s]) /\ net'[client.s][i] = net[client.s][i]
    BY <1>e, <2>1, Prefix, SMTT(30)
  <2>3. QED
    BY <1>b, <2>1, <2>2 DEF Ahead
<1>13. CASE Unregister
  <2>1. client'.s = client.s /\ UNCHANGED <<stream, net>>
    BY <1>13 DEF Unregister, Types, agent, streams
  <2>2. QED
    BY <1>b, <2>1 DEF Ahead
<1>14. CASE \/ ChangeConfig \/ WorkerTake \/ WorkerEnqueue \/ CancelCommandRequest \/
               WorkerReceive
            \/ \E s \in Streams : Notice(s)
            \/ \E r \in Requests : SendCommandReply(r)
            \/ UNCHANGED vars
  <2>1. UNCHANGED <<client, stream, net>>
    BY <1>14, Zenon DEF vars, agent, streams, proxy, ChangeConfig, WorkerTake,
       WorkerEnqueue, CancelCommandRequest, WorkerReceive, Notice, SendCommandReply
  <2>2. QED
    BY <1>b, <2>1 DEF Ahead
<1>15. QED
  BY <1>1, <1>2, <1>3, <1>4, <1>5, <1>6, <1>7, <1>8, <1>9, <1>10, <1>11, <1>12, <1>13, <1>14, Zenon
     DEF Next, WorkerStep, WorkerNotReady, WorkerTimeout, WorkerReceiveError, StreamStep

\* Steps keep what the proxy holds older than what is to come.
LEMMA ClientStep ==
    ASSUME Types, QueueInv, NetInv, ClientInv, [Next]_vars
    PROVE  ClientInv'
<1>k. Keeps
  BY KeepsStep
<1>e. \A t \in Streams : /\ net[t] \in Seq(Nat) /\ Len(net[t]) \in Nat
                          /\ \A i \in 1 .. Len(net[t]) : net[t][i] \in Nat
  BY LenProperties, ElementOfSeq, Zenon DEF Types
<1>a. \A x \in 1 .. Len(sent) : Ahead(x) => Ahead(x)' /\ x \in 1 .. Len(sent')
  BY <1>k, AheadStep DEF Keeps
<1>1. CASE ClientStart
  BY <1>1 DEF ClientStart, ClientInv, Holding, Types
<1>2. CASE ClientRead
  <2>1. /\ net[client.s] # <<>> /\ client.s \in Streams /\ stream' = stream /\ client'.s = client.s
        /\ client'.req = Head(net[client.s]) /\ net'[client.s] = Tail(net[client.s])
    BY <1>2 DEF ClientRead, Types
  <2>2. net[client.s] \in Seq(Nat) /\ Len(net[client.s]) \in Nat
    BY <1>e, <2>1
  <2>3. /\ Head(net[client.s]) = net[client.s][1] /\ 1 \in 1 .. Len(net[client.s])
        /\ Len(Tail(net[client.s])) = Len(net[client.s]) - 1
        /\ \A i \in 1 .. Len(Tail(net[client.s])) :
               Tail(net[client.s])[i] = net[client.s][i + 1]
    BY <2>1, <2>2, Pop, SMTT(30)
  <2>4. PICK x \in 1 .. Len(sent) : x = Head(net[client.s]) /\ Below(x)
    BY <2>1, <2>3, Zenon DEF NetInv, NetOf
  <2>5. Below(x)' /\ x \in 1 .. Len(sent')
    BY <1>k, <2>4, SMTT(30) DEF Keeps
  <2>6. \A i \in 1 .. Len(net'[client.s]) : x < net'[client.s][i]
    BY <2>1, <2>2, <2>3, <2>4, SMTT(30) DEF NetInv, NetOf
  <2>7. stream'[client.s].pc = "send" => x < stream'[client.s].req
    BY <2>1, <2>3, <2>4, Zenon DEF NetInv, NetOf
  <2>8. Ahead(x)'
    BY <2>1, <2>5, <2>6, <2>7 DEF Ahead
  <2>9. QED
    BY <2>1, <2>4, <2>5, <2>8 DEF ClientInv
<1>3. CASE ClientReply
  BY <1>a, <1>3 DEF ClientReply, ClientInv, Holding, Types
<1>4. CASE ClientApply
  BY <1>a, <1>4 DEF ClientApply, ClientInv, Holding, Types
<1>5. CASE ClientFinish
  BY <1>5 DEF ClientFinish, ClientInv, Holding, Types
<1>6. CASE Unregister
  BY <1>6 DEF Unregister, ClientInv, Holding, Types
<1>7. CASE \/ ChangeConfig \/ WorkerTake \/ WorkerEnqueue \/ CancelCommandRequest \/
              WorkerReceive \/ Break
           \/ \E s \in Streams : StreamSetReady(s) \/ StreamTake(s) \/ StreamSend(s) \/
              StreamSendFails(s) \/ StreamAnswer(s) \/ StreamEnd(s) \/ Notice(s)
           \/ \E r \in Requests : SendCommandReply(r)
           \/ UNCHANGED vars
  <2>1. UNCHANGED <<client>>
    BY <1>7, Zenon DEF vars, agent, streams, proxy, ChangeConfig, WorkerTake,
       WorkerEnqueue, CancelCommandRequest, WorkerReceive, StreamSetReady, StreamTake,
       StreamSend, StreamSendFails, StreamAnswer, StreamEnd, Notice, Break,
       SendCommandReply
  <2>2. QED
    BY <1>a, <2>1, Zenon DEF ClientInv, Holding
<1>8. QED
  BY <1>1, <1>2, <1>3, <1>4, <1>5, <1>6, <1>7, Zenon
     DEF Next, WorkerStep, WorkerNotReady, WorkerTimeout, WorkerReceiveError, StreamStep

\* Steps keep what the proxy has applied older than what is to come.
LEMMA AppliedStep ==
    ASSUME Types, QueueInv, NetInv, ClientInv, AppliedInv, [Next]_vars
    PROVE  AppliedInv'
<1>k. Keeps
  BY KeepsStep
<1>e. \A t \in Streams : /\ net[t] \in Seq(Nat) /\ Len(net[t]) \in Nat
                          /\ \A i \in 1 .. Len(net[t]) : net[t][i] \in Nat
  BY LenProperties, ElementOfSeq, Zenon DEF Types
<1>a. \A x \in 1 .. Len(sent) : Ahead(x) => Ahead(x)' /\ x \in 1 .. Len(sent')
  BY <1>k, AheadStep DEF Keeps
<1>c. CASE applied' = applied /\ (Holding' => Holding /\ client'.req = client.req)
  BY <1>k, <1>a, <1>c DEF AppliedInv, Keeps
<1>1. CASE ClientStart
  BY <1>c, <1>1 DEF ClientStart, Holding, Types
<1>2. CASE ClientRead
  <2>1. /\ net[client.s] # <<>> /\ client.s \in Streams /\ applied' = applied
        /\ client'.req = Head(net[client.s])
    BY <1>2 DEF ClientRead, Types
  <2>2. Head(net[client.s]) = net[client.s][1] /\ 1 \in 1 .. Len(net[client.s])
    BY <1>e, <2>1, Pop, SMTT(30)
  <2>3. \A x : Ahead(x) => x < client'.req
    BY <2>1, <2>2 DEF Ahead
  <2>4. QED
    BY <1>k, <1>a, <2>1, <2>3 DEF AppliedInv, Keeps
<1>3. CASE ClientReply
  BY <1>c, <1>3 DEF ClientReply, Holding, Types
<1>4. CASE ClientApply
  <2>1. Holding /\ ~ Holding' /\ applied' = sent[client.req] /\ sent' = sent
    BY <1>4 DEF ClientApply, Holding, Types, agent
  <2>2. client.req \in 1 .. Len(sent) /\ Ahead(client.req)
    BY <2>1 DEF ClientInv
  <2>3. \E x \in 1 .. Len(sent) : x = client.req /\ Ahead(x)' /\ x \in 1 .. Len(sent')
    BY <1>a, <2>2
  <2>4. QED
    BY <2>1, <2>3 DEF AppliedInv
<1>5. CASE ClientFinish
  BY <1>c, <1>5 DEF ClientFinish, Holding, Types
<1>6. CASE Unregister
  BY <1>c, <1>6 DEF Unregister, Holding, Types
<1>7. CASE \/ ChangeConfig \/ WorkerTake \/ WorkerEnqueue \/ CancelCommandRequest \/
              WorkerReceive \/ Break
           \/ \E s \in Streams : StreamSetReady(s) \/ StreamTake(s) \/ StreamSend(s) \/
              StreamSendFails(s) \/ StreamAnswer(s) \/ StreamEnd(s) \/ Notice(s)
           \/ \E r \in Requests : SendCommandReply(r)
           \/ UNCHANGED vars
  <2>1. UNCHANGED <<client, applied>>
    BY <1>7, Zenon DEF vars, agent, streams, proxy, ChangeConfig, WorkerTake,
       WorkerEnqueue, CancelCommandRequest, WorkerReceive, StreamSetReady, StreamTake,
       StreamSend, StreamSendFails, StreamAnswer, StreamEnd, Notice, Break,
       SendCommandReply
  <2>2. QED
    BY <1>c, <2>1 DEF Holding
<1>8. QED
  BY <1>1, <1>2, <1>3, <1>4, <1>5, <1>6, <1>7
     DEF Next, WorkerStep, WorkerNotReady, WorkerTimeout, WorkerReceiveError, StreamStep

-----------------------------------------------------------------------------
\* Nothing is made, taken or under way in the beginning.
LEMMA InitIInv == Init => IInv
<1> SUFFICES ASSUME Init PROVE IInv
  OBVIOUS
<1>1. /\ sent = <<>> /\ queue = <<>> /\ Len(<<>>) = 0 /\ requestMap = {} /\ applied = 0
      /\ \A s \in Streams : net[s] = <<>> /\ stream[s].pc = "none"
      /\ worker.pc = "idle" /\ ~ Holding
  BY Zenon DEF Init, Holding
<1>2. Types
  <2>1. <<>> \in Seq(Nat) /\ <<>> \in Seq(Requests)
    BY EmptySeq, Zenon
  <2>2. /\ stream \in [Streams -> [pc : StreamPc, req : Nat]]
        /\ net \in [Streams -> Seq(Nat)] /\ reply \in [Requests -> Replies]
    BY <2>1 DEF Init, StreamPc, Replies, Empty
  <2>3. client \in [pc : ClientPc, s : 0 .. MaxStreams, req : Nat] /\ client.pc = "idle"
    BY CommandQueueAssumption DEF Init, ClientPc
  <2>4. /\ version \in Nat /\ version <= MaxVersion + 1 /\ version > 0 /\ applyq \in Nat
        /\ Len(sent) + applyq <= version - 1 + client.s
    BY <1>1, CommandQueueAssumption, SMTT(30) DEF Init
  <2>5. QED
    BY <1>1, <2>1, <2>2, <2>3, <2>4 DEF Init, Types, WorkerPc
<1>3. QueueInv /\ NetInv /\ ClientInv /\ AppliedInv
  BY <1>1, SMTT(30) DEF QueueInv, NetInv, Unused, NetOf, ClientInv, AppliedInv
<1>4. MapInv
  BY <1>1 DEF MapInv, Init
<1>5. QED
  BY <1>2, <1>3, <1>4 DEF IInv

\* The invariant is inductive.
LEMMA NextIInv == IInv /\ [Next]_vars => IInv'
  BY TypesStep, QueueStep, MapStep, NetStep, ClientStep, AppliedStep DEF IInv

\* In every reachable state of the agent the reply channel of a request in the
\* request map is open and empty, for any number of configurations and streams
\* and any capacity of the command queue.
THEOREM MapEntryIsOpenHolds == Spec => []MapEntryIsOpen
<1>1. IInv => MapEntryIsOpen
  BY DEF IInv, MapInv, MapEntryIsOpen
<1>2. QED
  BY <1>1, InitIInv, NextIInv, PTL DEF Spec

\* No step makes a proxy apply a configuration older than the one it has.
LEMMA NotOlder == IInv /\ [Next]_vars => applied' >= applied
<1> SUFFICES ASSUME IInv, [Next]_vars PROVE applied' >= applied
  OBVIOUS
<1>1. /\ Len(sent) \in Nat /\ applied \in Nat
      /\ \A i \in 1 .. Len(sent) : sent[i] \in Nat
  BY LenProperties, ElementOfSeq, SMTT(30) DEF IInv, Types, AppliedInv
<1>2. CASE ClientApply
  <2>1. Holding /\ applied' = sent[client.req]
    BY <1>2 DEF ClientApply, Holding
  <2>2. client.req \in 1 .. Len(sent)
    BY <2>1 DEF IInv, ClientInv
  <2>3. CASE applied = 0
    BY <1>1, <2>1, <2>2, <2>3
  <2>4. CASE \E a \in 1 .. Len(sent) : applied = sent[a] /\ a < client.req
    BY <1>1, <2>1, <2>2, <2>4 DEF IInv, QueueInv
  <2>5. QED
    BY <2>1, <2>3, <2>4 DEF IInv, AppliedInv
<1>3. CASE applied' = applied
  BY <1>1, <1>3
<1>4. CASE UNCHANGED vars
  BY <1>3, <1>4 DEF vars, proxy
<1>5. ASSUME Next, ~ ClientApply PROVE applied' = applied
  <2>1. WorkerStep => applied' = applied
    BY DEF WorkerStep, WorkerTake, WorkerEnqueue, WorkerNotReady, WorkerTimeout,
       WorkerReceiveError, WorkerReceive, CancelCommandRequest, proxy
  <2>2. \A s \in Streams : StreamStep(s) \/ Notice(s) => applied' = applied
    BY DEF StreamStep, StreamSetReady, StreamTake, StreamSend, StreamSendFails, StreamAnswer,
       StreamEnd, Notice, proxy
  <2>3. ClientStart \/ ClientRead \/ ClientReply \/ ClientFinish \/ Break \/ Unregister
          => applied' = applied
    BY DEF ClientStart, ClientRead, ClientReply, ClientFinish, Break, Unregister, proxy
  <2>4. \A r \in Requests : SendCommandReply(r) => applied' = applied
    BY DEF SendCommandReply
  <2>5. QED
    BY <1>5, <2>1, <2>2, <2>3, <2>4 DEF Next, ChangeConfig, proxy
<1>6. QED
  BY <1>2, <1>3, <1>4, <1>5

\* The proxy never goes back to an older configuration, whatever the network
\* loses, however often the stream is started again, and however many
\* requests the worker has given up.
THEOREM NeverOlderHolds == Spec => NeverOlder
<1>1. IInv /\ [Next]_vars => [applied' >= applied]_vars
  BY NotOlder
<1>2. QED
  BY <1>1, InitIInv, NextIInv, PTL DEF Spec, NeverOlder

====
