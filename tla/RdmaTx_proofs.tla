---------------------------- MODULE RdmaTx_proofs ----------------------------
(***************************************************************************)
(* Safety of the sending side of an RDMA bridge, for any pool of buffers   *)
(* and however slow the completions are.                                   *)
(***************************************************************************)
EXTENDS RdmaTx, TLAPS

\* The inductive invariant: the three properties need no other strengthening.
IInv == TypeOK /\ OneOwner /\ NoLostWakeup

LEMMA InitIInv == Init => IInv
  BY RdmaTxAssumption, Zenon
     DEF Init, IInv, TypeOK, OneOwner, NoLostWakeup, Outstanding, InHand

\* Types are preserved by every step.
LEMMA TypeStep == TypeOK /\ [Next]_vars => TypeOK'
<1> SUFFICES ASSUME TypeOK, [Next]_vars PROVE TypeOK'
  OBVIOUS
<1> USE RdmaTxAssumption DEF TypeOK, hot
<1>1. CASE OnReceive
  BY <1>1 DEF OnReceive
<1>2. CASE HotStep
  BY <1>2, Zenon DEF HotStep, Acquire, AcquireTimeout, AcquireCancelled, SendBuf, SendBufFails,
              NotifySent, ReturnUnsent
<1>3. ASSUME NEW b \in Bufs, Complete(b) PROVE TypeOK'
  BY <1>3 DEF Complete
<1>4. CASE CqThread
  BY <1>4, Zenon DEF CqThread, WaitBufAvailable, ClearBufAvailable, Poll, PollErr, PollFails,
              PollTimeout, PollCancelled, Again
<1>5. CASE Shutdown
  BY <1>5 DEF Shutdown
<1>6. CASE UNCHANGED vars
  BY <1>6 DEF vars
<1> QED
  BY <1>1, <1>2, <1>3, <1>4, <1>5, <1>6 DEF Next

\* A buffer moves from one place to another, never to two.
LEMMA OwnerStep == TypeOK /\ OneOwner /\ [Next]_vars => OneOwner'
<1> SUFFICES ASSUME TypeOK, OneOwner, [Next]_vars PROVE OneOwner'
  OBVIOUS
<1> USE RdmaTxAssumption DEF TypeOK, OneOwner, Outstanding, InHand, hot
<1>1. CASE OnReceive
  BY <1>1 DEF OnReceive
<1>2. CASE HotStep
  <2>1. CASE Acquire
    BY <2>1 DEF Acquire
  <2>2. CASE AcquireTimeout \/ AcquireCancelled
    BY <2>2 DEF AcquireTimeout, AcquireCancelled
  <2>3. CASE SendBuf
    BY <2>3 DEF SendBuf
  <2>4. CASE SendBufFails \/ NotifySent
    BY <2>4 DEF SendBufFails, NotifySent
  <2>5. CASE ReturnUnsent
    BY <2>5 DEF ReturnUnsent
  <2> QED
    BY <1>2, <2>1, <2>2, <2>3, <2>4, <2>5 DEF HotStep
<1>3. ASSUME NEW b \in Bufs, Complete(b) PROVE OneOwner'
  BY <1>3 DEF Complete
<1>4. CASE CqThread
  <2>1. CASE Poll
    BY <2>1 DEF Poll
  <2>2. ASSUME NEW b \in Bufs, PollErr(b) PROVE OneOwner'
    BY <2>2 DEF PollErr
  <2>3. CASE WaitBufAvailable \/ ClearBufAvailable
    BY <2>3 DEF WaitBufAvailable, ClearBufAvailable
  <2>4. CASE PollFails \/ PollTimeout \/ PollCancelled
    BY <2>4 DEF PollFails, PollTimeout, PollCancelled
  <2> QED
    BY <1>4, <2>1, <2>2, <2>3, <2>4 DEF CqThread
<1>5. CASE Shutdown
  BY <1>5 DEF Shutdown
<1>6. CASE UNCHANGED vars
  BY <1>6 DEF vars
<1> QED
  BY <1>1, <1>2, <1>3, <1>4, <1>5, <1>6 DEF Next

\* Whatever puts the thread to sleep or puts a buffer out leaves a
\* notification, or the note that the thread has given up.
LEMMA WakeupStep == TypeOK /\ NoLostWakeup /\ [Next]_vars => NoLostWakeup'
<1> SUFFICES ASSUME TypeOK, NoLostWakeup, [Next]_vars PROVE NoLostWakeup'
  OBVIOUS
<1> USE DEF TypeOK, NoLostWakeup, Outstanding, hot
<1>1. CASE OnReceive
  BY <1>1 DEF OnReceive
<1>2. CASE HotStep
  BY <1>2 DEF HotStep, Acquire, AcquireTimeout, AcquireCancelled, SendBuf, SendBufFails,
              NotifySent, ReturnUnsent
<1>3. ASSUME NEW b \in Bufs, Complete(b) PROVE NoLostWakeup'
  BY <1>3 DEF Complete
<1>4. CASE CqThread
  BY <1>4, Zenon DEF CqThread, WaitBufAvailable, ClearBufAvailable, Poll, PollErr, PollFails,
              PollTimeout, PollCancelled, Again
<1>5. CASE Shutdown
  BY <1>5 DEF Shutdown
<1>6. CASE UNCHANGED vars
  BY <1>6 DEF vars
<1> QED
  BY <1>1, <1>2, <1>3, <1>4, <1>5, <1>6 DEF Next

LEMMA Invariance == Spec => []IInv
<1>1. IInv /\ [Next]_vars => IInv'
  BY TypeStep, OwnerStep, WakeupStep DEF IInv
<1> QED
  BY InitIInv, <1>1, PTL DEF Spec

\* on_receive() and rdma_cq_thread keep the types; in particular a frame is
\* only sent with a buffer in hand.
THEOREM TypeCorrect == Spec => []TypeOK
  BY Invariance, PTL DEF IInv

\* No buffer of the pool is ever in two places or in none, for any number of
\* buffers: add_to_queue(), consume_from_queue() and the send conserve them.
THEOREM OneOwnerHolds == Spec => []OneOwner
  BY Invariance, PTL DEF IInv

\* The notification of a send is never lost, whatever the interleaving of
\* on_receive() with wait_buf_available(): only the polling timeout or a
\* failed read leaves rdma_cq_thread asleep with buffers out.
THEOREM NoLostWakeupHolds == Spec => []NoLostWakeup
  BY Invariance, PTL DEF IInv
=============================================================================
