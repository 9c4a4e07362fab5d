--------------------- MODULE DataplaneAtomicPtr_proofs ---------------------
(***************************************************************************)
(* DataplaneAtomicPtr for every set of pointers and of writers: as long as *)
(* callers store pointers that are not live, the hot path never follows a  *)
(* retired pointer, load() returns the last value stored, and the class    *)
(* implements GracePeriodPtr.                                              *)
(*                                                                         *)
(* The argument rests on where the last value stored can be while a store  *)
(* is under way: flagged in "next", on its way in the hot path's local     *)
(* variable, or in "current".                                              *)
(***************************************************************************)
EXTENDS DataplaneAtomicPtr, TLAPS

\* unlock() installs a value only after it has found the flag.
TypeInv == TypeOK /\ (hpc = "unlocking" => HasNewValue(next_value))

\* Holding the mutex is being between the exchange and the return.
MutexInv ==
    /\ \A w \in Writers : w \in mx <=> wpc[w] \in {"waiting", "storing"}
    /\ \A v, w \in mx : v = w

\* The values of calls under way are all different, and not retired.
ValueInv ==
    /\ latest \notin retired
    /\ \A w \in mx : new_value[w] = latest /\ old[w] # latest /\ old[w] \notin retired
    /\ \A w \in Writers : wpc[w] = "entering" =>
          /\ new_value[w] # latest
          /\ new_value[w] \notin retired
          /\ \A x \in mx : new_value[w] # old[x]
          /\ \A x \in Writers : x # w /\ InFlight(x) => new_value[x] # new_value[w]

\* "next" is flagged with the last value only, and inside a section only
\* by the writer that waits for it.
NextInv ==
    /\ HasNewValue(next) => next = Flagged(latest)
    /\ InSection => next # STATE_UNLOCKED
    /\ ~InSection => next # STATE_LOCKED
    /\ \A w \in Writers : w \in blocked <=>
          wpc[w] = "waiting" /\ InSection /\ HasNewValue(next)
    /\ InSection /\ HasNewValue(next) => blocked # {}

\* Where the last value is.
PlaceInv ==
    /\ mx = {} => current = latest
    /\ hpc = "out" /\ next = STATE_UNLOCKED => current = latest
    /\ hpc = "unlocking" => /\ next = STATE_UNLOCKED
                            /\ next_value = Flagged(latest)
                            /\ \E w \in mx : wpc[w] = "waiting" /\ current = old[w]
    /\ \A w \in Writers : wpc[w] = "storing" =>
          \/ hpc = "out" /\ next = Flagged(latest)
          \/ hpc = "locking" /\ next_value = Flagged(latest)
          \/ current = latest
    /\ \A w \in Writers : wpc[w] = "waiting" =>
          \/ w \in blocked
          \/ hpc = "unlocking"
          \/ current = latest
    /\ \A w \in blocked : current = old[w]

\* What the hot path uses: the last value, or the one that the writer waiting
\* for the section has replaced.
UseInv ==
    /\ InSection /\ blocked = {} => Using = {latest}
    /\ \A w \in blocked : Using = {old[w]}

IInv == TypeInv /\ MutexInv /\ ValueInv /\ NextInv /\ PlaceInv /\ UseInv
-----------------------------------------------------------------------------
\* The encoding of sync.cc: the flag of a flagged pointer can be tested and
\* taken off, and the two lock states are not flagged pointers.
LEMMA Encoding ==
    /\ ~HasNewValue(STATE_UNLOCKED) /\ ~HasNewValue(STATE_LOCKED)
    /\ STATE_UNLOCKED # STATE_LOCKED
    /\ \A p \in Ptrs : /\ HasNewValue(Flagged(p))
                       /\ ValueOf(Flagged(p)) = p
                       /\ Flagged(p) # STATE_UNLOCKED
                       /\ Flagged(p) # STATE_LOCKED
<1>1. ~HasNewValue(STATE_UNLOCKED) /\ ~HasNewValue(STATE_LOCKED) /\ STATE_UNLOCKED # STATE_LOCKED
  BY DEF HasNewValue, STATE_UNLOCKED, STATE_LOCKED, FLAG_NEW_VALUE
<1>2. ASSUME NEW p \in Ptrs
      PROVE  /\ HasNewValue(Flagged(p))
             /\ ValueOf(Flagged(p)) = p
             /\ Flagged(p) # STATE_UNLOCKED
             /\ Flagged(p) # STATE_LOCKED
  <2>1. p \in Nat /\ p % 4 = 0
    BY PtrsAssumption
  <2>2. (p + 1) % 2 = 1
    BY <2>1
  <2> QED
    BY <2>1, <2>2 DEF HasNewValue, ValueOf, Flagged, STATE_UNLOCKED, STATE_LOCKED, FLAG_NEW_VALUE
<1> QED
  BY <1>1, <1>2

\* The constructor establishes the invariant.
LEMMA InitIInv == Init => IInv
<1> SUFFICES ASSUME Init PROVE IInv
  OBVIOUS
<1>1. TypeInv
  BY PtrsAssumption DEF Init, TypeInv, TypeOK
<1>2. MutexInv /\ ValueInv
  BY DEF Init, MutexInv, ValueInv, InFlight
<1>3. NextInv /\ PlaceInv /\ UseInv
  BY Encoding DEF Init, NextInv, PlaceInv, UseInv, InSection
<1> QED
  BY <1>1, <1>2, <1>3 DEF IInv

\* No step leaves the types.
LEMMA TypeStep == ASSUME TypeInv, [Next]_vars PROVE TypeInv'
<1> USE DEF TypeInv, TypeOK, shared, writer, hot, ghost
<1>1. ASSUME NEW w \in Writers, NEW v \in Ptrs, Call(w, v) PROVE TypeInv'
  BY <1>1 DEF Call
<1>2. ASSUME NEW w \in Writers, StoreWaitExchange(w) PROVE TypeInv'
  BY <1>2 DEF StoreWaitExchange
<1>3. ASSUME NEW w \in Writers, StoreWaitPoll(w) PROVE TypeInv'
  BY <1>3 DEF StoreWaitPoll, StoreWaitReturn
<1>4. ASSUME NEW w \in Writers, StoreWaitStore(w) PROVE TypeInv'
  BY <1>4 DEF StoreWaitStore, StoreWaitReturn
<1>5. ASSUME LoadNextLockExchange PROVE TypeInv'
  BY <1>5 DEF LoadNextLockExchange
<1>6. ASSUME LoadNextLockValue PROVE TypeInv'
  BY <1>6, Encoding DEF LoadNextLockValue
<1>7. ASSUME UnlockExchange PROVE TypeInv'
  BY <1>7 DEF UnlockExchange
<1>8. ASSUME UnlockStore PROVE TypeInv'
  BY <1>8, Encoding DEF UnlockStore
<1>9. CASE UNCHANGED vars
  BY <1>9 DEF vars
<1> QED
  BY <1>1, <1>2, <1>3, <1>4, <1>5, <1>6, <1>7, <1>8, <1>9 DEF Next, Hot, Writer

\* TypeOK is an invariant, whatever values callers store.
THEOREM TypeCorrect == Spec => []TypeOK
<1>1. Init => TypeInv
  BY PtrsAssumption DEF Init, TypeInv, TypeOK
<1>2. TypeInv /\ [Next]_vars => TypeInv'
  BY TypeStep
<1>3. TypeInv => TypeOK
  BY DEF TypeInv
<1> QED
  BY <1>1, <1>2, <1>3, PTL DEF Spec

\* Every step preserves the rest of the invariant, when callers store pointers
\* that are not live.
LEMMA IInvStep == ASSUME Distinct = TRUE, IInv, [Next]_vars PROVE IInv'
<1> TypeOK /\ TypeOK' /\ TypeInv'
  BY TypeStep DEF IInv, TypeInv
<1> USE Encoding DEF TypeOK, shared, writer, hot, ghost, InFlight, InSection
<1>1. ASSUME NEW w \in Writers, NEW v \in Ptrs, Call(w, v) PROVE IInv'
  <2>1. MutexInv'
    BY <1>1 DEF IInv, TypeInv, MutexInv, Call, Live
  <2>2. ValueInv'
    BY <1>1 DEF IInv, TypeInv, ValueInv, MutexInv, Call, Live
  <2>3. NextInv'
    BY <1>1 DEF IInv, TypeInv, NextInv, MutexInv, ValueInv, Call, Live
  <2>4. PlaceInv'
    BY <1>1 DEF IInv, TypeInv, PlaceInv, NextInv, MutexInv, ValueInv, Call, Live
  <2>5. UseInv'
    BY <1>1 DEF IInv, TypeInv, UseInv, PlaceInv, NextInv, MutexInv, ValueInv, Using, Call, Live
  <2> QED
    BY <2>1, <2>2, <2>3, <2>4, <2>5 DEF IInv
<1>2. ASSUME NEW w \in Writers, StoreWaitExchange(w) PROVE IInv'
  <2>1. MutexInv'
    BY <1>2 DEF IInv, TypeInv, MutexInv, StoreWaitExchange
  <2>2. ValueInv'
    BY <1>2 DEF IInv, TypeInv, ValueInv, MutexInv, StoreWaitExchange
  <2>3. NextInv'
    BY <1>2 DEF IInv, TypeInv, NextInv, MutexInv, ValueInv, StoreWaitExchange
  <2>4. PlaceInv'
    BY <1>2 DEF IInv, TypeInv, PlaceInv, NextInv, MutexInv, ValueInv, StoreWaitExchange
  <2>5. UseInv'
    BY <1>2 DEF IInv, TypeInv, UseInv, PlaceInv, NextInv, MutexInv, ValueInv, Using, StoreWaitExchange
  <2> QED
    BY <2>1, <2>2, <2>3, <2>4, <2>5 DEF IInv
<1>3. ASSUME NEW w \in Writers, StoreWaitPoll(w) PROVE IInv'
  <2>1. MutexInv'
    BY <1>3 DEF IInv, TypeInv, MutexInv, StoreWaitPoll, StoreWaitReturn
  <2>2. ValueInv'
    BY <1>3 DEF IInv, TypeInv, ValueInv, MutexInv, StoreWaitPoll, StoreWaitReturn
  <2>3. NextInv'
    BY <1>3 DEF IInv, TypeInv, NextInv, PlaceInv, MutexInv, ValueInv, StoreWaitPoll, StoreWaitReturn
  <2>4. PlaceInv'
    BY <1>3 DEF IInv, TypeInv, PlaceInv, NextInv, MutexInv, ValueInv, StoreWaitPoll, StoreWaitReturn
  <2>5. UseInv'
    BY <1>3 DEF IInv, TypeInv, UseInv, PlaceInv, NextInv, MutexInv, ValueInv, Using, StoreWaitPoll, StoreWaitReturn
  <2> QED
    BY <2>1, <2>2, <2>3, <2>4, <2>5 DEF IInv
<1>4. ASSUME NEW w \in Writers, StoreWaitStore(w) PROVE IInv'
  <2>1. MutexInv'
    BY <1>4 DEF IInv, TypeInv, MutexInv, StoreWaitStore, StoreWaitReturn
  <2>2. ValueInv'
    BY <1>4 DEF IInv, TypeInv, ValueInv, MutexInv, StoreWaitStore, StoreWaitReturn
  <2>3. NextInv'
    BY <1>4 DEF IInv, TypeInv, NextInv, MutexInv, ValueInv, StoreWaitStore, StoreWaitReturn
  <2>4. PlaceInv'
    BY <1>4 DEF IInv, TypeInv, PlaceInv, NextInv, MutexInv, ValueInv, StoreWaitStore, StoreWaitReturn
  <2>5. UseInv'
    BY <1>4 DEF IInv, TypeInv, UseInv, PlaceInv, NextInv, MutexInv, ValueInv, Using, StoreWaitStore, StoreWaitReturn
  <2> QED
    BY <2>1, <2>2, <2>3, <2>4, <2>5 DEF IInv
<1>5. ASSUME LoadNextLockExchange PROVE IInv'
  <2>1. MutexInv'
    BY <1>5 DEF IInv, TypeInv, MutexInv, LoadNextLockExchange
  <2>2. ValueInv'
    BY <1>5 DEF IInv, TypeInv, ValueInv, MutexInv, LoadNextLockExchange
  <2>3. NextInv'
    BY <1>5 DEF IInv, TypeInv, NextInv, MutexInv, ValueInv, LoadNextLockExchange
  <2>4. PlaceInv'
    BY <1>5 DEF IInv, TypeInv, PlaceInv, NextInv, MutexInv, ValueInv, LoadNextLockExchange
  <2>5. UseInv'
    BY <1>5 DEF IInv, TypeInv, UseInv, PlaceInv, NextInv, MutexInv, ValueInv, Using, LoadNextLockExchange
  <2> QED
    BY <2>1, <2>2, <2>3, <2>4, <2>5 DEF IInv
<1>6. ASSUME LoadNextLockValue PROVE IInv'
  <2>1. MutexInv'
    BY <1>6 DEF IInv, TypeInv, MutexInv, LoadNextLockValue
  <2>2. ValueInv'
    BY <1>6 DEF IInv, TypeInv, ValueInv, MutexInv, LoadNextLockValue
  <2>3. NextInv'
    BY <1>6 DEF IInv, TypeInv, NextInv, MutexInv, ValueInv, LoadNextLockValue
  <2>4. PlaceInv'
    BY <1>6 DEF IInv, TypeInv, PlaceInv, UseInv, Using, NextInv, MutexInv, ValueInv, LoadNextLockValue
  <2>5. UseInv'
    BY <1>6 DEF IInv, TypeInv, UseInv, PlaceInv, NextInv, MutexInv, ValueInv, Using, LoadNextLockValue
  <2> QED
    BY <2>1, <2>2, <2>3, <2>4, <2>5 DEF IInv
<1>7. ASSUME UnlockExchange PROVE IInv'
  <2>1. MutexInv'
    BY <1>7 DEF IInv, TypeInv, MutexInv, UnlockExchange
  <2>2. ValueInv'
    BY <1>7 DEF IInv, TypeInv, ValueInv, MutexInv, UnlockExchange
  <2>3. NextInv'
    BY <1>7 DEF IInv, TypeInv, NextInv, MutexInv, ValueInv, UnlockExchange
  <2>4. PlaceInv'
    BY <1>7 DEF IInv, TypeInv, PlaceInv, NextInv, MutexInv, ValueInv, UnlockExchange
  <2>5. UseInv'
    BY <1>7 DEF IInv, TypeInv, UseInv, PlaceInv, NextInv, MutexInv, ValueInv, Using, UnlockExchange
  <2> QED
    BY <2>1, <2>2, <2>3, <2>4, <2>5 DEF IInv
<1>8. ASSUME UnlockStore PROVE IInv'
  <2>1. MutexInv'
    BY <1>8 DEF IInv, TypeInv, MutexInv, UnlockStore
  <2>2. ValueInv'
    BY <1>8 DEF IInv, TypeInv, ValueInv, MutexInv, UnlockStore
  <2>3. NextInv'
    BY <1>8 DEF IInv, TypeInv, NextInv, MutexInv, ValueInv, UnlockStore
  <2>4. PlaceInv'
    BY <1>8 DEF IInv, TypeInv, PlaceInv, NextInv, MutexInv, ValueInv, UnlockStore
  <2>5. UseInv'
    BY <1>8 DEF IInv, TypeInv, UseInv, PlaceInv, NextInv, MutexInv, ValueInv, Using, UnlockStore
  <2> QED
    BY <2>1, <2>2, <2>3, <2>4, <2>5 DEF IInv
<1>9. CASE UNCHANGED vars
  BY <1>9 DEF vars, IInv, MutexInv, ValueInv, NextInv, PlaceInv, UseInv, Using
<1> QED
  BY <1>1, <1>2, <1>3, <1>4, <1>5, <1>6, <1>7, <1>8, <1>9 DEF Next, Hot, Writer

LEMMA Invariance == ASSUME Distinct = TRUE PROVE Spec => []IInv
<1>1. IInv /\ [Next]_vars => IInv'
  BY IInvStep
<1> QED
  BY <1>1, InitIInv, PTL DEF Spec

\* The hot path never follows a pointer that a completed store_wait() has
\* replaced (set_hotpath_outputs() deletes it right after the call).
THEOREM NoStaleUseHolds == ASSUME Distinct = TRUE PROVE Spec => []NoStaleUse
<1>1. IInv => NoStaleUse
  <2> SUFFICES ASSUME IInv PROVE Using \cap retired = {}
    BY DEF NoStaleUse
  <2> USE DEF IInv, TypeInv, TypeOK
  <2>1. CASE ~InSection
    BY <2>1 DEF InSection, Using
  <2>2. CASE InSection /\ blocked = {}
    BY <2>2 DEF UseInv, ValueInv
  <2>3. CASE blocked # {}
    BY <2>3 DEF UseInv, ValueInv, NextInv, MutexInv
  <2> QED
    BY <2>1, <2>2, <2>3
<1> QED
  BY <1>1, Invariance, PTL

\* Between stores, load() returns the last value stored.
THEOREM LoadReturnsLatestHolds ==
    ASSUME Distinct = TRUE PROVE Spec => []LoadReturnsLatest
<1>1. IInv => LoadReturnsLatest
  BY DEF IInv, PlaceInv, LoadReturnsLatest
<1> QED
  BY <1>1, Invariance, PTL

\* store_wait() does not return while the critical section that it found open
\* is still open.
THEOREM StoreWaitBlocksHolds ==
    ASSUME Distinct = TRUE PROVE Spec => StoreWaitBlocks
<1>1. ASSUME IInv, [Next]_vars, NEW w \in Writers, w \in mx, mx' = {}
      PROVE  w \notin blocked
  <2> USE DEF IInv, TypeInv, TypeOK, MutexInv
  <2>1. PICK x \in Writers : StoreWaitPoll(x) \/ StoreWaitStore(x)
    BY <1>1 DEF Next, Hot, Writer, vars, writer, LoadNextLockExchange, LoadNextLockValue,
                UnlockExchange, UnlockStore, Call, StoreWaitExchange
  <2>2. x = w
    BY <1>1, <2>1 DEF StoreWaitPoll, StoreWaitStore
  <2>3. CASE StoreWaitPoll(w)
    BY <1>1, <2>3 DEF StoreWaitPoll, PlaceInv, ValueInv
  <2>4. CASE StoreWaitStore(w)
    BY <1>1, <2>4 DEF StoreWaitStore, NextInv
  <2> QED
    BY <2>1, <2>2, <2>3, <2>4
<1>2. IInv /\ [Next]_vars =>
        [\A w \in Writers : w \in mx /\ mx' = {} => w \notin blocked]_vars
  BY <1>1
<1> QED
  BY <1>2, Invariance, PTL DEF Spec, StoreWaitBlocks

\* DataplaneAtomicPtr implements GracePeriodPtr: the exchange of
\* load_next_lock() is its Lock, the one of unlock() its Unlock, the one of
\* store_wait() its Store.
THEOREM Refinement == ASSUME Distinct = TRUE PROVE Spec => ImplementsGracePeriod
<1>1. Init => GP!Init
  BY PtrsAssumption, SMTT(30) DEF Init, GP!Init, Using
<1>2. ASSUME IInv, IInv', [Next]_vars PROVE [GP!Next]_(GP!vars)
  <2> USE <1>2, Encoding DEF IInv, TypeInv, TypeOK, InSection, shared, writer, hot, ghost
  <2>1. ASSUME NEW w \in Writers, NEW v \in Ptrs, Call(w, v) PROVE UNCHANGED GP!vars
    BY <2>1 DEF Call, GP!vars, Using
  <2>2. ASSUME NEW w \in Writers, StoreWaitExchange(w) PROVE GP!Store(w, new_value[w])
    <3>1. blocked = {} /\ (InSection <=> Using # {}) /\ Using' = Using
      BY <2>2 DEF StoreWaitExchange, NextInv, MutexInv, Using
    <3> QED
      BY <2>2, <3>1 DEF StoreWaitExchange, GP!Store
  <2>3. ASSUME NEW w \in Writers, StoreWaitPoll(w) PROVE GP!Return(w)
    <3>1. w \in mx \ blocked /\ mx \ {w} = {}
      BY <2>3 DEF StoreWaitPoll, MutexInv, PlaceInv, ValueInv
    <3>2. Using' = Using
      BY <2>3, SMTT(30) DEF StoreWaitPoll, Using
    <3> QED
      BY <2>3, <3>1, <3>2, SMTT(30) DEF StoreWaitPoll, StoreWaitReturn, GP!Return
  <2>4. ASSUME NEW w \in Writers, StoreWaitStore(w) PROVE GP!Return(w)
    <3>1. w \in mx \ blocked /\ mx \ {w} = {}
      BY <2>4 DEF StoreWaitStore, MutexInv, NextInv
    <3>2. Using' = Using
      BY <2>4 DEF StoreWaitStore, Using, UseInv, NextInv, PlaceInv, MutexInv, ValueInv
    <3> QED
      BY <2>4, <3>1, <3>2 DEF StoreWaitStore, StoreWaitReturn, GP!Return
  <2>5. ASSUME LoadNextLockExchange PROVE GP!Lock
    <3>1. Using = {} /\ Using' = {latest}
      BY <2>5 DEF LoadNextLockExchange, Using, NextInv, PlaceInv
    <3> QED
      BY <2>5, <3>1 DEF LoadNextLockExchange, GP!Lock
  <2>6. ASSUME LoadNextLockValue PROVE UNCHANGED GP!vars
    BY <2>6 DEF LoadNextLockValue, GP!vars, Using
  <2>7. ASSUME UnlockExchange PROVE GP!Unlock
    BY <2>7 DEF UnlockExchange, GP!Unlock, Using
  <2>8. ASSUME UnlockStore PROVE UNCHANGED GP!vars
    BY <2>8 DEF UnlockStore, GP!vars, Using
  <2>9. CASE UNCHANGED vars
    BY <2>9 DEF vars, GP!vars, Using
  <2> QED
    BY <2>1, <2>2, <2>3, <2>4, <2>5, <2>6, <2>7, <2>8, <2>9 DEF Next, Hot, Writer, GP!Next
<1> QED
  BY <1>1, <1>2, Invariance, PTL DEF Spec, ImplementsGracePeriod, GP!Spec
=============================================================================
