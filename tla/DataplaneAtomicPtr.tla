------------------------- MODULE DataplaneAtomicPtr -------------------------
(***************************************************************************)
(* sync::DataplaneAtomicPtr, media-proxy/src/mesh/sync.cc: the lock-free   *)
(* pointer between the control threads, which replace a link or a list of  *)
(* outputs, and the one hot-path thread, which follows it for every frame. *)
(*                                                                         *)
(* The module keeps the encoding of the code: "next" is an integer whose   *)
(* bit 0 is FLAG_NEW_VALUE, STATE_UNLOCKED is 0 and STATE_LOCKED is 2, and *)
(* pointers are integers whose two low bits are clear.  Each access to an  *)
(* atomic variable is a step.                                              *)
(***************************************************************************)
EXTENDS Integers

CONSTANTS Ptrs,      \* pointer values, the null pointer 0 included
          Writers,   \* threads that call store_wait()
          Distinct   \* TRUE: callers store a pointer that is not live, as
                     \* set_link() and set_hotpath_outputs() do

ASSUME PtrsAssumption ==
    /\ Ptrs \subseteq Nat
    /\ 0 \in Ptrs
    /\ \A p \in Ptrs : p % 4 = 0

ASSUME DistinctAssumption == Distinct \in BOOLEAN

STATE_UNLOCKED == 0
STATE_LOCKED   == 2
FLAG_NEW_VALUE == 1

\* Mutant: the flag is left in the pointer.
ValueOfKeepsFlag(x) == x

\* x & FLAG_NEW_VALUE, x & ~FLAG_NEW_VALUE and ptr | FLAG_NEW_VALUE, the last
\* one on a pointer, whose bit 0 is clear.
HasNewValue(x) == x % 2 = FLAG_NEW_VALUE
ValueOf(x)     == x - (x % 2)
Flagged(ptr)   == ptr + FLAG_NEW_VALUE

VARIABLES
    current,     \* the atomic "current"
    next,        \* the atomic "next"
    mx,          \* the writers that hold the mutex: {} or a singleton
    wpc,         \* wpc[w]: where writer w is in store_wait()
    new_value,   \* new_value[w]: the argument of w's store_wait()
    hpc,         \* where the hot-path thread is
    next_value,  \* the hot path's local: what its last exchange returned
    held,        \* the pointer load_next_lock() returned
    \* History variables: they record, and constrain nothing.
    latest,      \* the last value exchanged into "next" by a writer
    old,         \* old[w]: the value that w's store replaces
    blocked,     \* writers whose exchange met a critical section still open
    retired      \* replaced values whose store_wait() has returned

shared == <<current, next>>
writer == <<mx, wpc, new_value>>
hot    == <<hpc, next_value, held>>
ghost  == <<latest, old, blocked, retired>>
vars   == <<current, next, mx, wpc, new_value, hpc, next_value, held,
            latest, old, blocked, retired>>

InSection == hpc \in {"locking", "in"}
InFlight(w) == wpc[w] # "idle"

\* The values the program still refers to: a pointer given to store_wait()
\* is newly allocated or was checked to differ from the current one.
Live == {latest, current}
            \cup {new_value[w] : w \in {x \in Writers : InFlight(x)}}
            \cup {old[w] : w \in {x \in Writers : InFlight(x)}}

Init ==
    /\ current = 0 /\ next = STATE_UNLOCKED
    /\ mx = {} /\ wpc = [w \in Writers |-> "idle"]
    /\ new_value = [w \in Writers |-> 0]
    /\ hpc = "out" /\ next_value = STATE_UNLOCKED /\ held = 0
    /\ latest = 0 /\ old = [w \in Writers |-> 0]
    /\ blocked = {} /\ retired = {}
-----------------------------------------------------------------------------
\* A thread calls store_wait(v).
Call(w, v) ==
    /\ wpc[w] = "idle"
    /\ Distinct => v \notin Live
    /\ wpc' = [wpc EXCEPT ![w] = "entering"]
    /\ new_value' = [new_value EXCEPT ![w] = v]
    /\ old' = [old EXCEPT ![w] = v]
    /\ retired' = retired \ {v}
    /\ UNCHANGED <<shared, mx, hot, latest, blocked>>

\* Mutant: a writer that finds the pointer locked does not wait.
StoreWaitExchangeNoWait(w) ==
    /\ wpc[w] = "entering"
    /\ mx = {}
    /\ mx' = {w}
    /\ next' = Flagged(new_value[w])
    /\ wpc' = [wpc EXCEPT ![w] = "storing"]
    /\ old' = [old EXCEPT ![w] = latest]
    /\ latest' = new_value[w]
    /\ blocked' = IF InSection THEN blocked \cup {w} ELSE blocked
    /\ UNCHANGED <<current, new_value, hot, retired>>

\* Takes the mutex and exchanges the flagged value into "next".
StoreWaitExchange(w) ==
    /\ wpc[w] = "entering"
    /\ mx = {}
    /\ mx' = {w}
    /\ next' = Flagged(new_value[w])
    /\ wpc' = [wpc EXCEPT ![w] = IF next = STATE_LOCKED THEN "waiting" ELSE "storing"]
    /\ old' = [old EXCEPT ![w] = latest]
    /\ latest' = new_value[w]
    /\ blocked' = IF InSection THEN blocked \cup {w} ELSE blocked
    /\ UNCHANGED <<current, new_value, hot, retired>>

\* Returning releases the mutex; the caller may now free what it replaced.
StoreWaitReturn(w) ==
    /\ mx' = {}
    /\ wpc' = [wpc EXCEPT ![w] = "idle"]
    /\ retired' = (retired \cup {old[w]}) \ {0}

\* Mutant: one sleep, no loop.
StoreWaitPollOnce(w) ==
    /\ wpc[w] = "waiting"
    /\ StoreWaitReturn(w)
    /\ UNCHANGED <<shared, new_value, hot, latest, old, blocked>>

\* One turn of the polling loop that finds the new value in place.
StoreWaitPoll(w) ==
    /\ wpc[w] = "waiting"
    /\ current = new_value[w]
    /\ StoreWaitReturn(w)
    /\ UNCHANGED <<shared, new_value, hot, latest, old, blocked>>

\* The hot path was not inside: the writer stores "current" itself.
StoreWaitStore(w) ==
    /\ wpc[w] = "storing"
    /\ current' = new_value[w]
    /\ StoreWaitReturn(w)
    /\ UNCHANGED <<next, new_value, hot, latest, old, blocked>>
-----------------------------------------------------------------------------
\* Mutant: the hot path takes the new value but does not leave STATE_LOCKED.
LoadNextLockExchangeNoLock ==
    /\ hpc = "out"
    /\ next_value' = next
    /\ next' = STATE_UNLOCKED
    /\ hpc' = "locking"
    /\ UNCHANGED <<current, writer, held, ghost>>

\* load_next_lock(): the exchange that opens the critical section.
LoadNextLockExchange ==
    /\ hpc = "out"
    /\ next_value' = next
    /\ next' = STATE_LOCKED
    /\ hpc' = "locking"
    /\ UNCHANGED <<current, writer, held, ghost>>

\* load_next_lock(): installs the value found in "next", or reads "current".
LoadNextLockValue ==
    /\ hpc = "locking"
    /\ held' = IF HasNewValue(next_value) THEN ValueOf(next_value) ELSE current
    /\ current' = IF HasNewValue(next_value) THEN ValueOf(next_value) ELSE current
    /\ hpc' = "in"
    /\ UNCHANGED <<next, writer, next_value, ghost>>

\* Mutant: unlock() drops the value that a writer left in "next".
UnlockExchangeDrops ==
    /\ hpc = "in"
    /\ next_value' = next
    /\ next' = STATE_UNLOCKED
    /\ hpc' = "out"
    /\ blocked' = {}
    /\ UNCHANGED <<current, writer, held, latest, old, retired>>

\* unlock(): the exchange that closes the critical section.
UnlockExchange ==
    /\ hpc = "in"
    /\ next_value' = next
    /\ next' = STATE_UNLOCKED
    /\ hpc' = IF HasNewValue(next) THEN "unlocking" ELSE "out"
    /\ blocked' = {}
    /\ UNCHANGED <<current, writer, held, latest, old, retired>>

\* unlock(): installs the value that a writer left in the meantime.
UnlockStore ==
    /\ hpc = "unlocking"
    /\ current' = ValueOf(next_value)
    /\ hpc' = "out"
    /\ UNCHANGED <<next, writer, next_value, held, ghost>>
-----------------------------------------------------------------------------
Hot == \/ LoadNextLockExchange
       \/ LoadNextLockValue
       \/ UnlockExchange
       \/ UnlockStore

Writer(w) == \/ \E v \in Ptrs : Call(w, v)
             \/ StoreWaitExchange(w)
             \/ StoreWaitPoll(w)
             \/ StoreWaitStore(w)

Next == Hot \/ \E w \in Writers : Writer(w)

Spec == Init /\ [][Next]_vars

\* A critical section that began ends, and a thread that holds the mutex keeps
\* running.  The hot path need not start another section, and nothing is said
\* about who gets the mutex.
Fairness ==
    /\ WF_vars(LoadNextLockValue \/ UnlockExchange \/ UnlockStore)
    /\ \A w \in Writers : WF_vars(StoreWaitPoll(w) \/ StoreWaitStore(w))

FairSpec == Spec /\ Fairness
-----------------------------------------------------------------------------
\* Every variable holds a value the code can give it.
TypeOK ==
    /\ current \in Ptrs
    /\ next \in {STATE_UNLOCKED, STATE_LOCKED} \cup {Flagged(p) : p \in Ptrs}
    /\ mx \in SUBSET Writers
    /\ wpc \in [Writers -> {"idle", "entering", "waiting", "storing"}]
    /\ new_value \in [Writers -> Ptrs]
    /\ hpc \in {"out", "locking", "in", "unlocking"}
    /\ next_value \in {STATE_UNLOCKED, STATE_LOCKED} \cup {Flagged(p) : p \in Ptrs}
    /\ held \in Ptrs
    /\ latest \in Ptrs
    /\ old \in [Writers -> Ptrs]
    /\ blocked \in SUBSET Writers
    /\ retired \in SUBSET Ptrs

\* What load_next_lock() has returned, or is about to return.
Using ==
    CASE hpc = "in"      -> {held}
      [] hpc = "locking" -> {IF HasNewValue(next_value)
                             THEN ValueOf(next_value) ELSE current}
      [] OTHER           -> {}

\* The hot path never follows a pointer that a completed store_wait() has
\* replaced, and that its caller may therefore have deleted
\* (Group::set_hotpath_outputs deletes it on the next line).
NoStaleUse == Using \cap retired = {}

\* With no store under way, load() returns the last value stored: a late
\* "current.store" of the hot path never brings an older pointer back.
LoadReturnsLatest == mx = {} => current = latest

\* store_wait() "blocks infinitely until the hotpath unlocks the write
\* access" (sync.h): it never returns while the critical section that was open
\* when it exchanged "next" is still open.
StoreWaitBlocks ==
    [][\A w \in Writers : w \in mx /\ mx' = {} => w \notin blocked]_vars

\* A store_wait() that has the mutex returns once the hot path has left its
\* critical section.
StoreWaitReturns ==
    \A w \in Writers : (w \in mx) ~> (w \notin mx)

\* The pointer implements the grace-period pointer: every load_next_lock()
\* returns the last value stored at the time of its exchange, and a store
\* returns only after the critical section it found open.
GP == INSTANCE GracePeriodPtr
          WITH inUse <- Using, writing <- mx

ImplementsGracePeriod == GP!Spec
=============================================================================
