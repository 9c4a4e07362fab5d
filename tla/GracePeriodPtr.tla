--------------------------- MODULE GracePeriodPtr ---------------------------
(***************************************************************************)
(* What the users of sync::DataplaneAtomicPtr rely on, in one atomic step  *)
(* per operation: a pointer that one hot-path thread uses inside critical  *)
(* sections, and whose replacement does not return to the writer before    *)
(* the critical section that was open at the time of the replacement is    *)
(* over.  Group::set_hotpath_outputs() deletes the replaced list, and the  *)
(* managers delete the unlinked connection, on the strength of exactly     *)
(* this promise.                                                           *)
(***************************************************************************)
CONSTANTS Ptrs,     \* the pointer values
          Writers   \* threads that call store_wait()

VARIABLES latest,   \* the last value stored
          inUse,    \* {} or the singleton of the value the hot path uses
          writing,  \* writers whose store_wait() has taken effect
          blocked   \* those of them that wait for the open critical section

vars == <<latest, inUse, writing, blocked>>

Init ==
    /\ latest \in Ptrs
    /\ inUse = {}
    /\ writing = {}
    /\ blocked = {}

\* The hot path enters its critical section with the last value stored.
Lock ==
    /\ inUse = {}
    /\ inUse' = {latest}
    /\ UNCHANGED <<latest, writing, blocked>>

\* The hot path leaves its critical section: nobody waits for it any more.
Unlock ==
    /\ inUse # {}
    /\ inUse' = {}
    /\ blocked' = {}
    /\ UNCHANGED <<latest, writing>>

\* A store takes effect.  One store at a time is under way.
Store(w, v) ==
    /\ writing = {}
    /\ latest' = v
    /\ writing' = {w}
    /\ blocked' = IF inUse = {} THEN {} ELSE {w}
    /\ UNCHANGED inUse

\* store_wait() returns.
Return(w) ==
    /\ w \in writing \ blocked
    /\ writing' = writing \ {w}
    /\ UNCHANGED <<latest, inUse, blocked>>

Next ==
    \/ Lock
    \/ Unlock
    \/ \E w \in Writers : (\E v \in Ptrs : Store(w, v)) \/ Return(w)

Spec == Init /\ [][Next]_vars
=============================================================================
