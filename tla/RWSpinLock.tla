----------------------------- MODULE RWSpinLock -----------------------------
(***************************************************************************)
(* The spin lock of rwlock.hpp: one atomic word whose top bit means        *)
(* "exclusive" and whose other bits count the shared holders.  Every load, *)
(* store and compare-and-swap of the word is a step.  On the machine the   *)
(* project builds for (x86, xmmintrin.h) compare_exchange_weak does not    *)
(* fail spuriously.  A failed attempt changes nothing, so spinning and     *)
(* yield() are the steps an actor does not take.  An assertion that fails  *)
(* does not stop the model: it goes on like a build without assertions.    *)
(***************************************************************************)
EXTENDS Integers, FiniteSets

CONSTANTS
    Actors,      \* acquisitions of the lock: a thread, or one of its nested holds
    Excl,        \* the top bit of the word, 2^63 in the code
    HoldLimit,   \* the bound try_lock_shared asserts, 100 in the code
    MaxCalls     \* bound on the acquisitions of one actor

ASSUME LockAssumption ==
    /\ IsFiniteSet(Actors)
    /\ Excl \in Nat /\ Cardinality(Actors) < Excl
    /\ HoldLimit \in Nat /\ MaxCalls \in Nat

VARIABLES
    data,     \* the word
    pc,       \* where an actor is
    before,   \* the local variable of try_lock_shared
    calls     \* acquisitions an actor began

vars == <<data, pc, before, calls>>

\* pc of the actors that hold the lock in each mode.  An actor in "unlock" or
\* "unshare" has passed the assertion and not yet written the word.
ExclusivePCs == {"excl", "unlock"}
SharedPCs    == {"shared", "unshare"}

Exclusive == {a \in Actors : pc[a] \in ExclusivePCs}
Sharing   == {a \in Actors : pc[a] \in SharedPCs}

-----------------------------------------------------------------------------
Goto(a, label) == pc' = [pc EXCEPT ![a] = label]

CallLock(a) ==
    /\ pc[a] = "idle" /\ calls[a] < MaxCalls
    /\ \E label \in {"lock", "load"} : Goto(a, label)
    /\ calls' = [calls EXCEPT ![a] = @ + 1]
    /\ UNCHANGED <<data, before>>

\* tryLock() in lock(): the word must be 0.
TryLock(a) ==
    /\ pc[a] = "lock" /\ data = 0
    /\ data' = Excl
    /\ Goto(a, "excl")
    /\ UNCHANGED <<before, calls>>

\* Mutant: the exclusive bit is not masked out of the expected value.
Expected_Unmasked(word) == word

\* before & ~excl: an exclusively locked word makes the swap expect 0.
Expected(word) == word % Excl

LoadShared(a) ==
    /\ pc[a] = "load"
    /\ before' = [before EXCEPT ![a] = Expected(data)]
    /\ Goto(a, "cas")
    /\ UNCHANGED <<data, calls>>

\* The word is what was loaded: one more holder.
SwapShared(a) ==
    /\ pc[a] = "cas" /\ data = before[a]
    /\ data' = before[a] + 1
    /\ Goto(a, "shared")
    /\ UNCHANGED <<before, calls>>

\* It is not: lock_shared tries again.
SwapFails(a) ==
    /\ pc[a] = "cas" /\ data # before[a]
    /\ Goto(a, "load")
    /\ UNCHANGED <<data, before, calls>>

\* tryUpgrade(): a shared holder that is alone becomes exclusive.
TryUpgrade(a) ==
    /\ pc[a] = "shared" /\ data = 1
    /\ data' = Excl
    /\ Goto(a, "excl")
    /\ UNCHANGED <<before, calls>>

\* unlockExcl(): assert(data == excl), then the store.
CallUnlock(a) ==
    /\ pc[a] = "excl"
    /\ Goto(a, "unlock")
    /\ UNCHANGED <<data, before, calls>>

StoreZero(a) ==
    /\ pc[a] = "unlock"
    /\ data' = 0
    /\ Goto(a, "idle")
    /\ UNCHANGED <<before, calls>>

\* Mutant: the decrement is done inside the assertion already.
CallUnlockShared_SideEffect(a) ==
    /\ pc[a] = "shared"
    /\ data' = data - 1
    /\ Goto(a, "unshare")
    /\ UNCHANGED <<before, calls>>

\* unlock_shared(): assert(data), then the decrement.
CallUnlockShared(a) ==
    /\ pc[a] = "shared"
    /\ Goto(a, "unshare")
    /\ UNCHANGED <<data, before, calls>>

\* Mutant: the decrement is a load and a store of the value the actor read when
\* it took the lock.
Decrement_Stale(a) ==
    /\ pc[a] = "unshare"
    /\ data' = before[a]
    /\ Goto(a, "idle")
    /\ UNCHANGED <<before, calls>>

Decrement(a) ==
    /\ pc[a] = "unshare"
    /\ data' = data - 1
    /\ Goto(a, "idle")
    /\ UNCHANGED <<before, calls>>

-----------------------------------------------------------------------------
Init ==
    /\ data = 0
    /\ pc = [a \in Actors |-> "idle"]
    /\ before = [a \in Actors |-> 0]
    /\ calls = [a \in Actors |-> 0]

Acquire(a) == TryLock(a) \/ LoadShared(a) \/ SwapShared(a) \/ SwapFails(a)

Release(a) == CallUnlock(a) \/ StoreZero(a) \/ CallUnlockShared(a) \/ Decrement(a)

Next == \E a \in Actors : CallLock(a) \/ Acquire(a) \/ TryUpgrade(a) \/ Release(a)

Spec == Init /\ [][Next]_vars

\* A spinning thread is scheduled, and a holder releases: the store never waits
\* for anything but locks while it holds one.
FairSpec == Spec /\ \A a \in Actors : WF_vars(Acquire(a)) /\ WF_vars(Release(a))

-----------------------------------------------------------------------------
(* Properties *)

\* Types; above all the word, which is unsigned: no release takes it below 0.
TypeOK ==
    /\ data \in Nat
    /\ pc \in [Actors -> {"idle", "lock", "load", "cas"} \cup ExclusivePCs \cup SharedPCs]
    /\ before \in [Actors -> Nat]
    /\ calls \in [Actors -> Nat]

\* The word says who holds the lock: the exclusive bit alone while one actor is
\* exclusive, the number of shared holders otherwise.
WordCountsHolders ==
    data = IF Exclusive = {} THEN Cardinality(Sharing) ELSE Excl

\* An exclusive holder is alone, between its swap and its store of 0.
MutualExclusion ==
    /\ \A a, b \in Exclusive : a = b
    /\ Exclusive # {} => Sharing = {}

\* The assertions of rwlock.hpp: a holder finds the word exclusive, or not 0, when
\* it releases; and a load finds the limit reached only while that many acquisitions
\* really share the lock, never by a count that was lost, added twice or unmasked.
AssertionsHold ==
    /\ \A a \in Exclusive : data = Excl
    /\ \A a \in Sharing : data # 0
    /\ \A a \in Actors : pc[a] = "load" /\ Expected(data) >= HoldLimit =>
            Cardinality(Sharing) >= HoldLimit

\* The spin lock is a reader-writer lock: the swaps acquire, the store of 0 and
\* the decrement release, every other step changes nothing.
Abstract == INSTANCE RWLock WITH exclusive <- Exclusive, sharing <- Sharing
ImplementsRWLock == Abstract!Spec

\* Whoever asks for the lock gets it once the others stop asking: no count is
\* lost, so the word comes back to 0.  (With unbounded calls a writer may starve.)
LockIsGranted ==
    \A a \in Actors : pc[a] \in {"lock", "load", "cas"} ~> pc[a] \in ExclusivePCs \cup SharedPCs
=============================================================================
