-------------------------- MODULE VertexEntryProofs --------------------------
(***************************************************************************)
(* Proofs about a vertex of the vector containers: its lock and the edges  *)
(* that are kept under it.                                                 *)
(*                                                                         *)
(*  - The spin lock is correct for every finite set of actors and every    *)
(*    limit, as long as a count of the actors does not reach the exclusive *)
(*    bit (LockAssumption).                                                *)
(*  - The sorted vector, the skip list and the log block find, scan and    *)
(*    count what was inserted, for every size of a vector or a block,      *)
(*    every number of levels, all heights that are drawn, and all          *)
(*    insertions.  IndexInv says that the structure in use holds the       *)
(*    version chains that were inserted and no others (VectorHolds,        *)
(*    ListHolds, LogHolds) and that its answers "new" add up (Counted).    *)
(*    Of the array it says nothing: that one is only model-checked.        *)
(***************************************************************************)
EXTENDS RWSpinLock, EdgeIndexes, VersionChainProofs, FiniteSetTheorems

-----------------------------------------------------------------------------
(* Facts about the word and the holders *)

\* Shared holders are counted below the exclusive bit.
LEMMA HoldersAreFew ==
    /\ IsFiniteSet(Sharing)
    /\ Cardinality(Sharing) \in Nat
    /\ Cardinality(Sharing) < Excl
<1>1. Sharing \in SUBSET Actors
  BY DEF Sharing
<1>2. /\ IsFiniteSet(Sharing)
      /\ Cardinality(Sharing) <= Cardinality(Actors)
  BY <1>1, FS_Subset, LockAssumption DEF LockAssumption
<1>3. Cardinality(Sharing) \in Nat /\ Cardinality(Actors) \in Nat
  BY <1>2, FS_CardinalityType, LockAssumption DEF LockAssumption
<1> QED
  BY <1>2, <1>3, LockAssumption DEF LockAssumption

\* Masking the exclusive bit leaves a count alone and makes the bit 0.
LEMMA ExpectedIsACount ==
    ASSUME NEW word \in Nat, word < Excl \/ word = Excl
    PROVE  /\ Expected(word) \in Nat /\ Expected(word) < Excl
           /\ Expected(word) = IF word < Excl THEN word ELSE 0
<1>1. Excl \in Nat /\ 0 < Excl
  BY HoldersAreFew, LockAssumption DEF LockAssumption
<1>2. CASE word < Excl
  <2>1. word % Excl = word
    BY <1>1, <1>2
  <2> QED
    BY <2>1, <1>2 DEF Expected
<1>3. CASE word = Excl
  <2>1. Excl % Excl = 0
    BY <1>1
  <2> QED
    BY <2>1, <1>1, <1>3 DEF Expected
<1> QED
  BY <1>2, <1>3

\* A step of one actor that keeps it out of both modes, or in the same one,
\* changes no holder.
LEMMA SameHolders ==
    ASSUME TypeOK, NEW a \in Actors, NEW label, Goto(a, label),
           pc[a] \in ExclusivePCs <=> label \in ExclusivePCs,
           pc[a] \in SharedPCs <=> label \in SharedPCs
    PROVE  Exclusive' = Exclusive /\ Sharing' = Sharing
<1>1. \A b \in Actors : pc'[b] = IF b = a THEN label ELSE pc[b]
  BY DEF TypeOK, Goto
<1> QED
  BY <1>1 DEF Exclusive, Sharing

\* An actor that enters or leaves a mode changes the holders of that mode.
LEMMA HoldersAfter ==
    ASSUME TypeOK, NEW a \in Actors, NEW label, Goto(a, label)
    PROVE  /\ Exclusive' = IF label \in ExclusivePCs THEN Exclusive \cup {a}
                                                     ELSE Exclusive \ {a}
           /\ Sharing' = IF label \in SharedPCs THEN Sharing \cup {a}
                                                ELSE Sharing \ {a}
<1>1. \A b \in Actors : pc'[b] = IF b = a THEN label ELSE pc[b]
  BY DEF TypeOK, Goto
<1> QED
  BY <1>1 DEF Exclusive, Sharing

-----------------------------------------------------------------------------
(* The inductive invariant *)

\* What a swap expects is a count, never the word of an exclusive holder.
ExpectsCounts == \A a \in Actors : pc[a] = "cas" => before[a] < Excl

\* None of the parts is inductive alone: the release steps and the swaps need the
\* count, the count needs the exclusion, and this what the swaps expect.
LockInv == TypeOK /\ WordCountsHolders /\ MutualExclusion /\ ExpectsCounts

\* A free lock: the word is 0 exactly when nobody holds it.
LEMMA FreeWord ==
    ASSUME LockInv, data = 0
    PROVE  Exclusive = {} /\ Sharing = {}
<1>1. Excl # 0
  BY HoldersAreFew, LockAssumption DEF LockAssumption
<1>2. Exclusive = {}
  BY <1>1 DEF LockInv, WordCountsHolders
<1>3. Cardinality(Sharing) = 0
  BY <1>2 DEF LockInv, WordCountsHolders
<1> QED
  BY <1>2, <1>3, HoldersAreFew, FS_EmptySet

\* A lone shared holder finds the word 1.
LEMMA LoneHolder ==
    ASSUME LockInv, NEW a \in Sharing, data = 1
    PROVE  Exclusive = {} /\ Sharing = {a}
<1>1. Exclusive = {}
  BY DEF LockInv, MutualExclusion
<1>2. Cardinality(Sharing) = 1
  BY <1>1 DEF LockInv, WordCountsHolders
<1> QED
  BY <1>1, <1>2, HoldersAreFew, FS_Singleton

\* A swap that succeeds: the word was a count, so nobody was exclusive.
LEMMA CountWord ==
    ASSUME LockInv, NEW a \in Actors, pc[a] = "cas", data = before[a]
    PROVE  Exclusive = {} /\ data = Cardinality(Sharing)
<1>1. before[a] < Excl
  BY DEF LockInv, ExpectsCounts
<1>2. data # Excl
  BY <1>1, LockAssumption DEF LockAssumption, LockInv, TypeOK
<1> QED
  BY <1>2 DEF LockInv, WordCountsHolders

\* A new lock is free and its word 0.
LEMMA LockInvInit == Init => LockInv
<1> SUFFICES ASSUME Init PROVE LockInv
  OBVIOUS
<1>1. Exclusive = {} /\ Sharing = {}
  BY DEF Init, Exclusive, Sharing, ExclusivePCs, SharedPCs
<1>2. TypeOK
  BY DEF Init, TypeOK, ExclusivePCs, SharedPCs
<1>3. WordCountsHolders
  BY <1>1, FS_EmptySet DEF Init, WordCountsHolders
<1>4. MutualExclusion /\ ExpectsCounts
  BY <1>1 DEF Init, MutualExclusion, ExpectsCounts
<1> QED
  BY <1>2, <1>3, <1>4 DEF LockInv

\* The parts of the invariant that speak of one actor's variables survive a step
\* that leaves `data` alone and no holder behind or ahead of its word.
LEMMA QuietStep ==
    ASSUME LockInv, TypeOK', UNCHANGED data,
           Exclusive' = Exclusive, Sharing' = Sharing,
           ExpectsCounts'
    PROVE  LockInv'
<1>1. WordCountsHolders'
  BY DEF LockInv, WordCountsHolders
<1>2. MutualExclusion'
  BY DEF LockInv, MutualExclusion
<1> QED
  BY <1>1, <1>2 DEF LockInv

\* A step that writes the word keeps the invariant when the word counts the new
\* holders and `before` stays.
LEMMA WordStep ==
    ASSUME LockInv, TypeOK', UNCHANGED before,
           WordCountsHolders', MutualExclusion',
           \A a \in Actors : pc'[a] = "cas" => pc[a] = "cas"
    PROVE  LockInv'
BY DEF LockInv, ExpectsCounts

\* Every load, swap, store and decrement keeps the lock invariant.
LEMMA LockInvStep == LockInv /\ [Next]_vars => LockInv'
<1> SUFFICES ASSUME LockInv, [Next]_vars PROVE LockInv'
  OBVIOUS
<1> USE DEF ExclusivePCs, SharedPCs
<1>0. TypeOK /\ Excl \in Nat
  BY LockAssumption DEF LockInv, LockAssumption
<1>1. ASSUME NEW a \in Actors, CallLock(a) PROVE LockInv'
  <2>1. PICK label \in {"lock", "load"} : Goto(a, label)
    BY <1>1 DEF CallLock
  <2>2. TypeOK'
    BY <1>0, <1>1, <2>1 DEF CallLock, Goto, TypeOK
  <2>3. Exclusive' = Exclusive /\ Sharing' = Sharing
    BY <1>0, <1>1, <2>1, SameHolders DEF CallLock
  <2>4. ExpectsCounts'
    BY <1>0, <1>1, <2>1 DEF CallLock, Goto, TypeOK, LockInv, ExpectsCounts
  <2> QED
    BY <1>1, <2>2, <2>3, <2>4, QuietStep DEF CallLock
<1>2. ASSUME NEW a \in Actors, TryLock(a) PROVE LockInv'
  <2>1. TypeOK'
    BY <1>0, <1>2 DEF TryLock, Goto, TypeOK
  <2>2. Exclusive = {} /\ Sharing = {}
    BY <1>2, FreeWord DEF TryLock
  <2>3. Exclusive' = {a} /\ Sharing' = {}
    BY <1>0, <1>2, <2>2, HoldersAfter DEF TryLock
  <2>4. WordCountsHolders' /\ MutualExclusion'
    BY <1>2, <2>3 DEF TryLock, WordCountsHolders, MutualExclusion
  <2> QED
    BY <1>0, <1>2, <2>1, <2>4, WordStep DEF TryLock, Goto, TypeOK
<1>3. ASSUME NEW a \in Actors, LoadShared(a) PROVE LockInv'
  <2>1. data < Excl \/ data = Excl
    BY HoldersAreFew DEF LockInv, WordCountsHolders
  <2>2. Expected(data) \in Nat /\ Expected(data) < Excl
    BY <1>0, <2>1, ExpectedIsACount DEF TypeOK
  <2>3. TypeOK'
    BY <1>0, <1>3, <2>2 DEF LoadShared, Goto, TypeOK
  <2>4. Exclusive' = Exclusive /\ Sharing' = Sharing
    BY <1>0, <1>3, SameHolders DEF LoadShared
  <2>5. ExpectsCounts'
    BY <1>0, <1>3, <2>2 DEF LoadShared, Goto, TypeOK, LockInv, ExpectsCounts
  <2> QED
    BY <1>3, <2>3, <2>4, <2>5, QuietStep DEF LoadShared
<1>4. ASSUME NEW a \in Actors, SwapShared(a) PROVE LockInv'
  <2>1. TypeOK'
    BY <1>0, <1>4 DEF SwapShared, Goto, TypeOK
  <2>2. Exclusive = {} /\ data = Cardinality(Sharing)
    BY <1>4, CountWord DEF SwapShared
  <2>3. Exclusive' = {} /\ Sharing' = Sharing \cup {a}
    BY <1>0, <1>4, <2>2, HoldersAfter DEF SwapShared
  <2>4. a \notin Sharing
    BY <1>4 DEF SwapShared, Sharing
  <2>5. Cardinality(Sharing \cup {a}) = data + 1
    BY <2>2, <2>4, HoldersAreFew, FS_AddElement
  <2>6. WordCountsHolders' /\ MutualExclusion'
    BY <1>4, <2>3, <2>5 DEF SwapShared, WordCountsHolders, MutualExclusion
  <2> QED
    BY <1>0, <1>4, <2>1, <2>6, WordStep DEF SwapShared, Goto, TypeOK
<1>5. ASSUME NEW a \in Actors, SwapFails(a) PROVE LockInv'
  <2>1. TypeOK'
    BY <1>0, <1>5 DEF SwapFails, Goto, TypeOK
  <2>2. Exclusive' = Exclusive /\ Sharing' = Sharing
    BY <1>0, <1>5, SameHolders DEF SwapFails
  <2>3. ExpectsCounts'
    BY <1>0, <1>5 DEF SwapFails, Goto, TypeOK, LockInv, ExpectsCounts
  <2> QED
    BY <1>5, <2>1, <2>2, <2>3, QuietStep DEF SwapFails
<1>6. ASSUME NEW a \in Actors, TryUpgrade(a) PROVE LockInv'
  <2>1. TypeOK'
    BY <1>0, <1>6 DEF TryUpgrade, Goto, TypeOK
  <2>2. Exclusive = {} /\ Sharing = {a}
    BY <1>6, LoneHolder DEF TryUpgrade, Sharing
  <2>3. Exclusive' = {a} /\ Sharing' = {}
    BY <1>0, <1>6, <2>2, HoldersAfter DEF TryUpgrade
  <2>4. WordCountsHolders' /\ MutualExclusion'
    BY <1>6, <2>3 DEF TryUpgrade, WordCountsHolders, MutualExclusion
  <2> QED
    BY <1>0, <1>6, <2>1, <2>4, WordStep DEF TryUpgrade, Goto, TypeOK
<1>7. ASSUME NEW a \in Actors, CallUnlock(a) PROVE LockInv'
  <2>1. TypeOK'
    BY <1>0, <1>7 DEF CallUnlock, Goto, TypeOK
  <2>2. Exclusive' = Exclusive /\ Sharing' = Sharing
    BY <1>0, <1>7, SameHolders DEF CallUnlock
  <2>3. ExpectsCounts'
    BY <1>0, <1>7 DEF CallUnlock, Goto, TypeOK, LockInv, ExpectsCounts
  <2> QED
    BY <1>7, <2>1, <2>2, <2>3, QuietStep DEF CallUnlock
<1>8. ASSUME NEW a \in Actors, StoreZero(a) PROVE LockInv'
  <2>1. TypeOK'
    BY <1>0, <1>8 DEF StoreZero, Goto, TypeOK
  <2>2. a \in Exclusive
    BY <1>8 DEF StoreZero, Exclusive
  <2>3. Exclusive = {a} /\ Sharing = {}
    BY <2>2 DEF LockInv, MutualExclusion
  <2>4. Exclusive' = {} /\ Sharing' = {}
    BY <1>0, <1>8, <2>3, HoldersAfter DEF StoreZero
  <2>5. WordCountsHolders' /\ MutualExclusion'
    BY <1>8, <2>4, FS_EmptySet DEF StoreZero, WordCountsHolders, MutualExclusion
  <2> QED
    BY <1>0, <1>8, <2>1, <2>5, WordStep DEF StoreZero, Goto, TypeOK
<1>9. ASSUME NEW a \in Actors, CallUnlockShared(a) PROVE LockInv'
  <2>1. TypeOK'
    BY <1>0, <1>9 DEF CallUnlockShared, Goto, TypeOK
  <2>2. Exclusive' = Exclusive /\ Sharing' = Sharing
    BY <1>0, <1>9, SameHolders DEF CallUnlockShared
  <2>3. ExpectsCounts'
    BY <1>0, <1>9 DEF CallUnlockShared, Goto, TypeOK, LockInv, ExpectsCounts
  <2> QED
    BY <1>9, <2>1, <2>2, <2>3, QuietStep DEF CallUnlockShared
<1>10. ASSUME NEW a \in Actors, Decrement(a) PROVE LockInv'
  <2>1. a \in Sharing
    BY <1>10 DEF Decrement, Sharing
  <2>2. Exclusive = {} /\ data = Cardinality(Sharing)
    BY <2>1 DEF LockInv, MutualExclusion, WordCountsHolders
  <2>3. data # 0
    BY <2>1, FreeWord
  <2>4. TypeOK'
    BY <1>0, <1>10, <2>3 DEF Decrement, Goto, TypeOK
  <2>5. Exclusive' = {} /\ Sharing' = Sharing \ {a}
    BY <1>0, <1>10, <2>2, HoldersAfter DEF Decrement
  <2>6. Cardinality(Sharing \ {a}) = data - 1
    BY <2>1, <2>2, HoldersAreFew, FS_RemoveElement
  <2>7. WordCountsHolders' /\ MutualExclusion'
    BY <1>10, <2>5, <2>6 DEF Decrement, WordCountsHolders, MutualExclusion
  <2> QED
    BY <1>0, <1>10, <2>4, <2>7, WordStep DEF Decrement, Goto, TypeOK
<1>11. ASSUME UNCHANGED vars PROVE LockInv'
  BY <1>11 DEF vars, LockInv, TypeOK, WordCountsHolders, MutualExclusion,
               ExpectsCounts, Exclusive, Sharing
<1> QED
  BY <1>1, <1>2, <1>3, <1>4, <1>5, <1>6, <1>7, <1>8, <1>9, <1>10, <1>11
  DEF Next, Acquire, Release

\* Types, the count, the exclusion and the bound of the loaded counts together are
\* inductive over every step of rwlock.hpp.
THEOREM LockInvariant == Spec => []LockInv
<1>1. Init => LockInv
  BY LockInvInit
<1>2. LockInv /\ [Next]_vars => LockInv'
  BY LockInvStep
<1> QED
  BY <1>1, <1>2, PTL DEF Spec

-----------------------------------------------------------------------------
(* What the lock promises *)

\* The word, the program counters and the locals keep their types.
THEOREM TypeCorrect == Spec => []TypeOK
BY LockInvariant, PTL DEF LockInv

\* The word always says who holds the lock (every CAS, store and decrement of
\* rwlock.hpp keeps the count).
THEOREM WordIsTheCount == Spec => []WordCountsHolders
BY LockInvariant, PTL DEF LockInv

\* An exclusive holder is alone.
THEOREM ExclusionHolds == Spec => []MutualExclusion
BY LockInvariant, PTL DEF LockInv

\* What the assertions ask for follows from the count and the exclusion.
LEMMA AssertionsInv ==
    ASSUME LockInv
    PROVE  AssertionsHold
<1>1. ASSUME NEW a \in Exclusive PROVE data = Excl
  BY <1>1 DEF LockInv, WordCountsHolders
<1>2. ASSUME NEW a \in Sharing PROVE data # 0
  BY <1>2, FreeWord
<1>3. ASSUME Expected(data) >= HoldLimit PROVE Cardinality(Sharing) >= HoldLimit
  <2>1. /\ data \in Nat /\ Excl \in Nat /\ HoldLimit \in Nat
        /\ Cardinality(Sharing) \in Nat /\ Cardinality(Sharing) < Excl
    BY HoldersAreFew, LockAssumption DEF LockInv, TypeOK, LockAssumption
  <2>2. CASE Exclusive = {}
    <3>1. data = Cardinality(Sharing)
      BY <2>2 DEF LockInv, WordCountsHolders
    <3> QED
      BY <1>3, <2>1, <3>1, ExpectedIsACount
  <2>3. CASE Exclusive # {}
    <3>1. data = Excl
      BY <2>3 DEF LockInv, WordCountsHolders
    <3>2. Expected(data) = 0
      BY <2>1, <3>1, ExpectedIsACount
    <3> QED
      BY <1>3, <2>1, <3>2
  <2> QED
    BY <2>2, <2>3
<1> QED
  BY <1>1, <1>2, <1>3 DEF AssertionsHold

\* The asserts at rwlock.hpp:45 and 49 never fail, and that at line 30 only while at
\* least HoldLimit acquisitions share the lock: for every number of threads.
THEOREM AssertionsFailOnlyOfHolders == Spec => []AssertionsHold
<1>1. LockInv => AssertionsHold
  BY AssertionsInv
<1> QED
  BY <1>1, LockInvariant, PTL

\* A word of 0 without holders is the free abstract lock.
LEMMA AbstractInit == Init => Abstract!Init
BY DEF Init, Abstract!Init, Exclusive, Sharing, ExclusivePCs, SharedPCs

\* A step is an acquisition, a release or an upgrade of the abstract lock, or none.
LEMMA AbstractStep ==
    LockInv /\ [Next]_vars => [Abstract!Next]_(Abstract!lockVars)
<1> SUFFICES ASSUME LockInv, [Next]_vars
             PROVE  Abstract!Next \/ (Exclusive' = Exclusive /\ Sharing' = Sharing)
  BY DEF Abstract!lockVars
<1> USE DEF ExclusivePCs, SharedPCs
<1>0. TypeOK
  BY DEF LockInv
<1>1. ASSUME NEW a \in Actors, CallLock(a)
      PROVE  Exclusive' = Exclusive /\ Sharing' = Sharing
  <2>1. PICK label \in {"lock", "load"} : Goto(a, label)
    BY <1>1 DEF CallLock
  <2> QED
    BY <1>0, <1>1, <2>1, SameHolders DEF CallLock
<1>2. ASSUME NEW a \in Actors, TryLock(a) PROVE Abstract!Lock(a)
  <2>1. Exclusive = {} /\ Sharing = {}
    BY <1>2, FreeWord DEF TryLock
  <2>2. Exclusive' = {a} /\ Sharing' = {}
    BY <1>0, <1>2, <2>1, HoldersAfter DEF TryLock
  <2> QED
    BY <2>1, <2>2 DEF Abstract!Lock
<1>3. ASSUME NEW a \in Actors, LoadShared(a) \/ SwapFails(a) \/ CallUnlock(a) \/ CallUnlockShared(a)
      PROVE  Exclusive' = Exclusive /\ Sharing' = Sharing
  BY <1>0, <1>3, SameHolders DEF LoadShared, SwapFails, CallUnlock, CallUnlockShared
<1>4. ASSUME NEW a \in Actors, SwapShared(a) PROVE Abstract!LockShared(a)
  <2>1. Exclusive = {} /\ a \notin Sharing
    BY <1>4, CountWord DEF SwapShared, Sharing
  <2>2. Exclusive' = {} /\ Sharing' = Sharing \cup {a}
    BY <1>0, <1>4, <2>1, HoldersAfter DEF SwapShared
  <2> QED
    BY <2>1, <2>2 DEF Abstract!LockShared
<1>5. ASSUME NEW a \in Actors, TryUpgrade(a) PROVE Abstract!Upgrade(a)
  <2>1. Exclusive = {} /\ Sharing = {a}
    BY <1>5, LoneHolder DEF TryUpgrade, Sharing
  <2>2. Exclusive' = {a} /\ Sharing' = {}
    BY <1>0, <1>5, <2>1, HoldersAfter DEF TryUpgrade
  <2> QED
    BY <2>1, <2>2 DEF Abstract!Upgrade
<1>6. ASSUME NEW a \in Actors, StoreZero(a) PROVE Abstract!Unlock(a)
  <2>1. a \in Exclusive
    BY <1>6 DEF StoreZero, Exclusive
  <2>2. Exclusive = {a} /\ Sharing = {}
    BY <2>1 DEF LockInv, MutualExclusion
  <2>3. Exclusive' = {} /\ Sharing' = {}
    BY <1>0, <1>6, <2>2, HoldersAfter DEF StoreZero
  <2> QED
    BY <2>2, <2>3 DEF Abstract!Unlock
<1>7. ASSUME NEW a \in Actors, Decrement(a) PROVE Abstract!UnlockShared(a)
  <2>1. a \in Sharing
    BY <1>7 DEF Decrement, Sharing
  <2>2. Exclusive = {}
    BY <2>1 DEF LockInv, MutualExclusion
  <2>3. Exclusive' = {} /\ Sharing' = Sharing \ {a}
    BY <1>0, <1>7, <2>2, HoldersAfter DEF Decrement
  <2> QED
    BY <2>1, <2>2, <2>3 DEF Abstract!UnlockShared
<1>8. ASSUME UNCHANGED vars PROVE Exclusive' = Exclusive /\ Sharing' = Sharing
  BY <1>8 DEF vars, Exclusive, Sharing
<1> QED
  BY <1>1, <1>2, <1>3, <1>4, <1>5, <1>6, <1>7, <1>8
  DEF Next, Acquire, Release, Abstract!Next

\* The compare-and-swap lock implements the abstract reader-writer lock.
THEOREM LockRefines == Spec => ImplementsRWLock
<1>1. LockInv /\ [Next]_vars => [Abstract!Next]_(Abstract!lockVars)
  BY AbstractStep
<1> QED
  BY <1>1, AbstractInit, LockInvariant, PTL DEF Spec, ImplementsRWLock, Abstract!Spec

-----------------------------------------------------------------------------
(* Loops and sorted entries *)

\* Induction over the steps of a loop.
LEMMA LoopInduction ==
    ASSUME NEW L \in Nat, NEW A, 0 \in A, \A n \in 1..L : n - 1 \in A => n \in A
    PROVE  0..L \subseteq A
<1> DEFINE bad == (0..L) \ A
<1>1. SUFFICES ASSUME bad # {} PROVE FALSE
  OBVIOUS
<1>2. PICK n \in bad : \A j \in bad : n <= j
  <2>1. bad \subseteq Nat
    OBVIOUS
  <2> HIDE DEF bad
  <2> QED
    BY <1>1, <2>1, LeastMember
<1>3. n \in 1..L /\ n - 1 \in 0..L /\ ~ (n <= n - 1)
  BY <1>2
<1>4. n - 1 \in A
  BY <1>2, <1>3
<1> QED
  BY <1>2, <1>3, <1>4

Sorted(ents) == \A i, j \in DOMAIN ents : i < j => ents[i].dest < ents[j].dest

\* Every entry has the chain that content gives its destination.
Content(ents, G) == \A i \in DOMAIN ents : /\ ents[i].dest \in DOMAIN G
                                           /\ ents[i].chain = G[ents[i].dest]
                                           /\ G[ents[i].dest] # <<>>

LEMMA EntryFacts ==
    ASSUME NEW ents \in Entries
    PROVE  /\ Len(ents) \in Nat /\ DOMAIN ents = 1..Len(ents)
           /\ \A i \in DOMAIN ents : /\ ents[i] \in [dest : Nat, chain : Seq(Nat)]
                                     /\ ents[i].dest \in Nat /\ ents[i].chain \in Seq(Nat)
           /\ ents = <<>> <=> Len(ents) = 0
<1> DEFINE T == [dest : Nat, chain : Seq(Nat)]
<1>1. /\ Len(ents) \in Nat /\ DOMAIN ents = 1..Len(ents)
      /\ \A i \in DOMAIN ents : ents[i] \in T
  <2>1. ents \in Seq(T)
    BY DEF Entries
  <2> HIDE DEF T
  <2> QED
    BY <2>1, LenProperties
<1>2. ents = <<>> <=> Len(ents) = 0
  BY EmptySeq DEF Entries
<1> QED
  BY <1>1, <1>2

\* std::lower_bound cuts a sorted vector in two.
LEMMA LowerBoundCuts ==
    ASSUME NEW ents \in Entries, Sorted(ents), NEW dest \in Nat
    PROVE  /\ LowerBound(ents, dest) \in 1..Len(ents) + 1
           /\ \A i \in DOMAIN ents : ents[i].dest < dest <=> i < LowerBound(ents, dest)
<1> DEFINE L == Len(ents)
           A == {i \in DOMAIN ents : ents[i].dest < dest}
           above == {i \in 1..L+1 : i = L + 1 \/ ~ ents[i].dest < dest}
<1>1. L \in Nat /\ DOMAIN ents = 1..L /\ \A i \in 1..L : ents[i].dest \in Nat
  BY EntryFacts
<1>2. PICK p \in above : \A j \in above : p <= j
  <2>1. above \subseteq Nat /\ L + 1 \in above
    BY <1>1
  <2> HIDE DEF above
  <2> QED
    BY <2>1, LeastMember
<1>3. \A i \in 1..L : i < p => ents[i].dest < dest
  BY <1>1, <1>2
<1>4. ASSUME NEW i \in 1..L, p <= i PROVE ~ ents[i].dest < dest
  <2>1. p \in 1..L /\ ~ ents[p].dest < dest
    BY <1>1, <1>2, <1>4
  <2>2. p < i => ents[p].dest < ents[i].dest
    BY <1>1, <2>1 DEF Sorted
  <2> QED
    BY <1>1, <1>4, <2>1, <2>2
<1>5. A = 1..p-1
  BY <1>1, <1>2, <1>3, <1>4
<1>6. Cardinality(A) = p - 1
  <2>1. 1 \in Int /\ p - 1 \in Int /\ p - 1 >= 0
    BY <1>1, <1>2
  <2>2. Cardinality(1..p-1) = IF 1 > p - 1 THEN 0 ELSE (p - 1) - 1 + 1
    BY <2>1, FS_Interval
  <2> HIDE DEF A
  <2>3. Cardinality(1..p-1) = p - 1
    BY <2>1, <2>2
  <2> QED
    BY <1>5, <2>3
<1>7. LowerBound(ents, dest) = p
  BY <1>1, <1>2, <1>6 DEF LowerBound
<1> QED
  BY <1>1, <1>2, <1>3, <1>4, <1>7

LEMMA LowerBoundFinds ==
    ASSUME NEW ents \in Entries, Sorted(ents), NEW i \in DOMAIN ents
    PROVE  LowerBound(ents, ents[i].dest) = i
<1>1. DOMAIN ents = 1..Len(ents) /\ Len(ents) \in Nat /\ \A j \in DOMAIN ents : ents[j].dest \in Nat
  BY EntryFacts
<1> DEFINE p == LowerBound(ents, ents[i].dest)
<1>2. /\ p \in 1..Len(ents) + 1
      /\ \A j \in DOMAIN ents : ents[j].dest < ents[i].dest <=> j < p
  BY <1>1, LowerBoundCuts
<1> HIDE DEF p
<1>3. ~ i < p
  BY <1>1, <1>2
<1>4. ~ p < i
  <2> SUFFICES ASSUME p < i PROVE FALSE
    OBVIOUS
  <2>1. p \in DOMAIN ents
    BY <1>1, <1>2
  <2>2. ents[p].dest < ents[i].dest
    BY <2>1 DEF Sorted
  <2> QED
    BY <1>1, <1>2, <2>1, <2>2
<1>5. p = i
  BY <1>1, <1>2, <1>3, <1>4
<1> QED
  BY <1>5 DEF p

\* A look-up in a sorted vector finds the entry of the destination.
LEMMA FindEntryIs ==
    ASSUME NEW ents \in Entries, Sorted(ents), NEW dest, NEW ts
    PROVE  FindEntry(ents, dest, ts)
             <=> \E i \in DOMAIN ents : ents[i].dest = dest /\ CheckVersion(ents[i].chain, ts)
<1>1. ASSUME NEW i \in DOMAIN ents, ents[i].dest = dest
      PROVE  LowerBound(ents, dest) = i
  BY <1>1, LowerBoundFinds
<1>2. dest \in Dests(ents) <=> \E i \in DOMAIN ents : ents[i].dest = dest
  BY DEF Dests
<1> QED
  BY <1>1, <1>2 DEF FindEntry

\* e is new at position p of s.
NewAt(new, s, p, e) ==
    /\ Len(new) = Len(s) + 1
    /\ \A k \in 1..Len(s) + 1 : new[k] = IF k < p THEN s[k] ELSE IF k = p THEN e ELSE s[k-1]

LEMMA InsertAtIs ==
    ASSUME NEW T, NEW s \in Seq(T), NEW e \in T, NEW p \in 1..Len(s) + 1
    PROVE  InsertAt(s, p, e) \in Seq(T) /\ NewAt(InsertAt(s, p, e), s, p, e)
<1> DEFINE L == Len(s)
           a == SubSeq(s, 1, p - 1)
           b == SubSeq(s, p, L)
<1>1. L \in Nat /\ \A i \in 1..L : s[i] \in T
  BY LenProperties, ElementOfSeq
<1>2. a \in Seq(T) /\ Len(a) = p - 1 /\ \A i \in 1..p-1 : a[i] = s[i]
  BY <1>1
<1>3. b \in Seq(T) /\ Len(b) = L - p + 1 /\ \A i \in 1..L-p+1 : b[i] = s[p + i - 1]
  BY <1>1
<1>4. <<e>> \in Seq(T) /\ Len(<<e>>) = 1 /\ <<e>>[1] = e
  OBVIOUS
<1> HIDE DEF a, b, L
<1>5. /\ a \o <<e>> \in Seq(T) /\ Len(a \o <<e>>) = p
      /\ \A i \in 1..p-1 : (a \o <<e>>)[i] = s[i]
      /\ (a \o <<e>>)[p] = e
  BY <1>1, <1>2, <1>4 DEF L
<1> DEFINE c == a \o <<e>>
<1>6. c \in Seq(T) /\ Len(c) = p /\ c[p] = e /\ \A i \in 1..p-1 : c[i] = s[i]
  BY <1>5
<1> HIDE DEF c
<1>7. /\ c \o b \in Seq(T) /\ Len(c \o b) = L + 1
      /\ \A i \in 1..p : (c \o b)[i] = c[i]
      /\ \A i \in p+1..L+1 : (c \o b)[i] = b[i - p]
  <2>1. /\ c \o b \in Seq(T) /\ Len(c \o b) = Len(c) + Len(b)
        /\ \A i \in 1..Len(c) + Len(b) :
                (c \o b)[i] = IF i <= Len(c) THEN c[i] ELSE b[i - Len(c)]
    BY <1>3, <1>6, ConcatProperties
  <2>2. Len(c) = p /\ Len(c) + Len(b) = L + 1 /\ p \in 1..L+1 /\ L \in Nat
    BY <1>1, <1>3, <1>6 DEF L
  <2> QED
    BY <2>1, <2>2
<1>8. InsertAt(s, p, e) = c \o b
  BY DEF InsertAt, a, b, c, L
<1>9. \A i \in p+1..L+1 : b[i - p] = s[i - 1]
  BY <1>1, <1>3 DEF L
<1> QED
  BY <1>1, <1>6, <1>7, <1>8, <1>9 DEF L, NewAt

\* The chain of dest got ts, or is new; the other entries are as they were.
OneMore(ents, new, dest, ts) ==
    \A i \in DOMAIN new :
        IF new[i].dest = dest
        THEN \/ \E j \in DOMAIN ents : /\ ents[j].dest = dest
                                       /\ new[i].chain = PushVersion(ents[j].chain, ts)
             \/ dest \notin Dests(ents) /\ new[i].chain = PushVersion(<<>>, ts)
        ELSE \E j \in DOMAIN ents : new[i] = ents[j]

\* An insertion into a sorted vector.
LEMMA InsertEntryIs ==
    ASSUME NEW ents \in Entries, Sorted(ents), NEW dest \in Nat, NEW ts \in Nat,
           NEW new, new = InsertEntry(ents, dest, ts)
    PROVE  /\ new \in Entries /\ Sorted(new) /\ new # <<>>
           /\ Dests(new) = Dests(ents) \cup {dest}
           /\ Len(new) = Len(ents) + (IF dest \in Dests(ents) THEN 0 ELSE 1)
           /\ OneMore(ents, new, dest, ts)
<1> DEFINE T == [dest : Nat, chain : Seq(Nat)]
           p == LowerBound(ents, dest)
           L == Len(ents)
<1>1. /\ L \in Nat /\ DOMAIN ents = 1..L
      /\ \A i \in DOMAIN ents : ents[i] \in T /\ ents[i].dest \in Nat /\ ents[i].chain \in Seq(Nat)
  BY EntryFacts
<1>2. /\ p \in 1..L+1
      /\ \A i \in DOMAIN ents : ents[i].dest < dest <=> i < p
  BY LowerBoundCuts
<1>3. ents \in Seq(T)
  BY DEF Entries
<1>4. CASE dest \in Dests(ents)
  <2>1. PICK j \in DOMAIN ents : ents[j].dest = dest
    BY <1>4 DEF Dests
  <2>2. p = j
    BY <2>1, LowerBoundFinds
  <2> DEFINE e == [dest |-> dest, chain |-> PushVersion(ents[j].chain, ts)]
  <2>3. e \in T /\ e.dest = dest /\ e.chain = PushVersion(ents[j].chain, ts)
    BY <1>1, <2>1, PushVersionAdds
  <2>4. new = [ents EXCEPT ![j] = e]
    BY <1>4, <2>2 DEF InsertEntry
  <2> HIDE DEF e, T, p, L
  <2>5. new \in Seq(T) /\ Len(new) = L /\ DOMAIN new = 1..L
    BY <1>1, <1>3, <2>1, <2>3, <2>4 DEF L
  <2>6. \A i \in 1..L : IF i = j THEN new[i] = e ELSE new[i] = ents[i]
    BY <1>1, <2>4
  <2>7. \A i \in 1..L : new[i].dest = ents[i].dest
    BY <2>1, <2>3, <2>6
  <2>8. new \in Entries /\ Sorted(new) /\ Len(new) = L /\ new # <<>>
    <3>1. new \in Entries
      BY <2>5 DEF Entries, T
    <3>2. Sorted(new)
      BY <1>1, <2>5, <2>7 DEF Sorted
    <3>3. new # <<>>
      BY <1>1, <2>1, <2>5, <3>1, EntryFacts
    <3> QED
      BY <2>5, <3>1, <3>2, <3>3
  <2>9. Dests(new) = Dests(ents) \cup {dest}
    <3>1. Dests(new) = Dests(ents)
      BY <1>1, <2>5, <2>7 DEF Dests
    <3> QED
      BY <1>4, <3>1
  <2>10. \A i \in DOMAIN new : new[i].dest = dest => i = j
    BY <1>1, <2>1, <2>2, <2>5, <2>7, LowerBoundFinds DEF p
  <2> QED
    BY <1>1, <1>4, <2>1, <2>3, <2>5, <2>6, <2>8, <2>9, <2>10 DEF L, OneMore
<1>5. CASE dest \notin Dests(ents)
  <2> DEFINE e == Entry(dest, ts)
  <2>1. e \in T /\ e.dest = dest /\ e.chain = PushVersion(<<>>, ts)
    <3>1. <<>> \in Seq(Nat)
      OBVIOUS
    <3>2. PushVersion(<<>>, ts) \in Seq(Nat)
      BY <3>1, PushVersionAdds
    <3> QED
      BY <3>2 DEF Entry
  <2>2. new = InsertAt(ents, p, e)
    BY <1>5 DEF InsertEntry
  <2>3. \A i \in DOMAIN ents : ents[i].dest # dest
    BY <1>5 DEF Dests
  <2> HIDE DEF e, T, p, L
  <2>4. /\ new \in Seq(T) /\ Len(new) = L + 1 /\ DOMAIN new = 1..L+1
        /\ \A k \in 1..L+1 : new[k] = IF k < p THEN ents[k] ELSE IF k = p THEN e ELSE ents[k-1]
    <3>1. p \in 1..Len(ents) + 1 /\ Len(ents) = L
      BY <1>2 DEF L
    <3>2. InsertAt(ents, p, e) \in Seq(T) /\ NewAt(InsertAt(ents, p, e), ents, p, e)
      <4>1. ents \in Seq(T) /\ e \in T
        BY <1>3, <2>1
      <4> QED
        BY <3>1, <4>1, InsertAtIs
    <3>3. DOMAIN new = 1..Len(new)
      BY <2>2, <3>2
    <3> QED
      BY <2>2, <3>1, <3>2, <3>3 DEF NewAt
  <2>11. /\ L \in Nat /\ p \in 1..L+1
         /\ \A i \in 1..L : /\ ents[i].dest \in Nat
                            /\ i < p => ents[i].dest < dest
                            /\ ~ i < p => ents[i].dest > dest
    <3>1. ASSUME NEW i \in 1..L
          PROVE  /\ ents[i].dest \in Nat /\ ents[i].dest # dest
                 /\ ents[i].dest < dest <=> i < p
      BY <1>1, <1>2, <2>3
    <3> QED
      BY <1>1, <1>2, <3>1
  <2>5. \A k \in 1..L+1 :
            /\ k < p => k \in 1..L /\ new[k] = ents[k] /\ new[k].dest < dest
            /\ k = p => new[k] = e /\ new[k].dest = dest
            /\ k > p => k - 1 \in 1..L /\ new[k] = ents[k-1] /\ new[k].dest > dest
    <3> TAKE k \in 1..L+1
    <3>1. CASE k < p
      BY <2>4, <2>11, <3>1
    <3>2. CASE k = p
      BY <2>1, <2>4, <2>11, <3>2
    <3>3. CASE k > p
      <4>1. k - 1 \in 1..L /\ ~ k - 1 < p
        BY <2>11, <3>3
      <4>2. new[k] = ents[k-1]
        BY <2>4, <2>11, <3>3
      <4> QED
        BY <2>11, <3>3, <4>1, <4>2
    <3> QED
      BY <2>11, <3>1, <3>2, <3>3
  <2>6. Sorted(new)
    <3> SUFFICES ASSUME NEW i \in 1..L+1, NEW j \in 1..L+1, i < j
                 PROVE  new[i].dest < new[j].dest
      BY <2>4 DEF Sorted
    <3>1. CASE j < p \/ i > p
      <4>1. PICK a \in 1..L, b \in 1..L : a < b /\ new[i] = ents[a] /\ new[j] = ents[b]
        <5>1. CASE j < p
          <6>1. i < p
            BY <2>11, <5>1
          <6>2. i \in 1..L /\ j \in 1..L /\ new[i] = ents[i] /\ new[j] = ents[j]
            BY <2>5, <5>1, <6>1
          <6> QED
            BY <6>2
        <5>2. CASE i > p
          <6>1. j > p /\ i - 1 < j - 1
            BY <2>11, <5>2
          <6>2. i - 1 \in 1..L /\ j - 1 \in 1..L /\ new[i] = ents[i-1] /\ new[j] = ents[j-1]
            BY <2>5, <5>2, <6>1
          <6> QED
            BY <6>1, <6>2
        <5> QED
          BY <3>1, <5>1, <5>2
      <4> QED
        BY <1>1, <4>1 DEF Sorted
    <3>2. CASE i <= p /\ p <= j
      <4>1. (i < p => new[i].dest < dest) /\ (i = p => new[i].dest = dest)
        BY <2>5
      <4>2. (p < j => new[j].dest > dest) /\ (p = j => new[j].dest = dest)
        BY <2>5
      <4>3. new[i].dest \in Nat /\ new[j].dest \in Nat
        <5>1. \A k \in 1..L+1 : new[k].dest \in Nat
          <6> TAKE k \in 1..L+1
          <6>1. CASE k < p
            BY <2>5, <2>11, <6>1
          <6>2. CASE k = p
            BY <2>5, <6>2
          <6>3. CASE k > p
            BY <2>5, <2>11, <6>3
          <6> QED
            BY <2>11, <6>1, <6>2, <6>3
        <5> QED
          BY <5>1
      <4> QED
        BY <2>11, <3>2, <4>1, <4>2, <4>3
    <3> QED
      BY <1>1, <1>2, <3>1, <3>2
  <2>7. Dests(new) = Dests(ents) \cup {dest}
    <3>1. ASSUME NEW i \in 1..L PROVE \E k \in 1..L+1 : new[k].dest = ents[i].dest
      <4>1. CASE i < p
        BY <1>1, <2>5, <4>1
      <4>2. CASE ~ i < p
        <5>1. i + 1 \in 1..L+1 /\ i + 1 > p /\ (i + 1) - 1 = i
          BY <1>1, <1>2, <4>2
        <5> QED
          BY <2>5, <5>1
      <4> QED
        BY <4>1, <4>2
    <3>2. \A k \in 1..L+1 : new[k].dest = dest \/ \E i \in 1..L : new[k].dest = ents[i].dest
      BY <2>5, <2>11
    <3>3. p \in 1..L+1 /\ new[p].dest = dest
      BY <1>2, <2>5
    <3>4. \A k \in 1..L+1 : new[k].dest \in Dests(ents) \cup {dest}
      BY <1>1, <3>2 DEF Dests
    <3>5. Dests(ents) \cup {dest} \subseteq {new[k].dest : k \in 1..L+1}
      BY <1>1, <3>1, <3>3 DEF Dests
    <3>6. Dests(new) = {new[k].dest : k \in 1..L+1}
      BY <2>4 DEF Dests
    <3> QED
      BY <3>4, <3>5, <3>6
  <2>8. \A i \in DOMAIN new :
                IF new[i].dest = dest THEN new[i].chain = PushVersion(<<>>, ts)
                ELSE \E j \in DOMAIN ents : new[i] = ents[j]
    <3> SUFFICES ASSUME NEW i \in 1..L+1
                 PROVE  IF new[i].dest = dest THEN new[i].chain = PushVersion(<<>>, ts)
                        ELSE \E j \in 1..L : new[i] = ents[j]
      BY <1>1, <2>4
    <3>1. CASE i < p
      BY <2>5, <3>1
    <3>2. CASE i = p
      BY <2>1, <2>5, <3>2
    <3>3. CASE i > p
      BY <2>5, <3>3
    <3> QED
      BY <2>11, <3>1, <3>2, <3>3
  <2>9. new \in Entries /\ new # <<>>
    <3>1. new \in Entries
      BY <2>4 DEF Entries, T
    <3> QED
      BY <1>1, <2>4, <3>1, EntryFacts
  <2> QED
    BY <1>1, <1>5, <2>4, <2>6, <2>7, <2>8, <2>9 DEF L, OneMore
<1> QED
  BY <1>4, <1>5

\* A chain for every destination.
Chains(D) == [D -> Seq(Nat)]

\* What is stored after dest was inserted at ts.
Pushed(G, dest, ts) == [G EXCEPT ![dest] = PushVersion(G[dest], ts)]

LEMMA PushedIs ==
    ASSUME NEW D, NEW G \in Chains(D), NEW dest \in D, NEW ts \in Nat
    PROVE  /\ Pushed(G, dest, ts) \in Chains(D)
           /\ Pushed(G, dest, ts)[dest] = PushVersion(G[dest], ts)
           /\ Pushed(G, dest, ts)[dest] # <<>>
           /\ \A d \in D : d # dest => Pushed(G, dest, ts)[d] = G[d]
<1>1. G[dest] \in Seq(Nat)
  BY DEF Chains
<1>2. PushVersion(G[dest], ts) \in Seq(Nat) /\ PushVersion(G[dest], ts) # <<>>
  BY <1>1, PushVersionAdds
<1> QED
  BY <1>2 DEF Pushed, Chains

LEMMA InsertEntryContent ==
    ASSUME NEW ents \in Entries, Sorted(ents), NEW D \in SUBSET Nat, NEW G \in Chains(D),
           Content(ents, G), NEW dest \in D, NEW ts \in Nat,
           dest \notin Dests(ents) => G[dest] = <<>>
    PROVE  Content(InsertEntry(ents, dest, ts), Pushed(G, dest, ts))
<1> DEFINE new == InsertEntry(ents, dest, ts)
           H == Pushed(G, dest, ts)
<1>1. OneMore(ents, new, dest, ts)
  <2>1. dest \in Nat /\ new = InsertEntry(ents, dest, ts)
    OBVIOUS
  <2> HIDE DEF new, H
  <2> QED
    BY <2>1, InsertEntryIs
<1>2. /\ H \in Chains(D) /\ H[dest] = PushVersion(G[dest], ts) /\ H[dest] # <<>>
      /\ \A d \in D : d # dest => H[d] = G[d]
  <2> HIDE DEF new
  <2> QED
    BY PushedIs
<1> HIDE DEF new, H
<1>3. ASSUME NEW i \in DOMAIN new
      PROVE  new[i].dest \in D /\ new[i].chain = H[new[i].dest] /\ H[new[i].dest] # <<>>
  <2>1. CASE new[i].dest = dest
    BY <1>1, <1>2, <2>1 DEF Content, OneMore
  <2>2. CASE new[i].dest # dest
    <3>1. PICK j \in DOMAIN ents : new[i] = ents[j]
      BY <1>1, <2>2 DEF OneMore
    <3>2. ents[j].dest \in D /\ ents[j].chain = G[ents[j].dest] /\ G[ents[j].dest] # <<>>
      BY DEF Content, Chains
    <3> QED
      BY <1>2, <2>2, <3>1, <3>2
  <2> QED
    BY <2>1, <2>2
<1>4. DOMAIN H = D
  BY <1>2 DEF Chains
<1>5. Content(new, H)
  BY <1>3, <1>4 DEF Content
<1> QED
  BY <1>5 DEF new, H

-----------------------------------------------------------------------------
(* Scans *)

\* out is s at the positions of keep, in order: f says from where.
PickedBy(s, keep, out, f) ==
    /\ f \in [1..Len(out) -> keep]
    /\ \A i, j \in 1..Len(out) : i < j => f[i] < f[j]
    /\ \A i \in 1..Len(out) : out[i] = s[f[i]]

LEMMA PickedLoop ==
    ASSUME NEW T, NEW s \in Seq(T), NEW keep
    PROVE  \E out \in [0..Len(s) -> Seq(T)] :
                /\ Picked(s, keep) = out[Len(s)]
                /\ out[0] = <<>>
                /\ \A n \in 1..Len(s) : out[n] = IF n \in keep THEN Append(out[n-1], s[n]) ELSE out[n-1]
<1> DEFINE L == Len(s)
           S == Seq(T)
           empty == <<>>
           step == [n \in 1..L |-> [q \in S |-> IF n \in keep THEN Append(q, s[n]) ELSE q]]
<1>1. L \in Nat /\ \A i \in 1..L : s[i] \in T
  BY LenProperties, ElementOfSeq
<1>2. empty \in S
  BY EmptySeq
<1>3. step \in [1..L -> [S -> S]]
  BY <1>1, AppendProperties
<1> HIDE DEF L, S, empty
<1>4. PICK g \in [0..L -> S] : g[0] = empty /\ \A n \in 1..L : g[n] = step[n][g[n-1]]
  <2>1. L \in Nat
    BY <1>1
  <2> HIDE DEF step
  <2> QED
    BY <2>1, <1>2, <1>3, Recursion
<1> DEFINE Loop(h) == h = [n \in 0..L |-> IF n = 0 THEN <<>>
                              ELSE IF n \in keep THEN Append(h[n-1], s[n]) ELSE h[n-1]]
<1>5. Loop(g)
  <2>1. ASSUME NEW n \in 0..L
        PROVE  g[n] = IF n = 0 THEN <<>> ELSE IF n \in keep THEN Append(g[n-1], s[n]) ELSE g[n-1]
    <3>1. CASE n = 0
      BY <1>4, <3>1 DEF empty
    <3>2. CASE n # 0
      <4>1. n \in 1..L /\ n - 1 \in 0..L
        BY <1>1, <3>2
      <4>2. g[n-1] \in S
        BY <4>1
      <4> QED
        BY <1>4, <3>2, <4>1, <4>2
    <3> QED
      BY <3>1, <3>2
  <2> HIDE DEF step
  <2> QED
    BY <2>1
<1>6. Picked(s, keep) = (CHOOSE h : Loop(h))[L]
  BY DEF Picked, L
<1> DEFINE f == CHOOSE h : Loop(h)
<1>7. Loop(f)
  BY <1>5
<1> HIDE DEF f
<1>8. \A n \in 0..L : f[n] = IF n = 0 THEN <<>> ELSE IF n \in keep THEN Append(f[n-1], s[n]) ELSE f[n-1]
  BY <1>7
<1>9. /\ f[0] = <<>>
      /\ \A n \in 1..L : f[n] = IF n \in keep THEN Append(f[n-1], s[n]) ELSE f[n-1]
  BY <1>1, <1>8
<1>10. \A n \in 0..L : f[n] \in S
  <2> DEFINE A == {n \in 0..L : f[n] \in S}
  <2>1. 0 \in A
    BY <1>1, <1>2, <1>9 DEF empty
  <2>2. ASSUME NEW n \in 1..L, n - 1 \in A PROVE n \in A
    <3>1. f[n-1] \in S /\ s[n] \in T
      BY <1>1, <2>2
    <3>2. Append(f[n-1], s[n]) \in S
      BY <3>1, AppendProperties DEF S
    <3>3. f[n] \in S
      BY <1>9, <3>1, <3>2
    <3> QED
      BY <3>3
  <2> HIDE DEF A
  <2>3. 0..L \subseteq A
    BY <1>1, <2>1, <2>2, LoopInduction
  <2> QED
    BY <2>3 DEF A
<1>11. f \in [0..L -> S]
  <2>1. f = [n \in 0..L |-> f[n]]
    BY <1>7
  <2> QED
    BY <1>10, <2>1
<1> QED
  BY <1>6, <1>9, <1>11 DEF f, L, S

LEMMA PickedIs ==
    ASSUME NEW T, NEW s \in Seq(T), NEW keep \in SUBSET (1..Len(s))
    PROVE  /\ Picked(s, keep) \in Seq(T)
           /\ \E f : /\ PickedBy(s, keep, Picked(s, keep), f)
                     /\ \A i \in keep : \E k \in 1..Len(Picked(s, keep)) : f[k] = i
<1> DEFINE L == Len(s)
<1>1. L \in Nat /\ \A i \in 1..L : s[i] \in T
  BY LenProperties, ElementOfSeq
<1> HIDE DEF L
<1>2. PICK out \in [0..L -> Seq(T)] :
        /\ Picked(s, keep) = out[L]
        /\ out[0] = <<>>
        /\ \A n \in 1..L : out[n] = IF n \in keep THEN Append(out[n-1], s[n]) ELSE out[n-1]
  BY PickedLoop DEF L
<1> DEFINE Good(n) == \E f : /\ PickedBy(s, keep \cap 1..n, out[n], f)
                             /\ \A i \in keep \cap 1..n : \E k \in 1..Len(out[n]) : f[k] = i
           A == {n \in 0..L : Good(n)}
<1>3. 0 \in A
  <2>1. Len(out[0]) = 0 /\ 1..0 = {}
    BY <1>2
  <2> DEFINE f == [i \in 1..0 |-> i]
  <2>2. PickedBy(s, keep \cap 1..0, out[0], f)
    BY <2>1 DEF PickedBy
  <2>3. Good(0)
    BY <2>1, <2>2
  <2> QED
    BY <1>1, <2>3
<1>4. ASSUME NEW n \in 1..L, n - 1 \in A PROVE n \in A
  <2>1. n - 1 \in 0..L /\ n \in 0..L /\ n \in Nat /\ n \in 1..n /\ 1..n-1 \subseteq 1..n
    BY <1>1
  <2>2. PICK f : /\ PickedBy(s, keep \cap 1..n-1, out[n-1], f)
                 /\ \A i \in keep \cap 1..n-1 : \E k \in 1..Len(out[n-1]) : f[k] = i
    BY <1>4
  <2> DEFINE q == out[n-1]
             m == Len(q)
  <2>3. q \in Seq(T) /\ m \in Nat
    BY <1>2, <2>1, LenProperties
  <2>4. CASE n \notin keep
    <3>1. out[n] = q
      BY <1>2, <2>4
    <3>2. keep \cap 1..n = keep \cap 1..n-1
      BY <2>1, <2>4
    <3>3. Good(n)
      BY <2>2, <3>1, <3>2
    <3> QED
      BY <2>1, <3>3
  <2>5. CASE n \in keep
    <3>1. /\ out[n] \in Seq(T) /\ Len(out[n]) = m + 1
          /\ \A i \in 1..m : out[n][i] = q[i]
          /\ out[n][m+1] = s[n]
      <4>1. out[n] = Append(q, s[n]) /\ s[n] \in T
        BY <1>1, <1>2, <2>5
      <4> HIDE DEF q
      <4> QED
        BY <2>3, <4>1, AppendProperties
    <3> DEFINE g == [i \in 1..m+1 |-> IF i = m + 1 THEN n ELSE f[i]]
    <3> HIDE DEF q, m
    <3>2. \A i \in 1..m : f[i] \in keep \cap 1..n-1 /\ g[i] = f[i] /\ q[i] = s[f[i]]
      <4> TAKE i \in 1..m
      <4>1. i \in 1..m+1 /\ i # m + 1
        BY <2>3
      <4>2. f[i] \in keep \cap 1..n-1 /\ q[i] = s[f[i]]
        BY <2>2 DEF PickedBy, q, m
      <4> QED
        BY <4>1, <4>2
    <3>3. g[m+1] = n
      BY <2>3
    <3>4. \A i \in 1..m+1 : i = m + 1 \/ i \in 1..m
      BY <2>3
    <3>5. g \in [1..m+1 -> keep \cap 1..n]
      BY <2>1, <2>5, <3>2, <3>3, <3>4
    <3>6. ASSUME NEW i \in 1..m+1, NEW j \in 1..m+1, i < j PROVE g[i] < g[j]
      <4>1. i \in 1..m
        BY <2>3, <3>6
      <4>2. CASE j = m + 1
        <5>1. f[i] \in 1..n-1
          BY <3>2, <4>1
        <5>2. g[i] = f[i] /\ g[j] = n
          BY <3>2, <3>3, <4>1, <4>2
        <5> HIDE DEF g
        <5>3. f[i] \in Nat /\ f[i] < n
          BY <2>1, <5>1
        <5> QED
          BY <5>2, <5>3
      <4>3. CASE j \in 1..m
        <5>1. f[i] < f[j]
          BY <2>2, <3>6, <4>1, <4>3 DEF PickedBy, q, m
        <5> QED
          BY <3>2, <4>1, <4>3, <5>1
      <4> QED
        BY <3>4, <4>2, <4>3
    <3>7. \A i \in 1..m+1 : out[n][i] = s[g[i]]
      BY <3>1, <3>2, <3>3, <3>4
    <3>8. PickedBy(s, keep \cap 1..n, out[n], g)
      <4> HIDE DEF g
      <4> QED
        BY <3>1, <3>5, <3>6, <3>7 DEF PickedBy
    <3>9. ASSUME NEW i \in keep \cap 1..n PROVE \E k \in 1..Len(out[n]) : g[k] = i
      <4>1. CASE i = n
        <5>1. m + 1 \in 1..m+1
          BY <2>3
        <5> QED
          BY <3>1, <3>3, <4>1, <5>1
      <4>2. CASE i # n
        <5>1. i \in keep \cap 1..n-1
          BY <2>1, <4>2
        <5>2. PICK k \in 1..m : f[k] = i
          BY <2>2, <5>1 DEF q, m
        <5>3. k \in 1..m+1
          BY <2>3
        <5> QED
          BY <3>1, <3>2, <5>2, <5>3
      <4> QED
        BY <4>1, <4>2
    <3>10. Good(n)
      <4> HIDE DEF g
      <4> QED
        BY <3>8, <3>9
    <3> QED
      BY <2>1, <3>10
  <2> QED
    BY <2>4, <2>5
<1>5. L \in A
  <2> HIDE DEF A
  <2>1. 0..L \subseteq A
    BY <1>1, <1>3, <1>4, LoopInduction
  <2> QED
    BY <1>1, <2>1
<1>6. Good(L) /\ keep \cap 1..L = keep /\ out[L] \in Seq(T)
  BY <1>1, <1>2, <1>5 DEF L
<1>7. Picked(s, keep) = out[L]
  BY <1>2
<1> HIDE DEF A
<1>8. PICK q : q = out[L]
  OBVIOUS
<1>9. q \in Seq(T) /\ \E f : PickedBy(s, keep, q, f) /\ \A i \in keep : \E k \in 1..Len(q) : f[k] = i
  BY <1>6, <1>8
<1> QED
  BY <1>7, <1>8, <1>9

\* A scan of a sorted vector yields what is visible, in ascending order.
LEMMA VisibleIs ==
    ASSUME NEW ents \in Entries, Sorted(ents), NEW ts
    PROVE  /\ Visible(ents, ts) \in Seq(Nat)
           /\ Range(Visible(ents, ts))
                = {ents[i].dest : i \in {j \in DOMAIN ents : CheckVersion(ents[j].chain, ts)}}
           /\ \A i, j \in DOMAIN Visible(ents, ts) :
                i < j => Visible(ents, ts)[i] < Visible(ents, ts)[j]
<1> DEFINE L == Len(ents)
           s == [i \in DOMAIN ents |-> ents[i].dest]
           keep == {i \in DOMAIN ents : CheckVersion(ents[i].chain, ts)}
           out == Visible(ents, ts)
<1>1. L \in Nat /\ DOMAIN ents = 1..L /\ \A i \in 1..L : ents[i].dest \in Nat
  BY EntryFacts
<1>2. s \in Seq(Nat) /\ Len(s) = L /\ \A i \in 1..L : s[i] = ents[i].dest
  <2> HIDE DEF L
  <2> QED
    BY <1>1
<1>3. out = Picked(s, keep)
  BY DEF Visible
<1>4. keep \in SUBSET (1..Len(s))
  BY <1>1, <1>2
<1> HIDE DEF s, out, L
<1>5. out \in Seq(Nat) /\ \E f : /\ PickedBy(s, keep, out, f)
                                 /\ \A i \in keep : \E k \in 1..Len(out) : f[k] = i
  <2> HIDE DEF keep
  <2> QED
    BY <1>2, <1>3, <1>4, PickedIs
<1>6. PICK f : /\ PickedBy(s, keep, out, f)
               /\ \A i \in keep : \E k \in 1..Len(out) : f[k] = i
  BY <1>5
<1>7. DOMAIN out = 1..Len(out)
  BY <1>5
<1>8. \A k \in 1..Len(out) : f[k] \in keep /\ f[k] \in 1..L /\ out[k] = ents[f[k]].dest
  BY <1>1, <1>2, <1>6 DEF PickedBy
<1>9. \A i, j \in 1..Len(out) : i < j => out[i] < out[j]
  <2> TAKE i \in 1..Len(out), j \in 1..Len(out)
  <2>1. i < j => f[i] < f[j]
    BY <1>6 DEF PickedBy
  <2> QED
    BY <1>1, <1>8, <2>1 DEF Sorted
<1>10. Range(out) = {ents[i].dest : i \in keep}
  <2> HIDE DEF keep
  <2>1. \A i \in keep : \E k \in 1..Len(out) : ents[i].dest = out[k]
    BY <1>6, <1>8
  <2> QED
    BY <1>7, <1>8, <2>1 DEF Range
<1> QED
  BY <1>5, <1>7, <1>9, <1>10 DEF out

LEMMA PushedReads ==
    ASSUME NEW D, NEW G \in Chains(D), NEW dest \in D, NEW t \in Nat, NEW d \in D, NEW ts \in Nat
    PROVE  CheckVersion(Pushed(G, dest, t)[d], ts)
             <=> CheckVersion(G[d], ts) \/ (d = dest /\ t <= ts)
<1>1. CASE d = dest
  <2>1. G[dest] \in Seq(Nat)
    BY DEF Chains
  <2>2. ToSet(PushVersion(G[dest], t)) = {t} \cup ToSet(G[dest])
    BY <2>1, PushVersionAdds
  <2>3. Pushed(G, dest, t)[d] = PushVersion(G[dest], t)
    BY <1>1, PushedIs
  <2> QED
    BY <1>1, <2>2, <2>3, CheckVersionIsMembership
<1>2. CASE d # dest
  <2>1. Pushed(G, dest, t)[d] = G[d]
    BY <1>2, PushedIs
  <2> QED
    BY <1>2, <2>1
<1> QED
  BY <1>1, <1>2

LEMMA PushedLength ==
    ASSUME NEW D, NEW G \in Chains(D), NEW dest \in D, NEW t \in Nat
    PROVE  /\ Len(G[dest]) \in Nat /\ Len(Pushed(G, dest, t)[dest]) = Len(G[dest]) + 1
           /\ G[dest] = <<>> <=> Len(G[dest]) = 0
<1>1. G[dest] \in Seq(Nat) /\ <<t>> \in Seq(Nat) /\ Len(<<t>>) = 1
  BY DEF Chains
<1>2. Len(<<t>> \o G[dest]) = 1 + Len(G[dest]) /\ Len(G[dest]) \in Nat
  BY <1>1, ConcatProperties, LenProperties
<1>3. Pushed(G, dest, t)[dest] = <<t>> \o G[dest]
  BY PushedIs DEF PushVersion
<1>4. G[dest] = <<>> <=> Len(G[dest]) = 0
  BY <1>1, EmptySeq
<1> QED
  BY <1>2, <1>3, <1>4

-----------------------------------------------------------------------------
(* The log block *)

Logs == Seq([dest : Nat, b : Nat, e : Nat \cup {Open}])

\* The edge of the first log has two open logs once it was inserted again.
Doubled(logs, G) == {d \in DOMAIN G : logs # <<>> /\ d = logs[1].dest /\ Len(G[d]) > 1}

SeenAt(logs, d, ts) == \E i \in DOMAIN logs : logs[i].dest = d /\ LogVisible(logs[i], ts)

\* An open log that insert_edge looks at.
OpenAt(logs, d, i) == i > 1 /\ logs[i].dest = d /\ logs[i].e = Open

\* The logs answer what G says, and up to `now` all is over.
LogsHold(logs, G, now) ==
    /\ \A i \in DOMAIN logs : /\ logs[i].dest \in DOMAIN G /\ G[logs[i].dest] # <<>>
                              /\ logs[i].b <= now
                              /\ logs[i].e # Open => logs[i].e <= now
    /\ \A d \in DOMAIN G, ts \in Nat : SeenAt(logs, d, ts) <=> CheckVersion(G[d], ts)
    /\ \A i, j \in DOMAIN logs, ts \in Nat :
            /\ logs[i].dest = logs[j].dest /\ i # j
            /\ LogVisible(logs[i], ts) /\ LogVisible(logs[j], ts)
            => logs[i].dest \in Doubled(logs, G)
    /\ \A i, j \in DOMAIN logs, d \in DOMAIN G : OpenAt(logs, d, i) /\ OpenAt(logs, d, j) => i = j
    /\ \A d \in DOMAIN G : \/ G[d] = <<>>
                           \/ logs # <<>> /\ logs[1].dest = d /\ Len(G[d]) = 1
                           \/ \E i \in DOMAIN logs : OpenAt(logs, d, i)
    /\ \A i \in DOMAIN logs : i > 1 /\ logs[i].dest = logs[1].dest => Len(G[logs[i].dest]) > 1

LogHolds(block, G, now) ==
    /\ block = [logs |-> block.logs, filter |-> block.filter] /\ block.logs \in Logs
    /\ LogDests(block.logs) \subseteq block.filter
    /\ LogsHold(block.logs, G, now)

LEMMA LogFacts ==
    ASSUME NEW logs \in Logs
    PROVE  /\ Len(logs) \in Nat /\ DOMAIN logs = 1..Len(logs)
           /\ \A i \in DOMAIN logs : /\ logs[i] \in [dest : Nat, b : Nat, e : Nat \cup {Open}]
                                     /\ logs[i].dest \in Nat /\ logs[i].b \in Nat
                                     /\ logs[i].e \in Nat \/ logs[i].e = Open
           /\ logs = <<>> <=> Len(logs) = 0
<1> DEFINE T == [dest : Nat, b : Nat, e : Nat \cup {Open}]
<1>1. /\ Len(logs) \in Nat /\ DOMAIN logs = 1..Len(logs)
      /\ \A i \in DOMAIN logs : logs[i] \in T
      /\ logs = <<>> <=> Len(logs) = 0
  <2>1. logs \in Seq(T)
    BY DEF Logs
  <2> HIDE DEF T
  <2> QED
    BY <2>1, LenProperties, EmptySeq
<1> QED
  BY <1>1

\* An insertion finds the open log of the destination, if there is one.
LEMMA OldLogsAre ==
    ASSUME NEW D, NEW G \in Chains(D), NEW now \in Nat, NEW block, LogHolds(block, G, now),
           NEW dest \in D, NEW ts \in Nat, now <= ts
    PROVE  /\ OldLogs(block, dest, ts) = {i \in DOMAIN block.logs : OpenAt(block.logs, dest, i)}
           /\ \A i, j \in OldLogs(block, dest, ts) : i = j
<1> DEFINE logs == block.logs
<1>1. /\ Len(logs) \in Nat /\ DOMAIN logs = 1..Len(logs)
      /\ \A i \in DOMAIN logs : logs[i].b \in Nat
  BY LogFacts DEF LogHolds
<1>2. \A i \in DOMAIN logs : logs[i].dest \in block.filter /\ logs[i].b <= ts
  BY <1>1 DEF LogHolds, LogsHold, LogDests
<1>3. \A i \in DOMAIN logs : i > 1 <=> i \in 2..Len(logs)
  BY <1>1
<1>4. OldLogs(block, dest, ts) = {i \in DOMAIN logs : OpenAt(logs, dest, i)}
  BY <1>1, <1>2, <1>3 DEF OldLogs, OpenAt
<1>5. dest \in DOMAIN G
  BY DEF Chains
<1> QED
  BY <1>4, <1>5 DEF LogHolds, LogsHold

LEMMA LogIsNewIs ==
    ASSUME NEW D, NEW G \in Chains(D), NEW now \in Nat, NEW block, LogHolds(block, G, now),
           NEW dest \in D, NEW ts \in Nat, now <= ts
    PROVE  LogIsNew(block, dest, ts)
             <=> \/ G[dest] = <<>>
                 \/ block.logs # <<>> /\ block.logs[1].dest = dest /\ Len(G[dest]) = 1
<1>1. dest \in DOMAIN G
  BY DEF Chains
<1>2. LogIsNew(block, dest, ts) <=> \A i \in DOMAIN block.logs : ~ OpenAt(block.logs, dest, i)
  BY OldLogsAre DEF LogIsNew
<1>3. ASSUME NEW i \in DOMAIN block.logs, OpenAt(block.logs, dest, i)
      PROVE  /\ G[dest] # <<>>
             /\ block.logs[1].dest = dest => ~ (Len(G[dest]) = 1)
  <2>1. i > 1 /\ block.logs[i].dest = dest
    BY <1>3 DEF OpenAt
  <2>2. Len(G[dest]) \in Nat
    BY PushedLength
  <2>3. G[dest] # <<>>
    BY <2>1 DEF LogHolds, LogsHold
  <2>4. block.logs[1].dest = dest => Len(G[dest]) > 1
    BY <2>1 DEF LogHolds, LogsHold
  <2> DEFINE m == Len(G[dest])
  <2>5. m \in Nat /\ (block.logs[1].dest = dest => m > 1)
    BY <2>2, <2>4
  <2> HIDE DEF m
  <2>6. block.logs[1].dest = dest => ~ (m = 1)
    BY <2>5
  <2> QED
    BY <2>3, <2>6 DEF m
<1> QED
  BY <1>1, <1>2, <1>3 DEF LogHolds, LogsHold

\* Closing the open log and appending a new one keeps the answers right.
LEMMA LogInsertHolds ==
    ASSUME NEW D, NEW G \in Chains(D), NEW now \in Nat, NEW block, LogHolds(block, G, now),
           NEW dest \in D, dest \in Nat, NEW ts \in Nat, now <= ts
    PROVE  LogHolds(LogInsert(block, dest, ts), Pushed(G, dest, ts), ts)
<1> DEFINE logs == block.logs
           old == OldLogs(block, dest, ts)
           closed == IF old = {} THEN logs
                     ELSE [logs EXCEPT ![CHOOSE i \in old : \A j \in old : j <= i].e = ts]
           last == [dest |-> dest, b |-> ts, e |-> Open]
           new == Append(closed, last)
           H == Pushed(G, dest, ts)
           n == Len(logs)
           T == [dest : Nat, b : Nat, e : Nat \cup {Open}]
<1>1. /\ n \in Nat /\ DOMAIN logs = 1..n
      /\ \A i \in 1..n : /\ logs[i] \in T /\ logs[i].dest \in Nat /\ logs[i].b \in Nat
                         /\ logs[i].e \in Nat \/ logs[i].e = Open
      /\ logs = <<>> <=> n = 0
  BY LogFacts DEF LogHolds
<1>2. /\ old = {i \in 1..n : OpenAt(logs, dest, i)}
      /\ \A i, j \in old : i = j
  <2> HIDE DEF n
  <2> QED
    BY <1>1, OldLogsAre
<1>3. /\ H \in Chains(D) /\ H[dest] # <<>> /\ \A d \in D : d # dest => H[d] = G[d]
      /\ Len(G[dest]) \in Nat /\ Len(H[dest]) = Len(G[dest]) + 1
      /\ G[dest] = <<>> <=> Len(G[dest]) = 0
  BY PushedIs, PushedLength
<1>4. DOMAIN G = D /\ DOMAIN H = D
  BY <1>3 DEF Chains
<1>5. Open \notin Nat
  BY LogAssumption
<1>6. \E k \in 0..n :
        /\ old = IF k = 0 THEN {} ELSE {k}
        /\ closed \in Seq(T) /\ Len(closed) = n
        /\ \A i \in 1..n : IF i = k THEN closed[i] = [logs[i] EXCEPT !.e = ts]
                           ELSE closed[i] = logs[i]
  <2>1. logs \in Seq(T)
    BY DEF LogHolds, Logs
  <2>2. CASE old = {}
    <3>1. closed = logs /\ 0 \in 0..n /\ 0 \notin 1..n
      BY <1>1, <2>2
    <3> HIDE DEF T, old, closed
    <3> QED
      BY <2>1, <2>2, <3>1
  <2>3. CASE old # {}
    <3>1. PICK k \in old : TRUE
      BY <2>3
    <3>2. old = {k} /\ k \in 1..n /\ k <= k
      BY <1>1, <1>2, <3>1
    <3>3. (CHOOSE i \in old : \A j \in old : j <= i) = k
      BY <3>2
    <3>4. closed = [logs EXCEPT ![k] = [logs[k] EXCEPT !.e = ts]]
      BY <2>3, <3>3
    <3>5. [logs[k] EXCEPT !.e = ts] \in T
      BY <1>1, <3>2
    <3>6. k \in 0..n /\ k # 0
      BY <1>1, <3>2
    <3> HIDE DEF T, old, closed
    <3>7. closed \in Seq(T) /\ Len(closed) = n
      BY <2>1, <3>2, <3>4, <3>5, ExceptSeq
    <3>8. \A i \in 1..n : IF i = k THEN closed[i] = [logs[i] EXCEPT !.e = ts]
                           ELSE closed[i] = logs[i]
      BY <1>1, <3>2, <3>4
    <3> QED
      BY <3>2, <3>6, <3>7, <3>8
  <2> QED
    BY <2>2, <2>3
<1>7. PICK k \in 0..n :
        /\ old = IF k = 0 THEN {} ELSE {k}
        /\ closed \in Seq(T) /\ Len(closed) = n
        /\ \A i \in 1..n : IF i = k THEN closed[i] = [logs[i] EXCEPT !.e = ts]
                           ELSE closed[i] = logs[i]
  BY <1>6
<1> HIDE DEF closed, old
<1>8. last \in T /\ last.dest = dest /\ last.b = ts /\ last.e = Open
  OBVIOUS
<1> HIDE DEF last
<1>9. /\ new \in Seq(T) /\ Len(new) = n + 1 /\ new[n+1] = last
      /\ \A i \in 1..n : new[i] = closed[i]
  <2> HIDE DEF T, n
  <2> QED
    BY <1>1, <1>7, <1>8, AppendProperties
<1>10. k # 0 => k \in 1..n /\ OpenAt(logs, dest, k)
  BY <1>1, <1>2, <1>7
<1>11. /\ n \in Nat /\ DOMAIN new = 1..n+1 /\ new # <<>>
       /\ new[n+1].dest = dest /\ new[n+1].b = ts /\ new[n+1].e = Open
       /\ \A i \in 1..n+1 : i = n + 1 \/ i \in 1..n
       /\ n + 1 \in 1..n+1 /\ 1 \in 1..n+1
  <2>1. DOMAIN new = 1..n+1 /\ new # <<>>
    <3> HIDE DEF T, n, new
    <3>1. DOMAIN new = 1..Len(new) /\ (new = <<>> <=> Len(new) = 0)
      BY <1>9, LenProperties, EmptySeq
    <3>2. n + 1 # 0
      BY <1>1
    <3> QED
      BY <1>9, <3>1, <3>2
  <2>2. new[n+1].dest = dest /\ new[n+1].b = ts /\ new[n+1].e = Open
    BY <1>8, <1>9
  <2> HIDE DEF new, n
  <2>3. n \in Nat /\ \A i \in 1..n+1 : i = n + 1 \/ i \in 1..n
    BY <1>1
  <2>4. n + 1 \in 1..n+1 /\ 1 \in 1..n+1
    BY <2>3
  <2> QED
    BY <2>1, <2>2, <2>3, <2>4
<1>12. \A i \in 1..n : /\ i \in 1..n+1
                       /\ new[i].dest = logs[i].dest /\ new[i].b = logs[i].b
                       /\ new[i].e = IF i = k THEN ts ELSE logs[i].e
  <2> TAKE i \in 1..n
  <2>1. i \in 1..n+1 /\ logs[i] \in T /\ new[i] = closed[i]
    BY <1>1, <1>9, SMTT(40)
  <2>2. CASE i = k
    <3>1. new[i] = [logs[i] EXCEPT !.e = ts]
      BY <1>7, <2>1, <2>2
    <3> QED
      BY <2>1, <2>2, <3>1
  <2>3. CASE i # k
    BY <1>7, <2>1, <2>3
  <2> QED
    BY <2>2, <2>3
<1> HIDE DEF new, T, n, logs, H
<1>13. \A i \in 1..n : /\ logs[i].dest \in D /\ G[logs[i].dest] # <<>> /\ logs[i].b <= now
                       /\ logs[i].e # Open => logs[i].e <= now
  BY <1>1, <1>4 DEF LogHolds, LogsHold, logs
<1>14. \A i \in 1..n, t \in Nat :
            LogVisible(new[i], t) <=> LogVisible(logs[i], t) /\ (i = k => t < ts)
  <2> TAKE i \in 1..n, t \in Nat
  <2>1. CASE i = k
    <3>1. logs[i].e = Open /\ new[i].e = ts /\ new[i].b = logs[i].b /\ ts # Open
      BY <1>1, <1>5, <1>10, <1>12, <2>1 DEF OpenAt
    <3>2. ts > t <=> t < ts
      OBVIOUS
    <3> QED
      BY <2>1, <3>1, <3>2 DEF LogVisible
  <2>2. CASE i # k
    BY <1>12, <2>2 DEF LogVisible
  <2> QED
    BY <2>1, <2>2
<1>15. \A t \in Nat : LogVisible(new[n+1], t) <=> ts <= t
  BY <1>11 DEF LogVisible
<1>16. \A d \in Doubled(logs, G) : d \in Doubled(new, H)
  <2> TAKE d \in Doubled(logs, G)
  <2>1. d \in D /\ logs # <<>> /\ d = logs[1].dest /\ Len(G[d]) > 1
    BY <1>4 DEF Doubled
  <2>2. 1 \in 1..n /\ new[1].dest = logs[1].dest
    BY <1>1, <1>12, <2>1
  <2>3. Len(H[d]) > 1
    <3>1. CASE d = dest
      <4>1. Len(G[dest]) > 1
        BY <2>1, <3>1
      <4>2. Len(G[dest]) + 1 > 1
        BY <1>3, <4>1
      <4> QED
        BY <1>3, <3>1, <4>2
    <3>2. CASE d # dest
      BY <1>3, <2>1, <3>2
    <3> QED
      BY <3>1, <3>2
  <2> QED
    BY <1>4, <1>11, <2>1, <2>2, <2>3 DEF Doubled
<1>17. ASSUME NEW i \in 1..n+1
       PROVE  /\ new[i].dest \in D /\ H[new[i].dest] # <<>> /\ new[i].b <= ts
              /\ new[i].e # Open => new[i].e <= ts
  <2>1. CASE i = n + 1
    BY <1>3, <1>11, <2>1
  <2>2. CASE i \in 1..n
    <3>1. new[i].dest \in D /\ H[new[i].dest] # <<>>
      BY <1>3, <1>12, <1>13, <2>2
    <3>2. logs[i].b <= ts
      BY <1>1, <1>13, <2>2
    <3>3. new[i].e # Open => new[i].e <= ts
      BY <1>1, <1>12, <1>13, <2>2
    <3> QED
      BY <1>12, <2>2, <3>1, <3>2, <3>3
  <2> QED
    BY <1>11, <2>1, <2>2
<1>18. ASSUME NEW d \in D, NEW t \in Nat
       PROVE  SeenAt(new, d, t) <=> CheckVersion(H[d], t)
  <2>1. SeenAt(logs, d, t) <=> CheckVersion(G[d], t)
    BY <1>4 DEF LogHolds, LogsHold, logs
  <2>2. CheckVersion(H[d], t) <=> CheckVersion(G[d], t) \/ (d = dest /\ ts <= t)
    BY PushedReads DEF H
  <2>3. ASSUME SeenAt(new, d, t) PROVE SeenAt(logs, d, t) \/ (d = dest /\ ts <= t)
    <3>1. PICK i \in 1..n+1 : new[i].dest = d /\ LogVisible(new[i], t)
      BY <1>11, <2>3 DEF SeenAt
    <3> QED
      BY <1>1, <1>11, <1>12, <1>14, <1>15, <3>1 DEF SeenAt
  <2>4. ASSUME d = dest, ts <= t PROVE SeenAt(new, d, t)
    BY <1>11, <1>15, <2>4 DEF SeenAt
  <2>5. ASSUME SeenAt(logs, d, t), ~ (d = dest /\ ts <= t) PROVE SeenAt(new, d, t)
    <3>1. PICK i \in 1..n : logs[i].dest = d /\ LogVisible(logs[i], t)
      BY <1>1, <2>5 DEF SeenAt
    <3>2. i = k => d = dest
      BY <1>10, <3>1 DEF OpenAt
    <3>3. i = k => t < ts
      BY <2>5, <3>2
    <3> QED
      BY <1>11, <1>12, <1>14, <3>1, <3>3 DEF SeenAt
  <2> QED
    BY <2>1, <2>2, <2>3, <2>4, <2>5
<1>19. ASSUME NEW i \in 1..n, NEW t \in Nat, new[i].dest = dest, LogVisible(new[i], t), ts <= t
       PROVE  dest \in Doubled(new, H)
  <2>1. i # k /\ LogVisible(logs[i], t) /\ logs[i].dest = dest
    BY <1>12, <1>14, <1>19
  <2>2. G[dest] # <<>>
    BY <1>13, <2>1
  <2>3. CASE k = 0
    <3>1. \A j \in 1..n : ~ OpenAt(logs, dest, j)
      BY <1>2, <1>7, <2>3
    <3>2. logs # <<>> /\ logs[1].dest = dest /\ Len(G[dest]) = 1
      BY <1>1, <1>4, <2>2, <3>1 DEF LogHolds, LogsHold, logs
    <3>3. 1 \in 1..n /\ new[1].dest = dest
      BY <1>1, <1>12, <3>2
    <3> DEFINE m == Len(G[dest])
    <3>4. m = 1 /\ Len(H[dest]) = m + 1
      BY <1>3, <3>2
    <3> HIDE DEF m
    <3>5. Len(H[dest]) > 1
      BY <3>4
    <3> QED
      BY <1>4, <1>11, <3>3, <3>5 DEF Doubled
  <2>4. CASE k # 0
    <3>1. k \in 1..n /\ logs[k].dest = dest /\ logs[k].e = Open
      BY <1>10, <2>4 DEF OpenAt
    <3>2. logs[k].b <= t
      BY <1>1, <1>13, <1>19, <3>1
    <3>3. LogVisible(logs[k], t)
      BY <3>1, <3>2 DEF LogVisible
    <3>4. dest \in Doubled(logs, G)
      BY <1>1, <2>1, <3>1, <3>3 DEF LogHolds, LogsHold, logs
    <3> QED
      BY <1>16, <3>4
  <2> QED
    BY <2>3, <2>4
<1>20. ASSUME NEW i \in 1..n+1, NEW j \in 1..n+1, NEW t \in Nat, new[i].dest = new[j].dest, i # j,
              LogVisible(new[i], t), LogVisible(new[j], t)
       PROVE  new[i].dest \in Doubled(new, H)
  <2>1. CASE i \in 1..n /\ j \in 1..n
    <3>1. logs[i].dest \in Doubled(logs, G)
      BY <1>1, <1>12, <1>14, <1>20, <2>1 DEF LogHolds, LogsHold, logs
    <3> QED
      BY <1>12, <1>16, <2>1, <3>1
  <2>2. CASE i = n + 1 /\ j \in 1..n
    BY <1>11, <1>15, <1>19, <1>20, <2>2
  <2>3. CASE i \in 1..n /\ j = n + 1
    BY <1>11, <1>15, <1>19, <1>20, <2>3
  <2> QED
    BY <1>11, <1>20, <2>1, <2>2, <2>3
<1>21. ASSUME NEW i \in 1..n, NEW d \in D, OpenAt(new, d, i)
       PROVE  d # dest /\ OpenAt(logs, d, i)
  <2>1. i # k
    BY <1>5, <1>12, <1>21 DEF OpenAt
  <2>2. OpenAt(logs, d, i)
    BY <1>12, <1>21, <2>1 DEF OpenAt
  <2>3. d = dest => i \in old
    BY <1>2, <2>2
  <2> QED
    BY <1>7, <2>1, <2>2, <2>3
<1>22. ASSUME NEW i \in 1..n+1, NEW j \in 1..n+1, NEW d \in D, OpenAt(new, d, i), OpenAt(new, d, j)
       PROVE  i = j
  <2>1. CASE d = dest
    BY <1>11, <1>21, <1>22, <2>1
  <2>2. CASE d # dest
    <3>1. i \in 1..n /\ j \in 1..n
      BY <1>11, <1>22, <2>2 DEF OpenAt
    <3>2. OpenAt(logs, d, i) /\ OpenAt(logs, d, j)
      BY <1>21, <1>22, <3>1
    <3> QED
      BY <1>1, <1>4, <3>1, <3>2 DEF LogHolds, LogsHold, logs
  <2> QED
    BY <2>1, <2>2
<1>23. ASSUME NEW d \in D
       PROVE  \/ H[d] = <<>>
              \/ new # <<>> /\ new[1].dest = d /\ Len(H[d]) = 1
              \/ \E i \in 1..n+1 : OpenAt(new, d, i)
  <2>1. \/ G[d] = <<>>
        \/ logs # <<>> /\ logs[1].dest = d /\ Len(G[d]) = 1
        \/ \E i \in 1..n : OpenAt(logs, d, i)
    BY <1>1, <1>4 DEF LogHolds, LogsHold, logs
  <2>2. CASE d = dest /\ n = 0
    <3>1. G[d] = <<>> /\ new[1].dest = dest
      BY <1>1, <1>11, <2>1, <2>2
    <3> QED
      BY <1>3, <1>11, <2>2, <3>1
  <2>3. CASE d = dest /\ n # 0
    <3>1. n + 1 > 1
      BY <1>11, <2>3
    <3> QED
      BY <1>11, <2>3, <3>1 DEF OpenAt
  <2>4. CASE d # dest
    <3>1. H[d] = G[d]
      BY <1>3, <2>4
    <3>2. logs # <<>> => 1 \in 1..n /\ new[1].dest = logs[1].dest
      BY <1>1, <1>12
    <3>3. ASSUME NEW i \in 1..n, OpenAt(logs, d, i) PROVE OpenAt(new, d, i)
      BY <1>10, <1>12, <2>4, <3>3 DEF OpenAt
    <3> QED
      BY <1>11, <1>12, <2>1, <3>1, <3>2, <3>3
  <2> QED
    BY <2>2, <2>3, <2>4
<1>24. ASSUME NEW i \in 1..n+1, i > 1, new[i].dest = new[1].dest
       PROVE  Len(H[new[i].dest]) > 1
  <2>1. 1 \in 1..n /\ new[1].dest = logs[1].dest
    BY <1>11, <1>12, <1>24
  <2>2. CASE i = n + 1
    <3>1. G[dest] # <<>>
      BY <1>11, <1>13, <1>24, <2>1, <2>2
    <3> QED
      BY <1>3, <1>11, <2>2, <3>1
  <2>3. CASE i \in 1..n
    <3>1. logs[i].dest = logs[1].dest /\ new[i].dest = logs[i].dest /\ logs[i].dest \in D
      BY <1>12, <1>13, <1>24, <2>1, <2>3
    <3>2. Len(G[logs[i].dest]) > 1
      BY <1>1, <1>24, <2>3, <3>1 DEF LogHolds, LogsHold, logs
    <3>3. CASE logs[i].dest = dest
      <4>1. Len(G[dest]) + 1 > 1
        BY <1>3, <3>2, <3>3
      <4> QED
        BY <1>3, <3>1, <3>3, <4>1
    <3>4. CASE logs[i].dest # dest
      BY <1>3, <3>1, <3>2, <3>4
    <3> QED
      BY <3>3, <3>4
  <2> QED
    BY <1>11, <2>2, <2>3
<1>25. LogsHold(new, H, ts)
  BY <1>4, <1>11, <1>17, <1>18, <1>20, <1>22, <1>23, <1>24 DEF LogsHold
<1> DEFINE result == LogInsert(block, dest, ts)
<1>26. /\ result = [logs |-> result.logs, filter |-> result.filter] /\ result.logs = new
       /\ result.filter = IF Len(new) \in FilterSizes THEN LogDests(new) ELSE block.filter \cup {dest}
  BY DEF LogInsert, RebuiltFilter, new, closed, old, last, logs
<1>27. LogDests(new) \subseteq result.filter
  <2>1. \A i \in 1..n : logs[i].dest \in block.filter
    BY <1>1 DEF LogHolds, LogDests, logs
  <2>2. \A i \in 1..n+1 : new[i].dest \in block.filter \cup {dest}
    BY <1>11, <1>12, <2>1
  <2>3. LogDests(new) \subseteq block.filter \cup {dest}
    BY <1>11, <2>2 DEF LogDests
  <2> QED
    BY <1>26, <2>3
<1>28. new \in Logs
  BY <1>9 DEF Logs, T
<1> HIDE DEF result
<1> QED
  BY <1>25, <1>26, <1>27, <1>28 DEF LogHolds, H, result

LEMMA LogHasEdgeIs ==
    ASSUME NEW D, NEW G \in Chains(D), NEW now \in Nat, NEW block, LogHolds(block, G, now),
           NEW dest \in D, NEW ts \in Nat
    PROVE  LogHasEdge(block, dest, ts) <=> CheckVersion(G[dest], ts)
<1>1. dest \in DOMAIN G
  BY DEF Chains
<1>2. SeenAt(block.logs, dest, ts) <=> CheckVersion(G[dest], ts)
  BY <1>1 DEF LogHolds, LogsHold
<1>3. SeenAt(block.logs, dest, ts) => dest \in block.filter
  BY DEF SeenAt, LogHolds, LogDests
<1> QED
  BY <1>2, <1>3 DEF LogHasEdge, SeenAt

\* A scan of the logs yields what is visible, twice only what has two open logs.
LEMMA LogEdgesIs ==
    ASSUME NEW D, NEW G \in Chains(D), NEW now \in Nat, NEW block, LogHolds(block, G, now),
           NEW ts \in Nat
    PROVE  /\ LogEdges(block, ts) \in Seq(Nat)
           /\ Range(LogEdges(block, ts)) = {d \in D : CheckVersion(G[d], ts)}
           /\ \A i, j \in DOMAIN LogEdges(block, ts) :
                i # j /\ LogEdges(block, ts)[i] = LogEdges(block, ts)[j]
                => LogEdges(block, ts)[i] \in Doubled(block.logs, G)
<1> DEFINE logs == block.logs
           n == Len(logs)
           latest == Reverse(logs)
           s == [i \in DOMAIN latest |-> latest[i].dest]
           keep == {i \in DOMAIN latest : LogVisible(latest[i], ts)}
           out == LogEdges(block, ts)
<1>1. /\ n \in Nat /\ DOMAIN logs = 1..n
      /\ \A i \in 1..n : logs[i].dest \in Nat
  BY LogFacts DEF LogHolds
<1>2. DOMAIN latest = 1..n /\ \A i \in 1..n : latest[i] = logs[n - i + 1]
  BY DEF Reverse
<1>3. \A i \in 1..n : n - i + 1 \in 1..n /\ n - (n - i + 1) + 1 = i
  BY <1>1
<1>4. out = Picked(s, keep)
  BY DEF LogEdges
<1> HIDE DEF logs, n, latest, out
<1>5. s \in Seq(Nat) /\ Len(s) = n /\ \A i \in 1..n : s[i] = logs[n - i + 1].dest
  <2>1. \A i \in 1..n : latest[i].dest \in Nat
    BY <1>1, <1>2, <1>3
  <2>2. s = [i \in 1..n |-> latest[i].dest]
    BY <1>2
  <2> HIDE DEF s
  <2>3. s \in Seq(Nat) /\ Len(s) = n
    BY <1>1, <2>1, <2>2
  <2>4. \A i \in 1..n : s[i] = logs[n - i + 1].dest
    BY <1>2, <2>2
  <2> QED
    BY <2>3, <2>4
<1>6. keep \in SUBSET (1..Len(s)) /\ \A i \in 1..n : i \in keep <=> LogVisible(logs[n - i + 1], ts)
  BY <1>2, <1>5
<1> HIDE DEF s, keep
<1>7. out \in Seq(Nat) /\ \E f : /\ PickedBy(s, keep, out, f)
                                 /\ \A i \in keep : \E k \in 1..Len(out) : f[k] = i
  <2>1. s \in Seq(Nat) /\ keep \in SUBSET (1..Len(s))
    BY <1>5, <1>6
  <2> QED
    BY <1>4, <2>1, PickedIs
<1>8. PICK f : /\ PickedBy(s, keep, out, f)
               /\ \A i \in keep : \E k \in 1..Len(out) : f[k] = i
  BY <1>7
<1>9. DOMAIN out = 1..Len(out)
  BY <1>7, LenProperties
<1> DEFINE g(k) == n - f[k] + 1
<1>10. ASSUME NEW k \in 1..Len(out)
       PROVE  /\ f[k] \in 1..n /\ g(k) \in 1..n
              /\ out[k] = logs[g(k)].dest /\ LogVisible(logs[g(k)], ts)
  <2>1. f[k] \in keep /\ out[k] = s[f[k]]
    BY <1>8 DEF PickedBy
  <2>2. f[k] \in 1..n
    BY <1>5, <1>6, <2>1
  <2> QED
    BY <1>3, <1>5, <1>6, <2>1, <2>2
<1>11. ASSUME NEW i \in 1..n, LogVisible(logs[i], ts)
       PROVE  \E k \in 1..Len(out) : g(k) = i
  <2>1. n - i + 1 \in keep
    BY <1>3, <1>6, <1>11
  <2> QED
    BY <1>3, <1>8, <2>1
<1>12. ASSUME NEW i \in 1..Len(out), NEW j \in 1..Len(out), i # j
       PROVE  g(i) # g(j)
  <2>1. f[i] # f[j]
    <3>1. f[i] \in Nat /\ f[j] \in Nat
      BY <1>1, <1>10
    <3>2. i \in Int /\ j \in Int
      OBVIOUS
    <3>3. (i < j => f[i] < f[j]) /\ (j < i => f[j] < f[i])
      BY <1>8 DEF PickedBy
    <3> QED
      BY <1>12, <3>1, <3>2, <3>3
  <2>2. f[i] \in 1..n /\ f[j] \in 1..n
    BY <1>10
  <2> QED
    BY <1>1, <2>1, <2>2
<1> HIDE DEF g
<1>13. ASSUME NEW i \in DOMAIN out, NEW j \in DOMAIN out, i # j, out[i] = out[j]
       PROVE  out[i] \in Doubled(logs, G)
  <2>1. g(i) \in DOMAIN logs /\ g(j) \in DOMAIN logs /\ g(i) # g(j)
    BY <1>1, <1>9, <1>10, <1>12, <1>13
  <2>2. /\ logs[g(i)].dest = logs[g(j)].dest /\ out[i] = logs[g(i)].dest
        /\ LogVisible(logs[g(i)], ts) /\ LogVisible(logs[g(j)], ts)
    BY <1>9, <1>10, <1>13
  <2> QED
    BY <2>1, <2>2 DEF LogHolds, LogsHold, logs
<1>14. \A d \in D : SeenAt(logs, d, ts) <=> CheckVersion(G[d], ts)
  BY DEF LogHolds, LogsHold, logs, Chains
<1>15. \A i \in 1..n : logs[i].dest \in D
  BY <1>1 DEF LogHolds, LogsHold, logs, Chains
<1>16. ASSUME NEW d \in D
       PROVE  SeenAt(logs, d, ts) <=> \E k \in 1..Len(out) : out[k] = d
  <2>1. ASSUME NEW k \in 1..Len(out), out[k] = d PROVE SeenAt(logs, d, ts)
    BY <1>1, <1>10, <2>1 DEF SeenAt
  <2>2. ASSUME NEW i \in 1..n, logs[i].dest = d, LogVisible(logs[i], ts)
        PROVE  \E k \in 1..Len(out) : out[k] = d
    BY <1>10, <1>11, <2>2
  <2> QED
    BY <1>1, <2>1, <2>2 DEF SeenAt
<1>17. Range(out) = {d \in D : CheckVersion(G[d], ts)}
  <2>1. Range(out) = {out[k] : k \in 1..Len(out)}
    BY <1>9 DEF Range
  <2>2. \A k \in 1..Len(out) : out[k] \in D
    BY <1>10, <1>15
  <2> QED
    BY <1>14, <1>16, <2>1, <2>2
<1> QED
  BY <1>7, <1>13, <1>17 DEF out, logs

-----------------------------------------------------------------------------
(* The skip list *)

Nexts == [Levels -> Nat]
Block == [ents : Entries, max : Nat, next : Nexts]

\* The height of every block, drawn or to be drawn; the head is on every level.
HeightsFit(H) == H \in [Nat -> 1..SkipLevels] /\ H[1] = SkipLevels

\* The blocks that belong on level l.
On(list, H, l) == {c \in DOMAIN list : l < H[c]}

\* The link of block c on level l leads to the next greater block there.
IsNext(list, H, c, l) ==
    /\ list[c].next[l] \in {NullBlock} \cup On(list, H, l)
    /\ list[c].next[l] # NullBlock => list[c].max < list[list[c].next[l]].max
    /\ \A d \in On(list, H, l) : list[c].max < list[d].max =>
            list[c].next[l] # NullBlock /\ list[list[c].next[l]].max <= list[d].max

Shape(list, H) ==
    /\ list \in Seq(Block) /\ list # <<>>
    /\ \A c, d \in DOMAIN list : list[c].max = list[d].max => c = d
    /\ \A c \in DOMAIN list : list[1].max <= list[c].max
    /\ \A l \in Levels : \A c \in On(list, H, l) : IsNext(list, H, c, l)

\* What the blocks keep, each after those with a smaller max.
Stored(list) ==
    /\ \A c \in DOMAIN list : Sorted(list[c].ents)
    /\ \A c \in DOMAIN list : list[c].ents # <<>> => list[c].max = Last(list[c].ents).dest
    /\ \A c \in DOMAIN list : list[c].ents = <<>> => Len(list) = 1
    /\ \A c, d \in DOMAIN list : list[c].max < list[d].max =>
            \A i \in DOMAIN list[d].ents : list[c].max < list[d].ents[i].dest

Holding(list, G) ==
    /\ \A c \in DOMAIN list : Content(list[c].ents, G)
    /\ \A d \in DOMAIN G : G[d] # <<>> => \E c \in DOMAIN list : d \in Dests(list[c].ents)

ListHolds(list, G, H) == Shape(list, H) /\ Stored(list) /\ Holding(list, G)

LEMMA BlockFacts ==
    ASSUME NEW list \in Seq(Block)
    PROVE  /\ Len(list) \in Nat /\ DOMAIN list = 1..Len(list)
           /\ \A c \in DOMAIN list : /\ list[c] \in Block
                                     /\ list[c].ents \in Entries /\ list[c].max \in Nat
                                     /\ list[c].next \in Nexts
           /\ list = <<>> <=> Len(list) = 0
<1>1. /\ Len(list) \in Nat /\ DOMAIN list = 1..Len(list)
      /\ \A c \in DOMAIN list : list[c] \in Block
      /\ list = <<>> <=> Len(list) = 0
  <2> HIDE DEF Block
  <2> QED
    BY LenProperties, EmptySeq
<1>2. \A block \in Block : block.ents \in Entries /\ block.max \in Nat /\ block.next \in Nexts
  BY DEF Block
<1> QED
  BY <1>1, <1>2

LEMMA LevelFacts ==
    /\ SkipLevels \in Nat /\ SkipLevels >= 1 /\ Levels = 0..SkipLevels-1 /\ 0 \in Levels
    /\ NullBlock = 0 /\ HeadBlock = 1
    /\ \A l \in Levels : l \in Nat
BY SkipListAssumption DEF Levels, NullBlock, HeadBlock

LEMMA ShapeFacts ==
    ASSUME NEW list, NEW H, HeightsFit(H), Shape(list, H)
    PROVE  /\ Len(list) \in Nat /\ DOMAIN list = 1..Len(list) /\ 1 \in DOMAIN list
           /\ \A c \in DOMAIN list : c \in Nat /\ c # NullBlock /\ list[c].max \in Nat
           /\ \A l \in Levels : /\ HeadBlock \in On(list, H, l)
                                /\ On(list, H, l) \subseteq DOMAIN list
           /\ On(list, H, 0) = DOMAIN list
<1>1. /\ Len(list) \in Nat /\ DOMAIN list = 1..Len(list)
      /\ \A c \in DOMAIN list : list[c].max \in Nat
      /\ list = <<>> <=> Len(list) = 0
  BY BlockFacts DEF Shape
<1>2. 1 \in DOMAIN list
  BY <1>1 DEF Shape
<1>3. \A l \in Levels : l < SkipLevels /\ l < H[1]
  BY LevelFacts DEF HeightsFit
<1>4. \A c \in DOMAIN list : c \in Nat /\ c # 0 /\ H[c] \in Nat /\ 0 < H[c]
  <2>1. \A c \in DOMAIN list : c \in Nat /\ c # 0
    BY <1>1
  <2>2. \A c \in Nat : H[c] \in Nat /\ 0 < H[c]
    BY LevelFacts DEF HeightsFit
  <2> QED
    BY <2>1, <2>2
<1> QED
  BY <1>1, <1>2, <1>3, <1>4, LevelFacts DEF On

\* How many blocks come before block c.
Rank(list, c) == Cardinality({d \in DOMAIN list : list[d].max < list[c].max})

LEMMA RankIs ==
    ASSUME NEW list, NEW H, HeightsFit(H), Shape(list, H), NEW c \in DOMAIN list
    PROVE  /\ Rank(list, c) \in Nat /\ Rank(list, c) < Len(list)
           /\ \A d \in DOMAIN list : list[c].max < list[d].max => Rank(list, c) < Rank(list, d)
<1> DEFINE n == Len(list)
           B(d) == {a \in DOMAIN list : list[a].max < list[d].max}
<1>1. /\ n \in Nat /\ DOMAIN list = 1..n
      /\ \A d \in DOMAIN list : list[d].max \in Nat
  BY ShapeFacts
<1>2. IsFiniteSet(DOMAIN list) /\ Cardinality(DOMAIN list) = n
  <2> HIDE DEF n
  <2>1. 1 \in Int /\ n \in Int
    BY <1>1
  <2>2. IsFiniteSet(1..n) /\ Cardinality(1..n) = IF 1 > n THEN 0 ELSE n - 1 + 1
    BY <2>1, FS_Interval
  <2> QED
    BY <1>1, <2>2
<1>3. \A d \in DOMAIN list : /\ B(d) \subseteq DOMAIN list /\ d \notin B(d)
                             /\ IsFiniteSet(B(d)) /\ Cardinality(B(d)) \in Nat
  <2> TAKE d \in DOMAIN list
  <2>1. B(d) \subseteq DOMAIN list
    OBVIOUS
  <2>2. IsFiniteSet(B(d)) /\ Cardinality(B(d)) \in Nat
    <3> HIDE DEF B
    <3> QED
      BY <1>2, <2>1, FS_Subset, FS_CardinalityType
  <2>3. d \notin B(d)
    BY <1>1
  <2> QED
    BY <2>1, <2>2, <2>3
<1>4. B(c) # DOMAIN list
  BY <1>3
<1>5. Cardinality(B(c)) < n
  <2> HIDE DEF B, n
  <2>1. /\ Cardinality(B(c)) <= Cardinality(DOMAIN list)
        /\ Cardinality(B(c)) = Cardinality(DOMAIN list) => B(c) = DOMAIN list
    BY <1>2, <1>3, FS_Subset
  <2> QED
    BY <1>1, <1>2, <1>3, <1>4, <2>1
<1>6. ASSUME NEW d \in DOMAIN list, list[c].max < list[d].max
      PROVE  Cardinality(B(c)) < Cardinality(B(d))
  <2>1. B(c) \subseteq B(d)
    <3>1. \A a \in DOMAIN list : list[a].max < list[c].max => list[a].max < list[d].max
      BY <1>1, <1>6
    <3> QED
      BY <3>1
  <2>2. c \in B(d)
    BY <1>6
  <2> HIDE DEF B
  <2>3. B(c) # B(d)
    BY <1>3, <2>2
  <2>4. /\ Cardinality(B(c)) <= Cardinality(B(d))
        /\ Cardinality(B(c)) = Cardinality(B(d)) => B(c) = B(d)
    BY <1>3, <2>1, FS_Subset
  <2> QED
    BY <1>3, <2>3, <2>4
<1> QED
  BY <1>3, <1>5, <1>6 DEF Rank

LEMMA AdvanceIs ==
    ASSUME NEW list, NEW H, HeightsFit(H), Shape(list, H), NEW l \in Levels,
           NEW c \in On(list, H, l), NEW dest
    PROVE  LET a == Advance(list, c, l, dest)
               x == list[c].next[l]
           IN  /\ a \in On(list, H, l)
               /\ ~ Passes(list, x, dest) => a = c
               /\ Passes(list, x, dest) => /\ a = x /\ Passes(list, a, dest)
                                           /\ list[c].max < list[a].max
<1>1. c \in DOMAIN list /\ IsNext(list, H, c, l)
  BY ShapeFacts DEF Shape
<1>2. CASE Passes(list, list[c].next[l], dest)
  <2>1. list[c].next[l] # NullBlock
    BY <1>2 DEF Passes
  <2>2. list[c].next[l] \in On(list, H, l) /\ list[c].max < list[list[c].next[l]].max
    BY <1>1, <2>1 DEF IsNext
  <2> QED
    BY <1>2, <2>2 DEF Advance
<1>3. CASE ~ Passes(list, list[c].next[l], dest)
  BY <1>3 DEF Advance
<1> QED
  BY <1>2, <1>3

LEMMA WalkLevelLoop ==
    ASSUME NEW list, NEW H, HeightsFit(H), Shape(list, H), NEW l \in Levels,
           NEW b \in On(list, H, l), NEW dest
    PROVE  \E at \in [0..Len(list) -> On(list, H, l)] :
                /\ WalkLevel(list, b, l, dest) = at[Len(list)] /\ at[0] = b
                /\ \A n \in 1..Len(list) : at[n] = Advance(list, at[n-1], l, dest)
<1> DEFINE L == Len(list)
           S == On(list, H, l)
           step == [n \in 1..L |-> [c \in S |-> Advance(list, c, l, dest)]]
<1>1. L \in Nat
  BY ShapeFacts
<1>2. \A c \in S : Advance(list, c, l, dest) \in S
  BY AdvanceIs
<1>3. step \in [1..L -> [S -> S]]
  BY <1>2
<1> HIDE DEF L, S
<1>4. PICK g \in [0..L -> S] : g[0] = b /\ \A n \in 1..L : g[n] = step[n][g[n-1]]
  <2>1. b \in S
    BY DEF S
  <2> HIDE DEF step
  <2> QED
    BY <1>1, <1>3, <2>1, Recursion
<1>5. \A n \in 1..L : n - 1 \in 0..L /\ g[n-1] \in S /\ g[n] = Advance(list, g[n-1], l, dest)
  <2> TAKE n \in 1..L
  <2>1. n - 1 \in 0..L
    BY <1>1
  <2> QED
    BY <1>4, <2>1
<1> HIDE DEF step
<1> DEFINE Loop(h) == h = [n \in 0..L |-> IF n = 0 THEN b ELSE Advance(list, h[n-1], l, dest)]
<1>6. Loop(g)
  <2>1. ASSUME NEW n \in 0..L PROVE g[n] = IF n = 0 THEN b ELSE Advance(list, g[n-1], l, dest)
    <3>1. n = 0 \/ n \in 1..L
      BY <1>1
    <3> QED
      BY <1>1, <1>4, <1>5, <3>1
  <2> QED
    BY <2>1
<1>7. WalkLevel(list, b, l, dest) = (CHOOSE h : Loop(h))[L]
  BY DEF WalkLevel, L
<1> DEFINE f == CHOOSE h : Loop(h)
<1>8. Loop(f)
  BY <1>6
<1> HIDE DEF f
<1>9. /\ f[0] = b
      /\ \A n \in 1..L : f[n] = Advance(list, f[n-1], l, dest)
  <2>1. \A n \in 0..L : f[n] = IF n = 0 THEN b ELSE Advance(list, f[n-1], l, dest)
    BY <1>8
  <2> QED
    BY <1>1, <2>1
<1>10. \A n \in 0..L : f[n] \in S
  <2> DEFINE A == {n \in 0..L : f[n] \in S}
  <2>1. 0 \in A
    BY <1>1, <1>9 DEF S
  <2>2. ASSUME NEW n \in 1..L, n - 1 \in A PROVE n \in A
    <3>1. n \in 0..L
      BY <1>1
    <3> QED
      BY <1>2, <1>9, <2>2, <3>1
  <2> HIDE DEF A
  <2>3. 0..L \subseteq A
    BY <1>1, <2>1, <2>2, LoopInduction
  <2> QED
    BY <2>3 DEF A
<1>11. f \in [0..L -> S]
  <2>1. f = [n \in 0..L |-> f[n]]
    BY <1>8
  <2> QED
    BY <1>10, <2>1
<1> QED
  BY <1>7, <1>9, <1>11 DEF f, L, S

\* The walk on a level stops in front of a block it may not step over.
LEMMA WalkLevelIs ==
    ASSUME NEW list, NEW H, HeightsFit(H), Shape(list, H), NEW l \in Levels,
           NEW b \in On(list, H, l), NEW dest
    PROVE  LET a == WalkLevel(list, b, l, dest)
           IN  /\ a \in On(list, H, l)
               /\ a = b \/ Passes(list, a, dest)
               /\ ~ Passes(list, list[a].next[l], dest)
<1> DEFINE L == Len(list)
           S == On(list, H, l)
           Stuck(c) == ~ Passes(list, list[c].next[l], dest)
<1>1. L \in Nat /\ S \subseteq DOMAIN list
  BY ShapeFacts
<1>2. PICK at \in [0..L -> S] :
        /\ WalkLevel(list, b, l, dest) = at[L] /\ at[0] = b
        /\ \A n \in 1..L : at[n] = Advance(list, at[n-1], l, dest)
  BY WalkLevelLoop
<1> DEFINE Good(n) == /\ at[n] = b \/ Passes(list, at[n], dest)
                      /\ Stuck(at[n]) \/ Rank(list, at[n]) >= n
           A == {n \in 0..L : Good(n)}
<1> HIDE DEF L, S
<1>3. \A c \in S : Rank(list, c) \in Nat /\ Rank(list, c) < L
  BY <1>1, RankIs DEF L
<1>4. 0 \in A
  <2>1. 0 \in 0..L /\ at[0] \in S
    BY <1>1
  <2>2. Rank(list, at[0]) >= 0
    BY <1>3, <2>1
  <2> QED
    BY <1>2, <2>1, <2>2
<1>5. ASSUME NEW n \in 1..L, n - 1 \in A PROVE n \in A
  <2>1. n \in 0..L /\ n - 1 \in 0..L /\ at[n-1] \in S /\ at[n] \in S /\ n \in Nat
    BY <1>1, <1>5
  <2>2. Good(n-1)
    BY <1>5
  <2> DEFINE c == at[n-1]
  <2>3. at[n] = Advance(list, c, l, dest)
    BY <1>2
  <2>4. CASE Stuck(c)
    <3>1. at[n] = c
      BY <2>1, <2>3, <2>4, AdvanceIs DEF S
    <3> QED
      BY <2>1, <2>2, <2>4, <3>1
  <2>5. CASE ~ Stuck(c)
    <3>1. Passes(list, at[n], dest) /\ list[c].max < list[at[n]].max
      BY <2>1, <2>3, <2>5, AdvanceIs DEF S
    <3>2. Rank(list, c) < Rank(list, at[n])
      BY <1>1, <2>1, <3>1, RankIs
    <3>3. Rank(list, c) \in Nat /\ Rank(list, at[n]) \in Nat /\ Rank(list, c) >= n - 1
      BY <1>3, <2>1, <2>2, <2>5
    <3> HIDE DEF c
    <3>4. Rank(list, at[n]) >= n
      BY <2>1, <3>2, <3>3
    <3> QED
      BY <2>1, <3>1, <3>4
  <2> QED
    BY <2>4, <2>5
<1>6. L \in A
  <2> HIDE DEF A
  <2>1. 0..L \subseteq A
    BY <1>1, <1>4, <1>5, LoopInduction
  <2> QED
    BY <1>1, <2>1
<1>7. at[L] \in S /\ (at[L] = b \/ Passes(list, at[L], dest)) /\ Stuck(at[L])
  <2>1. at[L] \in S
    BY <1>1
  <2>2. Rank(list, at[L]) \in Nat /\ Rank(list, at[L]) < L
    BY <1>3, <2>1
  <2>3. ~ (Rank(list, at[L]) >= L)
    BY <1>1, <2>2
  <2> QED
    BY <1>6, <2>1, <2>3
<1> HIDE DEF A
<1> QED
  BY <1>2, <1>7 DEF S

\* Where find_block leaves level l.
Left(list, H, p, l, dest) ==
    /\ p \in On(list, H, l)
    /\ p = HeadBlock \/ Passes(list, p, dest)
    /\ ~ Passes(list, list[p].next[l], dest)

LEMMA PathAtIs ==
    ASSUME NEW list, NEW H, HeightsFit(H), Shape(list, H), NEW dest, NEW l \in Levels
    PROVE  Left(list, H, PathAt(list, dest, l), l, dest)
<1> DEFINE S == DOMAIN list
           K == SkipLevels
           Walk(n, c) == WalkLevel(list, c, K - n, dest)
           Low(n, c) == c \in S /\ H[c] >= K - n
           step == [n \in 1..K |-> [c \in S |-> IF Low(n - 1, c) THEN Walk(n, c) ELSE HeadBlock]]
<1>1. /\ K \in Nat /\ K >= 1 /\ Levels = 0..K-1
      /\ \A n \in 1..K : K - n \in Levels
  BY LevelFacts
<1>2. /\ HeadBlock \in S /\ H[HeadBlock] = K
      /\ \A c \in S : H[c] \in Nat
  <2>1. HeadBlock \in S /\ H[HeadBlock] = K /\ \A c \in S : c \in Nat
    BY ShapeFacts, LevelFacts DEF HeightsFit
  <2>2. \A c \in Nat : H[c] \in Nat
    BY LevelFacts DEF HeightsFit
  <2> HIDE DEF S
  <2> QED
    BY <2>1, <2>2
<1>3. ASSUME NEW n \in 1..K, NEW c, Low(n - 1, c), c = HeadBlock \/ Passes(list, c, dest)
      PROVE  Left(list, H, Walk(n, c), K - n, dest) /\ Low(n, Walk(n, c))
  <2>1. K - n \in Levels /\ c \in On(list, H, K - n)
    BY <1>1, <1>2, <1>3 DEF On
  <2> DEFINE lev == K - n
  <2>2. lev \in Levels
    BY <2>1
  <2> HIDE DEF lev, K
  <2>3. Left(list, H, WalkLevel(list, c, lev, dest), lev, dest)
    BY <1>3, <2>1, <2>2, WalkLevelIs DEF Left, lev
  <2>4. WalkLevel(list, c, lev, dest) \in S /\ lev < H[WalkLevel(list, c, lev, dest)]
    BY <2>3 DEF Left, On
  <2>5. lev \in Nat
    BY <2>2, LevelFacts
  <2>6. H[WalkLevel(list, c, lev, dest)] >= lev
    BY <1>2, <2>4, <2>5
  <2> QED
    BY <2>3, <2>4, <2>6 DEF lev
<1>4. step \in [1..K -> [S -> S]]
  <2>1. \A n \in 1..K, c \in S : (IF Low(n - 1, c) THEN Walk(n, c) ELSE HeadBlock) \in S
    <3> TAKE n \in 1..K, c \in S
    <3>1. CASE Low(n - 1, c)
      <4>1. K - n \in Levels /\ c \in On(list, H, K - n)
        BY <1>1, <1>2, <3>1 DEF On
      <4>2. Walk(n, c) \in On(list, H, K - n)
        BY <4>1, WalkLevelIs
      <4> QED
        BY <3>1, <4>2 DEF On
    <3>2. CASE ~ Low(n - 1, c)
      BY <1>2, <3>2
    <3> QED
      BY <3>1, <3>2
  <2> HIDE DEF Low, Walk, K, S
  <2> QED
    BY <2>1
<1> HIDE DEF K, S, Walk, Low
<1>5. PICK g \in [0..K -> S] : g[0] = HeadBlock /\ \A n \in 1..K : g[n] = step[n][g[n-1]]
  <2>1. K \in Nat /\ HeadBlock \in S
    BY <1>1, <1>2
  <2> HIDE DEF step
  <2> QED
    BY <2>1, <1>4, Recursion
<1>6. \A n \in 1..K : /\ n - 1 \in 0..K /\ g[n-1] \in S
                      /\ g[n] = IF Low(n - 1, g[n-1]) THEN Walk(n, g[n-1]) ELSE HeadBlock
  <2> TAKE n \in 1..K
  <2>1. n - 1 \in 0..K
    BY <1>1
  <2> QED
    BY <1>5, <2>1
<1> HIDE DEF step
<1> DEFINE Good(n, c) == Low(n, c) /\ (c = HeadBlock \/ Passes(list, c, dest))
<1>7. ASSUME NEW n \in 1..K, NEW c, Good(n - 1, c)
      PROVE  Good(n, Walk(n, c)) /\ Left(list, H, Walk(n, c), K - n, dest)
  BY <1>3, <1>7 DEF Left
<1>8. Good(0, HeadBlock)
  BY <1>1, <1>2 DEF Low
<1> HIDE DEF Good
<1>9. \A n \in 0..K : Good(n, g[n])
  <2> DEFINE A == {n \in 0..K : Good(n, g[n])}
  <2>1. 0 \in A
    BY <1>1, <1>5, <1>8
  <2>2. ASSUME NEW n \in 1..K, n - 1 \in A PROVE n \in A
    <3>1. Good(n - 1, g[n-1]) /\ n \in 0..K
      BY <1>1, <2>2
    <3>2. Low(n - 1, g[n-1])
      BY <3>1 DEF Good
    <3> QED
      BY <1>6, <1>7, <3>1, <3>2
  <2> HIDE DEF A
  <2>3. 0..K \subseteq A
    BY <1>1, <2>1, <2>2, LoopInduction
  <2> QED
    BY <2>3 DEF A
<1>10. \A n \in 1..K : g[n] = Walk(n, g[n-1])
  BY <1>6, <1>9 DEF Good
<1> DEFINE Loop(h) == h = [n \in 0..K |-> IF n = 0 THEN HeadBlock ELSE Walk(n, h[n-1])]
<1>11. Loop(g)
  <2>1. ASSUME NEW n \in 0..K PROVE g[n] = IF n = 0 THEN HeadBlock ELSE Walk(n, g[n-1])
    <3>1. n = 0 \/ n \in 1..K
      BY <1>1
    <3> QED
      BY <1>1, <1>5, <1>10, <3>1
  <2> QED
    BY <2>1
<1> DEFINE f == CHOOSE h : Loop(h)
<1>12. PathAt(list, dest, l) = f[K - l]
  BY DEF PathAt, Walk, K
<1>13. Loop(f)
  BY <1>11
<1> HIDE DEF f
<1>14. /\ f[0] = HeadBlock
       /\ \A n \in 1..K : f[n] = Walk(n, f[n-1])
  <2>1. \A n \in 0..K : f[n] = IF n = 0 THEN HeadBlock ELSE Walk(n, f[n-1])
    BY <1>13
  <2> QED
    BY <1>1, <2>1
<1>15. \A n \in 0..K : Good(n, f[n])
  <2> DEFINE A == {n \in 0..K : Good(n, f[n])}
  <2>1. 0 \in A
    BY <1>1, <1>8, <1>14
  <2>2. ASSUME NEW n \in 1..K, n - 1 \in A PROVE n \in A
    <3>1. Good(n - 1, f[n-1]) /\ n \in 0..K
      BY <1>1, <2>2
    <3> QED
      BY <1>7, <1>14, <3>1
  <2> HIDE DEF A
  <2>3. 0..K \subseteq A
    BY <1>1, <2>1, <2>2, LoopInduction
  <2> QED
    BY <2>3 DEF A
<1>16. K - l \in 1..K /\ (K - l) - 1 \in 0..K /\ K - (K - l) = l
  BY <1>1
<1> DEFINE n == K - l
<1>17. n \in 1..K /\ n - 1 \in 0..K /\ K - n = l
  BY <1>16
<1>18. PathAt(list, dest, l) = f[n]
  BY <1>12
<1> HIDE DEF n
<1>19. Good(n - 1, f[n-1])
  BY <1>15, <1>17
<1> QED
  BY <1>7, <1>14, <1>17, <1>18, <1>19

\* The block of dest: it comes after smaller ones only, and is the last one if
\* dest is greater than all.
Found(list, b, dest) ==
    /\ b \in DOMAIN list
    /\ \A c \in DOMAIN list : list[c].max < list[b].max => list[c].max < dest
    /\ list[b].max < dest => \A c \in DOMAIN list : list[c].max <= list[b].max

LEMMA FindBlockIs ==
    ASSUME NEW list, NEW H, HeightsFit(H), Shape(list, H), NEW dest \in Nat
    PROVE  Found(list, FindBlock(list, dest), dest)
<1> DEFINE p == PathAt(list, dest, 0)
           x == list[p].next[0]
<1>1. /\ Left(list, H, p, 0, dest)
      /\ \A c \in DOMAIN list : c # NullBlock /\ list[c].max \in Nat
      /\ On(list, H, 0) = DOMAIN list /\ 0 \in Levels
  BY PathAtIs, LevelFacts, ShapeFacts
<1> HIDE DEF p
<1>2. /\ p \in DOMAIN list /\ (p = HeadBlock \/ Passes(list, p, dest)) /\ ~ Passes(list, x, dest)
      /\ \A c \in DOMAIN list : IsNext(list, H, c, 0)
  BY <1>1 DEF Left, Shape
<1>3. \A c \in DOMAIN list : list[HeadBlock].max <= list[c].max
  BY DEF Shape, HeadBlock
<1>4. \A c \in DOMAIN list : list[c].next[0] = NullBlock =>
            \A d \in DOMAIN list : list[d].max <= list[c].max
  BY <1>1, <1>2 DEF IsNext
<1>5. FindBlock(list, dest) = IF x # NullBlock /\ list[p].max < dest THEN x ELSE p
  BY DEF FindBlock, Next0, p
<1>6. CASE x # NullBlock /\ list[p].max < dest
  <2>1. /\ x \in DOMAIN list /\ list[p].max < list[x].max
        /\ \A d \in DOMAIN list : list[p].max < list[d].max => list[x].max <= list[d].max
    BY <1>1, <1>2, <1>6 DEF IsNext
  <2> HIDE DEF x
  <2>2. \A c \in DOMAIN list : list[c].max < list[x].max => list[c].max < dest
    BY <1>1, <1>2, <1>6, <2>1
  <2>3. list[x].max < dest => list[x].next[0] = NullBlock
    BY <1>2, <1>6 DEF Passes, Next0
  <2>4. Found(list, x, dest)
    BY <1>4, <2>1, <2>2, <2>3 DEF Found
  <2> QED
    BY <1>5, <1>6, <2>4
<1>7. CASE ~ (x # NullBlock /\ list[p].max < dest)
  <2>1. p = HeadBlock
    BY <1>2, <1>7 DEF Passes, Next0
  <2>2. \A c \in DOMAIN list : ~ list[c].max < list[p].max
    BY <1>1, <1>3, <2>1, <1>2
  <2>3. list[p].max < dest => \A c \in DOMAIN list : list[c].max <= list[p].max
    BY <1>2, <1>4, <1>7
  <2>4. Found(list, p, dest)
    BY <1>2, <2>2, <2>3 DEF Found
  <2> QED
    BY <1>5, <1>7, <2>4
<1> QED
  BY <1>6, <1>7

\* The greatest block on level l that is not behind block b.
Before(list, H, f, b, l) ==
    /\ f \in On(list, H, l) /\ list[f].max <= list[b].max
    /\ \A d \in On(list, H, l) : list[d].max <= list[b].max => list[d].max <= list[f].max

\* After a split the new block is linked behind the right one on every level.
LEMMA LinkFromIs ==
    ASSUME NEW list, NEW H, HeightsFit(H), Shape(list, H), NEW dest \in Nat,
           NEW b, Found(list, b, dest), NEW l \in Levels
    PROVE  Before(list, H, LinkFrom(list, b, dest, l), b, l)
<1> DEFINE p == PathAt(list, dest, l)
           x == list[p].next[l]
<1>1. /\ Left(list, H, p, l, dest) /\ b \in DOMAIN list
      /\ \A c \in DOMAIN list : c # NullBlock /\ list[c].max \in Nat
      /\ On(list, H, 0) = DOMAIN list /\ 0 \in Levels
      /\ On(list, H, l) \subseteq DOMAIN list
  BY PathAtIs, LevelFacts, ShapeFacts DEF Found
<1>2. LinkFrom(list, b, dest, l) = IF l = 0 \/ x = b THEN b ELSE p
  BY DEF LinkFrom
<1> HIDE DEF p
<1>3. /\ p \in On(list, H, l) /\ p \in DOMAIN list /\ IsNext(list, H, p, l)
      /\ p = HeadBlock \/ Passes(list, p, dest)
      /\ ~ Passes(list, x, dest)
  BY <1>1 DEF Left, Shape
<1>4. \A c \in DOMAIN list : list[HeadBlock].max <= list[c].max
  BY DEF Shape, HeadBlock
<1>5. \A c, d \in DOMAIN list : list[c].max = list[d].max => c = d
  BY DEF Shape
<1>6. /\ \A c \in DOMAIN list : list[c].max < list[b].max => list[c].max < dest
      /\ list[b].max < dest => \A c \in DOMAIN list : list[c].max <= list[b].max
  BY DEF Found
<1>7. list[p].max <= list[b].max
  <2>1. CASE p = HeadBlock
    BY <1>1, <1>4, <2>1
  <2>2. CASE Passes(list, p, dest)
    <3>1. list[p].max < dest
      BY <2>2 DEF Passes
    <3> QED
      BY <1>1, <1>3, <1>6, <3>1
  <2> QED
    BY <1>3, <2>1, <2>2
<1>8. ASSUME NEW d \in DOMAIN list, list[d].max < list[b].max
      PROVE  Passes(list, d, dest)
  <2>1. list[d].max < dest
    BY <1>6, <1>8
  <2>2. IsNext(list, H, d, 0)
    BY <1>1 DEF Shape
  <2>3. Next0(list, d) # NullBlock
    BY <1>1, <1>8, <2>2 DEF IsNext, Next0
  <2> QED
    BY <1>1, <2>1, <2>3 DEF Passes
<1>9. ASSUME NEW d \in On(list, H, l), list[d].max <= list[b].max, list[p].max < list[d].max
      PROVE  d = b /\ x = b
  <2>1. x # NullBlock /\ x \in DOMAIN list /\ list[p].max < list[x].max /\ list[x].max <= list[d].max
    BY <1>1, <1>3, <1>9 DEF IsNext
  <2> HIDE DEF x
  <2>2. ~ list[x].max < list[b].max
    BY <1>3, <1>8, <2>1
  <2>3. d \in DOMAIN list
    BY <1>1
  <2>4. list[x].max = list[d].max /\ list[d].max = list[b].max
    BY <1>1, <1>9, <2>1, <2>2, <2>3
  <2> QED
    BY <1>1, <1>5, <2>1, <2>3, <2>4
<1>10. CASE l = 0
  <2>1. LinkFrom(list, b, dest, l) = b
    BY <1>2, <1>10
  <2>2. b \in On(list, H, l)
    BY <1>1, <1>10
  <2> QED
    BY <1>1, <2>1, <2>2 DEF Before
<1>11. CASE x = b
  <2>1. LinkFrom(list, b, dest, l) = b
    BY <1>2, <1>11
  <2>2. b \in On(list, H, l)
    BY <1>1, <1>3, <1>11 DEF IsNext
  <2> QED
    BY <1>1, <2>1, <2>2 DEF Before
<1>12. CASE l # 0 /\ x # b
  <2>1. LinkFrom(list, b, dest, l) = p
    BY <1>2, <1>12
  <2>2. \A d \in On(list, H, l) : list[d].max <= list[b].max => list[d].max <= list[p].max
    BY <1>1, <1>3, <1>9, <1>12
  <2> QED
    BY <1>3, <1>7, <2>1, <2>2 DEF Before
<1> QED
  BY <1>10, <1>11, <1>12

Half == SkipBlock \div 2

LEMMA HalfIs ==
    Half \in Nat /\ Half >= 1 /\ Half < SkipBlock /\ 2 * Half = SkipBlock
BY SkipListAssumption DEF Half

LowHalf(part, block) ==
    /\ part \in Block /\ part.ents \in Entries /\ Len(part.ents) = Half
    /\ \A i \in 1..Half : part.ents[i] = block.ents[i]
    /\ part.max = block.ents[Half].dest

HighHalf(part, block) ==
    /\ part \in Block /\ part.ents \in Entries /\ Len(part.ents) = Half
    /\ \A i \in 1..Half : part.ents[i] = block.ents[Half + i]
    /\ part.max = block.ents[2 * Half].dest

LEMMA HalvesAre ==
    ASSUME NEW block \in Block, Len(block.ents) = SkipBlock
    PROVE  LowHalf(Halves(block)[1], block) /\ HighHalf(Halves(block)[2], block)
<1> DEFINE low == Halves(block)[1]
           high == Halves(block)[2]
           T == [dest : Nat, chain : Seq(Nat)]
           s == block.ents
           a == SubSeq(s, 1, Half)
           z == SubSeq(s, Half + 1, 2 * Half)
<1>1. Half \in Nat /\ Half >= 1 /\ 2 * Half = Len(s)
  BY HalfIs
<1>2. s \in Seq(T) /\ \A i \in 1..Len(s) : s[i].dest \in Nat
  <2>1. s \in Entries
    BY DEF Block
  <2> QED
    BY <2>1, EntryFacts DEF Entries
<1>3. low = WithEntries(block, a) /\ high = WithEntries(block, z)
  BY DEF Halves, Half
<1> HIDE DEF T, low, high
<1>4. a \in Seq(T) /\ Len(a) = Half /\ \A i \in 1..Half : a[i] = s[i]
  <2> HIDE DEF s
  <2> QED
    BY <1>1, <1>2
<1>5. z \in Seq(T) /\ Len(z) = Half /\ \A i \in 1..Half : z[i] = s[Half + i]
  <2> DEFINE q == Len(s)
  <2>1. /\ Half + 1 \in Int /\ 2 * Half \in Int
        /\ \A i \in Half + 1 .. 2 * Half : i \in 1..q
        /\ Half + 1 <= 2 * Half /\ 2 * Half - (Half + 1) + 1 = Half
        /\ \A i \in 1..Half : Half + 1 + i - 1 = Half + i
    <3>1. Half \in Nat /\ Half >= 1 /\ 2 * Half = q
      BY <1>1
    <3> HIDE DEF q
    <3> QED
      BY <3>1
  <2>2. \A i \in 1..q : s[i] \in T
    BY <1>2, ElementOfSeq
  <2>3. \A i \in Half + 1 .. 2 * Half : s[i] \in T
    <3> HIDE DEF s, q
    <3> QED
      BY <2>1, <2>2
  <2> DEFINE m == Half + 1
             e == 2 * Half
  <2>6. m \in Int /\ e \in Int /\ m <= e /\ e - m + 1 = Half /\ \A i \in m..e : s[i] \in T
    BY <2>1, <2>3
  <2>7. z = SubSeq(s, m, e)
    OBVIOUS
  <2> HIDE DEF s, q, z, m, e
  <2>4. /\ SubSeq(s, m, e) \in Seq(T)
        /\ Len(SubSeq(s, m, e)) = e - m + 1
        /\ \A i \in 1..e-m+1 : SubSeq(s, m, e)[i] = s[m + i - 1]
    BY <2>6, SubSeqProperties
  <2>5. z \in Seq(T) /\ Len(z) = Half /\ \A i \in 1..Half : z[i] = s[Half + 1 + i - 1]
    BY <2>4, <2>6, <2>7 DEF m
  <2> QED
    BY <2>1, <2>5
<1> HIDE DEF a, z
<1>6. Last(a).dest = s[Half].dest /\ Last(z).dest = s[2 * Half].dest
  <2>1. Half \in 1..Half /\ Half + Half = 2 * Half
    BY <1>1
  <2> QED
    BY <1>4, <1>5, <2>1 DEF Last
<1>7. s[Half].dest \in Nat /\ s[2 * Half].dest \in Nat
  <2> HIDE DEF s
  <2>1. Half \in 1..Len(s) /\ 2 * Half \in 1..Len(s)
    BY <1>1
  <2> QED
    BY <1>2, <2>1
<1>8. a \in Entries /\ z \in Entries
  BY <1>4, <1>5 DEF Entries, T
<1>9. ASSUME NEW e \in Entries, Last(e).dest \in Nat
      PROVE  /\ WithEntries(block, e) \in Block /\ WithEntries(block, e).ents = e
             /\ WithEntries(block, e).max = Last(e).dest
  <2> HIDE DEF s
  <2> QED
    BY <1>9 DEF WithEntries, Block
<1>10. Last(a).dest \in Nat /\ Last(z).dest \in Nat
  BY <1>6, <1>7
<1>11. /\ low \in Block /\ low.ents = a /\ low.max = Last(a).dest
       /\ high \in Block /\ high.ents = z /\ high.max = Last(z).dest
  BY <1>3, <1>8, <1>9, <1>10
<1> QED
  BY <1>4, <1>5, <1>6, <1>8, <1>11 DEF LowHalf, HighHalf, low, high

\* A split, block by block and link by link.
IsSplit(list, new, b, dest, height) ==
    LET n == Len(list) IN
    /\ new \in Seq(Block) /\ Len(new) = n + 1
    /\ \A c \in 1..n : c # b => new[c].ents = list[c].ents /\ new[c].max = list[c].max
    /\ LowHalf(new[b], list[b]) /\ HighHalf(new[n+1], list[b])
    /\ \A c \in 1..n, l \in Levels :
            new[c].next[l] = IF l < height /\ LinkFrom(list, b, dest, l) = c THEN n + 1
                             ELSE list[c].next[l]
    /\ \A l \in Levels :
            l < height => new[n+1].next[l] = list[LinkFrom(list, b, dest, l)].next[l]

LEMMA SplitIs ==
    ASSUME NEW list \in Seq(Block), NEW b \in DOMAIN list, NEW dest, NEW height,
           Len(list[b].ents) = SkipBlock,
           \A l \in Levels : LinkFrom(list, b, dest, l) \in 1..Len(list)
    PROVE  IsSplit(list, SplitBlock(list, b, dest, height), b, dest, height)
<1> DEFINE n == Len(list)
           new == SplitBlock(list, b, dest, height)
           From(l) == LinkFrom(list, b, dest, l)
           low == Halves(list[b])[1]
           high == Halves(list[b])[2]
           NextOf(c)  == [l \in Levels |->
                        IF c = n + 1 THEN IF l < height THEN list[From(l)].next[l] ELSE NullBlock
                        ELSE IF l < height /\ From(l) = c THEN n + 1
                        ELSE list[c].next[l]]
           Kept(c) == IF c = n + 1 THEN high ELSE IF c = b THEN low ELSE list[c]
<1>1. /\ n \in Nat /\ DOMAIN list = 1..n
      /\ \A c \in 1..n : list[c] \in Block /\ list[c].next \in Nexts
  BY BlockFacts
<1>0. LowHalf(low, list[b]) /\ HighHalf(high, list[b])
  <2>1. list[b] \in Block
    BY <1>1
  <2> QED
    BY <2>1, HalvesAre
<1>2. low \in Block /\ high \in Block
  BY <1>0 DEF LowHalf, HighHalf
<1>3. new = [c \in 1..n+1 |-> [Kept(c) EXCEPT !.next = NextOf(c)]]
  BY DEF SplitBlock
<1> HIDE DEF low, high
<1>4. \A c \in 1..n+1 : NextOf(c) \in Nexts
  <2> TAKE c \in 1..n+1
  <2>1. ASSUME NEW l \in Levels PROVE NextOf(c)[l] \in Nat
    <3>1. From(l) \in 1..n
      OBVIOUS
    <3>2. list[From(l)].next[l] \in Nat
      BY <1>1, <3>1 DEF Nexts
    <3>3. c # n + 1 => c \in 1..n /\ list[c].next[l] \in Nat
      <4>1. c # n + 1 => c \in 1..n
        BY <1>1
      <4>2. \A d \in 1..n : list[d].next[l] \in Nat
        BY <1>1 DEF Nexts
      <4> QED
        BY <4>1, <4>2
    <3>4. n + 1 \in Nat /\ NullBlock \in Nat
      BY <1>1, LevelFacts
    <3> HIDE DEF From
    <3> QED
      BY <3>2, <3>3, <3>4
  <2>2. NextOf(c) = [l \in Levels |-> NextOf(c)[l]]
    OBVIOUS
  <2> HIDE DEF NextOf
  <2> QED
    BY <2>1, <2>2 DEF Nexts
<1>5. \A c \in 1..n+1 : Kept(c) \in Block
  <2> TAKE c \in 1..n+1
  <2>1. c = n + 1 \/ c \in 1..n
    BY <1>1
  <2> HIDE DEF Block
  <2> QED
    BY <1>1, <1>2, <2>1
<1>6. \A c \in 1..n, l \in Levels :
          NextOf(c)[l] = IF l < height /\ From(l) = c THEN n + 1 ELSE list[c].next[l]
  <2>1. \A c \in 1..n : c # n + 1
    BY <1>1
  <2> QED
    BY <2>1
<1>7. \A l \in Levels : l < height => NextOf(n+1)[l] = list[From(l)].next[l]
  OBVIOUS
<1>8. Kept(n+1) = high /\ Kept(b) = low /\ \A c \in 1..n : c # b => Kept(c) = list[c]
  BY <1>1
<1> HIDE DEF Kept, NextOf, From
<1> HIDE DEF new
<1>9. \A c \in 1..n+1 : /\ new[c] \in Block /\ new[c].next = NextOf(c)
                        /\ new[c].ents = Kept(c).ents /\ new[c].max = Kept(c).max
  <2> TAKE c \in 1..n+1
  <2>1. new[c] = [Kept(c) EXCEPT !.next = NextOf(c)]
    BY <1>3
  <2> QED
    BY <1>4, <1>5, <2>1 DEF Block
<1>10. new \in Seq(Block) /\ Len(new) = n + 1
  <2> HIDE DEF Block
  <2>1. \A c \in 1..n+1 : new[c] \in Block
    BY <1>9
  <2>2. new = [c \in 1..n+1 |-> new[c]]
    BY <1>3
  <2> QED
    BY <1>1, <2>1, <2>2
<1>11. n + 1 \in 1..n+1 /\ b \in 1..n+1 /\ \A c \in 1..n : c \in 1..n+1
  BY <1>1
<1>12. \A c \in 1..n : c # b => new[c].ents = list[c].ents /\ new[c].max = list[c].max
  BY <1>8, <1>9, <1>11
<1>13. /\ new[b].ents = low.ents /\ new[b].max = low.max
       /\ new[n+1].ents = high.ents /\ new[n+1].max = high.max
  BY <1>8, <1>9, <1>11
<1>14. \A c \in 1..n, l \in Levels :
            new[c].next[l] = IF l < height /\ From(l) = c THEN n + 1 ELSE list[c].next[l]
  BY <1>6, <1>9, <1>11
<1>15. \A l \in Levels : l < height => new[n+1].next[l] = list[From(l)].next[l]
  BY <1>7, <1>9, <1>11
<1>16. LowHalf(new[b], list[b]) /\ HighHalf(new[n+1], list[b])
  <2>1. new[b] \in Block /\ new[n+1] \in Block
    BY <1>9, <1>11
  <2> QED
    BY <1>0, <1>13, <2>1 DEF LowHalf, HighHalf
<1> QED
  BY <1>10, <1>12, <1>14, <1>15, <1>16 DEF From, IsSplit, new

\* The keys of the blocks after block b was split.
Keys(list, new, b) ==
    /\ DOMAIN list = 1..Len(list) /\ DOMAIN new = 1..Len(list)+1 /\ Len(list) \in Nat
    /\ b \in 1..Len(list)
    /\ \A c \in 1..Len(list) : list[c].max \in Nat /\ new[c].max \in Nat
    /\ \A c \in 1..Len(list) : c # b => new[c].max = list[c].max
    /\ new[b].max < list[b].max /\ new[Len(list)+1].max = list[b].max
    /\ \A c \in 1..Len(list) : list[c].max < list[b].max => list[c].max < new[b].max

LEMMA SplitKeys ==
    ASSUME NEW list, NEW H, HeightsFit(H), Shape(list, H), Stored(list), NEW dest \in Nat,
           NEW b, Found(list, b, dest), Len(list[b].ents) = SkipBlock, NEW height,
           NEW new, new = SplitBlock(list, b, dest, height)
    PROVE  /\ Keys(list, new, b)
           /\ \A l \in Levels : LinkFrom(list, b, dest, l) \in 1..Len(list)
<1> DEFINE n == Len(list)
           e == list[b].ents
<1>1. /\ n \in Nat /\ DOMAIN list = 1..n /\ b \in 1..n /\ list \in Seq(Block)
      /\ \A c \in 1..n : list[c].max \in Nat
  BY ShapeFacts DEF Found, Shape
<1>2. \A l \in Levels : LinkFrom(list, b, dest, l) \in 1..n
  <2> TAKE l \in Levels
  <2>1. LinkFrom(list, b, dest, l) \in On(list, H, l)
    BY LinkFromIs DEF Before
  <2> QED
    BY <1>1, <2>1, ShapeFacts
<1>3. /\ new \in Seq(Block) /\ Len(new) = n + 1
      /\ \A c \in 1..n : c # b => new[c].max = list[c].max
      /\ new[b].max = e[Half].dest /\ new[n+1].max = e[2 * Half].dest
  <2>1. IsSplit(list, new, b, dest, height)
    BY <1>1, <1>2, SplitIs
  <2> QED
    BY <2>1 DEF IsSplit, LowHalf, HighHalf
<1>4. DOMAIN new = 1..n+1
  BY <1>3, BlockFacts
<1>5. /\ e \in Entries /\ DOMAIN e = 1..SkipBlock /\ e # <<>>
      /\ Half \in DOMAIN e /\ 2 * Half \in DOMAIN e /\ Half < 2 * Half
      /\ \A i \in DOMAIN e : e[i].dest \in Nat
  <2>1. e \in Entries
    BY <1>1, BlockFacts
  <2>2. DOMAIN e = 1..SkipBlock /\ (e = <<>> <=> SkipBlock = 0) /\ \A i \in DOMAIN e : e[i].dest \in Nat
    BY <2>1, EntryFacts
  <2>3. Half \in 1..SkipBlock /\ 2 * Half \in 1..SkipBlock /\ Half < 2 * Half /\ SkipBlock # 0
    BY HalfIs
  <2> HIDE DEF e
  <2> QED
    BY <2>1, <2>2, <2>3
<1>6. list[b].max = e[2 * Half].dest
  <2>1. list[b].max = Last(e).dest
    BY <1>1, <1>5 DEF Stored
  <2>2. Last(e) = e[SkipBlock]
    BY DEF Last
  <2> QED
    BY <2>1, <2>2, HalfIs
<1>7. e[Half].dest < e[2 * Half].dest
  <2>1. Sorted(e)
    BY <1>1 DEF Stored
  <2> QED
    BY <1>5, <2>1 DEF Sorted
<1>8. \A c \in 1..n : list[c].max < list[b].max => list[c].max < e[Half].dest
  BY <1>1, <1>5 DEF Stored
<1>9. \A c \in 1..n : new[c].max \in Nat
  BY <1>1, <1>3, <1>5
<1> HIDE DEF e
<1> QED
  BY <1>1, <1>2, <1>3, <1>4, <1>6, <1>7, <1>8, <1>9 DEF Keys

LEMMA SplitShape ==
    ASSUME NEW list, NEW H, HeightsFit(H), Shape(list, H), Stored(list), NEW dest \in Nat,
           NEW b, Found(list, b, dest), Len(list[b].ents) = SkipBlock,
           NEW new, new = SplitBlock(list, b, dest, H[Len(list) + 1])
    PROVE  Shape(new, H)
<1> DEFINE n == Len(list)
           height == H[n+1]
           From(l) == LinkFrom(list, b, dest, l)
           m(c) == list[c].max
           mm(c) == new[c].max
<1>1. /\ n \in Nat /\ DOMAIN list = 1..n /\ b \in 1..n /\ list \in Seq(Block)
      /\ \A c \in 1..n : c # NullBlock
      /\ \A l \in Levels : On(list, H, l) \subseteq 1..n
  BY ShapeFacts DEF Found, Shape
<1>2. Keys(list, new, b) /\ \A l \in Levels : From(l) \in 1..n
  BY SplitKeys
<1>3. /\ new \in Seq(Block) /\ Len(new) = n + 1
      /\ \A c \in 1..n, l \in Levels :
                new[c].next[l] = IF l < height /\ From(l) = c THEN n + 1 ELSE list[c].next[l]
      /\ \A l \in Levels : l < height => new[n+1].next[l] = list[From(l)].next[l]
  <2> HIDE DEF height
  <2>1. new = SplitBlock(list, b, dest, height)
    BY DEF height
  <2>2. IsSplit(list, new, b, dest, height)
    BY <1>1, <1>2, <2>1, SplitIs
  <2> QED
    BY <2>2 DEF IsSplit
<1>4. /\ DOMAIN new = 1..n+1
      /\ \A c \in 1..n : m(c) \in Nat /\ mm(c) \in Nat
      /\ \A c \in 1..n : c # b => mm(c) = m(c)
      /\ mm(b) < m(b) /\ mm(n+1) = m(b)
      /\ \A c \in 1..n : m(c) < m(b) => m(c) < mm(b)
  BY <1>2 DEF Keys
<1>5. /\ \A c, d \in 1..n : m(c) = m(d) => c = d
      /\ \A c \in 1..n : m(1) <= m(c)
      /\ \A l \in Levels : \A c \in On(list, H, l) : IsNext(list, H, c, l)
  BY <1>1 DEF Shape
<1>6. \A l \in Levels : Before(list, H, From(l), b, l)
  BY LinkFromIs
<1>7. /\ \A l \in Levels : On(new, H, l) = On(list, H, l) \cup (IF l < height THEN {n+1} ELSE {})
      /\ \A c \in 1..n+1 : c = n + 1 \/ c \in 1..n
      /\ \A c \in 1..n : c # n + 1 /\ c \in 1..n+1
      /\ n + 1 # NullBlock /\ n + 1 \in 1..n+1
  <2>1. /\ \A c \in 1..n+1 : c = n + 1 \/ c \in 1..n
        /\ \A c \in 1..n : c # n + 1 /\ c \in 1..n+1
        /\ n + 1 # NullBlock /\ n + 1 \in 1..n+1
    BY <1>1, LevelFacts
  <2> QED
    BY <1>1, <1>4, <2>1 DEF On
<1> HIDE DEF m, mm, From, height, n
\* The order of the old blocks stays.
<1>8. \A c, d \in 1..n : mm(c) < mm(d) <=> m(c) < m(d)
  <2> TAKE c \in 1..n, d \in 1..n
  <2>1. CASE c = b /\ d # b
    <3>1. m(c) # m(d) /\ mm(d) = m(d)
      BY <1>1, <1>4, <1>5, <2>1
    <3> QED
      BY <1>1, <1>4, <2>1, <3>1
  <2>2. CASE c # b /\ d = b
    <3>1. m(c) # m(d) /\ mm(c) = m(c)
      BY <1>1, <1>4, <1>5, <2>2
    <3> QED
      BY <1>1, <1>4, <2>2, <3>1
  <2> QED
    BY <1>1, <1>4, <2>1, <2>2
<1>9. \A c \in 1..n : mm(c) <= m(c) /\ (m(c) <= m(b) => mm(c) < mm(n+1)) /\ (m(c) > m(b) => mm(c) > mm(n+1))
  <2> TAKE c \in 1..n
  <2>1. CASE c = b
    BY <1>1, <1>4, <2>1
  <2>2. CASE c # b
    <3>1. m(c) # m(b) /\ mm(c) = m(c)
      BY <1>1, <1>4, <1>5, <2>2
    <3> QED
      BY <1>1, <1>4, <3>1
  <2> QED
    BY <2>1, <2>2
<1>10. \A c, d \in 1..n+1 : mm(c) = mm(d) => c = d
  <2>1. \A c, d \in 1..n : mm(c) = mm(d) => c = d
    <3> TAKE c \in 1..n, d \in 1..n
    <3>1. mm(c) = mm(d) => m(c) = m(d)
      BY <1>4, <1>8
    <3> QED
      BY <1>5, <3>1
  <2>2. \A c \in 1..n : mm(c) # mm(n+1)
    <3> TAKE c \in 1..n
    <3>1. mm(c) \in Nat /\ m(c) \in Nat /\ m(b) \in Nat
      BY <1>1, <1>4
    <3> QED
      BY <1>4, <1>9, <3>1
  <2> QED
    BY <1>7, <2>1, <2>2
<1>11. \A c \in 1..n+1 : mm(1) <= mm(c)
  <2>1. 1 \in 1..n
    BY <1>1
  <2>2. \A c \in 1..n : mm(1) <= mm(c)
    <3> TAKE c \in 1..n
    <3>1. ~ m(c) < m(1)
      BY <1>4, <1>5, <2>1
    <3> QED
      BY <1>4, <1>8, <2>1, <3>1
  <2>3. mm(1) <= mm(n+1)
    BY <1>1, <1>4, <1>5, <1>9, <2>1
  <2> QED
    BY <1>7, <2>2, <2>3
<1>12. ASSUME NEW l \in Levels, NEW c \in On(list, H, l), ~ (l < height /\ From(l) = c)
       PROVE  IsNext(new, H, c, l)
  <2> DEFINE x == list[c].next[l]
  <2>1. /\ c \in 1..n /\ new[c].next[l] = x
        /\ x \in {NullBlock} \cup On(list, H, l)
        /\ x # NullBlock => x \in 1..n /\ m(c) < m(x)
        /\ \A d \in On(list, H, l) : m(c) < m(d) => x # NullBlock /\ m(x) <= m(d)
    BY <1>1, <1>3, <1>5, <1>12 DEF IsNext, m
  <2> HIDE DEF x
  <2>2. x \in {NullBlock} \cup On(new, H, l)
    BY <1>7, <2>1
  <2>3. x # NullBlock => mm(c) < mm(x)
    BY <1>8, <2>1
  <2>4. ASSUME NEW d \in On(list, H, l), mm(c) < mm(d)
        PROVE  x # NullBlock /\ mm(x) <= mm(d)
    <3>1. d \in 1..n
      BY <1>1
    <3>2. x # NullBlock /\ m(x) <= m(d) /\ x \in 1..n
      BY <1>8, <2>1, <2>4, <3>1
    <3>3. ~ m(d) < m(x)
      BY <1>4, <3>1, <3>2
    <3>4. ~ mm(d) < mm(x)
      BY <1>8, <3>1, <3>2, <3>3
    <3> QED
      BY <1>4, <3>1, <3>2, <3>4
  <2>5. ASSUME l < height, mm(c) < mm(n+1)
        PROVE  x # NullBlock /\ mm(x) <= mm(n+1)
    <3> DEFINE f == From(l)
    <3>1. /\ f \in On(list, H, l) /\ f \in 1..n /\ m(f) <= m(b) /\ c # f
          /\ m(c) <= m(b) => m(c) <= m(f)
      BY <1>2, <1>6, <1>12, <2>5 DEF Before, m
    <3> HIDE DEF f
    <3>2. m(c) <= m(b)
      BY <1>1, <1>4, <1>9, <2>1, <2>5, SMTT(40)
    <3>3. m(c) < m(f)
      BY <1>4, <1>5, <2>1, <3>1, <3>2
    <3>4. x # NullBlock /\ m(x) <= m(f) /\ x \in 1..n
      BY <2>1, <3>1, <3>3
    <3>5. m(x) <= m(b)
      BY <1>1, <1>4, <3>1, <3>4
    <3>6. mm(x) \in Nat /\ mm(n+1) \in Nat /\ mm(x) < mm(n+1)
      BY <1>1, <1>4, <1>9, <3>4, <3>5
    <3> QED
      BY <3>4, <3>6
  <2>6. \A d \in On(new, H, l) : mm(c) < mm(d) => x # NullBlock /\ mm(x) <= mm(d)
    BY <1>7, <2>4, <2>5
  <2> QED
    BY <2>1, <2>2, <2>3, <2>6 DEF IsNext, mm
<1>13. ASSUME NEW l \in Levels, l < height
       PROVE  IsNext(new, H, From(l), l) /\ IsNext(new, H, n+1, l)
  <2> DEFINE f == From(l)
             x == list[f].next[l]
  <2>1. /\ f \in On(list, H, l) /\ f \in 1..n /\ m(f) <= m(b)
        /\ \A d \in On(list, H, l) : m(d) <= m(b) => m(d) <= m(f)
    BY <1>2, <1>6 DEF Before, m
  <2>2. new[f].next[l] = n + 1 /\ new[n+1].next[l] = x
    BY <1>2, <1>3, <1>13
  <2>3. /\ x \in {NullBlock} \cup On(list, H, l)
        /\ x # NullBlock => x \in 1..n /\ m(f) < m(x)
        /\ \A d \in On(list, H, l) : m(f) < m(d) => x # NullBlock /\ m(x) <= m(d)
    BY <1>1, <1>5, <2>1 DEF IsNext, m
  <2> HIDE DEF f, x
  <2>4. n + 1 \in On(new, H, l) /\ On(new, H, l) = On(list, H, l) \cup {n+1}
    BY <1>7, <1>13
  <2>5. mm(f) < mm(n+1)
    BY <1>9, <2>1
  <2>6. ASSUME NEW d \in On(list, H, l), mm(f) < mm(d) PROVE mm(n+1) <= mm(d)
    <3>1. d \in 1..n
      BY <1>1
    <3>2. m(f) < m(d)
      BY <1>8, <2>1, <2>6, <3>1
    <3>3. m(d) > m(b)
      <4>1. m(d) \in Nat /\ m(b) \in Nat /\ m(f) \in Nat
        BY <1>1, <1>4, <2>1, <3>1
      <4>2. m(d) <= m(b) => m(d) <= m(f)
        BY <2>1
      <4> QED
        BY <3>2, <4>1, <4>2
    <3> QED
      BY <1>1, <1>4, <1>9, <3>1, <3>3
  <2>7. mm(n+1) \in Nat
    BY <1>1, <1>4
  <2>8. IsNext(new, H, f, l)
    <3>1. \A d \in On(new, H, l) : mm(f) < mm(d) => mm(n+1) <= mm(d)
      BY <2>4, <2>6, <2>7
    <3> QED
      BY <1>7, <2>2, <2>4, <2>5, <3>1 DEF IsNext, mm
  <2>9. x # NullBlock => mm(n+1) < mm(x)
    <3> SUFFICES ASSUME x # NullBlock PROVE mm(n+1) < mm(x)
      OBVIOUS
    <3>1. x \in 1..n /\ x \in On(list, H, l) /\ m(f) < m(x)
      BY <2>3
    <3>2. m(x) > m(b)
      <4>1. m(x) \in Nat /\ m(b) \in Nat /\ m(f) \in Nat
        BY <1>1, <1>4, <2>1, <3>1
      <4>2. ~ m(x) <= m(b)
        <5>1. m(x) <= m(b) => m(x) <= m(f)
          BY <2>1, <3>1
        <5> QED
          BY <3>1, <4>1, <5>1
      <4> QED
        BY <4>1, <4>2
    <3> QED
      BY <1>1, <1>4, <1>9, <3>1, <3>2
  <2>10. ASSUME NEW d \in On(list, H, l), mm(n+1) < mm(d)
         PROVE  x # NullBlock /\ mm(x) <= mm(d)
    <3>1. d \in 1..n /\ mm(d) \in Nat /\ m(d) \in Nat /\ m(b) \in Nat
      BY <1>1, <1>4
    <3>2. m(d) > m(b)
      BY <1>9, <2>7, <2>10, <3>1
    <3>3. m(f) < m(d)
      BY <1>4, <2>1, <3>1, <3>2
    <3>4. x # NullBlock /\ m(x) <= m(d) /\ x \in 1..n
      BY <2>3, <3>3
    <3>5. ~ mm(d) < mm(x)
      BY <1>4, <1>8, <3>1, <3>4
    <3> QED
      BY <1>4, <3>1, <3>4, <3>5
  <2>11. IsNext(new, H, n+1, l)
    <3>1. \A d \in On(new, H, l) : mm(n+1) < mm(d) => x # NullBlock /\ mm(x) <= mm(d)
      BY <2>4, <2>7, <2>10
    <3>2. x \in {NullBlock} \cup On(new, H, l)
      BY <2>3, <2>4
    <3> QED
      BY <2>2, <2>9, <3>1, <3>2 DEF IsNext, mm
  <2> QED
    BY <2>8, <2>11 DEF f
<1>14. ASSUME NEW l \in Levels, NEW c \in On(new, H, l) PROVE IsNext(new, H, c, l)
  <2>1. CASE c \in On(list, H, l)
    BY <1>12, <1>13, <2>1
  <2>2. CASE c \notin On(list, H, l)
    BY <1>7, <1>13, <2>2
  <2> QED
    BY <2>1, <2>2
<1>15. new # <<>>
  BY <1>1, <1>3, BlockFacts DEF n
<1> QED
  BY <1>3, <1>4, <1>10, <1>11, <1>14, <1>15 DEF Shape, mm

\* The entries of the block that was split are in the two halves.
LEMMA HalvesHold ==
    ASSUME NEW block \in Block, Len(block.ents) = SkipBlock,
           NEW low, LowHalf(low, block), NEW high, HighHalf(high, block)
    PROVE  /\ DOMAIN block.ents = 1..SkipBlock
           /\ DOMAIN low.ents = 1..Half /\ DOMAIN high.ents = 1..Half
           /\ low.ents # <<>> /\ high.ents # <<>>
           /\ \A i \in 1..Half : /\ i \in 1..SkipBlock /\ Half + i \in 1..SkipBlock
                                 /\ low.ents[i] = block.ents[i]
                                 /\ high.ents[i] = block.ents[Half + i]
           /\ Dests(block.ents) = Dests(low.ents) \cup Dests(high.ents)
           /\ Last(low.ents).dest = low.max /\ Last(high.ents).dest = high.max
<1>1. /\ DOMAIN block.ents = 1..SkipBlock
      /\ DOMAIN low.ents = 1..Half /\ DOMAIN high.ents = 1..Half
      /\ low.ents = <<>> <=> Half = 0
      /\ high.ents = <<>> <=> Half = 0
      /\ Len(low.ents) = Half /\ Len(high.ents) = Half
  <2>1. block.ents \in Entries
    BY DEF Block
  <2> QED
    BY <2>1, EntryFacts DEF LowHalf, HighHalf
<1>2. Half \in Nat /\ Half >= 1 /\ 2 * Half = SkipBlock /\ Half \in 1..Half /\ Half + Half = 2 * Half
  BY HalfIs
<1>3. \A i \in 1..Half : i \in 1..SkipBlock /\ Half + i \in 1..SkipBlock
  BY <1>2
<1>4. \A i \in 1..Half : /\ low.ents[i] = block.ents[i]
                         /\ high.ents[i] = block.ents[Half + i]
  BY DEF LowHalf, HighHalf
<1>5. Dests(block.ents) = Dests(low.ents) \cup Dests(high.ents)
  <2>1. ASSUME NEW i \in 1..SkipBlock
        PROVE  block.ents[i].dest \in Dests(low.ents) \cup Dests(high.ents)
    <3>1. CASE i \in 1..Half
      BY <1>1, <1>4, <3>1 DEF Dests
    <3>2. CASE i \notin 1..Half
      <4>1. i - Half \in 1..Half /\ Half + (i - Half) = i
        BY <1>2, <3>2
      <4> QED
        BY <1>1, <1>4, <4>1 DEF Dests
    <3> QED
      BY <3>1, <3>2
  <2>2. \A i \in 1..Half : low.ents[i].dest \in Dests(block.ents)
    BY <1>1, <1>3, <1>4 DEF Dests
  <2>3. \A i \in 1..Half : high.ents[i].dest \in Dests(block.ents)
    BY <1>1, <1>3, <1>4 DEF Dests
  <2>4. Dests(block.ents) \subseteq Dests(low.ents) \cup Dests(high.ents)
    BY <1>1, <2>1 DEF Dests
  <2>5. Dests(low.ents) \subseteq Dests(block.ents) /\ Dests(high.ents) \subseteq Dests(block.ents)
    BY <1>1, <2>2, <2>3 DEF Dests
  <2> QED
    BY <2>4, <2>5
<1>6. Last(low.ents).dest = low.max /\ Last(high.ents).dest = high.max
  BY <1>1, <1>2, <1>4 DEF Last, LowHalf, HighHalf
<1>7. low.ents # <<>> /\ high.ents # <<>>
  BY <1>1, <1>2
<1> QED
  BY <1>1, <1>3, <1>4, <1>5, <1>6, <1>7

LEMMA SplitHolds ==
    ASSUME NEW list, NEW H, HeightsFit(H), NEW G, ListHolds(list, G, H), NEW dest \in Nat,
           NEW b, Found(list, b, dest), Len(list[b].ents) = SkipBlock
    PROVE  ListHolds(SplitBlock(list, b, dest, H[Len(list) + 1]), G, H)
<1> DEFINE n == Len(list)
           height == H[n+1]
           new == SplitBlock(list, b, dest, height)
           e == list[b].ents
<1>1. /\ Shape(list, H) /\ Stored(list) /\ Holding(list, G)
      /\ n \in Nat /\ DOMAIN list = 1..n /\ b \in 1..n /\ list \in Seq(Block)
      /\ list[b] \in Block /\ \A c \in 1..n : list[c].max \in Nat
  <2>1. Shape(list, H)
    BY DEF ListHolds
  <2> QED
    BY <2>1, BlockFacts DEF ListHolds, Found, Shape
<1>2. Shape(new, H)
  BY <1>1, SplitShape
<1>3. Keys(list, new, b) /\ \A l \in Levels : LinkFrom(list, b, dest, l) \in 1..n
  BY <1>1, SplitKeys
<1>4. /\ Len(new) = n + 1
      /\ \A c \in 1..n : c # b => new[c].ents = list[c].ents /\ new[c].max = list[c].max
      /\ LowHalf(new[b], list[b]) /\ HighHalf(new[n+1], list[b])
  <2> HIDE DEF new
  <2>1. IsSplit(list, new, b, dest, height)
    BY <1>1, <1>3, SplitIs DEF new
  <2> QED
    BY <2>1 DEF IsSplit
<1> HIDE DEF new, height
<1>5. /\ DOMAIN e = 1..SkipBlock
      /\ DOMAIN new[b].ents = 1..Half /\ DOMAIN new[n+1].ents = 1..Half
      /\ new[b].ents # <<>> /\ new[n+1].ents # <<>>
      /\ \A i \in 1..Half : /\ i \in 1..SkipBlock /\ Half + i \in 1..SkipBlock
                            /\ new[b].ents[i] = e[i]
                            /\ new[n+1].ents[i] = e[Half + i]
      /\ Dests(e) = Dests(new[b].ents) \cup Dests(new[n+1].ents)
      /\ Last(new[b].ents).dest = new[b].max /\ Last(new[n+1].ents).dest = new[n+1].max
  BY <1>1, <1>4, HalvesHold
<1>6. /\ DOMAIN new = 1..n+1
      /\ \A c \in 1..n : list[c].max \in Nat /\ new[c].max \in Nat
      /\ new[b].max < list[b].max /\ new[n+1].max = list[b].max
      /\ \A c \in 1..n : list[c].max < list[b].max => list[c].max < new[b].max
  BY <1>3 DEF Keys
<1>7. /\ \A c \in 1..n+1 : c = n + 1 \/ c = b \/ (c \in 1..n /\ c # b)
      /\ n + 1 \in 1..n+1 /\ b \in 1..n+1 /\ \A c \in 1..n : c \in 1..n+1
  BY <1>1
<1>8. \A i \in 1..SkipBlock : e[i].dest \in Nat
  <2>1. e \in Entries
    BY <1>1, BlockFacts
  <2> QED
    BY <1>5, <2>1, EntryFacts
<1>9. \A c, d \in 1..n : list[c].max = list[d].max => c = d
  BY <1>1 DEF Shape
<1> HIDE DEF n, e
<1>10. /\ Sorted(e) /\ \A c \in 1..n : Sorted(list[c].ents)
       /\ \A c \in 1..n : list[c].ents # <<>> => list[c].max = Last(list[c].ents).dest
       /\ \A c \in 1..n : list[c].ents = <<>> => n = 1
       /\ \A c, d \in 1..n : list[c].max < list[d].max =>
            \A i \in DOMAIN list[d].ents : list[c].max < list[d].ents[i].dest
  BY <1>1 DEF Stored, e, n
<1>11. \A c \in 1..n : list[c].max < list[b].max =>
            \A i \in 1..SkipBlock : list[c].max < e[i].dest
  BY <1>1, <1>5, <1>10 DEF e
<1>12. \A c \in 1..n+1 : Sorted(new[c].ents)
  <2>1. Sorted(new[b].ents)
    BY <1>5, <1>10 DEF Sorted
  <2>2. Sorted(new[n+1].ents)
    <3> SUFFICES ASSUME NEW i \in 1..Half, NEW j \in 1..Half, i < j
                 PROVE  new[n+1].ents[i].dest < new[n+1].ents[j].dest
      BY <1>5 DEF Sorted
    <3>1. Half + i < Half + j
      BY HalfIs
    <3> QED
      BY <1>5, <1>10, <3>1 DEF Sorted
  <2>3. \A c \in 1..n : c # b => Sorted(new[c].ents)
    BY <1>4, <1>10 DEF n
  <2> QED
    BY <1>7, <2>1, <2>2, <2>3
<1>13. \A c \in 1..n+1 : new[c].ents # <<>> /\ new[c].max = Last(new[c].ents).dest
  <2> TAKE c \in 1..n+1
  <2>1. CASE c \in 1..n /\ c # b
    <3>1. list[c].ents # <<>>
      BY <1>1, <1>10, <2>1
    <3>2. new[c].ents = list[c].ents /\ new[c].max = list[c].max
      BY <1>4, <2>1 DEF n
    <3> QED
      BY <1>10, <2>1, <3>1, <3>2
  <2> QED
    BY <1>5, <1>7, <2>1
<1>14. ASSUME NEW c \in 1..n+1, NEW d \in 1..n+1, new[c].max < new[d].max
       PROVE  \A i \in DOMAIN new[d].ents : new[c].max < new[d].ents[i].dest
  <2>1. CASE d \in 1..n /\ d # b
    <3>1. new[d].ents = list[d].ents /\ new[d].max = list[d].max
      BY <1>4, <2>1 DEF n
    <3>2. PICK a \in 1..n : new[c].max <= list[a].max /\ list[a].max < list[d].max
      <4>1. CASE c \in 1..n /\ c # b
        <5>1. new[c].max = list[c].max
          BY <1>4, <4>1 DEF n
        <5> QED
          BY <1>6, <1>14, <3>1, <4>1, <5>1
      <4>2. CASE c = n + 1
        BY <1>1, <1>6, <1>14, <3>1, <4>2
      <4>3. CASE c = b
        <5>1. list[d].max # list[b].max
          BY <1>1, <1>9, <2>1
        <5>2. ~ list[d].max < list[b].max
          BY <1>1, <1>6, <1>14, <2>1, <3>1, <4>3
        <5>3. b \in 1..n
          BY <1>1
        <5>4. list[d].max \in Nat /\ list[b].max \in Nat /\ new[b].max \in Nat
          BY <1>6, <2>1, <5>3
        <5>5. new[b].max <= list[b].max /\ list[b].max < list[d].max
          BY <1>6, <5>1, <5>2, <5>4
        <5> QED
          BY <4>3, <5>3, <5>5
      <4> QED
        BY <1>7, <4>1, <4>2, <4>3
    <3>3. \A i \in DOMAIN list[d].ents : list[a].max < list[d].ents[i].dest
      BY <1>10, <2>1, <3>2
    <3>4. \A i \in DOMAIN list[d].ents : list[d].ents[i].dest \in Nat
      BY <1>1, <2>1, BlockFacts, EntryFacts
    <3>5. new[c].max \in Nat
      BY <1>1, <1>6, <1>7
    <3> QED
      BY <1>6, <3>1, <3>2, <3>3, <3>4, <3>5
  <2>2. CASE c \in 1..n /\ c # b /\ (d = b \/ d = n + 1)
    <3>1. new[c].max = list[c].max
      BY <1>4, <2>2 DEF n
    <3>2. list[c].max < list[b].max
      <4>1. list[c].max \in Nat /\ list[b].max \in Nat /\ new[b].max \in Nat
        BY <1>1, <1>6, <2>2
      <4>2. new[d].max = new[b].max \/ new[d].max = list[b].max
        BY <1>6, <2>2
      <4> QED
        BY <1>6, <1>14, <3>1, <4>1, <4>2
    <3> QED
      BY <1>5, <1>11, <2>2, <3>1, <3>2
  <2>3. CASE c = b /\ d = n + 1
    <3> SUFFICES ASSUME NEW i \in 1..Half PROVE new[b].max < e[Half + i].dest
      BY <1>5, <2>3
    <3>1. Half \in 1..Half /\ Half < Half + i
      BY HalfIs
    <3>2. new[b].max = e[Half].dest
      BY <1>4 DEF LowHalf, e
    <3> QED
      BY <1>5, <1>10, <3>1, <3>2 DEF Sorted
  <2>4. CASE c = d \/ (c = n + 1 /\ d = b)
    <3>1. FALSE
      <4>1. /\ new[b].max \in Nat /\ list[b].max \in Nat
            /\ \A a \in 1..n+1 : new[a].max \in Nat
        BY <1>1, <1>6, <1>7
      <4> QED
        BY <1>6, <1>14, <2>4, <4>1
    <3> QED
      BY <3>1
  <2> QED
    BY <1>7, <2>1, <2>2, <2>3, <2>4
<1>15. Stored(new)
  BY <1>6, <1>12, <1>13, <1>14 DEF Stored
<1>16. Holding(new, G)
  <2>1. \A c \in 1..n : Content(list[c].ents, G)
    BY <1>1 DEF Holding
  <2>2. \A d \in DOMAIN G : G[d] # <<>> => \E c \in 1..n : d \in Dests(list[c].ents)
    BY <1>1 DEF Holding
  <2>3. Content(e, G)
    BY <1>1, <2>1 DEF e
  <2>4. \A c \in 1..n+1 : Content(new[c].ents, G)
    <3>1. Content(new[b].ents, G)
      BY <1>5, <2>3 DEF Content
    <3>2. Content(new[n+1].ents, G)
      BY <1>5, <2>3 DEF Content
    <3>3. \A c \in 1..n : c # b => Content(new[c].ents, G)
      BY <1>4, <2>1 DEF n
    <3> QED
      BY <1>7, <3>1, <3>2, <3>3
  <2>5. ASSUME NEW d \in DOMAIN G, G[d] # <<>>
        PROVE  \E c \in 1..n+1 : d \in Dests(new[c].ents)
    <3>1. PICK c \in 1..n : d \in Dests(list[c].ents)
      BY <2>2, <2>5
    <3>2. CASE c # b
      BY <1>4, <1>7, <3>1, <3>2 DEF n
    <3>3. CASE c = b
      BY <1>5, <1>7, <3>1, <3>3 DEF e
    <3> QED
      BY <3>2, <3>3
  <2> QED
    BY <1>6, <2>4, <2>5 DEF Holding
<1>17. ListHolds(new, G, H)
  BY <1>2, <1>15, <1>16 DEF ListHolds
<1> QED
  BY <1>17 DEF new, height, n

LEMMA LastIs ==
    ASSUME NEW ents \in Entries, Sorted(ents), ents # <<>>
    PROVE  /\ Last(ents).dest \in Dests(ents) /\ Last(ents).dest \in Nat
           /\ \A d \in Dests(ents) : d \in Nat /\ d <= Last(ents).dest
<1> DEFINE n == Len(ents)
<1>1. /\ n \in Nat /\ DOMAIN ents = 1..n /\ n # 0
      /\ \A i \in 1..n : ents[i].dest \in Nat
  BY EntryFacts
<1>2. Last(ents) = ents[n]
  BY DEF Last
<1> HIDE DEF n
<1>3. n \in 1..n
  BY <1>1
<1>4. ASSUME NEW i \in 1..n PROVE ents[i].dest <= ents[n].dest
  <2>1. i < n => ents[i].dest < ents[n].dest
    BY <1>1, <1>3 DEF Sorted
  <2>2. i < n \/ i = n
    BY <1>1
  <2> QED
    BY <1>1, <1>3, <2>1, <2>2
<1> QED
  BY <1>1, <1>2, <1>3, <1>4 DEF Dests

\* The entry of dest is in the block of dest, if it is anywhere.
LEMMA FoundHolds ==
    ASSUME NEW list, NEW H, HeightsFit(H), Shape(list, H), Stored(list), NEW dest \in Nat,
           NEW b, Found(list, b, dest), NEW c \in DOMAIN list, dest \in Dests(list[c].ents)
    PROVE  c = b
<1>1. /\ b \in DOMAIN list /\ list[b].max \in Nat /\ list[c].max \in Nat
      /\ list[c].ents \in Entries /\ Sorted(list[c].ents)
  BY BlockFacts DEF Found, Shape, Stored
<1>2. list[c].ents # <<>>
  BY DEF Dests
<1>3. dest <= list[c].max
  BY <1>1, <1>2, LastIs DEF Stored
<1>4. ~ list[c].max < list[b].max
  BY <1>1, <1>3 DEF Found
<1>5. ~ list[b].max < list[c].max
  <2> SUFFICES ASSUME list[b].max < list[c].max PROVE FALSE
    OBVIOUS
  <2>1. list[b].max < dest
    BY <1>1 DEF Stored, Dests
  <2>2. list[c].max <= list[b].max
    BY <2>1 DEF Found
  <2> QED
    BY <1>1, <2>2
<1>6. list[c].max = list[b].max
  BY <1>1, <1>4, <1>5
<1> QED
  BY <1>1, <1>6 DEF Shape

\* The shape depends on the order of the keys only.
LEMMA SameOrder ==
    ASSUME NEW list, NEW H, HeightsFit(H), Shape(list, H), NEW new \in Seq(Block),
           Len(new) = Len(list), \A c \in DOMAIN list : new[c].next = list[c].next,
           \A c, d \in DOMAIN list : new[c].max < new[d].max <=> list[c].max < list[d].max
    PROVE  Shape(new, H)
<1>1. /\ list \in Seq(Block) /\ list # <<>>
      /\ \A c, d \in DOMAIN list : list[c].max = list[d].max => c = d
      /\ \A c \in DOMAIN list : list[1].max <= list[c].max
      /\ \A l \in Levels : \A c \in On(list, H, l) : IsNext(list, H, c, l)
  BY DEF Shape
<1>2. /\ DOMAIN new = DOMAIN list /\ new # <<>>
      /\ \A c \in DOMAIN list : new[c].max \in Nat /\ list[c].max \in Nat
  BY <1>1, BlockFacts
<1>3. 1 \in DOMAIN list
  BY ShapeFacts
<1>4. \A c, d \in DOMAIN new : new[c].max = new[d].max => c = d
  <2> TAKE c \in DOMAIN new, d \in DOMAIN new
  <2>1. new[c].max = new[d].max => ~ list[c].max < list[d].max /\ ~ list[d].max < list[c].max
    BY <1>2
  <2>2. new[c].max = new[d].max => list[c].max = list[d].max
    BY <1>2, <2>1
  <2> QED
    BY <1>1, <1>2, <2>2
<1>5. \A c, d \in DOMAIN list : new[c].max <= new[d].max <=> list[c].max <= list[d].max
  <2> TAKE c \in DOMAIN list, d \in DOMAIN list
  <2>1. new[d].max < new[c].max <=> list[d].max < list[c].max
    OBVIOUS
  <2> QED
    BY <1>2, <2>1
<1>6. \A c \in DOMAIN new : new[1].max <= new[c].max
  BY <1>1, <1>2, <1>3, <1>5
<1>7. \A l \in Levels : On(new, H, l) = On(list, H, l) /\ On(list, H, l) \subseteq DOMAIN list
  BY <1>2 DEF On
<1>8. ASSUME NEW l \in Levels, NEW c \in On(list, H, l) PROVE IsNext(new, H, c, l)
  <2>1. c \in DOMAIN list /\ IsNext(list, H, c, l) /\ new[c].next[l] = list[c].next[l]
    BY <1>1, <1>7
  <2> DEFINE x == list[c].next[l]
  <2>2. /\ x \in {NullBlock} \cup On(list, H, l)
        /\ x # NullBlock => x \in DOMAIN list /\ list[c].max < list[x].max
        /\ \A d \in On(list, H, l) : list[c].max < list[d].max => x # NullBlock /\ list[x].max <= list[d].max
    BY <1>7, <2>1 DEF IsNext
  <2> HIDE DEF x
  <2>3. /\ x \in {NullBlock} \cup On(new, H, l)
        /\ x # NullBlock => new[c].max < new[x].max
    BY <1>7, <2>1, <2>2
  <2>4. \A d \in On(new, H, l) : new[c].max < new[d].max => x # NullBlock /\ new[x].max <= new[d].max
    BY <1>5, <1>7, <2>1, <2>2
  <2> QED
    BY <2>1, <2>3, <2>4 DEF IsNext, x
<1> QED
  BY <1>2, <1>4, <1>6, <1>7, <1>8 DEF Shape

LEMMA SkipPutIs ==
    ASSUME NEW list \in Seq(Block), NEW dest \in Nat, NEW ts \in Nat,
           NEW b, b = FindBlock(list, dest), b \in DOMAIN list, Sorted(list[b].ents),
           list[b].ents # <<>> => list[b].max = Last(list[b].ents).dest,
           NEW new, new = SkipPut(list, dest, ts),
           NEW ents, ents = InsertEntry(list[b].ents, dest, ts)
    PROVE  /\ new \in Seq(Block) /\ Len(new) = Len(list)
           /\ \A c \in DOMAIN list : /\ new[c].next = list[c].next
                                     /\ c # b => new[c] = list[c]
           /\ new[b].ents = ents /\ new[b].max = Last(ents).dest
<1>1. /\ list[b] \in Block /\ list[b].ents \in Entries /\ list[b].max \in Nat
      /\ Len(list) \in Nat /\ DOMAIN list = 1..Len(list)
      /\ \A c \in DOMAIN list : list[c] \in Block
  BY BlockFacts
<1>2. /\ ents \in Entries /\ Sorted(ents) /\ ents # <<>>
      /\ Dests(ents) = Dests(list[b].ents) \cup {dest}
  <2>1. PICK old \in Entries : old = list[b].ents /\ Sorted(old)
    BY <1>1
  <2>2. ents = InsertEntry(old, dest, ts)
    BY <2>1
  <2> QED
    BY <2>1, <2>2, InsertEntryIs
<1>3. Last(ents).dest \in Dests(ents) /\ Last(ents).dest \in Nat
  BY <1>2, LastIs
<1>4. dest \in Dests(list[b].ents) => list[b].max = Last(ents).dest
  <2> SUFFICES ASSUME dest \in Dests(list[b].ents) PROVE list[b].max = Last(ents).dest
    OBVIOUS
  <2>1. list[b].ents # <<>> /\ Dests(ents) = Dests(list[b].ents)
    <3>1. list[b].ents # <<>>
      BY DEF Dests
    <3> QED
      BY <1>2, <3>1
  <2>2. /\ Last(list[b].ents).dest \in Dests(ents) /\ Last(list[b].ents).dest \in Nat
        /\ \A d \in Dests(ents) : d <= Last(list[b].ents).dest /\ d <= Last(ents).dest
    BY <1>1, <1>2, <2>1, LastIs
  <2>3. Last(list[b].ents).dest <= Last(ents).dest /\ Last(ents).dest <= Last(list[b].ents).dest
    BY <1>3, <2>2
  <2> QED
    BY <1>3, <2>1, <2>2, <2>3
<1> DEFINE block == IF dest \in Dests(list[b].ents) THEN [list[b] EXCEPT !.ents = ents]
                    ELSE WithEntries(list[b], ents)
<1>5. /\ block \in Block /\ block.ents = ents /\ block.next = list[b].next
      /\ block.max = Last(ents).dest
  BY <1>1, <1>2, <1>3, <1>4 DEF Block, WithEntries
<1>6. new = [list EXCEPT ![b] = block]
  BY DEF SkipPut
<1> HIDE DEF block
<1>7. new \in Seq(Block) /\ Len(new) = Len(list)
  BY <1>5, <1>6, ExceptSeq
<1>8. new[b] = block /\ \A c \in DOMAIN list : c # b => new[c] = list[c]
  BY <1>1, <1>6
<1> QED
  BY <1>5, <1>7, <1>8

LEMMA SkipPutHolds ==
    ASSUME NEW list, NEW H, HeightsFit(H), NEW D \in SUBSET Nat, NEW G \in Chains(D),
           ListHolds(list, G, H), NEW dest \in D, NEW ts \in Nat
    PROVE  ListHolds(SkipPut(list, dest, ts), Pushed(G, dest, ts), H)
<1> DEFINE b == FindBlock(list, dest)
           new == SkipPut(list, dest, ts)
           e == list[b].ents
           ents == InsertEntry(e, dest, ts)
           m(c) == list[c].max
           mm(c) == new[c].max
           A == DOMAIN list
           F == Pushed(G, dest, ts)
<1>1. /\ Shape(list, H) /\ Stored(list) /\ Holding(list, G) /\ dest \in Nat
      /\ list \in Seq(Block)
  BY DEF ListHolds, Shape
<1>2. Found(list, b, dest)
  BY <1>1, FindBlockIs
<1> HIDE DEF b
<1>3. /\ b \in A /\ \A c \in A : m(c) \in Nat /\ list[c].ents \in Entries
      /\ e \in Entries /\ Sorted(e)
      /\ e # <<>> => m(b) = Last(e).dest
      /\ A = 1..Len(list)
  BY <1>1, <1>2, BlockFacts DEF Found, Stored
<1>4. /\ new \in Seq(Block) /\ Len(new) = Len(list)
      /\ \A c \in A : new[c].next = list[c].next /\ (c # b => new[c] = list[c])
      /\ new[b].ents = ents /\ mm(b) = Last(ents).dest
  BY <1>1, <1>3, SkipPutIs DEF b
<1>5. /\ ents \in Entries /\ Sorted(ents) /\ ents # <<>> /\ Dests(ents) = Dests(e) \cup {dest}
  BY <1>1, <1>3, InsertEntryIs
<1>6. /\ mm(b) \in Dests(ents) /\ mm(b) \in Nat /\ \A d \in Dests(ents) : d \in Nat /\ d <= mm(b)
  BY <1>4, <1>5, LastIs
<1>7. e # <<>> => m(b) \in Dests(e) /\ \A d \in Dests(e) : d \in Nat /\ d <= m(b)
  BY <1>3, LastIs
<1>8. /\ \A c, d \in A : m(c) = m(d) => c = d
      /\ \A c \in A : m(c) < m(b) => m(c) < dest
      /\ m(b) < dest => \A c \in A : m(c) <= m(b)
      /\ \A c \in A : list[c].ents = <<>> => Len(list) = 1
  BY <1>1, <1>2 DEF Shape, Stored, Found
<1> HIDE DEF new, ents, e, m, mm, A
\* The key of the block stays, or the block is the last one.
<1>9. mm(b) = m(b) \/ \A c \in A : c = b \/ (m(c) < m(b) /\ m(c) < mm(b))
  <2>1. CASE e = <<>>
    <3>1. A = 1..1
      BY <1>3, <1>8, <2>1 DEF e
    <3>2. \A c \in A : c = b
      BY <1>3, <3>1
    <3> QED
      BY <3>2
  <2>2. CASE e # <<>> /\ dest <= m(b)
    <3>1. mm(b) <= m(b)
      BY <1>1, <1>3, <1>5, <1>6, <1>7, <2>2
    <3>2. m(b) <= mm(b)
      BY <1>5, <1>6, <1>7, <2>2
    <3> QED
      BY <1>3, <1>6, <3>1, <3>2
  <2>3. CASE e # <<>> /\ ~ dest <= m(b)
    <3>1. m(b) < dest /\ dest <= mm(b)
      BY <1>1, <1>3, <1>5, <1>6, <2>3
    <3>2. ASSUME NEW c \in A, c # b PROVE m(c) < m(b) /\ m(c) < mm(b)
      <4>1. m(c) <= m(b) /\ m(c) # m(b)
        BY <1>3, <1>8, <3>1, <3>2
      <4> QED
        BY <1>1, <1>3, <1>6, <3>1, <4>1
    <3> QED
      BY <3>2
  <2> QED
    BY <2>1, <2>2, <2>3
<1>10. \A c \in A : c # b => mm(c) = m(c)
  BY <1>4 DEF m, mm
<1>11. \A c, d \in A : mm(c) < mm(d) <=> m(c) < m(d)
  <2> TAKE c \in A, d \in A
  <2>1. CASE mm(b) = m(b)
    BY <1>10, <2>1
  <2>2. CASE mm(b) # m(b)
    <3>1. \A a \in A : a = b \/ (m(a) < m(b) /\ m(a) < mm(b))
      BY <1>9, <2>2
    <3> QED
      BY <1>3, <1>6, <1>10, <3>1
  <2> QED
    BY <2>1, <2>2
<1>12. Shape(new, H)
  BY <1>1, <1>4, <1>11, SameOrder DEF m, mm, A
<1>13. DOMAIN new = A
  BY <1>3, <1>4, BlockFacts
<1>14. \A c, d \in A : m(c) < m(d) => \A i \in DOMAIN list[d].ents : m(c) < list[d].ents[i].dest
  BY <1>1 DEF Stored, m, A
<1>15. ASSUME NEW c \in A, NEW d \in A, mm(c) < mm(d), NEW i \in DOMAIN new[d].ents
       PROVE  mm(c) < new[d].ents[i].dest
  <2>1. m(c) < m(d) /\ c # d
    <3>1. mm(c) \in Nat
      BY <1>3, <1>6, <1>10
    <3> QED
      BY <1>11, <1>15, <3>1
  <2>2. CASE d # b
    <3>1. mm(c) = m(c)
      <4>1. c = b => mm(b) = m(b)
        BY <1>3, <1>9, <2>1, <2>2
      <4> QED
        BY <1>10, <4>1
    <3>2. new[d] = list[d]
      BY <1>4, <2>2 DEF A
    <3> QED
      BY <1>14, <1>15, <2>1, <3>1, <3>2
  <2>3. CASE d = b
    <3>1. mm(c) = m(c) /\ m(c) < dest /\ new[d].ents = ents
      BY <1>4, <1>8, <1>10, <2>1, <2>3
    <3>2. new[d].ents[i].dest \in Dests(e) \cup {dest}
      BY <1>5, <1>15, <3>1 DEF Dests
    <3>3. \A a \in Dests(e) : m(c) < a
      BY <1>3, <1>14, <2>1, <2>3 DEF Dests, e
    <3> QED
      BY <3>1, <3>2, <3>3
  <2> QED
    BY <2>2, <2>3
<1>16. Stored(new)
  <2>1. \A c \in A : Sorted(new[c].ents)
    BY <1>1, <1>4, <1>5 DEF Stored, A
  <2>2. \A c \in A : new[c].ents # <<>> => new[c].max = Last(new[c].ents).dest
    <3> TAKE c \in A
    <3>1. CASE c = b
      BY <1>4, <3>1 DEF mm
    <3>2. CASE c # b
      BY <1>1, <1>4, <3>2 DEF Stored, A
    <3> QED
      BY <3>1, <3>2
  <2>3. \A c \in A : new[c].ents = <<>> => Len(new) = 1
    BY <1>4, <1>5, <1>8
  <2> QED
    BY <1>13, <1>15, <2>1, <2>2, <2>3 DEF Stored, mm
<1>17. /\ F \in Chains(D) /\ F[dest] # <<>> /\ \A d \in D : d # dest => F[d] = G[d]
       /\ DOMAIN F = D /\ DOMAIN G = D
  <2>1. /\ F \in Chains(D) /\ F[dest] # <<>> /\ \A d \in D : d # dest => F[d] = G[d]
    BY PushedIs
  <2> HIDE DEF F
  <2>2. DOMAIN F = D /\ DOMAIN G = D
    BY <2>1 DEF Chains
  <2> QED
    BY <2>1, <2>2
<1>18. \A c \in A : dest \in Dests(list[c].ents) => c = b
  BY <1>1, <1>2, FoundHolds DEF A
<1>19. dest \notin Dests(e) => G[dest] = <<>>
  BY <1>1, <1>17, <1>18 DEF Holding, A, e
<1>20. Content(ents, F)
  <2>1. Content(e, G)
    BY <1>1, <1>3 DEF Holding, A, e
  <2> QED
    BY <1>3, <1>19, <2>1, InsertEntryContent DEF ents
<1> HIDE DEF F
<1>21. \A c \in A : Content(new[c].ents, F)
  <2> TAKE c \in A
  <2>1. CASE c = b
    BY <1>4, <1>20, <2>1
  <2>2. CASE c # b
    <3>1. Content(list[c].ents, G) /\ new[c] = list[c]
      BY <1>1, <1>4, <2>2 DEF Holding, A
    <3>2. \A i \in DOMAIN list[c].ents : list[c].ents[i].dest # dest
      BY <1>18, <2>2 DEF Dests
    <3> QED
      BY <1>17, <3>1, <3>2 DEF Content
  <2> QED
    BY <2>1, <2>2
<1>22. \A d \in D : F[d] # <<>> => \E c \in A : d \in Dests(new[c].ents)
  <2> TAKE d \in D
  <2>1. CASE d = dest
    BY <1>3, <1>4, <1>5, <2>1
  <2>2. CASE d # dest
    <3> SUFFICES ASSUME F[d] # <<>> PROVE \E c \in A : d \in Dests(new[c].ents)
      OBVIOUS
    <3>1. PICK c \in A : d \in Dests(list[c].ents)
      BY <1>1, <1>17, <2>2 DEF Holding, A
    <3>2. d \in Dests(new[c].ents)
      BY <1>4, <1>5, <3>1 DEF A, e
    <3> QED
      BY <3>2
  <2> QED
    BY <2>1, <2>2
<1>23. Holding(new, F)
  BY <1>13, <1>17, <1>21, <1>22 DEF Holding
<1>24. ListHolds(new, F, H)
  BY <1>12, <1>16, <1>23 DEF ListHolds
<1> QED
  BY <1>24 DEF new, F

\* insert_edge of the list, with or without a split.
LEMMA SkipInsertHolds ==
    ASSUME NEW list, NEW H, HeightsFit(H), NEW D \in SUBSET Nat, NEW G \in Chains(D),
           ListHolds(list, G, H), NEW dest \in D, NEW ts \in Nat
    PROVE  ListHolds(SkipInsert(list, dest, ts, H[Len(list) + 1]), Pushed(G, dest, ts), H)
<1> DEFINE b == FindBlock(list, dest)
           new == IF Len(list[b].ents) = SkipBlock THEN SplitBlock(list, b, dest, H[Len(list) + 1])
                  ELSE list
<1>1. dest \in Nat /\ Found(list, b, dest)
  BY FindBlockIs DEF ListHolds
<1> HIDE DEF b
<1>2. ListHolds(new, G, H)
  BY <1>1, SplitHolds
<1>3. SkipInsert(list, dest, ts, H[Len(list) + 1]) = SkipPut(new, dest, ts)
  BY DEF SkipInsert, b
<1> HIDE DEF new
<1> QED
  BY <1>2, <1>3, SkipPutHolds

LEMMA SkipIsNewIs ==
    ASSUME NEW list, NEW H, HeightsFit(H), NEW D \in SUBSET Nat, NEW G \in Chains(D),
           ListHolds(list, G, H), NEW dest \in D
    PROVE  SkipIsNew(list, dest) <=> G[dest] = <<>>
<1> DEFINE b == FindBlock(list, dest)
<1>1. /\ dest \in Nat /\ Shape(list, H) /\ Stored(list) /\ Holding(list, G)
      /\ dest \in DOMAIN G
  BY DEF ListHolds, Chains
<1>2. Found(list, b, dest)
  BY <1>1, FindBlockIs
<1> HIDE DEF b
<1>3. ASSUME dest \in Dests(list[b].ents) PROVE G[dest] # <<>>
  <2>1. Content(list[b].ents, G)
    BY <1>1, <1>2 DEF Holding, Found
  <2> QED
    BY <1>3, <2>1 DEF Content, Dests
<1>4. ASSUME G[dest] # <<>> PROVE dest \in Dests(list[b].ents)
  <2>1. PICK c \in DOMAIN list : dest \in Dests(list[c].ents)
    BY <1>1, <1>4 DEF Holding
  <2> QED
    BY <1>1, <1>2, <2>1, FoundHolds
<1> QED
  BY <1>3, <1>4 DEF SkipIsNew, b

LEMMA SkipHasEdgeIs ==
    ASSUME NEW list, NEW H, HeightsFit(H), NEW D \in SUBSET Nat, NEW G \in Chains(D),
           ListHolds(list, G, H), NEW dest \in D, NEW ts
    PROVE  SkipHasEdge(list, dest, ts) <=> CheckVersion(G[dest], ts)
<1> DEFINE b == FindBlock(list, dest)
           e == list[b].ents
<1>1. /\ dest \in Nat /\ Shape(list, H) /\ Stored(list) /\ Holding(list, G)
      /\ dest \in DOMAIN G
  BY DEF ListHolds, Chains
<1>2. Found(list, b, dest)
  BY <1>1, FindBlockIs
<1>3. SkipHasEdge(list, dest, ts) <=> FindEntry(e, dest, ts)
  BY DEF SkipHasEdge
<1>4. SkipIsNew(list, dest) <=> dest \notin Dests(e)
  BY DEF SkipIsNew
<1> HIDE DEF b, e
<1>5. b \in DOMAIN list /\ e \in Entries /\ Sorted(e) /\ Content(e, G)
  <2>1. b \in DOMAIN list /\ list \in Seq(Block)
    BY <1>1, <1>2 DEF Found, Shape
  <2> QED
    BY <1>1, <2>1, BlockFacts DEF Stored, Holding, e
<1>6. FindEntry(e, dest, ts) <=> \E i \in DOMAIN e : e[i].dest = dest /\ CheckVersion(e[i].chain, ts)
  BY <1>5, FindEntryIs
<1>7. \A i \in DOMAIN e : e[i].dest = dest => e[i].chain = G[dest]
  BY <1>5 DEF Content
<1>8. ASSUME CheckVersion(G[dest], ts) PROVE \E i \in DOMAIN e : e[i].dest = dest
  <2>1. G[dest] # <<>>
    BY <1>8 DEF CheckVersion
  <2>2. dest \in Dests(e)
    BY <1>4, <2>1, SkipIsNewIs
  <2> QED
    BY <2>2 DEF Dests
<1> QED
  BY <1>3, <1>6, <1>7, <1>8

Ascending(s) == \A i, j \in DOMAIN s : i < j => s[i] < s[j]

LEMMA ConcatAscends ==
    ASSUME NEW a \in Seq(Nat), NEW z \in Seq(Nat), Ascending(a), Ascending(z),
           \A i \in DOMAIN a, j \in DOMAIN z : a[i] < z[j]
    PROVE  /\ a \o z \in Seq(Nat) /\ Ascending(a \o z)
           /\ Range(a \o z) = Range(a) \cup Range(z)
<1> DEFINE n == Len(a)
           k == Len(z)
           s == a \o z
<1>1. /\ n \in Nat /\ k \in Nat /\ DOMAIN a = 1..n /\ DOMAIN z = 1..k
      /\ s \in Seq(Nat) /\ Len(s) = n + k /\ DOMAIN s = 1..n+k
      /\ \A i \in 1..n+k : s[i] = IF i <= n THEN a[i] ELSE z[i - n]
  BY LenProperties, ConcatProperties
<1> HIDE DEF n, k, s
<1>2. \A i \in 1..n : i \in 1..n+k /\ s[i] = a[i]
  BY <1>1
<1>3. \A i \in 1..k : n + i \in 1..n+k /\ s[n + i] = z[i]
  <2> TAKE i \in 1..k
  <2>1. n + i \in 1..n+k /\ ~ n + i <= n /\ (n + i) - n = i
    BY <1>1
  <2> QED
    BY <1>1, <2>1
<1>4. \A i \in 1..n+k : i \in 1..n \/ i - n \in 1..k
  BY <1>1
<1>5. \A i \in 1..n+k : i \notin 1..n => i - n \in 1..k /\ s[i] = z[i - n] /\ i > n
  BY <1>1
<1>6. ASSUME NEW i \in 1..n+k, NEW j \in 1..n+k, i < j PROVE s[i] < s[j]
  <2>1. CASE i \in 1..n /\ j \in 1..n
    BY <1>1, <1>2, <1>6, <2>1 DEF Ascending
  <2>2. CASE i \in 1..n /\ j \notin 1..n
    BY <1>1, <1>2, <1>5, <2>2
  <2>3. CASE i \notin 1..n /\ j \notin 1..n
    <3>1. i - n < j - n
      BY <1>1, <1>6
    <3> QED
      BY <1>1, <1>5, <2>3, <3>1 DEF Ascending
  <2>4. CASE i \notin 1..n /\ j \in 1..n
    BY <1>1, <1>6, <2>4
  <2> QED
    BY <2>1, <2>2, <2>3, <2>4
<1>7. Range(s) = Range(a) \cup Range(z)
  <2>1. \A i \in 1..n+k : s[i] \in Range(a) \cup Range(z)
    <3> TAKE i \in 1..n+k
    <3>1. CASE i \in 1..n
      BY <1>1, <1>2, <3>1 DEF Range
    <3>2. CASE i \notin 1..n
      BY <1>1, <1>5, <3>2 DEF Range
    <3> QED
      BY <3>1, <3>2
  <2>2. \A i \in 1..n : a[i] \in Range(s)
    BY <1>1, <1>2 DEF Range
  <2>3. \A i \in 1..k : z[i] \in Range(s)
    BY <1>1, <1>3 DEF Range
  <2>4. Range(s) \subseteq Range(a) \cup Range(z)
    BY <1>1, <2>1 DEF Range
  <2>5. Range(a) \subseteq Range(s) /\ Range(z) \subseteq Range(s)
    BY <1>1, <2>2, <2>3 DEF Range
  <2> QED
    BY <2>4, <2>5
<1> QED
  BY <1>1, <1>6, <1>7 DEF Ascending, s

\* Block c has d, and ts sees it.
SeenIn(list, c, d, ts) ==
    \E i \in DOMAIN list[c].ents : list[c].ents[i].dest = d /\ CheckVersion(list[c].ents[i].chain, ts)

\* The blocks the scan is through with.
Behind(list, b) == {c \in DOMAIN list : b = NullBlock \/ list[c].max < list[b].max}

\* How far a scan is.
ScanGood(list, ts, scan) ==
    /\ scan.at \in {NullBlock} \cup DOMAIN list
    /\ scan.out \in Seq(Nat) /\ Ascending(scan.out)
    /\ \A d : d \in Range(scan.out) <=> \E c \in Behind(list, scan.at) : SeenIn(list, c, d, ts)

LEMMA ScanBlockGood ==
    ASSUME NEW list, NEW H, HeightsFit(H), Shape(list, H), Stored(list), NEW ts,
           NEW scan, ScanGood(list, ts, scan), scan.at # NullBlock,
           NEW new, new = ScanBlock(list, ts, scan)
    PROVE  /\ ScanGood(list, ts, new)
           /\ new.at # NullBlock => list[scan.at].max < list[new.at].max
           /\ new = [at |-> new.at, out |-> new.out]
<1> DEFINE b == scan.at
           x == list[b].next[0]
           v == Visible(list[b].ents, ts)
<1>1. /\ b \in DOMAIN list /\ IsNext(list, H, b, 0) /\ On(list, H, 0) = DOMAIN list
      /\ \A c \in DOMAIN list : /\ c # NullBlock /\ list[c].max \in Nat
                                /\ list[c].ents \in Entries /\ Sorted(list[c].ents)
  <2>1. b \in DOMAIN list /\ On(list, H, 0) = DOMAIN list /\ 0 \in Levels
    BY ShapeFacts, LevelFacts DEF ScanGood
  <2>2. \A c \in DOMAIN list : /\ c # NullBlock /\ list[c].max \in Nat
                               /\ list[c].ents \in Entries /\ Sorted(list[c].ents)
    BY ShapeFacts, BlockFacts DEF Shape, Stored
  <2> QED
    BY <2>1, <2>2 DEF Shape
<1>2. new = [at |-> x, out |-> scan.out \o v]
  BY DEF ScanBlock, Next0
<1>3. /\ v \in Seq(Nat) /\ Ascending(v)
      /\ \A d : d \in Range(v) <=> SeenIn(list, b, d, ts)
  <2> DEFINE e == list[b].ents
  <2>1. e \in Entries /\ Sorted(e)
    BY <1>1
  <2> HIDE DEF e, b
  <2>2. /\ Visible(e, ts) \in Seq(Nat) /\ Ascending(Visible(e, ts))
        /\ Range(Visible(e, ts)) = {e[i].dest : i \in {j \in DOMAIN e : CheckVersion(e[j].chain, ts)}}
    BY <2>1, VisibleIs DEF Ascending
  <2> QED
    BY <2>2 DEF SeenIn, e
<1> HIDE DEF b, x, v
<1>4. /\ x \in {NullBlock} \cup DOMAIN list
      /\ x # NullBlock => list[b].max < list[x].max
      /\ \A d \in DOMAIN list : list[b].max < list[d].max => x # NullBlock /\ list[x].max <= list[d].max
  BY <1>1 DEF IsNext, x
<1>5. Behind(list, x) = Behind(list, b) \cup {b}
  <2>1. ASSUME NEW c \in DOMAIN list
        PROVE  (x = NullBlock \/ list[c].max < list[x].max) <=> ~ list[b].max < list[c].max
    <3>1. CASE x = NullBlock
      BY <1>4, <3>1
    <3>2. CASE x # NullBlock
      <4>1. x \in DOMAIN list
        BY <1>4, <3>2
      <4>2. list[b].max \in Nat /\ list[c].max \in Nat /\ list[x].max \in Nat
        BY <1>1, <4>1
      <4> QED
        BY <1>4, <3>2, <4>2
    <3> QED
      BY <3>1, <3>2
  <2>2. \A c \in DOMAIN list : list[c].max = list[b].max => c = b
    BY <1>1 DEF Shape
  <2>3. \A c \in DOMAIN list : ~ list[b].max < list[c].max <=> c = b \/ list[c].max < list[b].max
    BY <1>1, <2>2
  <2> QED
    BY <1>1, <2>1, <2>3 DEF Behind
<1>6. /\ scan.out \in Seq(Nat) /\ Ascending(scan.out)
      /\ \A d : d \in Range(scan.out) <=> \E c \in Behind(list, b) : SeenIn(list, c, d, ts)
  BY DEF ScanGood, b
<1>7. ASSUME NEW i \in DOMAIN scan.out, NEW j \in DOMAIN v PROVE scan.out[i] < v[j]
  <2>1. scan.out[i] \in Range(scan.out) /\ v[j] \in Range(v)
    BY DEF Range
  <2>2. PICK c \in Behind(list, b) : SeenIn(list, c, scan.out[i], ts)
    BY <1>6, <2>1
  <2>3. c \in DOMAIN list /\ list[c].max < list[b].max
    BY <1>1 DEF Behind
  <2>4. scan.out[i] \in Dests(list[c].ents) /\ list[c].ents # <<>>
    BY <2>2 DEF SeenIn, Dests
  <2>5. scan.out[i] <= list[c].max /\ scan.out[i] \in Nat
    BY <1>1, <2>3, <2>4, LastIs DEF Stored
  <2>6. SeenIn(list, b, v[j], ts)
    BY <1>3, <2>1
  <2>7. list[c].max < v[j]
    BY <1>1, <2>3, <2>6 DEF SeenIn, Stored
  <2>8. v[j] \in Nat
    BY <1>3, ElementOfSeq
  <2> QED
    BY <1>1, <2>3, <2>5, <2>7, <2>8
<1>8. /\ scan.out \o v \in Seq(Nat) /\ Ascending(scan.out \o v)
      /\ Range(scan.out \o v) = Range(scan.out) \cup Range(v)
  BY <1>3, <1>6, <1>7, ConcatAscends
<1>9. \A d : d \in Range(scan.out \o v) <=> \E c \in Behind(list, x) : SeenIn(list, c, d, ts)
  BY <1>3, <1>5, <1>6, <1>8
<1> QED
  BY <1>2, <1>4, <1>8, <1>9 DEF ScanGood, b

LEMMA SkipEdgesLoop ==
    ASSUME NEW list, NEW H, HeightsFit(H), Shape(list, H), Stored(list), NEW ts
    PROVE  \E at : /\ SkipEdges(list, ts) = at[Len(list)].out
                   /\ at[0] = [at |-> HeadBlock, out |-> <<>>]
                   /\ \A n \in 1..Len(list) : at[n] = ScanBlock(list, ts, at[n-1])
<1> DEFINE L == Len(list)
           base == [at |-> HeadBlock, out |-> <<>>]
           Good(scan) == ScanGood(list, ts, scan) /\ scan = [at |-> scan.at, out |-> scan.out]
           S == {scan \in [at : {NullBlock} \cup DOMAIN list, out : Seq(Nat)] : Good(scan)}
           step == [n \in 1..L |-> [scan \in S |-> ScanBlock(list, ts, scan)]]
<1>1. L \in Nat
  BY ShapeFacts
<1>2. base \in S
  <2>1. /\ HeadBlock \in DOMAIN list /\ HeadBlock # NullBlock
        /\ \A c \in DOMAIN list : list[c].max \in Nat /\ list[HeadBlock].max <= list[c].max
    BY ShapeFacts, LevelFacts DEF Shape
  <2>2. Behind(list, HeadBlock) = {}
    BY <2>1 DEF Behind
  <2>3. base.at = HeadBlock /\ base.out = <<>> /\ <<>> \in Seq(Nat) /\ DOMAIN <<>> = {}
    OBVIOUS
  <2>4. Ascending(<<>>) /\ Range(<<>>) = {}
    BY <2>3 DEF Ascending, Range
  <2>5. ScanGood(list, ts, base)
    BY <2>1, <2>2, <2>3, <2>4 DEF ScanGood
  <2> QED
    BY <2>1, <2>5
<1>3. \A scan \in S : ScanBlock(list, ts, scan) \in S
  <2> TAKE scan \in S
  <2>1. CASE scan.at = NullBlock
    BY <2>1 DEF ScanBlock
  <2>2. CASE scan.at # NullBlock
    <3> DEFINE new == ScanBlock(list, ts, scan)
    <3>1. ScanGood(list, ts, new) /\ new = [at |-> new.at, out |-> new.out]
      <4> HIDE DEF new
      <4>1. new = ScanBlock(list, ts, scan)
        BY DEF new
      <4> QED
        BY <2>2, <4>1, ScanBlockGood
    <3>2. new.at \in {NullBlock} \cup DOMAIN list /\ new.out \in Seq(Nat)
      BY <3>1 DEF ScanGood
    <3> HIDE DEF new
    <3>3. new \in S
      BY <3>1, <3>2
    <3> QED
      BY <3>3 DEF new
  <2> QED
    BY <2>1, <2>2
<1> HIDE DEF S, L, base
<1>4. step \in [1..L -> [S -> S]]
  BY <1>3
<1>5. PICK g \in [0..L -> S] : g[0] = base /\ \A n \in 1..L : g[n] = step[n][g[n-1]]
  <2> HIDE DEF step
  <2> QED
    BY <1>1, <1>2, <1>4, Recursion
<1>6. \A n \in 1..L : n - 1 \in 0..L /\ g[n] = ScanBlock(list, ts, g[n-1])
  <2> TAKE n \in 1..L
  <2>1. n - 1 \in 0..L
    BY <1>1
  <2>2. g[n-1] \in S
    BY <2>1
  <2> QED
    BY <1>5, <2>1, <2>2
<1> HIDE DEF step
<1> DEFINE Loop(h) == h = [n \in 0..L |-> IF n = 0 THEN base ELSE ScanBlock(list, ts, h[n-1])]
<1>7. Loop(g)
  <2>1. ASSUME NEW n \in 0..L PROVE g[n] = IF n = 0 THEN base ELSE ScanBlock(list, ts, g[n-1])
    <3>1. n = 0 \/ n \in 1..L
      BY <1>1
    <3> QED
      BY <1>1, <1>5, <1>6, <3>1
  <2> QED
    BY <2>1
<1> DEFINE f == CHOOSE h : Loop(h)
<1>8. SkipEdges(list, ts) = f[L].out
  BY DEF SkipEdges, L, base
<1>9. Loop(f)
  BY <1>7
<1> HIDE DEF f
<1>10. /\ f[0] = base
       /\ \A n \in 1..L : f[n] = ScanBlock(list, ts, f[n-1])
  <2>1. \A n \in 0..L : f[n] = IF n = 0 THEN base ELSE ScanBlock(list, ts, f[n-1])
    BY <1>9
  <2> QED
    BY <1>1, <2>1
<1> QED
  BY <1>8, <1>10 DEF L, base

\* A scan of the list yields what is visible, in ascending order.
LEMMA SkipEdgesIs ==
    ASSUME NEW list, NEW H, HeightsFit(H), NEW D \in SUBSET Nat, NEW G \in Chains(D),
           ListHolds(list, G, H), NEW ts
    PROVE  /\ SkipEdges(list, ts) \in Seq(Nat) /\ Ascending(SkipEdges(list, ts))
           /\ Range(SkipEdges(list, ts)) = {d \in D : CheckVersion(G[d], ts)}
<1> DEFINE L == Len(list)
<1>1. /\ Shape(list, H) /\ Stored(list) /\ Holding(list, G) /\ L \in Nat /\ DOMAIN G = D
  BY ShapeFacts DEF ListHolds, Chains
<1>2. PICK scan : /\ SkipEdges(list, ts) = scan[L].out
                  /\ scan[0] = [at |-> HeadBlock, out |-> <<>>]
                  /\ \A n \in 1..L : scan[n] = ScanBlock(list, ts, scan[n-1])
  BY <1>1, SkipEdgesLoop
<1> DEFINE Good(n) == /\ ScanGood(list, ts, scan[n])
                      /\ scan[n].at # NullBlock => Rank(list, scan[n].at) >= n
           A == {n \in 0..L : Good(n)}
<1> HIDE DEF L
<1>3. \A c \in DOMAIN list : Rank(list, c) \in Nat /\ Rank(list, c) < L
  BY <1>1, RankIs DEF L
<1>4. 0 \in A
  <2>1. /\ HeadBlock \in DOMAIN list /\ HeadBlock # NullBlock
        /\ \A c \in DOMAIN list : list[c].max \in Nat /\ list[HeadBlock].max <= list[c].max
    BY <1>1, ShapeFacts, LevelFacts DEF Shape
  <2>2. Behind(list, HeadBlock) = {}
    BY <2>1 DEF Behind
  <2>3. scan[0].at = HeadBlock /\ scan[0].out = <<>> /\ <<>> \in Seq(Nat) /\ DOMAIN <<>> = {}
    BY <1>2
  <2>4. Ascending(<<>>) /\ Range(<<>>) = {}
    BY <2>3 DEF Ascending, Range
  <2>5. ScanGood(list, ts, scan[0])
    BY <2>1, <2>2, <2>3, <2>4 DEF ScanGood
  <2>6. Rank(list, HeadBlock) >= 0 /\ 0 \in 0..L
    BY <1>1, <1>3, <2>1
  <2> QED
    BY <2>3, <2>5, <2>6
<1>5. ASSUME NEW n \in 1..L, n - 1 \in A PROVE n \in A
  <2>1. Good(n - 1) /\ n \in 0..L /\ n \in Nat
    BY <1>1, <1>5
  <2>2. scan[n] = ScanBlock(list, ts, scan[n-1])
    BY <1>2
  <2>3. CASE scan[n-1].at = NullBlock
    <3>1. scan[n] = scan[n-1]
      BY <2>2, <2>3 DEF ScanBlock
    <3> QED
      BY <2>1, <2>3, <3>1
  <2>4. CASE scan[n-1].at # NullBlock
    <3> DEFINE c == scan[n-1].at
               x == scan[n].at
    <3>1. ScanGood(list, ts, scan[n]) /\ (x # NullBlock => list[c].max < list[x].max)
      BY <1>1, <2>1, <2>2, <2>4, ScanBlockGood
    <3>2. c \in DOMAIN list /\ x \in {NullBlock} \cup DOMAIN list /\ Rank(list, c) >= n - 1
      BY <2>1, <2>4, <3>1 DEF ScanGood
    <3> HIDE DEF c, x
    <3>3. x # NullBlock => Rank(list, c) < Rank(list, x) /\ Rank(list, x) \in Nat /\ Rank(list, c) \in Nat
      BY <1>1, <1>3, <3>1, <3>2, RankIs
    <3>4. x # NullBlock => Rank(list, x) >= n
      BY <2>1, <3>2, <3>3
    <3> QED
      BY <2>1, <3>1, <3>4 DEF x
  <2> QED
    BY <2>3, <2>4
<1>6. Good(L)
  <2> HIDE DEF A
  <2>1. 0..L \subseteq A
    BY <1>1, <1>4, <1>5, LoopInduction
  <2> QED
    BY <1>1, <2>1 DEF A
<1>7. scan[L].at = NullBlock
  <2> SUFFICES ASSUME scan[L].at # NullBlock PROVE FALSE
    OBVIOUS
  <2>1. scan[L].at \in DOMAIN list
    BY <1>6 DEF ScanGood
  <2>2. Rank(list, scan[L].at) \in Nat /\ Rank(list, scan[L].at) < L /\ Rank(list, scan[L].at) >= L
    BY <1>3, <1>6, <2>1
  <2> QED
    BY <1>1, <2>2
<1> DEFINE out == SkipEdges(list, ts)
<1>8. /\ out \in Seq(Nat) /\ Ascending(out)
      /\ \A d : d \in Range(out) <=> \E c \in DOMAIN list : SeenIn(list, c, d, ts)
  <2>1. Behind(list, NullBlock) = DOMAIN list
    BY DEF Behind
  <2> QED
    BY <1>2, <1>6, <1>7, <2>1 DEF ScanGood
<1> HIDE DEF out
<1>9. ASSUME NEW c \in DOMAIN list, NEW d, SeenIn(list, c, d, ts)
      PROVE  d \in D /\ CheckVersion(G[d], ts)
  BY <1>1, <1>9 DEF SeenIn, Holding, Content
<1>10. ASSUME NEW d \in D, CheckVersion(G[d], ts)
       PROVE  \E c \in DOMAIN list : SeenIn(list, c, d, ts)
  <2>1. G[d] # <<>>
    BY <1>10 DEF CheckVersion
  <2>2. PICK c \in DOMAIN list : d \in Dests(list[c].ents)
    BY <1>1, <2>1 DEF Holding
  <2>3. PICK i \in DOMAIN list[c].ents : list[c].ents[i].dest = d
    BY <2>2 DEF Dests
  <2>4. list[c].ents[i].chain = G[d]
    BY <1>1, <2>3 DEF Holding, Content
  <2> QED
    BY <1>10, <2>3, <2>4 DEF SeenIn
<1>11. Range(out) = {d \in D : CheckVersion(G[d], ts)}
  BY <1>8, <1>9, <1>10
<1> QED
  BY <1>8, <1>11 DEF out

LEMMA LinkedLoop ==
    ASSUME NEW list, NEW H, HeightsFit(H), Shape(list, H), NEW l \in Levels
    PROVE  \E at : /\ Linked(list, l) = {at[n] : n \in 1..Len(list)} \ {NullBlock}
                   /\ at[1] = HeadBlock
                   /\ \A n \in 1..Len(list) : at[n] \in {NullBlock} \cup On(list, H, l)
                   /\ \A n \in 1..Len(list) : n # 1 => at[n] = Follow(list, at[n-1], l)
<1> DEFINE L == Len(list)
           S == {NullBlock} \cup On(list, H, l)
           k == L - 1
           step == [n \in 1..k |-> [c \in S |-> Follow(list, c, l)]]
<1>1. L \in Nat /\ L >= 1 /\ k \in Nat
  BY ShapeFacts
<1>2. \A c \in S : Follow(list, c, l) \in S
  BY DEF Follow, Shape, IsNext
<1>3. HeadBlock \in S
  BY ShapeFacts
<1> HIDE DEF L, S
<1>4. step \in [1..k -> [S -> S]]
  BY <1>2
<1>5. PICK g \in [0..k -> S] : g[0] = HeadBlock /\ \A n \in 1..k : g[n] = step[n][g[n-1]]
  <2> HIDE DEF step, k
  <2> QED
    BY <1>1, <1>3, <1>4, Recursion
<1> DEFINE at == [n \in 1..L |-> g[n-1]]
           Loop(h) == h = [n \in 1..L |-> IF n = 1 THEN HeadBlock ELSE Follow(list, h[n-1], l)]
<1>6. Loop(at)
  <2>1. ASSUME NEW n \in 1..L
        PROVE  at[n] = IF n = 1 THEN HeadBlock ELSE Follow(list, at[n-1], l)
    <3>1. CASE n = 1
      BY <1>5, <3>1
    <3>2. CASE n # 1
      <4>1. n - 1 \in 1..L /\ n - 1 \in 1..k /\ (n - 1) - 1 \in 0..k
        BY <1>1, <3>2
      <4>2. at[n] = g[n-1] /\ at[n-1] = g[(n-1)-1] /\ g[(n-1)-1] \in S
        BY <4>1
      <4>3. g[n-1] = step[n-1][g[(n-1)-1]]
        BY <1>5, <4>1
      <4>4. g[n-1] = Follow(list, g[(n-1)-1], l)
        BY <4>1, <4>2, <4>3
      <4> QED
        BY <3>2, <4>2, <4>4
    <3> QED
      BY <3>1, <3>2
  <2> HIDE DEF step
  <2> QED
    BY <2>1
<1> DEFINE f == CHOOSE h : Loop(h)
<1>7. Linked(list, l) = {f[n] : n \in 1..L} \ {NullBlock}
  BY DEF Linked, L
<1>8. Loop(f)
  BY <1>6
<1> HIDE DEF f, at, step
<1>9. \A n \in 1..L : f[n] = IF n = 1 THEN HeadBlock ELSE Follow(list, f[n-1], l)
  BY <1>8
<1>10. f[1] = HeadBlock /\ \A n \in 1..L : n # 1 => f[n] = Follow(list, f[n-1], l)
  BY <1>1, <1>9
<1>11. \A n \in 1..L : f[n] \in S
  <2> DEFINE A == {n \in 0..L : n = 0 \/ f[n] \in S}
  <2>1. 0 \in A
    BY <1>1
  <2>2. ASSUME NEW n \in 1..L, n - 1 \in A PROVE n \in A
    <3>1. n = 1 => f[n] \in S
      BY <1>3, <1>10
    <3>2. n # 1 => f[n-1] \in S
      BY <1>1, <2>2
    <3>3. n # 1 => f[n] \in S
      BY <1>2, <1>10, <3>2
    <3>4. n \in 0..L
      BY <1>1
    <3> QED
      BY <3>1, <3>3, <3>4
  <2> HIDE DEF A
  <2>3. 0..L \subseteq A
    BY <1>1, <2>1, <2>2, LoopInduction
  <2>4. \A n \in 1..L : n \in 0..L /\ n # 0
    BY <1>1
  <2> QED
    BY <2>3, <2>4 DEF A
<1> QED
  BY <1>7, <1>10, <1>11 DEF L, S

\* What hangs on a level is what belongs there.
LEMMA LinkedIs ==
    ASSUME NEW list, NEW H, HeightsFit(H), Shape(list, H), NEW l \in Levels
    PROVE  Linked(list, l) = On(list, H, l)
<1> DEFINE L == Len(list)
           S == On(list, H, l)
<1>1. /\ L \in Nat /\ L >= 1 /\ L \in 1..L /\ S \subseteq DOMAIN list /\ HeadBlock \in S
      /\ \A c \in DOMAIN list : c # NullBlock /\ list[c].max \in Nat
  <2>1. /\ L \in Nat /\ DOMAIN list = 1..L /\ 1 \in DOMAIN list /\ S \subseteq DOMAIN list
        /\ HeadBlock \in S
        /\ \A c \in DOMAIN list : c # NullBlock /\ list[c].max \in Nat
    BY ShapeFacts
  <2> HIDE DEF L, S
  <2>2. L >= 1 /\ L \in 1..L
    BY <2>1
  <2> QED
    BY <2>1, <2>2
<1>2. PICK at : /\ Linked(list, l) = {at[n] : n \in 1..L} \ {NullBlock}
                /\ at[1] = HeadBlock
                /\ \A n \in 1..L : at[n] \in {NullBlock} \cup S
                /\ \A n \in 1..L : n # 1 => at[n] = Follow(list, at[n-1], l)
  BY LinkedLoop
<1>3. Linked(list, l) \subseteq S
  BY <1>2
<1>4. /\ \A c \in DOMAIN list : Rank(list, c) \in Nat /\ Rank(list, c) < L
      /\ \A c, d \in DOMAIN list : list[c].max < list[d].max => Rank(list, c) < Rank(list, d)
  BY RankIs
<1>5. /\ \A c \in S : IsNext(list, H, c, l)
      /\ \A c, d \in DOMAIN list : list[c].max = list[d].max => c = d
      /\ \A c \in DOMAIN list : list[HeadBlock].max <= list[c].max
  BY DEF Shape, HeadBlock
<1> HIDE DEF L, S
<1>6. ASSUME NEW d \in S, d \notin Linked(list, l) PROVE FALSE
  <2>1. d \in DOMAIN list /\ list[d].max \in Nat /\ \A n \in 1..L : at[n] # d
    BY <1>1, <1>2, <1>6
  <2> DEFINE Good(n) == /\ at[n] \in S /\ list[at[n]].max < list[d].max
                        /\ Rank(list, at[n]) >= n - 1
             A == {n \in 0..L : n = 0 \/ Good(n)}
  <2>2. 0 \in A
    BY <1>1
  <2>3. \A c \in S : c # d /\ list[c].max <= list[d].max => list[c].max < list[d].max
    <3> TAKE c \in S
    <3>1. c \in DOMAIN list /\ list[c].max \in Nat
      BY <1>1
    <3> QED
      BY <1>5, <2>1, <3>1
  <2>4. ASSUME NEW n \in 1..L, n - 1 \in A PROVE n \in A
    <3>1. n \in 0..L /\ n \in Nat
      BY <1>1
    <3>2. CASE n = 1
      <4>1. at[n] = HeadBlock /\ at[n] # d
        BY <1>2, <2>1, <3>2
      <4>2. list[at[n]].max < list[d].max
        BY <1>1, <1>5, <2>1, <2>3, <4>1
      <4>3. Rank(list, at[n]) \in Nat
        BY <1>1, <1>4, <4>1
      <4>4. Rank(list, at[n]) >= n - 1
        BY <3>2, <4>3
      <4> QED
        BY <1>1, <3>1, <4>1, <4>2, <4>4
    <3>3. CASE n # 1
      <4> DEFINE c == at[n-1]
                 x == at[n]
      <4>1. Good(n - 1)
        BY <2>4, <3>1, <3>3
      <4>2. c \in S /\ list[c].max < list[d].max /\ Rank(list, c) >= (n - 1) - 1
        BY <4>1
      <4>3. x = list[c].next[l] /\ x # d
        BY <1>1, <1>2, <2>1, <3>3, <4>2 DEF Follow
      <4> HIDE DEF c, x
      <4>4. x \in S /\ list[c].max < list[x].max /\ list[x].max <= list[d].max
        BY <1>5, <4>2, <4>3 DEF IsNext, S
      <4>5. list[x].max < list[d].max
        BY <2>3, <4>3, <4>4
      <4>6. /\ Rank(list, c) < Rank(list, x) /\ Rank(list, c) \in Nat /\ Rank(list, x) \in Nat
        BY <1>1, <1>4, <4>2, <4>4
      <4>7. Rank(list, x) >= n - 1
        BY <3>1, <4>2, <4>6
      <4> QED
        BY <3>1, <4>4, <4>5, <4>7 DEF x
    <3> QED
      BY <3>2, <3>3
  <2>5. Good(L)
    <3> HIDE DEF A
    <3>1. 0..L \subseteq A
      BY <1>1, <2>2, <2>4, LoopInduction
    <3>2. L \in A /\ L # 0
      BY <1>1, <3>1
    <3> QED
      BY <3>2 DEF A
  <2>6. at[L] \in DOMAIN list /\ list[at[L]].max < list[d].max /\ Rank(list, at[L]) >= L - 1
    BY <1>1, <2>5
  <2>7. /\ Rank(list, at[L]) < Rank(list, d) /\ Rank(list, d) < L
        /\ Rank(list, at[L]) \in Nat /\ Rank(list, d) \in Nat
    BY <1>4, <2>1, <2>6
  <2> QED
    BY <1>1, <2>6, <2>7
<1> QED
  BY <1>3, <1>6 DEF S

LEMMA LevelsHoldIs ==
    ASSUME NEW list, NEW H, HeightsFit(H), NEW G, ListHolds(list, G, H)
    PROVE  LevelsHold(list)
<1>1. Shape(list, H) /\ Stored(list)
  BY DEF ListHolds
<1>2. \A l \in Levels : Linked(list, l) = On(list, H, l)
  BY <1>1, LinkedIs
<1>3. 0 \in Levels /\ On(list, H, 0) = DOMAIN list
  BY <1>1, LevelFacts, ShapeFacts
<1>4. ASSUME NEW l \in Levels, NEW b \in Linked(list, l), Follow(list, b, l) # NullBlock
      PROVE  list[b].max < list[Follow(list, b, l)].max
  <2>1. b \in On(list, H, l) /\ b # NullBlock
    BY <1>1, <1>2, <1>4, ShapeFacts
  <2>2. IsNext(list, H, b, l)
    BY <1>1, <2>1 DEF Shape
  <2> QED
    BY <1>4, <2>1, <2>2 DEF Follow, IsNext
<1>5. ASSUME NEW l \in Levels, l > 0 PROVE Linked(list, l) \subseteq Linked(list, l - 1)
  <2>1. l \in Nat /\ l - 1 \in Levels
    BY <1>5, LevelFacts
  <2>2. \A c \in DOMAIN list : H[c] \in Nat
    <3>1. \A c \in DOMAIN list : c \in Nat
      BY <1>1, ShapeFacts
    <3>2. \A c \in Nat : H[c] \in Nat
      BY LevelFacts DEF HeightsFit
    <3> QED
      BY <3>1, <3>2
  <2>3. On(list, H, l) \subseteq On(list, H, l - 1)
    BY <2>1, <2>2 DEF On
  <2> QED
    BY <1>2, <2>1, <2>3
<1> QED
  BY <1>1, <1>2, <1>3, <1>4, <1>5 DEF LevelsHold, Stored

LEMMA EmptyListHolds ==
    ASSUME NEW H, HeightsFit(H), NEW D, NEW G \in Chains(D), \A d \in D : G[d] = <<>>
    PROVE  ListHolds(EmptySkipList, G, H)
<1> DEFINE block == [ents |-> <<>>, max |-> 0, next |-> [l \in Levels |-> NullBlock]]
           list == <<block>>
<1>1. /\ block \in Block /\ block.ents = <<>> /\ block.max = 0
      /\ \A l \in Levels : block.next[l] = NullBlock
  <2>1. [l \in Levels |-> NullBlock] \in Nexts
    BY LevelFacts DEF Nexts
  <2>2. <<>> \in Entries
    BY DEF Entries
  <2> QED
    BY <2>1, <2>2 DEF Block
<1> HIDE DEF block
<1>2. list \in Seq(Block) /\ Len(list) = 1 /\ DOMAIN list = {1} /\ list[1] = block /\ list # <<>>
  BY <1>1
<1> HIDE DEF list
<1>3. \A l \in Levels, c \in DOMAIN list : IsNext(list, H, c, l)
  BY <1>1, <1>2 DEF IsNext, On
<1>4. Shape(list, H)
  BY <1>1, <1>2, <1>3 DEF Shape, On
<1>5. /\ DOMAIN <<>> = {} /\ Dests(<<>>) = {} /\ Sorted(<<>>) /\ Content(<<>>, G)
  BY DEF Dests, Sorted, Content
<1>6. Stored(list)
  BY <1>1, <1>2, <1>5 DEF Stored
<1>7. Holding(list, G)
  BY <1>1, <1>2, <1>5 DEF Holding, Chains
<1> QED
  BY <1>4, <1>6, <1>7 DEF ListHolds, EmptySkipList, list, block

-----------------------------------------------------------------------------
(* The index that is built of a vector *)

\* The head has all levels, the other blocks what get_height draws.
Drawn == [n \in Nat |-> IF n = 1 THEN SkipLevels ELSE Height(n)]

LEMMA DrawnFits ==
    ASSUME heights \in Draws \/ heights = <<>>
    PROVE  HeightsFit(Drawn)
<1>1. SkipLevels \in 1..SkipLevels /\ 1 \in 1..SkipLevels
  BY LevelFacts
<1>2. \A n \in DOMAIN heights : heights[n] \in 1..SkipLevels
  <2>1. DOMAIN <<>> = {}
    OBVIOUS
  <2> QED
    BY <2>1, IndexesAssumption
<1>3. \A n \in Nat : Height(n) \in 1..SkipLevels
  BY <1>1, <1>2 DEF Height
<1> QED
  BY <1>1, <1>3 DEF HeightsFit, Drawn

LEMMA IndexInsertHolds ==
    ASSUME kind = "skiplist", HeightsFit(Drawn), NEW D \in SUBSET Nat, NEW G \in Chains(D),
           NEW idx, ListHolds(idx, G, Drawn), NEW dest \in D, NEW ts \in Nat
    PROVE  ListHolds(IndexInsert(idx, dest, ts), Pushed(G, dest, ts), Drawn)
<1>1. Len(idx) \in Nat /\ Len(idx) >= 1
  <2>1. idx \in Seq(Block) /\ idx # <<>>
    BY DEF ListHolds, Shape
  <2>2. Len(idx) \in Nat /\ Len(idx) # 0
    BY <2>1, BlockFacts
  <2> QED
    BY <2>2
<1>2. Len(idx) + 1 \in Nat /\ Len(idx) + 1 # 1
  BY <1>1
<1>3. Drawn[Len(idx) + 1] = Height(Len(idx) + 1)
  BY <1>2 DEF Drawn
<1>4. IndexInsert(idx, dest, ts) = SkipInsert(idx, dest, ts, Drawn[Len(idx) + 1])
  BY <1>3 DEF IndexInsert
<1>5. ListHolds(SkipInsert(idx, dest, ts, Drawn[Len(idx) + 1]), Pushed(G, dest, ts), Drawn)
  BY SkipInsertHolds
<1> QED
  BY <1>4, <1>5

\* The n oldest versions of a chain.
OldestOf(chain, n) == SubSeq(chain, Len(chain) - n + 1, Len(chain))

LEMMA OldestOfIs ==
    ASSUME NEW chain \in Seq(Nat)
    PROVE  /\ Len(chain) \in Nat
           /\ OldestOf(chain, 0) = <<>> /\ OldestOf(chain, Len(chain)) = chain
           /\ \A n \in 1..Len(chain) :
                /\ Oldest(chain, n) \in Nat /\ OldestOf(chain, n - 1) \in Seq(Nat)
                /\ OldestOf(chain, n) = PushVersion(OldestOf(chain, n - 1), Oldest(chain, n))
<1> DEFINE L == Len(chain)
<1>1. L \in Nat /\ \A i \in 1..L : chain[i] \in Nat
  BY LenProperties, ElementOfSeq
<1>2. OldestOf(chain, 0) = <<>>
  BY <1>1 DEF OldestOf
<1>3. OldestOf(chain, L) = chain
  BY <1>1 DEF OldestOf
<1>4. ASSUME NEW n \in 1..L
      PROVE  /\ Oldest(chain, n) \in Nat /\ OldestOf(chain, n - 1) \in Seq(Nat)
             /\ OldestOf(chain, n) = PushVersion(OldestOf(chain, n - 1), Oldest(chain, n))
  <2> DEFINE k == L - n + 1
  <2>1. k \in 1..L /\ L \in k..L /\ L - (n - 1) + 1 = k + 1
    BY <1>1
  <2> HIDE DEF k
  <2>2. /\ Oldest(chain, n) = chain[k]
        /\ OldestOf(chain, n - 1) = SubSeq(chain, k + 1, L)
        /\ OldestOf(chain, n) = SubSeq(chain, k, L)
    BY <2>1 DEF Oldest, OldestOf, k
  <2>3. SubSeq(chain, k + 1, L) \in Seq(Nat) /\ chain[k] \in Nat
    BY <1>1, <2>1
  <2>4. SubSeq(chain, k, L) = <<chain[k]>> \o SubSeq(chain, k + 1, L)
    BY <2>1, SubSeqRecursiveFirst
  <2> QED
    BY <2>2, <2>3, <2>4 DEF PushVersion
<1> QED
  BY <1>1, <1>2, <1>3, <1>4

\* A loop of L steps that stay in S, and the values it runs through.
LoopOver(S, base, L, step) == base \in S /\ L \in Nat /\ step \in [1..L -> [S -> S]]
LoopOf(f, S, base, L, step) ==
    f \in [0..L -> S] /\ f[0] = base /\ \A n \in 1..L : f[n] = step[n][f[n-1]]

LEMMA LoopExists ==
    ASSUME NEW S, NEW base, NEW L, NEW step, LoopOver(S, base, L, step)
    PROVE  \E f : LoopOf(f, S, base, L, step)
<1>1. base \in S /\ L \in Nat /\ step \in [1..L -> [S -> S]]
  BY DEF LoopOver
<1>2. \E f \in [0..L -> S] : f[0] = base /\ \A n \in 1..L : f[n] = step[n][f[n-1]]
  BY <1>1, Recursion
<1> QED
  BY <1>2 DEF LoopOf

\* The insertions of the versions of dest stay in the set.
StaysIn(S, dest, chain) ==
    \A n \in 1..Len(chain), l \in S : IndexInsert(l, dest, Oldest(chain, n)) \in S

\* Moving the versions of an entry is a loop over a set the insertions stay in.
LEMMA WithVersionsLoop ==
    ASSUME NEW S, NEW idx \in S, NEW dest, NEW chain, Len(chain) \in Nat, StaysIn(S, dest, chain),
           NEW entry, entry.dest = dest, entry.chain = chain
    PROVE  \E moved : /\ WithVersions(idx, entry) = moved[Len(chain)] /\ moved[0] = idx
                      /\ \A n \in 1..Len(chain) :
                            moved[n] = IndexInsert(moved[n-1], dest, Oldest(chain, n))
<1> DEFINE L == Len(chain)
           step == [n \in 1..L |-> [l \in S |-> IndexInsert(l, dest, Oldest(chain, n))]]
<1>1. L \in Nat
  OBVIOUS
<1>4. step \in [1..L -> [S -> S]]
  BY DEF StaysIn
<1> HIDE DEF L
<1>5. PICK g : LoopOf(g, S, idx, L, step)
  <2>1. LoopOver(S, idx, L, step)
    BY <1>1, <1>4 DEF LoopOver
  <2> HIDE DEF step
  <2> QED
    BY <2>1, LoopExists
<1>6. \A n \in 1..L : n - 1 \in 0..L /\ g[n] = IndexInsert(g[n-1], dest, Oldest(chain, n))
  <2> TAKE n \in 1..L
  <2>1. n - 1 \in 0..L
    BY <1>1
  <2>2. g[n-1] \in S
    BY <1>5, <2>1 DEF LoopOf
  <2> QED
    BY <1>5, <2>1, <2>2 DEF LoopOf
<1> HIDE DEF step
<1> DEFINE Loop(h) == h = [n \in 0..L |-> IF n = 0 THEN idx
                                           ELSE IndexInsert(h[n-1], dest, Oldest(chain, n))]
<1>7. Loop(g)
  <2>1. ASSUME NEW n \in 0..L
        PROVE  g[n] = IF n = 0 THEN idx ELSE IndexInsert(g[n-1], dest, Oldest(chain, n))
    <3>1. n = 0 \/ n \in 1..L
      BY <1>1
    <3> QED
      BY <1>1, <1>5, <1>6, <3>1 DEF LoopOf
  <2> QED
    BY <1>5, <2>1 DEF LoopOf
<1> DEFINE f == CHOOSE h : Loop(h)
<1>8. WithVersions(idx, entry) = f[L]
  BY DEF WithVersions, L
<1>9. Loop(f)
  BY <1>7
<1> HIDE DEF f
<1>10. /\ f[0] = idx
       /\ \A n \in 1..L : f[n] = IndexInsert(f[n-1], dest, Oldest(chain, n))
  <2>1. \A n \in 0..L : f[n] = IF n = 0 THEN idx ELSE IndexInsert(f[n-1], dest, Oldest(chain, n))
    BY <1>9
  <2> QED
    BY <1>1, <2>1
<1> QED
  BY <1>8, <1>10 DEF L

\* An entry that is moved has its chain again.
LEMMA WithVersionsHolds ==
    ASSUME kind = "skiplist", HeightsFit(Drawn), NEW D \in SUBSET Nat, NEW G \in Chains(D),
           NEW idx, ListHolds(idx, G, Drawn), NEW dest \in D, NEW chain \in Seq(Nat),
           G[dest] = <<>>, NEW entry, entry.dest = dest, entry.chain = chain
    PROVE  ListHolds(WithVersions(idx, entry), [G EXCEPT ![dest] = chain], Drawn)
<1> DEFINE L == Len(chain)
           F(n) == [G EXCEPT ![dest] = OldestOf(chain, n)]
<1>1. /\ L \in Nat /\ F(0) = G /\ OldestOf(chain, L) = chain
      /\ OldestOf(chain, 0) \in Seq(Nat)
      /\ \A n \in 1..L : /\ Oldest(chain, n) \in Nat /\ OldestOf(chain, n - 1) \in Seq(Nat)
                         /\ OldestOf(chain, n) = PushVersion(OldestOf(chain, n - 1), Oldest(chain, n))
  <2>1. [G EXCEPT ![dest] = <<>>] = G
    BY DEF Chains
  <2> QED
    BY <2>1, OldestOfIs
<1>2. PICK moved : /\ WithVersions(idx, entry) = moved[L] /\ moved[0] = idx
                   /\ \A n \in 1..L : moved[n] = IndexInsert(moved[n-1], dest, Oldest(chain, n))
  <2> HIDE DEF F, L
  <2>1. \E moved : /\ WithVersions(idx, entry) = moved[Len(chain)] /\ moved[0] = idx
                    /\ \A n \in 1..Len(chain) :
                          moved[n] = IndexInsert(moved[n-1], dest, Oldest(chain, n))
    <3> DEFINE S == {l \in Seq(Block) : \E E \in Chains(D) : ListHolds(l, E, Drawn)}
    <3>1. idx \in S
      BY DEF ListHolds, Shape
    <3>2. ASSUME NEW n \in 1..Len(chain), NEW l \in S
          PROVE  IndexInsert(l, dest, Oldest(chain, n)) \in S
      <4>1. PICK E \in Chains(D) : ListHolds(l, E, Drawn)
        OBVIOUS
      <4> DEFINE ts == Oldest(chain, n)
                 new == IndexInsert(l, dest, ts)
      <4>2. ts \in Nat
        BY OldestOfIs
      <4> HIDE DEF ts
      <4>3. ListHolds(new, Pushed(E, dest, ts), Drawn)
        BY <4>1, <4>2, IndexInsertHolds
      <4>4. Pushed(E, dest, ts) \in Chains(D)
        BY <4>2, PushedIs
      <4>5. new \in Seq(Block)
        BY <4>3 DEF ListHolds, Shape
      <4> HIDE DEF new
      <4>6. new \in S
        BY <4>3, <4>4, <4>5
      <4> QED
        BY <4>6 DEF new, ts
    <3>3. StaysIn(S, dest, chain)
      BY <3>2 DEF StaysIn
    <3>4. PICK lists : lists = S
      OBVIOUS
    <3> HIDE DEF S
    <3>5. idx \in lists /\ StaysIn(lists, dest, chain) /\ Len(chain) \in Nat
      BY <3>1, <3>3, <3>4, OldestOfIs
    <3> QED
      BY <3>5, WithVersionsLoop
  <2> QED
    BY <2>1 DEF L
<1> DEFINE A == {n \in 0..L : ListHolds(moved[n], F(n), Drawn)}
<1> HIDE DEF L
<1>3. 0 \in A
  <2>1. F(0) = G /\ moved[0] = idx /\ 0 \in 0..L
    BY <1>1, <1>2
  <2>2. ListHolds(moved[0], F(0), Drawn)
    BY <2>1
  <2> QED
    BY <2>1, <2>2
<1>4. ASSUME NEW n \in 1..L, n - 1 \in A PROVE n \in A
  <2> DEFINE P == F(n - 1)
             ts == Oldest(chain, n)
  <2>1. P \in Chains(D) /\ P[dest] = OldestOf(chain, n - 1)
    BY <1>1 DEF Chains
  <2>2. ListHolds(moved[n-1], P, Drawn) /\ ts \in Nat /\ n \in 0..L
    BY <1>1, <1>4
  <2>3. Pushed(P, dest, ts) = F(n)
    <3>1. P = [G EXCEPT ![dest] = OldestOf(chain, n - 1)]
      OBVIOUS
    <3>2. Pushed(P, dest, ts) = [P EXCEPT ![dest] = OldestOf(chain, n)]
      BY <1>1, <2>1 DEF Pushed
    <3> HIDE DEF P
    <3> QED
      BY <3>1, <3>2 DEF Chains
  <2> HIDE DEF P, ts
  <2>4. ListHolds(IndexInsert(moved[n-1], dest, ts), Pushed(P, dest, ts), Drawn)
    BY <2>1, <2>2, IndexInsertHolds
  <2> QED
    BY <1>2, <2>2, <2>3, <2>4 DEF ts
<1> HIDE DEF A
<1>5. 0..L \subseteq A
  BY <1>1, <1>3, <1>4, LoopInduction
<1>6. L \in 0..L
  BY <1>1
<1>7. ListHolds(moved[L], F(L), Drawn)
  BY <1>5, <1>6 DEF A
<1> QED
  BY <1>1, <1>2, <1>7

\* A sorted vector holds the chains of G.
VectorHolds(ents, G) ==
    /\ ents \in Entries /\ Sorted(ents) /\ Content(ents, G)
    /\ \A d \in DOMAIN G : G[d] # <<>> => d \in Dests(ents)

\* What the first n entries of a vector hold.
FirstOf(ents, G, n) ==
    [d \in DOMAIN G |-> IF \E i \in 1..n : ents[i].dest = d THEN G[d] ELSE <<>>]

LEMMA FirstOfIs ==
    ASSUME NEW D, NEW G \in Chains(D), NEW ents, VectorHolds(ents, G)
    PROVE  /\ Len(ents) \in Nat /\ FirstOf(ents, G, Len(ents)) = G
           /\ \A d \in D : FirstOf(ents, G, 0)[d] = <<>>
           /\ \A n \in 0..Len(ents) : FirstOf(ents, G, n) \in Chains(D)
           /\ \A n \in 1..Len(ents) :
                /\ ents[n].dest \in D /\ ents[n].chain \in Seq(Nat)
                /\ FirstOf(ents, G, n - 1)[ents[n].dest] = <<>>
                /\ FirstOf(ents, G, n)
                     = [FirstOf(ents, G, n - 1) EXCEPT ![ents[n].dest] = ents[n].chain]
<1> DEFINE L == Len(ents)
           F(n) == FirstOf(ents, G, n)
<1>0. /\ ents \in Entries /\ Sorted(ents) /\ Content(ents, G) /\ DOMAIN G = D
      /\ \A d \in D : G[d] # <<>> => d \in Dests(ents)
  BY DEF VectorHolds, Chains
<1>1. /\ L \in Nat /\ DOMAIN ents = 1..L /\ DOMAIN G = D
      /\ \A d \in D : G[d] \in Seq(Nat)
      /\ \A n \in 1..L : /\ ents[n].dest \in D /\ ents[n].chain \in Seq(Nat)
                         /\ ents[n].chain = G[ents[n].dest] /\ ents[n].dest \in Nat
  BY <1>0, EntryFacts DEF Chains, Content
<1>2. \A n \in 0..L : /\ F(n) = [d \in D |-> IF \E i \in 1..n : ents[i].dest = d THEN G[d] ELSE <<>>]
                      /\ F(n) \in Chains(D)
  <2> TAKE n \in 0..L
  <2>1. F(n) = [d \in D |-> IF \E i \in 1..n : ents[i].dest = d THEN G[d] ELSE <<>>]
    BY <1>1 DEF FirstOf
  <2>2. <<>> \in Seq(Nat)
    OBVIOUS
  <2> HIDE DEF F, L
  <2> QED
    BY <1>1, <2>1, <2>2 DEF Chains
<1> HIDE DEF F, L
<1>3. F(L) = G
  <2>1. G = [d \in D |-> G[d]] /\ L \in 0..L
    BY <1>1 DEF Chains
  <2>2. \A d \in D : G[d] # <<>> => \E i \in 1..L : ents[i].dest = d
    BY <1>0, <1>1 DEF Dests
  <2>3. \A d \in D : (IF \E i \in 1..L : ents[i].dest = d THEN G[d] ELSE <<>>) = G[d]
    BY <2>2
  <2>4. F(L) = [d \in D |-> IF \E i \in 1..L : ents[i].dest = d THEN G[d] ELSE <<>>]
    BY <1>2, <2>1
  <2> QED
    BY <2>1, <2>3, <2>4
<1>4. \A d \in D : F(0)[d] = <<>>
  <2>1. 0 \in 0..L /\ 1..0 = {}
    BY <1>1
  <2> QED
    BY <1>2, <2>1
<1>5. ASSUME NEW n \in 1..L
      PROVE  /\ F(n - 1)[ents[n].dest] = <<>>
             /\ F(n) = [F(n - 1) EXCEPT ![ents[n].dest] = ents[n].chain]
  <2> DEFINE dest == ents[n].dest
             P == F(n - 1)
             Q == F(n)
  <2>1. n - 1 \in 0..L /\ n \in 0..L /\ n \in Nat /\ 1..n = (1..n-1) \cup {n}
    BY <1>1
  <2>2. /\ P = [d \in D |-> IF \E i \in 1..n-1 : ents[i].dest = d THEN G[d] ELSE <<>>]
        /\ Q = [d \in D |-> IF \E i \in 1..n : ents[i].dest = d THEN G[d] ELSE <<>>]
    BY <1>2, <2>1
  <2>3. ASSUME NEW i \in 1..n-1 PROVE ents[i].dest # dest
    <3>1. i \in DOMAIN ents /\ n \in DOMAIN ents /\ i < n
      BY <1>1
    <3>2. ents[i].dest < ents[n].dest
      BY <1>0, <3>1 DEF Sorted
    <3> QED
      BY <1>1, <3>1, <3>2
  <2>4. dest \in D /\ ents[n].chain = G[dest]
    BY <1>1
  <2> HIDE DEF dest, P, Q
  <2>5. P[dest] = <<>>
    BY <2>2, <2>3, <2>4
  <2>6. \A d \in D : (\E i \in 1..n : ents[i].dest = d) <=> d = dest \/ \E i \in 1..n-1 : ents[i].dest = d
    BY <2>1 DEF dest
  <2>7. \A d \in D : Q[d] = IF d = dest THEN G[dest] ELSE P[d]
    BY <2>2, <2>6
  <2>8. Q = [P EXCEPT ![dest] = G[dest]]
    BY <2>2, <2>7
  <2> QED
    BY <2>4, <2>5, <2>8 DEF P, Q, dest
<1> QED
  BY <1>1, <1>2, <1>3, <1>4, <1>5 DEF F, L

\* The index that is built of a vector holds what the vector held.
LEMMA IndexedHolds ==
    ASSUME kind = "skiplist", HeightsFit(Drawn), NEW D \in SUBSET Nat, NEW G \in Chains(D),
           NEW ents, VectorHolds(ents, G)
    PROVE  ListHolds(Indexed(ents), G, Drawn)
<1> DEFINE L == Len(ents)
           F(n) == FirstOf(ents, G, n)
           Step(n, l) == WithVersions(l, ents[n])
           Fine(n, l) == ListHolds(l, F(n), Drawn)
           S == Seq(Block)
           step == [n \in 1..L |-> [l \in S |-> IF Step(n, l) \in S THEN Step(n, l) ELSE l]]
<1>1. L \in Nat /\ F(L) = G
  BY FirstOfIs
<1>2. Fine(0, EmptySkipList) /\ EmptySkipList \in S
  <2>1. 0 \in 0..L
    BY <1>1
  <2>2. F(0) \in Chains(D) /\ \A d \in D : F(0)[d] = <<>>
    BY <2>1, FirstOfIs
  <2> HIDE DEF F
  <2>3. Fine(0, EmptySkipList)
    BY <2>2, EmptyListHolds
  <2> QED
    BY <2>3 DEF ListHolds, Shape
<1>3. ASSUME NEW n \in 1..L, NEW l, Fine(n - 1, l)
      PROVE  Fine(n, Step(n, l)) /\ l \in S /\ Step(n, l) \in S
  <2> DEFINE dest == ents[n].dest
             chain == ents[n].chain
             P == F(n - 1)
             entry == ents[n]
  <2>1. n - 1 \in 0..L
    BY <1>1
  <2>2. /\ dest \in D /\ chain \in Seq(Nat) /\ P \in Chains(D) /\ P[dest] = <<>>
        /\ F(n) = [P EXCEPT ![dest] = chain] /\ entry.dest = dest /\ entry.chain = chain
    BY <2>1, FirstOfIs
  <2>3. ListHolds(l, P, Drawn)
    BY <1>3
  <2>4. Step(n, l) = WithVersions(l, entry)
    OBVIOUS
  <2>5. Fine(n, Step(n, l)) <=> ListHolds(Step(n, l), F(n), Drawn)
    OBVIOUS
  <2> HIDE DEF dest, chain, P, F, entry, Fine, Step
  <2>6. ListHolds(WithVersions(l, entry), [P EXCEPT ![dest] = chain], Drawn)
    BY <2>2, <2>3, WithVersionsHolds
  <2>7. Fine(n, Step(n, l))
    BY <2>2, <2>4, <2>5, <2>6
  <2>8. Step(n, l) \in Seq(Block) /\ l \in Seq(Block)
    BY <2>3, <2>4, <2>6 DEF ListHolds, Shape
  <2> QED
    BY <2>7, <2>8
<1> HIDE DEF S, Fine, Step, L
<1>4. PICK g : LoopOf(g, S, EmptySkipList, L, step)
  <2>1. step \in [1..L -> [S -> S]]
    OBVIOUS
  <2>2. LoopOver(S, EmptySkipList, L, step)
    BY <1>1, <1>2, <2>1 DEF LoopOver
  <2> HIDE DEF step
  <2> QED
    BY <2>2, LoopExists
<1>5. \A n \in 0..L : Fine(n, g[n])
  <2> DEFINE A == {n \in 0..L : Fine(n, g[n])}
  <2>1. 0 \in A
    BY <1>1, <1>2, <1>4 DEF LoopOf
  <2>2. ASSUME NEW n \in 1..L, n - 1 \in A PROVE n \in A
    <3>1. Fine(n - 1, g[n-1]) /\ n \in 0..L
      BY <1>1, <2>2
    <3>2. Fine(n, Step(n, g[n-1])) /\ g[n-1] \in S /\ Step(n, g[n-1]) \in S
      BY <1>3, <3>1
    <3>3. g[n] = Step(n, g[n-1])
      BY <1>4, <3>2 DEF LoopOf
    <3> QED
      BY <3>1, <3>2, <3>3
  <2> HIDE DEF A
  <2>3. 0..L \subseteq A
    BY <1>1, <2>1, <2>2, LoopInduction
  <2> QED
    BY <2>3 DEF A
<1>6. \A n \in 1..L : g[n] = Step(n, g[n-1])
  <2> TAKE n \in 1..L
  <2>1. n - 1 \in 0..L
    BY <1>1
  <2>2. g[n-1] \in S /\ Step(n, g[n-1]) \in S
    BY <1>3, <1>5, <2>1
  <2> QED
    BY <1>4, <2>2 DEF LoopOf
<1> HIDE DEF step
<1> DEFINE Loop(h) == h = [n \in 0..L |-> IF n = 0 THEN EmptySkipList ELSE Step(n, h[n-1])]
<1>7. Loop(g)
  <2>1. ASSUME NEW n \in 0..L
        PROVE  g[n] = IF n = 0 THEN EmptySkipList ELSE Step(n, g[n-1])
    <3>1. n = 0 \/ n \in 1..L
      BY <1>1
    <3> QED
      BY <1>1, <1>4, <1>6, <3>1 DEF LoopOf
  <2> QED
    BY <1>4, <2>1 DEF LoopOf
<1> DEFINE f == CHOOSE h : Loop(h)
<1>8. Indexed(ents) = f[L]
  BY DEF Indexed, L, Step, Empty
<1>9. Loop(f)
  BY <1>7
<1> HIDE DEF f
<1>10. f[0] = EmptySkipList /\ \A n \in 1..L : f[n] = Step(n, f[n-1])
  <2>1. \A n \in 0..L : f[n] = IF n = 0 THEN EmptySkipList ELSE Step(n, f[n-1])
    BY <1>9
  <2> QED
    BY <1>1, <2>1
<1> DEFINE A == {n \in 0..L : Fine(n, f[n])}
<1>11. 0 \in A
  BY <1>1, <1>2, <1>10
<1>12. ASSUME NEW n \in 1..L, n - 1 \in A PROVE n \in A
  <2>1. Fine(n - 1, f[n-1]) /\ n \in 0..L
    BY <1>1, <1>12
  <2> QED
    BY <1>3, <1>10, <2>1
<1> HIDE DEF A
<1>13. L \in A
  <2>1. 0..L \subseteq A /\ L \in 0..L
    BY <1>1, <1>11, <1>12, LoopInduction
  <2> QED
    BY <2>1
<1>14. Fine(L, f[L])
  BY <1>13 DEF A
<1> QED
  BY <1>1, <1>8, <1>14 DEF Fine

-----------------------------------------------------------------------------
(* The vector a NeighborEntry starts with *)

LEMMA VectorFacts ==
    ASSUME NEW D \in SUBSET Nat, NEW G \in Chains(D), NEW ents, VectorHolds(ents, G)
    PROVE  /\ ents \in Entries /\ Sorted(ents) /\ Content(ents, G) /\ DOMAIN G = D
           /\ \A d \in D : d \in Dests(ents) <=> G[d] # <<>>
<1>1. /\ ents \in Entries /\ Sorted(ents) /\ Content(ents, G) /\ DOMAIN G = D
      /\ \A d \in D : G[d] # <<>> => d \in Dests(ents)
  BY DEF VectorHolds, Chains
<1>2. \A d \in D : d \in Dests(ents) => G[d] # <<>>
  BY <1>1 DEF Content, Dests
<1> QED
  BY <1>1, <1>2

LEMMA VectorInsertHolds ==
    ASSUME NEW D \in SUBSET Nat, NEW G \in Chains(D), NEW ents, VectorHolds(ents, G),
           NEW dest \in D, NEW ts \in Nat
    PROVE  VectorHolds(InsertEntry(ents, dest, ts), Pushed(G, dest, ts))
<1> DEFINE new == InsertEntry(ents, dest, ts)
           P == Pushed(G, dest, ts)
<1>1. /\ ents \in Entries /\ Sorted(ents) /\ Content(ents, G)
      /\ \A d \in D : d \in Dests(ents) <=> G[d] # <<>>
  BY VectorFacts
<1>2. Content(new, P)
  BY <1>1, InsertEntryContent
<1>3. P \in Chains(D) /\ \A d \in D : d # dest => P[d] = G[d]
  BY PushedIs
<1>4. DOMAIN P = D
  BY <1>3 DEF Chains
<1>5. new \in Entries /\ Sorted(new) /\ Dests(new) = Dests(ents) \cup {dest}
  <2>1. dest \in Nat /\ new = InsertEntry(ents, dest, ts)
    OBVIOUS
  <2> HIDE DEF new
  <2> QED
    BY <1>1, <2>1, InsertEntryIs
<1> HIDE DEF new, P
<1>6. \A d \in D : P[d] # <<>> => d \in Dests(new)
  BY <1>1, <1>3, <1>5
<1>7. VectorHolds(new, P)
  BY <1>2, <1>4, <1>5, <1>6 DEF VectorHolds
<1> QED
  BY <1>7 DEF new, P

LEMMA VectorReads ==
    ASSUME NEW D \in SUBSET Nat, NEW G \in Chains(D), NEW ents, VectorHolds(ents, G), NEW ts
    PROVE  /\ \A d \in D : FindEntry(ents, d, ts) <=> CheckVersion(G[d], ts)
           /\ Visible(ents, ts) \in Seq(Nat) /\ Ascending(Visible(ents, ts))
           /\ Range(Visible(ents, ts)) = {d \in D : CheckVersion(G[d], ts)}
<1>1. /\ ents \in Entries /\ Sorted(ents) /\ Content(ents, G) /\ DOMAIN G = D
      /\ \A d \in D : d \in Dests(ents) <=> G[d] # <<>>
  BY VectorFacts
<1>2. \A i \in DOMAIN ents : ents[i].dest \in D /\ ents[i].chain = G[ents[i].dest]
  BY <1>1 DEF Content
<1>3. ASSUME NEW d \in D, CheckVersion(G[d], ts) PROVE \E i \in DOMAIN ents : ents[i].dest = d
  <2>1. G[d] # <<>>
    BY <1>3 DEF CheckVersion
  <2>2. d \in Dests(ents)
    BY <1>1, <2>1
  <2> QED
    BY <2>2 DEF Dests
<1>4. \A d \in D : CheckVersion(G[d], ts)
                     <=> \E i \in DOMAIN ents : ents[i].dest = d /\ CheckVersion(ents[i].chain, ts)
  BY <1>2, <1>3
<1>5. \A d \in D : FindEntry(ents, d, ts)
                     <=> \E i \in DOMAIN ents : ents[i].dest = d /\ CheckVersion(ents[i].chain, ts)
  BY <1>1, FindEntryIs
<1>6. /\ Visible(ents, ts) \in Seq(Nat) /\ Ascending(Visible(ents, ts))
      /\ Range(Visible(ents, ts))
           = {ents[i].dest : i \in {j \in DOMAIN ents : CheckVersion(ents[j].chain, ts)}}
  BY <1>1, VisibleIs DEF Ascending
<1>7. {ents[i].dest : i \in {j \in DOMAIN ents : CheckVersion(ents[j].chain, ts)}}
        = {d \in D : CheckVersion(G[d], ts)}
  BY <1>2, <1>4, ZenonT(40)
<1> QED
  BY <1>4, <1>5, <1>6, <1>7

LEMMA EmptyVectorHolds ==
    ASSUME NEW D, NEW G \in Chains(D), \A d \in D : G[d] = <<>>
    PROVE  VectorHolds(<<>>, G)
<1>1. <<>> \in Entries /\ DOMAIN <<>> = {} /\ DOMAIN G = D
  BY DEF Entries, Chains
<1> QED
  BY <1>1 DEF VectorHolds, Sorted, Content

LEMMA EmptyLogHolds ==
    ASSUME NEW D, NEW G \in Chains(D), \A d \in D : G[d] = <<>>, NEW now \in Nat
    PROVE  LogHolds(EmptyLogBlock, G, now)
<1>1. /\ EmptyLogBlock.logs = <<>> /\ EmptyLogBlock.filter = {}
      /\ EmptyLogBlock = [logs |-> EmptyLogBlock.logs, filter |-> EmptyLogBlock.filter]
  BY DEF EmptyLogBlock
<1>2. <<>> \in Logs /\ DOMAIN <<>> = {} /\ DOMAIN G = D
  BY DEF Logs, Chains
<1>3. \A d \in D : \A ts : ~ SeenAt(<<>>, d, ts) /\ ~ CheckVersion(G[d], ts)
  BY <1>2 DEF SeenAt, CheckVersion
<1>4. LogsHold(<<>>, G, now)
  BY <1>2, <1>3 DEF LogsHold
<1>5. LogDests(<<>>) = {}
  BY <1>2 DEF LogDests
<1> QED
  BY <1>1, <1>2, <1>4, <1>5 DEF LogHolds

-----------------------------------------------------------------------------
(* The degree *)

\* What was inserted at all.
Given(G) == {d \in DOMAIN G : G[d] # <<>>}

LEMMA GivenGrows ==
    ASSUME NEW D, NEW G \in Chains(D), IsFiniteSet(Given(G)), NEW dest \in D, NEW ts \in Nat
    PROVE  /\ IsFiniteSet(Given(Pushed(G, dest, ts))) /\ Cardinality(Given(G)) \in Nat
           /\ Cardinality(Given(Pushed(G, dest, ts)))
                = Cardinality(Given(G)) + (IF G[dest] = <<>> THEN 1 ELSE 0)
<1> DEFINE P == Pushed(G, dest, ts)
<1>1. /\ P \in Chains(D) /\ P[dest] # <<>> /\ \A d \in D : d # dest => P[d] = G[d]
  BY PushedIs
<1> HIDE DEF P
<1>2. DOMAIN P = D /\ DOMAIN G = D
  BY <1>1 DEF Chains
<1>3. Given(P) = Given(G) \cup {dest}
  BY <1>1, <1>2 DEF Given
<1>4. dest \in Given(G) <=> G[dest] # <<>>
  BY <1>2 DEF Given
<1>5. /\ IsFiniteSet(Given(G) \cup {dest})
      /\ Cardinality(Given(G) \cup {dest})
           = IF dest \in Given(G) THEN Cardinality(Given(G)) ELSE Cardinality(Given(G)) + 1
  BY FS_AddElement
<1>6. Cardinality(Given(G)) \in Nat
  BY FS_CardinalityType
<1> QED
  BY <1>3, <1>4, <1>5, <1>6 DEF P

\* An insertion into the log block leaves the first log where it is.
LEMMA FirstLogStays ==
    ASSUME NEW block, block.logs \in Logs, NEW dest \in Nat, NEW ts \in Nat,
           NEW new, new = LogInsert(block, dest, ts).logs
    PROVE  new # <<>> /\ new[1].dest = IF block.logs = <<>> THEN dest ELSE block.logs[1].dest
<1> DEFINE logs == block.logs
           n == Len(logs)
           old == OldLogs(block, dest, ts)
           last == CHOOSE i \in old : \A j \in old : j <= i
           closed == IF old = {} THEN logs ELSE [logs EXCEPT ![last].e = ts]
           e == [dest |-> dest, b |-> ts, e |-> Open]
           T == [dest : Nat, b : Nat, e : Nat \cup {Open}]
<1>1. new = Append(closed, e)
  BY DEF LogInsert
<1>2. n \in Nat /\ DOMAIN logs = 1..n /\ (logs = <<>> <=> n = 0) /\ \A i \in 1..n : logs[i] \in T
  BY LogFacts
<1>3. logs \in Seq(T)
  BY DEF Logs
<1>4. e \in T /\ e.dest = dest
  OBVIOUS
<1>5. closed \in Seq(T) /\ Len(closed) = n /\ \A i \in 1..n : closed[i].dest = logs[i].dest
  <2>1. CASE old = {}
    <3> HIDE DEF T, n
    <3> QED
      BY <1>3, <2>1 DEF n
  <2>2. CASE old # {}
    <3> DEFINE rec(i) == IF i = last THEN [logs[i] EXCEPT !.e = ts] ELSE logs[i]
    <3>1. closed = [logs EXCEPT ![last].e = ts]
      BY <2>2
    <3>2. \A i \in 1..n : rec(i) \in T /\ rec(i).dest = logs[i].dest
      BY <1>2
    <3> HIDE DEF last, T, closed, n
    <3>3. closed = [i \in 1..n |-> rec(i)]
      BY <1>2, <3>1
    <3> HIDE DEF rec
    <3> QED
      BY <1>2, <3>2, <3>3
  <2> QED
    BY <2>1, <2>2
<1> HIDE DEF T, n, closed, e, logs
<1>6. /\ new \in Seq(T) /\ Len(new) = n + 1 /\ new[n + 1] = e
      /\ \A i \in 1..n : new[i] = closed[i]
  BY <1>1, <1>2, <1>4, <1>5, AppendProperties
<1>7. new # <<>>
  <2>1. n + 1 # 0
    BY <1>2
  <2> QED
    BY <1>6, <2>1, EmptySeq
<1>8. n = 0 \/ 1 \in 1..n
  BY <1>2
<1> QED
  BY <1>2, <1>4, <1>5, <1>6, <1>7, <1>8 DEF logs

LEMMA DoubledCounts ==
    ASSUME NEW logs, NEW G
    PROVE  /\ IsFiniteSet(Doubled(logs, G))
           /\ logs = <<>> => Cardinality(Doubled(logs, G)) = 0
           /\ logs # <<>> /\ logs[1].dest \in DOMAIN G =>
                Cardinality(Doubled(logs, G)) = IF Len(G[logs[1].dest]) > 1 THEN 1 ELSE 0
<1>1. Doubled(logs, G) = {} \/ Doubled(logs, G) = {logs[1].dest}
  BY DEF Doubled
<1>2. logs = <<>> => Doubled(logs, G) = {}
  BY DEF Doubled
<1>3. logs # <<>> /\ logs[1].dest \in DOMAIN G =>
        Doubled(logs, G) = IF Len(G[logs[1].dest]) > 1 THEN {logs[1].dest} ELSE {}
  BY DEF Doubled
<1>4. Cardinality({}) = 0 /\ Cardinality({logs[1].dest}) = 1
      /\ IsFiniteSet({}) /\ IsFiniteSet({logs[1].dest})
  BY FS_EmptySet, FS_Singleton
<1> QED
  BY <1>1, <1>2, <1>3, <1>4

\* insert_edge says "new" for the edge that was not there, and for that of the
\* first log when it comes again.
LEMMA LogCounts ==
    ASSUME NEW D \in SUBSET Nat, NEW G \in Chains(D), NEW now \in Nat, NEW block,
           LogHolds(block, G, now), NEW dest \in D, NEW ts \in Nat, now <= ts
    PROVE  /\ Cardinality(Doubled(block.logs, G)) \in Nat
           /\ Cardinality(Doubled(LogInsert(block, dest, ts).logs, Pushed(G, dest, ts)))
                + (IF G[dest] = <<>> THEN 1 ELSE 0)
              = Cardinality(Doubled(block.logs, G)) + (IF LogIsNew(block, dest, ts) THEN 1 ELSE 0)
<1> DEFINE logs == block.logs
           new == LogInsert(block, dest, ts).logs
           P == Pushed(G, dest, ts)
           f == logs[1].dest
<1>1. /\ P \in Chains(D) /\ P[dest] # <<>> /\ \A d \in D : d # dest => P[d] = G[d]
      /\ Len(G[dest]) \in Nat /\ Len(P[dest]) = Len(G[dest]) + 1
      /\ G[dest] = <<>> <=> Len(G[dest]) = 0
  BY PushedIs, PushedLength
<1>2. DOMAIN P = D /\ DOMAIN G = D
  BY <1>1 DEF Chains
<1>3. LogIsNew(block, dest, ts) <=> G[dest] = <<>> \/ (logs # <<>> /\ f = dest /\ Len(G[dest]) = 1)
  BY LogIsNewIs
<1>4. new # <<>> /\ new[1].dest = IF logs = <<>> THEN dest ELSE f
  <2>1. logs \in Logs /\ dest \in Nat
    BY DEF LogHolds
  <2> HIDE DEF new
  <2>2. new = LogInsert(block, dest, ts).logs
    BY DEF new
  <2> QED
    BY <2>1, <2>2, FirstLogStays
<1>5. logs = <<>> => G[dest] = <<>>
  <2>1. LogsHold(logs, G, now)
    BY DEF LogHolds
  <2>2. logs = <<>> => DOMAIN logs = {}
    OBVIOUS
  <2> HIDE DEF logs
  <2> QED
    BY <1>2, <2>1, <2>2 DEF LogsHold, OpenAt
<1>6. logs # <<>> => f \in D /\ G[f] # <<>>
  <2>1. LogsHold(logs, G, now) /\ logs \in Logs
    BY DEF LogHolds
  <2>2. logs # <<>> => 1 \in DOMAIN logs
    BY <2>1, LogFacts
  <2> HIDE DEF logs
  <2> QED
    BY <1>2, <2>1, <2>2 DEF LogsHold
<1> DEFINE m == Len(G[dest])
           a == Cardinality(Doubled(logs, G))
           z == Cardinality(Doubled(new, P))
<1> HIDE DEF logs, new, P, f
<1>7. /\ logs = <<>> => a = 0
      /\ logs # <<>> => a = IF Len(G[f]) > 1 THEN 1 ELSE 0
  BY <1>2, <1>6, DoubledCounts DEF f
<1>8. z = IF Len(P[new[1].dest]) > 1 THEN 1 ELSE 0
  <2>1. new[1].dest \in DOMAIN P
    BY <1>2, <1>4, <1>6
  <2> QED
    BY <1>4, <2>1, DoubledCounts
<1>9. a \in Nat
  BY <1>7
<1>10. /\ m \in Nat /\ Len(P[dest]) = m + 1 /\ (G[dest] = <<>> <=> m = 0)
  BY <1>1
<1> HIDE DEF m, a, z
<1>11. z + (IF G[dest] = <<>> THEN 1 ELSE 0) = a + (IF LogIsNew(block, dest, ts) THEN 1 ELSE 0)
  <2>1. CASE logs = <<>>
    <3>1. G[dest] = <<>> /\ a = 0 /\ new[1].dest = dest /\ LogIsNew(block, dest, ts)
      BY <1>3, <1>4, <1>5, <1>7, <2>1
    <3>2. Len(P[new[1].dest]) = 1
      BY <1>10, <3>1
    <3> DEFINE k == Len(P[new[1].dest])
    <3>3. k = 1 /\ z = IF k > 1 THEN 1 ELSE 0
      BY <1>8, <3>2
    <3> HIDE DEF k
    <3>4. z = 0
      BY <3>3
    <3> QED
      BY <3>1, <3>4
  <2>2. CASE logs # <<>> /\ f # dest
    <3>1. new[1].dest = f /\ P[f] = G[f]
      BY <1>1, <1>4, <1>6, <2>2
    <3>2. z = a /\ (LogIsNew(block, dest, ts) <=> G[dest] = <<>>)
      BY <1>3, <1>7, <1>8, <2>2, <3>1
    <3> QED
      BY <3>2
  <2>3. CASE logs # <<>> /\ f = dest
    <3>1. new[1].dest = dest /\ G[dest] # <<>>
      BY <1>4, <1>6, <2>3
    <3>2. m >= 1 /\ z = 1
      BY <1>8, <1>10, <3>1
    <3>3. a = (IF m > 1 THEN 1 ELSE 0)
      BY <1>7, <2>3 DEF m
    <3>4. LogIsNew(block, dest, ts) <=> m = 1
      BY <1>3, <2>3, <3>1 DEF m
    <3> QED
      BY <1>10, <3>1, <3>2, <3>3, <3>4
  <2> QED
    BY <2>1, <2>2, <2>3
<1> QED
  BY <1>9, <1>11 DEF a, z, logs, new, P

-----------------------------------------------------------------------------
(* The invariant *)

IndexTypeOK ==
    /\ kind \in IndexKinds
    /\ type \in {"Vector", "NonVector"} /\ (type = "Vector" => kind = "skiplist")
    /\ clock \in 1..MaxTime
    /\ inserted \in Chains(Destinations[kind])

\* The vector or the index has exactly the chains that were inserted.
IndexHolds ==
    IF type = "Vector" THEN VectorHolds(vector, inserted)
    ELSE /\ kind = "skiplist" => ListHolds(index, inserted, Drawn)
         /\ kind = "logblock" => LogHolds(index, inserted, clock)

\* Nothing was inserted after now.
NotLater ==
    \A d \in DOMAIN inserted : \A i \in DOMAIN inserted[d] : inserted[d][i] <= clock

\* The answers "new" add up.
Counted ==
    /\ IsFiniteSet(Given(inserted))
    /\ added = Cardinality(Given(inserted))
                 + (IF kind = "logblock" THEN Cardinality(Doubled(index.logs, inserted)) ELSE 0)

IndexInv == IndexTypeOK /\ HeightsFit(Drawn) /\ IndexHolds /\ NotLater /\ Counted

\* What the invariant gives the lemmas above.
LEMMA InvFacts ==
    ASSUME IndexInv
    PROVE  /\ kind \in IndexKinds /\ Destinations[kind] \in SUBSET Nat
           /\ inserted \in Chains(Destinations[kind])
           /\ DOMAIN inserted = Destinations[kind]
           /\ clock \in Nat /\ clock <= MaxTime /\ MaxTime \in Nat
<1>1. /\ kind \in IndexKinds /\ clock \in 1..MaxTime
      /\ inserted \in Chains(Destinations[kind])
  BY DEF IndexInv, IndexTypeOK
<1>2. Destinations[kind] \in SUBSET Nat /\ MaxTime \in Nat
  BY <1>1, IndexesAssumption
<1>3. DOMAIN inserted = Destinations[kind]
  BY <1>1 DEF Chains
<1> QED
  BY <1>1, <1>2, <1>3

\* Time passes: the logs hold on.
LEMMA LogHoldsLater ==
    ASSUME NEW block, NEW G, NEW now \in Nat, NEW later \in Nat, now <= later,
           LogHolds(block, G, now)
    PROVE  LogHolds(block, G, later)
<1>1. block.logs \in Logs /\ LogsHold(block.logs, G, now)
  BY DEF LogHolds
<1>2. \A i \in DOMAIN block.logs : /\ block.logs[i].b \in Nat /\ block.logs[i].b <= now
                                   /\ block.logs[i].e \in Nat \/ block.logs[i].e = Open
                                   /\ block.logs[i].e # Open => block.logs[i].e <= now
  BY <1>1, LogFacts DEF LogsHold
<1>3. \A i \in DOMAIN block.logs : /\ block.logs[i].b <= later
                                   /\ block.logs[i].e # Open => block.logs[i].e <= later
  BY <1>2
<1>4. LogsHold(block.logs, G, later)
  BY <1>1, <1>3 DEF LogsHold
<1> QED
  BY <1>4 DEF LogHolds

\* Init establishes the invariant.
LEMMA IndexInitHolds ==
    ASSUME IndexInit, kind # "pma"
    PROVE  IndexInv
<1> DEFINE D == Destinations[kind]
<1>1. kind \in {"skiplist", "logblock"}
  BY DEF IndexInit, IndexKinds
<1>2. D \in SUBSET Nat /\ MaxTime \in Nat /\ MaxTime >= 1
  BY IndexesAssumption DEF IndexInit
<1>3. inserted = [d \in D |-> <<>>]
  BY DEF IndexInit
<1>4. inserted \in Chains(D) /\ DOMAIN inserted = D /\ \A d \in D : inserted[d] = <<>>
  <2>1. <<>> \in Seq(Nat)
    OBVIOUS
  <2> HIDE DEF D
  <2> QED
    BY <1>3, <2>1 DEF Chains
<1>5. clock = 1 /\ clock \in 1..MaxTime /\ added = 0
  BY <1>2 DEF IndexInit
<1>6. IndexTypeOK
  BY <1>4, <1>5 DEF IndexTypeOK, IndexInit, Adaptive
<1>7. HeightsFit(Drawn)
  BY DrawnFits DEF IndexInit
<1>8. NotLater
  BY <1>4 DEF NotLater
<1>9. IndexHolds
  <2> HIDE DEF D
  <2>1. CASE kind = "skiplist"
    <3>1. type = "Vector" /\ vector = <<>>
      BY <2>1 DEF IndexInit, Adaptive
    <3>2. VectorHolds(<<>>, inserted)
      BY <1>4, EmptyVectorHolds
    <3> QED
      BY <3>1, <3>2 DEF IndexHolds
  <2>2. CASE kind = "logblock"
    <3>1. type # "Vector" /\ index = EmptyLogBlock
      BY <2>2 DEF IndexInit, Adaptive, Empty
    <3>2. LogHolds(EmptyLogBlock, inserted, clock)
      BY <1>4, <1>5, EmptyLogHolds
    <3> QED
      BY <2>2, <3>1, <3>2 DEF IndexHolds
  <2> QED
    BY <1>1, <2>1, <2>2
<1>10. Counted
  <2>1. Given(inserted) = {}
    BY <1>4 DEF Given
  <2>2. IsFiniteSet({}) /\ Cardinality({}) = 0
    BY FS_EmptySet
  <2>3. kind = "logblock" => index.logs = <<>>
    BY DEF IndexInit, Empty, EmptyLogBlock
  <2>4. kind = "logblock" => Cardinality(Doubled(index.logs, inserted)) = 0
    BY <2>3, DoubledCounts
  <2> QED
    BY <1>5, <2>1, <2>2, <2>4 DEF Counted
<1> QED
  BY <1>6, <1>7, <1>8, <1>9, <1>10 DEF IndexInv

\* What every insertion does.
LEMMA InsertedIs ==
    ASSUME IndexInv, NEW dest \in DOMAIN inserted, Inserted(dest)
    PROVE  /\ inserted' = Pushed(inserted, dest, clock)
           /\ kind' = kind /\ clock' = clock /\ Drawn' = Drawn
           /\ inserted' \in Chains(Destinations[kind'])
           /\ HeightsFit(Drawn)' /\ NotLater'
           /\ IsFiniteSet(Given(inserted'))
           /\ Cardinality(Given(inserted)) \in Nat
           /\ Cardinality(Given(inserted'))
                = Cardinality(Given(inserted)) + (IF inserted[dest] = <<>> THEN 1 ELSE 0)
<1> DEFINE D == Destinations[kind]
<1>1. /\ D \in SUBSET Nat /\ inserted \in Chains(D) /\ DOMAIN inserted = D
      /\ clock \in Nat /\ dest \in D
  BY InvFacts
<1>2. inserted' = Pushed(inserted, dest, clock) /\ kind' = kind /\ clock' = clock
  BY DEF Inserted, Pushed
<1>3. Drawn' = Drawn
  <2>1. heights' = heights
    BY DEF Inserted
  <2> QED
    BY <2>1 DEF Drawn, Height
<1>4. HeightsFit(Drawn)'
  BY <1>3 DEF IndexInv, HeightsFit
<1> HIDE DEF D
<1> DEFINE P == Pushed(inserted, dest, clock)
<1>5. P \in Chains(D) /\ P[dest] = PushVersion(inserted[dest], clock) /\ \A d \in D : d # dest => P[d] = inserted[d]
  <2>1. PICK G : G = inserted
    OBVIOUS
  <2>2. PICK now : now = clock
    OBVIOUS
  <2>3. G \in Chains(D) /\ now \in Nat /\ dest \in D
    BY <1>1, <2>1, <2>2
  <2>4. /\ Pushed(G, dest, now) \in Chains(D)
        /\ Pushed(G, dest, now)[dest] = PushVersion(G[dest], now)
        /\ \A d \in D : d # dest => Pushed(G, dest, now)[d] = G[d]
    BY <2>3, PushedIs
  <2> QED
    BY <2>1, <2>2, <2>4
<1>6. /\ IsFiniteSet(Given(P)) /\ Cardinality(Given(inserted)) \in Nat
      /\ Cardinality(Given(P)) = Cardinality(Given(inserted)) + (IF inserted[dest] = <<>> THEN 1 ELSE 0)
  <2>1. IsFiniteSet(Given(inserted))
    BY DEF IndexInv, Counted
  <2> QED
    BY <1>1, <2>1, GivenGrows
<1>7. \A d \in D : \A i \in DOMAIN inserted[d] : inserted[d][i] <= clock
  BY <1>1 DEF IndexInv, NotLater
<1> HIDE DEF P
<1>8. \A d \in D : \A i \in DOMAIN P[d] : P[d][i] <= clock
  <2> TAKE d \in D
  <2>1. CASE d # dest
    BY <1>5, <1>7, <2>1
  <2>2. CASE d = dest
    <3>1. inserted[dest] \in Seq(Nat)
      BY <1>1 DEF Chains
    <3>2. ToSet(P[d]) = {clock} \cup ToSet(inserted[dest])
      BY <1>1, <1>5, <2>2, <3>1, PushVersionAdds
    <3>3. \A t \in ToSet(inserted[dest]) : t <= clock
      BY <1>1, <1>7 DEF ToSet
    <3>4. \A t \in ToSet(P[d]) : t <= clock
      BY <1>1, <3>2, <3>3
    <3> QED
      BY <3>4 DEF ToSet
  <2> QED
    BY <2>1, <2>2
<1>9. NotLater'
  <2>1. DOMAIN P = D
    BY <1>5 DEF Chains
  <2> QED
    BY <1>2, <1>8, <2>1 DEF NotLater, P
<1>10. inserted' \in Chains(Destinations[kind'])
  BY <1>2, <1>5 DEF D, P
<1> QED
  BY <1>2, <1>3, <1>4, <1>6, <1>9, <1>10 DEF P

\* The invariant in the three forms the state takes.
LEMMA InvByKind ==
    ASSUME IndexInv, kind # "pma"
    PROVE  \/ kind = "skiplist" /\ type = "Vector" /\ VectorHolds(vector, inserted)
           \/ kind = "skiplist" /\ type = "NonVector" /\ ListHolds(index, inserted, Drawn)
           \/ kind = "logblock" /\ type = "NonVector" /\ LogHolds(index, inserted, clock)
BY DEF IndexInv, IndexTypeOK, IndexHolds, IndexKinds

LEMMA InsertInVectorHolds ==
    ASSUME IndexInv, kind # "pma", NEW dest \in DOMAIN inserted, InsertInVector(dest)
    PROVE  IndexInv'
<1>1. /\ type = "Vector" /\ Inserted(dest) /\ UNCHANGED <<type, index>>
      /\ vector' = InsertEntry(vector, dest, clock)
      /\ added' = added + (IF dest \in Dests(vector) THEN 0 ELSE 1)
  BY DEF InsertInVector
<1>2. /\ inserted' = Pushed(inserted, dest, clock)
      /\ kind' = kind /\ clock' = clock
      /\ inserted' \in Chains(Destinations[kind'])
      /\ HeightsFit(Drawn)' /\ NotLater'
      /\ IsFiniteSet(Given(inserted'))
      /\ Cardinality(Given(inserted)) \in Nat
      /\ Cardinality(Given(inserted'))
           = Cardinality(Given(inserted)) + (IF inserted[dest] = <<>> THEN 1 ELSE 0)
  BY <1>1, InsertedIs
<1>3. kind = "skiplist" /\ VectorHolds(vector, inserted)
  BY <1>1, InvByKind
<1>4. /\ Destinations[kind] \in SUBSET Nat /\ inserted \in Chains(Destinations[kind])
      /\ dest \in Destinations[kind] /\ clock \in Nat
  BY InvFacts
<1>5. VectorHolds(vector', inserted')
  BY <1>1, <1>2, <1>3, <1>4, VectorInsertHolds
<1>6. dest \in Dests(vector) <=> inserted[dest] # <<>>
  BY <1>3, <1>4, VectorFacts
<1>7. added' = Cardinality(Given(inserted'))
  <2>1. added = Cardinality(Given(inserted)) + 0
    BY <1>3 DEF IndexInv, Counted
  <2> QED
    BY <1>1, <1>2, <1>6, <2>1
<1>8. IndexTypeOK'
  BY <1>1, <1>2 DEF IndexInv, IndexTypeOK
<1>9. IndexHolds'
  BY <1>1, <1>5 DEF IndexHolds
<1>10. Counted'
  BY <1>2, <1>3, <1>7 DEF Counted
<1> QED
  BY <1>2, <1>8, <1>9, <1>10 DEF IndexInv

\* An insertion into a skip list, with the heights that are drawn.
LEMMA SkipStep ==
    ASSUME IndexInv, kind = "skiplist", NEW dest \in DOMAIN inserted, Inserted(dest),
           NEW list, ListHolds(list, inserted, Drawn),
           type' = "NonVector", index' = IndexInsert(list, dest, clock),
           added' = added + (IF IndexIsNew(list, dest, clock) THEN 1 ELSE 0)
    PROVE  IndexInv'
<1>1. /\ inserted' = Pushed(inserted, dest, clock)
      /\ kind' = kind /\ clock' = clock /\ Drawn' = Drawn
      /\ inserted' \in Chains(Destinations[kind'])
      /\ HeightsFit(Drawn)' /\ NotLater'
      /\ IsFiniteSet(Given(inserted'))
      /\ Cardinality(Given(inserted)) \in Nat
      /\ Cardinality(Given(inserted'))
           = Cardinality(Given(inserted)) + (IF inserted[dest] = <<>> THEN 1 ELSE 0)
  BY InsertedIs
<1>2. /\ Destinations[kind] \in SUBSET Nat /\ inserted \in Chains(Destinations[kind])
      /\ dest \in Destinations[kind] /\ clock \in Nat /\ HeightsFit(Drawn)
  BY InvFacts DEF IndexInv
<1>3. ListHolds(IndexInsert(list, dest, clock), Pushed(inserted, dest, clock), Drawn)
  BY <1>2, IndexInsertHolds
<1>4. ListHolds(index, inserted, Drawn)'
  <2>1. ListHolds(index', inserted', Drawn')
    BY <1>1, <1>3
  <2> QED
    BY <2>1
<1>5. IndexIsNew(list, dest, clock) <=> inserted[dest] = <<>>
  <2>1. IndexIsNew(list, dest, clock) <=> SkipIsNew(list, dest)
    BY DEF IndexIsNew
  <2> QED
    BY <1>2, <2>1, SkipIsNewIs
<1>6. added' = Cardinality(Given(inserted'))
  <2>1. added = Cardinality(Given(inserted)) + 0
    BY DEF IndexInv, Counted
  <2> QED
    BY <1>1, <1>5, <2>1
<1>7. IndexTypeOK'
  BY <1>1 DEF IndexInv, IndexTypeOK
<1>8. IndexHolds'
  BY <1>1, <1>4 DEF IndexHolds
<1>9. Counted'
  BY <1>1, <1>6 DEF Counted
<1> QED
  BY <1>1, <1>7, <1>8, <1>9 DEF IndexInv

LEMMA InsertAndSwitchHolds ==
    ASSUME IndexInv, kind # "pma", NEW dest \in DOMAIN inserted, InsertAndSwitch(dest)
    PROVE  IndexInv'
<1>1. kind = "skiplist" /\ VectorHolds(vector, inserted)
  BY InvByKind DEF InsertAndSwitch
<1>2. /\ Destinations[kind] \in SUBSET Nat /\ inserted \in Chains(Destinations[kind])
      /\ HeightsFit(Drawn)
  BY InvFacts DEF IndexInv
<1>3. ListHolds(Indexed(vector), inserted, Drawn)
  BY <1>1, <1>2, IndexedHolds
<1> DEFINE list == Indexed(vector)
<1>4. /\ Inserted(dest) /\ type' = "NonVector" /\ index' = IndexInsert(list, dest, clock)
      /\ added' = added + (IF IndexIsNew(list, dest, clock) THEN 1 ELSE 0)
  BY DEF InsertAndSwitch
<1> HIDE DEF list
<1> QED
  BY <1>1, <1>3, <1>4, SkipStep DEF list

\* An insertion into a log block.
LEMMA LogStep ==
    ASSUME IndexInv, kind = "logblock", NEW dest \in DOMAIN inserted, Inserted(dest),
           LogHolds(index, inserted, clock), type = "NonVector", type' = type,
           index' = IndexInsert(index, dest, clock),
           added' = added + (IF IndexIsNew(index, dest, clock) THEN 1 ELSE 0)
    PROVE  IndexInv'
<1>1. /\ inserted' = Pushed(inserted, dest, clock)
      /\ kind' = kind /\ clock' = clock
      /\ inserted' \in Chains(Destinations[kind'])
      /\ HeightsFit(Drawn)' /\ NotLater'
      /\ IsFiniteSet(Given(inserted'))
      /\ Cardinality(Given(inserted)) \in Nat
      /\ Cardinality(Given(inserted'))
           = Cardinality(Given(inserted)) + (IF inserted[dest] = <<>> THEN 1 ELSE 0)
  BY InsertedIs
<1>2. /\ Destinations[kind] \in SUBSET Nat /\ inserted \in Chains(Destinations[kind])
      /\ dest \in Destinations[kind] /\ dest \in Nat /\ clock \in Nat /\ clock <= clock
  BY InvFacts
<1>3. index' = LogInsert(index, dest, clock)
  BY DEF IndexInsert
<1>4. LogHolds(LogInsert(index, dest, clock), Pushed(inserted, dest, clock), clock)
  BY <1>2, LogInsertHolds
<1>5. LogHolds(index', inserted', clock')
  BY <1>1, <1>3, <1>4
<1> DEFINE a == Cardinality(Doubled(index.logs, inserted))
           z == Cardinality(Doubled(index'.logs, inserted'))
           g == Cardinality(Given(inserted))
           h == Cardinality(Given(inserted'))
           one == IF inserted[dest] = <<>> THEN 1 ELSE 0
           two == IF IndexIsNew(index, dest, clock) THEN 1 ELSE 0
<1>6. a \in Nat /\ z + one = a + two /\ z \in Nat
  <2>1. IndexIsNew(index, dest, clock) <=> LogIsNew(index, dest, clock)
    BY DEF IndexIsNew
  <2>2. /\ a \in Nat
        /\ Cardinality(Doubled(LogInsert(index, dest, clock).logs, Pushed(inserted, dest, clock))) + one
             = a + (IF LogIsNew(index, dest, clock) THEN 1 ELSE 0)
    BY <1>2, LogCounts
  <2>3. z = Cardinality(Doubled(LogInsert(index, dest, clock).logs, Pushed(inserted, dest, clock)))
    BY <1>1, <1>3
  <2>4. z \in Nat
    BY DoubledCounts, FS_CardinalityType
  <2> QED
    BY <2>1, <2>2, <2>3, <2>4
<1>7. g \in Nat /\ h = g + one /\ added = g + a /\ added' = added + two
  BY <1>1 DEF IndexInv, Counted
<1>8. one \in Nat /\ two \in Nat
  OBVIOUS
<1>9. added' = h + z
  <2> HIDE DEF a, z, g, h, one, two
  <2> QED
    BY <1>6, <1>7, <1>8
<1>10. Counted'
  BY <1>1, <1>9 DEF Counted
<1>11. IndexTypeOK'
  BY <1>1 DEF IndexInv, IndexTypeOK
<1>12. IndexHolds'
  BY <1>1, <1>5 DEF IndexHolds
<1> QED
  BY <1>1, <1>10, <1>11, <1>12 DEF IndexInv

LEMMA InsertInIndexHolds ==
    ASSUME IndexInv, kind # "pma", NEW dest \in DOMAIN inserted, InsertInIndex(dest)
    PROVE  IndexInv'
<1>1. /\ type = "NonVector" /\ type' = type /\ Inserted(dest)
      /\ index' = IndexInsert(index, dest, clock)
      /\ added' = added + (IF IndexIsNew(index, dest, clock) THEN 1 ELSE 0)
  BY DEF InsertInIndex
<1>2. CASE kind = "skiplist"
  <2>1. ListHolds(index, inserted, Drawn)
    BY <1>1, <1>2, InvByKind
  <2>2. type' = "NonVector"
    BY <1>1
  <2> QED
    BY <1>1, <1>2, <2>1, <2>2, SkipStep
<1>3. CASE kind = "logblock"
  <2>1. LogHolds(index, inserted, clock)
    BY <1>1, <1>3, InvByKind
  <2> QED
    BY <1>1, <1>3, <2>1, LogStep
<1> QED
  BY <1>2, <1>3, InvByKind

LEMMA NextTransactionHolds ==
    ASSUME IndexInv, kind # "pma", NextTransaction
    PROVE  IndexInv'
<1>1. /\ clock < MaxTime /\ clock' = clock + 1
      /\ UNCHANGED <<kind, heights, type, vector, index, added, inserted>>
  BY DEF NextTransaction
<1>2. clock \in Nat /\ MaxTime \in Nat /\ inserted \in Chains(Destinations[kind])
      /\ DOMAIN inserted = Destinations[kind]
  BY InvFacts
<1>3. clock' \in Nat /\ clock <= clock' /\ clock' \in 1..MaxTime
  BY <1>1, <1>2
<1>4. IndexTypeOK'
  BY <1>1, <1>3 DEF IndexInv, IndexTypeOK
<1>5. HeightsFit(Drawn)'
  BY <1>1 DEF IndexInv, HeightsFit, Drawn, Height
<1>6. IndexHolds'
  <2>1. Drawn' = Drawn
    BY <1>1 DEF Drawn, Height
  <2>2. kind = "logblock" => LogHolds(index, inserted, clock')
    <3>1. kind = "logblock" => LogHolds(index, inserted, clock)
      BY InvByKind
    <3> QED
      BY <1>2, <1>3, <3>1, LogHoldsLater
  <2>3. IndexHolds
    BY DEF IndexInv
  <2>4. VectorHolds(vector, inserted) => VectorHolds(vector', inserted')
    BY <1>1
  <2>5. ListHolds(index, inserted, Drawn) => ListHolds(index', inserted', Drawn')
    BY <1>1, <2>1
  <2>6. kind = "logblock" => LogHolds(index', inserted', clock')
    BY <1>1, <2>2
  <2> QED
    BY <1>1, <2>3, <2>4, <2>5, <2>6 DEF IndexHolds
<1>7. NotLater'
  <2>1. \A d \in DOMAIN inserted : \A i \in DOMAIN inserted[d] :
            inserted[d][i] \in Nat /\ inserted[d][i] <= clock
    BY <1>2 DEF IndexInv, NotLater, Chains
  <2>2. \A d \in DOMAIN inserted : \A i \in DOMAIN inserted[d] : inserted[d][i] <= clock'
    BY <1>2, <1>3, <2>1
  <2> QED
    BY <1>1, <2>2 DEF NotLater
<1>8. Counted'
  BY <1>1 DEF IndexInv, Counted
<1> QED
  BY <1>4, <1>5, <1>6, <1>7, <1>8 DEF IndexInv

LEMMA IndexNextHolds ==
    ASSUME kind # "pma" => IndexInv, [IndexNext]_indexVars
    PROVE  (kind # "pma" => IndexInv)'
<1>1. CASE UNCHANGED indexVars
  <2>1. UNCHANGED <<kind, heights, type, vector, index, clock, added, inserted>>
    BY <1>1 DEF indexVars
  <2>2. Drawn' = Drawn
    BY <2>1 DEF Drawn, Height
  <2>3. IndexTypeOK' = IndexTypeOK /\ NotLater' = NotLater /\ Counted' = Counted
    BY <2>1 DEF IndexTypeOK, NotLater, Counted
  <2>4. IndexHolds' = IndexHolds
    BY <2>1, <2>2 DEF IndexHolds
  <2>5. HeightsFit(Drawn)' = HeightsFit(Drawn)
    BY <2>2 DEF HeightsFit
  <2> QED
    BY <2>1, <2>3, <2>4, <2>5 DEF IndexInv
<1>2. CASE IndexNext
  <2>1. kind' = kind
    BY <1>2 DEF IndexNext, InsertInVector, InsertAndSwitch, InsertInIndex, Inserted, NextTransaction
  <2>2. SUFFICES ASSUME kind # "pma", IndexInv PROVE IndexInv'
    BY <2>1
  <2>3. ASSUME NEW dest \in DOMAIN inserted, InsertInVector(dest) PROVE IndexInv'
    BY <2>2, <2>3, InsertInVectorHolds
  <2>4. ASSUME NEW dest \in DOMAIN inserted, InsertAndSwitch(dest) PROVE IndexInv'
    BY <2>2, <2>4, InsertAndSwitchHolds
  <2>5. ASSUME NEW dest \in DOMAIN inserted, InsertInIndex(dest) PROVE IndexInv'
    BY <2>2, <2>5, InsertInIndexHolds
  <2>6. ASSUME NextTransaction PROVE IndexInv'
    BY <2>2, <2>6, NextTransactionHolds
  <2> QED
    BY <1>2, <2>3, <2>4, <2>5, <2>6 DEF IndexNext
<1> QED
  BY <1>1, <1>2

\* Whatever was inserted into a sorted vector, a skip list or a log block, the
\* vector or the index holds the version chains of what was inserted and nothing
\* else, and the answers of insert_edge add up.
THEOREM IndexReached == IndexSpec => [](kind # "pma" => IndexInv)
<1>1. IndexInit => (kind # "pma" => IndexInv)
  BY IndexInitHolds
<1>2. (kind # "pma" => IndexInv) /\ [IndexNext]_indexVars => (kind # "pma" => IndexInv)'
  BY IndexNextHolds
<1> QED
  BY <1>1, <1>2, PTL DEF IndexSpec

-----------------------------------------------------------------------------
(* The properties *)

LEMMA ReadsFindInv ==
    ASSUME IndexInv, kind # "pma"
    PROVE  ReadsFind
<1>1. /\ Destinations[kind] \in SUBSET Nat /\ inserted \in Chains(Destinations[kind])
      /\ DOMAIN inserted = Destinations[kind] /\ clock \in Nat /\ MaxTime \in Nat
      /\ HeightsFit(Drawn)
  BY InvFacts DEF IndexInv
<1>2. SUFFICES ASSUME NEW ts \in 0..MaxTime, NEW d \in DOMAIN inserted
               PROVE  HasEdge(d, ts) <=> CheckVersion(inserted[d], ts)
  BY DEF ReadsFind, Present
<1>3. ts \in Nat /\ d \in Destinations[kind]
  BY <1>1
<1>4. CASE kind = "skiplist" /\ type = "Vector" /\ VectorHolds(vector, inserted)
  <2>1. HasEdge(d, ts) <=> FindEntry(vector, d, ts)
    BY <1>4 DEF HasEdge
  <2> QED
    BY <1>1, <1>3, <1>4, <2>1, VectorReads
<1>5. CASE kind = "skiplist" /\ type = "NonVector" /\ ListHolds(index, inserted, Drawn)
  <2>1. HasEdge(d, ts) <=> SkipHasEdge(index, d, ts)
    BY <1>5 DEF HasEdge
  <2> QED
    BY <1>1, <1>3, <1>5, <2>1, SkipHasEdgeIs
<1>6. CASE kind = "logblock" /\ type = "NonVector" /\ LogHolds(index, inserted, clock)
  <2>1. HasEdge(d, ts) <=> LogHasEdge(index, d, ts)
    BY <1>6 DEF HasEdge
  <2> QED
    BY <1>1, <1>3, <1>6, <2>1, LogHasEdgeIs
<1> QED
  BY <1>4, <1>5, <1>6, InvByKind

LEMMA ScansYieldOnceInv ==
    ASSUME IndexInv, kind # "pma"
    PROVE  ScansYieldOnce
<1> DEFINE D == Destinations[kind]
<1>1. /\ D \in SUBSET Nat /\ inserted \in Chains(D) /\ DOMAIN inserted = D
      /\ clock \in Nat /\ MaxTime \in Nat /\ HeightsFit(Drawn)
  BY InvFacts DEF IndexInv
<1>2. SUFFICES ASSUME NEW ts \in 0..MaxTime
               PROVE  /\ Range(Edges(ts)) = Present(ts)
                      /\ \A i, j \in DOMAIN Edges(ts) :
                            i # j /\ Edges(ts)[i] = Edges(ts)[j] => Edges(ts)[i] \in TwoLogs
                      /\ kind # "logblock" =>
                            \A i, j \in DOMAIN Edges(ts) : i < j => Edges(ts)[i] < Edges(ts)[j]
  BY DEF ScansYieldOnce
<1> DEFINE scan == Edges(ts)
<1>3. ts \in Nat /\ Present(ts) = {d \in D : CheckVersion(inserted[d], ts)}
  BY <1>1 DEF Present
<1> HIDE DEF D
<1>4. ASSUME scan \in Seq(Nat), Ascending(scan)
      PROVE  \A i, j \in DOMAIN scan : i # j => scan[i] # scan[j]
  <2> HIDE DEF scan
  <2>1. DOMAIN scan = 1..Len(scan) /\ Len(scan) \in Nat /\ \A i \in DOMAIN scan : scan[i] \in Nat
    BY <1>4, LenProperties, ElementOfSeq
  <2> TAKE i \in DOMAIN scan, j \in DOMAIN scan
  <2>2. i < j => scan[i] < scan[j]
    BY <1>4 DEF Ascending
  <2>3. j < i => scan[j] < scan[i]
    BY <1>4 DEF Ascending
  <2>4. i \in Int /\ j \in Int /\ scan[i] \in Nat /\ scan[j] \in Nat
    BY <2>1
  <2> QED
    BY <2>2, <2>3, <2>4
<1>5. CASE kind = "skiplist" /\ type = "Vector" /\ VectorHolds(vector, inserted)
  <2>1. scan = Visible(vector, ts)
    BY <1>5 DEF Edges
  <2>2. /\ scan \in Seq(Nat) /\ Ascending(scan)
        /\ Range(scan) = {d \in D : CheckVersion(inserted[d], ts)}
    BY <1>1, <1>5, <2>1, VectorReads
  <2> QED
    BY <1>3, <1>4, <2>2 DEF Ascending
<1>6. CASE kind = "skiplist" /\ type = "NonVector" /\ ListHolds(index, inserted, Drawn)
  <2>1. scan = SkipEdges(index, ts)
    BY <1>6 DEF Edges
  <2>2. /\ scan \in Seq(Nat) /\ Ascending(scan)
        /\ Range(scan) = {d \in D : CheckVersion(inserted[d], ts)}
    <3> HIDE DEF scan
    <3>1. PICK list, H, G : list = index /\ H = Drawn /\ G = inserted
      OBVIOUS
    <3>2. D \in SUBSET Nat /\ G \in Chains(D) /\ HeightsFit(H) /\ ListHolds(list, G, H)
      BY <1>1, <1>6, <3>1
    <3>3. /\ SkipEdges(list, ts) \in Seq(Nat) /\ Ascending(SkipEdges(list, ts))
          /\ Range(SkipEdges(list, ts)) = {d \in D : CheckVersion(G[d], ts)}
      BY <3>2, SkipEdgesIs
    <3> QED
      BY <2>1, <3>1, <3>3
  <2> QED
    BY <1>3, <1>4, <2>2 DEF Ascending
<1>7. CASE kind = "logblock" /\ type = "NonVector" /\ LogHolds(index, inserted, clock)
  <2>1. scan = LogEdges(index, ts)
    BY <1>7 DEF Edges
  <2>2. /\ Range(scan) = {d \in D : CheckVersion(inserted[d], ts)}
        /\ \A i, j \in DOMAIN scan :
                i # j /\ scan[i] = scan[j] => scan[i] \in Doubled(index.logs, inserted)
    BY <1>1, <1>3, <1>7, <2>1, LogEdgesIs
  <2>3. Doubled(index.logs, inserted) \subseteq TwoLogs
    BY <1>7 DEF Doubled, TwoLogs
  <2> QED
    BY <1>3, <1>7, <2>2, <2>3
<1> QED
  BY <1>5, <1>6, <1>7, InvByKind

LEMMA DegreeCountsInv ==
    ASSUME IndexInv, kind # "pma"
    PROVE  DegreeCounts
<1>1. /\ inserted \in Chains(Destinations[kind]) /\ DOMAIN inserted = Destinations[kind]
      /\ clock \in Nat /\ MaxTime \in Nat /\ clock <= MaxTime
  BY InvFacts
<1>2. Present(MaxTime) = Given(inserted)
  <2>1. ASSUME NEW d \in DOMAIN inserted
        PROVE  CheckVersion(inserted[d], MaxTime) <=> inserted[d] # <<>>
    <3>1. inserted[d] \in Seq(Nat)
      BY <1>1 DEF Chains
    <3> DEFINE chain == inserted[d]
    <3>2. \A i \in DOMAIN chain : chain[i] \in Nat /\ chain[i] <= clock
      BY <3>1 DEF IndexInv, NotLater
    <3>3. \A i \in DOMAIN chain : chain[i] <= MaxTime
      BY <1>1, <3>2
    <3>4. chain # <<>> => 1 \in DOMAIN chain
      <4> HIDE DEF chain
      <4>1. chain \in Seq(Nat)
        BY <3>1 DEF chain
      <4>2. Len(chain) \in Nat /\ DOMAIN chain = 1..Len(chain) /\ (chain = <<>> <=> Len(chain) = 0)
        BY <4>1, LenProperties, EmptySeq
      <4> QED
        BY <4>2
    <3>5. chain = <<>> => DOMAIN chain = {}
      OBVIOUS
    <3> QED
      BY <3>3, <3>4, <3>5 DEF CheckVersion
  <2> QED
    BY <2>1 DEF Present, Given
<1>3. kind = "logblock" => Doubled(index.logs, inserted) = TwoLogs
  <2> SUFFICES ASSUME kind = "logblock" PROVE Doubled(index.logs, inserted) = TwoLogs
    OBVIOUS
  <2>1. LogHolds(index, inserted, clock)
    BY InvByKind
  <2> DEFINE logs == index.logs
  <2>2. logs # <<>> => logs[1].dest \in DOMAIN inserted
    <3>1. logs \in Logs /\ LogsHold(logs, inserted, clock)
      BY <2>1 DEF LogHolds
    <3> HIDE DEF logs
    <3>2. logs # <<>> => 1 \in DOMAIN logs
      BY <3>1, LogFacts
    <3> QED
      BY <3>1, <3>2 DEF LogsHold
  <2> QED
    BY <2>2 DEF Doubled, TwoLogs
<1>4. kind # "logblock" => Cardinality(TwoLogs) = 0
  BY FS_EmptySet DEF TwoLogs
<1>5. added = Cardinality(Given(inserted))
                + (IF kind = "logblock" THEN Cardinality(Doubled(index.logs, inserted)) ELSE 0)
  BY DEF IndexInv, Counted
<1> QED
  BY <1>2, <1>3, <1>4, <1>5 DEF DegreeCounts

LEMMA StructureHoldsInv ==
    ASSUME IndexInv, kind # "pma"
    PROVE  StructureHolds
<1>1. ASSUME kind = "skiplist", type = "NonVector" PROVE LevelsHold(index)
  <2>1. ListHolds(index, inserted, Drawn) /\ HeightsFit(Drawn)
    BY <1>1, InvByKind DEF IndexInv
  <2> QED
    BY <2>1, LevelsHoldIs
<1> QED
  BY <1>1 DEF StructureHolds

\* At every timestamp a vector, a skip list and a log block find an edge exactly
\* when it was inserted by then: across full vectors, block splits and closed logs,
\* for every block size, number of levels, sequence of heights and of insertions.
THEOREM IndexReadsFind == IndexSpec => [](kind # "pma" => ReadsFind)
<1>1. (kind # "pma" => IndexInv) => (kind # "pma" => ReadsFind)
  BY ReadsFindInv
<1> QED
  BY <1>1, IndexReached, PTL

\* A scan yields the edges of its timestamp, each once and in ascending order; only
\* the edge of the first log of a log block may come twice.
THEOREM IndexScansYieldOnce == IndexSpec => [](kind # "pma" => ScansYieldOnce)
<1>1. (kind # "pma" => IndexInv) => (kind # "pma" => ScansYieldOnce)
  BY ScansYieldOnceInv
<1> QED
  BY <1>1, IndexReached, PTL

\* insert_edge says "new" as often as there are edges; once more for the edge of the
\* first log of a log block when it comes again.
THEOREM IndexDegreeCounts == IndexSpec => [](kind # "pma" => DegreeCounts)
<1>1. (kind # "pma" => IndexInv) => (kind # "pma" => DegreeCounts)
  BY DegreeCountsInv
<1> QED
  BY <1>1, IndexReached, PTL

\* Every level of the skip list is a sorted part of the level below, and the lowest
\* one links every block.
THEOREM IndexStructureHolds == IndexSpec => [](kind # "pma" => StructureHolds)
<1>1. (kind # "pma" => IndexInv) => (kind # "pma" => StructureHolds)
  BY StructureHoldsInv
<1> QED
  BY <1>1, IndexReached, PTL
==============================================================================
