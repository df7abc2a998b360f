------------------------------- MODULE RWLock -------------------------------
(***************************************************************************)
(* What a reader-writer lock promises: one exclusive holder alone, or any  *)
(* number of shared holders.  Every acquisition is an actor of its own: a  *)
(* thread that holds a lock twice is two actors.                           *)
(***************************************************************************)
CONSTANT Actors

VARIABLES exclusive, sharing   \* the sets of actors that hold the lock

lockVars == <<exclusive, sharing>>

Init == exclusive = {} /\ sharing = {}

Lock(a) ==
    /\ exclusive = {} /\ sharing = {}
    /\ exclusive' = {a} /\ UNCHANGED sharing

LockShared(a) ==
    /\ exclusive = {} /\ a \notin sharing
    /\ sharing' = sharing \cup {a} /\ UNCHANGED exclusive

\* The only shared holder becomes the exclusive one.
Upgrade(a) ==
    /\ exclusive = {} /\ sharing = {a}
    /\ exclusive' = {a} /\ sharing' = {}

Unlock(a) ==
    /\ exclusive = {a}
    /\ exclusive' = {} /\ UNCHANGED sharing

UnlockShared(a) ==
    /\ a \in sharing
    /\ sharing' = sharing \ {a} /\ UNCHANGED exclusive

Next == \E a \in Actors :
    Lock(a) \/ LockShared(a) \/ Upgrade(a) \/ Unlock(a) \/ UnlockShared(a)

Spec == Init /\ [][Next]_lockVars
=============================================================================
