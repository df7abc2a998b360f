---------------------------- MODULE MCRWSpinLock ----------------------------
(***************************************************************************)
(* RWSpinLock for TLC.  Excl is the least value the assumption allows: as  *)
(* in 64 bits no count reaches it.  HoldLimit is below the number of       *)
(* actors: two of them hold the lock when the third one loads the word.    *)
(***************************************************************************)
EXTENDS RWSpinLock
=============================================================================
