------------------------- MODULE DurableStoreProofs -------------------------
(***************************************************************************)
(* What the abstract store guarantees for any set of writes.  Recovery is      *)
(* model-checked to implement it (ImplementsStore).                          *)
(***************************************************************************)
EXTENDS DurableStore, TLAPS

(* No step of the store breaks its promise.                                  *)
LEMMA StepKeeps ==
  ASSUME Kept, [StoreNext]_storeVars
  PROVE  Kept'
  <1>1. CASE Record
    BY <1>1 DEF Kept, Record
  <1>2. CASE Harden
    BY <1>2 DEF Kept, Harden
  <1>3. CASE Fail
    BY <1>3 DEF Kept, Fail
  <1>4. CASE Acknowledge
    BY <1>4 DEF Kept, Acknowledge
  <1>5. CASE MachineDies
    BY <1>5 DEF Kept, MachineDies
  <1>6. CASE UNCHANGED storeVars
    BY <1>6 DEF Kept, storeVars
  <1> QED
    BY <1>1, <1>2, <1>3, <1>4, <1>5, <1>6 DEF StoreNext

(* Acknowledged writes are found by a recovery, and those acknowledged with       *)
(* WriteOptions::sync also after the machine died.                           *)
THEOREM AcknowledgedKept == StoreSpec => []Kept
  <1>1. StoreInit => Kept
    BY DEF StoreInit, Kept
  <1> QED
    BY <1>1, StepKeeps, PTL DEF StoreSpec
=============================================================================
