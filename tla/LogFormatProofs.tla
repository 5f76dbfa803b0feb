--------------------------- MODULE LogFormatProofs ---------------------------
(***************************************************************************)
(* The layout of the log for every block size, header size and length of      *)
(* records: the writer's count of the offset in a block is right, and no       *)
(* fragment lies across two blocks.                                          *)
(***************************************************************************)
EXTENDS LogFormat, TLAPS

Types == {"full", "first", "middle", "last"}
Fragment == [offset : Nat, have : Nat, length : Nat, record : Nat, from : Int, type : Types]

(* The types the argument needs.                                            *)
LayoutTypes ==
    /\ blockOffset \in 0..kBlockSize /\ size \in Nat /\ synced \in Nat /\ faults \in Nat
    /\ lengths \in Seq(Nat)
    /\ adding # Idle => /\ adding \in [left : Nat, begin : BOOLEAN]
                        /\ Len(lengths) \in DOMAIN lengths
    /\ fragments \subseteq Fragment

(* While nothing has failed, block_offset_ is the offset in the last block.     *)
Aligned ==
    phase = "writing" /\ faults = 0 => \E b \in Nat : size = b * kBlockSize + blockOffset

Inv == LayoutTypes /\ Aligned /\ FitsInBlocks

-----------------------------------------------------------------------------
(* A multiple of the block size is not less than its factor.                  *)
LEMMA FactorBound ==
    ASSUME NEW b \in Nat
    PROVE  /\ b * kBlockSize \in Nat /\ b <= b * kBlockSize
           /\ (b + 1) * kBlockSize = b * kBlockSize + kBlockSize
  <1>1. kBlockSize \in Nat /\ kBlockSize >= 1
    BY FormatAssumption
  <1>2. QED
    BY <1>1

(* A fragment that the writer puts at the right offset of its block fits.      *)
LEMMA FragmentFits ==
    ASSUME NEW b \in Nat, NEW o \in Nat, NEW n \in Nat,
           o + kHeaderSize + n <= kBlockSize
    PROVE  \E c \in 0..b * kBlockSize + o :
             /\ c * kBlockSize <= b * kBlockSize + o
             /\ b * kBlockSize + o + kHeaderSize + n <= (c + 1) * kBlockSize
  <1>1. /\ b * kBlockSize \in Nat /\ b <= b * kBlockSize
        /\ (b + 1) * kBlockSize = b * kBlockSize + kBlockSize
    BY FactorBound
  <1>2. b \in 0..b * kBlockSize + o
    BY <1>1
  <1>3. kHeaderSize \in Nat /\ kBlockSize \in Nat
    BY FormatAssumption
  <1>4. b * kBlockSize <= b * kBlockSize + o
    BY <1>1
  <1>5. b * kBlockSize + o + kHeaderSize + n <= (b + 1) * kBlockSize
    BY <1>1, <1>3
  <1>6. QED
    BY <1>2, <1>4, <1>5

(* What one turn of the loop of AddRecord writes lies within a block.          *)
LEMMA TurnInBlock ==
    ASSUME LayoutTypes, adding # Idle
    PROVE  /\ Trailer \in Nat /\ NextOffset \in Nat /\ FragmentLength \in Nat
           /\ FragmentLength <= adding.left
           /\ NextOffset + kHeaderSize + FragmentLength <= kBlockSize
           /\ \/ NextOffset = blockOffset /\ Trailer = 0
              \/ NextOffset = 0 /\ Trailer = kBlockSize - blockOffset
  <1>1. /\ kHeaderSize \in Nat \ {0} /\ kBlockSize \in Nat /\ kBlockSize >= kHeaderSize
        /\ blockOffset \in 0..kBlockSize /\ adding.left \in Nat
    BY FormatAssumption DEF LayoutTypes
  <1>2. CASE kBlockSize - blockOffset < kHeaderSize
    BY <1>1, <1>2 DEF Trailer, NextOffset, FragmentLength
  <1>3. CASE ~(kBlockSize - blockOffset < kHeaderSize)
    BY <1>1, <1>3 DEF Trailer, NextOffset, FragmentLength
  <1>4. QED
    BY <1>2, <1>3

-----------------------------------------------------------------------------
(* A turn of the loop keeps the invariant.                                   *)
LEMMA EmitKeepsInv ==
    ASSUME Inv, adding # Idle,
           NEW padded \in 0..Trailer, NEW have \in 0..kHeaderSize + FragmentLength,
           NEW ok \in BOOLEAN, EmitPhysicalRecord(padded, have, ok)
    PROVE  Inv'
  <1> DEFINE n == FragmentLength
             offset == size + padded
             f == [offset |-> offset, have |-> have, length |-> n, record |-> Len(lengths),
                   from |-> lengths[Len(lengths)] - adding.left,
                   type |-> RecordType(adding.begin, adding.left = n)]
  <1>1. /\ Trailer \in Nat /\ NextOffset \in Nat /\ n \in Nat /\ n <= adding.left
        /\ NextOffset + kHeaderSize + n <= kBlockSize
        /\ \/ NextOffset = blockOffset /\ Trailer = 0
           \/ NextOffset = 0 /\ Trailer = kBlockSize - blockOffset
    BY TurnInBlock DEF Inv
  <1>2. /\ kHeaderSize \in Nat \ {0} /\ kBlockSize \in Nat
        /\ padded \in Nat /\ padded <= Trailer /\ have \in Nat
        /\ blockOffset \in 0..kBlockSize /\ size \in Nat /\ synced \in Nat /\ faults \in Nat
        /\ lengths \in Seq(Nat) /\ Len(lengths) \in DOMAIN lengths
        /\ adding.left \in Nat /\ adding.begin \in BOOLEAN
    BY <1>1, FormatAssumption DEF Inv, LayoutTypes
  <1>3. /\ ok => have = kHeaderSize + n
        /\ faults' = faults + (IF padded < Trailer THEN 1 ELSE 0) + (IF ok THEN 0 ELSE 1)
        /\ fragments' = IF have = 0 THEN fragments ELSE fragments \cup {f}
        /\ size' = offset + have
        /\ blockOffset' = NextOffset + kHeaderSize + n
        /\ adding' = IF ok /\ adding.left > n THEN [left |-> adding.left - n, begin |-> FALSE]
                     ELSE Idle
        /\ lengths' = lengths /\ synced' = synced /\ phase' = phase /\ phase = "writing"
    BY DEF EmitPhysicalRecord
  <1>4. f \in Fragment
    <2>1. offset \in Nat /\ Len(lengths) \in Nat /\ lengths[Len(lengths)] - adding.left \in Int
      BY <1>2
    <2>2. RecordType(adding.begin, adding.left = n) \in Types
      BY DEF RecordType, Types
    <2>3. QED
      BY <1>1, <1>2, <2>1, <2>2 DEF Fragment
  <1>5. LayoutTypes'
    <2>1. /\ blockOffset' \in 0..kBlockSize /\ size' \in Nat /\ synced' \in Nat
          /\ faults' \in Nat /\ lengths' \in Seq(Nat)
      BY <1>1, <1>2, <1>3
    <2>2. adding' # Idle => /\ adding' \in [left : Nat, begin : BOOLEAN]
                            /\ Len(lengths') \in DOMAIN lengths'
      BY <1>1, <1>2, <1>3
    <2>3. fragments' \subseteq Fragment
      BY <1>3, <1>4 DEF Inv, LayoutTypes
    <2>4. QED
      BY <2>1, <2>2, <2>3 DEF LayoutTypes, Idle
  <1>6. CASE faults' = 0
    <2>1. faults = 0 /\ padded = Trailer /\ have = kHeaderSize + n
      BY <1>1, <1>2, <1>3, <1>6
    <2>2. PICK b \in Nat : size = b * kBlockSize + blockOffset
      BY <1>3, <2>1 DEF Inv, Aligned
    <2>3. PICK c \in Nat : offset = c * kBlockSize + NextOffset
      <3>1. CASE NextOffset = blockOffset /\ Trailer = 0
        BY <1>2, <2>1, <2>2, <3>1
      <3>2. CASE NextOffset = 0 /\ Trailer = kBlockSize - blockOffset
        <4>1. /\ (b + 1) * kBlockSize = b * kBlockSize + kBlockSize
              /\ b * kBlockSize \in Nat
          BY FactorBound
        <4>2. offset = (b + 1) * kBlockSize + NextOffset
          BY <1>2, <2>1, <2>2, <3>2, <4>1
        <4>3. b + 1 \in Nat
          OBVIOUS
        <4>4. QED
          BY <4>2, <4>3
      <3>3. QED
        BY <1>1, <3>1, <3>2
    <2>4. c * kBlockSize \in Nat
      BY FactorBound
    <2>5. Aligned'
      <3>1. size' = c * kBlockSize + blockOffset'
        BY <1>1, <1>2, <1>3, <2>1, <2>3, <2>4
      <3>2. QED
        BY <3>1 DEF Aligned
    <2>6. FitsInBlocks'
      <3>1. ASSUME NEW g \in fragments
            PROVE  \E d \in 0..g.offset :
                     /\ d * kBlockSize <= g.offset
                     /\ g.offset + kHeaderSize + g.length <= (d + 1) * kBlockSize
        BY <2>1 DEF Inv, FitsInBlocks
      <3>2. \E d \in 0..f.offset :
              /\ d * kBlockSize <= f.offset
              /\ f.offset + kHeaderSize + f.length <= (d + 1) * kBlockSize
        <4>1. \E d \in 0..c * kBlockSize + NextOffset :
                 /\ d * kBlockSize <= c * kBlockSize + NextOffset
                 /\ c * kBlockSize + NextOffset + kHeaderSize + n <= (d + 1) * kBlockSize
          BY <1>1, FragmentFits
        <4>2. f.offset = c * kBlockSize + NextOffset /\ f.length = n
          BY <2>3
        <4>3. QED
          BY <4>1, <4>2
      <3>3. fragments' \subseteq fragments \cup {f}
        BY <1>3
      <3>4. QED
        BY <3>1, <3>2, <3>3 DEF FitsInBlocks
    <2>7. QED
      BY <1>5, <2>5, <2>6 DEF Inv
  <1>7. CASE faults' # 0
    BY <1>5, <1>7 DEF Inv, Aligned, FitsInBlocks
  <1>8. QED
    BY <1>6, <1>7

(* What a crash leaves of the fragments keeps their places.                   *)
LEMMA CutKeepsLayout ==
    ASSUME LayoutTypes, FitsInBlocks, NEW F,
           F \subseteq Fragment,
           \A g \in F : \E f \in fragments : g.offset = f.offset /\ g.length = f.length,
           fragments' = F, blockOffset' = blockOffset, adding' = adding, lengths' = lengths,
           faults' = faults, synced' = synced, size' \in Nat, phase' # "writing"
    PROVE  Inv'
  <1>1. LayoutTypes'
    BY DEF LayoutTypes, Idle
  <1>2. Aligned'
    BY DEF Aligned
  <1>3. FitsInBlocks'
    <2>1. SUFFICES ASSUME faults = 0, NEW g \in F
                   PROVE  \E b \in 0..g.offset :
                            /\ b * kBlockSize <= g.offset
                            /\ g.offset + kHeaderSize + g.length <= (b + 1) * kBlockSize
      BY DEF FitsInBlocks
    <2>2. PICK f \in fragments : g.offset = f.offset /\ g.length = f.length
      OBVIOUS
    <2>3. QED
      BY <2>1, <2>2 DEF FitsInBlocks
  <1>4. QED
    BY <1>1, <1>2, <1>3 DEF Inv

LEMMA TruncatedKeepsInv ==
    ASSUME Inv, NEW cut \in synced..size, NEW zeros \in 0..MaxZeros, Truncated(cut, zeros)
    PROVE  Inv'
  <1> DEFINE cutOff(f) == [f EXCEPT !.have = IF @ < cut - f.offset THEN @ ELSE cut - f.offset]
             F == {cutOff(f) : f \in {g \in fragments : g.offset < cut}}
  <1>1. synced \in Nat /\ size \in Nat /\ MaxZeros \in Nat /\ fragments \subseteq Fragment
    BY FormatAssumption DEF Inv, LayoutTypes
  <1>2. cut \in Nat /\ cut + zeros \in Nat
    BY <1>1
  <1>3. \A f \in fragments : f.offset < cut =>
          /\ cutOff(f) \in Fragment
          /\ cutOff(f).offset = f.offset /\ cutOff(f).length = f.length
    BY <1>1, <1>2 DEF Fragment
  <1>4. F \subseteq Fragment
    BY <1>3
  <1>5. \A g \in F : \E f \in fragments : g.offset = f.offset /\ g.length = f.length
    BY <1>3
  <1>6. /\ fragments' = F /\ blockOffset' = blockOffset /\ adding' = adding
        /\ lengths' = lengths /\ faults' = faults /\ synced' = synced
        /\ size' \in Nat /\ phase' # "writing"
    BY <1>2 DEF Truncated, writerVars
  <1> HIDE DEF F
  <1>7. QED
    BY <1>4, <1>5, <1>6, CutKeepsLayout DEF Inv

LEMMA PagesLostKeepsInv ==
    ASSUME Inv, NEW lost \in SUBSET fragments, NEW torn \in BOOLEAN, PagesLost(lost, torn)
    PROVE  Inv'
  <1> DEFINE tear(f) == [f EXCEPT !.have = IF @ < kHeaderSize THEN @ ELSE kHeaderSize]
             F == (fragments \ lost) \cup IF torn THEN {tear(f) : f \in lost} ELSE {}
  <1>1. kHeaderSize \in Nat /\ fragments \subseteq Fragment /\ size \in Nat
    BY FormatAssumption DEF Inv, LayoutTypes
  <1>2. \A f \in fragments : /\ tear(f) \in Fragment
                             /\ tear(f).offset = f.offset /\ tear(f).length = f.length
    BY <1>1 DEF Fragment
  <1>3. F \subseteq Fragment
    BY <1>1, <1>2
  <1>4. \A g \in F : \E f \in fragments : g.offset = f.offset /\ g.length = f.length
    BY <1>2
  <1>5. /\ fragments' = F /\ blockOffset' = blockOffset /\ adding' = adding
        /\ lengths' = lengths /\ faults' = faults /\ synced' = synced
        /\ size' \in Nat /\ phase' # "writing"
    BY <1>1 DEF PagesLost, writerVars
  <1> HIDE DEF F
  <1>6. QED
    BY <1>3, <1>4, <1>5, CutKeepsLayout DEF Inv

(* The reader changes nothing in the file.                                   *)
LEMMA ReaderKeepsInv ==
    ASSUME Inv, UNCHANGED <<writerVars, fileVars>>, phase' # "writing",
           faults' = faults \/ faults' = faults + 1
    PROVE  Inv'
  <1>1. LayoutTypes'
    BY DEF Inv, LayoutTypes, writerVars, fileVars, Idle
  <1>2. Aligned'
    BY DEF Aligned
  <1>3. FitsInBlocks'
    BY DEF Inv, LayoutTypes, FitsInBlocks, fileVars
  <1>4. QED
    BY <1>1, <1>2, <1>3 DEF Inv

LEMMA InvStep ==
    ASSUME Inv, [Next]_vars
    PROVE  Inv'
  <1>1. CASE UNCHANGED vars
    BY <1>1 DEF vars, writerVars, fileVars, Inv, LayoutTypes, Aligned, FitsInBlocks, Idle
  <1>2. ASSUME NEW n \in Lengths, AddRecord(n)
        PROVE  Inv'
    <2>1. n \in Nat /\ lengths \in Seq(Nat)
      BY FormatAssumption DEF Inv, LayoutTypes
    <2>2. /\ lengths' \in Seq(Nat) /\ Len(lengths') \in DOMAIN lengths'
          /\ adding' \in [left : Nat, begin : BOOLEAN]
      BY <1>2, <2>1 DEF AddRecord
    <2>3. QED
      BY <1>2, <2>2 DEF AddRecord, fileVars, Inv, LayoutTypes, Aligned, FitsInBlocks
  <1>3. ASSUME adding # Idle,
               NEW padded \in 0..Trailer, NEW have \in 0..kHeaderSize + FragmentLength,
               NEW ok \in BOOLEAN, EmitPhysicalRecord(padded, have, ok)
        PROVE  Inv'
    BY <1>3, EmitKeepsInv
  <1>4. CASE Sync
    BY <1>4 DEF Sync, writerVars, Inv, LayoutTypes, Aligned, FitsInBlocks, Idle
  <1>5. ASSUME NEW cut \in synced..size, NEW zeros \in 0..MaxZeros, Truncated(cut, zeros)
        PROVE  Inv'
    BY <1>5, TruncatedKeepsInv
  <1>6. ASSUME NEW lost \in (SUBSET Unsynced) \ {{}}, NEW torn \in BOOLEAN, PagesLost(lost, torn)
        PROVE  Inv'
    <2>1. lost \in SUBSET fragments
      BY DEF Unsynced
    <2>2. QED
      BY <1>6, <2>1, PagesLostKeepsInv
  <1>7. ASSUME NEW initial \in InitialOffsets, OpenReader(initial)
        PROVE  Inv'
    BY <1>7, ReaderKeepsInv DEF OpenReader
  <1>8. CASE ReadRecord
    BY <1>8, ReaderKeepsInv DEF ReadRecord
  <1>9. CASE ReadFragment
    <2>1. phase = "reading" /\ (phase' = phase \/ phase' = "read")
      BY <1>9 DEF ReadFragment, Return
    <2>2. UNCHANGED <<writerVars, faults, fileVars>>
      BY <1>9 DEF ReadFragment
    <2>3. QED
      BY <2>1, <2>2, ReaderKeepsInv
  <1>10. CASE ReadError
    BY <1>10, ReaderKeepsInv DEF ReadError
  <1>11. CASE SkipError
    BY <1>11, ReaderKeepsInv DEF SkipError
  <1>12. QED
    BY <1>1, <1>2, <1>3, <1>4, <1>5, <1>6, <1>7, <1>8, <1>9, <1>10, <1>11 DEF Next

-----------------------------------------------------------------------------
(* For every block size, header size and length of records, the writer's count   *)
(* of its offset in the block is right as long as no append fails, no header    *)
(* lies in the last bytes of a block and no fragment crosses into the next.     *)
THEOREM FragmentsFit == Spec => []FitsInBlocks
  <1>1. Init => Inv
    BY FormatAssumption DEF Init, Inv, LayoutTypes, Aligned, FitsInBlocks
  <1>2. Inv /\ [Next]_vars => Inv'
    BY InvStep
  <1>3. Inv => FitsInBlocks
    BY DEF Inv
  <1>4. QED
    BY <1>1, <1>2, <1>3, PTL DEF Spec
=============================================================================
