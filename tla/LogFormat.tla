------------------------------ MODULE LogFormat ------------------------------
(***************************************************************************)
(* The log file: Writer::AddRecord cuts records into fragments that fit into   *)
(* blocks (db/log_writer.cc), Reader::ReadRecord puts them together again      *)
(* (db/log_reader.cc).                                                       *)
(*                                                                         *)
(* The file is the set of fragments in it, each with the number of its bytes   *)
(* that are there; all other bytes below size are zero.  A checksum never      *)
(* matches by accident.  A machine that dies keeps what was synced and any     *)
(* part of the rest.                                                         *)
(***************************************************************************)
EXTENDS Integers, Sequences, FiniteSets

CONSTANTS
    kBlockSize, kHeaderSize,
    Lengths,                    \* the lengths a record may have
    MaxRecords,                 \* bound on the number of records
    Faults,                     \* what may fail: "append", "read"
    MaxFaults,                  \* bound on the number of failures
    MaxZeros,                   \* bound on the zeros behind the data of a log
    InitialOffsets              \* where readers start

ASSUME FormatAssumption ==
    /\ kHeaderSize \in Nat \ {0} /\ kBlockSize \in Nat /\ kBlockSize >= kHeaderSize
    /\ Lengths \subseteq Nat /\ InitialOffsets \subseteq Nat
    /\ MaxRecords \in Nat /\ MaxFaults \in Nat /\ MaxZeros \in Nat

VARIABLES
    phase,          \* "writing", "closed", "reading" or "read"
    blockOffset,    \* Writer::block_offset_
    lengths,        \* the lengths of the records added so far
    adding,         \* the AddRecord in progress: bytes left and whether at its begin
    acked,          \* records whose AddRecord returned OK
    synced,         \* size of the file at its last Sync
    faults,         \* number of failures so far
    fragments,      \* what is in the file
    size,           \* size of the file
    reader,         \* the members of Reader and the variables of ReadRecord
    returned,       \* what ReadRecord returned
    reported        \* whether the Reporter was told of a corruption

writerVars == <<blockOffset, lengths, adding, acked>>
fileVars == <<synced, fragments, size>>
readerVars == <<reader, returned, reported>>
vars == <<phase, writerVars, faults, fileVars, readerVars>>

-----------------------------------------------------------------------------
(* The writer.                                                               *)

Idle == [left |-> -1, begin |-> FALSE]
NoReader == [initial |-> -1]

Init ==
    /\ phase = "writing" /\ blockOffset = 0 /\ lengths = <<>> /\ adding = Idle
    /\ acked = {} /\ synced = 0 /\ faults = 0 /\ fragments = {} /\ size = 0
    /\ reader = NoReader /\ returned = <<>> /\ reported = FALSE

AddRecord(n) ==
    /\ phase = "writing" /\ adding = Idle /\ Len(lengths) < MaxRecords
    /\ lengths' = Append(lengths, n) /\ adding' = [left |-> n, begin |-> TRUE]
    /\ UNCHANGED <<phase, blockOffset, acked, faults, fileVars, readerVars>>

(* The bytes that fill up a block with no room for a header.                  *)
Trailer == IF kBlockSize - blockOffset < kHeaderSize THEN kBlockSize - blockOffset ELSE 0

(* Where the next fragment begins, by the writer's count.                     *)
NextOffset == IF kBlockSize - blockOffset < kHeaderSize THEN 0 ELSE blockOffset

FragmentLength ==
    LET avail == kBlockSize - NextOffset - kHeaderSize
    IN  IF adding.left < avail THEN adding.left ELSE avail

RecordType(begin, end) ==
    CASE begin /\ end -> "full"
      [] begin /\ ~end -> "first"
      [] ~begin /\ end -> "last"
      [] OTHER -> "middle"

(* One turn of the loop of AddRecord: the trailer, whose status is ignored, and  *)
(* EmitPhysicalRecord.  padded and have are the bytes the file takes of them.   *)
EmitPhysicalRecord(padded, have, ok) ==
    LET n == FragmentLength
        offset == size + padded
        f == [offset |-> offset, have |-> have, length |-> n, record |-> Len(lengths),
              from |-> lengths[Len(lengths)] - adding.left,
              type |-> RecordType(adding.begin, adding.left = n)]
    IN  /\ phase = "writing" /\ adding # Idle
        /\ ok => have = kHeaderSize + n
        /\ faults' = faults + (IF padded < Trailer THEN 1 ELSE 0) + (IF ok THEN 0 ELSE 1)
        /\ faults' <= IF "append" \in Faults THEN MaxFaults ELSE faults
        /\ fragments' = IF have = 0 THEN fragments ELSE fragments \cup {f}
        /\ size' = offset + have
        /\ blockOffset' = NextOffset + kHeaderSize + n
        /\ adding' = IF ok /\ adding.left > n THEN [left |-> adding.left - n, begin |-> FALSE]
                     ELSE Idle
        /\ acked' = IF ok /\ adding.left = n THEN acked \cup {Len(lengths)} ELSE acked
        /\ UNCHANGED <<phase, lengths, synced, readerVars>>

Sync ==
    /\ phase = "writing" /\ adding = Idle /\ synced # size
    /\ synced' = size
    /\ UNCHANGED <<phase, writerVars, faults, fragments, size, readerVars>>

-----------------------------------------------------------------------------
(* The end of the writer.                                                    *)

(* The log is closed, or its process or machine dies: the file ends anywhere     *)
(* behind what was synced, and the rest of the region that PosixMmapFile had    *)
(* mapped, a number of whole blocks, may be there as zeros.                   *)
Truncated(cut, zeros) ==
    /\ zeros = 0 \/ (cut + zeros) % kBlockSize = 0
    /\ phase = "writing" /\ phase' = "closed"
    /\ fragments' = {[f EXCEPT !.have = IF @ < cut - f.offset THEN @ ELSE cut - f.offset] :
                       f \in {g \in fragments : g.offset < cut}}
    /\ size' = cut + zeros
    /\ UNCHANGED <<writerVars, faults, synced, readerVars>>

(* The machine dies and some pages that were not synced never reach the disk:    *)
(* fragments are zero from their first byte, or behind their header.          *)
PagesLost(lost, torn) ==
    /\ phase = "writing" /\ phase' = "closed"
    /\ fragments' = (fragments \ lost)
                      \cup IF torn THEN {[f EXCEPT !.have = IF @ < kHeaderSize THEN @ ELSE kHeaderSize] :
                                           f \in lost} ELSE {}
    /\ UNCHANGED <<writerVars, faults, synced, size, readerVars>>

Unsynced == {f \in fragments : f.offset + f.have > synced}

-----------------------------------------------------------------------------
(* The reader.  reader.end is end_of_buffer_offset_, reader.buffered the size of *)
(* buffer_ and reader.at the position of the file.                          *)

OpenReader(initial) ==
    /\ phase = "closed" /\ phase' = "reading"
    /\ reader' = [initial |-> initial, at |-> 0, end |-> 0, buffered |-> 0, eof |-> FALSE,
                  last |-> 0, calling |-> FALSE, inFragment |-> FALSE, scratch |-> <<>>,
                  prospective |-> 0]
    /\ UNCHANGED <<writerVars, faults, fileVars, returned, reported>>

(* ReportDrop, with its unsigned subtraction.                                *)
Reports(r, bytes) ==
    LET first == r.end - r.buffered - bytes IN first < 0 \/ first >= r.initial

(* SkipToInitialBlock: where the reader begins to look.                       *)
InitialBlock(initial) ==
    LET inBlock == initial % kBlockSize
    IN  IF inBlock > kBlockSize - (kHeaderSize - 1) THEN initial - inBlock + kBlockSize
        ELSE initial - inBlock

(* ReadRecord is called.  It skips again for as long as the last record it        *)
(* returned lies below the initial offset.                                    *)
ReadRecord ==
    /\ phase = "reading" /\ ~reader.calling
    /\ LET r == [reader EXCEPT !.calling = TRUE, !.inFragment = FALSE, !.scratch = <<>>,
                               !.prospective = 0]
       IN  reader' = IF reader.last < reader.initial
                     THEN [r EXCEPT !.end = InitialBlock(reader.initial),
                                    !.at = @ + InitialBlock(reader.initial)]
                     ELSE r
    /\ UNCHANGED <<phase, writerVars, faults, fileVars, returned, reported>>

(* The Skip of SkipToInitialBlock fails.                                     *)
SkipError ==
    /\ phase = "reading" /\ ~reader.calling /\ reader.last < reader.initial
    /\ InitialBlock(reader.initial) > 0
    /\ "read" \in Faults /\ faults < MaxFaults /\ faults' = faults + 1 /\ phase' = "read"
    /\ LET r == [reader EXCEPT !.end = InitialBlock(reader.initial)]
       IN  /\ reader' = r
           /\ reported' = (reported \/ Reports(r, r.end))
    /\ UNCHANGED <<writerVars, fileVars, returned>>

Bytes(f) == [i \in 1..f.length |-> [record |-> f.record, index |-> f.from + i]]

(* The next block is read when the buffer has no header any more.             *)
Filled(r) ==
    LET n == IF r.at >= size THEN 0 ELSE IF size - r.at < kBlockSize THEN size - r.at ELSE kBlockSize
    IN  IF r.buffered >= kHeaderSize \/ r.eof THEN r
        ELSE [r EXCEPT !.buffered = n, !.at = @ + n, !.end = @ + n, !.eof = n < kBlockSize]

(* Mutant: a fragment at the initial offset is skipped.                       *)
SkippedAt(start, initial) == start <= initial

BeforeInitial(start, initial) == start < initial

(* Mutant: a damaged fragment stays in the buffer.                           *)
NotDropped(r) == [type |-> "bad", buffered |-> r.buffered, drop |-> r.buffered]

(* The rest of the block is given up, since the length itself may be damaged.   *)
Dropped(r) == [type |-> "bad", buffered |-> 0, drop |-> r.buffered]

(* ReadPhysicalRecord, once the buffer is filled: its result, the size of the    *)
(* buffer after it and the bytes it reports as dropped (0 for none).           *)
PhysicalRecords(r) ==
    LET start == r.at - r.buffered
        atStart == {f \in fragments : f.offset = start /\ f.have >= kHeaderSize}
        touching == {f \in fragments : /\ f.offset < start + kHeaderSize
                                       /\ f.offset + f.have > start}
        parse(f) ==
            IF kHeaderSize + f.length > r.buffered \/ f.have < kHeaderSize + f.length
            THEN Dropped(r)
            ELSE [type |-> IF BeforeInitial(r.end - r.buffered, r.initial) THEN "bad" ELSE f.type,
                  buffered |-> r.buffered - kHeaderSize - f.length, drop |-> 0, data |-> Bytes(f)]
    IN  IF r.buffered < kHeaderSize
        THEN {[type |-> "eof", buffered |-> 0, drop |-> r.buffered]}
        ELSE IF atStart # {} THEN {parse(f) : f \in atStart}
        ELSE IF touching = {} THEN {[Dropped(r) EXCEPT !.drop = 0]}     \* kZeroType
        ELSE {Dropped(r), [Dropped(r) EXCEPT !.drop = 0]}

(* Mutant: a damaged fragment does not end the record it was part of.          *)
AfterBadKept(r) == r

(* The case kBadRecord of ReadRecord.                                        *)
AfterBad(r) == IF r.inFragment THEN [r EXCEPT !.inFragment = FALSE, !.scratch = <<>>] ELSE r

Return(r, data, offset) ==
    /\ reader' = [r EXCEPT !.calling = FALSE, !.last = offset]
    /\ returned' = Append(returned, [data |-> data, offset |-> offset])
    /\ UNCHANGED phase

(* One turn of the loop of ReadRecord.                                       *)
ReadFragment ==
    /\ phase = "reading" /\ reader.calling
    /\ LET offset == reader.end - reader.buffered
           filled == Filled(reader)
       IN  \E p \in PhysicalRecords(filled) :
             LET r == [filled EXCEPT !.buffered = p.buffered]
                 partial == r.inFragment /\ r.scratch # <<>>
                 told(bytes) == bytes > 0 /\ Reports(r, bytes)
                 goOn == UNCHANGED <<phase, returned>>
             IN  \/ /\ p.type = "full"
                    /\ Return(r, p.data, offset)
                    /\ reported' = (reported \/ (partial /\ told(Len(r.scratch))))
                 \/ /\ p.type = "first" /\ goOn
                    /\ reader' = [r EXCEPT !.inFragment = TRUE, !.scratch = p.data,
                                           !.prospective = offset]
                    /\ reported' = (reported \/ (partial /\ told(Len(r.scratch))))
                 \/ /\ p.type = "middle" /\ goOn
                    /\ reader' = IF r.inFragment THEN [r EXCEPT !.scratch = @ \o p.data] ELSE r
                    /\ reported' = (reported \/ (~r.inFragment /\ Reports(r, Len(p.data))))
                 \/ /\ p.type = "last" /\ r.inFragment
                    /\ Return(r, r.scratch \o p.data, r.prospective)
                    /\ UNCHANGED reported
                 \/ /\ p.type = "last" /\ ~r.inFragment /\ goOn
                    /\ reader' = r
                    /\ reported' = (reported \/ Reports(r, Len(p.data)))
                 \/ /\ p.type = "eof"
                    /\ phase' = "read" /\ reader' = r /\ UNCHANGED returned
                    /\ reported' = \/ reported \/ told(p.drop)
                                   \/ r.inFragment /\ Reports(r, Len(r.scratch))
                 \/ /\ p.type = "bad" /\ goOn
                    /\ reader' = AfterBad(r)
                    /\ reported' = \/ reported \/ told(p.drop)
                                   \/ r.inFragment /\ Reports(r, Len(r.scratch))
    /\ UNCHANGED <<writerVars, faults, fileVars>>

(* The read of a block fails: the rest of the file is given up.                *)
ReadError ==
    /\ phase = "reading" /\ reader.calling /\ reader.buffered < kHeaderSize /\ ~reader.eof
    /\ "read" \in Faults /\ faults < MaxFaults /\ faults' = faults + 1 /\ phase' = "read"
    /\ LET r == [reader EXCEPT !.eof = TRUE, !.buffered = 0]
       IN  /\ reader' = r
           /\ reported' = \/ reported \/ Reports(r, kBlockSize)
                          \/ r.inFragment /\ Reports(r, Len(r.scratch))
    /\ UNCHANGED <<writerVars, fileVars, returned>>

-----------------------------------------------------------------------------
Next ==
    \/ \E n \in Lengths : AddRecord(n)
    \/ /\ adding # Idle
       /\ \E padded \in 0..Trailer, have \in 0..kHeaderSize + FragmentLength, ok \in BOOLEAN :
            EmitPhysicalRecord(padded, have, ok)
    \/ Sync
    \/ \E cut \in synced..size, zeros \in 0..MaxZeros : Truncated(cut, zeros)
    \/ \E lost \in (SUBSET Unsynced) \ {{}}, torn \in BOOLEAN : PagesLost(lost, torn)
    \/ \E initial \in InitialOffsets : OpenReader(initial)
    \/ ReadRecord
    \/ SkipError
    \/ ReadFragment
    \/ ReadError

Spec == Init /\ [][Next]_vars
FairSpec == Spec /\ WF_vars(ReadRecord) /\ WF_vars(ReadFragment)

-----------------------------------------------------------------------------
(* Properties.                                                               *)

(* "A record never starts within the last six bytes of a block" and no fragment  *)
(* lies across two blocks (doc/log_format.txt), whatever the lengths of the     *)
(* records: the reader finds the next fragment at the start of any block.      *)
FitsInBlocks ==
    faults = 0 =>
        \A f \in fragments : \E b \in 0..f.offset :
            /\ b * kBlockSize <= f.offset
            /\ f.offset + kHeaderSize + f.length <= (b + 1) * kBlockSize

Whole(r) == [i \in 1..lengths[r] |-> [record |-> r, index |-> i]]
FirstFragment(r) == {f \in fragments : f.record = r /\ f.type \in {"full", "first"}}
StartsBehind(r, initial) == \E f \in FirstFragment(r) : f.offset >= initial

(* ReadRecord returns only records that were added, each as a whole, at most     *)
(* once, in the order they were added and from the initial offset on: it joins  *)
(* no fragments of different records, whatever was lost, torn or failed.       *)
OnlyWholeRecords ==
    phase \in {"reading", "read"} =>
        \E S \in SUBSET {r \in DOMAIN lengths : StartsBehind(r, reader.initial)} :
            /\ Cardinality(S) = Len(returned)
            /\ \A r \in S : LET i == Cardinality({q \in S : q <= r})
                            IN  returned[i].data = Whole(r)

(* Records that were synced are returned, whatever happens to the bytes behind   *)
(* them and wherever the reader starts, if no operation on the file failed.     *)
SyncedAreRead ==
    phase = "read" /\ faults = 0 =>
        \A r \in acked :
            /\ StartsBehind(r, reader.initial)
            /\ \A f \in fragments : f.record = r => f.offset + f.have <= synced
            => \E i \in DOMAIN returned : returned[i].data = Whole(r)

(* Nothing is reported to the Reporter about a log that is complete, with or     *)
(* without zeros behind it.                                                  *)
CleanIsSilent ==
    /\ phase \in {"reading", "read"} /\ faults = 0 /\ reader.initial = 0
    /\ acked = DOMAIN lengths
    /\ \A f \in fragments : f.have = kHeaderSize + f.length
    /\ \A r \in acked :
         /\ StartsBehind(r, 0)
         /\ UNION {f.from..f.from + f.length : f \in {g \in fragments : g.record = r}}
              = 0..lengths[r]
    => ~reported

(* A reader gives back what a good log holds, and complains of nothing.       *)
GoodLogRead == SyncedAreRead /\ CleanIsSilent

(* Reading a log comes to an end, whatever is in it.                          *)
ReadingEnds == phase = "reading" ~> phase = "read"

=============================================================================
