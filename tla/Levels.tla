-------------------------------- MODULE Levels --------------------------------
(***************************************************************************)
(* What is stored at which level: the key ranges of the tables, the choice   *)
(* of a compaction and of its inputs, the entries a compaction drops, and    *)
(* the reads of Get and of an iterator at a snapshot                         *)
(* (db/version_set.cc, db/db_impl.cc).                                       *)
(*                                                                         *)
(* An update is named by its sequence number, and updates[s] is what it      *)
(* did; a memtable and a table are sets of sequence numbers.  The size of a  *)
(* file is the number of its entries.  The background thread runs at most    *)
(* one compaction.  Its loop depends on nothing that changes while it runs,  *)
(* so its outputs are computed when it starts; job holds them until they are *)
(* installed, and memtables are written out meanwhile.                       *)
(***************************************************************************)
EXTENDS Integers, FiniteSets, Sequences, SequencesExt

CONSTANTS
    MaxKey,                     \* user keys are 1..MaxKey
    MaxUpdates,                 \* bound on the number of updates
    MaxSnapshots,               \* bound on the snapshots held at a time
    MaxErrors,                  \* bound on the number of failed compactions
    MaxManual,                  \* bound on the number of manual compactions
    ManualBounds,               \* keys that begin or end the range of one
    kNumLevels, kMaxMemCompactLevel, kL0_CompactionTrigger,
    MaxBytesForLevel1,          \* ten times more at each further level
    MaxFileSize, MaxGrandParentOverlap, ExpandedCompactionLimit

ASSUME LevelsAssumption ==
    /\ MaxKey \in Nat \ {0} /\ MaxUpdates \in Nat /\ MaxSnapshots \in Nat
    /\ MaxErrors \in Nat /\ MaxManual \in Nat /\ ManualBounds \subseteq 1..MaxKey
    /\ kMaxMemCompactLevel \in Nat /\ kMaxMemCompactLevel + 2 <= kNumLevels - 1
    /\ kL0_CompactionTrigger \in Nat \ {0} /\ MaxBytesForLevel1 \in Nat \ {0}
    /\ MaxFileSize \in Nat \ {0} /\ MaxGrandParentOverlap \in Nat
    /\ ExpandedCompactionLimit \in Nat

VARIABLES
    updates,          \* updates[s]: the key and kind of the update numbered s
    mem, imm,         \* mem_ and imm_; an empty imm stands for NULL
    files,            \* current_->files_, a set of files for each level
    nextFile,         \* next_file_number_
    compactPointer,   \* compact_pointer_, 0 for an empty one
    seekFile,         \* current_->file_to_compact_ and its level
    snapshots,        \* snapshots_
    manual,           \* the ManualCompaction of a TEST_CompactRange
    manuals,          \* number of calls of TEST_CompactRange so far
    job,              \* the Compaction in progress
    errors            \* number of failed compactions so far

vars == <<updates, mem, imm, files, nextFile, compactPointer, seekFile, snapshots,
          manual, manuals, job, errors>>

None == [level |-> -1]      \* a NULL seekFile, manual or job

Keys == 1..MaxKey
LevelSet == 0..kNumLevels - 1
LastSequence == Len(updates)
kMaxSequenceNumber == MaxUpdates + 1

(* A NULL bound of a key range.                                              *)
NoBegin == 0
NoEnd == MaxKey + 1

Key(s) == updates[s].key
IsDeletion(s) == updates[s].kind = "deletion"

(* InternalKeyComparator: user key ascending, sequence number descending.    *)
ComesBefore(k1, s1, k2, s2) == k1 < k2 \/ (k1 = k2 /\ s1 > s2)
EntryBefore(a, b) == ComesBefore(Key(a), a, Key(b), b)

Smallest(f) == CHOOSE a \in f.entries : \A b \in f.entries \ {a} : EntryBefore(a, b)
Largest(f) == CHOOSE a \in f.entries : \A b \in f.entries \ {a} : EntryBefore(b, a)
FirstKey(f) == Key(Smallest(f))
LastKey(f) == Key(Largest(f))

TotalFileSize(F) == Cardinality(UNION {f.entries : f \in F})

(* The files of a level in the order Builder::SaveTo gives them.             *)
BySmallestKey(f, g) ==
    \/ EntryBefore(Smallest(f), Smallest(g))
    \/ Smallest(f) = Smallest(g) /\ f.number < g.number
Sorted(F) == SetToSortSeq(F, BySmallestKey)

-----------------------------------------------------------------------------
(* Ranges of keys.                                                           *)

(* FindFile: the binary search for the first file whose largest key is not     *)
(* before (k, s); Len(fs) + 1 when there is none.                            *)
RECURSIVE Search(_, _, _, _, _)
Search(fs, k, s, left, right) ==
    IF left >= right THEN right
    ELSE LET mid == (left + right) \div 2
             l == Largest(fs[mid + 1])
         IN  IF ComesBefore(Key(l), l, k, s)
             THEN Search(fs, k, s, mid + 1, right)
             ELSE Search(fs, k, s, left, mid)
FindFile(fs, k, s) == Search(fs, k, s, 0, Len(fs)) + 1

Overlaps(f, begin, end) == LastKey(f) >= begin /\ FirstKey(f) <= end

(* SomeFileOverlapsRange.                                                    *)
OverlapInLevel(level, begin, end) ==
    IF level = 0
    THEN \E f \in files[0] : Overlaps(f, begin, end)
    ELSE LET fs == Sorted(files[level])
             i == FindFile(fs, begin, kMaxSequenceNumber)
         IN  i <= Len(fs) /\ FirstKey(fs[i]) <= end

(* At level 0 the range grows with each file found, until it stays the same.  *)
RECURSIVE OverlappingFiles(_, _, _)
OverlappingFiles(level, begin, end) ==
    LET found == {f \in files[level] : Overlaps(f, begin, end)}
        wider == {f \in found : FirstKey(f) < begin \/ LastKey(f) > end}
    IN  IF level > 0 \/ wider = {} THEN found
        ELSE LET f == CHOOSE g \in wider : TRUE
             IN  OverlappingFiles(0, IF FirstKey(f) < begin THEN FirstKey(f) ELSE begin,
                                     IF LastKey(f) > end THEN LastKey(f) ELSE end)

GetOverlappingInputs(level, begin, end) == OverlappingFiles(level, begin, end)

(* GetRange: the first and the last entry of some files.                      *)
RangeOf(F) == [number |-> 0, entries |-> UNION {f.entries : f \in F}]

(* Mutant: the levels are not looked at.                                      *)
DeepestMemLevel(begin, end) == kMaxMemCompactLevel

(* PickLevelForMemTableOutput: the deepest level reached from 0 through levels   *)
(* without overlap, with little overlap in the level after.                  *)
PickLevelForMemTableOutput(begin, end) ==
    LET goesTo(level) ==
            /\ ~OverlapInLevel(level, begin, end)
            /\ TotalFileSize(GetOverlappingInputs(level + 1, begin, end))
                 <= MaxGrandParentOverlap
        reached == {n \in 0..kMaxMemCompactLevel :
                      \/ n = 0
                      \/ /\ ~OverlapInLevel(0, begin, end)
                         /\ \A level \in 1..n : goesTo(level)}
    IN  CHOOSE n \in reached : \A m \in reached : m <= n

-----------------------------------------------------------------------------
(* Reads.                                                                    *)

(* The newest of some entries for k that a reader at sequence s sees; 0 when   *)
(* there is none (the seek in a memtable or a table ends at another key).     *)
Seek(entries, k, s) ==
    LET seen == {e \in entries : Key(e) = k /\ e <= s}
    IN  IF seen = {} THEN 0 ELSE CHOOSE e \in seen : \A d \in seen : d <= e

(* Mutant: the level-0 files are read from the oldest.                       *)
OldestFirst(f, g) == f.number < g.number

NewestFirst(f, g) == f.number > g.number

(* The files of one level that Version::Get looks into.                      *)
FilesToRead(level, k, s) ==
    IF level = 0
    THEN SetToSortSeq({f \in files[0] : Overlaps(f, k, k)}, NewestFirst)
    ELSE LET fs == Sorted(files[level])
             i == FindFile(fs, k, s)
         IN  IF i <= Len(fs) /\ k >= FirstKey(fs[i]) THEN <<fs[i]>> ELSE <<>>

ReadPath(k, s) ==
    FoldLeft(LAMBDA path, level :
                 path \o [i \in DOMAIN FilesToRead(level, k, s) |->
                            [level |-> level, file |-> FilesToRead(level, k, s)[i]]],
             <<>>, [i \in 1..kNumLevels |-> i - 1])

(* The position in a read path of the file that answers, Len + 1 if none does. *)
AnsweredAt(path, k, s) ==
    LET hits == {i \in DOMAIN path : Seek(path[i].file.entries, k, s) # 0}
    IN  IF hits = {} THEN Len(path) + 1 ELSE CHOOSE i \in hits : \A j \in hits : i <= j

(* What Version::Get finds, as an entry, and DBImpl::Get returns: 0 stands     *)
(* for NotFound.                                                             *)
VersionGet(k, s) ==
    LET path == ReadPath(k, s)
        i == AnsweredAt(path, k, s)
    IN  IF i > Len(path) THEN 0 ELSE Seek(path[i].file.entries, k, s)
ValueOf(e) == IF e = 0 \/ IsDeletion(e) THEN 0 ELSE e
Get(k, s) ==
    ValueOf(IF Seek(mem, k, s) # 0 THEN Seek(mem, k, s)
            ELSE IF Seek(imm, k, s) # 0 THEN Seek(imm, k, s)
            ELSE VersionGet(k, s))

Stored == mem \cup imm \cup UNION {f.entries : f \in UNION {files[l] : l \in LevelSet}}

(* The value an iterator at s shows for k: it merges everything.             *)
IteratorValue(k, s) == ValueOf(Seek(Stored, k, s))

Readable == {LastSequence} \cup snapshots

(* DBImpl::Get charges the first file it read in vain, when it had to read       *)
(* another; after enough such reads the file is to be compacted.             *)
UpdateStats(k, s) ==
    LET path == ReadPath(k, s)
    IN  /\ s \in Readable /\ Seek(mem \cup imm, k, s) = 0
        /\ Len(path) >= 2 /\ AnsweredAt(path, k, s) >= 2
        /\ seekFile = None /\ seekFile' = path[1]
        /\ UNCHANGED <<updates, mem, imm, files, nextFile, compactPointer, snapshots,
                       manual, manuals, job, errors>>

-----------------------------------------------------------------------------
(* The memtables and snapshots.                                              *)

Init ==
    /\ updates = <<>> /\ mem = {} /\ imm = {}
    /\ files = [l \in LevelSet |-> {}] /\ nextFile = 1
    /\ compactPointer = [l \in LevelSet |-> 0] /\ seekFile = None
    /\ snapshots = {} /\ manual = None /\ manuals = 0 /\ job = None /\ errors = 0

(* Put and Delete.                                                           *)
Write(k, kind) ==
    /\ LastSequence < MaxUpdates
    /\ updates' = Append(updates, [key |-> k, kind |-> kind])
    /\ mem' = mem \cup {LastSequence + 1}
    /\ UNCHANGED <<imm, files, nextFile, compactPointer, seekFile, snapshots, manual,
                   manuals, job, errors>>

(* MakeRoomForWrite makes the memtable immutable.                            *)
SwitchMemTable ==
    /\ mem # {} /\ imm = {}
    /\ imm' = mem /\ mem' = {}
    /\ UNCHANGED <<updates, files, nextFile, compactPointer, seekFile, snapshots,
                   manual, manuals, job, errors>>

(* file_to_compact_ of a new version.                                        *)
NewVersionSeekFile == None

(* CompactMemTable, called when the background thread is free and, in          *)
(* DoCompactionWork, at most once for each entry of the inputs.              *)
CompactMemTable ==
    /\ imm # {}
    /\ job # None => job.left > 0
    /\ LET f == [number |-> nextFile, entries |-> imm]
           level == PickLevelForMemTableOutput(FirstKey(f), LastKey(f))
       IN  files' = [files EXCEPT ![level] = @ \cup {f}]
    /\ nextFile' = nextFile + 1 /\ imm' = {} /\ seekFile' = NewVersionSeekFile
    /\ job' = IF job = None THEN None ELSE [job EXCEPT !.left = @ - 1]
    /\ UNCHANGED <<updates, mem, compactPointer, snapshots, manual, manuals, errors>>

GetSnapshot ==
    /\ Cardinality(snapshots) < MaxSnapshots /\ LastSequence \notin snapshots
    /\ snapshots' = snapshots \cup {LastSequence}
    /\ UNCHANGED <<updates, mem, imm, files, nextFile, compactPointer, seekFile, manual,
                   manuals, job, errors>>

ReleaseSnapshot(s) ==
    /\ s \in snapshots /\ snapshots' = snapshots \ {s}
    /\ UNCHANGED <<updates, mem, imm, files, nextFile, compactPointer, seekFile, manual,
                   manuals, job, errors>>

-----------------------------------------------------------------------------
(* The choice of a compaction.                                               *)

(* Finalize: a level's size and its limit; the level with the largest ratio    *)
(* is the next to be compacted.                                              *)
LevelSize(l) == IF l = 0 THEN Cardinality(files[0]) ELSE TotalFileSize(files[l])
LevelLimit(l) == IF l = 0 THEN kL0_CompactionTrigger
                 ELSE MaxBytesForLevel1 * 10^(l - 1)
CompactionLevel ==
    CHOOSE l \in 0..kNumLevels - 2 :
        \A m \in 0..kNumLevels - 2 \ {l} :
            LET x == LevelSize(l) * LevelLimit(m)
                y == LevelSize(m) * LevelLimit(l)
            IN  x > y \/ (x = y /\ l < m)
SizeCompaction == LevelSize(CompactionLevel) >= LevelLimit(CompactionLevel)

(* The first file after the compaction pointer, or the first one.            *)
FileToCompact(level) ==
    LET fs == Sorted(files[level])
        later == {i \in DOMAIN fs : \/ compactPointer[level] = 0
                                    \/ EntryBefore(compactPointer[level], Largest(fs[i]))}
    IN  IF later = {} THEN fs[1] ELSE fs[CHOOSE i \in later : \A j \in later : i <= j]

SetupOtherInputs(level, in0) ==
    LET over(l, F) == GetOverlappingInputs(l, FirstKey(RangeOf(F)), LastKey(RangeOf(F)))
        in1 == over(level + 1, in0)
        expanded0 == over(level, in0 \cup in1)
        expanded1 == over(level + 1, expanded0)
        grow == /\ in1 # {} /\ Cardinality(expanded0) > Cardinality(in0)
                /\ TotalFileSize(in1) + TotalFileSize(expanded0) < ExpandedCompactionLimit
                /\ Cardinality(expanded1) = Cardinality(in1)
        new0 == IF grow THEN expanded0 ELSE in0
        new1 == IF grow THEN expanded1 ELSE in1
    IN  [level |-> level, in0 |-> new0, in1 |-> new1,
         grandparents |-> IF level + 2 < kNumLevels THEN over(level + 2, new0 \cup new1)
                          ELSE {}]

(* Mutant: the other level-0 files are left behind.                          *)
PickOneFile ==
    LET level == IF SizeCompaction THEN CompactionLevel ELSE seekFile.level
    IN  SetupOtherInputs(level, {IF SizeCompaction THEN FileToCompact(level) ELSE seekFile.file})

(* PickCompaction, when there is a reason for one.                           *)
PickCompaction ==
    LET level == IF SizeCompaction THEN CompactionLevel ELSE seekFile.level
        f == IF SizeCompaction THEN FileToCompact(level) ELSE seekFile.file
    IN  SetupOtherInputs(level, IF level = 0
                                THEN GetOverlappingInputs(0, FirstKey(f), LastKey(f))
                                ELSE {f})

(* CompactRange: the files in the range; above level 0 only the first ones     *)
(* whose size reaches the limit of a file.                                   *)
ManualInputs(level, begin, end) ==
    LET fs == Sorted(GetOverlappingInputs(level, begin, end))
        upTo(i) == {fs[j] : j \in 1..i}
    IN  {fs[i] : i \in {j \in DOMAIN fs : level = 0 \/ TotalFileSize(upTo(j - 1)) < MaxFileSize}}

IsTrivialMove(c) ==
    /\ Cardinality(c.in0) = 1 /\ c.in1 = {}
    /\ TotalFileSize(c.grandparents) <= MaxGrandParentOverlap

-----------------------------------------------------------------------------
(* The work of a compaction.                                                 *)

(* Mutant: a snapshot does not keep what it needs.                           *)
NewestSnapshot == LastSequence

IsBaseLevelForKey(level, k) ==
    \A l \in level + 2..kNumLevels - 1 : \A f \in files[l] : ~Overlaps(f, k, k)

SmallestSnapshot ==
    IF snapshots = {} THEN LastSequence
    ELSE CHOOSE s \in snapshots : \A r \in snapshots : s <= r

(* One turn of the loop in DoCompactionWork.  A file is closed when it           *)
(* overlaps too much of the level after the next (ShouldStopBefore) or is      *)
(* full; an entry is dropped when a newer one hides it from every reader, or    *)
(* when it is a deletion and nothing older is left.                          *)
CompactEntry(c, w, e) ==
    LET gps == Sorted(c.grandparents)
        passed == {i \in w.gp..Len(gps) : \A j \in w.gp..i : EntryBefore(Largest(gps[j]), e)}
        overlap == w.overlap + IF w.seen THEN TotalFileSize({gps[i] : i \in passed}) ELSE 0
        stop == overlap > MaxGrandParentOverlap
        closed == IF stop /\ w.out # {} THEN Append(w.outs, w.out) ELSE w.outs
        open == IF stop THEN {} ELSE w.out
        newer == IF Key(e) = w.key THEN w.last ELSE kMaxSequenceNumber
        drop == \/ newer <= SmallestSnapshot
                \/ /\ IsDeletion(e) /\ e <= SmallestSnapshot
                   /\ IsBaseLevelForKey(c.level, Key(e))
        out == IF drop THEN open ELSE open \cup {e}
        full == ~drop /\ Cardinality(out) >= MaxFileSize
    IN  [outs |-> IF full THEN Append(closed, out) ELSE closed,
         out |-> IF full THEN {} ELSE out,
         key |-> Key(e), last |-> e, gp |-> w.gp + Cardinality(passed), seen |-> TRUE,
         overlap |-> IF stop THEN 0 ELSE overlap]

Input(c) == SetToSortSeq(UNION {f.entries : f \in c.in0 \cup c.in1}, EntryBefore)

(* The contents of the output files.                                         *)
DoCompactionWork(c) ==
    LET start == [outs |-> <<>>, out |-> {}, key |-> 0, last |-> 0, gp |-> 1,
                  seen |-> FALSE, overlap |-> 0]
        w == FoldLeft(LAMBDA v, e : CompactEntry(c, v, e), start, Input(c))
    IN  IF w.out = {} THEN w.outs ELSE Append(w.outs, w.out)

(* compact_pointer_ moves when the inputs are chosen.                         *)
MovePointer(c) == compactPointer' = [compactPointer EXCEPT ![c.level] = Largest(RangeOf(c.in0))]

StartJob(c, isManual) ==
    job' = [level |-> c.level, in0 |-> c.in0, in1 |-> c.in1, outs |-> DoCompactionWork(c),
            left |-> Len(Input(c)), isManual |-> isManual]

(* BackgroundCompaction without a manual compaction.                         *)
BeginCompaction ==
    /\ job = None /\ imm = {} /\ ~(manual # None /\ manual.posted)
    /\ SizeCompaction \/ seekFile # None
    /\ LET c == PickCompaction
       IN  /\ MovePointer(c)
           /\ IF IsTrivialMove(c)
              THEN /\ files' = [files EXCEPT ![c.level] = @ \ c.in0,
                                             ![c.level + 1] = @ \cup c.in0]
                   /\ seekFile' = NewVersionSeekFile /\ UNCHANGED job
              ELSE StartJob(c, FALSE) /\ UNCHANGED <<files, seekFile>>
    /\ UNCHANGED <<updates, mem, imm, nextFile, snapshots, manual, manuals, errors>>

(* Mutant: the range goes on behind its own end.                             *)
ManualEndOfRange(in0) == manual.end

(* The largest key of the last input file: where a manual compaction goes on.   *)
ManualEnd(in0) == LastKey(Sorted(in0)[Cardinality(in0)])

(* AddInputDeletions and the new outputs.  These are numbered here and not when  *)
(* they are opened: numbers are compared only at level 0, where none goes.     *)
FilesAfter ==
    [files EXCEPT ![job.level] = @ \ job.in0,
                  ![job.level + 1] = (@ \ job.in1) \cup
                                       {[number |-> nextFile + i - 1, entries |-> job.outs[i]] :
                                          i \in DOMAIN job.outs}]

InstallCompactionResults ==
    /\ job # None
    /\ files' = FilesAfter
    /\ nextFile' = nextFile + Len(job.outs)
    /\ seekFile' = NewVersionSeekFile /\ job' = None
    /\ IF job.isManual
       THEN manual' = [manual EXCEPT !.begin = ManualEnd(job.in0), !.posted = FALSE]
       ELSE UNCHANGED manual
    /\ UNCHANGED <<updates, mem, imm, compactPointer, snapshots, manuals, errors>>

(* The compaction fails; its outputs are garbage and a manual one ends.        *)
CompactionFails ==
    /\ job # None /\ errors < MaxErrors
    /\ errors' = errors + 1 /\ job' = None
    /\ manual' = IF job.isManual THEN None ELSE manual
    /\ UNCHANGED <<updates, mem, imm, files, nextFile, compactPointer, seekFile,
                   snapshots, manuals>>

-----------------------------------------------------------------------------
(* Manual compactions.                                                       *)

(* TEST_CompactRange is called; todo are the files it is about.              *)
TEST_CompactRange(level, begin, end) ==
    /\ manual = None /\ manuals < MaxManual /\ manuals' = manuals + 1
    /\ manual' = [level |-> level, begin |-> begin, end |-> end, posted |-> TRUE,
                  todo |-> {f.number : f \in {g \in files[level] : Overlaps(g, begin, end)}}]
    /\ UNCHANGED <<updates, mem, imm, files, nextFile, compactPointer, seekFile,
                   snapshots, job, errors>>

(* The rest of the range is asked for.                                       *)
PostAgain ==
    /\ manual # None /\ ~manual.posted
    /\ manual' = [manual EXCEPT !.posted = TRUE]
    /\ UNCHANGED <<updates, mem, imm, files, nextFile, compactPointer, seekFile,
                   snapshots, manuals, job, errors>>

(* BackgroundCompaction with a manual compaction; it is done when no file is    *)
(* left in the range.                                                        *)
BeginManual ==
    /\ job = None /\ imm = {} /\ manual # None /\ manual.posted
    /\ LET in0 == ManualInputs(manual.level, manual.begin, manual.end)
           c == SetupOtherInputs(manual.level, in0)
       IN  IF in0 = {}
           THEN manual' = None /\ UNCHANGED <<compactPointer, job>>
           ELSE MovePointer(c) /\ StartJob(c, TRUE) /\ UNCHANGED manual
    /\ UNCHANGED <<updates, mem, imm, files, nextFile, seekFile, snapshots, manuals,
                   errors>>

Next ==
    \/ \E k \in Keys, kind \in {"value", "deletion"} : Write(k, kind)
    \/ SwitchMemTable
    \/ CompactMemTable
    \/ GetSnapshot
    \/ \E s \in snapshots : ReleaseSnapshot(s)
    \/ \E k \in Keys, s \in Readable : UpdateStats(k, s)
    \/ BeginCompaction
    \/ InstallCompactionResults
    \/ CompactionFails
    \/ \E level \in 0..kNumLevels - 2, begin \in {NoBegin} \cup ManualBounds,
          end \in ManualBounds \cup {NoEnd} : TEST_CompactRange(level, begin, end)
    \/ PostAgain
    \/ BeginManual

Spec == Init /\ [][Next]_vars

-----------------------------------------------------------------------------
(* Properties.                                                               *)

(* "files in other levels have distinct non-overlapping key ranges"            *)
(* (doc/impl.html): what Builder::SaveTo asserts for each new version.          *)
LevelsDisjoint ==
    \A l \in LevelSet \ {0} :
        LET fs == Sorted(files[l])
        IN  \A i \in 1..Len(fs) - 1 : EntryBefore(Largest(fs[i]), Smallest(fs[i + 1]))

(* The answer according to the updates alone.                                *)
Truth(k, s) == ValueOf(Seek(1..LastSequence, k, s))

(* Get returns the newest value at the latest state and at every snapshot,     *)
(* whatever was dropped, moved or split on the way.                          *)
GetIsRight == \A k \in Keys, s \in Readable : Get(k, s) = Truth(k, s)

(* An iterator at the latest state or at a snapshot shows what was true there:   *)
(* compactions drop nothing it needs.                                        *)
IteratorIsRight == \A k \in Keys, s \in Readable : IteratorValue(k, s) = Truth(k, s)

(* "entries never hop across levels": for each user key what is nearer to the    *)
(* memtable is newer, on which the order of search in Get relies.            *)
NewerAbove ==
    LET newer(A, B) == \A a \in A, b \in B : Key(a) = Key(b) => a > b
        all(l) == UNION {f.entries : f \in files[l]}
    IN  /\ newer(mem, imm)
        /\ \A l \in LevelSet : newer(mem \cup imm, all(l))
        /\ \A f, g \in files[0] : f.number > g.number => newer(f.entries, g.entries)
        /\ \A l, m \in LevelSet : l < m => newer(all(l), all(m))

(* The file charged with seeks is still in the current version when it is       *)
(* compacted, and there is a level below it (asserted by Compaction).         *)
SeekFileCompactable ==
    seekFile # None => /\ seekFile.file \in files[seekFile.level]
                       /\ seekFile.level + 1 < kNumLevels

(* The current version is sound: what Builder::SaveTo and Compaction assert     *)
(* of it, and what the order of search in Get rests on.                      *)
VersionSound == LevelsDisjoint /\ NewerAbove /\ SeekFileCompactable

(* When TEST_CompactRange returns without an error, every file of its level     *)
(* that overlapped its range when it was called has been compacted.          *)
ManualCovers ==
    [][manual # None /\ manual' = None /\ errors' = errors
         => \A f \in files'[manual.level] : f.number \notin manual.todo]_vars
=============================================================================
