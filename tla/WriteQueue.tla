----------------------------- MODULE WriteQueue -----------------------------
(***************************************************************************)
(* DBImpl::Write with its group commit (db/db_impl.cc): the queue writers_,   *)
(* MakeRoomForWrite, BuildBatchGroup, the append to the log and the insertion *)
(* into the memtable that the front writer does without mutex_, and the       *)
(* hand-over of the result.  Composed with the background work, which turns   *)
(* full memtables into tables.                                               *)
(*                                                                          *)
(* A batch is the number of its updates (0 is the NULL batch of               *)
(* TEST_CompactMemTable), an update is <<thread, call, index>>, and every      *)
(* update has size 1.  An entry of a memtable or a table is an update with     *)
(* its sequence number.                                                      *)
(***************************************************************************)
EXTENDS BackgroundWork, Integers, Sequences

CONSTANTS
    Threads,                   \* threads that call Write
    MaxBatch,                  \* largest batch
    MaxCalls,                  \* calls per thread
    MaxGroupSize,              \* 1 << 20 in BuildBatchGroup
    SmallSize,                 \* 128 << 10 in BuildBatchGroup
    WriteBufferSize,           \* options_.write_buffer_size
    kL0_SlowdownWritesTrigger

ASSUME WriteAssumption ==
    /\ MaxBatch \in Nat \ {0} /\ MaxCalls \in Nat
    /\ MaxGroupSize \in Nat /\ SmallSize \in Nat
    /\ WriteBufferSize \in Nat /\ kL0_SlowdownWritesTrigger \in Nat
    /\ {None, Owner} \cap Threads = {} /\ Clients \cap Threads = {}

Free == "free"

ASSUME FreeAssumption == Free \notin Threads

VARIABLES
    mutex,        \* the writer holding mutex_ between two of its steps, or Free
    writers,      \* writers_
    w,            \* w[t]: the Writer of t's call
    asleep,       \* threads blocked in w.cv.Wait()
    pc,           \* where thread t is
    loc,          \* loc[t]: the local variables of t as front writer
    lastSequence, \* versions_->LastSequence()
    log,          \* the updates of each record of the current log file
    mem,          \* the entries of mem_
    immEntries,   \* the entries of imm_
    flushed,      \* the entries of the tables
    durable,      \* updates that a Sync has covered
    calls,        \* calls[t]: number of calls t has made
    arrival,      \* the calls in the order they took their place in writers_
    acked         \* the calls that returned, with their status

queueVars == <<mutex, writers, w, asleep, pc, loc>>
dataVars == <<lastSequence, log, mem, immEntries, flushed, durable>>
ghostVars == <<calls, arrival, acked>>
writeVars == <<queueVars, dataVars, ghostVars>>
allVars == <<vars, writeVars>>

Updates == Threads \X Nat \X Nat
Entries == [seq : Nat, upd : Updates]

(* Points at which thread t holds mutex_, and points of the front writer.     *)
LockedPoints == {"room", "group", "finish"}
FrontPoints == LockedPoints \cup {"delay", "bgwait", "log", "sync", "insert",
                                 "relock"}
Points == FrontPoints \cup {"idle", "cv", "immwait"}

NoWriter == [batch |-> 0, sync |-> FALSE, done |-> FALSE, ok |-> TRUE]
NoLocals == [allowDelay |-> FALSE, force |-> FALSE, pos |-> 1, size |-> 0,
             maxSize |-> 0, upds |-> <<>>, base |-> 0, idx |-> 1, ok |-> TRUE]

WInit ==
    /\ Init
    /\ mutex = Free /\ writers = <<>> /\ asleep = {}
    /\ w = [t \in Threads |-> NoWriter]
    /\ pc = [t \in Threads |-> "idle"]
    /\ loc = [t \in Threads |-> NoLocals]
    /\ lastSequence = 0 /\ log = <<>>
    /\ mem = {} /\ immEntries = {} /\ flushed = {} /\ durable = {}
    /\ calls = [t \in Threads |-> 0] /\ arrival = <<>> /\ acked = {}

CallOf(t) == <<t, calls[t]>>
Batch(t) == [i \in 1..w[t].batch |-> <<t, calls[t], i>>]
GoTo(t, p) == pc' = [pc EXCEPT ![t] = p]
LogUpdates == UNION {{log[i][j] : j \in DOMAIN log[i]} : i \in DOMAIN log}

-----------------------------------------------------------------------------
(* Write: entering and leaving the queue.                                    *)

(* The thread is at the front: MakeRoomForWrite(my_batch == NULL) begins,     *)
(* still under mutex_.                                                       *)
BecomeFront(t, batch) ==
    /\ mutex' = t
    /\ GoTo(t, "room")
    /\ loc' = [loc EXCEPT ![t] = [NoLocals EXCEPT !.force = (batch = 0),
                                                  !.allowDelay = (batch # 0)]]

(* A call of Write, or of TEST_CompactMemTable (batch = 0).                  *)
Write(t, batch, sync) ==
    /\ mutex = Free /\ pc[t] = "idle" /\ calls[t] < MaxCalls
    /\ batch = 0 => ~sync
    /\ w' = [w EXCEPT ![t] = [batch |-> batch, sync |-> sync,
                              done |-> FALSE, ok |-> TRUE]]
    /\ writers' = Append(writers, t)
    /\ calls' = [calls EXCEPT ![t] = @ + 1]
    /\ arrival' = Append(arrival, [call |-> CallOf(t)', batch |-> batch,
                                   sync |-> sync])
    /\ IF writers = <<>>
       THEN BecomeFront(t, batch) /\ UNCHANGED asleep
       ELSE GoTo(t, "cv") /\ asleep' = asleep \cup {t} /\ UNCHANGED <<mutex, loc>>
    /\ UNCHANGED <<vars, dataVars, acked>>

(* Write returns.  TEST_CompactMemTable goes on to wait for imm_.            *)
Return(t, ok) ==
    IF w[t].batch = 0 /\ ok
    THEN GoTo(t, "immwait") /\ UNCHANGED acked
    ELSE /\ GoTo(t, "idle")
         /\ acked' = acked \cup {[call |-> CallOf(t), ok |-> ok]}

(* w.cv.Wait returns: the result is there, or t is the new front, or it        *)
(* sleeps again.                                                             *)
Wake(t) ==
    /\ mutex = Free /\ pc[t] = "cv" /\ t \notin asleep
    /\ IF w[t].done
       THEN Return(t, w[t].ok) /\ UNCHANGED <<mutex, loc, asleep>>
       ELSE IF t = Head(writers)
       THEN BecomeFront(t, w[t].batch) /\ UNCHANGED <<acked, asleep>>
       ELSE asleep' = asleep \cup {t} /\ UNCHANGED <<mutex, loc, pc, acked>>
    /\ UNCHANGED <<vars, dataVars, writers, w, calls, arrival>>

(* pthread_cond_wait may return without a signal.                            *)
SpuriousWake(t) ==
    /\ t \in asleep
    /\ asleep' = asleep \ {t}
    /\ UNCHANGED <<vars, dataVars, ghostVars, mutex, writers, w, pc, loc>>

-----------------------------------------------------------------------------
(* MakeRoomForWrite: one action per branch of its loop.                      *)

(* bg_error_ is set: the call fails with it.                                 *)
RoomError(t) ==
    /\ pc[t] = "room" /\ bgError
    /\ loc' = [loc EXCEPT ![t].ok = FALSE]
    /\ GoTo(t, "finish")
    /\ UNCHANGED <<vars, dataVars, ghostVars, mutex, writers, w, asleep>>

(* Close to the limit of level-0 files: sleep 1ms without mutex_, once.       *)
RoomDelay(t) ==
    /\ pc[t] = "room" /\ ~bgError
    /\ loc[t].allowDelay /\ l0 >= kL0_SlowdownWritesTrigger
    /\ loc' = [loc EXCEPT ![t].allowDelay = FALSE]
    /\ GoTo(t, "delay")
    /\ mutex' = Free
    /\ UNCHANGED <<vars, dataVars, ghostVars, writers, w, asleep>>

DelayElapsed(t) ==
    /\ pc[t] = "delay" /\ mutex = Free
    /\ mutex' = t
    /\ GoTo(t, "room")
    /\ UNCHANGED <<vars, dataVars, ghostVars, writers, w, asleep, loc>>

PastDelay(t) ==
    /\ pc[t] = "room" /\ ~bgError
    /\ ~(loc[t].allowDelay /\ l0 >= kL0_SlowdownWritesTrigger)

HasRoom(t) == ~loc[t].force /\ Cardinality(mem) <= WriteBufferSize

(* There is room.  A NULL batch is finished; the others start their group     *)
(* with the updates of t (BuildBatchGroup up to its loop).                   *)
RoomFound(t) ==
    /\ PastDelay(t) /\ HasRoom(t)
    /\ IF w[t].batch = 0
       THEN GoTo(t, "finish") /\ UNCHANGED loc
       ELSE /\ GoTo(t, "group")
            /\ loc' = [loc EXCEPT ![t].size = w[t].batch,
                                  ![t].maxSize = IF w[t].batch <= SmallSize
                                                 THEN w[t].batch + SmallSize
                                                 ELSE MaxGroupSize,
                                  ![t].upds = Batch(t),
                                  ![t].base = lastSequence + 1]
    /\ UNCHANGED <<vars, dataVars, ghostVars, mutex, writers, w, asleep>>

(* imm_ is still being compacted, or there are too many level-0 files.        *)
RoomWait(t) ==
    /\ PastDelay(t) /\ ~HasRoom(t)
    /\ imm \/ l0 >= kL0_StopWritesTrigger
    /\ mutex' = Free
    /\ GoTo(t, "bgwait")
    /\ sleepers' = sleepers \cup {t}
    /\ UNCHANGED <<imm, shape, bgError, scheduled, shuttingDown, manualVars,
                   bgpc, job, opc, errors, switches, dataVars, ghostVars,
                   writers, w, asleep, loc>>

RoomWakes(t) ==
    /\ pc[t] = "bgwait" /\ t \notin sleepers /\ mutex = Free
    /\ mutex' = t
    /\ GoTo(t, "room")
    /\ UNCHANGED <<vars, dataVars, ghostVars, writers, w, asleep, loc>>

(* Switch to a new log and a new memtable, or fail to create the log.         *)
RoomSwitch(t) ==
    /\ PastDelay(t) /\ ~HasRoom(t)
    /\ ~imm /\ l0 < kL0_StopWritesTrigger
    /\ \E ok \in BOOLEAN :
         /\ IOResult(ok)
         /\ IF ok
            THEN /\ imm' = TRUE /\ immEntries' = mem
                 /\ mem' = {} /\ log' = <<>>
                 /\ loc' = [loc EXCEPT ![t].force = FALSE]
                 /\ UNCHANGED <<shape, manual, pc>>
                 /\ ScheduleFromClient
            ELSE /\ loc' = [loc EXCEPT ![t].ok = FALSE]
                 /\ GoTo(t, "finish")
                 /\ UNCHANGED <<imm, shape, manual, scheduled, bgpc, immEntries,
                                mem, log>>
    /\ UNCHANGED <<bgError, shuttingDown, pieces, done, cpc, job, opc,
                   sleepers, switches, lastSequence, flushed, durable,
                   ghostVars, mutex, writers, w, asleep>>

-----------------------------------------------------------------------------
(* BuildBatchGroup: one action per iteration of its loop.                    *)

(* Mutant: a sync write may join the group of one without sync.              *)
JoinsUnsynced(t, v) ==
    w[v].batch # 0 => loc[t].size + w[v].batch <= loc[t].maxSize

(* v, which waits behind the group of t, may join it.                        *)
Joins(t, v) ==
    /\ ~(w[v].sync /\ ~w[t].sync)
    /\ w[v].batch # 0 => loc[t].size + w[v].batch <= loc[t].maxSize

(* Mutant: the updates of a follower go before those of the group.           *)
GroupGrowsInFront(t) ==
    /\ pc[t] = "group" /\ loc[t].pos < Len(writers)
    /\ LET v == writers[loc[t].pos + 1]
       IN  /\ Joins(t, v)
           /\ loc' = [loc EXCEPT ![t].pos = @ + 1,
                                 ![t].size = @ + w[v].batch,
                                 ![t].upds = Batch(v) \o @]
    /\ UNCHANGED <<vars, dataVars, ghostVars, mutex, writers, w, asleep, pc>>

GroupGrows(t) ==
    /\ pc[t] = "group" /\ loc[t].pos < Len(writers)
    /\ LET v == writers[loc[t].pos + 1]
       IN  /\ Joins(t, v)
           /\ loc' = [loc EXCEPT ![t].pos = @ + 1,
                                 ![t].size = @ + w[v].batch,
                                 ![t].upds = @ \o Batch(v)]
    /\ UNCHANGED <<vars, dataVars, ghostVars, mutex, writers, w, asleep, pc>>

(* Mutant: SetLastSequence comes before the insertion.                       *)
GroupClosedVisible(t) ==
    /\ pc[t] = "group"
    /\ loc[t].pos < Len(writers) => ~Joins(t, writers[loc[t].pos + 1])
    /\ mutex' = Free
    /\ GoTo(t, "log")
    /\ lastSequence' = loc[t].base - 1 + Len(loc[t].upds)
    /\ UNCHANGED <<vars, log, mem, immEntries, flushed, durable, ghostVars, writers,
                   w, asleep, loc>>

(* The group is complete; mutex_ is released for the log and the memtable.    *)
GroupClosed(t) ==
    /\ pc[t] = "group"
    /\ loc[t].pos < Len(writers) => ~Joins(t, writers[loc[t].pos + 1])
    /\ mutex' = Free
    /\ GoTo(t, "log")
    /\ UNCHANGED <<vars, dataVars, ghostVars, writers, w, asleep, loc>>

-----------------------------------------------------------------------------
(* The part of Write that runs without mutex_.                               *)

Fail(t) == loc' = [loc EXCEPT ![t].ok = FALSE] /\ GoTo(t, "relock")

(* WriteBatchInternal::Contents(updates).                                    *)
Contents(t) == loc[t].upds

(* log_->AddRecord.  A failed append leaves no readable record.              *)
AddRecord(t) ==
    /\ pc[t] = "log"
    /\ \E ok \in BOOLEAN :
         /\ IOResult(ok)
         /\ IF ok
            THEN /\ log' = Append(log, Contents(t))
                 /\ GoTo(t, IF w[t].sync THEN "sync" ELSE "insert")
                 /\ UNCHANGED loc
            ELSE Fail(t) /\ UNCHANGED log
    /\ UNCHANGED <<imm, shape, bgError, scheduled, shuttingDown, manualVars,
                   bgpc, job, opc, sleepers, switches, lastSequence, mem,
                   immEntries, flushed, durable, ghostVars, mutex, writers, w,
                   asleep>>

(* logfile_->Sync covers everything in the current log.                      *)
Sync(t) ==
    /\ pc[t] = "sync"
    /\ \E ok \in BOOLEAN :
         /\ IOResult(ok)
         /\ IF ok
            THEN durable' = durable \cup LogUpdates /\ GoTo(t, "insert")
                 /\ UNCHANGED loc
            ELSE Fail(t) /\ UNCHANGED durable
    /\ UNCHANGED <<imm, shape, bgError, scheduled, shuttingDown, manualVars,
                   bgpc, job, opc, sleepers, switches, lastSequence, log, mem,
                   immEntries, flushed, ghostVars, mutex, writers, w, asleep>>

(* WriteBatchInternal::InsertInto, one update per step: readers run meanwhile. *)
InsertInto(t) ==
    /\ pc[t] = "insert"
    /\ LET i == loc[t].idx
       IN  /\ mem' = mem \cup {[seq |-> loc[t].base + i - 1,
                                upd |-> loc[t].upds[i]]}
           /\ loc' = [loc EXCEPT ![t].idx = i + 1]
           /\ GoTo(t, IF i = Len(loc[t].upds) THEN "relock" ELSE "insert")
    /\ UNCHANGED <<vars, lastSequence, log, immEntries, flushed, durable,
                   ghostVars, mutex, writers, w, asleep>>

(* Mutant: the count of the front writer's own batch is added.               *)
OwnLastSequence(t) == loc[t].base - 1 + w[t].batch

(* last_sequence after the group.                                            *)
GroupLastSequence(t) == loc[t].base - 1 + Len(loc[t].upds)

(* mutex_ is taken again and SetLastSequence makes the updates visible.      *)
Relock(t) ==
    /\ pc[t] = "relock" /\ mutex = Free
    /\ mutex' = t
    /\ lastSequence' = GroupLastSequence(t)
    /\ GoTo(t, "finish")
    /\ UNCHANGED <<vars, log, mem, immEntries, flushed, durable, ghostVars,
                   writers, w, asleep, loc>>

(* Mutant: followers get no status.                                         *)
ReadyWithoutStatus(v, ok) == [w[v] EXCEPT !.done = TRUE]

(* The threads signalled when group leaves the queue and rest stays.         *)
Signalled(group, rest) == group \cup (IF rest = <<>> THEN {} ELSE {Head(rest)})

(* The Writer of a follower of the group.                                    *)
Ready(v, ok) == [w[v] EXCEPT !.done = TRUE, !.ok = ok]

(* The group leaves the queue with the status of t, the new front is woken,   *)
(* and t returns.                                                            *)
Finish(t) ==
    /\ pc[t] = "finish"
    /\ LET group == {writers[i] : i \in 1..loc[t].pos}
           rest == SubSeq(writers, loc[t].pos + 1, Len(writers))
       IN  /\ writers' = rest
           /\ w' = [v \in Threads |-> IF v \in group \ {t} THEN Ready(v, loc[t].ok)
                                      ELSE w[v]]
           /\ asleep' = asleep \ Signalled(group, rest)
    /\ mutex' = Free
    /\ Return(t, loc[t].ok)
    /\ UNCHANGED <<vars, dataVars, loc, calls, arrival>>

(* TEST_CompactMemTable after its Write: "while (imm_ != NULL && ...)".       *)
AwaitMemTable(t) ==
    /\ pc[t] = "immwait" /\ t \notin sleepers /\ mutex = Free
    /\ IF imm /\ ~bgError
       THEN sleepers' = sleepers \cup {t} /\ UNCHANGED <<pc, acked>>
       ELSE /\ GoTo(t, "idle")
            /\ acked' = acked \cup {[call |-> CallOf(t), ok |-> ~imm]}
            /\ UNCHANGED sleepers
    /\ UNCHANGED <<imm, shape, bgError, scheduled, shuttingDown, manualVars,
                   bgpc, job, opc, errors, switches, dataVars, calls, arrival,
                   mutex, writers, w, asleep, loc>>

(* A step of the background thread.  When CompactMemTable drops imm_, its      *)
(* entries are in a table that BuildTable has synced.                        *)
BackgroundStep ==
    /\ mutex = Free
    /\ Background
    /\ IF imm /\ ~imm'
       THEN /\ flushed' = flushed \cup immEntries /\ immEntries' = {}
            /\ durable' = durable \cup {e.upd : e \in immEntries}
       ELSE UNCHANGED <<flushed, immEntries, durable>>
    /\ UNCHANGED <<lastSequence, log, mem, queueVars, ghostVars>>

-----------------------------------------------------------------------------
WriterStep(t) ==
    \/ Wake(t) \/ RoomError(t) \/ RoomDelay(t) \/ DelayElapsed(t)
    \/ RoomFound(t) \/ RoomWait(t) \/ RoomWakes(t) \/ RoomSwitch(t)
    \/ GroupGrows(t) \/ GroupClosed(t) \/ AddRecord(t) \/ Sync(t)
    \/ InsertInto(t) \/ Relock(t) \/ Finish(t) \/ AwaitMemTable(t)

WNext ==
    \/ \E t \in Threads :
         \/ \E batch \in 0..MaxBatch, sync \in BOOLEAN : Write(t, batch, sync)
         \/ SpuriousWake(t)
         \/ WriterStep(t)
    \/ BackgroundStep

WSpec == WInit /\ [][WNext]_allVars

(* A thread that can run does, and so does the background thread.            *)
WFairSpec ==
    WSpec /\ WF_allVars(BackgroundStep)
          /\ \A t \in Threads : WF_allVars(WriterStep(t))

-----------------------------------------------------------------------------
WriterType == [batch : Nat, sync : BOOLEAN, done : BOOLEAN, ok : BOOLEAN]
LocalType == [allowDelay : BOOLEAN, force : BOOLEAN, pos : Nat \ {0},
              size : Nat, maxSize : Nat, upds : Seq(Updates), base : Nat,
              idx : Nat \ {0}, ok : BOOLEAN]

(* Every variable of the write path holds a value of its kind.               *)
WTypeOK ==
    /\ mutex \in Threads \cup {Free}
    /\ writers \in Seq(Threads)
    /\ w \in [Threads -> WriterType]
    /\ asleep \subseteq Threads
    /\ pc \in [Threads -> Points]
    /\ loc \in [Threads -> LocalType]
    /\ lastSequence \in Nat
    /\ log \in Seq(Seq(Updates))
    /\ mem \subseteq Entries /\ immEntries \subseteq Entries
    /\ flushed \subseteq Entries
    /\ durable \subseteq Updates
    /\ calls \in [Threads -> Nat]
    /\ arrival \in Seq([call : Threads \X Nat, batch : Nat, sync : BOOLEAN])
    /\ acked \subseteq [call : Threads \X Nat, ok : BOOLEAN]
    /\ sleepers \subseteq Threads

Stored == mem \cup immEntries \cup flushed
View(s) == {e \in Stored : e.seq <= s}
Succeeded(a) == [call |-> a.call, ok |-> TRUE] \in acked
UpdatesOf(a) == {<<a.call[1], a.call[2], i>> : i \in 1..a.batch}
Visible(u) == \E e \in Stored : e.upd = u /\ e.seq <= lastSequence
SeqOf(u) == CHOOSE s \in 1..lastSequence : [seq |-> s, upd |-> u] \in Stored

(* "&w is currently responsible for logging and protects against concurrent   *)
(* loggers and concurrent writes into mem_": only the front of writers_ is     *)
(* inside the part of Write that touches the log and the memtable, also        *)
(* across the places where it gives up mutex_.                               *)
OnlyFrontWrites ==
    \A t \in Threads : pc[t] \in FrontPoints => writers # <<>> /\ Head(writers) = t

(* No writer sleeps through its turn: one that is blocked in w.cv.Wait has     *)
(* no result yet and is not at the front (Signal at the end of Write).        *)
NoMissedTurn ==
    \A t \in asleep : pc[t] = "cv" /\ ~w[t].done /\ Head(writers) # t

(* No sequence number is given out twice, whatever failed in between.        *)
SequenceUnique ==
    \A e, f \in Stored : e.seq = f.seq => e = f

(* A reader with snapshot s sees the same entries for ever after: what it can  *)
(* see is complete when LastSequence reaches s and moves from mem_ to imm_      *)
(* to a table without a gap.                                                 *)
ReadsStable ==
    [][\A s \in 0..lastSequence : View(s)' = View(s)]_allVars

(* A batch is visible as a whole or not at all.                              *)
BatchAtomic ==
    \A i \in DOMAIN arrival :
        \/ \A u \in UpdatesOf(arrival[i]) : Visible(u)
        \/ \A u \in UpdatesOf(arrival[i]) : ~Visible(u)

(* A call that returned OK is visible; one that returned an error is not.     *)
AnswerIsTrue ==
    \A i \in DOMAIN arrival :
        \A u \in UpdatesOf(arrival[i]) :
            /\ Succeeded(arrival[i]) => Visible(u)
            /\ [call |-> arrival[i].call, ok |-> FALSE] \in acked => ~Visible(u)

(* Batches get their sequence numbers in the order in which their callers      *)
(* queued up, and the updates of a batch are consecutive: grouping never       *)
(* reorders or interleaves writes.                                           *)
QueueOrder ==
    \A i, j \in DOMAIN arrival :
        \A u \in UpdatesOf(arrival[i]), v \in UpdatesOf(arrival[j]) :
            Visible(u) /\ Visible(v) =>
                /\ i < j => SeqOf(u) < SeqOf(v)
                /\ i = j => SeqOf(v) - SeqOf(u) = v[3] - u[3]

(* A write with sync == true that returned OK is on disk, also when another    *)
(* thread wrote it ("Do not include a sync write into a batch handled by a     *)
(* non-sync write").                                                         *)
SyncedWhenAcked ==
    \A i \in DOMAIN arrival :
        arrival[i].sync /\ Succeeded(arrival[i])
            => UpdatesOf(arrival[i]) \subseteq durable

(* Write-ahead: whatever is in the memtable is in the log that recovery would  *)
(* replay for it, across log switches.                                       *)
MemTableLogged == {e.upd : e \in mem} \subseteq LogUpdates

(* Group commit is invisible: readers see whole batches, in the order in which  *)
(* the calls of Write queued up.                                             *)
BatchesInOrder == BatchAtomic /\ QueueOrder

(* The log is ahead of everything that depends on it: of the memtable, and of   *)
(* the answer to a synchronous write.                                        *)
WriteAhead == MemTableLogged /\ SyncedWhenAcked

(* Every call returns.                                                       *)
EveryCallReturns == \A t \in Threads : pc[t] # "idle" ~> pc[t] = "idle"
=============================================================================
