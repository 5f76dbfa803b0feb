------------------------------ MODULE Recovery ------------------------------
(***************************************************************************)
(* The files of a LevelDB database and what a crash leaves of them: the log,  *)
(* the memtables it backs, the tables they become, the MANIFEST that names     *)
(* the tables, CURRENT that names the MANIFEST, the garbage collection of all  *)
(* of them, and the recovery of DB::Open (db/db_impl.cc, db/version_set.cc).   *)
(*                                                                          *)
(* The queue of writers is a single writer here (module WriteQueue), the       *)
(* levels of the tables are a set of files, and a MANIFEST is the state that   *)
(* replaying its records yields.  A log is the set of its records.            *)
(***************************************************************************)
EXTENDS Naturals, FiniteSets

CONSTANTS
    MaxNumber,    \* bound on file numbers
    MaxWrites,    \* bound on the number of writes
    MaxCrashes,   \* bound on the number of crashes
    CrashKinds,   \* subset of {"process", "machine"}
    Faults,       \* operations that may fail
    MaxFaults     \* bound on the number of failures

ASSUME RecoveryAssumption ==
    /\ MaxNumber \in Nat /\ MaxWrites \in Nat /\ MaxCrashes \in Nat
    /\ MaxFaults \in Nat
    /\ CrashKinds \subseteq {"process", "machine"}
    /\ Faults \subseteq {"append", "sync", "table", "replay", "edit", "editsync"}

Numbers == 1..MaxNumber
Writes == [id : 1..MaxWrites, seq : Nat \ {0}]

(* The state that a MANIFEST describes.  next = 0: the file holds no record.  *)
NoDescriptor == [files |-> {}, log |-> 0, next |-> 0, last |-> 0]

VARIABLES
    \* The disk.
    logs, logData, logSynced,   \* log files, their records, the synced records
    tables, tableData,          \* table files and their contents
    manifests, manData, manSynced,  \* descriptor files, likewise
    current,                    \* the number in CURRENT, 0 if it is missing
    \* The process.
    phase,                      \* where DB::Open is, "open" or "down"
    vs,                         \* VersionSet
    edit,                       \* the VersionEdit of DB::Open
    todo, replayOk, maxSeq,     \* logs, s and max_sequence of DBImpl::Recover
    logfile, mem, imm, hasImm,  \* logfile_number_, mem_, imm_, imm_ != NULL
    pending,                    \* pending_outputs_
    pinned,                     \* files of the versions that readers hold
    wr,                         \* the writer at the front of writers_
    mt,                         \* CompactMemTable
    mj,                         \* the major compaction
    \* History.
    issued, acked, syncAcked,   \* writes so far; promised to survive
    failed,                     \* in the log, but their Write returned an error
    crashes, faults

diskVars == <<logs, logData, logSynced, tables, tableData, manifests, manData,
              manSynced, current>>
openVars == <<edit, todo, replayOk, maxSeq>>
memVars == <<logfile, mem, imm, hasImm>>
bgVars == <<pending, mt, mj>>
ghostVars == <<issued, acked, syncAcked, failed, crashes>>
vars == <<diskVars, phase, vs, openVars, memVars, bgVars, pinned, wr, ghostVars,
          faults>>

NoEdit == [add |-> {}, del |-> {}, log |-> 0, next |-> 0, last |-> 0]
NoVersions == [files |-> {}, log |-> 0, next |-> 2, last |-> 0, manifest |-> 0]
NoWrite == [pc |-> "none", w |-> [id |-> 0, seq |-> 0], sync |-> FALSE]
NoJob == [pc |-> "idle", num |-> 0, ins |-> {}, base |-> {}, edit |-> NoEdit]

Init ==
    /\ logs = {} /\ logData = [n \in Numbers |-> {}]
    /\ logSynced = [n \in Numbers |-> {}]
    /\ tables = {} /\ tableData = [n \in Numbers |-> {}]
    /\ manifests = {} /\ manData = [n \in Numbers |-> NoDescriptor]
    /\ manSynced = [n \in Numbers |-> NoDescriptor]
    /\ current = 0
    /\ phase = "down" /\ vs = NoVersions
    /\ edit = NoEdit /\ todo = {} /\ replayOk = TRUE /\ maxSeq = 0
    /\ logfile = 0 /\ mem = {} /\ imm = {} /\ hasImm = FALSE
    /\ pending = {} /\ pinned = {} /\ wr = NoWrite /\ mt = NoJob /\ mj = NoJob
    /\ issued = 0 /\ acked = {} /\ syncAcked = {} /\ failed = {}
    /\ crashes = 0 /\ faults = 0

-----------------------------------------------------------------------------
(* Shared pieces.                                                            *)

Maximum(a, b) == IF a >= b THEN a ELSE b

(* An operation of this kind succeeds or fails.                              *)
Outcome(kind, ok) ==
    IF ok THEN UNCHANGED faults
    ELSE kind \in Faults /\ faults < MaxFaults /\ faults' = faults + 1

(* VersionSet::NewFileNumber has room for one more (a bound of the model).    *)
CanAllocate == vs.next <= MaxNumber

(* Mutant: the number is not counted.                                        *)
SameFileNumber == vs

(* VersionSet::NewFileNumber: the VersionSet after vs.next was given out.     *)
NewFileNumber == [vs EXCEPT !.next = @ + 1]

(* VersionSet::Builder: an edit applied to a descriptor or version.          *)
Apply(d, e) == [files |-> (d.files \ e.del) \cup e.add, log |-> e.log,
                next |-> e.next, last |-> e.last]

(* What recovery reads from the disk for this descriptor and these logs.      *)
Readable(d, data) ==
    (UNION {tableData[f] : f \in d.files \cap tables})
        \cup (UNION {data[n] : n \in {m \in logs : m >= d.log}})

(* VersionSet::AddLiveFiles: the tables of every version still referenced.    *)
AddLiveFiles(v, pins) == v.files \cup UNION pins

(* Mutant: pending_outputs_ is not consulted.                                *)
DeleteOutputsToo(v, outs, pins) ==
    LET live == AddLiveFiles(v, pins)
    IN  /\ \E gone \in SUBSET {n \in logs : n < v.log} : logs' = logs \ gone
        /\ \E gone \in SUBSET (tables \ live) : tables' = tables \ gone
        /\ \E gone \in SUBSET {m \in manifests : m < v.manifest} :
             manifests' = manifests \ gone

(* DBImpl::DeleteObsoleteFiles once v is the VersionSet and outs is            *)
(* pending_outputs_.  Errors of DeleteFile are ignored and a crash may         *)
(* interrupt it, so any part of what is obsolete goes.                       *)
DeleteObsoleteFiles(v, outs, pins) ==
    LET live == outs \cup AddLiveFiles(v, pins)
    IN  /\ \E gone \in SUBSET {n \in logs : n < v.log} : logs' = logs \ gone
        /\ \E gone \in SUBSET (tables \ live) : tables' = tables \ gone
        /\ \E gone \in SUBSET {m \in manifests : m < v.manifest} :
             manifests' = manifests \ gone

-----------------------------------------------------------------------------
(* DBImpl::Write by the thread at the front of the queue, and                 *)
(* MakeRoomForWrite.                                                         *)

Open == phase = "open"

(* The sequence number of a batch, and what follows its append.              *)
BatchSequence == vs.last + 1
AfterAppend(sync) == IF sync THEN "sync" ELSE "insert"

(* log_->AddRecord.  An error leaves the sequence number used.               *)
AddRecord ==
    /\ Open /\ wr = NoWrite /\ issued < MaxWrites
    /\ issued' = issued + 1
    /\ \E sync \in BOOLEAN, ok \in BOOLEAN :
         LET w == [id |-> issued + 1, seq |-> BatchSequence]
         IN  /\ Outcome("append", ok)
             /\ IF ok
                THEN /\ logData' = [logData EXCEPT ![logfile] = @ \cup {w}]
                     /\ wr' = [pc |-> AfterAppend(sync), w |-> w, sync |-> sync]
                     /\ UNCHANGED vs
                ELSE /\ vs' = [vs EXCEPT !.last = BatchSequence]
                     /\ UNCHANGED <<logData, wr>>
    /\ UNCHANGED <<logs, logSynced, tables, tableData, manifests, manData,
                   manSynced, current, phase, openVars, memVars, bgVars, pinned,
                   acked, syncAcked, failed, crashes>>

(* logfile_->Sync.                                                           *)
SyncLog ==
    /\ Open /\ wr.pc = "sync"
    /\ \E ok \in BOOLEAN :
         /\ Outcome("sync", ok)
         /\ IF ok
            THEN /\ logSynced' = [logSynced EXCEPT ![logfile] = logData[logfile]]
                 /\ wr' = [wr EXCEPT !.pc = "insert"]
                 /\ UNCHANGED <<vs, failed>>
            ELSE /\ vs' = [vs EXCEPT !.last = wr.w.seq]
                 /\ wr' = NoWrite
                 /\ failed' = failed \cup {wr.w}
                 /\ UNCHANGED logSynced
    /\ UNCHANGED <<logs, logData, tables, tableData, manifests, manData, manSynced,
                   current, phase, openVars, memVars, bgVars, pinned, issued, acked,
                   syncAcked, crashes>>

(* InsertInto, SetLastSequence and the return of Write.                      *)
InsertInto ==
    /\ Open /\ wr.pc = "insert"
    /\ mem' = mem \cup {wr.w}
    /\ vs' = [vs EXCEPT !.last = wr.w.seq]
    /\ acked' = acked \cup {wr.w}
    /\ syncAcked' = IF wr.sync THEN syncAcked \cup {wr.w} ELSE syncAcked
    /\ wr' = NoWrite
    /\ UNCHANGED <<diskVars, phase, openVars, logfile, imm, hasImm, bgVars, pinned,
                   issued, failed, crashes, faults>>

(* The last branch of MakeRoomForWrite: a new log and a new memtable.        *)
SwitchMemTable ==
    /\ Open /\ wr = NoWrite /\ ~hasImm /\ CanAllocate
    /\ logs' = logs \cup {vs.next}
    /\ logData' = [logData EXCEPT ![vs.next] = {}]
    /\ logSynced' = [logSynced EXCEPT ![vs.next] = {}]
    /\ logfile' = vs.next
    /\ vs' = NewFileNumber
    /\ imm' = mem /\ hasImm' = TRUE /\ mem' = {}
    /\ UNCHANGED <<tables, tableData, manifests, manData, manSynced, current, phase,
                   openVars, bgVars, pinned, wr, ghostVars, faults>>

(* NewInternalIterator references the current version; its cleanup releases  *)
(* it.                                                                       *)
PinVersion ==
    /\ Open /\ pinned = {} /\ vs.files # {}
    /\ pinned' = {vs.files}
    /\ UNCHANGED <<diskVars, phase, vs, openVars, memVars, bgVars, wr, ghostVars,
                   faults>>

UnpinVersion ==
    /\ Open /\ pinned # {}
    /\ pinned' = {}
    /\ UNCHANGED <<diskVars, phase, vs, openVars, memVars, bgVars, wr, ghostVars,
                   faults>>

-----------------------------------------------------------------------------
(* VersionSet::LogAndApply once the database is open, in the steps it takes   *)
(* without the mutex.                                                        *)

(* Mutant: every edit moves the log number to the current log.               *)
CompletedWithLogFile(add, del, log) ==
    [add |-> add, del |-> del, log |-> logfile, next |-> vs.next, last |-> vs.last]

(* The fields that LogAndApply adds to an edit under the mutex.              *)
Completed(add, del, log) ==
    [add |-> add, del |-> del, log |-> log, next |-> vs.next, last |-> vs.last]

(* descriptor_log_->AddRecord.                                               *)
AppendEdit(e) ==
    manData' = [manData EXCEPT ![vs.manifest] = Apply(@, e)]

(* Mutant: the MANIFEST is not synced.                                       *)
SkipSyncEdit(ok) == ok /\ UNCHANGED <<faults, manSynced>>

(* descriptor_file_->Sync.  When it fails, ManifestContains finds the record   *)
(* that AddRecord wrote and the error is dropped.                            *)
SyncEdit(ok) ==
    /\ Outcome("editsync", ok)
    /\ manSynced' = IF ok THEN [manSynced EXCEPT ![vs.manifest] =
                                  manData[vs.manifest]]
                    ELSE manSynced

(* The VersionSet after AppendVersion.                                       *)
Installed(e) ==
    [vs EXCEPT !.files = (@ \ e.del) \cup e.add, !.log = e.log]

-----------------------------------------------------------------------------
(* DBImpl::CompactMemTable.                                                  *)

mtFrame == <<logData, logSynced, current, phase, openVars, logfile, mem, pinned,
             wr, mj, ghostVars>>

(* WriteLevel0Table up to BuildTable, which creates the file.  It also runs   *)
(* from the merge loop of a major compaction.                                *)
BeginMemTable ==
    /\ Open /\ hasImm /\ mt.pc = "idle" /\ mj.pc \in {"idle", "build"}
    /\ CanAllocate
    /\ mt' = [NoJob EXCEPT !.pc = "build", !.num = vs.next]
    /\ vs' = NewFileNumber
    /\ pending' = pending \cup {vs.next}
    /\ tables' = IF imm = {} THEN tables ELSE tables \cup {vs.next}
    /\ tableData' = [tableData EXCEPT ![vs.next] = {}]
    /\ UNCHANGED <<mtFrame, logs, manifests, manData, manSynced, imm, hasImm, faults>>

(* BuildTable returns, with the file synced or deleted.                      *)
TableBuilt ==
    /\ Open /\ mt.pc = "build"
    /\ pending' = pending \ {mt.num}
    /\ \E ok \in BOOLEAN :
         /\ Outcome("table", ok)
         /\ IF ok
            THEN /\ tableData' = [tableData EXCEPT ![mt.num] = imm]
                 /\ mt' = [mt EXCEPT !.pc = "append", !.edit =
                             Completed(IF imm = {} THEN {} ELSE {mt.num}, {},
                                       logfile)]
                 /\ tables' = IF imm = {} THEN tables \ {mt.num} ELSE tables
            ELSE /\ tables' = tables \ {mt.num}
                 /\ mt' = NoJob
                 /\ UNCHANGED tableData
    /\ UNCHANGED <<mtFrame, logs, manifests, manData, manSynced, vs, imm, hasImm>>

MemTableEditAppended ==
    /\ Open /\ mt.pc = "append"
    /\ \E ok \in BOOLEAN :
         /\ Outcome("edit", ok)
         /\ IF ok THEN AppendEdit(mt.edit) /\ mt' = [mt EXCEPT !.pc = "sync"]
                  ELSE UNCHANGED manData /\ mt' = NoJob
    /\ UNCHANGED <<mtFrame, logs, tables, tableData, manifests, manSynced, vs, imm,
                   hasImm, pending>>

MemTableEditSynced ==
    /\ Open /\ mt.pc = "sync"
    /\ \E ok \in BOOLEAN : SyncEdit(ok)
    /\ mt' = [mt EXCEPT !.pc = "install"]
    /\ UNCHANGED <<mtFrame, logs, tables, tableData, manifests, manData, vs, imm,
                   hasImm, pending>>

MemTableInstalled ==
    /\ Open /\ mt.pc = "install"
    /\ vs' = Installed(mt.edit)
    /\ imm' = {} /\ hasImm' = FALSE
    /\ mt' = NoJob
    /\ DeleteObsoleteFiles(vs', pending, pinned \cup {mj.base})
    /\ UNCHANGED <<mtFrame, tableData, manData, manSynced, pending, faults>>

-----------------------------------------------------------------------------
(* BackgroundCompaction, DoCompactionWork and the cleanup after them, with one *)
(* output file.  The input version stays referenced by the Compaction.        *)

mjFrame == <<logData, logSynced, current, phase, openVars, memVars, pinned, wr,
             mt, ghostVars>>

BeginCompaction ==
    /\ Open /\ ~hasImm /\ mt.pc = "idle" /\ mj.pc = "idle" /\ CanAllocate
    /\ \E ins \in (SUBSET vs.files) \ {{}} :
         mj' = [NoJob EXCEPT !.pc = "build", !.num = vs.next, !.ins = ins,
                             !.base = vs.files]
    /\ vs' = NewFileNumber
    /\ pending' = pending \cup {vs.next}
    /\ tables' = tables \cup {vs.next}
    /\ tableData' = [tableData EXCEPT ![vs.next] = {}]
    /\ UNCHANGED <<mjFrame, logs, manifests, manData, manSynced, faults>>

(* CleanupCompaction, ReleaseInputs and DeleteObsoleteFiles.                 *)
CleanupCompaction ==
    /\ mj' = NoJob
    /\ pending' = pending \ {mj.num}
    /\ DeleteObsoleteFiles(vs', pending', pinned)

(* The merge loop ends.  A nested memtable compaction has ended before it.    *)
InputsMerged ==
    /\ Open /\ mj.pc = "build" /\ mt.pc = "idle"
    /\ \E ok \in BOOLEAN :
         /\ Outcome("table", ok)
         /\ IF ok
            THEN /\ tableData' = [tableData EXCEPT ![mj.num] =
                                    UNION {tableData[f] : f \in mj.ins}]
                 /\ mj' = [mj EXCEPT !.pc = "append", !.edit =
                             Completed({mj.num}, mj.ins, vs.log)]
                 /\ UNCHANGED <<pending, logs, tables, manifests, vs>>
            ELSE UNCHANGED <<tableData, vs>> /\ CleanupCompaction
    /\ UNCHANGED <<mjFrame, manData, manSynced>>

CompactionEditAppended ==
    /\ Open /\ mj.pc = "append"
    /\ \E ok \in BOOLEAN :
         /\ Outcome("edit", ok)
         /\ IF ok
            THEN /\ AppendEdit(mj.edit) /\ mj' = [mj EXCEPT !.pc = "sync"]
                 /\ UNCHANGED <<pending, logs, tables, manifests, vs>>
            ELSE UNCHANGED <<manData, vs>> /\ CleanupCompaction
    /\ UNCHANGED <<mjFrame, tableData, manSynced>>

CompactionEditSynced ==
    /\ Open /\ mj.pc = "sync"
    /\ \E ok \in BOOLEAN : SyncEdit(ok)
    /\ mj' = [mj EXCEPT !.pc = "install"]
    /\ UNCHANGED <<mjFrame, logs, tables, tableData, manifests, manData, vs, pending>>

CompactionInstalled ==
    /\ Open /\ mj.pc = "install"
    /\ vs' = Installed(mj.edit)
    /\ CleanupCompaction
    /\ UNCHANGED <<mjFrame, tableData, manData, manSynced, faults>>

-----------------------------------------------------------------------------
(* DB::Open.                                                                 *)

openFrame == <<logfile, mem, imm, hasImm, bgVars, pinned, wr, ghostVars>>

(* A process that ends, or a DBImpl that DB::Open deletes, leaves no memory.  *)
ProcessGone ==
    /\ phase' = "down" /\ vs' = NoVersions
    /\ edit' = NoEdit /\ todo' = {} /\ replayOk' = TRUE /\ maxSeq' = 0
    /\ logfile' = 0 /\ mem' = {} /\ imm' = {} /\ hasImm' = FALSE
    /\ pending' = {} /\ pinned' = {} /\ wr' = NoWrite /\ mt' = NoJob /\ mj' = NoJob

(* DBImpl::NewDB: the first MANIFEST is written, not synced.                 *)
NewDB ==
    /\ phase = "down" /\ current = 0 /\ MaxNumber >= 1
    /\ phase' = "newdb"
    /\ manifests' = manifests \cup {1}
    /\ manData' = [manData EXCEPT ![1] = [NoDescriptor EXCEPT !.next = 2]]
    /\ manSynced' = [manSynced EXCEPT ![1] = NoDescriptor]
    /\ UNCHANGED <<logs, logData, logSynced, tables, tableData, current, vs, openVars,
                   openFrame, faults>>

NewDBCurrent ==
    /\ phase = "newdb"
    /\ phase' = "recover" /\ current' = 1
    /\ UNCHANGED <<logs, logData, logSynced, tables, tableData, manifests, manData,
                   manSynced, vs, openVars, openFrame, faults>>

(* Mutant: the log that the MANIFEST names is taken to be obsolete.          *)
NewerLogs(d) == {n \in logs : n > d.log}

(* The logs that DBImpl::Recover replays.                                    *)
LogsToReplay(d) == {n \in logs : n >= d.log}

(* VersionSet::Recover, then the check of DBImpl::Recover that the files of    *)
(* the version exist (by number, whatever their type).                       *)
RecoverManifest ==
    /\ phase = "recover" \/ (phase = "down" /\ current # 0)
    /\ LET d == manData[current]
       IN  IF d.next = 0 \/ ~(d.files \subseteq tables \cup logs \cup manifests)
           THEN phase' = "corrupt" /\ UNCHANGED <<vs, todo>>
           ELSE /\ phase' = "replay"
                /\ vs' = [files |-> d.files, log |-> d.log, next |-> d.next + 1,
                          last |-> d.last, manifest |-> d.next]
                /\ todo' = LogsToReplay(d)
    /\ UNCHANGED <<diskVars, edit, replayOk, maxSeq, openFrame, faults>>

(* RecoverLogFile of the oldest log left, and MarkFileNumberUsed.  The status  *)
(* of the loop is that of its last iteration.                                *)
RecoverLogFile ==
    /\ phase = "replay" /\ todo # {}
    /\ LET n == CHOOSE m \in todo : \A k \in todo : m <= k
           num == vs.next
           used == IF logData[n] = {} THEN vs.next ELSE vs.next + 1
           newest == CHOOSE m \in {x.seq : x \in logData[n]} :
                       \A x \in logData[n] : x.seq <= m
       IN  /\ todo' = todo \ {n}
           /\ used <= MaxNumber + 1
           /\ vs' = [vs EXCEPT !.next = Maximum(used, n + 1)]
           /\ maxSeq' = IF logData[n] = {} THEN maxSeq ELSE Maximum(maxSeq, newest)
           /\ \E ok \in BOOLEAN :
                /\ ok \/ logData[n] # {}
                /\ Outcome("replay", ok)
                /\ replayOk' = ok
                /\ IF ok /\ logData[n] # {}
                   THEN /\ tables' = tables \cup {num}
                        /\ tableData' = [tableData EXCEPT ![num] = logData[n]]
                        /\ edit' = [edit EXCEPT !.add = @ \cup {num}]
                   ELSE /\ tables' = IF ok THEN tables ELSE tables \ {num}
                        /\ UNCHANGED <<tableData, edit>>
    /\ UNCHANGED <<logs, logData, logSynced, manifests, manData, manSynced, current,
                   phase, openFrame>>

(* Mutant: max_sequence of the logs is ignored.                              *)
DescriptorSequence == vs.last

(* SetLastSequence at the end of DBImpl::Recover.                            *)
RecoveredSequence == Maximum(vs.last, maxSeq)

(* The end of DBImpl::Recover: the new log of DB::Open, or the error.        *)
RecoverReturns ==
    /\ phase = "replay" /\ todo = {} /\ CanAllocate /\ vs.manifest <= MaxNumber
    /\ IF replayOk
       THEN /\ phase' = "manifest"
            /\ logs' = logs \cup {vs.next}
            /\ logData' = [logData EXCEPT ![vs.next] = {}]
            /\ logSynced' = [logSynced EXCEPT ![vs.next] = {}]
            /\ logfile' = vs.next
            /\ vs' = [vs EXCEPT !.next = @ + 1, !.last = RecoveredSequence]
            /\ edit' = [add |-> edit.add, del |-> {}, log |-> vs.next,
                        next |-> vs.next + 1, last |-> RecoveredSequence]
            /\ UNCHANGED <<todo, replayOk, maxSeq, mem, imm, hasImm, pending, pinned,
                           wr, mt, mj>>
       ELSE /\ ProcessGone
            /\ UNCHANGED <<logs, logData, logSynced>>
    /\ UNCHANGED <<tables, tableData, manifests, manData, manSynced, current,
                   ghostVars, faults>>

(* VersionSet::WriteSnapshot: the files of the version that was recovered.   *)
WriteSnapshot == [NoDescriptor EXCEPT !.files = vs.files]

(* LogAndApply creates the new MANIFEST: the snapshot and the edit.          *)
NewManifest ==
    /\ phase = "manifest"
    /\ \E ok \in BOOLEAN :
         /\ Outcome("edit", ok)
         /\ IF ok
            THEN /\ phase' = "mansync"
                 /\ manifests' = manifests \cup {vs.manifest}
                 /\ manData' = [manData EXCEPT ![vs.manifest] =
                                   Apply(WriteSnapshot, edit)]
                 /\ manSynced' = [manSynced EXCEPT ![vs.manifest] = NoDescriptor]
                 /\ UNCHANGED <<vs, openVars, memVars, bgVars, pinned, wr>>
            ELSE /\ ProcessGone
                 /\ manifests' = manifests \ {vs.manifest}
                 /\ UNCHANGED <<manData, manSynced>>
    /\ UNCHANGED <<logs, logData, logSynced, tables, tableData, current, ghostVars>>

ManifestSynced ==
    /\ phase = "mansync"
    /\ \E ok \in BOOLEAN : SyncEdit(ok)
    /\ phase' = "setcurrent"
    /\ UNCHANGED <<logs, logData, logSynced, tables, tableData, manifests, manData,
                   current, vs, openVars, openFrame>>

SetCurrentFile ==
    /\ phase = "setcurrent"
    /\ phase' = "install" /\ current' = vs.manifest
    /\ UNCHANGED <<logs, logData, logSynced, tables, tableData, manifests, manData,
                   manSynced, vs, openVars, openFrame, faults>>

(* The version is installed and DB::Open collects the garbage.               *)
OpenReturns ==
    /\ phase = "install"
    /\ phase' = "open"
    /\ vs' = Installed(edit)
    /\ edit' = NoEdit /\ todo' = {} /\ replayOk' = TRUE /\ maxSeq' = 0
    /\ DeleteObsoleteFiles(vs', pending, pinned)
    /\ UNCHANGED <<logData, logSynced, tableData, manData, manSynced, current,
                   openFrame, faults>>

-----------------------------------------------------------------------------
(* Crashes.  Creating, renaming and deleting a file are taken to be durable    *)
(* and ordered; data that was written and not synced survives in any part.    *)

(* The process dies, or the database is closed: ~DBImpl writes nothing out.   *)
ProcessCrash ==
    /\ "process" \in CrashKinds /\ phase \notin {"down", "corrupt"}
    /\ crashes < MaxCrashes /\ crashes' = crashes + 1
    /\ ProcessGone
    /\ UNCHANGED <<diskVars, issued, acked, syncAcked, failed, faults>>

(* The machine dies.  The writes that were promised to survive it are those    *)
(* with WriteOptions.sync.                                                   *)
MachineCrash ==
    /\ "machine" \in CrashKinds /\ phase # "corrupt"
    /\ crashes < MaxCrashes /\ crashes' = crashes + 1
    /\ ProcessGone
    /\ \E kept \in [logs -> SUBSET UNION {logData[n] : n \in logs}] :
         /\ \A n \in logs : logSynced[n] \subseteq kept[n] /\ kept[n] \subseteq logData[n]
         /\ logData' = [n \in Numbers |-> IF n \in logs THEN kept[n] ELSE {}]
    /\ logSynced' = logData'
    /\ \E kept \in SUBSET manifests :
         manData' = [n \in Numbers |-> IF n \in kept THEN manData[n] ELSE manSynced[n]]
    /\ manSynced' = manData'
    /\ acked' = syncAcked
    /\ UNCHANGED <<logs, tables, tableData, manifests, current, issued, syncAcked,
                   failed, faults>>

-----------------------------------------------------------------------------
Client == AddRecord \/ SyncLog \/ InsertInto \/ SwitchMemTable
            \/ PinVersion \/ UnpinVersion

MemTableJob == BeginMemTable \/ TableBuilt \/ MemTableEditAppended
                 \/ MemTableEditSynced \/ MemTableInstalled

CompactionJob == BeginCompaction \/ InputsMerged \/ CompactionEditAppended
                   \/ CompactionEditSynced \/ CompactionInstalled

Opening == NewDB \/ NewDBCurrent \/ RecoverManifest \/ RecoverLogFile
             \/ RecoverReturns \/ NewManifest \/ ManifestSynced \/ SetCurrentFile
             \/ OpenReturns

Next == Client \/ MemTableJob \/ CompactionJob \/ Opening
          \/ ProcessCrash \/ MachineCrash

Spec == Init /\ [][Next]_vars

-----------------------------------------------------------------------------
(* Properties.                                                               *)

(* The writes in the open database: the memtables and the current version.    *)
Contents == mem \cup imm \cup UNION {tableData[f] : f \in vs.files \cap tables}

(* An acknowledged write is readable for as long as the database is open: no   *)
(* flush, compaction or recovery loses it (DBImpl::Write, CompactMemTable,     *)
(* InstallCompactionResults, DBImpl::Recover).                               *)
NothingLost == Open => acked \subseteq Contents

(* Whenever the process dies, what is on the disk still holds every            *)
(* acknowledged write: a log goes only when the MANIFEST names the table that  *)
(* replaces it, a table only when no version recovery reads names it.         *)
CrashSafe == current # 0 => acked \subseteq Readable(manData[current], logData)

(* An acknowledged write is readable now, and after the next recovery.        *)
AckedKept == NothingLost /\ CrashSafe

(* Whenever the machine dies, what it is sure to find again holds every        *)
(* acknowledged synchronous write, whichever state of the MANIFEST survives.  *)
SyncCrashSafe ==
    current # 0 => \A d \in {manData[current], manSynced[current]} :
                     syncAcked \subseteq Readable(d, logSynced)

(* Recovery meets a MANIFEST it cannot use (VersionSet::Recover, "missing       *)
(* files" of DBImpl::Recover) only while a database is new: NewDB does not sync *)
(* the first MANIFEST, but LogAndApply syncs a MANIFEST before CURRENT names    *)
(* it, so a database that was opened once can be opened again.                *)
UsableOnceOpened == phase = "corrupt" => current = 1

(* The death of the machine costs neither the database nor a synchronous write. *)
MachineCrashSafe == SyncCrashSafe /\ UsableOnceOpened

(* A file somebody still reads is there: those of the current version, of the *)
(* versions readers hold, of the inputs of a compaction, and of the version    *)
(* recovery would start from (DeleteObsoleteFiles).                          *)
FilesInUseExist ==
    /\ Open => vs.files \cup (UNION pinned) \cup mj.ins \subseteq tables
    /\ current # 0 => manData[current].files \subseteq tables

(* An open database hands out only sequence numbers above those of all its     *)
(* writes, those of earlier incarnations included, and no two writes share     *)
(* one (last_sequence_ in the MANIFEST, max_sequence of the logs).            *)
SequenceFresh ==
    Open => /\ \A x \in Contents : x.seq <= vs.last
            /\ \A x, y \in Contents : x.seq = y.seq => x = y

(* File numbers are never handed out twice for a file that is needed: a step   *)
(* changes the contents of no table of the version that recovery would read or *)
(* that is installed (NewFileNumber, MarkFileNumberUsed).                    *)
NoTableOverwritten ==
    [][\A f \in vs.files \cup (UNION pinned) \cup
             (IF current = 0 THEN {} ELSE manData[current].files) :
         tableData'[f] = tableData[f]]_vars

-----------------------------------------------------------------------------
(* Recovery implements DurableStore: seen through what a recovery would find,   *)
(* only a write, a Sync, an acknowledgement and the death of the machine show. *)
(* A write that returned an error is promised nothing: it may be found or not. *)

storeContents ==
    IF current = 0 THEN {} ELSE Readable(manData[current], logData) \ failed
storeDurable ==
    IF current = 0 THEN {}
    ELSE (Readable(manData[current], logSynced)
            \cap Readable(manSynced[current], logSynced)) \ failed

Store == INSTANCE DurableStore WITH
           Write <- Writes, contents <- storeContents, durable <- storeDurable

(* No flush, compaction, garbage collection, recovery or death of the process  *)
(* changes what a recovery would find, and the death of the machine takes only *)
(* what no Sync covered.                                                     *)
ImplementsStore == Store!StoreSpec
=============================================================================
