--------------------------- MODULE BackgroundWork ---------------------------
(***************************************************************************)
(* The background work of a LevelDB database (db/db_impl.cc): who schedules *)
(* the single background call, what that call does, and who sleeps on       *)
(* bg_cv_ for its result.  Every critical section of mutex_ is one action;   *)
(* a point where the code releases mutex_ is a value of bgpc (background     *)
(* thread) or cpc (client thread).                                           *)
(*                                                                          *)
(* File contents are abstracted away: of the tables only what schedules work *)
(* is kept: the number of level-0 files (l0), the number of compactions that *)
(* the sizes of the other levels ask for (debt), and whether the current      *)
(* version has a file that was seeked too often (seek).                      *)
(***************************************************************************)
EXTENDS Naturals, FiniteSets

CONSTANTS
    Clients,               \* threads that call TEST_CompactRange
    kL0_CompactionTrigger, \* level-0 files that make a compaction due
    kL0_StopWritesTrigger, \* level-0 files that stop the writers
    MaxDebt,               \* bound on debt
    MaxPieces,             \* bound on the pieces a manual compaction is cut into
    MaxSwitches,           \* bound on the number of full memtables
    MaxErrors,             \* bound on the number of failing I/O operations
    ParanoidChecks         \* options_.paranoid_checks

ASSUME BoundsAssumption ==
    /\ kL0_CompactionTrigger \in Nat \ {0}
    /\ kL0_StopWritesTrigger \in Nat
    /\ kL0_CompactionTrigger <= kL0_StopWritesTrigger
    /\ MaxDebt \in Nat /\ MaxPieces \in Nat
    /\ MaxSwitches \in Nat /\ MaxErrors \in Nat
    /\ ParanoidChecks \in BOOLEAN

(* The null pointers of the code and the thread that destroys the database. *)
None == "none"
Owner == "owner"

ASSUME NamesAssumption == {None, Owner} \cap Clients = {}

VARIABLES
    imm,          \* imm_ != NULL
    l0,           \* versions_->NumLevelFiles(0)
    debt,         \* compactions that levels >= 1 with a score >= 1 ask for
    seek,         \* current()->file_to_compact_ != NULL
    bgError,      \* !bg_error_.ok()
    scheduled,    \* bg_compaction_scheduled_
    shuttingDown, \* shutting_down_ != NULL
    manual,       \* manual_compaction_: the client owning the request, or None
    pieces,       \* pieces[c]: files of the level left in c's manual range
    done,         \* done[c]: manual.done of client c
    bgpc,         \* where the background thread has released mutex_
    job,          \* the major compaction in progress, or NoJob
    cpc,          \* where client c is in TEST_CompactRange
    opc,          \* where the owner is in the destructor
    sleepers,     \* threads blocked in bg_cv_.Wait()
    errors,       \* number of failed I/O operations so far
    switches      \* number of memtables handed over so far

shape == <<l0, debt, seek>>
manualVars == <<manual, pieces, done, cpc>>
vars == <<imm, shape, bgError, scheduled, shuttingDown, manualVars, bgpc, job,
          opc, sleepers, errors, switches>>

NoJob == [kind |-> "none", l0 |-> 0]
Jobs == [kind : {"none", "manual", "picked", "move"}, l0 : Nat]

(* Points at which the background thread does not hold mutex_.              *)
BgPoints == {"idle",   \* BGThread waits for an item
             "queued", \* BGWork is in the queue of Env::Schedule
             "build",  \* BuildTable of imm_
             "apply",  \* LogAndApply of CompactMemTable writes the manifest
             "work",   \* DoCompactionWork merges its inputs
             "install",\* LogAndApply of a major compaction writes the manifest
             "backoff"}\* sleep after a failed compaction

ClientPoints == {"idle", "slot", "running"}

Init ==
    /\ imm = FALSE /\ l0 = 0 /\ debt = 0 /\ seek = FALSE /\ bgError = FALSE
    /\ scheduled = FALSE /\ shuttingDown = FALSE
    /\ manual = None
    /\ pieces = [c \in Clients |-> 0] /\ done = [c \in Clients |-> FALSE]
    /\ bgpc = "idle" /\ job = NoJob
    /\ cpc = [c \in Clients |-> "idle"] /\ opc = "open"
    /\ sleepers = {} /\ errors = 0 /\ switches = 0

-----------------------------------------------------------------------------
(* Scheduling.                                                              *)

(* VersionSet::NeedsCompaction for the version with this shape.              *)
SizeCompaction(files, d) == files >= kL0_CompactionTrigger \/ d > 0
NeedsCompaction(files, d, sk) == SizeCompaction(files, d) \/ sk

(* Mutants: a due seek is forgotten; the database being destroyed is not        *)
(* noticed.                                                                  *)
MaybeScheduleWithoutSeek(sched) ==
    sched \/ (~shuttingDown /\ (imm' \/ manual' # None
                                \/ SizeCompaction(l0', debt')))
MaybeScheduleInShutdown(sched) ==
    sched \/ imm' \/ manual' # None \/ NeedsCompaction(l0', debt', seek')

(* DBImpl::MaybeScheduleCompaction: the value it leaves in                   *)
(* bg_compaction_scheduled_ when it finds sched there.  It reads the state    *)
(* its caller leaves behind.                                                 *)
MaybeScheduleCompaction(sched) ==
    sched \/ (~shuttingDown /\ (imm' \/ manual' # None
                                \/ NeedsCompaction(l0', debt', seek')))

(* A foreground thread calls it: the new item wakes the background thread.   *)
ScheduleFromClient ==
    /\ scheduled' = MaybeScheduleCompaction(scheduled)
    /\ bgpc' = IF scheduled' /\ ~scheduled THEN "queued" ELSE bgpc

(* Mutants: bg_cv_.SignalAll is left out; env_->Schedule is left out.         *)
BackgroundCallReturnsSilently ==
    /\ scheduled' = MaybeScheduleCompaction(FALSE)
    /\ bgpc' = IF scheduled' THEN "queued" ELSE "idle"
    /\ UNCHANGED sleepers
BackgroundCallNotQueued ==
    /\ scheduled' = MaybeScheduleCompaction(FALSE)
    /\ bgpc' = "idle"
    /\ sleepers' = {}

(* The end of DBImpl::BackgroundCall.                                        *)
BackgroundCallReturns ==
    /\ scheduled' = MaybeScheduleCompaction(FALSE)
    /\ bgpc' = IF scheduled' THEN "queued" ELSE "idle"
    /\ sleepers' = {}

(* What BackgroundCall does with the status of BackgroundCompaction.         *)
AfterCompaction(ok) ==
    IF ok \/ shuttingDown
    THEN BackgroundCallReturns
    ELSE bgpc' = "backoff" /\ sleepers' = {} /\ UNCHANGED scheduled

(* One I/O operation of the background thread succeeds or fails.             *)
IOResult(ok) ==
    IF ok THEN UNCHANGED errors ELSE errors < MaxErrors /\ errors' = errors + 1

-----------------------------------------------------------------------------
(* BackgroundCall and BackgroundCompaction up to their first release of      *)
(* mutex_.                                                                   *)

BackgroundCallDuringShutdown ==
    /\ bgpc = "queued" /\ shuttingDown
    /\ UNCHANGED <<imm, shape, bgError, shuttingDown, manualVars, job, opc,
                   errors, switches>>
    /\ BackgroundCallReturns

(* imm_ != NULL: CompactMemTable, into WriteLevel0Table.                     *)
BeginMemTable ==
    /\ bgpc = "queued" /\ ~shuttingDown /\ imm
    /\ bgpc' = "build"
    /\ UNCHANGED <<imm, shape, bgError, scheduled, shuttingDown, manualVars,
                   job, opc, sleepers, errors, switches>>

(* Mutant: m->done is not set.                                               *)
ManualNeverDone ==
    /\ bgpc = "queued" /\ ~shuttingDown /\ ~imm /\ manual # None
    /\ pieces[manual] = 0
    /\ manual' = None
    /\ UNCHANGED <<imm, shape, bgError, shuttingDown, done, pieces, cpc, job, opc,
                   errors, switches>>
    /\ BackgroundCallReturns

(* versions_->CompactRange returns NULL: the manual compaction is done.      *)
ManualHasNoInputs ==
    /\ bgpc = "queued" /\ ~shuttingDown /\ ~imm /\ manual # None
    /\ pieces[manual] = 0
    /\ done' = [done EXCEPT ![manual] = TRUE]
    /\ manual' = None
    /\ UNCHANGED <<imm, shape, bgError, shuttingDown, pieces, cpc, job, opc,
                   errors, switches>>
    /\ BackgroundCallReturns

(* versions_->CompactRange picks inputs: k level-0 files, or files of another *)
(* level.                                                                    *)
BeginManual ==
    /\ bgpc = "queued" /\ ~shuttingDown /\ ~imm /\ manual # None
    /\ pieces[manual] > 0
    /\ \E k \in 0..l0 : job' = [kind |-> "manual", l0 |-> k]
    /\ bgpc' = "work"
    /\ UNCHANGED <<imm, shape, bgError, scheduled, shuttingDown, manualVars,
                   opc, sleepers, errors, switches>>

(* VersionSet::PickCompaction may pick inputs with k level-0 files: it prefers *)
(* a level that is too big to a file seeked too often.                        *)
PickCompaction(k) ==
    \/ l0 >= kL0_CompactionTrigger /\ k > 0
    \/ debt > 0 /\ k = 0
    \/ ~SizeCompaction(l0, debt) /\ seek

(* No manual request: a trivial move goes straight to LogAndApply.            *)
(* PickCompaction never returns NULL here: QueuedCallHasWork.                *)
BeginPicked ==
    /\ bgpc = "queued" /\ ~shuttingDown /\ ~imm /\ manual = None
    /\ \E k \in 0..l0, trivial \in BOOLEAN :
         /\ PickCompaction(k)
         /\ trivial => k <= 1
         /\ job' = [kind |-> IF trivial THEN "move" ELSE "picked", l0 |-> k]
         /\ bgpc' = IF trivial THEN "install" ELSE "work"
    /\ UNCHANGED <<imm, shape, bgError, scheduled, shuttingDown, manualVars,
                   opc, sleepers, errors, switches>>

-----------------------------------------------------------------------------
(* CompactMemTable, called by BackgroundCompaction (job = NoJob) or from the  *)
(* loop of DoCompactionWork, which ignores its status and wakes the sleepers. *)

CompactMemTableReturns(ok) ==
    IF job = NoJob
    THEN AfterCompaction(ok)
    ELSE bgpc' = "work" /\ sleepers' = {} /\ UNCHANGED scheduled

(* BuildTable ends and mutex_ is taken again.                                *)
TableBuilt ==
    /\ bgpc = "build"
    /\ \E ok \in BOOLEAN :
         /\ IOResult(ok)
         /\ UNCHANGED <<imm, shape, bgError, shuttingDown, manualVars, job,
                        opc, switches>>
         /\ IF ok /\ ~shuttingDown
            THEN bgpc' = "apply" /\ UNCHANGED <<scheduled, sleepers>>
            ELSE CompactMemTableReturns(FALSE)

(* LogAndApply ends.  On success the version with the new table is current,   *)
(* at level 0 or deeper (PickLevelForMemTableOutput), and imm_ is gone; the    *)
(* table may fall into the range of the manual compaction.                   *)
MemTableApplied ==
    /\ bgpc = "apply"
    /\ \E ok \in BOOLEAN :
         /\ IOResult(ok)
         /\ IF ok
            THEN /\ imm' = FALSE
                 /\ \E level0 \in BOOLEAN : l0' = IF level0 THEN l0 + 1 ELSE l0
                 /\ seek' = FALSE
                 /\ \E hit \in BOOLEAN :
                      pieces' = [c \in Clients |->
                                   IF c = manual /\ hit /\ pieces[c] < MaxPieces
                                   THEN pieces[c] + 1 ELSE pieces[c]]
                 /\ UNCHANGED debt
            ELSE UNCHANGED <<imm, shape, pieces>>
         /\ UNCHANGED <<bgError, shuttingDown, manual, done, cpc, job, opc,
                        switches>>
         /\ CompactMemTableReturns(ok)

(* DoCompactionWork sees has_imm_ and turns to imm_ first.                   *)
PrioritizeMemTable ==
    /\ bgpc = "work" /\ ~shuttingDown /\ imm
    /\ bgpc' = "build"
    /\ UNCHANGED <<imm, shape, bgError, scheduled, shuttingDown, manualVars,
                   job, opc, sleepers, errors, switches>>

-----------------------------------------------------------------------------
(* The end of BackgroundCompaction for a major compaction with this status.  *)
CompactionReturns(ok) ==
    /\ bgError' = (bgError \/ (~ok /\ ~shuttingDown /\ ParanoidChecks))
    /\ job' = NoJob
    /\ IF job.kind = "manual"
       THEN /\ done' = [done EXCEPT ![manual] = @ \/ ~ok]
            /\ pieces' = [pieces EXCEPT ![manual] = IF ok THEN @ - 1 ELSE @]
            /\ manual' = None
       ELSE UNCHANGED <<done, pieces, manual>>
    /\ UNCHANGED <<imm, shuttingDown, cpc, opc, switches>>
    /\ AfterCompaction(ok)

(* DoCompactionWork leaves its loop: at the end of its inputs, at an error or *)
(* because the database is being destroyed.                                  *)
InputsMerged ==
    /\ bgpc = "work"
    /\ \E ok \in BOOLEAN :
         /\ IOResult(ok)
         /\ UNCHANGED shape
         /\ IF ok /\ ~shuttingDown
            THEN /\ bgpc' = "install"
                 /\ UNCHANGED <<imm, bgError, scheduled, shuttingDown,
                                manualVars, job, opc, sleepers, switches>>
            ELSE CompactionReturns(FALSE)

(* AddInputDeletions: the level-0 files left.                                *)
L0Left == l0 - job.l0

(* LogAndApply of the compaction ends.  Its level-0 inputs are gone, a         *)
(* compaction of another level has worked off one debt, and the level below    *)
(* may have become too big.                                                  *)
CompactionApplied ==
    /\ bgpc = "install"
    /\ \E ok \in BOOLEAN :
         /\ IOResult(ok)
         /\ IF ok
            THEN /\ l0' = L0Left
                 /\ \E more \in BOOLEAN :
                      debt' = IF job.l0 = 0 /\ debt > 0 THEN debt - 1
                              ELSE IF more /\ debt < MaxDebt THEN debt + 1
                              ELSE debt
                 /\ seek' = FALSE
            ELSE UNCHANGED shape
         /\ CompactionReturns(ok)

(* The back-off of BackgroundCall has elapsed.                               *)
BackoffElapsed ==
    /\ bgpc = "backoff"
    /\ UNCHANGED <<imm, shape, bgError, shuttingDown, manualVars, job, opc,
                   errors, switches>>
    /\ BackgroundCallReturns

Background ==
    \/ BackgroundCallDuringShutdown \/ BeginMemTable \/ ManualHasNoInputs
    \/ BeginManual \/ BeginPicked \/ TableBuilt \/ MemTableApplied
    \/ PrioritizeMemTable \/ InputsMerged \/ CompactionApplied
    \/ BackoffElapsed

-----------------------------------------------------------------------------
(* The clients.  The destructor's contract is that no other call is running   *)
(* and none comes after it, so the calls need an open database.              *)

(* TEST_CompactRange at the top of its outer loop, holding mutex_.           *)
ClaimManualSlot(c) ==
    IF manual # None
    THEN /\ cpc' = [cpc EXCEPT ![c] = "slot"]
         /\ sleepers' = sleepers \cup {c}
         /\ UNCHANGED <<manual, scheduled, bgpc>>
    ELSE /\ manual' = c
         /\ cpc' = [cpc EXCEPT ![c] = "running"]
         /\ sleepers' = sleepers \cup {c}
         /\ ScheduleFromClient

(* A call of TEST_CompactRange: p files of the level overlap its range.      *)
CompactRange(c) ==
    /\ opc = "open" /\ cpc[c] = "idle"
    /\ \E p \in 0..MaxPieces : pieces' = [pieces EXCEPT ![c] = p]
    /\ done' = [done EXCEPT ![c] = FALSE]
    /\ UNCHANGED <<imm, shape, bgError, shuttingDown, job, opc, errors,
                   switches>>
    /\ ClaimManualSlot(c)

(* bg_cv_.Wait returns in the inner loop "while (manual_compaction_ != NULL)". *)
SlotWakes(c) ==
    /\ cpc[c] = "slot" /\ c \notin sleepers
    /\ UNCHANGED <<imm, shape, bgError, shuttingDown, pieces, done, job, opc,
                   errors, switches>>
    /\ ClaimManualSlot(c)

(* Mutant: the wait is not repeated when it returns early.                   *)
RunningWakesOnce(c) ==
    /\ cpc[c] = "running" /\ c \notin sleepers
    /\ UNCHANGED <<imm, shape, bgError, shuttingDown, pieces, done, job, opc,
                   errors, switches>>
    /\ IF done[c]
       THEN /\ cpc' = [cpc EXCEPT ![c] = "idle"]
            /\ UNCHANGED <<manual, sleepers, scheduled, bgpc>>
       ELSE ClaimManualSlot(c)

(* bg_cv_.Wait returns in "while (manual_compaction_ == &manual)": sleep on,   *)
(* return, or ask for the rest of the range.                                 *)
RunningWakes(c) ==
    /\ cpc[c] = "running" /\ c \notin sleepers
    /\ UNCHANGED <<imm, shape, bgError, shuttingDown, pieces, done, job, opc,
                   errors, switches>>
    /\ IF manual = c
       THEN /\ sleepers' = sleepers \cup {c}
            /\ UNCHANGED <<manual, cpc, scheduled, bgpc>>
       ELSE IF done[c]
       THEN /\ cpc' = [cpc EXCEPT ![c] = "idle"]
            /\ UNCHANGED <<manual, sleepers, scheduled, bgpc>>
       ELSE ClaimManualSlot(c)

(* MakeRoomForWrite hands the full memtable over.                            *)
SwitchMemTable ==
    /\ opc = "open" /\ ~bgError /\ ~imm /\ l0 < kL0_StopWritesTrigger
    /\ switches < MaxSwitches
    /\ switches' = switches + 1
    /\ imm' = TRUE
    /\ UNCHANGED <<shape, bgError, shuttingDown, manualVars, job, opc,
                   sleepers, errors>>
    /\ ScheduleFromClient

(* DBImpl::Get: UpdateStats makes a file of the current version due.         *)
SeekTooOften ==
    /\ opc = "open" /\ ~seek
    /\ seek' = TRUE
    /\ UNCHANGED <<imm, l0, debt, bgError, shuttingDown, manualVars, job, opc,
                   sleepers, errors, switches>>
    /\ ScheduleFromClient

(* DBImpl::~DBImpl up to its wait, which it enters only when work is          *)
(* scheduled.                                                                *)
Destroy ==
    /\ opc = "open" /\ \A c \in Clients : cpc[c] = "idle"
    /\ shuttingDown' = TRUE
    /\ IF scheduled
       THEN opc' = "waiting" /\ sleepers' = sleepers \cup {Owner}
       ELSE opc' = "gone" /\ UNCHANGED sleepers
    /\ UNCHANGED <<imm, shape, bgError, scheduled, manualVars, bgpc, job,
                   errors, switches>>

(* Mutant: the destructor waits once.                                        *)
DestroyWakesOnce ==
    /\ opc = "waiting" /\ Owner \notin sleepers
    /\ opc' = "gone"
    /\ UNCHANGED <<imm, shape, bgError, scheduled, shuttingDown, manualVars,
                   bgpc, job, sleepers, errors, switches>>

(* The destructor wakes up: sleep again or free the database.                *)
DestroyWakes ==
    /\ opc = "waiting" /\ Owner \notin sleepers
    /\ IF scheduled
       THEN sleepers' = sleepers \cup {Owner} /\ UNCHANGED opc
       ELSE opc' = "gone" /\ UNCHANGED sleepers
    /\ UNCHANGED <<imm, shape, bgError, scheduled, shuttingDown, manualVars,
                   bgpc, job, errors, switches>>

(* pthread_cond_wait may return without a signal.                            *)
SpuriousWakeup ==
    /\ \E t \in sleepers : sleepers' = sleepers \ {t}
    /\ UNCHANGED <<imm, shape, bgError, scheduled, shuttingDown, manualVars,
                   bgpc, job, opc, errors, switches>>

Foreground ==
    \/ \E c \in Clients : CompactRange(c) \/ SlotWakes(c) \/ RunningWakes(c)
    \/ SwitchMemTable \/ SeekTooOften \/ Destroy \/ DestroyWakes
    \/ SpuriousWakeup

Next == Background \/ Foreground

(* The background thread runs what is queued, and a thread that was woken     *)
(* gets mutex_ again.                                                        *)
Fairness ==
    /\ WF_vars(Background)
    /\ \A c \in Clients : WF_vars(SlotWakes(c)) /\ WF_vars(RunningWakes(c))
    /\ WF_vars(DestroyWakes)

Spec == Init /\ [][Next]_vars

FairSpec == Spec /\ Fairness

-----------------------------------------------------------------------------
(* Every variable holds a value of its kind; in particular no count of files,  *)
(* which LogAndApply raises and lowers, becomes negative.                     *)
TypeOK ==
    /\ imm \in BOOLEAN /\ seek \in BOOLEAN /\ bgError \in BOOLEAN
    /\ scheduled \in BOOLEAN /\ shuttingDown \in BOOLEAN
    /\ l0 \in Nat /\ debt \in Nat /\ errors \in Nat /\ switches \in Nat
    /\ manual \in Clients \cup {None}
    /\ pieces \in [Clients -> Nat] /\ done \in [Clients -> BOOLEAN]
    /\ bgpc \in BgPoints /\ job \in Jobs
    /\ cpc \in [Clients -> ClientPoints]
    /\ opc \in {"open", "waiting", "gone"}
    /\ sleepers \subseteq Clients \cup {Owner}

(* Work never waits for somebody else's call: while the database is open, a   *)
(* full memtable, a manual request or a due compaction implies that a          *)
(* background call is scheduled (MaybeScheduleCompaction at every place that   *)
(* creates work, and once more at the end of BackgroundCall).                *)
WorkIsScheduled ==
    ~shuttingDown /\ (imm \/ manual # None \/ NeedsCompaction(l0, debt, seek))
        => scheduled

(* A call that starts finds something to do: PickCompaction cannot return     *)
(* NULL in BackgroundCompaction.                                             *)
QueuedCallHasWork ==
    bgpc = "queued" /\ ~shuttingDown
        => imm \/ manual # None \/ NeedsCompaction(l0, debt, seek)

(* No wake-up is missed: whoever is blocked in bg_cv_.Wait would block again   *)
(* if woken now, so a SignalAll that is left out or comes before the change    *)
(* it announces shows up here.                                               *)
NoMissedSignal ==
    /\ \A c \in Clients \cap sleepers :
         \/ cpc[c] = "slot" /\ manual # None
         \/ cpc[c] = "running" /\ manual = c
    /\ Owner \in sleepers => scheduled

(* manual_compaction_ and the m->... writes of BackgroundCompaction point into *)
(* the stack frame of a client that is still inside TEST_CompactRange.        *)
ManualFrameAlive ==
    /\ manual # None => cpc[manual] = "running"
    /\ job.kind = "manual" => manual # None

(* The background thread never runs in a database that was freed: when the    *)
(* destructor has returned, no call is queued or in progress, and none will    *)
(* be.                                                                       *)
NoWorkAfterFree == opc = "gone" => bgpc = "idle" /\ ~scheduled

(* The level-0 files stay within the limit at which writers stop, although a   *)
(* table is added while a compaction runs.                                   *)
L0Bounded == l0 <= kL0_StopWritesTrigger

(* Every CompactRange returns, across lost slots, errors and the memtable      *)
(* compactions that go first, unless new calls keep coming for ever: the slot  *)
(* manual_compaction_ goes to whoever takes mutex_ first, so a stream of other  *)
(* calls can keep it from one client.                                        *)
CompactRangeReturns ==
    <>[][\A c \in Clients : ~CompactRange(c)]_vars
        => \A c \in Clients : cpc[c] # "idle" ~> cpc[c] = "idle"

(* The destructor returns: the background call it waits for ends, and wakes it. *)
DestructorReturns == opc = "waiting" ~> opc = "gone"

(* A full memtable is written out, or the database is destroyed first.        *)
MemTableWrittenOut == imm ~> ~imm \/ shuttingDown
=============================================================================
