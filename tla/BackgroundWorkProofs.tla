------------------------ MODULE BackgroundWorkProofs ------------------------
(***************************************************************************)
(* Proofs about BackgroundWork, for any number of clients and any limits.     *)
(***************************************************************************)
EXTENDS BackgroundWork, TLAPS

-----------------------------------------------------------------------------
(* The inductive invariant.                                                  *)

(* bg_compaction_scheduled_ is set exactly while a call is queued or running. *)
OneCall == scheduled <=> bgpc # "idle"

(* What the background thread works on at each point.  The files and pieces    *)
(* that a compaction will take away are still there.                         *)
JobFits ==
    /\ bgpc \in {"idle", "queued", "backoff"} => job = NoJob
    /\ bgpc \in {"work", "install"} => job.kind # "none"
    /\ bgpc \in {"build", "apply"} => imm
    /\ job.kind = "none" => job = NoJob
    /\ job.l0 <= l0
    /\ job.kind = "manual" => manual # None /\ pieces[manual] > 0

(* A memtable waits only while there is room for its table.                  *)
RoomForTable == l0 <= kL0_StopWritesTrigger /\ (imm => l0 < kL0_StopWritesTrigger)

(* The destructor runs after the last call of a client.                      *)
NoCallsInDestructor ==
    /\ shuttingDown <=> opc # "open"
    /\ opc # "open" => \A c \in Clients : cpc[c] = "idle"
    /\ opc = "gone" => ~scheduled

SlotOwner == manual # None => cpc[manual] = "running"

(* TypeOK, but for the threads that may sleep on bg_cv_: the writers of         *)
(* WriteQueue do so, too.                                                    *)
CoreType ==
    /\ imm \in BOOLEAN /\ seek \in BOOLEAN /\ bgError \in BOOLEAN
    /\ scheduled \in BOOLEAN /\ shuttingDown \in BOOLEAN
    /\ l0 \in Nat /\ debt \in Nat /\ errors \in Nat /\ switches \in Nat
    /\ manual \in Clients \cup {None}
    /\ pieces \in [Clients -> Nat] /\ done \in [Clients -> BOOLEAN]
    /\ bgpc \in BgPoints /\ job \in Jobs
    /\ cpc \in [Clients -> ClientPoints]
    /\ opc \in {"open", "waiting", "gone"}

Core ==
    /\ CoreType /\ OneCall /\ JobFits /\ RoomForTable /\ NoCallsInDestructor
    /\ SlotOwner /\ WorkIsScheduled /\ QueuedCallHasWork /\ NoMissedSignal

Inv == Core /\ sleepers \subseteq Clients \cup {Owner}

(* None is no client.                                                        *)
LEMMA NamesApart == None \notin Clients /\ Owner \notin Clients
  BY NamesAssumption

(* The initial state satisfies the invariant.                                *)
LEMMA InitInv == Init => Inv
  <1> SUFFICES ASSUME Init PROVE Inv
    OBVIOUS
  <1>1. CoreType
    BY Zenon, BoundsAssumption DEF Init, CoreType, BgPoints, Jobs, NoJob, ClientPoints
  <1>2. OneCall /\ JobFits /\ RoomForTable /\ NoCallsInDestructor /\ SlotOwner
    BY BoundsAssumption DEF Init, OneCall, JobFits, RoomForTable,
       NoCallsInDestructor, SlotOwner, NoJob
  <1>3. WorkIsScheduled /\ QueuedCallHasWork /\ NoMissedSignal
    BY BoundsAssumption DEF Init, WorkIsScheduled, QueuedCallHasWork,
       NoMissedSignal, NeedsCompaction, SizeCompaction
  <1> QED
    BY <1>1, <1>2, <1>3 DEF Inv, Core, Init

-----------------------------------------------------------------------------
(* The end of a background call.                                             *)

(* A call that ends leaves OneCall, WorkIsScheduled, QueuedCallHasWork and      *)
(* NoMissedSignal behind, whatever it did before: it reads the new state and   *)
(* wakes everybody.                                                          *)
LEMMA CallReturns ==
  ASSUME BackgroundCallReturns, shuttingDown' = shuttingDown,
         shuttingDown \in BOOLEAN, imm' \in BOOLEAN, seek' \in BOOLEAN,
         l0' \in Nat, debt' \in Nat
  PROVE  /\ scheduled' \in BOOLEAN /\ bgpc' \in {"idle", "queued"}
         /\ OneCall' /\ WorkIsScheduled' /\ QueuedCallHasWork' /\ NoMissedSignal'
         /\ sleepers' = {}
         /\ shuttingDown => ~scheduled'
  BY Zenon, BoundsAssumption DEF BackgroundCallReturns, MaybeScheduleCompaction, OneCall,
     WorkIsScheduled, QueuedCallHasWork, NoMissedSignal, NeedsCompaction,
     SizeCompaction

(* The same with the back-off after an error: the call is still scheduled.    *)
LEMMA AfterCompactionOK ==
  ASSUME NEW ok \in BOOLEAN, AfterCompaction(ok), shuttingDown' = shuttingDown,
         shuttingDown \in BOOLEAN, imm' \in BOOLEAN, seek' \in BOOLEAN,
         l0' \in Nat, debt' \in Nat, scheduled = TRUE
  PROVE  /\ scheduled' \in BOOLEAN /\ bgpc' \in {"idle", "queued", "backoff"}
         /\ OneCall' /\ WorkIsScheduled' /\ QueuedCallHasWork' /\ NoMissedSignal'
         /\ sleepers' = {}
         /\ shuttingDown => ~scheduled'
  <1>1. CASE ok \/ shuttingDown
    BY Zenon, <1>1, CallReturns DEF AfterCompaction
  <1>2. CASE ~(ok \/ shuttingDown)
    BY <1>2 DEF AfterCompaction, OneCall, WorkIsScheduled, QueuedCallHasWork,
       NoMissedSignal
  <1> QED
    BY <1>1, <1>2

-----------------------------------------------------------------------------
(* The steps of the background thread.                                       *)

(* A step that only moves the background thread to another point of a call      *)
(* keeps the invariant when that point fits.                                 *)
LEMMA BgMoves ==
  ASSUME Core, bgpc \notin {"idle"}, bgpc' \in BgPoints \ {"idle", "queued"},
         job' \in Jobs, JobFits',
         UNCHANGED <<imm, shape, bgError, scheduled, shuttingDown, manualVars,
                     opc, switches, sleepers>>, errors' \in Nat
  PROVE  Core'
  BY DEF Core, CoreType, OneCall, RoomForTable, NoCallsInDestructor, SlotOwner,
     WorkIsScheduled, QueuedCallHasWork, NoMissedSignal, NeedsCompaction,
     SizeCompaction, shape, manualVars

(* The count of failures stays a number.                                     *)
LEMMA IOResultType ==
  ASSUME NEW ok \in BOOLEAN, IOResult(ok), errors \in Nat
  PROVE  errors' \in Nat
  BY DEF IOResult

(* A memtable or a compaction is begun.                                      *)
LEMMA BeginKeepsCore ==
  ASSUME Core,
         BeginMemTable \/ BeginManual \/ BeginPicked \/ PrioritizeMemTable
  PROVE  Core'
  <1> USE NamesApart
  <1>1. CASE BeginMemTable
    <2>1. JobFits'
      BY <1>1 DEF BeginMemTable, Core, CoreType, JobFits, NoJob, shape, manualVars
    <2> QED
      BY <1>1, <2>1, BgMoves DEF BeginMemTable, BgPoints, Core, CoreType
  <1>2. CASE BeginManual
    <2>1. PICK k \in 0..l0 : job' = [kind |-> "manual", l0 |-> k]
      BY <1>2 DEF BeginManual
    <2>2. JobFits' /\ job' \in Jobs
      BY <1>2, <2>1 DEF BeginManual, Core, CoreType, JobFits, Jobs, NoJob, shape,
         manualVars
    <2> QED
      BY <1>2, <2>2, BgMoves DEF BeginManual, BgPoints, Core, CoreType
  <1>3. CASE BeginPicked
    <2>1. PICK k \in 0..l0, trivial \in BOOLEAN :
            /\ job' = [kind |-> IF trivial THEN "move" ELSE "picked", l0 |-> k]
            /\ bgpc' = IF trivial THEN "install" ELSE "work"
      BY <1>3 DEF BeginPicked
    <2>2. JobFits' /\ job' \in Jobs
      BY <1>3, <2>1 DEF BeginPicked, Core, CoreType, JobFits, Jobs, NoJob, shape,
         manualVars
    <2> QED
      BY <1>3, <2>1, <2>2, BgMoves DEF BeginPicked, BgPoints, Core, CoreType
  <1>4. CASE PrioritizeMemTable
    <2>1. JobFits'
      BY <1>4 DEF PrioritizeMemTable, Core, CoreType, JobFits, NoJob, shape,
         manualVars
    <2> QED
      BY <1>4, <2>1, BgMoves DEF PrioritizeMemTable, BgPoints, Core, CoreType
  <1> QED
    BY <1>1, <1>2, <1>3, <1>4

(* The end of CompactMemTable, with the state it leaves.                     *)
LEMMA MemTableReturns ==
  ASSUME Core, bgpc \in {"build", "apply"}, NEW ok \in BOOLEAN,
         CompactMemTableReturns(ok),
         UNCHANGED <<bgError, shuttingDown, manual, done, cpc, job, opc, switches,
                     debt>>,
         imm' \in BOOLEAN, seek' \in BOOLEAN, l0' \in Nat, l0 <= l0',
         errors' \in Nat, pieces' \in [Clients -> Nat],
         \A c \in Clients : pieces[c] <= pieces'[c],
         RoomForTable'
  PROVE  Core'
  <1> USE NamesApart
  <1>1. scheduled = TRUE
    BY DEF Core, CoreType, OneCall
  <1>2. CASE job = NoJob
    <2>1. /\ scheduled' \in BOOLEAN /\ bgpc' \in {"idle", "queued", "backoff"}
          /\ OneCall' /\ WorkIsScheduled' /\ QueuedCallHasWork' /\ NoMissedSignal'
          /\ shuttingDown => ~scheduled'
      BY <1>1, <1>2, AfterCompactionOK DEF CompactMemTableReturns, Core, CoreType
    <2>2. CoreType' /\ JobFits'
      BY <1>2, <2>1 DEF Core, CoreType, JobFits, BgPoints, NoJob
    <2>3. NoCallsInDestructor' /\ SlotOwner'
      BY <2>1 DEF Core, CoreType, NoCallsInDestructor, SlotOwner
    <2> QED
      BY <2>1, <2>2, <2>3 DEF Core
  <1>3. CASE job # NoJob
    <2>1. bgpc' = "work" /\ sleepers' = {} /\ scheduled' = scheduled
      BY <1>3 DEF CompactMemTableReturns
    <2>2. CoreType' /\ JobFits'
      BY <1>3, <2>1 DEF Core, CoreType, JobFits, BgPoints, NoJob, Jobs
    <2>3. OneCall' /\ NoCallsInDestructor' /\ SlotOwner' /\ WorkIsScheduled'
            /\ QueuedCallHasWork' /\ NoMissedSignal'
      BY <1>1, <2>1 DEF Core, CoreType, OneCall, NoCallsInDestructor, SlotOwner,
         WorkIsScheduled, QueuedCallHasWork, NoMissedSignal
    <2> QED
      BY <2>2, <2>3 DEF Core
  <1> QED
    BY <1>2, <1>3

(* BuildTable ends, with a table or an error.                                *)
LEMMA TableBuiltKeepsCore ==
  ASSUME Core, TableBuilt
  PROVE  Core'
  <1>1. PICK ok \in BOOLEAN :
          /\ IOResult(ok)
          /\ UNCHANGED <<imm, shape, bgError, shuttingDown, manualVars, job, opc,
                         switches>>
          /\ IF ok /\ ~shuttingDown
             THEN bgpc' = "apply" /\ UNCHANGED <<scheduled, sleepers>>
             ELSE CompactMemTableReturns(FALSE)
    BY Zenon DEF TableBuilt
  <1>2. bgpc = "build" /\ errors' \in Nat
    BY <1>1, IOResultType DEF TableBuilt, Core, CoreType
  <1>3. CASE ok /\ ~shuttingDown
    <2>1. JobFits'
      BY <1>1, <1>2, <1>3 DEF Core, CoreType, JobFits, NoJob, shape, manualVars
    <2> QED
      BY <1>1, <1>2, <1>3, <2>1, BgMoves DEF BgPoints, Core, CoreType
  <1>4. CASE ~(ok /\ ~shuttingDown)
    <2>1. RoomForTable'
      BY <1>1 DEF Core, RoomForTable, shape
    <2>2. /\ CompactMemTableReturns(FALSE)
          /\ UNCHANGED <<imm, l0, debt, seek, bgError, shuttingDown, manual, pieces,
                         done, cpc, job, opc, switches>>
      BY Zenon, <1>1, <1>4 DEF shape, manualVars
    <2>3. /\ imm' \in BOOLEAN /\ seek' \in BOOLEAN /\ l0' \in Nat /\ l0 <= l0'
          /\ pieces' \in [Clients -> Nat]
          /\ \A c \in Clients : pieces[c] <= pieces'[c]
      BY <2>2 DEF Core, CoreType
    <2> QED
      BY Zenon, <1>2, <2>1, <2>2, <2>3, MemTableReturns
  <1> QED
    BY <1>3, <1>4

(* The table of imm_ is installed, or LogAndApply fails.                     *)
LEMMA MemTableAppliedKeepsCore ==
  ASSUME Core, MemTableApplied
  PROVE  Core'
  <1>1. PICK ok \in BOOLEAN :
          /\ IOResult(ok)
          /\ IF ok
             THEN /\ imm' = FALSE
                  /\ \E level0 \in BOOLEAN : l0' = IF level0 THEN l0 + 1 ELSE l0
                  /\ seek' = FALSE
                  /\ \E hit \in BOOLEAN :
                       pieces' = [c \in Clients |->
                                    IF c = manual /\ hit /\ pieces[c] < MaxPieces
                                    THEN pieces[c] + 1 ELSE pieces[c]]
                  /\ UNCHANGED debt
             ELSE UNCHANGED <<imm, shape, pieces>>
          /\ UNCHANGED <<bgError, shuttingDown, manual, done, cpc, job, opc, switches>>
          /\ CompactMemTableReturns(ok)
    BY DEF MemTableApplied
  <1>2. bgpc = "apply" /\ imm /\ errors' \in Nat
    BY <1>1, IOResultType DEF MemTableApplied, Core, CoreType, JobFits
  <1>3. /\ imm' \in BOOLEAN /\ seek' \in BOOLEAN /\ l0' \in Nat /\ l0 <= l0'
        /\ debt' = debt
        /\ RoomForTable'
    <2>1. CASE ok
      <3>1. PICK level0 \in BOOLEAN : l0' = IF level0 THEN l0 + 1 ELSE l0
        BY <1>1, <2>1
      <3>2. imm' = FALSE /\ seek' = FALSE /\ debt' = debt
        BY <1>1, <2>1
      <3>3. l0 \in Nat /\ l0 < kL0_StopWritesTrigger
        BY <1>2 DEF Core, CoreType, RoomForTable
      <3>4. l0' \in Nat /\ l0 <= l0' /\ l0' <= kL0_StopWritesTrigger
        BY <3>1, <3>3, BoundsAssumption
      <3>5. RoomForTable'
        BY <3>2, <3>4 DEF RoomForTable
      <3> QED
        BY Zenon, <3>2, <3>4, <3>5
    <2>2. CASE ~ok
      <3>1. UNCHANGED <<imm, l0, debt, seek>>
        BY <1>1, <2>2 DEF shape
      <3> QED
        BY <3>1 DEF Core, CoreType, RoomForTable
    <2> QED
      BY <2>1, <2>2
  <1>4. pieces' \in [Clients -> Nat] /\ \A c \in Clients : pieces[c] <= pieces'[c]
    BY <1>1 DEF Core, CoreType
  <1> QED
    BY <1>1, <1>2, <1>3, <1>4, MemTableReturns

(* A background call ends without having changed the files.                  *)
LEMMA PlainReturnKeepsCore ==
  ASSUME Core,
         BackgroundCallDuringShutdown \/ ManualHasNoInputs \/ BackoffElapsed
  PROVE  Core'
  <1> USE NamesApart
  <1>1. /\ BackgroundCallReturns
        /\ UNCHANGED <<imm, shape, bgError, shuttingDown, pieces, cpc, job, opc,
                       errors, switches>>
        /\ job = NoJob /\ scheduled
    BY DEF BackgroundCallDuringShutdown, ManualHasNoInputs, BackoffElapsed, Core,
       JobFits, OneCall, manualVars
  <1>2. /\ manual' = manual \/ manual' = None
        /\ done' \in [Clients -> BOOLEAN]
    BY Zenon DEF BackgroundCallDuringShutdown, ManualHasNoInputs, BackoffElapsed, Core,
       CoreType, manualVars
  <1>3. /\ scheduled' \in BOOLEAN /\ bgpc' \in {"idle", "queued"}
        /\ OneCall' /\ WorkIsScheduled' /\ QueuedCallHasWork' /\ NoMissedSignal'
        /\ shuttingDown => ~scheduled'
    BY <1>1, CallReturns DEF Core, CoreType, shape
  <1>4. CoreType' /\ JobFits' /\ RoomForTable' /\ NoCallsInDestructor' /\ SlotOwner'
    BY <1>1, <1>2, <1>3 DEF Core, CoreType, JobFits, RoomForTable,
       NoCallsInDestructor, SlotOwner, NoJob, BgPoints, shape
  <1> QED
    BY <1>3, <1>4 DEF Core

(* BackgroundCompaction ends after a major compaction; only its own inputs are  *)
(* gone from level 0.                                                        *)
LEMMA CompactionReturnsKeepsCore ==
  ASSUME Core, bgpc \in {"work", "install"}, NEW ok \in BOOLEAN,
         CompactionReturns(ok),
         seek' \in BOOLEAN, l0' \in Nat, l0' <= l0, debt' \in Nat, errors' \in Nat
  PROVE  Core'
  <1> USE NamesApart
  <1>1. scheduled = TRUE /\ imm' = imm /\ shuttingDown' = shuttingDown
    BY DEF Core, CoreType, OneCall, CompactionReturns
  <1>2. /\ scheduled' \in BOOLEAN /\ bgpc' \in {"idle", "queued", "backoff"}
        /\ OneCall' /\ WorkIsScheduled' /\ QueuedCallHasWork' /\ NoMissedSignal'
        /\ shuttingDown => ~scheduled'
    BY <1>1, AfterCompactionOK DEF CompactionReturns, Core, CoreType
  <1>3. job' = NoJob /\ RoomForTable'
    BY <1>1, BoundsAssumption DEF CompactionReturns, Core, CoreType, RoomForTable
  <1>4. /\ manual' \in Clients \cup {None} /\ (manual' # None => manual' = manual)
        /\ done' \in [Clients -> BOOLEAN] /\ pieces' \in [Clients -> Nat]
    <2>1. CASE job.kind = "manual"
      <3>1. manual \in Clients /\ pieces[manual] - 1 \in Nat
        BY <2>1 DEF Core, CoreType, JobFits
      <3> QED
        BY Zenon, <2>1, <3>1 DEF CompactionReturns, Core, CoreType
    <2>2. CASE job.kind # "manual"
      BY <2>2 DEF CompactionReturns, Core, CoreType
    <2> QED
      BY <2>1, <2>2
  <1>5. UNCHANGED <<cpc, opc, switches>> /\ bgError' \in BOOLEAN
    BY DEF CompactionReturns, Core, CoreType
  <1>6. CoreType' /\ JobFits' /\ NoCallsInDestructor' /\ SlotOwner'
    BY <1>1, <1>2, <1>3, <1>4, <1>5 DEF Core, CoreType, JobFits, NoJob, Jobs,
       BgPoints, NoCallsInDestructor, SlotOwner
  <1> QED
    BY <1>2, <1>3, <1>6 DEF Core

(* The merge loop of DoCompactionWork ends.                                  *)
LEMMA InputsMergedKeepsCore ==
  ASSUME Core, InputsMerged
  PROVE  Core'
  <1>1. PICK ok \in BOOLEAN :
          /\ IOResult(ok)
          /\ UNCHANGED shape
          /\ IF ok /\ ~shuttingDown
             THEN /\ bgpc' = "install"
                  /\ UNCHANGED <<imm, bgError, scheduled, shuttingDown, manualVars,
                                 job, opc, sleepers, switches>>
             ELSE CompactionReturns(FALSE)
    BY Zenon DEF InputsMerged
  <1>2. bgpc = "work" /\ errors' \in Nat
    BY <1>1, IOResultType DEF InputsMerged, Core, CoreType
  <1>3. CASE ok /\ ~shuttingDown
    <2>1. JobFits'
      BY <1>1, <1>2, <1>3 DEF Core, CoreType, JobFits, NoJob, shape, manualVars
    <2> QED
      BY <1>1, <1>2, <1>3, <2>1, BgMoves DEF BgPoints, Core, CoreType
  <1>4. CASE ~(ok /\ ~shuttingDown)
    <2>1. CompactionReturns(FALSE) /\ UNCHANGED <<l0, debt, seek>>
      BY Zenon, <1>1, <1>4 DEF shape
    <2>2. seek' \in BOOLEAN /\ l0' \in Nat /\ l0' <= l0 /\ debt' \in Nat
      BY <2>1 DEF Core, CoreType
    <2> QED
      BY Zenon, <1>2, <2>1, <2>2, CompactionReturnsKeepsCore
  <1> QED
    BY <1>3, <1>4

(* The result of a compaction is installed, or LogAndApply fails.            *)
LEMMA CompactionAppliedKeepsCore ==
  ASSUME Core, CompactionApplied
  PROVE  Core'
  <1>1. PICK ok \in BOOLEAN :
          /\ IOResult(ok)
          /\ IF ok
             THEN /\ l0' = L0Left
                  /\ \E more \in BOOLEAN :
                       debt' = IF job.l0 = 0 /\ debt > 0 THEN debt - 1
                               ELSE IF more /\ debt < MaxDebt THEN debt + 1
                               ELSE debt
                  /\ seek' = FALSE
             ELSE UNCHANGED shape
          /\ CompactionReturns(ok)
    BY DEF CompactionApplied
  <1>2. bgpc = "install" /\ errors' \in Nat
    BY <1>1, IOResultType DEF CompactionApplied, Core, CoreType
  <1>3. job.l0 \in Nat /\ job.l0 <= l0
    BY DEF Core, CoreType, JobFits, Jobs
  <1>4. seek' \in BOOLEAN /\ l0' \in Nat /\ l0' <= l0 /\ debt' \in Nat
    <2>1. CASE ok
      <3>1. l0' = l0 - job.l0 /\ seek' = FALSE
        BY <1>1, <2>1 DEF L0Left
      <3>2. PICK more \in BOOLEAN :
              debt' = IF job.l0 = 0 /\ debt > 0 THEN debt - 1
                      ELSE IF more /\ debt < MaxDebt THEN debt + 1 ELSE debt
        BY <1>1, <2>1
      <3>3. debt' \in Nat
        BY <3>2 DEF Core, CoreType
      <3>4. l0' \in Nat /\ l0' <= l0
        BY <1>3, <3>1 DEF Core, CoreType
      <3> QED
        BY Zenon, <3>1, <3>3, <3>4
    <2>2. CASE ~ok
      <3>1. UNCHANGED <<l0, debt, seek>>
        BY <1>1, <2>2 DEF shape
      <3> QED
        BY <3>1 DEF Core, CoreType
    <2> QED
      BY <2>1, <2>2
  <1> QED
    BY <1>1, <1>2, <1>4, CompactionReturnsKeepsCore

(* Every step of the background thread keeps the invariant, and wakes everybody *)
(* or nobody.                                                                *)
LEMMA BackgroundKeepsCore ==
  ASSUME Core, Background
  PROVE  Core' /\ (sleepers' = sleepers \/ sleepers' = {})
  <1>1. Core'
    BY BeginKeepsCore, TableBuiltKeepsCore, MemTableAppliedKeepsCore,
       PlainReturnKeepsCore, InputsMergedKeepsCore, CompactionAppliedKeepsCore
       DEF Background
  <1>2. sleepers' = sleepers \/ sleepers' = {}
    BY Zenon DEF Background, BackgroundCallDuringShutdown, BeginMemTable,
       ManualHasNoInputs, BeginManual, BeginPicked, TableBuilt, MemTableApplied,
       PrioritizeMemTable, InputsMerged, CompactionApplied, BackoffElapsed,
       BackgroundCallReturns, AfterCompaction, CompactMemTableReturns,
       CompactionReturns
  <1> QED
    BY <1>1, <1>2

-----------------------------------------------------------------------------
(* The steps of the clients and of the destructor.                           *)

(* Work is added and MaybeScheduleCompaction called: a call that is queued or   *)
(* running stays, and otherwise one is queued.                               *)
LEMMA ScheduleKeeps ==
  ASSUME Core, ~shuttingDown, UNCHANGED <<l0, debt, shuttingDown>>,
         ScheduleFromClient, imm' \in BOOLEAN, seek' \in BOOLEAN,
         imm => imm', seek => seek', manual # None => manual' # None
  PROVE  /\ scheduled' \in BOOLEAN /\ bgpc' \in BgPoints
         /\ bgpc' = bgpc \/ (bgpc = "idle" /\ bgpc' = "queued")
         /\ OneCall' /\ WorkIsScheduled' /\ QueuedCallHasWork'
         /\ scheduled => scheduled'
  <1> DEFINE work == imm' \/ manual' # None \/ NeedsCompaction(l0', debt', seek')
  <1>1. scheduled' = (scheduled \/ work)
    BY DEF ScheduleFromClient, MaybeScheduleCompaction
  <1>2. bgpc' = IF scheduled' /\ ~scheduled THEN "queued" ELSE bgpc
    BY DEF ScheduleFromClient
  <1>3. QueuedCallHasWork'
    <2>1. CASE bgpc = "queued"
      BY <2>1 DEF Core, CoreType, QueuedCallHasWork, NeedsCompaction, SizeCompaction
    <2>2. CASE bgpc # "queued"
      BY <1>1, <1>2, <2>2 DEF Core, CoreType, QueuedCallHasWork
    <2> QED
      BY <2>1, <2>2
  <1>4. WorkIsScheduled'
    BY Zenon, <1>1 DEF WorkIsScheduled, Core, CoreType
  <1>5. scheduled' \in BOOLEAN
    BY <1>1 DEF Core, CoreType, NeedsCompaction, SizeCompaction
  <1>6. CASE scheduled
    BY Zenon, <1>1, <1>2, <1>3, <1>4, <1>5, <1>6 DEF Core, CoreType, OneCall
  <1>7. CASE ~scheduled
    BY <1>2, <1>3, <1>4, <1>5, <1>7 DEF Core, CoreType, OneCall, BgPoints
  <1> QED
    BY <1>6, <1>7

(* A client takes the slot or waits for it.                                  *)
LEMMA ClaimKeepsCore ==
  ASSUME Core, NEW c \in Clients, opc = "open", c \notin sleepers, manual # c,
         ClaimManualSlot(c),
         UNCHANGED <<imm, shape, bgError, shuttingDown, job, opc, errors, switches>>,
         pieces' \in [Clients -> Nat], done' \in [Clients -> BOOLEAN],
         \A d \in Clients \ {c} : pieces'[d] = pieces[d]
  PROVE  Core' /\ sleepers' \subseteq sleepers \cup {c}
  <1> USE NamesApart
  <1>0. ~shuttingDown /\ UNCHANGED <<l0, debt, seek>>
    BY DEF Core, NoCallsInDestructor, CoreType, shape
  <1>1. CASE manual # None
    <2>1. /\ cpc' = [cpc EXCEPT ![c] = "slot"] /\ sleepers' = sleepers \cup {c}
          /\ UNCHANGED <<manual, scheduled, bgpc>>
      BY <1>1 DEF ClaimManualSlot
    <2>2. CoreType' /\ OneCall' /\ RoomForTable' /\ NoCallsInDestructor'
      BY <1>0, <2>1 DEF Core, CoreType, OneCall, RoomForTable, NoCallsInDestructor,
         ClientPoints
    <2>3. JobFits' /\ SlotOwner'
      BY <1>0, <1>1, <2>1 DEF Core, CoreType, JobFits, SlotOwner
    <2>4. WorkIsScheduled' /\ QueuedCallHasWork'
      BY <1>0, <2>1 DEF Core, WorkIsScheduled, QueuedCallHasWork, NeedsCompaction,
         SizeCompaction
    <2>5. NoMissedSignal'
      BY <1>1, <2>1 DEF Core, CoreType, NoMissedSignal
    <2> QED
      BY <2>1, <2>2, <2>3, <2>4, <2>5 DEF Core
  <1>2. CASE manual = None
    <2>1. /\ cpc' = [cpc EXCEPT ![c] = "running"] /\ sleepers' = sleepers \cup {c}
          /\ manual' = c /\ ScheduleFromClient
      BY <1>2 DEF ClaimManualSlot
    <2>2. /\ scheduled' \in BOOLEAN /\ bgpc' \in BgPoints
          /\ bgpc' = bgpc \/ (bgpc = "idle" /\ bgpc' = "queued")
          /\ OneCall' /\ WorkIsScheduled' /\ QueuedCallHasWork'
          /\ scheduled => scheduled'
      BY <1>0, <1>2, <2>1, ScheduleKeeps DEF Core, CoreType
    <2>3. CoreType' /\ RoomForTable' /\ NoCallsInDestructor'
      BY <1>0, <2>1, <2>2 DEF Core, CoreType, RoomForTable, NoCallsInDestructor,
         ClientPoints
    <2>4. JobFits' /\ SlotOwner'
      BY <1>0, <1>2, <2>1, <2>2 DEF Core, CoreType, JobFits, SlotOwner
    <2>5. NoMissedSignal'
      BY <1>2, <2>1, <2>2 DEF Core, CoreType, NoMissedSignal
    <2> QED
      BY <2>1, <2>2, <2>3, <2>4, <2>5 DEF Core
  <1> QED
    BY <1>1, <1>2

(* TEST_CompactRange takes the slot, sleeps, wakes up or returns.            *)
LEMMA ClientKeepsInv ==
  ASSUME Inv, NEW c \in Clients, CompactRange(c) \/ SlotWakes(c) \/ RunningWakes(c)
  PROVE  Inv'
  <1> USE NamesApart
  <1>1. CASE CompactRange(c)
    <2>1. cpc[c] = "idle" /\ opc = "open" /\ ClaimManualSlot(c)
      BY <1>1 DEF CompactRange
    <2>2. c \notin sleepers /\ manual # c
      BY <2>1 DEF Inv, Core, NoMissedSignal, SlotOwner
    <2>3. PICK p \in 0..MaxPieces : pieces' = [pieces EXCEPT ![c] = p]
      BY Zenon, <1>1 DEF CompactRange
    <2>4. /\ pieces' \in [Clients -> Nat] /\ done' \in [Clients -> BOOLEAN]
          /\ \A d \in Clients \ {c} : pieces'[d] = pieces[d]
      BY <1>1, <2>3, BoundsAssumption DEF CompactRange, Inv, Core, CoreType
    <2> QED
      BY ZenonT(40), <1>1, <2>1, <2>2, <2>4, ClaimKeepsCore DEF CompactRange, Inv
  <1>2. CASE SlotWakes(c)
    <2>1. opc = "open" /\ manual # c /\ c \notin sleepers
      BY <1>2 DEF SlotWakes, Inv, Core, CoreType, NoCallsInDestructor, SlotOwner
    <2> QED
      BY <1>2, <2>1, ClaimKeepsCore DEF SlotWakes, Inv, Core, CoreType
  <1>3. CASE RunningWakes(c)
    <2>1. opc = "open" /\ c \notin sleepers /\ cpc[c] = "running"
      BY <1>3 DEF RunningWakes, Inv, Core, CoreType, NoCallsInDestructor
    <2>2. CASE manual = c
      BY <1>3, <2>1, <2>2 DEF RunningWakes, Inv, Core, CoreType, OneCall, JobFits,
         RoomForTable, NoCallsInDestructor, SlotOwner, WorkIsScheduled,
         QueuedCallHasWork, NoMissedSignal, NeedsCompaction, SizeCompaction, shape
    <2>3. CASE manual # c /\ done[c]
      <3>1. /\ cpc' = [cpc EXCEPT ![c] = "idle"]
            /\ UNCHANGED <<imm, l0, debt, seek, bgError, shuttingDown, pieces, done,
                           job, opc, errors, switches, manual, sleepers, scheduled,
                           bgpc>>
        BY <1>3, <2>3 DEF RunningWakes, shape
      <3>2. CoreType' /\ OneCall' /\ JobFits' /\ RoomForTable' /\ NoCallsInDestructor'
        BY <2>1, <3>1 DEF Inv, Core, CoreType, OneCall, JobFits, RoomForTable,
           NoCallsInDestructor, ClientPoints
      <3>3. SlotOwner' /\ WorkIsScheduled' /\ QueuedCallHasWork'
        BY <2>3, <3>1 DEF Inv, Core, CoreType, SlotOwner, WorkIsScheduled,
           QueuedCallHasWork, NeedsCompaction, SizeCompaction
      <3>4. NoMissedSignal'
        BY <2>1, <3>1 DEF Inv, Core, CoreType, NoMissedSignal
      <3> QED
        BY <3>1, <3>2, <3>3, <3>4 DEF Inv, Core
    <2>4. CASE manual # c /\ ~done[c]
      BY <1>3, <2>1, <2>4, ClaimKeepsCore DEF RunningWakes, Inv, Core, CoreType
    <2> QED
      BY <2>2, <2>3, <2>4
  <1> QED
    BY <1>1, <1>2, <1>3

(* A full memtable or a file seeked too often.                               *)
LEMMA NewWorkKeepsInv ==
  ASSUME Inv, SwitchMemTable \/ SeekTooOften
  PROVE  Inv'
  <1> USE NamesApart
  <1>1. /\ opc = "open" /\ ScheduleFromClient
        /\ UNCHANGED <<l0, debt, bgError, shuttingDown, manual, pieces, done, cpc, job,
                       opc, sleepers, errors>>
        /\ switches' \in Nat
    BY DEF SwitchMemTable, SeekTooOften, Inv, Core, CoreType, shape, manualVars
  <1>2. imm' \in BOOLEAN /\ seek' \in BOOLEAN /\ (imm => imm') /\ (seek => seek')
    BY Zenon DEF SwitchMemTable, SeekTooOften, Inv, Core, CoreType, shape
  <1>3. ~shuttingDown
    BY <1>1 DEF Inv, Core, CoreType, NoCallsInDestructor
  <1>4. RoomForTable'
    <2>1. CASE SwitchMemTable
      BY <1>1, <2>1, BoundsAssumption DEF SwitchMemTable, Inv, Core, CoreType,
         RoomForTable
    <2>2. CASE SeekTooOften
      BY <1>1, <2>2 DEF SeekTooOften, Inv, Core, CoreType, RoomForTable
    <2> QED
      BY <2>1, <2>2
  <1>5. /\ scheduled' \in BOOLEAN /\ bgpc' \in BgPoints
        /\ bgpc' = bgpc \/ (bgpc = "idle" /\ bgpc' = "queued")
        /\ OneCall' /\ WorkIsScheduled' /\ QueuedCallHasWork'
        /\ scheduled => scheduled'
    BY <1>1, <1>2, <1>3, ScheduleKeeps DEF Inv
  <1>6. CoreType' /\ NoCallsInDestructor' /\ SlotOwner'
    BY <1>1, <1>2, <1>5 DEF Inv, Core, CoreType, NoCallsInDestructor, SlotOwner
  <1>7. JobFits' /\ NoMissedSignal'
    BY <1>1, <1>2, <1>5 DEF Inv, Core, CoreType, JobFits, NoMissedSignal
  <1> QED
    BY <1>1, <1>4, <1>5, <1>6, <1>7 DEF Inv, Core

(* The destructor begins, sleeps on or frees the database.                   *)
LEMMA DestructorKeepsInv ==
  ASSUME Inv, Destroy \/ DestroyWakes
  PROVE  Inv'
  <1> USE NamesApart
  <1>1. /\ UNCHANGED <<imm, l0, debt, seek, bgError, scheduled, manual, pieces, done,
                       cpc, bgpc, job, errors, switches>>
        /\ \A c \in Clients : cpc[c] = "idle"
        /\ shuttingDown' = TRUE /\ opc' \in {"waiting", "gone"}
        /\ opc' = "gone" => ~scheduled
    BY DEF Destroy, DestroyWakes, Inv, Core, CoreType, NoCallsInDestructor, shape,
       manualVars
  <1>2. sleepers' = sleepers \/ (scheduled /\ sleepers' = sleepers \cup {Owner})
    BY DEF Destroy, DestroyWakes
  <1>3. CoreType' /\ OneCall' /\ JobFits' /\ RoomForTable'
    BY <1>1 DEF Inv, Core, CoreType, OneCall, JobFits, RoomForTable
  <1>4. NoCallsInDestructor' /\ SlotOwner' /\ WorkIsScheduled' /\ QueuedCallHasWork'
    BY <1>1 DEF Inv, Core, CoreType, NoCallsInDestructor, SlotOwner, WorkIsScheduled,
       QueuedCallHasWork
  <1>5. NoMissedSignal'
    BY <1>1, <1>2 DEF Inv, Core, CoreType, NoMissedSignal
  <1> QED
    BY <1>2, <1>3, <1>4, <1>5 DEF Inv, Core

(* A thread wakes up without a signal.                                       *)
LEMMA SpuriousKeepsInv ==
  ASSUME Inv, SpuriousWakeup
  PROVE  Inv'
  <1>1. sleepers' \subseteq sleepers
    BY DEF SpuriousWakeup
  <1>2. UNCHANGED <<imm, l0, debt, seek, bgError, scheduled, shuttingDown, manual,
                    pieces, done, cpc, bgpc, job, opc, errors, switches>>
    BY DEF SpuriousWakeup, shape, manualVars
  <1>3. NoMissedSignal'
    BY <1>1, <1>2 DEF Inv, Core, NoMissedSignal
  <1> QED
    BY <1>1, <1>2, <1>3 DEF Inv, Core, CoreType, OneCall, JobFits, RoomForTable,
       NoCallsInDestructor, SlotOwner, WorkIsScheduled, QueuedCallHasWork,
       NeedsCompaction, SizeCompaction

(* Every step keeps the invariant.                                           *)
LEMMA NextInv == Inv /\ [Next]_vars => Inv'
  <1> SUFFICES ASSUME Inv, [Next]_vars PROVE Inv'
    OBVIOUS
  <1>1. CASE Background
    BY <1>1, BackgroundKeepsCore DEF Inv
  <1>2. CASE \E c \in Clients : CompactRange(c) \/ SlotWakes(c) \/ RunningWakes(c)
    BY <1>2, ClientKeepsInv
  <1>3. CASE SwitchMemTable \/ SeekTooOften
    BY <1>3, NewWorkKeepsInv
  <1>4. CASE Destroy \/ DestroyWakes
    BY <1>4, DestructorKeepsInv
  <1>5. CASE SpuriousWakeup
    BY <1>5, SpuriousKeepsInv
  <1>6. CASE UNCHANGED vars
    BY <1>6 DEF vars, shape, manualVars, Inv, Core, CoreType, OneCall, JobFits,
       RoomForTable, NoCallsInDestructor, SlotOwner, WorkIsScheduled,
       QueuedCallHasWork, NoMissedSignal, NeedsCompaction, SizeCompaction
  <1> QED
    BY <1>1, <1>2, <1>3, <1>4, <1>5, <1>6 DEF Next, Foreground

(* The inductive invariant holds in every behaviour.                         *)
THEOREM InvHolds == Spec => []Inv
  <1>1. Init => Inv
    BY InitInv
  <1>2. Inv /\ [Next]_vars => Inv'
    BY NextInv
  <1> QED
    BY <1>1, <1>2, PTL DEF Spec

(* The variables keep their types: the counts of files, pieces and debts that   *)
(* the background thread lowers never become negative.                       *)
THEOREM TypeCorrect == Spec => []TypeOK
  <1>1. Inv => TypeOK
    BY DEF Inv, Core, CoreType, TypeOK
  <1> QED
    BY <1>1, InvHolds, PTL

(* MaybeScheduleCompaction is called often enough: work always has a call       *)
(* scheduled for it.                                                         *)
THEOREM WorkScheduled == Spec => []WorkIsScheduled
  <1>1. Inv => WorkIsScheduled
    BY DEF Inv, Core
  <1> QED
    BY <1>1, InvHolds, PTL

(* A queued call never finds nothing to do.                                  *)
THEOREM CallHasWork == Spec => []QueuedCallHasWork
  <1>1. Inv => QueuedCallHasWork
    BY DEF Inv, Core
  <1> QED
    BY <1>1, InvHolds, PTL

(* Nobody sleeps on bg_cv_ without a reason.                                 *)
THEOREM NoSignalMissed == Spec => []NoMissedSignal
  <1>1. Inv => NoMissedSignal
    BY DEF Inv, Core
  <1> QED
    BY <1>1, InvHolds, PTL

(* The background thread only follows manual_compaction_ into live frames.    *)
THEOREM ManualAlive == Spec => []ManualFrameAlive
  <1>1. Inv => ManualFrameAlive
    BY DEF Inv, Core, SlotOwner, JobFits, ManualFrameAlive
  <1> QED
    BY <1>1, InvHolds, PTL

(* When the destructor has returned, the background thread is done.          *)
THEOREM FreedIsIdle == Spec => []NoWorkAfterFree
  <1>1. Inv => NoWorkAfterFree
    BY DEF Inv, Core, CoreType, OneCall, NoCallsInDestructor, NoWorkAfterFree
  <1> QED
    BY <1>1, InvHolds, PTL

(* Level 0 never exceeds the limit at which the writers stop.                *)
THEOREM LevelZeroBounded == Spec => []L0Bounded
  <1>1. Inv => L0Bounded
    BY DEF Inv, Core, RoomForTable, L0Bounded
  <1> QED
    BY <1>1, InvHolds, PTL
=============================================================================
