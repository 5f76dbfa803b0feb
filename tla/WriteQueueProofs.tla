-------------------------- MODULE WriteQueueProofs --------------------------
(***************************************************************************)
(* The safety of WriteQueue, for any number of threads and calls and any     *)
(* size of batches: the inductive invariant, the steps of the writer at the  *)
(* front of the queue, of the other threads and of the background work, and   *)
(* what follows from them.                                                   *)
(***************************************************************************)
EXTENDS WriteQueue, TLAPS

-----------------------------------------------------------------------------
(* The inductive invariant.                                                  *)

(* writers_ holds each waiting Writer once: the one at the front may be         *)
(* writing, the others wait on their condition variable.                     *)
QueueOK ==
    /\ \A i, j \in 1..Len(writers) : writers[i] = writers[j] => i = j
    /\ \A i \in 1..Len(writers) :
         pc[writers[i]] \in FrontPoints \cup {"cv"} /\ ~w[writers[i]].done
    /\ \A t \in Threads : pc[t] = "cv" /\ ~w[t].done
                            => \E i \in 1..Len(writers) : writers[i] = t

(* A thread past the wait of Write is at the front, and its group is a prefix    *)
(* of writers_.                                                              *)
FrontOK ==
    \A t \in Threads : pc[t] \in FrontPoints =>
        /\ Len(writers) >= 1 /\ writers[1] = t
        /\ loc[t].pos <= Len(writers)

MutexOK ==
    /\ mutex # Free => pc[mutex] \in LockedPoints
    /\ \A t \in Threads : pc[t] \in LockedPoints => mutex = t

AsleepOK ==
    \A t \in asleep : pc[t] = "cv" /\ ~w[t].done /\ writers[1] # t

(* The updates of the group get the sequence numbers after LastSequence, in     *)
(* order, until SetLastSequence.                                             *)
Numbering == {"group", "log", "sync", "insert", "relock"}
NumbersOK ==
    \A t \in Threads :
        /\ pc[t] \in {"room", "delay", "bgwait", "group", "log", "sync"}
             => loc[t].idx = 1
        /\ pc[t] \in Numbering =>
             /\ loc[t].base = lastSequence + 1
             /\ loc[t].idx <= Len(loc[t].upds) + 1
        /\ pc[t] \in {"group", "log", "sync", "insert"}
             => loc[t].idx <= Len(loc[t].upds)

(* What is stored was numbered before: up to LastSequence, or by the group in    *)
(* progress.                                                                 *)
StoredOK ==
    \/ \A e \in Stored : e.seq <= lastSequence
    \/ \E t \in Threads : /\ pc[t] \in {"insert", "relock"}
                          /\ \A e \in Stored : e.seq <= lastSequence + loc[t].idx - 1

ImmOK == ~imm => immEntries = {}

WInv ==
    /\ WTypeOK /\ QueueOK /\ FrontOK /\ MutexOK /\ AsleepOK /\ NumbersOK
    /\ StoredOK /\ ImmOK /\ SequenceUnique

(* The initial state satisfies the invariant.                                *)
LEMMA InitWInv == WInit => WInv
  <1> SUFFICES ASSUME WInit PROVE WInv
    OBVIOUS
  <1>1. WTypeOK
    BY WriteAssumption DEF WInit, Init, WTypeOK, WriterType, LocalType, NoWriter,
       NoLocals, Points, Entries, Updates
  <1>2. QueueOK /\ FrontOK /\ MutexOK /\ AsleepOK /\ NumbersOK
    BY FreeAssumption DEF WInit, QueueOK, FrontOK, MutexOK, AsleepOK, NumbersOK,
       FrontPoints, LockedPoints, Numbering
  <1>3. StoredOK /\ ImmOK /\ SequenceUnique
    BY DEF WInit, StoredOK, ImmOK, SequenceUnique, Stored
  <1> QED
    BY <1>1, <1>2, <1>3 DEF WInv

-----------------------------------------------------------------------------
(* Facts about the front writer.                                             *)

(* How the sets of points relate.                                            *)
LEMMA PointsApart ==
  /\ LockedPoints \subseteq FrontPoints /\ FrontPoints \subseteq Points
  /\ Numbering \subseteq FrontPoints
  /\ "cv" \notin FrontPoints /\ "idle" \notin FrontPoints
  /\ "immwait" \notin FrontPoints
  BY DEF LockedPoints, FrontPoints, Points, Numbering

(* There is one writer past the wait of Write.                               *)
LEMMA OneFront ==
  ASSUME WInv, NEW t \in Threads, NEW v \in Threads,
         pc[t] \in FrontPoints, pc[v] \in FrontPoints
  PROVE  t = v
  BY DEF WInv, FrontOK

(* The front writer moves from one point to another.                         *)
LEMMA FrontMoves ==
  ASSUME WInv, NEW t \in Threads, pc[t] \in FrontPoints,
         NEW p \in FrontPoints, GoTo(t, p),
         UNCHANGED <<writers, w, asleep>>,
         loc' \in [Threads -> LocalType],
         \A v \in Threads \ {t} : loc'[v] = loc[v],
         loc'[t].pos <= Len(writers),
         \/ p \in LockedPoints /\ mutex' = t
         \/ p \notin LockedPoints /\ mutex' = Free
         \/ p \notin LockedPoints /\ pc[t] \notin LockedPoints /\ mutex' = mutex
  PROVE  /\ QueueOK' /\ FrontOK' /\ MutexOK' /\ AsleepOK'
         /\ pc' \in [Threads -> Points] /\ mutex' \in Threads \cup {Free}
  <1> USE PointsApart
  <1>1. pc' = [pc EXCEPT ![t] = p] /\ pc \in [Threads -> Points]
    BY DEF GoTo, WInv, WTypeOK
  <1>2. QueueOK'
    BY <1>1 DEF WInv, WTypeOK, QueueOK
  <1>3. FrontOK'
    BY <1>1, OneFront DEF WInv, WTypeOK, FrontOK
  <1>4. AsleepOK'
    BY <1>1 DEF WInv, WTypeOK, AsleepOK
  <1>5. MutexOK'
    <2>1. \A v \in Threads : v # t => pc'[v] \notin LockedPoints
      BY <1>1, OneFront
    <2>2. CASE mutex' = t /\ p \in LockedPoints
      BY <1>1, <2>1, <2>2 DEF MutexOK
    <2>3. CASE mutex' = Free /\ p \notin LockedPoints
      BY <1>1, <2>1, <2>3 DEF MutexOK
    <2>4. CASE p \notin LockedPoints /\ pc[t] \notin LockedPoints /\ mutex' = mutex
      <3>1. mutex = Free
        BY <2>4, OneFront DEF WInv, WTypeOK, MutexOK
      <3> QED
        BY <1>1, <2>1, <2>4, <3>1 DEF MutexOK
    <2> QED
      BY <2>2, <2>3, <2>4
  <1>6. pc' \in [Threads -> Points] /\ mutex' \in Threads \cup {Free}
    BY <1>1 DEF WInv, WTypeOK
  <1> QED
    BY <1>2, <1>3, <1>4, <1>5, <1>6

(* Nothing is stored, and nobody is numbering updates but perhaps t.         *)
LEMMA NothingStored ==
  ASSUME WInv, NEW t \in Threads, pc[t] \in FrontPoints,
         UNCHANGED <<mem, immEntries, flushed, lastSequence>>,
         NEW p \in FrontPoints, GoTo(t, p),
         \A v \in Threads \ {t} : loc'[v] = loc[v],
         pc[t] \in {"insert", "relock"} => FALSE
  PROVE  StoredOK' /\ SequenceUnique'
  <1>1. Stored' = Stored
    BY DEF Stored
  <1>2. \A e \in Stored : e.seq <= lastSequence
    <2>1. \A v \in Threads : pc[v] \notin {"insert", "relock"}
      BY OneFront DEF FrontPoints
    <2> QED
      BY <2>1 DEF WInv, StoredOK
  <1> QED
    BY <1>1, <1>2 DEF WInv, StoredOK, SequenceUnique

-----------------------------------------------------------------------------
(* MakeRoomForWrite and BuildBatchGroup keep the invariant.                  *)

(* The locals of t change, but for its group and its numbers.                *)
SameGroup(L, M, t) ==
    /\ M \in [Threads -> LocalType]
    /\ \A v \in Threads \ {t} : M[v] = L[v]
    /\ M[t].pos = L[t].pos /\ M[t].base = L[t].base
    /\ M[t].idx = L[t].idx /\ M[t].upds = L[t].upds

(* So it is when a flag is cleared.                                          *)
LEMMA FlagCleared ==
  ASSUME NEW L \in [Threads -> LocalType], NEW t \in Threads
  PROVE  /\ SameGroup(L, L, t)
         /\ SameGroup(L, [L EXCEPT ![t].ok = FALSE], t)
         /\ SameGroup(L, [L EXCEPT ![t].force = FALSE], t)
         /\ SameGroup(L, [L EXCEPT ![t].allowDelay = FALSE], t)
  <1>1. L[t] \in LocalType
    OBVIOUS
  <1>2. /\ [L[t] EXCEPT !.ok = FALSE] \in LocalType
        /\ [L[t] EXCEPT !.force = FALSE] \in LocalType
        /\ [L[t] EXCEPT !.allowDelay = FALSE] \in LocalType
    BY Zenon, <1>1 DEF LocalType
  <1>3. SameGroup(L, [L EXCEPT ![t].ok = FALSE], t)
    BY <1>1, <1>2 DEF LocalType, SameGroup
  <1>4. SameGroup(L, [L EXCEPT ![t].force = FALSE], t)
    BY <1>1, <1>2 DEF LocalType, SameGroup
  <1>5. SameGroup(L, [L EXCEPT ![t].allowDelay = FALSE], t)
    BY <1>1, <1>2 DEF LocalType, SameGroup
  <1> QED
    BY <1>3, <1>4, <1>5 DEF SameGroup

(* The branches that change neither the data nor the group.                  *)
LEMMA RoomStepKeepsWInv ==
  ASSUME WInv, NEW t \in Threads,
         \/ RoomError(t) \/ RoomDelay(t) \/ DelayElapsed(t) \/ RoomWait(t)
         \/ RoomWakes(t) \/ GroupClosed(t)
  PROVE  WInv'
  <1> DEFINE p == pc'[t]
  <1>1. /\ pc[t] \in FrontPoints /\ p \in FrontPoints /\ GoTo(t, p)
        /\ p \in Numbering => pc[t] = "group" /\ p = "log"
        /\ pc[t] \notin {"insert", "relock"}
    BY DEF RoomError, RoomDelay, DelayElapsed, RoomWait, RoomWakes, GroupClosed,
       PastDelay, GoTo, FrontPoints, LockedPoints, WInv, WTypeOK, Numbering
  <1>2. /\ UNCHANGED <<dataVars, ghostVars, writers, w, asleep, imm>>
        /\ sleepers' \subseteq sleepers \cup {t}
    BY DEF RoomError, RoomDelay, DelayElapsed, RoomWait, RoomWakes, GroupClosed, vars
  <1>3. /\ loc' \in [Threads -> LocalType]
        /\ \A v \in Threads \ {t} : loc'[v] = loc[v]
        /\ loc'[t].pos = loc[t].pos /\ loc'[t].base = loc[t].base
        /\ loc'[t].idx = loc[t].idx /\ loc'[t].upds = loc[t].upds
    <2>1. loc \in [Threads -> LocalType]
      BY DEF WInv, WTypeOK
    <2>2. \/ loc' = loc
          \/ loc' = [loc EXCEPT ![t].ok = FALSE]
          \/ loc' = [loc EXCEPT ![t].allowDelay = FALSE]
      BY DEF RoomError, RoomDelay, DelayElapsed, RoomWait, RoomWakes, GroupClosed
    <2>3. SameGroup(loc, loc', t)
      BY <2>1, <2>2, FlagCleared, Zenon
    <2> QED
      BY <2>3 DEF SameGroup
  <1>4. \/ p \in LockedPoints /\ mutex' = t
        \/ p \notin LockedPoints /\ mutex' = Free
    BY DEF RoomError, RoomDelay, DelayElapsed, RoomWait, RoomWakes, GroupClosed,
       PastDelay, GoTo, LockedPoints, WInv, WTypeOK, MutexOK
  <1>5. /\ QueueOK' /\ FrontOK' /\ MutexOK' /\ AsleepOK'
        /\ pc' \in [Threads -> Points] /\ mutex' \in Threads \cup {Free}
    <2>1. loc'[t].pos <= Len(writers)
      BY SMTT(30), <1>1, <1>3 DEF WInv, FrontOK
    <2> HIDE DEF p
    <2> QED
      BY <1>1, <1>2, <1>3, <1>4, <2>1, FrontMoves
  <1>6. StoredOK' /\ SequenceUnique'
    <2> HIDE DEF p
    <2> QED
      BY <1>1, <1>2, <1>3, NothingStored DEF dataVars
  <1>7. NumbersOK'
    <2>1. \A v \in Threads : v # t => pc'[v] \notin FrontPoints
      BY <1>1, OneFront DEF GoTo, WInv, WTypeOK
    <2>2. /\ pc'[t] \in Numbering => pc[t] = "group" /\ pc'[t] = "log"
          /\ pc'[t] # "finish" =>
               pc[t] \in {"room", "delay", "bgwait", "group", "log", "sync"}
      BY <1>1 DEF RoomError, RoomDelay, DelayElapsed, RoomWait, RoomWakes, GroupClosed,
         PastDelay
    <2>3. lastSequence' = lastSequence
      BY <1>2 DEF dataVars
    <2> QED
      BY <1>3, <2>1, <2>2, <2>3
         DEF WInv, NumbersOK, Numbering, FrontPoints, LockedPoints
  <1>8. ImmOK' /\ WTypeOK'
    BY <1>2, <1>3, <1>5 DEF WInv, ImmOK, WTypeOK, dataVars, ghostVars
  <1> QED
    BY <1>5, <1>6, <1>7, <1>8 DEF WInv

(* The switch to a new memtable: imm_ is empty, so nothing is lost.          *)
LEMMA RoomSwitchKeepsWInv ==
  ASSUME WInv, NEW t \in Threads, RoomSwitch(t)
  PROVE  WInv' /\ Stored' = Stored /\ lastSequence' = lastSequence
  <1>1. /\ pc[t] = "room" /\ ~imm /\ immEntries = {}
        /\ pc[t] \in FrontPoints /\ pc[t] \in LockedPoints /\ mutex = t
    BY DEF RoomSwitch, PastDelay, FrontPoints, LockedPoints, WInv, ImmOK, MutexOK
  <1>2. PICK ok \in BOOLEAN :
         /\ IOResult(ok)
         /\ IF ok
            THEN /\ imm' = TRUE /\ immEntries' = mem
                 /\ mem' = {} /\ log' = <<>>
                 /\ loc' = [loc EXCEPT ![t].force = FALSE]
                 /\ UNCHANGED <<shape, manual, pc>>
                 /\ ScheduleFromClient
            ELSE /\ loc' = [loc EXCEPT ![t].ok = FALSE]
                 /\ GoTo(t, "finish")
                 /\ UNCHANGED <<imm, shape, manual, scheduled, bgpc, immEntries,
                                mem, log>>
    BY DEF RoomSwitch
  <1>3. UNCHANGED <<sleepers, lastSequence, flushed, durable, calls, arrival, acked,
                    mutex, writers, w, asleep>>
    BY DEF RoomSwitch, ghostVars
  <1>4. /\ loc' \in [Threads -> LocalType]
        /\ \A v \in Threads \ {t} : loc'[v] = loc[v]
        /\ loc'[t].pos = loc[t].pos /\ loc'[t].idx = loc[t].idx
    <2>1. loc \in [Threads -> LocalType]
      BY DEF WInv, WTypeOK
    <2>2. SameGroup(loc, loc', t)
      BY <1>2, <2>1, FlagCleared, Zenon
    <2> QED
      BY <2>2 DEF SameGroup
  <1>5. /\ immEntries' \cup mem' = mem /\ immEntries' \subseteq Entries
        /\ mem' \subseteq Entries /\ log' \in Seq(Seq(Updates)) /\ ImmOK'
    <2>1. /\ mem \subseteq Entries /\ log \in Seq(Seq(Updates))
          /\ <<>> \in Seq(Seq(Updates))
      BY DEF WInv, WTypeOK
    <2>2. \/ imm' = TRUE /\ immEntries' = mem /\ mem' = {} /\ log' = <<>>
          \/ UNCHANGED <<imm, immEntries, mem, log>>
      BY <1>2
    <2> QED
      BY Zenon, <1>1, <2>1, <2>2 DEF ImmOK
  <1>6. Stored' = Stored
    BY <1>1, <1>3, <1>5 DEF Stored
  <1>7. /\ GoTo(t, pc'[t]) /\ pc'[t] \in {"room", "finish"}
    BY SMTT(30), <1>1, <1>2 DEF WInv, WTypeOK, GoTo
  <1>8. /\ QueueOK' /\ FrontOK' /\ MutexOK' /\ AsleepOK'
        /\ pc' \in [Threads -> Points] /\ mutex' \in Threads \cup {Free}
    <2>1. loc'[t].pos <= Len(writers)
      BY <1>1, <1>4 DEF WInv, FrontOK
    <2>2. pc'[t] \in LockedPoints /\ pc'[t] \in FrontPoints
      BY <1>7 DEF LockedPoints, FrontPoints
    <2> QED
      BY <1>1, <1>3, <1>4, <1>7, <2>1, <2>2, FrontMoves
  <1>9. /\ \A v \in Threads : pc[v] \notin Numbering /\ pc'[v] \notin Numbering
        /\ \A v \in Threads : v # t => pc'[v] \notin FrontPoints
    BY Zenon, <1>1, <1>7, OneFront, PointsApart DEF Numbering, GoTo, WInv, WTypeOK
  <1>10. NumbersOK'
    <2>1. loc'[t].idx = loc[t].idx
      BY <1>4
    <2> QED
      BY <1>1, <1>9, <2>1
         DEF NumbersOK, WInv, Numbering, FrontPoints, LockedPoints
  <1>11. StoredOK' /\ SequenceUnique'
    BY <1>3, <1>6, <1>9 DEF WInv, StoredOK, SequenceUnique, Numbering
  <1> QED
    BY <1>3, <1>4, <1>5, <1>6, <1>8, <1>10, <1>11 DEF WInv, WTypeOK

(* A batch is a sequence of updates.                                         *)
LEMMA BatchSeq ==
  ASSUME WInv, NEW t \in Threads
  PROVE  Batch(t) \in Seq(Updates) /\ Len(Batch(t)) = w[t].batch
  <1>1. w[t].batch \in Nat /\ calls[t] \in Nat
    BY DEF WInv, WTypeOK, WriterType
  <1>2. \A i \in 1..w[t].batch : <<t, calls[t], i>> \in Updates
    BY <1>1 DEF Updates
  <1> QED
    BY <1>1, <1>2 DEF Batch

(* The front writer changes its group under mutex_, before it has inserted      *)
(* anything.                                                                 *)
LEMMA GroupChanges ==
  ASSUME WInv, NEW t \in Threads, pc[t] \in {"room", "group"},
         NEW l \in LocalType, loc' = [loc EXCEPT ![t] = l],
         GoTo(t, "group"),
         l.pos <= Len(writers), l.idx = 1, l.base = lastSequence + 1,
         Len(l.upds) >= 1,
         UNCHANGED <<vars, dataVars, ghostVars, mutex, writers, w, asleep>>
  PROVE  WInv'
  <1>1. pc[t] \in FrontPoints /\ mutex = t /\ "group" \in FrontPoints
        /\ "group" \in LockedPoints
    BY DEF FrontPoints, LockedPoints, WInv, MutexOK
  <1>2. /\ loc' \in [Threads -> LocalType] /\ loc'[t] = l
        /\ \A v \in Threads \ {t} : loc'[v] = loc[v]
    BY DEF WInv, WTypeOK
  <1>3. /\ QueueOK' /\ FrontOK' /\ MutexOK' /\ AsleepOK'
        /\ pc' \in [Threads -> Points] /\ mutex' \in Threads \cup {Free}
    BY <1>1, <1>2, FrontMoves
  <1>4. StoredOK' /\ SequenceUnique'
    BY <1>1, <1>2, NothingStored DEF dataVars
  <1>5. NumbersOK'
    <2>1. \A v \in Threads : v # t => pc'[v] \notin FrontPoints
      BY SMTT(30), <1>1, OneFront DEF GoTo, WInv, WTypeOK
    <2>2. pc'[t] = "group" /\ lastSequence' = lastSequence
      BY DEF GoTo, WInv, WTypeOK, dataVars
    <2> QED
      BY <1>2, <2>1, <2>2
         DEF NumbersOK, Numbering, FrontPoints, LockedPoints, LocalType
  <1>6. WTypeOK' /\ ImmOK'
    BY <1>2, <1>3 DEF WInv, WTypeOK, ImmOK, vars, dataVars, ghostVars
  <1> QED
    BY <1>3, <1>4, <1>5, <1>6 DEF WInv

(* The locals at the start of a group, and after one more follower.          *)
FirstLocals(l, s, m, u, b) ==
    [l EXCEPT !.size = s, !.maxSize = m, !.upds = u, !.base = b]
MoreLocals(l, p, s, u) == [l EXCEPT !.pos = p, !.size = s, !.upds = u]

(* Locals k with this group.                                                 *)
GroupIs(k, p, i, b, u) ==
    k \in LocalType /\ k.pos = p /\ k.idx = i /\ k.base = b /\ k.upds = u

(* What the start of a group makes of the locals.                            *)
LEMMA FirstLocalsOK ==
  ASSUME NEW l \in LocalType, NEW s \in Nat, NEW m \in Nat,
         NEW u \in Seq(Updates), NEW b \in Nat
  PROVE  GroupIs(FirstLocals(l, s, m, u, b), l.pos, l.idx, b, u)
  <1> DEFINE k == FirstLocals(l, s, m, u, b)
  <1>1. k.pos = l.pos /\ k.idx = l.idx /\ k.base = b /\ k.upds = u
    BY DEF LocalType, FirstLocals
  <1>2. k \in LocalType
    BY Zenon DEF LocalType, FirstLocals
  <1> QED
    BY <1>1, <1>2 DEF GroupIs

(* What one more follower makes of them.                                     *)
LEMMA MoreLocalsOK ==
  ASSUME NEW l \in LocalType, NEW p \in Nat \ {0}, NEW s \in Nat,
         NEW u \in Seq(Updates)
  PROVE  GroupIs(MoreLocals(l, p, s, u), p, l.idx, l.base, u)
  <1> DEFINE k == MoreLocals(l, p, s, u)
  <1>1. k.pos = p /\ k.idx = l.idx /\ k.base = l.base /\ k.upds = u
    BY DEF LocalType, MoreLocals
  <1>2. k \in LocalType
    BY Zenon DEF LocalType, MoreLocals
  <1> QED
    BY <1>1, <1>2 DEF GroupIs

(* There is room: the group starts with the updates of t, or a NULL batch is    *)
(* finished.                                                                 *)
LEMMA RoomFoundKeepsWInv ==
  ASSUME WInv, NEW t \in Threads, RoomFound(t)
  PROVE  WInv'
  <1>1. /\ pc[t] = "room" /\ loc[t] \in LocalType /\ loc[t].idx = 1
        /\ w[t].batch \in Nat /\ lastSequence \in Nat
        /\ loc[t].pos <= Len(writers) /\ mutex = t
        /\ UNCHANGED <<vars, dataVars, ghostVars, mutex, writers, w, asleep>>
    BY DEF RoomFound, PastDelay, WInv, WTypeOK, WriterType, NumbersOK, FrontOK,
       FrontPoints, LockedPoints, MutexOK
  <1>2. CASE w[t].batch = 0
    <2>1. GoTo(t, "finish") /\ loc' = loc
      BY <1>2 DEF RoomFound
    <2>2. /\ pc[t] \in FrontPoints /\ "finish" \in FrontPoints
          /\ "finish" \in LockedPoints
      BY <1>1 DEF FrontPoints, LockedPoints
    <2>3. /\ QueueOK' /\ FrontOK' /\ MutexOK' /\ AsleepOK'
          /\ pc' \in [Threads -> Points] /\ mutex' \in Threads \cup {Free}
      <3>1. loc \in [Threads -> LocalType]
        BY SMTT(30) DEF WInv, WTypeOK
      <3> QED
        BY <1>1, <2>1, <2>2, <3>1, FrontMoves
    <2>4. StoredOK' /\ SequenceUnique'
      BY <1>1, <2>1, <2>2, NothingStored DEF dataVars
    <2>5. NumbersOK'
      <3>1. \A v \in Threads : v # t => pc'[v] \notin FrontPoints
        BY <2>1, <2>2, OneFront DEF GoTo, WInv, WTypeOK
      <3>2. pc'[t] = "finish"
        BY <2>1 DEF GoTo, WInv, WTypeOK
      <3> QED
        BY <3>1, <3>2 DEF NumbersOK, Numbering, FrontPoints, LockedPoints
    <2>6. WTypeOK' /\ ImmOK'
      BY <1>1, <2>1, <2>3 DEF WInv, WTypeOK, ImmOK, vars, dataVars, ghostVars
    <2> QED
      BY <2>3, <2>4, <2>5, <2>6 DEF WInv
  <1>3. CASE w[t].batch # 0
    <2> DEFINE m == IF w[t].batch <= SmallSize THEN w[t].batch + SmallSize
                    ELSE MaxGroupSize
               l == FirstLocals(loc[t], w[t].batch, m, Batch(t), lastSequence + 1)
    <2>1. GoTo(t, "group") /\ loc' = [loc EXCEPT ![t] = l]
      BY Zenon, <1>3 DEF RoomFound, FirstLocals
    <2>2. m \in Nat
      BY <1>1, WriteAssumption
    <2> HIDE DEF m
    <2>3. Batch(t) \in Seq(Updates) /\ Len(Batch(t)) >= 1
      BY <1>1, <1>3, BatchSeq
    <2>4. lastSequence + 1 \in Nat
      BY <1>1
    <2>5. GroupIs(l, loc[t].pos, loc[t].idx, lastSequence + 1, Batch(t))
      BY <1>1, <2>2, <2>3, <2>4, FirstLocalsOK
    <2> HIDE DEF l
    <2> QED
      BY Zenon, <1>1, <2>1, <2>3, <2>5, GroupChanges DEF GroupIs
  <1> QED
    BY <1>2, <1>3

(* A follower joins the group.                                               *)
LEMMA GroupGrowsKeepsWInv ==
  ASSUME WInv, NEW t \in Threads, GroupGrows(t)
  PROVE  WInv'
  <1> DEFINE v == writers[loc[t].pos + 1]
             l == MoreLocals(loc[t], loc[t].pos + 1, loc[t].size + w[v].batch,
                             loc[t].upds \o Batch(v))
  <1>1. /\ pc[t] = "group" /\ loc[t] \in LocalType /\ loc[t].idx = 1
        /\ loc[t].base = lastSequence + 1 /\ loc[t].pos < Len(writers)
        /\ 1 <= Len(loc[t].upds)
        /\ UNCHANGED <<vars, dataVars, ghostVars, mutex, writers, w, asleep, pc>>
    BY DEF GroupGrows, WInv, WTypeOK, NumbersOK, Numbering
  <1>2. v \in Threads /\ w[v].batch \in Nat
    <2>1. loc[t].pos \in Nat \ {0} /\ writers \in Seq(Threads)
      BY <1>1 DEF WInv, WTypeOK, LocalType
    <2>2. v \in Threads
      BY <1>1, <2>1
    <2>3. w \in [Threads -> WriterType]
      BY DEF WInv, WTypeOK
    <2> HIDE DEF v
    <2> QED
      BY <2>2, <2>3 DEF WriterType
  <1>3. loc' = [loc EXCEPT ![t] = l] /\ GoTo(t, "group")
    BY Zenon, <1>1 DEF GroupGrows, GoTo, WInv, WTypeOK, MoreLocals
  <1> HIDE DEF v
  <1>4. Batch(v) \in Seq(Updates)
    BY <1>2, BatchSeq
  <1>5. loc[t].upds \in Seq(Updates)
    BY <1>1 DEF LocalType
  <1>6. /\ loc[t].upds \o Batch(v) \in Seq(Updates)
        /\ Len(loc[t].upds \o Batch(v)) >= 1
    BY <1>1, <1>4, <1>5
  <1>7. loc[t].pos + 1 \in Nat \ {0} /\ loc[t].size + w[v].batch \in Nat
    BY SMTT(30), <1>1, <1>2 DEF LocalType
  <1>8. GroupIs(l, loc[t].pos + 1, loc[t].idx, loc[t].base, loc[t].upds \o Batch(v))
    BY Zenon, <1>1, <1>6, <1>7, MoreLocalsOK
  <1> HIDE DEF l
  <1>9. l.pos <= Len(writers)
    BY <1>1, <1>8 DEF WInv, WTypeOK, LocalType, GroupIs
  <1> QED
    BY Zenon, <1>1, <1>3, <1>6, <1>8, <1>9, GroupChanges DEF GroupIs

-----------------------------------------------------------------------------
(* The part of Write without mutex_ keeps the invariant.                     *)

(* The log.                                                                  *)
LEMMA LogStepKeepsWInv ==
  ASSUME WInv, NEW t \in Threads, AddRecord(t) \/ Sync(t)
  PROVE  WInv'
  <1> DEFINE p == pc'[t]
  <1>1. /\ pc[t] \in {"log", "sync"}
        /\ UNCHANGED <<imm, sleepers, lastSequence, mem, immEntries, flushed, calls,
                       mutex, writers, w, asleep>>
    BY Zenon DEF AddRecord, Sync, ghostVars
  <1>2. GoTo(t, p) /\ p \in {"sync", "insert", "relock"}
    BY DEF AddRecord, Sync, GoTo, Fail, WInv, WTypeOK
  <1>3. SameGroup(loc, loc', t)
    <2>1. loc \in [Threads -> LocalType]
      BY DEF WInv, WTypeOK
    <2>2. loc' = loc \/ loc' = [loc EXCEPT ![t].ok = FALSE]
      BY DEF AddRecord, Sync, Fail
    <2> QED
      BY <2>1, <2>2, FlagCleared, Zenon
  <1>4. durable' \subseteq Updates /\ log' \in Seq(Seq(Updates))
    <2>1. durable \subseteq Updates /\ log \in Seq(Seq(Updates))
      BY DEF WInv, WTypeOK
    <2>2. LogUpdates \subseteq Updates
      BY <2>1 DEF LogUpdates
    <2>3. loc[t].upds \in Seq(Updates)
      BY SMTT(30) DEF WInv, WTypeOK, LocalType
    <2>4. /\ durable' \in {durable, durable \cup LogUpdates}
          /\ log' \in {log, Append(log, loc[t].upds)}
      BY DEF AddRecord, Sync, Contents
    <2> QED
      BY <2>1, <2>2, <2>3, <2>4
  <1>5. /\ pc[t] \in FrontPoints /\ p \in FrontPoints
        /\ pc[t] \notin LockedPoints /\ p \notin LockedPoints
    BY SMTT(30), <1>1, <1>2 DEF FrontPoints, LockedPoints
  <1>6. loc'[t].pos <= Len(writers)
    BY <1>3, <1>5 DEF WInv, FrontOK, SameGroup
  <1>7. /\ QueueOK' /\ FrontOK' /\ MutexOK' /\ AsleepOK'
        /\ pc' \in [Threads -> Points] /\ mutex' \in Threads \cup {Free}
    <2> HIDE DEF p
    <2> QED
      BY ZenonT(40), <1>1, <1>2, <1>3, <1>5, <1>6, FrontMoves DEF SameGroup
  <1>8. StoredOK' /\ SequenceUnique'
    <2> HIDE DEF p
    <2> QED
      BY ZenonT(40), <1>1, <1>2, <1>3, <1>5, NothingStored DEF SameGroup
  <1>9. NumbersOK'
    <2>1. \A v \in Threads : v # t => pc'[v] \notin FrontPoints
      BY <1>2, <1>5, OneFront DEF GoTo, WInv, WTypeOK
    <2>2. /\ loc[t].idx = 1 /\ loc[t].base = lastSequence + 1
          /\ 1 <= Len(loc[t].upds) /\ Len(loc[t].upds) \in Nat
      BY <1>1 DEF WInv, WTypeOK, LocalType, NumbersOK, Numbering
    <2>3. /\ loc'[t].idx = 1 /\ loc'[t].base = lastSequence' + 1
          /\ 1 <= Len(loc'[t].upds) /\ 1 <= Len(loc'[t].upds) + 1
      <3>1. loc'[t].idx = loc[t].idx /\ loc'[t].base = loc[t].base
            /\ loc'[t].upds = loc[t].upds
        BY <1>3 DEF SameGroup
      <3>2. lastSequence' = lastSequence
        BY <1>1
      <3> QED
        BY <2>2, <3>1, <3>2
    <2> QED
      BY <2>1, <2>3 DEF NumbersOK, Numbering, FrontPoints, LockedPoints
  <1>10. WTypeOK' /\ ImmOK'
    <2>1. UNCHANGED <<calls, arrival, acked>>
      BY Zenon DEF AddRecord, Sync, ghostVars
    <2> QED
      BY <1>1, <1>3, <1>4, <1>7, <2>1 DEF WInv, WTypeOK, ImmOK, SameGroup
  <1> QED
    BY <1>7, <1>8, <1>9, <1>10 DEF WInv

(* One update is inserted, with the number after the last one.               *)
LEMMA InsertIntoKeepsWInv ==
  ASSUME WInv, NEW t \in Threads, InsertInto(t)
  PROVE  /\ WInv'
         /\ lastSequence' = lastSequence
         /\ \E e \in Entries : e.seq > lastSequence /\ Stored' = Stored \cup {e}
  <1> DEFINE i == loc[t].idx
             p == IF i = Len(loc[t].upds) THEN "relock" ELSE "insert"
             e == [seq |-> loc[t].base + i - 1, upd |-> loc[t].upds[i]]
  <1>1. /\ pc[t] = "insert" /\ GoTo(t, p) /\ mem' = mem \cup {e}
        /\ loc' = [loc EXCEPT ![t].idx = i + 1]
        /\ UNCHANGED <<vars, lastSequence, log, immEntries, flushed, durable,
                       ghostVars, mutex, writers, w, asleep>>
    BY DEF InsertInto
  <1>2. /\ loc[t] \in LocalType /\ i \in Nat \ {0} /\ lastSequence \in Nat
        /\ loc[t].base = lastSequence + 1
        /\ i <= Len(loc[t].upds) /\ loc[t].upds \in Seq(Updates)
    BY SMTT(30), <1>1 DEF WInv, WTypeOK, LocalType, NumbersOK, Numbering
  <1>3. e \in Entries /\ e.seq = lastSequence + i
    <2>1. loc[t].base + i - 1 = lastSequence + i /\ lastSequence + i \in Nat
      BY <1>2
    <2>2. loc[t].upds[i] \in Updates
      BY <1>2
    <2> QED
      BY <2>1, <2>2 DEF Entries
  <1>4. /\ loc' \in [Threads -> LocalType]
        /\ \A v \in Threads \ {t} : loc'[v] = loc[v]
        /\ loc'[t].pos = loc[t].pos /\ loc'[t].base = loc[t].base
        /\ loc'[t].idx = i + 1 /\ loc'[t].upds = loc[t].upds
    <2>1. loc \in [Threads -> LocalType] /\ i + 1 \in Nat \ {0}
      BY <1>2 DEF WInv, WTypeOK
    <2>2. [loc[t] EXCEPT !.idx = i + 1] \in LocalType
      BY Zenon, <1>2, <2>1 DEF LocalType
    <2>3. /\ loc'[t].pos = loc[t].pos /\ loc'[t].base = loc[t].base
          /\ loc'[t].idx = i + 1 /\ loc'[t].upds = loc[t].upds
      BY <1>1, <1>2, <2>1 DEF LocalType
    <2> QED
      BY <1>1, <2>1, <2>2, <2>3
  <1>5. Stored' = Stored \cup {e}
    BY <1>1 DEF Stored
  <1> HIDE DEF e
  <1>6. /\ pc[t] \in FrontPoints /\ p \in FrontPoints
        /\ pc[t] \notin LockedPoints /\ p \notin LockedPoints
        /\ p \in {"insert", "relock"} /\ pc'[t] = p
    BY <1>1 DEF FrontPoints, LockedPoints, GoTo, WInv, WTypeOK
  <1>7. /\ QueueOK' /\ FrontOK' /\ MutexOK' /\ AsleepOK'
        /\ pc' \in [Threads -> Points] /\ mutex' \in Threads \cup {Free}
    <2>1. loc'[t].pos <= Len(writers)
      BY SMTT(30), <1>4, <1>6 DEF WInv, FrontOK
    <2> HIDE DEF p
    <2> QED
      BY <1>1, <1>4, <1>6, <2>1, FrontMoves
  <1>8. NumbersOK'
    <2>1. \A v \in Threads : v # t => pc'[v] \notin FrontPoints
      BY <1>1, <1>6, OneFront DEF GoTo, WInv, WTypeOK
    <2>2. /\ loc'[t].base = lastSequence' + 1
          /\ loc'[t].idx <= Len(loc'[t].upds) + 1
      BY <1>1, <1>2, <1>4
    <2>3. pc'[t] = "insert" => loc'[t].idx <= Len(loc'[t].upds)
      BY <1>2, <1>4, <1>6
    <2> QED
      BY <1>6, <2>1, <2>2, <2>3 DEF NumbersOK, Numbering, FrontPoints, LockedPoints
  <1>9. \A f \in Stored : f.seq \in Nat /\ f.seq < lastSequence + i
    <2>1. \A f \in Stored : f.seq \in Nat
      BY DEF Stored, WInv, WTypeOK, Entries
    <2>2. \A v \in Threads : pc[v] \in {"insert", "relock"} => v = t
      BY <1>6, OneFront DEF FrontPoints
    <2>3. \/ \A f \in Stored : f.seq <= lastSequence
          \/ \A f \in Stored : f.seq <= lastSequence + i - 1
      BY <2>2 DEF WInv, StoredOK
    <2> QED
      BY <1>2, <2>1, <2>3
  <1>10. SequenceUnique'
    <2>1. \A f \in Stored : f.seq # e.seq
      BY <1>2, <1>3, <1>9
    <2> QED
      BY <1>5, <2>1 DEF WInv, SequenceUnique
  <1>11. StoredOK'
    <2>1. \A f \in Stored' : f.seq <= lastSequence' + loc'[t].idx - 1
      BY <1>1, <1>2, <1>3, <1>4, <1>5, <1>9
    <2> QED
      BY <1>6, <2>1 DEF StoredOK
  <1>12. WTypeOK' /\ ImmOK'
    BY SMTT(30), <1>1, <1>3, <1>4, <1>7 DEF WInv, WTypeOK, ImmOK, vars, ghostVars
  <1>13. e.seq > lastSequence
    BY <1>2, <1>3
  <1> QED
    BY <1>1, <1>3, <1>5, <1>7, <1>8, <1>10, <1>11, <1>12, <1>13 DEF WInv

(* SetLastSequence: the numbers of the group are used up.                    *)
LEMMA RelockKeepsWInv ==
  ASSUME WInv, NEW t \in Threads, Relock(t)
  PROVE  WInv' /\ Stored' = Stored
  <1>1. /\ pc[t] = "relock" /\ mutex' = t /\ GoTo(t, "finish")
        /\ lastSequence' = loc[t].base - 1 + Len(loc[t].upds)
        /\ UNCHANGED <<vars, log, mem, immEntries, flushed, durable, ghostVars,
                       writers, w, asleep, loc>>
    BY DEF Relock, GroupLastSequence
  <1>2. /\ loc \in [Threads -> LocalType] /\ loc[t].idx \in Nat
        /\ lastSequence \in Nat /\ Len(loc[t].upds) \in Nat
        /\ loc[t].base = lastSequence + 1
        /\ loc[t].idx <= Len(loc[t].upds) + 1
    <2>1. loc \in [Threads -> LocalType] /\ lastSequence \in Nat
      BY DEF WInv, WTypeOK
    <2>2. loc[t].idx \in Nat /\ Len(loc[t].upds) \in Nat
      BY SMTT(30), <2>1 DEF LocalType
    <2>3. loc[t].base = lastSequence + 1 /\ loc[t].idx <= Len(loc[t].upds) + 1
      BY <1>1 DEF WInv, NumbersOK, Numbering
    <2> QED
      BY <2>1, <2>2, <2>3
  <1>3. /\ lastSequence' \in Nat /\ lastSequence <= lastSequence'
        /\ lastSequence + loc[t].idx - 1 <= lastSequence'
    <2>1. lastSequence' = loc[t].base - 1 + Len(loc[t].upds)
      BY Zenon, <1>1
    <2>2. lastSequence' = lastSequence + Len(loc[t].upds)
      BY <1>2, <2>1
    <2> QED
      BY SMTT(30), <1>2, <2>2
  <1>4. Stored' = Stored
    BY <1>1 DEF Stored
  <1>5. /\ pc[t] \in FrontPoints /\ "finish" \in FrontPoints
        /\ "finish" \in LockedPoints /\ pc'[t] = "finish"
    BY <1>1 DEF FrontPoints, LockedPoints, GoTo, WInv, WTypeOK
  <1>6. /\ QueueOK' /\ FrontOK' /\ MutexOK' /\ AsleepOK'
        /\ pc' \in [Threads -> Points] /\ mutex' \in Threads \cup {Free}
    <2>1. loc'[t].pos <= Len(writers)
      BY ZenonT(40), <1>1, <1>5 DEF WInv, FrontOK
    <2> QED
      BY <1>1, <1>2, <1>5, <2>1, FrontMoves
  <1>7. NumbersOK'
    <2>1. \A v \in Threads : v # t => pc'[v] \notin FrontPoints
      BY SMTT(30), <1>1, <1>5, OneFront DEF GoTo, WInv, WTypeOK
    <2> QED
      BY <1>5, <2>1 DEF NumbersOK, Numbering, FrontPoints, LockedPoints
  <1>8. StoredOK' /\ SequenceUnique'
    <2>1. \A f \in Stored : f.seq \in Nat
      BY DEF Stored, WInv, WTypeOK, Entries
    <2>2. \A v \in Threads : pc[v] \in {"insert", "relock"} => v = t
      BY <1>5, OneFront DEF FrontPoints
    <2>3. \/ \A f \in Stored : f.seq <= lastSequence
          \/ \A f \in Stored : f.seq <= lastSequence + loc[t].idx - 1
      BY <2>2 DEF WInv, StoredOK
    <2>4. \A f \in Stored : f.seq <= lastSequence'
      BY <1>2, <1>3, <2>1, <2>3
    <2> QED
      BY <1>4, <2>4 DEF StoredOK, WInv, SequenceUnique
  <1>9. WTypeOK' /\ ImmOK'
    BY ZenonT(40), <1>1, <1>3, <1>6 DEF WInv, WTypeOK, ImmOK, vars, ghostVars
  <1> QED
    BY <1>4, <1>6, <1>7, <1>8, <1>9 DEF WInv


-----------------------------------------------------------------------------
(* Entering and leaving the queue keeps the invariant.                       *)

(* A step that leaves the data and the group in progress alone, but may make a   *)
(* thread the front writer.                                                  *)
LEMMA DataUntouched ==
  ASSUME WInv, UNCHANGED <<lastSequence, mem, immEntries, flushed>>,
         \A v \in Threads : pc[v] \in {"insert", "relock"}
             => pc'[v] = pc[v] /\ loc'[v] = loc[v],
         \A v \in Threads : pc'[v] \in FrontPoints
             => \/ pc'[v] = pc[v] /\ loc'[v] = loc[v]
                \/ pc'[v] = "room" /\ loc'[v].idx = 1
  PROVE  NumbersOK' /\ StoredOK' /\ SequenceUnique' /\ Stored' = Stored
  <1>1. Stored' = Stored
    BY DEF Stored
  <1>2. NumbersOK'
    BY ZenonT(40) DEF WInv, NumbersOK, Numbering, FrontPoints, LockedPoints
  <1>3. StoredOK' /\ SequenceUnique'
    BY Zenon, <1>1 DEF WInv, StoredOK, SequenceUnique
  <1> QED
    BY Zenon, <1>1, <1>2, <1>3

(* The locals of a new front writer.                                         *)
LEMMA NewFrontLocals ==
  ASSUME WInv, NEW t \in Threads, NEW batch \in Nat, BecomeFront(t, batch)
  PROVE  /\ loc' \in [Threads -> LocalType]
         /\ loc'[t].pos = 1 /\ loc'[t].idx = 1
         /\ \A v \in Threads \ {t} : loc'[v] = loc[v]
         /\ pc' = [pc EXCEPT ![t] = "room"] /\ mutex' = t
  <1> DEFINE l == [NoLocals EXCEPT !.force = (batch = 0), !.allowDelay = (batch # 0)]
  <1>1. l \in LocalType /\ l.pos = 1 /\ l.idx = 1
    <2>1. NoLocals \in LocalType /\ NoLocals.pos = 1 /\ NoLocals.idx = 1
      BY DEF NoLocals, LocalType
    <2>2. (batch = 0) \in BOOLEAN /\ (batch # 0) \in BOOLEAN
      OBVIOUS
    <2>3. \A b, c \in BOOLEAN :
            LET m == [NoLocals EXCEPT !.force = b, !.allowDelay = c]
            IN  m \in LocalType /\ m.pos = 1 /\ m.idx = 1
      BY Zenon, <2>1 DEF LocalType
    <2> QED
      BY <2>2, <2>3, Zenon
  <1>2. loc' = [loc EXCEPT ![t] = l] /\ loc \in [Threads -> LocalType]
    BY DEF BecomeFront, WInv, WTypeOK, GoTo
  <1>3. pc' = [pc EXCEPT ![t] = "room"] /\ mutex' = t
    BY DEF BecomeFront, GoTo
  <1> HIDE DEF l
  <1> QED
    BY <1>1, <1>2, <1>3

(* Nobody is at the front when mutex_ is free and the queue is empty, or its      *)
(* front is still in its wait.                                               *)
LEMMA NoFront ==
  ASSUME WInv, \/ writers = <<>>
               \/ \E t \in Threads : writers[1] = t /\ pc[t] = "cv"
  PROVE  \A v \in Threads : pc[v] \notin FrontPoints
  BY PointsApart DEF WInv, FrontOK, WTypeOK

(* The queue with one more writer at its end.                                *)
LEMMA Appended ==
  ASSUME NEW S, NEW q \in Seq(S), NEW x \in S
  PROVE  /\ Len(Append(q, x)) = Len(q) + 1 /\ Append(q, x)[Len(q) + 1] = x
         /\ \A i \in 1..Len(q) : Append(q, x)[i] = q[i] /\ q[i] \in S
         /\ Append(q, x) \in Seq(S) /\ Len(q) \in Nat
  OBVIOUS

(* The queue without its first n writers.                                    *)
LEMMA Dropped ==
  ASSUME NEW S, NEW q \in Seq(S), NEW n \in Nat, n >= 1, n <= Len(q)
  PROVE  /\ Len(SubSeq(q, n + 1, Len(q))) = Len(q) - n
         /\ SubSeq(q, n + 1, Len(q)) \in Seq(S)
         /\ \A i \in 1..(Len(q) - n) : SubSeq(q, n + 1, Len(q))[i] = q[n + i]
  OBVIOUS

(* A call of Write takes its place in the queue.                             *)
LEMMA WriteKeepsWInv ==
  ASSUME WInv, NEW t \in Threads, NEW batch \in 0..MaxBatch, NEW sync \in BOOLEAN,
         Write(t, batch, sync)
  PROVE  WInv' /\ Stored' = Stored /\ lastSequence' = lastSequence
  <1> USE PointsApart
  <1>1. /\ mutex = Free /\ pc[t] = "idle" /\ writers' = Append(writers, t)
        /\ w' = [w EXCEPT ![t] = [batch |-> batch, sync |-> sync,
                                  done |-> FALSE, ok |-> TRUE]]
        /\ UNCHANGED <<vars, dataVars, acked>>
    BY DEF Write
  <1>2. /\ writers \in Seq(Threads) /\ batch \in Nat /\ pc \in [Threads -> Points]
        /\ w \in [Threads -> WriterType] /\ calls \in [Threads -> Nat]
        /\ asleep \subseteq Threads /\ loc \in [Threads -> LocalType]
    BY WriteAssumption DEF WInv, WTypeOK
  <1>3. /\ Len(writers') = Len(writers) + 1 /\ writers'[Len(writers) + 1] = t
        /\ \A i \in 1..Len(writers) : writers'[i] = writers[i] /\ writers[i] \in Threads
        /\ writers' \in Seq(Threads) /\ Len(writers) \in Nat
    <2>1. writers \in Seq(Threads) /\ t \in Threads
      BY <1>2
    <2>2. /\ Len(Append(writers, t)) = Len(writers) + 1
          /\ Append(writers, t)[Len(writers) + 1] = t
          /\ \A i \in 1..Len(writers) :
               Append(writers, t)[i] = writers[i] /\ writers[i] \in Threads
          /\ Append(writers, t) \in Seq(Threads) /\ Len(writers) \in Nat
      BY ONLY <2>1, Appended
    <2> QED
      BY ONLY <1>1, <2>2, Zenon
  <1>4. /\ w' \in [Threads -> WriterType] /\ ~w'[t].done
        /\ \A v \in Threads \ {t} : w'[v] = w[v]
    BY <1>1, <1>2 DEF WriterType
  <1>5. \A i \in 1..Len(writers) : writers[i] # t
    BY <1>1 DEF WInv, QueueOK
  <1>6. calls' \in [Threads -> Nat]
        /\ arrival' \in Seq([call : Threads \X Nat, batch : Nat, sync : BOOLEAN])
    <2>1. calls' = [calls EXCEPT ![t] = @ + 1]
      BY DEF Write
    <2>2. calls' \in [Threads -> Nat] /\ calls'[t] \in Nat
      BY <1>2, <2>1
    <2>3. arrival' = Append(arrival, [call |-> <<t, calls'[t]>>, batch |-> batch,
                                      sync |-> sync])
      BY DEF Write, CallOf
    <2>4. [call |-> <<t, calls'[t]>>, batch |-> batch, sync |-> sync]
            \in [call : Threads \X Nat, batch : Nat, sync : BOOLEAN]
      BY <1>2, <2>2
    <2>5. arrival \in Seq([call : Threads \X Nat, batch : Nat, sync : BOOLEAN])
      BY DEF WInv, WTypeOK
    <2> QED
      BY <2>2, <2>3, <2>4, <2>5
  <1>7. CASE writers = <<>>
    <2>1. BecomeFront(t, batch) /\ asleep' = asleep
      BY <1>7 DEF Write
    <2>2. /\ loc' \in [Threads -> LocalType] /\ loc'[t].pos = 1 /\ loc'[t].idx = 1
          /\ \A v \in Threads \ {t} : loc'[v] = loc[v]
          /\ pc' = [pc EXCEPT ![t] = "room"] /\ mutex' = t
      BY <1>2, <2>1, NewFrontLocals
    <2>3. \A v \in Threads : pc[v] \notin FrontPoints
      BY <1>7, NoFront
    <2>4. writers' = <<t>> /\ Len(writers') = 1 /\ writers'[1] = t
      BY <1>1, <1>7
    <2>5. "room" \in LockedPoints
      BY DEF LockedPoints
    <2>6. /\ pc'[t] = "room" /\ pc' \in [Threads -> Points]
          /\ \A v \in Threads \ {t} : pc'[v] = pc[v]
      BY <1>2, <2>2, <2>5
    <2>7. \A v \in Threads : pc[v] # "cv" \/ w[v].done
      BY <1>7 DEF WInv, QueueOK
    <2>8. QueueOK'
      BY <1>4, <2>4, <2>5, <2>6, <2>7 DEF QueueOK
    <2>9. FrontOK'
      BY <2>2, <2>3, <2>4, <2>6 DEF FrontOK
    <2>10. MutexOK'
      BY <2>2, <2>3, <2>5, <2>6 DEF MutexOK
    <2>11. AsleepOK'
      <3>1. asleep = {}
        BY <1>2, <2>7 DEF WInv, AsleepOK
      <3> QED
        BY <2>1, <3>1 DEF AsleepOK
    <2>12. NumbersOK' /\ StoredOK' /\ SequenceUnique' /\ Stored' = Stored
      <3>1. \A v \in Threads : pc[v] \notin {"insert", "relock"}
        BY <2>3 DEF FrontPoints
      <3> QED
        BY Zenon, <1>1, <2>2, <2>3, <2>6, <3>1, DataUntouched DEF dataVars
    <2>13. WTypeOK' /\ ImmOK'
      <3>1. UNCHANGED <<imm, sleepers, lastSequence, log, mem, immEntries, flushed,
                        durable, acked, asleep>>
        BY <1>1, <2>1 DEF vars, dataVars
      <3>2. asleep' \subseteq Threads /\ mutex' \in Threads \cup {Free}
        BY <1>2, <2>2, <3>1
      <3>3. /\ lastSequence' \in Nat /\ log' \in Seq(Seq(Updates))
            /\ mem' \subseteq Entries /\ immEntries' \subseteq Entries
            /\ flushed' \subseteq Entries /\ durable' \subseteq Updates
            /\ acked' \subseteq [call : Threads \X Nat, ok : BOOLEAN]
            /\ sleepers' \subseteq Threads
        BY SMTT(30), <3>1 DEF WInv, WTypeOK
      <3>4. WTypeOK'
        BY ONLY SMTT(30), <1>3, <1>4, <1>6, <2>2, <2>6, <3>2, <3>3 DEF WTypeOK
      <3> QED
        BY <3>1, <3>4 DEF WInv, ImmOK
    <2> QED
      BY SMTT(30), <1>1, <2>8, <2>9, <2>10, <2>11, <2>12, <2>13 DEF WInv, dataVars
  <1>8. CASE writers # <<>>
    <2>1. /\ pc' = [pc EXCEPT ![t] = "cv"] /\ asleep' = asleep \cup {t}
          /\ UNCHANGED <<mutex, loc>>
      BY <1>8 DEF Write, GoTo
    <2>2. /\ pc'[t] = "cv" /\ pc' \in [Threads -> Points]
          /\ \A v \in Threads \ {t} : pc'[v] = pc[v]
      BY <1>2, <2>1 DEF Points
    <2>3. Len(writers) >= 1 /\ writers'[1] = writers[1] /\ writers[1] # t
      BY <1>2, <1>3, <1>5, <1>8
    <2>4. QueueOK'
      <3>1. \A i \in 1..Len(writers') : i \in 1..Len(writers) \/ i = Len(writers) + 1
        <4>1. Len(writers') = Len(writers) + 1 /\ Len(writers) \in Nat
          BY Zenon, <1>3
        <4> QED
          BY ONLY <4>1
      <3>2. \A i, j \in 1..Len(writers') : writers'[i] = writers'[j] => i = j
        <4>1. \A i, j \in 1..Len(writers) : writers[i] = writers[j] => i = j
          BY DEF WInv, QueueOK
        <4> QED
          BY <1>3, <1>5, <3>1, <4>1
      <3>3. \A i \in 1..Len(writers') :
              pc'[writers'[i]] \in FrontPoints \cup {"cv"} /\ ~w'[writers'[i]].done
        <4> TAKE i \in 1..Len(writers')
        <4>1. CASE i = Len(writers) + 1
          BY <1>3, <1>4, <2>2, <4>1
        <4>2. CASE i \in 1..Len(writers)
          <5>1. /\ writers'[i] = writers[i] /\ writers[i] \in Threads \ {t}
                /\ pc[writers[i]] \in FrontPoints \cup {"cv"} /\ ~w[writers[i]].done
            BY <1>3, <1>5, <4>2 DEF WInv, QueueOK
          <5> QED
            BY <1>4, <2>2, <5>1
        <4> QED
          BY <3>1, <4>1, <4>2
      <3>4. \A v \in Threads : pc'[v] = "cv" /\ ~w'[v].done
                                => \E i \in 1..Len(writers') : writers'[i] = v
        <4> SUFFICES ASSUME NEW v \in Threads, pc'[v] = "cv", ~w'[v].done
                     PROVE  \E i \in 1..Len(writers') : writers'[i] = v
          OBVIOUS
        <4>1. CASE v = t
          <5>1. Len(writers) + 1 \in 1..Len(writers')
            BY <1>3
          <5> QED
            BY <1>3, <4>1, <5>1
        <4>2. CASE v # t
          <5>1. pc[v] = "cv" /\ ~w[v].done
            BY <1>4, <2>2, <4>2
          <5>2. PICK i \in 1..Len(writers) : writers[i] = v
            BY <5>1 DEF WInv, QueueOK
          <5>3. i \in 1..Len(writers') /\ writers'[i] = v
            BY <1>3, <5>2
          <5> QED
            BY <5>3
        <4> QED
          BY <4>1, <4>2
      <3> QED
        BY <3>2, <3>3, <3>4 DEF QueueOK
    <2>5. FrontOK'
      <3> SUFFICES ASSUME NEW v \in Threads, pc'[v] \in FrontPoints
                   PROVE  /\ Len(writers') >= 1 /\ writers'[1] = v
                          /\ loc'[v].pos <= Len(writers')
        BY DEF FrontOK
      <3>1. pc[v] \in FrontPoints /\ loc'[v] = loc[v]
        BY <2>1, <2>2
      <3>2. Len(writers) >= 1 /\ writers[1] = v /\ loc[v].pos <= Len(writers)
        BY <3>1 DEF WInv, FrontOK
      <3>3. loc[v].pos \in Nat
        BY <1>2 DEF LocalType
      <3> QED
        BY <1>3, <2>3, <3>1, <3>2, <3>3
    <2>6. MutexOK'
      BY <1>1, <2>1, <2>2 DEF WInv, MutexOK
    <2>7. AsleepOK'
      BY ZenonT(40), <1>2, <1>4, <2>1, <2>2, <2>3 DEF WInv, AsleepOK
    <2>8. NumbersOK' /\ StoredOK' /\ SequenceUnique' /\ Stored' = Stored
      BY Zenon, <1>1, <2>1, <2>2, DataUntouched DEF dataVars
    <2>9. WTypeOK' /\ ImmOK'
      <3>1. UNCHANGED <<imm, sleepers, lastSequence, log, mem, immEntries, flushed,
                        durable, acked, mutex, loc>>
        BY <1>1, <2>1 DEF vars, dataVars
      <3>2. /\ asleep' \subseteq Threads /\ mutex' \in Threads \cup {Free}
            /\ loc' \in [Threads -> LocalType]
        BY Zenon, <1>2, <2>1, <3>1 DEF WInv, WTypeOK
      <3>3. /\ lastSequence' \in Nat /\ log' \in Seq(Seq(Updates))
            /\ mem' \subseteq Entries /\ immEntries' \subseteq Entries
            /\ flushed' \subseteq Entries /\ durable' \subseteq Updates
            /\ acked' \subseteq [call : Threads \X Nat, ok : BOOLEAN]
            /\ sleepers' \subseteq Threads
        BY <3>1 DEF WInv, WTypeOK
      <3>4. WTypeOK'
        BY ONLY <1>3, <1>4, <1>6, <2>2, <3>2, <3>3 DEF WTypeOK
      <3> QED
        BY <3>1, <3>4 DEF WInv, ImmOK
    <2> QED
      BY <1>1, <2>4, <2>5, <2>6, <2>7, <2>8, <2>9 DEF WInv, dataVars
  <1> QED
    BY <1>7, <1>8

(* What Return does.                                                         *)
LEMMA ReturnEffect ==
  ASSUME WInv, NEW t \in Threads, NEW ok \in BOOLEAN, Return(t, ok)
  PROVE  /\ pc' \in [Threads -> Points] /\ pc'[t] \in {"idle", "immwait"}
         /\ \A v \in Threads \ {t} : pc'[v] = pc[v]
         /\ acked' \subseteq [call : Threads \X Nat, ok : BOOLEAN]
  <1>1. pc \in [Threads -> Points] /\ {"idle", "immwait"} \subseteq Points
    BY DEF WInv, WTypeOK, Points
  <1>2. pc' = [pc EXCEPT ![t] = "idle"] \/ pc' = [pc EXCEPT ![t] = "immwait"]
    BY DEF Return, GoTo
  <1>3. acked' \in {acked, acked \cup {[call |-> <<t, calls[t]>>, ok |-> ok]}}
    BY DEF Return, CallOf
  <1>4. [call |-> <<t, calls[t]>>, ok |-> ok] \in [call : Threads \X Nat, ok : BOOLEAN]
    BY DEF WInv, WTypeOK
  <1>5. acked \subseteq [call : Threads \X Nat, ok : BOOLEAN]
    BY DEF WInv, WTypeOK
  <1>6. acked' \subseteq [call : Threads \X Nat, ok : BOOLEAN]
    BY <1>3, <1>4, <1>5
  <1> QED
    BY <1>1, <1>2, <1>6

(* A wait returns: with the result, at the front, or for nothing.            *)
LEMMA WakeKeepsWInv ==
  ASSUME WInv, NEW t \in Threads, Wake(t)
  PROVE  WInv' /\ Stored' = Stored /\ lastSequence' = lastSequence
  <1> USE PointsApart
  <1>1. /\ mutex = Free /\ pc[t] = "cv" /\ t \notin asleep
        /\ UNCHANGED <<vars, dataVars, writers, w, calls, arrival>>
    BY DEF Wake
  <1>2. /\ writers \in Seq(Threads) /\ pc \in [Threads -> Points]
        /\ w \in [Threads -> WriterType] /\ asleep \subseteq Threads
        /\ loc \in [Threads -> LocalType]
    BY DEF WInv, WTypeOK
  <1>3. CASE w[t].done
    <2>1. Return(t, w[t].ok) /\ UNCHANGED <<mutex, loc, asleep>>
      BY <1>3 DEF Wake
    <2>2. w[t].ok \in BOOLEAN
      BY SMTT(30), <1>2 DEF WriterType
    <2>3. /\ pc' \in [Threads -> Points] /\ pc'[t] \in {"idle", "immwait"}
          /\ \A v \in Threads \ {t} : pc'[v] = pc[v]
          /\ acked' \subseteq [call : Threads \X Nat, ok : BOOLEAN]
      BY Zenon, <2>1, <2>2, ReturnEffect
    <2>4. \A i \in 1..Len(writers) : writers[i] # t /\ writers[i] \in Threads
      BY SMTT(30), <1>2, <1>3 DEF WInv, QueueOK
    <2>5. QueueOK' /\ FrontOK' /\ MutexOK' /\ AsleepOK'
      BY <1>1, <1>2, <2>1, <2>3, <2>4 DEF WInv, QueueOK, FrontOK, MutexOK, AsleepOK
    <2>6. NumbersOK' /\ StoredOK' /\ SequenceUnique' /\ Stored' = Stored
      BY ZenonT(40), <1>1, <2>1, <2>3, DataUntouched DEF dataVars
    <2>7. WTypeOK' /\ ImmOK'
      BY SMTT(30), <1>1, <2>1, <2>3 DEF WInv, WTypeOK, ImmOK, vars, dataVars
    <2> QED
      BY SMTT(30), <1>1, <2>5, <2>6, <2>7 DEF WInv, dataVars
  <1>4. CASE ~w[t].done /\ t = Head(writers)
    <2>1. BecomeFront(t, w[t].batch) /\ UNCHANGED <<acked, asleep>>
      BY Zenon, <1>4 DEF Wake
    <2>2. w[t].batch \in Nat
      BY <1>2 DEF WriterType
    <2>3. /\ loc' \in [Threads -> LocalType] /\ loc'[t].pos = 1 /\ loc'[t].idx = 1
          /\ \A v \in Threads \ {t} : loc'[v] = loc[v]
          /\ pc' = [pc EXCEPT ![t] = "room"] /\ mutex' = t
      BY Zenon, <2>1, <2>2, NewFrontLocals
    <2>4. Len(writers) \in Nat /\ Len(writers) >= 1 /\ writers[1] = t
      <3>1. PICK i \in 1..Len(writers) : writers[i] = t
        BY Zenon, <1>1, <1>4 DEF WInv, QueueOK
      <3> QED
        BY SMTT(30), <1>2, <1>4, <3>1
    <2>5. \A v \in Threads : pc[v] \notin FrontPoints
      BY <1>1, <2>4, NoFront
    <2>6. "room" \in LockedPoints
      BY DEF LockedPoints
    <2>7. /\ pc'[t] = "room" /\ pc' \in [Threads -> Points]
          /\ \A v \in Threads \ {t} : pc'[v] = pc[v]
      BY <1>2, <2>3, <2>6
    <2>8. QueueOK'
      <3>1. UNCHANGED <<writers, w>>
        BY <1>1
      <3>2. \A i \in 1..Len(writers) : writers[i] \in Threads
        BY <1>2
      <3>3. \A v \in Threads : pc'[v] = "cv" => pc[v] = "cv"
        BY <1>1, <2>7
      <3>4. \A v \in Threads : pc[v] \in FrontPoints \cup {"cv"}
                                 => pc'[v] \in FrontPoints \cup {"cv"}
        BY SMTT(30), <2>6, <2>7
      <3> QED
        BY Zenon, <3>1, <3>2, <3>3, <3>4 DEF WInv, QueueOK
    <2>9. FrontOK' /\ MutexOK' /\ AsleepOK'
      BY <1>1, <1>2, <2>1, <2>3, <2>4, <2>5, <2>6, <2>7
         DEF WInv, FrontOK, MutexOK, AsleepOK
    <2>10. NumbersOK' /\ StoredOK' /\ SequenceUnique' /\ Stored' = Stored
      <3>1. \A v \in Threads : pc[v] \notin {"insert", "relock"}
        BY <2>5 DEF FrontPoints
      <3> QED
        BY ZenonT(40), <1>1, <2>3, <2>5, <2>7, <3>1, DataUntouched DEF dataVars
    <2>11. WTypeOK' /\ ImmOK'
      BY ZenonT(40), <1>1, <2>1, <2>3, <2>7 DEF WInv, WTypeOK, ImmOK, vars, dataVars
    <2> QED
      BY <1>1, <2>8, <2>9, <2>10, <2>11 DEF WInv, dataVars
  <1>5. CASE ~w[t].done /\ t # Head(writers)
    <2>1. asleep' = asleep \cup {t} /\ UNCHANGED <<mutex, loc, pc, acked>>
      BY Zenon, <1>5 DEF Wake
    <2>2. writers[1] # t
      <3>1. PICK i \in 1..Len(writers) : writers[i] = t
        BY <1>1, <1>5 DEF WInv, QueueOK
      <3> QED
        BY <1>2, <1>5, <3>1
    <2>3. QueueOK' /\ FrontOK' /\ MutexOK' /\ AsleepOK'
      <3>1. UNCHANGED <<mutex, loc, pc, writers, w>>
        BY <1>1, <2>1
      <3>2. QueueOK' /\ FrontOK' /\ MutexOK'
        BY ZenonT(40), <3>1 DEF WInv, QueueOK, FrontOK, MutexOK
      <3>3. AsleepOK'
        BY ZenonT(40), <1>1, <1>5, <2>1, <2>2, <3>1 DEF WInv, AsleepOK
      <3> QED
        BY <3>2, <3>3
    <2>4. NumbersOK' /\ StoredOK' /\ SequenceUnique' /\ Stored' = Stored
      BY ZenonT(40), <1>1, <2>1, DataUntouched DEF dataVars
    <2>5. WTypeOK' /\ ImmOK'
      BY <1>1, <2>1 DEF WInv, WTypeOK, ImmOK, vars, dataVars
    <2> QED
      BY <1>1, <2>3, <2>4, <2>5 DEF WInv, dataVars
  <1> QED
    BY <1>3, <1>4, <1>5

(* A wait that returns without a signal.                                     *)
LEMMA SpuriousWakeKeepsWInv ==
  ASSUME WInv, NEW t \in Threads, SpuriousWake(t)
  PROVE  WInv' /\ Stored' = Stored /\ lastSequence' = lastSequence
  <1>1. /\ asleep' = asleep \ {t}
        /\ UNCHANGED <<vars, dataVars, ghostVars, mutex, writers, w, pc, loc>>
    BY SMTT(30) DEF SpuriousWake
  <1>2. QueueOK' /\ FrontOK' /\ MutexOK' /\ AsleepOK'
    BY <1>1 DEF WInv, QueueOK, FrontOK, MutexOK, AsleepOK
  <1>3. NumbersOK' /\ StoredOK' /\ SequenceUnique' /\ Stored' = Stored
    BY ZenonT(40), <1>1, DataUntouched DEF dataVars
  <1>4. WTypeOK' /\ ImmOK'
    BY SMTT(30), <1>1 DEF WInv, WTypeOK, ImmOK, vars, dataVars, ghostVars
  <1> QED
    BY <1>1, <1>2, <1>3, <1>4 DEF WInv, dataVars

(* The group leaves the queue, and the writer behind it is woken.            *)
LEMMA FinishKeepsWInv ==
  ASSUME WInv, NEW t \in Threads, Finish(t)
  PROVE  WInv' /\ Stored' = Stored /\ lastSequence' = lastSequence
  <1> USE PointsApart
  <1> DEFINE n == loc[t].pos
             group == {writers[i] : i \in 1..n}
  <1>1. /\ pc[t] = "finish" /\ mutex' = Free /\ Return(t, loc[t].ok)
        /\ writers' = SubSeq(writers, n + 1, Len(writers))
        /\ w' = [v \in Threads |-> IF v \in group \ {t} THEN Ready(v, loc[t].ok)
                                   ELSE w[v]]
        /\ asleep' = asleep \ Signalled(group, writers')
        /\ UNCHANGED <<vars, dataVars, loc, calls, arrival>>
    BY ZenonT(40) DEF Finish
  <1>2. /\ writers \in Seq(Threads) /\ pc \in [Threads -> Points]
        /\ w \in [Threads -> WriterType] /\ asleep \subseteq Threads
        /\ loc[t] \in LocalType /\ loc[t].ok \in BOOLEAN
    BY Zenon DEF WInv, WTypeOK, LocalType
  <1>3. /\ n \in Nat /\ n >= 1 /\ Len(writers) \in Nat /\ n <= Len(writers)
        /\ writers[1] = t /\ t \in group
    <2>1. pc[t] \in FrontPoints
      BY Zenon, <1>1 DEF FrontPoints, LockedPoints
    <2>2. Len(writers) >= 1 /\ writers[1] = t /\ n <= Len(writers)
      BY Zenon, <2>1 DEF WInv, FrontOK
    <2>3. n \in Nat /\ n >= 1
      BY ONLY <1>2 DEF LocalType
    <2>4. Len(writers) \in Nat
      BY ONLY <1>2
    <2>5. 1 \in 1..n
      BY ONLY <2>3
    <2>6. t \in group
      BY ONLY Zenon, <2>2, <2>5
    <2> QED
      BY ONLY <2>2, <2>3, <2>4, <2>6
  <1> HIDE DEF n
  <1>4. /\ Len(writers') = Len(writers) - n /\ writers' \in Seq(Threads)
        /\ \A i \in 1..Len(writers') : writers'[i] = writers[n + i]
    <2>1. writers' = SubSeq(writers, n + 1, Len(writers)) /\ writers \in Seq(Threads)
      BY ZenonT(40), <1>1, <1>2
    <2>2. n \in Nat /\ n >= 1 /\ n <= Len(writers)
      BY Zenon, <1>3
    <2> QED
      BY <2>1, <2>2, Dropped, Zenon
  <1>5. \A v \in Threads : v \in group <=> \E i \in 1..n : writers[i] = v
    OBVIOUS
  <1>6. \A i \in 1..Len(writers') : writers'[i] \in Threads /\ writers'[i] \notin group
    <2> TAKE i \in 1..Len(writers')
    <2>1. n + i \in 1..Len(writers) /\ writers'[i] = writers[n + i]
      BY <1>3, <1>4
    <2>2. \A j \in 1..n : j \in 1..Len(writers) /\ j # n + i
      BY <1>3, <2>1
    <2>3. writers[n + i] \in Threads
      BY <1>2, <2>1
    <2>4. \A j \in 1..n : writers[j] # writers[n + i]
      BY <2>1, <2>2 DEF WInv, QueueOK
    <2> QED
      BY SMTT(30), <1>5, <2>1, <2>3, <2>4
  <1> HIDE DEF group
  <1>7. /\ w' \in [Threads -> WriterType]
        /\ \A v \in Threads : v \notin group => w'[v] = w[v]
        /\ \A v \in Threads : v \in group /\ v # t => w'[v].done
    <2>1. \A v \in Threads : Ready(v, loc[t].ok) \in WriterType /\ Ready(v, loc[t].ok).done
      <3> TAKE v \in Threads
      <3>1. w[v] \in WriterType
        BY <1>2
      <3> QED
        BY Zenon, <1>2, <3>1 DEF Ready, WriterType
    <2> QED
      BY Zenon, <1>1, <1>2, <1>3, <2>1
  <1>8. /\ pc' \in [Threads -> Points] /\ pc'[t] \in {"idle", "immwait"}
        /\ \A v \in Threads \ {t} : pc'[v] = pc[v]
        /\ acked' \subseteq [call : Threads \X Nat, ok : BOOLEAN]
    BY Zenon, <1>1, <1>2, ReturnEffect
  <1>9. \A v \in Threads : v # t => pc'[v] \notin FrontPoints
    BY <1>1, <1>8, OneFront DEF FrontPoints, LockedPoints
  <1>10. \A v \in Threads : pc'[v] \notin FrontPoints
    BY <1>8, <1>9
  <1>11. \A v \in Threads : pc'[v] = "cv" /\ ~w'[v].done
                     => \E i \in 1..Len(writers') : writers'[i] = v
    <2> SUFFICES ASSUME NEW v \in Threads, pc'[v] = "cv", ~w'[v].done
                 PROVE  \E i \in 1..Len(writers') : writers'[i] = v
      OBVIOUS
    <2>1. v # t /\ pc[v] = "cv" /\ v \notin group /\ ~w[v].done
      <3>1. v # t /\ pc[v] = "cv"
        BY <1>8
      <3>2. v \notin group
        BY <1>7, <3>1, Zenon
      <3> QED
        BY <1>7, <3>1, <3>2, Zenon
    <2>2. PICK i \in 1..Len(writers) : writers[i] = v
      BY <2>1 DEF WInv, QueueOK
    <2>3. i > n
      BY <1>3, <1>5, <2>1, <2>2
    <2>4. i - n \in 1..Len(writers') /\ n + (i - n) = i
      BY <1>3, <1>4, <2>3
    <2> QED
      BY <1>4, <2>2, <2>4
  <1>12. QueueOK'
    <2>1. \A i, j \in 1..Len(writers') : writers'[i] = writers'[j] => i = j
      <3> SUFFICES ASSUME NEW i \in 1..Len(writers'), NEW j \in 1..Len(writers'),
                          writers'[i] = writers'[j]
                   PROVE  i = j
        OBVIOUS
      <3>1. n + i \in 1..Len(writers) /\ n + j \in 1..Len(writers)
        BY <1>3, <1>4
      <3>2. writers[n + i] = writers[n + j]
        BY <1>4
      <3>3. n + i = n + j
        BY <3>1, <3>2 DEF WInv, QueueOK
      <3> QED
        BY <1>3, <3>3
    <2>2. \A i \in 1..Len(writers') :
            pc'[writers'[i]] \in FrontPoints \cup {"cv"} /\ ~w'[writers'[i]].done
      <3> TAKE i \in 1..Len(writers')
      <3>1. n + i \in 1..Len(writers) /\ writers'[i] = writers[n + i]
        BY SMTT(30), <1>3, <1>4
      <3>2. pc[writers[n + i]] \in FrontPoints \cup {"cv"} /\ ~w[writers[n + i]].done
        BY <3>1 DEF WInv, QueueOK
      <3>3. /\ writers'[i] \in Threads /\ writers'[i] \notin group
            /\ writers'[i] # t
        BY SMTT(30), <1>3, <1>6
      <3> QED
        BY SMTT(30), <1>7, <1>8, <3>1, <3>2, <3>3
    <2> QED
      BY <1>11, <2>1, <2>2 DEF QueueOK
  <1>13. FrontOK' /\ MutexOK'
    BY ZenonT(40), <1>1, <1>10 DEF FrontOK, MutexOK
  <1>14. AsleepOK'
    <2> SUFFICES ASSUME NEW v \in asleep'
                 PROVE  pc'[v] = "cv" /\ ~w'[v].done /\ writers'[1] # v
      BY DEF AsleepOK
    <2>1. v \in asleep /\ v \in Threads /\ v \notin group
      BY ZenonT(40), <1>1, <1>2 DEF Signalled
    <2>2. pc[v] = "cv" /\ ~w[v].done /\ v # t
      BY <1>3, <2>1 DEF WInv, AsleepOK
    <2>3. pc'[v] = "cv" /\ ~w'[v].done
      BY <1>7, <1>8, <2>1, <2>2
    <2>4. writers' # <<>>
      <3>1. PICK i \in 1..Len(writers') : writers'[i] = v
        BY Zenon, <1>11, <2>1, <2>3
      <3> QED
        BY ONLY <3>1
    <2>5. Head(writers') # v
      BY Zenon, <1>1, <2>4 DEF Signalled
    <2> QED
      BY SMTT(30), <1>4, <2>3, <2>4, <2>5
  <1>15. NumbersOK' /\ StoredOK' /\ SequenceUnique' /\ Stored' = Stored
    <2>1. \A v \in Threads : pc[v] \notin {"insert", "relock"}
      BY ZenonT(40), <1>1, OneFront DEF FrontPoints, LockedPoints
    <2> QED
      BY ZenonT(40), <1>1, <1>10, <2>1, DataUntouched DEF dataVars
  <1>16. WTypeOK' /\ ImmOK'
    BY ZenonT(40), <1>1, <1>2, <1>4, <1>7, <1>8 DEF WInv, WTypeOK, ImmOK, vars, dataVars
  <1> QED
    BY ZenonT(40), <1>1, <1>12, <1>13, <1>14, <1>15, <1>16 DEF WInv, dataVars

(* TEST_CompactMemTable waits for imm_.                                      *)
LEMMA AwaitMemTableKeepsWInv ==
  ASSUME WInv, NEW t \in Threads, AwaitMemTable(t)
  PROVE  WInv' /\ Stored' = Stored /\ lastSequence' = lastSequence
  <1> USE PointsApart
  <1>1. /\ pc[t] = "immwait"
        /\ UNCHANGED <<imm, dataVars, calls, arrival, mutex, writers, w, asleep, loc>>
    BY ZenonT(40) DEF AwaitMemTable
  <1>2. /\ pc' = pc \/ pc' = [pc EXCEPT ![t] = "idle"]
        /\ sleepers' = sleepers \/ sleepers' = sleepers \cup {t}
        /\ \/ acked' = acked
           \/ acked' = acked \cup {[call |-> <<t, calls[t]>>, ok |-> TRUE]}
           \/ acked' = acked \cup {[call |-> <<t, calls[t]>>, ok |-> FALSE]}
    <2>1. CASE imm
      BY Zenon, <2>1 DEF AwaitMemTable, GoTo, CallOf
    <2>2. CASE ~imm
      BY Zenon, <2>2 DEF AwaitMemTable, GoTo, CallOf
    <2> QED
      BY <2>1, <2>2
  <1>3. /\ pc \in [Threads -> Points] /\ "idle" \in Points
        /\ acked \subseteq [call : Threads \X Nat, ok : BOOLEAN]
        /\ \A b \in BOOLEAN : [call |-> <<t, calls[t]>>, ok |-> b]
                                \in [call : Threads \X Nat, ok : BOOLEAN]
    BY DEF WInv, WTypeOK, Points
  <1>4. /\ pc' \in [Threads -> Points] /\ pc'[t] \in {"immwait", "idle"}
        /\ \A v \in Threads \ {t} : pc'[v] = pc[v]
        /\ acked' \subseteq [call : Threads \X Nat, ok : BOOLEAN]
    BY ZenonT(40), <1>1, <1>2, <1>3
  <1>5. \A i \in 1..Len(writers) : writers[i] \in Threads /\ writers[i] # t
    BY <1>1 DEF WInv, WTypeOK, QueueOK
  <1>6. QueueOK' /\ FrontOK' /\ MutexOK'
    <2>1. UNCHANGED <<writers, w, mutex, loc>>
      BY <1>1
    <2>2. \A v \in Threads : /\ v # t => pc'[v] = pc[v]
                             /\ pc'[t] # "cv" /\ pc'[t] \notin FrontPoints
      BY <1>4
    <2>3. QueueOK'
      BY ZenonT(40), <1>5, <2>1, <2>2 DEF WInv, QueueOK
    <2>4. FrontOK'
      BY Zenon, <2>1, <2>2 DEF WInv, FrontOK
    <2>5. MutexOK'
      BY ZenonT(40), <1>1, <2>1, <2>2 DEF WInv, WTypeOK, MutexOK
    <2> QED
      BY <2>3, <2>4, <2>5
  <1>7. AsleepOK'
    BY <1>1, <1>4 DEF WInv, WTypeOK, AsleepOK
  <1>8. NumbersOK' /\ StoredOK' /\ SequenceUnique' /\ Stored' = Stored
    BY Zenon, <1>1, <1>4, DataUntouched DEF dataVars
  <1>9. WTypeOK' /\ ImmOK'
    BY <1>1, <1>2, <1>4 DEF WInv, WTypeOK, ImmOK, dataVars
  <1> QED
    BY <1>1, <1>6, <1>7, <1>8, <1>9 DEF WInv, dataVars

(* The background thread wakes threads and puts none to sleep.               *)
LEMMA BackgroundSleepers ==
  ASSUME Background
  PROVE  sleepers' \in {sleepers, {}}
  BY Zenon DEF Background, BackgroundCallDuringShutdown, BeginMemTable, ManualHasNoInputs,
     BeginManual, BeginPicked, TableBuilt, MemTableApplied, PrioritizeMemTable,
     InputsMerged, CompactionApplied, BackoffElapsed, BackgroundCallReturns,
     CompactMemTableReturns, CompactionReturns, AfterCompaction

(* Entries move from imm_ to a table.                                        *)
LEMMA BackgroundKeepsWInv ==
  ASSUME WInv, BackgroundStep
  PROVE  WInv' /\ Stored' = Stored /\ lastSequence' = lastSequence
  <1>1. /\ UNCHANGED <<lastSequence, log, mem, mutex, writers, w, asleep, pc, loc,
                       calls, arrival, acked>>
        /\ sleepers' \in {sleepers, {}}
    BY ZenonT(40), BackgroundSleepers DEF BackgroundStep, queueVars, ghostVars
  <1>2. \/ /\ flushed' = flushed \cup immEntries /\ immEntries' = {}
           /\ durable' = durable \cup {e.upd : e \in immEntries}
        \/ /\ UNCHANGED <<flushed, immEntries, durable>>
           /\ ~imm' => ~imm
    BY Zenon DEF BackgroundStep
  <1>3. Stored' = Stored
    BY <1>1, <1>2 DEF Stored
  <1>4. QueueOK' /\ FrontOK' /\ MutexOK' /\ AsleepOK'
    BY ZenonT(40), <1>1 DEF WInv, QueueOK, FrontOK, MutexOK, AsleepOK
  <1>5. NumbersOK' /\ StoredOK' /\ SequenceUnique'
    BY Zenon, <1>1, <1>3 DEF WInv, NumbersOK, StoredOK, SequenceUnique
  <1>6. ImmOK'
    BY <1>2 DEF WInv, ImmOK
  <1>7. WTypeOK'
    <2>1. {e.upd : e \in immEntries} \subseteq Updates
      BY DEF WInv, WTypeOK, Entries
    <2>2. durable' \subseteq Updates
      BY ZenonT(40), <1>2, <2>1 DEF WInv, WTypeOK
    <2>3. flushed' \subseteq Entries /\ immEntries' \subseteq Entries
      BY Zenon, <1>2 DEF WInv, WTypeOK
    <2> QED
      BY <1>1, <2>2, <2>3 DEF WInv, WTypeOK
  <1> QED
    BY <1>1, <1>3, <1>4, <1>5, <1>6, <1>7 DEF WInv


-----------------------------------------------------------------------------
(* Every step keeps the invariant, and whatever it stores has a number beyond    *)
(* LastSequence.                                                             *)
LEMMA StepKeepsWInv ==
  ASSUME WInv, WNext
  PROVE  /\ WInv'
         /\ \/ Stored' = Stored
            \/ \E e \in Entries : e.seq > lastSequence /\ Stored' = Stored \cup {e}
  <1>1. CASE BackgroundStep
    BY <1>1, BackgroundKeepsWInv
  <1>2. ASSUME NEW t \in Threads, NEW batch \in 0..MaxBatch, NEW sync \in BOOLEAN,
               Write(t, batch, sync)
        PROVE  WInv' /\ Stored' = Stored
    BY <1>2, WriteKeepsWInv
  <1>3. ASSUME NEW t \in Threads, SpuriousWake(t)
        PROVE  WInv' /\ Stored' = Stored
    BY <1>3, SpuriousWakeKeepsWInv
  <1>4. ASSUME NEW t \in Threads, WriterStep(t)
        PROVE  /\ WInv'
               /\ \/ Stored' = Stored
                  \/ \E e \in Entries : e.seq > lastSequence /\ Stored' = Stored \cup {e}
    <2>1. CASE Wake(t) \/ Finish(t) \/ AwaitMemTable(t)
      BY <2>1, WakeKeepsWInv, FinishKeepsWInv, AwaitMemTableKeepsWInv
    <2>2. CASE \/ RoomError(t) \/ RoomDelay(t) \/ DelayElapsed(t) \/ RoomWait(t)
               \/ RoomWakes(t) \/ GroupClosed(t)
      <3>1. UNCHANGED <<mem, immEntries, flushed>>
        BY <2>2 DEF RoomError, RoomDelay, DelayElapsed, RoomWait, RoomWakes,
           GroupClosed, dataVars
      <3> QED
        BY <2>2, <3>1, RoomStepKeepsWInv DEF Stored
    <2>3. CASE RoomFound(t) \/ GroupGrows(t)
      <3>1. UNCHANGED <<mem, immEntries, flushed>>
        BY Zenon, <2>3 DEF RoomFound, GroupGrows, dataVars
      <3> QED
        BY <2>3, <3>1, RoomFoundKeepsWInv, GroupGrowsKeepsWInv DEF Stored
    <2>4. CASE RoomSwitch(t)
      BY <2>4, RoomSwitchKeepsWInv
    <2>5. CASE AddRecord(t) \/ Sync(t)
      <3>1. UNCHANGED <<mem, immEntries, flushed>>
        BY Zenon, <2>5 DEF AddRecord, Sync
      <3> QED
        BY SMTT(30), <2>5, <3>1, LogStepKeepsWInv DEF Stored
    <2>6. CASE InsertInto(t)
      BY <2>6, InsertIntoKeepsWInv
    <2>7. CASE Relock(t)
      BY <2>7, RelockKeepsWInv
    <2> QED
      BY <1>4, <2>1, <2>2, <2>3, <2>4, <2>5, <2>6, <2>7 DEF WriterStep
  <1> QED
    BY <1>1, <1>2, <1>3, <1>4 DEF WNext

(* The invariant holds when nothing changes.                                 *)
LEMMA StutterKeepsWInv ==
  ASSUME WInv, UNCHANGED allVars
  PROVE  WInv' /\ Stored' = Stored
  <1>1. UNCHANGED <<imm, sleepers, mutex, writers, w, asleep, pc, loc, lastSequence,
                    log, mem, immEntries, flushed, durable, calls, arrival, acked>>
    BY DEF allVars, vars, writeVars, queueVars, dataVars, ghostVars
  <1>2. Stored' = Stored
    BY SMTT(30), <1>1 DEF Stored
  <1>3. WTypeOK' /\ ImmOK' /\ QueueOK' /\ FrontOK' /\ MutexOK' /\ AsleepOK'
    BY Zenon, <1>1 DEF WInv, WTypeOK, ImmOK, QueueOK, FrontOK, MutexOK, AsleepOK
  <1>4. NumbersOK' /\ StoredOK' /\ SequenceUnique'
    BY Zenon, <1>1, <1>2 DEF WInv, NumbersOK, StoredOK, SequenceUnique
  <1> QED
    BY <1>2, <1>3, <1>4 DEF WInv

(* The invariant of the write path holds in every reachable state, whatever      *)
(* the number of threads, the batches, the I/O errors and the scheduling.     *)
THEOREM WInvHolds == WSpec => []WInv
  <1>1. WInv /\ [WNext]_allVars => WInv'
    BY StepKeepsWInv, StutterKeepsWInv
  <1> QED
    BY <1>1, InitWInv, PTL DEF WSpec

(* Write keeps its variables well typed.                                     *)
THEOREM WTypeCorrect == WSpec => []WTypeOK
  <1>1. WInv => WTypeOK
    BY DEF WInv
  <1> QED
    BY <1>1, WInvHolds, PTL

(* Only the front of writers_ is in the part of Write that touches the log and   *)
(* the memtable, though it gives up mutex_ there.                            *)
THEOREM FrontWritesAlone == WSpec => []OnlyFrontWrites
  <1>1. WInv => OnlyFrontWrites
    BY DEF WInv, WTypeOK, FrontOK, OnlyFrontWrites
  <1> QED
    BY <1>1, WInvHolds, PTL

(* No writer sleeps on its condition variable with its result ready or its turn   *)
(* come.                                                                     *)
THEOREM NoTurnMissed == WSpec => []NoMissedTurn
  <1>1. WInv => NoMissedTurn
    <2> SUFFICES ASSUME WInv, NEW t \in asleep
                 PROVE  pc[t] = "cv" /\ ~w[t].done /\ Head(writers) # t
      BY DEF NoMissedTurn
    <2>1. pc[t] = "cv" /\ ~w[t].done /\ writers[1] # t /\ t \in Threads
      BY DEF WInv, WTypeOK, AsleepOK
    <2>2. PICK i \in 1..Len(writers) : writers[i] = t
      BY <2>1 DEF WInv, QueueOK
    <2> QED
      BY <2>1, <2>2 DEF WInv, WTypeOK
  <1> QED
    BY <1>1, WInvHolds, PTL

(* No sequence number is given to two updates.                               *)
THEOREM NumbersUnique == WSpec => []SequenceUnique
  <1>1. WInv => SequenceUnique
    BY DEF WInv
  <1> QED
    BY <1>1, WInvHolds, PTL

(* What a reader sees at a sequence number up to LastSequence never changes       *)
(* again: not by group commit, not by the switch of memtables and not by their    *)
(* compaction.                                                               *)
THEOREM ViewsStable == WSpec => ReadsStable
  <1>1. WInv /\ [WNext]_allVars
          => [\A s \in 0..lastSequence : View(s)' = View(s)]_allVars
    <2> SUFFICES ASSUME WInv, WNext, NEW s \in 0..lastSequence
                 PROVE  View(s)' = View(s)
      OBVIOUS
    <2>1. CASE Stored' = Stored
      BY <2>1 DEF View
    <2>2. CASE \E e \in Entries : e.seq > lastSequence /\ Stored' = Stored \cup {e}
      <3>1. PICK e \in Entries : e.seq > lastSequence /\ Stored' = Stored \cup {e}
        BY <2>2
      <3>2. ~(e.seq <= s)
        BY <3>1 DEF WInv, WTypeOK, Entries
      <3> QED
        BY <3>1, <3>2 DEF View
    <2> QED
      BY <2>1, <2>2, StepKeepsWInv
  <1> QED
    BY <1>1, WInvHolds, PTL DEF WSpec, ReadsStable
====
