--------------------------- MODULE EventLoopProofs ---------------------------
(***************************************************************************)
(* Proofs about the mutex in shared memory and the event loop.  The mutex  *)
(* alone excludes; the event loop with its handlers is a use of the mutex  *)
(* (LoopSpec implies Spec); and the accept mutex, with the flags each      *)
(* worker keeps about it, lets one worker listen and no handler wait.      *)
(***************************************************************************)
EXTENDS EventLoop, TLAPS

-----------------------------------------------------------------------------
(* The mutex.                                                                *)

(* A worker between lock and unlock has its pid in the lock word.             *)
Owned ==
    /\ lock \in Workers \cup {NoPid}
    /\ pc \in [Procs -> Locations]
    /\ \A p \in Workers : pc[p] = "in" => lock = p

LEMMA OwnedInit == Init => Owned
BY DEF Init, Owned, Procs, Locations

(* Every step of the mutex keeps Owned; ngx_shmtx_force_unlock does since it    *)
(* compares the lock word with the pid of the dead worker.                    *)
LEMMA OwnedStep == Owned /\ [Next]_vars => Owned'
<1> SUFFICES ASSUME Owned, [Next]_vars PROVE Owned'
  OBVIOUS
<1> USE MasterAssumption, NoPidAssumption DEF Owned, Procs, Locations, WakeupSteps
<1>1. ASSUME NEW p \in Workers, Lock(p) PROVE Owned'
  BY <1>1 DEF Lock, Go
<1>2. ASSUME NEW p \in Workers, LockStep(p) PROVE Owned'
  <2>1. CASE Take(p)
    BY <2>1 DEF Take, Go, CompareAndSet
  <2>2. CASE GiveUpSpinning(p) \/ CountItself(p) \/ Awake(p)
    BY <2>2 DEF GiveUpSpinning, CountItself, Awake, Go
  <2>3. CASE Recheck(p)
    BY <2>3 DEF Recheck, Go, CompareAndSet
  <2> QED
    BY <1>2, <2>1, <2>2, <2>3 DEF LockStep
<1>3. ASSUME NEW p \in Workers, Unlock(p) PROVE Owned'
  BY <1>3 DEF Unlock, Go
<1>4. ASSUME NEW p \in Workers, Die(p) PROVE Owned'
  BY <1>4 DEF Die
<1>5. ASSUME NEW p \in Workers, ForceUnlock(p) PROVE Owned'
  BY <1>5 DEF ForceUnlock
<1>6. ASSUME NEW p \in Procs, WakeupStep(p) PROVE Owned'
  BY <1>6 DEF WakeupStep, ReadWait, DiscountOne, Post, Go
<1>7. CASE UNCHANGED vars
  BY <1>7 DEF vars
<1> QED
  BY <1>1, <1>2, <1>3, <1>4, <1>5, <1>6, <1>7 DEF Next

(* ngx_shmtx_lock excludes, for any number of workers, deaths and calls.      *)
THEOREM MutexExcludes == Spec => []MutualExclusion
<1>1. Owned => MutualExclusion
  BY DEF Owned, MutualExclusion
<1> QED
  BY <1>1, OwnedInit, OwnedStep, PTL DEF Spec

-----------------------------------------------------------------------------
(* The event loop uses the mutex as the mutex may be used.                    *)

LEMMA LoopStepImplements == [LoopNext]_allVars => [Next]_vars
<1> SUFFICES ASSUME [LoopNext]_allVars PROVE [Next]_vars
  OBVIOUS
<1>1. ASSUME NEW w \in Workers, LoopStep(w) PROVE UNCHANGED vars
  BY <1>1 DEF LoopStep, SkipMutex, GetMutex, MissMutex, AcceptEvent, OtherEvent,
              Accept, AcceptFails, UnlockAccept, EndOfLoop
<1>2. ASSUME NEW w \in Workers,
             CallLock(w) \/ MutexStep(w) \/ WorkerDies(w) \/ UnlockMutexes(w)
      PROVE Next
  BY <1>2 DEF CallLock, MutexStep, WorkerDies, UnlockMutexes, Next
<1>3. ASSUME NEW p \in Procs, WakeStep(p) PROVE Next
  BY <1>3 DEF WakeStep, Next
<1>4. CASE ConnectionArrives
  BY <1>4 DEF ConnectionArrives
<1>5. CASE UNCHANGED allVars
  BY <1>5 DEF allVars
<1> QED
  BY <1>1, <1>2, <1>3, <1>4, <1>5 DEF LoopNext

(* The worker processes with their event loops behave like the processes of     *)
(* the mutex specification.                                                  *)
THEOREM LoopImplementsMutex == LoopSpec => Spec
BY LoopStepImplements, PTL DEF LoopSpec, Spec, LoopInit

(* No two workers are in a zone of shared memory, also in the event loop.      *)
THEOREM ZonesExclusive == LoopSpec => []MutualExclusion
BY LoopImplementsMutex, MutexExcludes, PTL

-----------------------------------------------------------------------------
(* The accept mutex.                                                         *)

(* The owner of the accept mutex says so in ngx_accept_mutex_held and is        *)
(* between the attempt and the release, outside the zones; a worker polls       *)
(* with ngx_accept_mutex_held only as the owner, and has the listening sockets  *)
(* in its epoll set only with ngx_accept_mutex_held.                          *)
AcceptOwned(w) ==
    /\ accept = w => /\ held[w]
                     /\ loop[w] \in {"poll", "accept", "unlock"}
    /\ loop[w] = "poll" /\ held[w] => accept = w
    /\ active[w] => held[w]
    /\ loop[w] # "handlers" => pc[w] \in {"out", "dead"}

AcceptInv ==
    /\ accept \in Workers \cup {NoPid}
    /\ pc \in [Procs -> Locations]
    /\ loop \in [Workers -> LoopLocations]
    /\ held \in [Workers -> BOOLEAN]
    /\ active \in [Workers -> BOOLEAN]
    /\ \A w \in Workers : AcceptOwned(w)

LEMMA AcceptInvInit == LoopInit => AcceptInv
BY NoPidAssumption
   DEF LoopInit, Init, AcceptInv, AcceptOwned, Procs, Locations, LoopLocations

(* Each step of the loop keeps AcceptInv.                                     *)
LEMMA AcceptInvLoop ==
    ASSUME AcceptInv, NEW w \in Workers, LoopStep(w)
    PROVE AcceptInv'
<1> USE NoPidAssumption
    DEF AcceptInv, AcceptOwned, GoTo, Set, LoopLocations, vars
<1>1. CASE SkipMutex(w)
  BY <1>1 DEF SkipMutex
<1>2. CASE GetMutex(w)
  <2>1. CASE GoTo(w, "top", "top") /\ UNCHANGED <<accept, held, active>>
    BY <1>2, <2>1 DEF GetMutex
  <2>2. CASE /\ GoTo(w, "top", "poll")
             /\ accept' = w
             /\ Set(held, w, TRUE)
             /\ Set(active, w, TRUE)
    BY <1>2, <2>2 DEF GetMutex
  <2> QED
    BY <1>2, <2>1, <2>2 DEF GetMutex
<1>3. CASE MissMutex(w)
  BY <1>3 DEF MissMutex
<1>4. CASE AcceptEvent(w)
  BY <1>4 DEF AcceptEvent
<1>5. CASE OtherEvent(w)
  BY <1>5 DEF OtherEvent
<1>6. CASE Accept(w)
  BY <1>6 DEF Accept
<1>7. CASE AcceptFails(w)
  <2>1. CASE UNCHANGED <<active, accept, held, disabled>>
    BY <1>7, <2>1 DEF AcceptFails
  <2>2. CASE /\ Set(active, w, FALSE)
             /\ accept' = IF held[w] THEN ReleaseAccept(w) ELSE accept
             /\ Set(held, w, FALSE)
    BY <1>7, <2>2 DEF AcceptFails, ReleaseAccept
  <2> QED
    BY <1>7, <2>1, <2>2 DEF AcceptFails
<1>8. CASE UnlockAccept(w)
  BY <1>8 DEF UnlockAccept, ReleaseAccept
<1>9. CASE EndOfLoop(w)
  BY <1>9 DEF EndOfLoop
<1> QED
  BY <1>1, <1>2, <1>3, <1>4, <1>5, <1>6, <1>7, <1>8, <1>9 DEF LoopStep

(* So do the steps inside a handler: pc leaves "out" only there.               *)
LEMMA AcceptInvHandlers ==
    ASSUME AcceptInv, NEW p \in Procs, UNCHANGED loopVars,
           \/ p \in Workers /\ (CallLock(p) \/ MutexStep(p) \/ WorkerDies(p))
           \/ WakeStep(p)
    PROVE AcceptInv'
<1> USE MasterAssumption DEF AcceptInv, AcceptOwned, loopVars, Procs, Locations,
                             WakeupSteps, Go
<1>1. CASE p \in Workers /\ CallLock(p)
  BY <1>1 DEF CallLock, Lock
<1>2. CASE p \in Workers /\ MutexStep(p)
  BY <1>2 DEF MutexStep, LockStep, Take, GiveUpSpinning, CountItself, Recheck,
              Awake, Unlock
<1>3. CASE p \in Workers /\ WorkerDies(p)
  BY <1>3 DEF WorkerDies, Die
<1>4. CASE WakeStep(p)
  BY <1>4 DEF WakeStep, WakeupStep, ReadWait, DiscountOne, Post
<1> QED
  BY <1>1, <1>2, <1>3, <1>4

LEMMA AcceptInvStep == AcceptInv /\ [LoopNext]_allVars => AcceptInv'
<1> SUFFICES ASSUME AcceptInv, [LoopNext]_allVars PROVE AcceptInv'
  OBVIOUS
<1>1. ASSUME NEW w \in Workers, LoopStep(w) PROVE AcceptInv'
  BY <1>1, AcceptInvLoop
<1>2. ASSUME NEW w \in Workers, CallLock(w) \/ MutexStep(w) \/ WorkerDies(w)
      PROVE AcceptInv'
  BY <1>2, AcceptInvHandlers DEF CallLock, MutexStep, WorkerDies, Procs
<1>3. ASSUME NEW w \in Workers, UnlockMutexes(w) PROVE AcceptInv'
  BY <1>3, MasterAssumption, NoPidAssumption
     DEF UnlockMutexes, ForceUnlock, ReleaseAccept, Set, AcceptInv, AcceptOwned,
         Procs, Locations, WakeupSteps, LoopLocations
<1>4. ASSUME NEW p \in Procs, WakeStep(p) PROVE AcceptInv'
  BY <1>4, AcceptInvHandlers DEF WakeStep
<1>5. CASE ConnectionArrives
  BY <1>5 DEF ConnectionArrives, vars, AcceptInv, AcceptOwned
<1>6. CASE UNCHANGED allVars
  BY <1>6 DEF allVars, vars, loopVars, AcceptInv, AcceptOwned
<1> QED
  BY <1>1, <1>2, <1>3, <1>4, <1>5, <1>6 DEF LoopNext

(* At most one worker waits for connections, apart from workers that skip the  *)
(* accept mutex; and no handler runs under the accept mutex.                  *)
THEOREM AcceptMutexWorks == LoopSpec => []OneAcceptor
<1>1. AcceptInv => OneListener
  <2> SUFFICES ASSUME AcceptInv, NEW v \in Workers, NEW w \in Workers,
                      Listening(v), Listening(w), v # w,
                      loop[v] = "poll", loop[w] = "poll"
               PROVE FALSE
    BY DEF OneListener, Listening
  <2> QED
    BY DEF AcceptInv, AcceptOwned, Listening
<1>2. AcceptInv => HandlersOutside
  BY DEF AcceptInv, AcceptOwned, HandlersOutside, Running
<1>3. AcceptInv => OneAcceptor
  BY <1>1, <1>2 DEF OneAcceptor
<1> QED
  BY <1>3, AcceptInvInit, AcceptInvStep, PTL DEF LoopSpec
=============================================================================
