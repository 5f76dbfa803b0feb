------------------------------- MODULE Shmtx --------------------------------
(***************************************************************************)
(* The mutex in shared memory of nginx (core/ngx_shmtx.c, the version with *)
(* atomic operations and a POSIX semaphore), which guards every shared     *)
(* zone, the one of the push stream module included.  The lock word holds  *)
(* the pid of its owner; a process that finds it taken counts itself in    *)
(* `wait' and sleeps on the semaphore, and an unlock posts the semaphore   *)
(* once for a counted waiter.  The processes can die anywhere: the master  *)
(* then takes the lock back from the dead one in its SIGCHLD handler       *)
(* (os/unix/ngx_process.c, ngx_unlock_mutexes) and starts a new worker.    *)
(*                                                                         *)
(* A process is identified with the pid it runs under.                     *)
(***************************************************************************)
EXTENDS Naturals, FiniteSets

CONSTANTS
    Workers,        \* worker processes
    Master,         \* the process that handles SIGCHLD
    NoPid,          \* the lock word 0
    SEM_VALUE_MAX,  \* the largest value of a semaphore
    MaxCalls,       \* how often the lock is asked for
    MaxDeaths       \* how many workers die

Procs == Workers \cup {Master}

ASSUME MasterAssumption == Master \notin Workers
ASSUME NoPidAssumption == NoPid \notin Workers \cup {Master}
ASSUME CountAssumption ==
    SEM_VALUE_MAX \in Nat /\ MaxCalls \in Nat /\ MaxDeaths \in Nat

VARIABLES
    lock,       \* *mtx->lock
    wait,       \* *mtx->wait
    sem,        \* the value of mtx->sem
    pc,         \* where each process is
    seen,       \* ngx_shmtx_wakeup: the local wait of each process
    calls,      \* the calls made so far
    lastWords   \* where the workers that died were: a set of <<n, location>>

vars == <<lock, wait, sem, pc, seen, calls, lastWords>>

(* "try": in the for loop of ngx_shmtx_lock, "awake": there again after        *)
(* sem_wait returned; "wread", "wcas", "wpost": the three steps of             *)
(* ngx_shmtx_wakeup.                                                           *)
WakeupSteps == {"wread", "wcas", "wpost"}
Locations == {"out", "try", "add", "recheck", "sleep", "awake", "in", "dead"}
               \cup WakeupSteps

Init ==
    /\ lock = NoPid
    /\ wait = 0
    /\ sem = 0
    /\ pc = [p \in Procs |-> "out"]
    /\ seen = [p \in Procs |-> 0]
    /\ calls = 0
    /\ lastWords = {}

Go(p, from, to) == pc[p] = from /\ pc' = [pc EXCEPT ![p] = to]

(* *mtx->lock == 0 && ngx_atomic_cmp_set(mtx->lock, 0, ngx_pid)               *)
CompareAndSet(p) == lock = NoPid /\ lock' = p

Call == calls < MaxCalls /\ calls' = calls + 1

Lock(p) ==
    /\ Go(p, "out", "try")
    /\ Call
    /\ UNCHANGED <<lock, wait, sem, seen, lastWords>>

(* The attempts at the top of the loop and in the spin loop.                  *)
Take(p) ==
    /\ \/ Go(p, "try", "in")
       \/ Go(p, "awake", "in")
    /\ CompareAndSet(p)
    /\ UNCHANGED <<wait, sem, seen, calls, lastWords>>

GiveUpSpinning(p) ==
    /\ \/ Go(p, "try", "add")
       \/ Go(p, "awake", "add")
    /\ lock # NoPid
    /\ UNCHANGED <<lock, wait, sem, seen, calls, lastWords>>

(* ngx_atomic_fetch_add(mtx->wait, 1)                                         *)
CountItself(p) ==
    /\ Go(p, "add", "recheck")
    /\ wait' = wait + 1
    /\ UNCHANGED <<lock, sem, seen, calls, lastWords>>

(* Mutant: no look at the lock word between the count and the sleep.          *)
SleepAtOnce(p) ==
    /\ Go(p, "recheck", "sleep")
    /\ UNCHANGED <<lock, wait, sem, seen, calls, lastWords>>

(* The last look at the lock word before sleeping; a process that gets the    *)
(* lock here leaves itself counted in wait.                                   *)
Recheck(p) ==
    /\ \/ Go(p, "recheck", "in") /\ CompareAndSet(p)
       \/ Go(p, "recheck", "sleep") /\ lock # NoPid /\ UNCHANGED lock
    /\ UNCHANGED <<wait, sem, seen, calls, lastWords>>

(* sem_wait returns; a return with EINTR goes back to sleep.                  *)
Awake(p) ==
    /\ Go(p, "sleep", "awake")
    /\ sem > 0
    /\ sem' = sem - 1
    /\ UNCHANGED <<lock, wait, seen, calls, lastWords>>

(* Mutant: nobody is woken.                                                  *)
UnlockQuietly(p) ==
    /\ Go(p, "in", "out")
    /\ lock' = IF lock = p THEN NoPid ELSE lock
    /\ UNCHANGED <<wait, sem, seen, calls, lastWords>>

Unlock(p) ==
    /\ Go(p, "in", IF lock = p THEN "wread" ELSE "out")
    /\ lock' = IF lock = p THEN NoPid ELSE lock
    /\ UNCHANGED <<wait, sem, seen, calls, lastWords>>

(* ngx_shmtx_wakeup                                                            *)
ReadWait(p) ==
    /\ Go(p, "wread", IF wait = 0 THEN "out" ELSE "wcas")
    /\ seen' = [seen EXCEPT ![p] = wait]
    /\ UNCHANGED <<lock, wait, sem, calls, lastWords>>

DiscountOne(p) ==
    /\ Go(p, "wcas", IF wait = seen[p] THEN "wpost" ELSE "wread")
    /\ wait' = IF wait = seen[p] THEN wait - 1 ELSE wait
    /\ seen' = [seen EXCEPT ![p] = 0]
    /\ UNCHANGED <<lock, sem, calls, lastWords>>

(* sem_post fails, with a message in the log, when the semaphore is full.     *)
Post(p) ==
    /\ Go(p, "wpost", "out")
    /\ sem' = IF sem < SEM_VALUE_MAX THEN sem + 1 ELSE sem
    /\ UNCHANGED <<lock, wait, seen, calls, lastWords>>

Die(p) ==
    /\ pc[p] # "dead"
    /\ Cardinality(lastWords) < MaxDeaths
    /\ lastWords' = lastWords \cup {<<Cardinality(lastWords), pc[p]>>}
    /\ pc' = [pc EXCEPT ![p] = "dead"]
    /\ seen' = [seen EXCEPT ![p] = 0]
    /\ UNCHANGED <<lock, wait, sem, calls>>

(* Mutant: the pid in the lock word is not compared.                         *)
ForceUnlockAny(p) ==
    /\ pc[p] = "dead"
    /\ pc[Master] = "out"
    /\ pc' = [pc EXCEPT ![p] = "out", ![Master] = "wread"]
    /\ lock' = NoPid
    /\ UNCHANGED <<wait, sem, seen, calls, lastWords>>

(* ngx_process_get_status of a dead worker: ngx_shmtx_force_unlock with its    *)
(* pid.  ngx_reap_children puts a new process in its place.                   *)
ForceUnlock(p) ==
    /\ pc[p] = "dead"
    /\ pc[Master] = "out"
    /\ pc' = [pc EXCEPT ![p] = "out",
                        ![Master] = IF lock = p THEN "wread" ELSE "out"]
    /\ lock' = IF lock = p THEN NoPid ELSE lock
    /\ UNCHANGED <<wait, sem, seen, calls, lastWords>>

LockStep(p) ==
    Take(p) \/ GiveUpSpinning(p) \/ CountItself(p) \/ Recheck(p) \/ Awake(p)

WakeupStep(p) == ReadWait(p) \/ DiscountOne(p) \/ Post(p)

Next ==
    \/ \E p \in Workers : \/ Lock(p) \/ LockStep(p) \/ Unlock(p)
                          \/ Die(p) \/ ForceUnlock(p)
    \/ \E p \in Procs : WakeupStep(p)

(* A process that runs is scheduled, a holder leaves its critical section, and *)
(* SIGCHLD is delivered.  Nobody has to ask for the lock.                      *)
Fairness ==
    /\ \A p \in Workers : WF_vars(LockStep(p)) /\ WF_vars(Unlock(p))
    /\ \A p \in Workers : WF_vars(ForceUnlock(p))
    /\ \A p \in Procs : WF_vars(WakeupStep(p))

Spec == Init /\ [][Next]_vars
FairSpec == Spec /\ Fairness

(***************************************************************************)
(* Properties                                                              *)
(***************************************************************************)

(* Two workers are never between lock and unlock at the same time, although    *)
(* the master takes the lock back from workers that died (ngx_shmtx_lock,      *)
(* ngx_shmtx_force_unlock).                                                    *)
MutualExclusion ==
    \A p, q \in Workers : pc[p] = "in" /\ pc[q] = "in" => p = q

(* The places where the death of a worker takes a wake-up with it: between the *)
(* release of the lock word and sem_post, and between the return of sem_wait   *)
(* and the next look at the lock word.                                         *)
WakeupLost == \E d \in lastWords : d[2] \in WakeupSteps \cup {"awake"}

(* A worker sleeps while the lock is free only if a wake-up is on its way to   *)
(* it: a post not yet consumed, a process inside ngx_shmtx_wakeup, one that    *)
(* woke up and has not looked at the lock yet, or a dead worker whose lock the *)
(* master has still to take back.  Deaths elsewhere do not disturb this.       *)
NoMissedWakeup ==
    (lock = NoPid /\ \E p \in Workers : pc[p] = "sleep") =>
        \/ sem > 0
        \/ \E q \in Procs : pc[q] \in WakeupSteps \cup {"awake"}
        \/ WakeupLost

(* A worker that calls ngx_shmtx_lock gets the lock, unless it dies or a death *)
(* took a wake-up with it.  The mutex promises no order: other workers may      *)
(* overtake it, but only by calls of their own.                                *)
Waiting(p) == pc[p] \in {"try", "add", "recheck", "sleep", "awake"}
LockReturns ==
    \A p \in Workers : Waiting(p) ~> (~Waiting(p) \/ WakeupLost)
=============================================================================
