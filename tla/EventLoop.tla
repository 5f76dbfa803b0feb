----------------------------- MODULE EventLoop ------------------------------
(***************************************************************************)
(* The event loop of an nginx worker (event/ngx_event.c,                   *)
(* ngx_process_events_and_timers) and the accept mutex that decides which  *)
(* worker listens (event/ngx_event_accept.c).  The request handlers of the *)
(* loop use the mutex of a shared zone (Shmtx); the accept mutex is        *)
(* created without a semaphore (spin is -1) and is only ever tried.        *)
(***************************************************************************)
EXTENDS Shmtx

CONSTANTS
    MaxDisabled,     \* the largest ngx_accept_disabled an accept sets
    MaxConnections,  \* how many connections arrive
    MaxFaults        \* how often accept, or adding or deleting an event, fails

ASSUME LoopAssumption ==
    MaxDisabled \in Nat /\ MaxConnections \in Nat /\ MaxFaults \in Nat

VARIABLES
    accept,    \* the lock word of ngx_accept_mutex
    loop,      \* where each worker is in ngx_process_events_and_timers
    held,      \* ngx_accept_mutex_held
    active,    \* the listening sockets are in the epoll set of the worker
    disabled,  \* ngx_accept_disabled, when positive
    backlog,   \* connections the kernel has for the listening socket
    arrived,   \* connections that arrived so far
    faults     \* failures so far

loopVars == <<accept, loop, held, active, disabled, backlog, arrived, faults>>
allVars == <<vars, loopVars>>

(* "poll": in ngx_process_events, after an attempt at the accept mutex;        *)
(* "skipped": there without one, since ngx_accept_disabled was positive;       *)
(* "accept": the handler of an accept event, posted or called directly;        *)
(* "handlers": the handlers of the other events.  Without the mutex nothing is *)
(* posted and the handlers run inside ngx_process_events; "unlock" then has    *)
(* nothing to release.                                                        *)
LoopLocations == {"top", "poll", "skipped", "accept", "unlock", "handlers"}

LoopInit ==
    /\ Init
    /\ accept = NoPid
    /\ loop = [w \in Workers |-> "top"]
    /\ held = [w \in Workers |-> FALSE]
    /\ active = [w \in Workers |-> FALSE]
    /\ disabled = [w \in Workers |-> 0]
    /\ backlog = 0
    /\ arrived = 0
    /\ faults = 0

GoTo(w, from, to) ==
    /\ pc[w] = "out"
    /\ loop[w] = from
    /\ loop' = [loop EXCEPT ![w] = to]

Set(f, w, v) == f' = [f EXCEPT ![w] = v]

Fails == faults < MaxFaults /\ faults' = faults + 1

-----------------------------------------------------------------------------
(* The head of ngx_process_events_and_timers.                                *)

SkipMutex(w) ==
    /\ GoTo(w, "top", "skipped")
    /\ disabled[w] > 0
    /\ Set(disabled, w, disabled[w] - 1)
    /\ UNCHANGED <<vars, accept, held, active, backlog, arrived, faults>>

(* ngx_trylock_accept_mutex gets the mutex.  It enables the accept events      *)
(* unless the worker kept them from the last time it had it; when that fails   *)
(* the mutex is released and the loop starts again.                           *)
GetMutex(w) ==
    /\ disabled[w] = 0
    /\ accept = NoPid
    /\ \/ /\ GoTo(w, "top", "poll")
          /\ accept' = w
          /\ Set(held, w, TRUE)
          /\ Set(active, w, TRUE)
          /\ UNCHANGED faults
       \/ /\ GoTo(w, "top", "top")
          /\ ~held[w]
          /\ Fails
          /\ UNCHANGED <<accept, held, active>>
    /\ UNCHANGED <<vars, disabled, backlog, arrived>>

(* Mutant: the worker keeps listening.                                       *)
MissMutexListening(w) ==
    /\ disabled[w] = 0
    /\ accept # NoPid
    /\ GoTo(w, "top", "poll")
    /\ Set(held, w, FALSE)
    /\ UNCHANGED <<vars, accept, active, disabled, backlog, arrived, faults>>

(* ngx_trylock_accept_mutex fails: a worker that had the mutex the last time   *)
(* takes the listening sockets out of its epoll set.                          *)
MissMutex(w) ==
    /\ disabled[w] = 0
    /\ accept # NoPid
    /\ \/ /\ GoTo(w, "top", "poll")
          /\ Set(held, w, FALSE)
          /\ Set(active, w, active[w] /\ ~held[w])
          /\ UNCHANGED faults
       \/ /\ GoTo(w, "top", "top")
          /\ held[w]
          /\ Fails
          /\ UNCHANGED <<held, active>>
    /\ UNCHANGED <<vars, accept, disabled, backlog, arrived>>

-----------------------------------------------------------------------------
(* ngx_process_events returns.                                               *)

AcceptEvent(w) ==
    /\ GoTo(w, loop[w], "accept")
    /\ loop[w] \in {"poll", "skipped"}
    /\ active[w] /\ backlog > 0
    /\ UNCHANGED <<vars, accept, held, active, disabled, backlog, arrived, faults>>

(* A timer, or an event of a connection; epoll_wait would report a listening    *)
(* socket that is ready as well.                                              *)
OtherEvent(w) ==
    /\ GoTo(w, loop[w], "unlock")
    /\ loop[w] \in {"poll", "skipped"}
    /\ ~(active[w] /\ backlog > 0)
    /\ UNCHANGED <<vars, accept, held, active, disabled, backlog, arrived, faults>>

(* ngx_event_accept: accept() takes a connection, which may be aborted or       *)
(* closed again for want of memory, or finds that another worker was faster.   *)
Accept(w) ==
    /\ GoTo(w, "accept", "unlock")
    /\ IF backlog > 0
       THEN /\ backlog' = backlog - 1
            /\ \E n \in 0..MaxDisabled : Set(disabled, w, n)
       ELSE UNCHANGED <<backlog, disabled>>
    /\ UNCHANGED <<vars, accept, held, active, arrived, faults>>

ReleaseAccept(w) == IF accept = w THEN NoPid ELSE accept

(* ngx_event_accept when accept() fails with EMFILE or ENFILE, and when the     *)
(* events cannot be disabled after that.                                     *)
AcceptFails(w) ==
    /\ GoTo(w, "accept", "unlock")
    /\ backlog > 0
    /\ Fails
    /\ \/ /\ Set(active, w, FALSE)
          /\ accept' = IF held[w] THEN ReleaseAccept(w) ELSE accept
          /\ Set(held, w, FALSE)
          /\ Set(disabled, w, 1)
       \/ UNCHANGED <<active, accept, held, disabled>>
    /\ UNCHANGED <<vars, backlog, arrived>>

(* if (ngx_accept_mutex_held) ngx_shmtx_unlock(&ngx_accept_mutex)             *)
UnlockAccept(w) ==
    /\ GoTo(w, "unlock", "handlers")
    /\ accept' = IF held[w] THEN ReleaseAccept(w) ELSE accept
    /\ UNCHANGED <<vars, held, active, disabled, backlog, arrived, faults>>

-----------------------------------------------------------------------------
(* The handlers, which take the mutex of the zone.                           *)

CallLock(w) ==
    /\ loop[w] = "handlers"
    /\ Lock(w)
    /\ UNCHANGED loopVars

EndOfLoop(w) ==
    /\ GoTo(w, "handlers", "top")
    /\ UNCHANGED <<vars, accept, held, active, disabled, backlog, arrived, faults>>

WorkerDies(w) ==
    /\ Die(w)
    /\ UNCHANGED loopVars

(* Mutant: only the mutexes of the zones are unlocked.                       *)
UnlockZones(w) ==
    /\ ForceUnlock(w)
    /\ Set(loop, w, "top")
    /\ Set(held, w, FALSE)
    /\ Set(active, w, FALSE)
    /\ Set(disabled, w, 0)
    /\ UNCHANGED <<accept, backlog, arrived, faults>>

(* ngx_unlock_mutexes: the accept mutex, then the zones.  The next worker      *)
(* starts with ngx_event_process_init.                                        *)
UnlockMutexes(w) ==
    /\ ForceUnlock(w)
    /\ accept' = ReleaseAccept(w)
    /\ Set(loop, w, "top")
    /\ Set(held, w, FALSE)
    /\ Set(active, w, FALSE)
    /\ Set(disabled, w, 0)
    /\ UNCHANGED <<backlog, arrived, faults>>

ConnectionArrives ==
    /\ arrived < MaxConnections
    /\ arrived' = arrived + 1
    /\ backlog' = backlog + 1
    /\ UNCHANGED <<vars, accept, loop, held, active, disabled, faults>>

MutexStep(p) == (LockStep(p) \/ Unlock(p)) /\ UNCHANGED loopVars
WakeStep(p) == WakeupStep(p) /\ UNCHANGED loopVars

LoopStep(w) ==
    \/ SkipMutex(w) \/ GetMutex(w) \/ MissMutex(w)
    \/ AcceptEvent(w) \/ OtherEvent(w) \/ Accept(w) \/ AcceptFails(w)
    \/ UnlockAccept(w) \/ EndOfLoop(w)

LoopNext ==
    \/ \E w \in Workers : \/ LoopStep(w) \/ CallLock(w) \/ MutexStep(w)
                          \/ WorkerDies(w) \/ UnlockMutexes(w)
    \/ \E p \in Procs : WakeStep(p)
    \/ ConnectionArrives

LoopSpec == LoopInit /\ [][LoopNext]_allVars

(* What a worker does between two calls of epoll_wait is finite.  epoll_wait   *)
(* itself returns when a socket in the epoll set is ready, after              *)
(* accept_mutex_delay when the worker missed the mutex, and for the timers of  *)
(* open connections; a worker with ngx_accept_disabled > 0 has those.          *)
BusyStep(w) == LoopStep(w) /\ loop[w] \notin {"poll", "skipped"}
LoopFairness ==
    /\ \A w \in Workers :
         /\ WF_allVars(BusyStep(w))
         /\ WF_allVars(AcceptEvent(w))
         /\ WF_allVars(OtherEvent(w) /\ (loop[w] = "skipped" \/ ~held[w]))
         /\ WF_allVars(MutexStep(w))
         /\ WF_allVars(UnlockMutexes(w))
    /\ \A p \in Procs : WF_allVars(WakeStep(p))

FairLoopSpec == LoopSpec /\ LoopFairness

-----------------------------------------------------------------------------
Running(w) == pc[w] # "dead"
Listening(w) == Running(w) /\ loop[w] \in {"poll", "skipped"} /\ active[w]

(* Only the owner of the accept mutex waits in epoll_wait with the listening   *)
(* sockets in its set, except a worker that skipped the mutex because          *)
(* ngx_accept_disabled is positive: it keeps the sockets it had.              *)
OneListener ==
    \A v, w \in Workers :
        Listening(v) /\ Listening(w) /\ v # w =>
            loop[v] = "skipped" \/ loop[w] = "skipped"

(* No request handler runs under the accept mutex: a handler may sleep on the  *)
(* mutex of a zone, and with the accept mutex in hand nobody would accept.     *)
HandlersOutside ==
    \A w \in Workers :
        Running(w) /\ (loop[w] = "handlers" \/ pc[w] # "out") => accept # w

(* What the accept mutex is for: one worker waits for connections, and it lets  *)
(* the mutex go before anything that may take long.                           *)
OneAcceptor == OneListener /\ HandlersOutside

(* A connection that arrives is accepted, whichever workers die, run out of    *)
(* descriptors or are nearly full, unless a death lost a wake-up of the zone   *)
(* mutex.                                                                     *)
ConnectionsAccepted == [](backlog > 0 => <>(backlog = 0 \/ WakeupLost))
=============================================================================
