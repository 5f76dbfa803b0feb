---------------------------- MODULE ProcessCycle ----------------------------
(***************************************************************************)
(* The master process of nginx and its children (os/unix/                  *)
(* ngx_process_cycle.c and ngx_process.c).  The master sleeps in           *)
(* sigsuspend; signals are blocked everywhere else, so one round of        *)
(* ngx_master_process_cycle, from the handlers that run when sigsuspend    *)
(* returns to the next sigsuspend, is one step.  Children get commands     *)
(* through their channel, or as signals when the channel is full: either   *)
(* way they find them in their mail.  The configuration has no cache, so   *)
(* there is no cache manager.                                              *)
(***************************************************************************)
EXTENDS Integers, Sequences, SequencesExt, FiniteSets

CONSTANTS
    N,            \* ccf->worker_processes
    KillDelay,    \* 1000 in the code: SIGKILL when delay is larger
    Signals,      \* what an operator may send: TERM, QUIT, HUP, WINCH, USR1, USR2
    MaxSignals,   \* how many signals an operator sends
    Faults,       \* what may fail in a round: "respawn", "start", "init", "exec"
    MaxIncidents  \* how many children crash or hang and how much fails

ASSUME CycleAssumption ==
    /\ {N, KillDelay, MaxSignals, MaxIncidents} \subseteq Nat
    /\ Signals \subseteq {"TERM", "QUIT", "HUP", "WINCH", "USR1", "USR2"}
    /\ Faults \subseteq {"respawn", "start", "init", "exec"}

VARIABLES
    master,   \* the variables of the master, see MasterInit
    kids,     \* kids[p]: the child with pid p
    pending,  \* signals sent to the master and still blocked
    sent,     \* how many signals the operator sent so far
    incidents \* how much went wrong so far

vars == <<master, kids, pending, sent, incidents>>

NoBinary == 0    \* ngx_new_binary == 0
Invalid == -1    \* NGX_INVALID_PID
FreeSlot == -1   \* ngx_processes[s].pid == -1

Child(kind, gen) == [kind |-> kind, gen |-> gen, st |-> "run", mail |-> {}]
Gone(st) == [kind |-> "none", gen |-> 0, st |-> st, mail |-> {}]
Slot(pid, respawn, just, detached) ==
    [pid |-> pid, respawn |-> respawn, just |-> just, detached |-> detached,
     exited |-> FALSE, exiting |-> FALSE]

(* gen numbers the cycles of ngx_init_cycle; flags are the ngx_reap,           *)
(* ngx_terminate, ... that are set.  short is a history variable: a start of    *)
(* workers could not fork one.                                                *)
MasterInit ==
    [up |-> TRUE, flags |-> {}, newBinary |-> NoBinary, noaccepting |-> FALSE,
     live |-> TRUE, delay |-> 0, sigio |-> 0, timer |-> FALSE, gen |-> 1,
     short |-> FALSE,
     slots |-> [i \in 1..N |-> Slot(i, TRUE, FALSE, FALSE)]]

Init ==
    /\ master = MasterInit
    /\ kids = [p \in 1..N |-> Child("worker", 1)]
    /\ pending = {}
    /\ sent = 0 /\ incidents = 0

-----------------------------------------------------------------------------
(* The pieces of a round.  A state s of the round has the master in m, the     *)
(* children in k and what fails in this round in down; a piece maps a set of    *)
(* such states to the set of states it leads to.                              *)

Has(s, flag) == flag \in s.m.flags
Clear(s, flag) == [s EXCEPT !.m.flags = @ \ {flag}]

(* Mutant: a respawned process is marked just_spawn.                          *)
RespawnJust(s, i) ==
    [s EXCEPT !.k = Append(@, Child("worker", s.m.gen)),
              !.m.slots[i].pid = Len(s.k) + 1,
              !.m.slots[i].exited = FALSE,
              !.m.slots[i].just = TRUE,
              !.m.live = TRUE]

(* ngx_spawn_process into slot i, which keeps its respawn, exiting, ... flags.  *)
Respawn(s, i) ==
    [s EXCEPT !.k = Append(@, Child("worker", s.m.gen)),
              !.m.slots[i].pid = Len(s.k) + 1,
              !.m.slots[i].exited = FALSE,
              !.m.live = TRUE]

(* ngx_spawn_process into the first free slot, or a new one.                  *)
Spawn(s, kind, just) ==
    LET free == {i \in DOMAIN s.m.slots : s.m.slots[i].pid = FreeSlot}
        new == Slot(Len(s.k) + 1, kind = "worker", just, kind = "binary")
    IN  [s EXCEPT !.k = Append(@, Child(kind, s.m.gen)),
                  !.m.slots = IF free = {} THEN Append(@, new)
                              ELSE [@ EXCEPT ![Min(free)] = new]]

(* ngx_start_worker_processes ignores what ngx_spawn_process returns.         *)
StartWorkers(S, just) ==
    FoldLeft(LAMBDA T, i : {IF i = 1 /\ "start" \in t.down
                            THEN [t EXCEPT !.m.short = TRUE]
                            ELSE Spawn(t, "worker", just) : t \in T},
             S, [i \in 1..N |-> i])

(* ngx_signal_worker_processes: a process that is just_spawn, or already told   *)
(* to quit, is passed over; kill() says ESRCH for one that was waited for.     *)
Passed(p, signo) ==
    p.detached \/ p.pid = FreeSlot \/ p.just \/ (p.exiting /\ signo = "quit")

SignalWorkers(S, signo) ==
    {LET Reached(p) == ~Passed(p, signo) /\ s.k[p.pid].kind # "none"
         Missing(p) == ~Passed(p, signo) /\ s.k[p.pid].kind = "none"
     IN  [s EXCEPT
            !.m.slots = [i \in DOMAIN @ |-> [@[i] EXCEPT
                !.just = @ /\ s.m.slots[i].detached,
                !.exited = @ \/ Missing(s.m.slots[i]),
                !.exiting = (@ \/ (Reached(s.m.slots[i]) /\ signo # "reopen"))
                              /\ ~Missing(s.m.slots[i])]],
            !.k = [c \in DOMAIN @ |-> [@[c] EXCEPT
                !.mail = IF \E i \in DOMAIN s.m.slots : /\ s.m.slots[i].pid = c
                                                        /\ Reached(s.m.slots[i])
                         THEN @ \cup {signo} ELSE @]],
            !.m.flags = IF \E i \in DOMAIN s.m.slots : Missing(s.m.slots[i])
                        THEN @ \cup {"reap"} ELSE @]
     : s \in S}

(* Mutant: the old binary does not serve again.                              *)
BinaryGoneQuietly(s) ==
    [s EXCEPT !.m.newBinary = NoBinary, !.m.noaccepting = FALSE]

(* The new binary exited: go back to serving with the old one.                *)
BinaryGone(s) ==
    [s EXCEPT !.m.newBinary = NoBinary,
              !.m.noaccepting = FALSE,
              !.m.flags = IF s.m.noaccepting THEN @ \cup {"restart"} ELSE @]

FreeTheSlot(s, i) ==
    [s EXCEPT !.m.slots = IF i = Len(@) THEN Front(@)
                          ELSE [@ EXCEPT ![i].pid = FreeSlot]]

(* Mutant: a process told to quit is not waited for.                         *)
LiveUnlessExiting(p) == ~p.exiting /\ ~p.detached

(* A process that has not exited keeps the master alive.                     *)
KeepsLive(p) == p.exiting \/ ~p.detached

(* ngx_reap_children; a child that cannot be respawned keeps its slot and is   *)
(* tried again the next time.                                                *)
ToRespawn(s, p) ==
    p.respawn /\ ~p.exiting /\ ~Has(s, "terminate") /\ ~Has(s, "quit")

ReapOne(s, i) ==
    LET p == s.m.slots[i]
    IN  CASE p.pid = FreeSlot -> s
          [] p.pid # FreeSlot /\ p.exited /\ ToRespawn(s, p) ->
               IF "respawn" \in s.down THEN s ELSE Respawn(s, i)
          [] p.pid # FreeSlot /\ p.exited /\ ~ToRespawn(s, p) ->
               FreeTheSlot(IF p.pid = s.m.newBinary THEN BinaryGone(s) ELSE s, i)
          [] OTHER -> [s EXCEPT !.m.live = @ \/ KeepsLive(p)]

(* Mutant: live is not reset before the children are looked at.              *)
ReapChildrenStaleLive(s) ==
    FoldLeft(LAMBDA T, i : {ReapOne(t, i) : t \in T}, {Clear(s, "reap")},
             [i \in 1..Len(s.m.slots) |-> i])

ReapChildren(s) ==
    FoldLeft(LAMBDA T, i : {ReapOne(t, i) : t \in T},
             {[Clear(s, "reap") EXCEPT !.m.live = FALSE]},
             [i \in 1..Len(s.m.slots) |-> i])

-----------------------------------------------------------------------------
(* ngx_signal_handler and ngx_process_get_status.                            *)

FlagOf == [TERM |-> "terminate", QUIT |-> "quit", HUP |-> "reconfigure",
           WINCH |-> "noaccept", USR1 |-> "reopen", USR2 |-> "change",
           CHLD |-> "reap", ALRM |-> "sigalrm"]

Ignored(s) == IF s.m.newBinary > 0 THEN {"USR2", "IO"} ELSE {"IO"}

HandleSignals(s, signals) ==
    [s EXCEPT !.m.flags = @ \cup {FlagOf[g] : g \in signals \ Ignored(s)}]

(* waitpid for every dead child; one that exited with code 2 is not            *)
(* respawned.                                                                *)
GetStatus(s) ==
    LET Dead(i) == /\ s.m.slots[i].pid # FreeSlot
                   /\ s.k[s.m.slots[i].pid].st \in {"zombie", "fatal"}
        Fatal(i) == s.k[s.m.slots[i].pid].st = "fatal"
    IN  [s EXCEPT
           !.m.slots = [i \in DOMAIN @ |->
               IF Dead(i) THEN [@[i] EXCEPT !.exited = TRUE,
                                            !.respawn = @ /\ ~Fatal(i)]
               ELSE @[i]],
           !.k = [p \in DOMAIN @ |->
               CASE @[p].st = "zombie" -> Gone("gone")
                 [] @[p].st = "fatal" -> Gone("failed")
                 [] OTHER -> @[p]]]

-----------------------------------------------------------------------------
(* ngx_master_process_cycle, from sigsuspend to sigsuspend.                  *)

(* Mutant: SIGKILL is never sent.                                            *)
NeverKill(delay) == "terminate"

TerminateSignal(delay) == IF delay > KillDelay THEN "kill" ELSE "terminate"

(* ngx_terminate: SIGTERM at first, again whenever the timer ran out, SIGKILL  *)
(* at last; sigio lets so many wake-ups pass in between.                      *)
TerminateStep(s) ==
    LET delay == IF s.m.delay = 0 THEN 50 ELSE s.m.delay
    IN  IF s.m.sigio > 0
        THEN {[s EXCEPT !.m.delay = delay, !.m.sigio = @ - 1]}
        ELSE SignalWorkers({[s EXCEPT !.m.delay = delay, !.m.sigio = N + 2]},
                           TerminateSignal(delay))

(* The steps for one flag each, in the order of the code.                     *)
RestartStep(s) ==
    IF Has(s, "restart")
    THEN StartWorkers({[Clear(s, "restart") EXCEPT !.m.live = TRUE]}, FALSE)
    ELSE {s}

ReopenStep(s) ==
    IF Has(s, "reopen") THEN SignalWorkers({Clear(s, "reopen")}, "reopen") ELSE {s}

(* ngx_exec_new_binary returns NGX_INVALID_PID when it fails.                 *)
ChangeBinaryStep(s) ==
    IF ~Has(s, "change") THEN {s}
    ELSE IF "exec" \in s.down
         THEN {[Clear(s, "change") EXCEPT !.m.newBinary = Invalid]}
         ELSE {[Spawn(Clear(s, "change"), "binary", FALSE)
                  EXCEPT !.m.newBinary = Len(s.k) + 1]}

NoAcceptStep(s) ==
    IF Has(s, "noaccept")
    THEN SignalWorkers({[Clear(s, "noaccept") EXCEPT !.m.noaccepting = TRUE]}, "quit")
    ELSE {s}

Each(S, Step(_)) == UNION {Step(s) : s \in S}

OtherSteps(S) ==
    Each(Each(Each(Each(S, RestartStep), ReopenStep), ChangeBinaryStep), NoAcceptStep)

(* ngx_reconfigure.  The first two ways go straight to the next sigsuspend.    *)
ReconfigureStep(s) ==
    LET t == Clear(s, "reconfigure")
    IN  IF s.m.newBinary # NoBinary
        THEN StartWorkers({[t EXCEPT !.m.noaccepting = FALSE]}, FALSE)
        ELSE IF "init" \in s.down
             THEN {t}
             ELSE OtherSteps(SignalWorkers(
                      StartWorkers({[t EXCEPT !.m.gen = @ + 1, !.m.live = TRUE]},
                                   TRUE), "quit"))

CycleStep(s) ==
    CASE ~s.m.live /\ (Has(s, "terminate") \/ Has(s, "quit")) ->
           {[s EXCEPT !.m.up = FALSE]}     \* ngx_master_process_exit
      [] s.m.live /\ Has(s, "terminate") -> TerminateStep(s)
      [] s.m.live /\ Has(s, "quit") /\ ~Has(s, "terminate") ->
           SignalWorkers({s}, "quit")
      [] OTHER -> IF Has(s, "reconfigure") THEN ReconfigureStep(s)
                  ELSE OtherSteps({s})

(* The head of the loop: setitimer, with twice the delay after SIGALRM.       *)
SetTimer(s) ==
    LET rang == Has(s, "sigalrm")
    IN  {IF s.m.delay = 0 THEN s
         ELSE [Clear(s, "sigalrm") EXCEPT !.m.sigio = IF rang THEN 0 ELSE @,
                                          !.m.delay = IF rang THEN 2 * @ ELSE @,
                                          !.m.timer = TRUE]}

Reap(s) == IF Has(s, "reap") THEN ReapChildren(s) ELSE {s}

Round(s, signals) ==
    Each(Each(Each({HandleSignals(t, signals) : t \in
                      {IF "CHLD" \in signals THEN GetStatus(s) ELSE s}},
                   Reap), CycleStep), SetTimer)

WakeUp ==
    /\ master.up /\ pending # {}
    /\ \E down \in SUBSET Faults :
         /\ incidents + Cardinality(down) <= MaxIncidents
         /\ incidents' = incidents + Cardinality(down)
         /\ \E s \in Round([m |-> master, k |-> kids, down |-> down], pending) :
              master' = s.m /\ kids' = s.k
    /\ pending' = {}
    /\ UNCHANGED sent

-----------------------------------------------------------------------------
(* What happens to the master.                                               *)

(* Once the master terminates it looks at no other flag.                      *)
Operator ==
    /\ master.up /\ sent < MaxSignals
    /\ "TERM" \notin pending /\ "terminate" \notin master.flags
    /\ \E g \in Signals : pending' = pending \cup {g}
    /\ sent' = sent + 1
    /\ UNCHANGED <<master, kids, incidents>>

(* setitimer; the bound on the delay stops the clock once SIGKILL was sent.   *)
Alarm ==
    /\ master.up /\ master.timer /\ master.delay <= 2 * KillDelay
    /\ master' = [master EXCEPT !.timer = FALSE]
    /\ pending' = pending \cup {"ALRM"}
    /\ UNCHANGED <<kids, sent, incidents>>

(* FIOASYNC on the channels.                                                 *)
SigIO ==
    /\ master.up /\ master.sigio > 0 /\ pending = {}
    /\ pending' = {"IO"}
    /\ UNCHANGED <<master, kids, sent, incidents>>

-----------------------------------------------------------------------------
(* The children: ngx_worker_process_cycle, ngx_channel_handler, and the new    *)
(* binary, which is somebody else's master and exits when it likes.           *)

Alive(p) == kids[p].st \in {"run", "exiting", "hung"}

Becomes(p, st) ==
    /\ master.up
    /\ kids' = [kids EXCEPT ![p].st = st]
    /\ pending' = IF st \in {"zombie", "fatal"} THEN pending \cup {"CHLD"}
                  ELSE pending

Incident == incidents < MaxIncidents /\ incidents' = incidents + 1

Reads(p) == kids[p].kind = "worker" /\ kids[p].st \in {"run", "exiting"}

WorkerQuits(p) ==
    /\ Reads(p) /\ kids[p].st = "run" /\ "quit" \in kids[p].mail
    /\ Becomes(p, "exiting")
    /\ UNCHANGED <<master, sent, incidents>>

WorkerDone(p) ==
    /\ Reads(p)
    /\ \/ kids[p].st = "exiting"             \* no connection is left
       \/ "terminate" \in kids[p].mail
    /\ Becomes(p, "zombie")
    /\ UNCHANGED <<master, sent, incidents>>

Killed(p) ==
    /\ Alive(p) /\ "kill" \in kids[p].mail
    /\ Becomes(p, "zombie")
    /\ UNCHANGED <<master, sent, incidents>>

Crashes(p) ==
    /\ Alive(p) /\ Incident
    /\ Becomes(p, "zombie") \/ (kids[p].kind = "worker" /\ Becomes(p, "fatal"))
    /\ UNCHANGED <<master, sent>>

Hangs(p) ==
    /\ Reads(p) /\ Incident
    /\ Becomes(p, "hung")
    /\ UNCHANGED <<master, sent>>

ChildStep(p) == WorkerQuits(p) \/ WorkerDone(p) \/ Killed(p)

Next ==
    \/ WakeUp \/ Operator \/ Alarm \/ SigIO
    \/ \E p \in DOMAIN kids : ChildStep(p) \/ Crashes(p) \/ Hangs(p)

(* Blocked signals are delivered by sigsuspend, timers ring, and a worker that *)
(* is not hung reads its mail and finishes its connections.                   *)
Fairness ==
    /\ WF_vars(WakeUp) /\ WF_vars(Alarm)
    /\ WF_vars(\E p \in DOMAIN kids : ChildStep(p))

Spec == Init /\ [][Next]_vars
FairSpec == Spec /\ Fairness

-----------------------------------------------------------------------------
Workers == {p \in DOMAIN kids : kids[p].kind = "worker"}
Leaving == master.flags \cap {"terminate", "quit"} # {}
NoChild ==
    \A i \in DOMAIN master.slots : \/ master.slots[i].pid = FreeSlot
                                  \/ master.slots[i].detached

(* The master exits only when all its workers are gone, unless they were        *)
(* started by a HUP beside a new binary: that branch of the code does not set   *)
(* live, and the master then trusts the value from before.                    *)
NoOrphans ==
    ~master.up => master.newBinary # NoBinary \/ \A p \in Workers : ~Alive(p)

(* After a reconfiguration every worker of an older configuration has been     *)
(* told to quit, also one respawned in the same round, and is not respawned.   *)
OldRetired ==
    \A i \in DOMAIN master.slots :
        LET p == master.slots[i].pid
        IN  p \in Workers /\ kids[p].gen < master.gen => master.slots[i].exiting

(* Until the master is on its way out it keeps workers that accept             *)
(* connections, or a new binary does, or the operator asked for none          *)
(* (SIGWINCH), unless a worker could not be forked or could not start.  A       *)
(* restart that waits because a reconfiguration failed in the same round       *)
(* counts as well.                                                           *)
SomebodyServes ==
    master.up /\ ~Leaving =>
        \/ \E i \in DOMAIN master.slots :
             LET p == master.slots[i]
             IN  ~p.exiting /\ ~p.detached /\ p.pid # FreeSlot
        \/ master.noaccepting \/ master.newBinary # NoBinary
        \/ "restart" \in master.flags
        \/ \E p \in DOMAIN kids : kids[p].st = "failed"
        \/ master.short

(* SIGTERM ends the master, even when a worker hangs, since SIGKILL comes at    *)
(* last; unless all workers it started could not be forked: it has no child    *)
(* then whose death would tell it.                                            *)
TerminateEnds ==
    "terminate" \in master.flags ~> (~master.up \/ (NoChild /\ master.live))

(* SIGQUIT ends the master once the workers have finished, unless one hangs.   *)
QuitEnds ==
    "quit" \in master.flags ~>
        \/ ~master.up \/ (NoChild /\ master.live)
        \/ \E p \in Workers : kids[p].st = "hung"
=============================================================================
