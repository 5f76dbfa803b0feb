----------------------------- MODULE PushStream -----------------------------
(***************************************************************************)
(* Publishing to a channel of the nginx push stream module across worker   *)
(* processes (ngx_http_push_stream_module_ipc.c, _utils.c, _subscriber.c). *)
(* The channel, its stored messages and one queue of messages per worker   *)
(* live in shared memory under a mutex; the subscribers are connections of *)
(* one worker each.  A publisher adds its message, puts a reference into   *)
(* the queue of every worker with subscribers, and then, without the       *)
(* mutex, sends a command through the socket pair of each worker whose     *)
(* queue was empty.  A worker answers such a command by emptying its       *)
(* queue.  Messages no longer stored go to a trash queue and are freed     *)
(* when no queue refers to them and their time to live is over.            *)
(*                                                                         *)
(* A worker runs one handler at a time; a step is the code between two     *)
(* points where it takes or releases the mutex.  Time is abstracted to the *)
(* assumption behind NGX_HTTP_PUSH_STREAM_DEFAULT_SHM_MEMORY_CLEANUP_      *)
(* OBJECTS_TTL: no handler runs for longer than these ten seconds.         *)
(***************************************************************************)
EXTENDS Naturals, Sequences, SequencesExt, FiniteSets

CONSTANTS
    Workers,      \* the slots of the worker processes
    Subscribers,  \* the connections that may subscribe
    LongPollers,  \* the ones that do so with a long poll
    Messages,     \* how many messages are published
    MaxStored,    \* push_stream_max_messages_stored_per_channel
    MaxDeaths     \* how many workers die or quit

ASSUME PushAssumption ==
    /\ {Messages, MaxStored, MaxDeaths} \subseteq Nat
    /\ LongPollers \subseteq Subscribers

VARIABLES
    at,       \* where each worker is in its handler
    todo,     \* the workers it still has to alert
    frame,    \* the other local variables of the handler
    pid,      \* pid[w] numbers the processes that ran in slot w
    inbox,    \* how many CHECK_MESSAGES are in the socket of each slot
    queue,    \* ipc[w].messages_queue
    listed,   \* channel->workers_with_subscribers: the pids listed for a slot
    stored,   \* channel->message_queue
    trash,    \* data->messages_trash
    msg,      \* the messages published so far
    sub,      \* the subscribers
    deaths,   \* workers that died or quit so far
    stuck     \* slots for which a publisher died with an alert still to send

vars == <<at, todo, frame, pid, inbox, queue, listed, stored, trash, msg, sub,
          deaths, stuck>>

None == 0
NoFrame == [msg |-> None, known |-> {}, reads |-> {}, sub |-> {}]

NotOn(st) == [st |-> st, home |-> <<>>, owed |-> {}]
Gone == NotOn("gone")

Init ==
    /\ at = [w \in Workers |-> "idle"]
    /\ todo = [w \in Workers |-> {}]
    /\ frame = [w \in Workers |-> NoFrame]
    /\ pid = [w \in Workers |-> 1]
    /\ inbox = [w \in Workers |-> 0]
    /\ queue = [w \in Workers |-> <<>>]
    /\ listed = [w \in Workers |-> {}]
    /\ stored = <<>> /\ trash = <<>> /\ msg = <<>>
    /\ sub = [s \in Subscribers |-> NotOn("new")]
    /\ deaths = 0
    /\ stuck = {}

Me(w) == <<w, pid[w]>>
Busy == {w \in Workers : at[w] \notin {"idle", "dead"}}
On(w) == {s \in Subscribers : sub[s].st = "on" /\ sub[s].home = Me(w)}

(* The end of a handler: the objects that waited for it wait no longer.       *)
Over(m, w) == [i \in DOMAIN m |-> [m[i] EXCEPT !.grace = @ \ {w}]]

Enter(w, to) == at[w] = "idle" /\ at' = [at EXCEPT ![w] = to]
Step(w, from, to) == at[w] = from /\ at' = [at EXCEPT ![w] = to]

-----------------------------------------------------------------------------
(* Messages in shared memory.                                                *)

(* ngx_http_push_stream_mark_message_to_delete_locked: expires lies a time to   *)
(* live ahead, after the end of all handlers that run now.                    *)
Mark(m, ids, w) ==
    [i \in DOMAIN m |-> IF i \in ids
                        THEN [m[i] EXCEPT !.st = "trash", !.grace = Busy \cup {w}]
                        ELSE m[i]]

(* ngx_http_push_stream_free_worker_message_memory_locked for the entries of q; *)
(* expires is set again when the last reference to a deleted message goes.    *)
Dropped(m, q, w) ==
    LET held(i) == Cardinality({j \in DOMAIN q : q[j].msg = i})
    IN  [i \in DOMAIN m |->
           IF held(i) = 0 THEN m[i]
           ELSE [m[i] EXCEPT !.refs = @ - held(i),
                             !.grace = IF m[i].refs = held(i) /\ m[i].st = "trash"
                                       THEN Busy \cup {w} ELSE @]]

-----------------------------------------------------------------------------
(* Publishing: ngx_http_push_stream_add_msg_to_channel.                       *)

(* Under the mutex: the message is made, stored if the location stores         *)
(* messages, and the oldest ones make room.                                   *)
AddMessage(w) ==
    /\ Len(msg) < Messages
    /\ Enter(w, "broadcast")
    /\ \E store \in BOOLEAN :
         LET m == Len(msg) + 1
             all == IF store THEN Append(stored, m) ELSE stored
             over == IF store /\ Len(all) > MaxStored
                     THEN Len(all) - MaxStored ELSE 0
             new == [st |-> IF store THEN "stored" ELSE "loose", refs |-> 0,
                     grace |-> {}]
         IN  /\ stored' = SubSeq(all, over + 1, Len(all))
             /\ trash' = trash \o SubSeq(all, 1, over)
             /\ msg' = Mark(Append(msg, new), ToSet(SubSeq(all, 1, over)), w)
             /\ frame' = [frame EXCEPT ![w].msg = m]
    /\ UNCHANGED <<todo, pid, inbox, queue, listed, sub, deaths, stuck>>

(* Mutant: queue_was_empty is asked after the insertion.                      *)
EnqueueThenLook(w) ==
    LET m == frame[w].msg
        entries == UNION {{v} \X listed[v] : v \in Workers}
    IN  /\ Step(w, "broadcast", "alert")
        /\ queue' = [v \in Workers |-> queue[v] \o
                        SetToSeq({[msg |-> m, pid |-> p] : p \in listed[v]})]
        /\ msg' = [msg EXCEPT ![m].refs = @ + Cardinality(entries)]
        /\ frame' = [frame EXCEPT ![w].known = {v \in Workers : listed[v] # {}}]
        /\ sub' = [s \in Subscribers |->
                     IF sub[s].st = "on" THEN [sub[s] EXCEPT !.owed = @ \cup {m}]
                     ELSE sub[s]]
        /\ UNCHANGED <<todo, pid, inbox, listed, stored, trash, deaths, stuck>>

(* ngx_http_push_stream_broadcast, under the mutex: a reference for each worker *)
(* with subscribers (ngx_http_push_stream_send_worker_message_locked).         *)
Enqueue(w) ==
    LET m == frame[w].msg
        entries == UNION {{v} \X listed[v] : v \in Workers}
    IN  /\ Step(w, "broadcast", "alert")
        /\ queue' = [v \in Workers |-> queue[v] \o
                        SetToSeq({[msg |-> m, pid |-> p] : p \in listed[v]})]
        /\ msg' = [msg EXCEPT ![m].refs = @ + Cardinality(entries)]
        /\ todo' = [todo EXCEPT ![w] =
                      {v \in Workers : listed[v] # {} /\ queue[v] = <<>>}]
        /\ frame' = [frame EXCEPT ![w].known = {v \in Workers : listed[v] # {}}]
        /\ sub' = [s \in Subscribers |->
                     IF sub[s].st = "on" THEN [sub[s] EXCEPT !.owed = @ \cup {m}]
                     ELSE sub[s]]
        /\ UNCHANGED <<pid, inbox, listed, stored, trash, deaths, stuck>>

(* The second loop of broadcast runs without the mutex over the workers that   *)
(* are listed by then.  queue_was_empty was never set for one that was listed  *)
(* only meanwhile: it may get a command as well.                              *)
Alert(w) ==
    /\ at[w] = "alert"
    /\ \E v \in todo[w] \cup (Workers \ frame[w].known) :
         /\ inbox' = IF listed[v] # {} THEN [inbox EXCEPT ![v] = @ + 1] ELSE inbox
         /\ todo' = [todo EXCEPT ![w] = @ \ {v}]
         /\ frame' = [frame EXCEPT ![w].known = @ \cup {v}]
    /\ UNCHANGED <<at, pid, queue, listed, stored, trash, msg, sub, deaths,
                   stuck>>

(* A message that is in no queue is marked to be deleted.                     *)
Published(w) ==
    LET m == frame[w].msg
        loose == msg[m].st = "loose"
    IN  /\ Step(w, "alert", "idle")
        /\ todo[w] = {}
        /\ trash' = IF loose THEN Append(trash, m) ELSE trash
        /\ msg' = Over(IF loose THEN Mark(msg, {m}, w) ELSE msg, w)
        /\ frame' = [frame EXCEPT ![w] = NoFrame]
        /\ UNCHANGED <<todo, pid, inbox, queue, listed, stored, sub, deaths,
                       stuck>>

-----------------------------------------------------------------------------
(* Delivery: ngx_http_push_stream_channel_handler with CHECK_MESSAGES.        *)

CheckMessages(w) ==
    /\ Enter(w, "check")
    /\ inbox[w] > 0
    /\ inbox' = [inbox EXCEPT ![w] = @ - 1]
    /\ UNCHANGED <<todo, frame, pid, queue, listed, stored, trash, msg, sub,
                   deaths, stuck>>

(* ngx_http_push_stream_process_worker_message_data looks at the head of the   *)
(* queue without the mutex.  The subscribers get the message; a long poll ends *)
(* with it, and so does a connection to which it cannot be sent.  A message    *)
(* for another process only loses that process's place in the list.           *)
Respond(w) ==
    /\ Step(w, "check", "respond")
    /\ queue[w] # <<>>
    /\ LET e == Head(queue[w])
       IN  IF e.pid = pid[w]
           THEN /\ \E broken \in SUBSET On(w) :
                     sub' = [s \in Subscribers |->
                       IF s \notin On(w) THEN sub[s]
                       ELSE IF s \in LongPollers \cup broken
                            THEN Gone
                            ELSE [sub[s] EXCEPT !.owed = @ \ {e.msg}]]
                /\ UNCHANGED listed
           ELSE /\ listed' = [listed EXCEPT ![w] = @ \ {e.pid}]
                /\ UNCHANGED sub
    /\ UNCHANGED <<todo, frame, pid, inbox, queue, stored, trash, msg, deaths,
                   stuck>>

(* Mutant: one command, one message.                                         *)
FreeAndReturn(w) ==
    /\ Step(w, "respond", "idle")
    /\ msg' = Over(Dropped(msg, <<Head(queue[w])>>, w), w)
    /\ queue' = [queue EXCEPT ![w] = Tail(@)]
    /\ UNCHANGED <<todo, frame, pid, inbox, listed, stored, trash, sub, deaths,
                   stuck>>

FreeWorkerMessage(w) ==
    /\ Step(w, "respond", "check")
    /\ msg' = Dropped(msg, <<Head(queue[w])>>, w)
    /\ queue' = [queue EXCEPT ![w] = Tail(@)]
    /\ UNCHANGED <<todo, frame, pid, inbox, listed, stored, trash, sub, deaths,
                   stuck>>

QueueDone(w) ==
    /\ Step(w, "check", "idle")
    /\ queue[w] = <<>>
    /\ msg' = Over(msg, w)
    /\ stuck' = stuck \ {w}
    /\ UNCHANGED <<todo, frame, pid, inbox, queue, listed, stored, trash, sub,
                   deaths>>

-----------------------------------------------------------------------------
(* Subscribing.                                                              *)

(* ngx_http_push_stream_subscriber_assign_channel sends old messages without   *)
(* the mutex, which it takes only to put the subscription into the list;       *)
(* ngx_http_push_stream_subscriber_polling_handler does so when it has         *)
(* something to send, and ends.                                               *)
SendOld(w, s) ==
    /\ Enter(w, "old")
    /\ sub[s].st = "new"
    /\ s \in LongPollers => stored # <<>>
    /\ sub' = [sub EXCEPT ![s] = IF s \in LongPollers THEN Gone
                                 ELSE [@ EXCEPT !.st = "opening", !.home = Me(w)]]
    /\ frame' = [frame EXCEPT ![w].reads = ToSet(stored),
                              ![w].sub = {s} \ LongPollers]
    /\ UNCHANGED <<todo, pid, inbox, queue, listed, stored, trash, msg, deaths,
                   stuck>>

Assign(w) ==
    /\ Step(w, "old", "idle")
    /\ sub' = [s \in Subscribers |-> IF s \in frame[w].sub
                                     THEN [sub[s] EXCEPT !.st = "on"] ELSE sub[s]]
    /\ listed' = IF frame[w].sub = {} THEN listed
               ELSE [listed EXCEPT ![w] = @ \cup {pid[w]}]
    /\ frame' = [frame EXCEPT ![w] = NoFrame]
    /\ msg' = Over(msg, w)
    /\ UNCHANGED <<todo, pid, inbox, queue, stored, trash, deaths, stuck>>

(* A long poll that finds nothing to send is put into the list at once.       *)
LongPoll(w, s) ==
    /\ at[w] = "idle"
    /\ s \in LongPollers /\ sub[s].st = "new"
    /\ sub' = [sub EXCEPT ![s].st = "on", ![s].home = Me(w)]
    /\ listed' = [listed EXCEPT ![w] = @ \cup {pid[w]}]
    /\ UNCHANGED <<at, todo, frame, pid, inbox, queue, stored, trash, msg,
                   deaths, stuck>>

(* ngx_http_push_stream_cleanup_request_context                              *)
Disconnect(w, s) ==
    /\ at[w] = "idle"
    /\ s \in On(w)
    /\ sub' = [sub EXCEPT ![s] = Gone]
    /\ UNCHANGED <<at, todo, frame, pid, inbox, queue, listed, stored, trash,
                   msg, deaths, stuck>>

-----------------------------------------------------------------------------
(* Timers.  The buffer cleanup timer runs BufferCleanup; the memory cleanup    *)
(* timer runs the same step and then MemoryCleanup, and lets the mutex go in   *)
(* between.  Either finds nothing to do when nothing has expired.              *)

(* ngx_http_push_stream_ensure_qtd_of_messages_locked with expired: the oldest  *)
(* messages whose time to live is over, up to one still referred to.          *)
Collectable(k) == \A i \in 1..k : msg[stored[i]].refs = 0

BufferCleanup(w) ==
    /\ at[w] = "idle"
    /\ \E k \in 1..Len(stored) :
         LET old == SubSeq(stored, 1, k)
         IN  /\ Collectable(k)
             /\ stored' = SubSeq(stored, k + 1, Len(stored))
             /\ trash' = trash \o old
             /\ msg' = Over(Mark(msg, ToSet(old), w), w)
    /\ UNCHANGED <<at, todo, frame, pid, inbox, queue, listed, sub, deaths,
                   stuck>>

(* Mutant: only the time counts.                                             *)
FreeableByTime(m) == msg[m].grace = {}

(* ngx_http_push_stream_free_memory_of_expired_messages_and_channels_data, of   *)
(* the memory cleanup timer.                                                 *)
Freeable(m) == msg[m].refs = 0 /\ msg[m].grace = {}

MemoryCleanup(w) ==
    LET first == {k \in 1..Len(trash) : \A i \in 1..k : Freeable(trash[i])}
        n == Cardinality(first)
    IN  /\ at[w] = "idle"
        /\ n > 0
        /\ trash' = SubSeq(trash, n + 1, Len(trash))
        /\ msg' = [i \in DOMAIN msg |->
                     IF i \in ToSet(SubSeq(trash, 1, n))
                     THEN [msg[i] EXCEPT !.st = "freed"] ELSE msg[i]]
        /\ UNCHANGED <<at, todo, frame, pid, inbox, queue, listed, stored, sub,
                       deaths, stuck>>

-----------------------------------------------------------------------------
(* Workers die, quit and start.                                              *)

Left(w) == [s \in Subscribers |-> IF sub[s].home = Me(w) THEN Gone ELSE sub[s]]

(* A death loses the connections, the alerts still to be sent and a message     *)
(* that is neither stored nor marked.                                        *)
Die(w) ==
    /\ at[w] # "dead" /\ deaths < MaxDeaths
    /\ at' = [at EXCEPT ![w] = "dead"]
    /\ deaths' = deaths + 1
    /\ sub' = Left(w)
    /\ stuck' = stuck \cup todo[w]
    /\ todo' = [todo EXCEPT ![w] = {}]
    /\ msg' = Over([i \in DOMAIN msg |->
                      IF i = frame[w].msg /\ msg[i].st = "loose"
                      THEN [msg[i] EXCEPT !.st = "leaked"] ELSE msg[i]], w)
    /\ frame' = [frame EXCEPT ![w] = NoFrame]
    /\ UNCHANGED <<pid, inbox, queue, listed, stored, trash>>

(* Mutant: the place of the last process in the list stays.                  *)
CleanQueue(w) ==
    /\ msg' = Over(Dropped(msg, queue[w], w), w)
    /\ queue' = [queue EXCEPT ![w] = <<>>]
    /\ stuck' = stuck \ {w}
    /\ UNCHANGED listed

(* Mutant: the queue is initialised, its references are forgotten.            *)
CleanByInit(w) ==
    /\ msg' = Over(msg, w)
    /\ queue' = [queue EXCEPT ![w] = <<>>]
    /\ listed' = [listed EXCEPT ![w] = {}]
    /\ stuck' = stuck \ {w}

(* ngx_http_push_stream_clean_worker_data                                    *)
CleanWorker(w) ==
    /\ msg' = Over(Dropped(msg, queue[w], w), w)
    /\ queue' = [queue EXCEPT ![w] = <<>>]
    /\ listed' = [listed EXCEPT ![w] = {}]
    /\ stuck' = stuck \ {w}

(* ngx_http_push_stream_exit_worker: the subscribers are sent away first.     *)
Quit(w) ==
    /\ at[w] = "idle" /\ deaths < MaxDeaths
    /\ at' = [at EXCEPT ![w] = "dead"]
    /\ deaths' = deaths + 1
    /\ sub' = Left(w)
    /\ CleanWorker(w)
    /\ UNCHANGED <<todo, frame, pid, inbox, stored, trash>>

(* ngx_http_push_stream_init_worker of the next process in the slot; commands  *)
(* for its predecessor are still in the socket.                              *)
Start(w) ==
    /\ Step(w, "dead", "idle")
    /\ CleanWorker(w)
    /\ pid' = [pid EXCEPT ![w] = @ + 1]
    /\ UNCHANGED <<todo, frame, inbox, stored, trash, sub, deaths>>

Handler(w) ==
    \/ Enqueue(w) \/ Alert(w) \/ Published(w)
    \/ CheckMessages(w) \/ Respond(w) \/ FreeWorkerMessage(w) \/ QueueDone(w)
    \/ Assign(w)

Next ==
    \E w \in Workers :
       \/ AddMessage(w) \/ Handler(w)
       \/ \E s \in Subscribers : SendOld(w, s) \/ LongPoll(w, s) \/ Disconnect(w, s)
       \/ BufferCleanup(w) \/ MemoryCleanup(w)
       \/ Die(w) \/ Quit(w) \/ Start(w)

(* A worker goes on with its handler and reads its socket, the timer for the    *)
(* memory runs, and the master starts a worker again.                         *)
Fairness ==
    \A w \in Workers : /\ WF_vars(Handler(w))
                       /\ WF_vars(MemoryCleanup(w))
                       /\ WF_vars(Start(w))

Spec == Init /\ [][Next]_vars
FairSpec == Spec /\ Fairness

-----------------------------------------------------------------------------
(* A worker with messages in its queue is at work on it, or has a command in   *)
(* its socket, or a publisher is about to send it one; unless it is dead, or   *)
(* the publisher died between queue and command: nobody alerts a worker whose  *)
(* queue is not empty.                                                        *)
NoMissedAlert ==
    \A w \in Workers :
        queue[w] # <<>> =>
            \/ at[w] \in {"check", "respond", "dead"}
            \/ inbox[w] > 0
            \/ \E v \in Workers : at[v] = "alert" /\ w \in todo[v]
            \/ w \in stuck

(* A message is not freed while a queue refers to it, its publisher still       *)
(* works on it or a subscriber is sent the old messages.                      *)
MessageAlive ==
    \A m \in DOMAIN msg : msg[m].st = "freed" =>
        \A w \in Workers : /\ \A i \in DOMAIN queue[w] : queue[w][i].msg # m
                           /\ frame[w].msg # m
                           /\ m \notin frame[w].reads

(* "that's quite bad you see": a worker never finds a message for the process  *)
(* that had its slot before, since it cleans up before it reads its socket.    *)
NoStranger ==
    \A w \in Workers : at[w] \in {"check", "respond"} =>
        \A i \in DOMAIN queue[w] : queue[w][i].pid = pid[w]

(* A subscriber gets all the messages that are broadcast while it is in the     *)
(* list, or is gone; finitely many are published.                            *)
EveryMessageDelivered ==
    \A s \in Subscribers : sub[s].owed # {} ~> (sub[s].owed = {} \/ stuck # {})

(* A message that is not stored, or no longer, is freed in the end, unless its  *)
(* publisher died before it marked it.                                        *)
In(m, states) == m \in DOMAIN msg /\ msg[m].st \in states
Reclaimed ==
    \A m \in 1..Messages :
        In(m, {"loose", "trash"}) ~> (In(m, {"freed", "leaked"}) \/ stuck # {})
=============================================================================
