-------------------------- MODULE PushStreamProofs --------------------------
(***************************************************************************)
(* Proofs about the delivery of messages between workers: a worker never   *)
(* finds a message for the process that had its slot before, and a worker  *)
(* with messages is always told about them.                                *)
(***************************************************************************)
EXTENDS PushStream, FiniteSetTheorems, TLAPS

Places == {"idle", "broadcast", "alert", "check", "respond", "old", "dead"}

IsSeq(f) == \E n \in Nat : f = [i \in 1..n |-> f[i]]

Types ==
    /\ at \in [Workers -> Places]
    /\ todo \in [Workers -> SUBSET Workers]
    /\ pid \in [Workers -> Nat]
    /\ inbox \in [Workers -> Nat]
    /\ listed \in [Workers -> SUBSET Nat]
    /\ queue = [w \in Workers |-> queue[w]]
    /\ \A w \in Workers : IsSeq(queue[w])

(* Only the process that runs now, or ran last, in a slot is in the list of the *)
(* channel and in the queue of the slot, and a queue with messages belongs to  *)
(* a worker in the list: alerts do not pass over it.                          *)
Current ==
    \A w \in Workers :
        /\ listed[w] \subseteq {pid[w]}
        /\ \A i \in DOMAIN queue[w] : queue[w][i].pid = pid[w]
        /\ queue[w] # <<>> => listed[w] # {}

(* A worker that has looked at the head of its queue still has it: only the     *)
(* worker itself takes messages away, though others append to the queue.      *)
Responding == \A w \in Workers : at[w] = "respond" => queue[w] # <<>>

Inv == Types /\ Current /\ Responding /\ NoMissedAlert

-----------------------------------------------------------------------------
(* Appending to a sequence and taking its tail.                              *)
LEMMA SeqAppend ==
    ASSUME NEW f, NEW x, IsSeq(f)
    PROVE /\ IsSeq(Append(f, x))
          /\ \A i \in DOMAIN Append(f, x) :
                (i \in DOMAIN f /\ Append(f, x)[i] = f[i]) \/ Append(f, x)[i] = x
          /\ f \o <<x>> = Append(f, x) /\ f \o <<>> = f
<1> DEFINE S == {f[i] : i \in DOMAIN f} \cup {x}
<1>1. f \in Seq(S) /\ x \in S
  BY DEF IsSeq
<1> DEFINE g == Append(f, x)
<1> HIDE DEF S
<1>2. g \in Seq(S)
  BY <1>1
<1>3. \A i \in DOMAIN g : (i \in DOMAIN f /\ g[i] = f[i]) \/ g[i] = x
  BY <1>1
<1>4. f \o <<x>> = g /\ f \o <<>> = f
  BY <1>1
<1> HIDE DEF g
<1>5. Len(g) \in Nat /\ g = [i \in 1..Len(g) |-> g[i]]
  BY <1>2
<1>6. IsSeq(g)
  BY <1>5 DEF IsSeq
<1> QED
  BY <1>3, <1>4, <1>6 DEF g

LEMMA SeqTail ==
    ASSUME NEW f, IsSeq(f), f # <<>>
    PROVE /\ 1 \in DOMAIN f /\ Head(f) = f[1]
          /\ IsSeq(Tail(f))
          /\ \A i \in DOMAIN Tail(f) : i + 1 \in DOMAIN f /\ Tail(f)[i] = f[i + 1]
<1> DEFINE S == {f[i] : i \in DOMAIN f}
<1>1. f \in Seq(S)
  BY DEF IsSeq
<1> DEFINE g == Tail(f)
<1> HIDE DEF S
<1>2. g \in Seq(S)
  BY <1>1
<1>3. \A i \in DOMAIN g : i + 1 \in DOMAIN f /\ g[i] = f[i + 1]
  BY <1>1
<1>4. 1 \in DOMAIN f /\ Head(f) = f[1]
  BY <1>1
<1> HIDE DEF g
<1>5. Len(g) \in Nat /\ g = [i \in 1..Len(g) |-> g[i]]
  BY <1>2
<1>6. IsSeq(g)
  BY <1>5 DEF IsSeq
<1> QED
  BY <1>3, <1>4, <1>6 DEF g

LEMMA NilSeq == ASSUME NEW f, f = <<>> PROVE IsSeq(f)
<1>1. f = [i \in 1..0 |-> f[i]]
  OBVIOUS
<1> QED
  BY <1>1 DEF IsSeq

(* ngx_http_push_stream_send_worker_message_locked puts one entry into the     *)
(* queue of a slot that has one place in the list, and none otherwise.        *)
LEMMA OneEntry == ASSUME NEW e PROVE SetToSeq({e}) = <<e>>
<1> DEFINE f == SetToSeq({e})
<1>1. Cardinality({e}) = 1
  BY FS_Singleton
<1>2. <<e>> \in [1..1 -> {e}] /\ IsInjective(<<e>>)
  BY DEF IsInjective
<1>3. f \in [1..1 -> {e}]
  BY <1>1, <1>2 DEF SetToSeq
<1> QED
  BY <1>3

LEMMA NoEntry == SetToSeq({}) = <<>>
<1>1. Cardinality({}) = 0
  BY FS_EmptySet
<1>2. <<>> \in [1..0 -> {}] /\ IsInjective(<<>>)
  BY DEF IsInjective
<1>3. SetToSeq({}) \in [1..0 -> {}]
  BY <1>1, <1>2 DEF SetToSeq
<1> QED
  BY <1>3

-----------------------------------------------------------------------------
LEMMA InvInit == Init => Inv
<1> SUFFICES ASSUME Init PROVE Inv
  OBVIOUS
<1>1. Types
  <2>1. \A w \in Workers : queue[w] = <<>>
    BY DEF Init
  <2>2. \A w \in Workers : IsSeq(queue[w])
    BY <2>1, NilSeq
  <2> QED
    BY <2>2 DEF Init, Types, Places
<1>2. Current /\ Responding /\ NoMissedAlert
  BY DEF Init, Current, Responding, NoMissedAlert
<1> QED
  BY <1>1, <1>2 DEF Inv

(* A step that leaves queues, list, alerts and commands alone, of a worker that *)
(* was neither emptying its queue nor had an alert to send.                   *)
LEMMA InvQuiet ==
    ASSUME Inv, NEW w \in Workers, NEW to \in Places,
           UNCHANGED <<todo, pid, inbox, queue, listed, stuck>>,
           at' = at \/ (at' = [at EXCEPT ![w] = to] /\ to # "respond"),
           at[w] \in {"idle", "old"} \/ (at[w] = "alert" /\ todo[w] = {})
    PROVE Inv'
<1>1. Types'
  BY DEF Inv, Types
<1>2. Current'
  BY DEF Inv, Current
<1>3. Responding'
  BY DEF Inv, Types, Responding
<1>4. NoMissedAlert'
  BY DEF Inv, Types, NoMissedAlert
<1> QED
  BY <1>1, <1>2, <1>3, <1>4 DEF Inv

LEMMA InvEnqueue == ASSUME Inv, NEW w \in Workers, Enqueue(w) PROVE Inv'
<1> USE DEF Inv, Types
<1> DEFINE m == frame[w].msg
           new(v) == SetToSeq({[msg |-> m, pid |-> p] : p \in listed[v]})
<1>1. ASSUME NEW v \in Workers, listed[v] # {}
      PROVE new(v) = <<[msg |-> m, pid |-> pid[v]]>>
  <2>1. listed[v] = {pid[v]}
    BY <1>1 DEF Current
  <2>2. {[msg |-> m, pid |-> p] : p \in {pid[v]}} = {[msg |-> m, pid |-> pid[v]]}
    OBVIOUS
  <2> QED
    BY <2>1, <2>2, OneEntry
<1>2. ASSUME NEW v \in Workers, listed[v] = {}
      PROVE new(v) = <<>>
  <2>1. {[msg |-> m, pid |-> p] : p \in {}} = {}
    OBVIOUS
  <2> QED
    BY <1>2, <2>1, NoEntry
<1>3. /\ queue' = [v \in Workers |-> queue[v] \o new(v)]
      /\ todo' = [todo EXCEPT ![w] =
                    {v \in Workers : listed[v] # {} /\ queue[v] = <<>>}]
      /\ at[w] = "broadcast" /\ at' = [at EXCEPT ![w] = "alert"]
      /\ UNCHANGED <<pid, inbox, listed, stuck>>
  BY DEF Enqueue, Step
<1> HIDE DEF new
<1>4. ASSUME NEW v \in Workers
      PROVE queue'[v] = IF listed[v] # {}
                        THEN Append(queue[v], [msg |-> m, pid |-> pid[v]])
                        ELSE queue[v]
  <2>1. queue'[v] = queue[v] \o new(v) /\ IsSeq(queue[v])
    BY <1>3
  <2>2. CASE listed[v] # {}
    BY <1>1, <2>1, <2>2, SeqAppend
  <2>3. CASE listed[v] = {}
    BY <1>2, <2>1, <2>3, SeqAppend
  <2> QED
    BY <2>2, <2>3
<1>5. Types'
  <2>1. ASSUME NEW v \in Workers PROVE IsSeq(queue'[v])
    <3>1. IsSeq(Append(queue[v], [msg |-> m, pid |-> pid[v]]))
      BY SeqAppend
    <3> QED
      BY <1>4, <3>1
  <2> QED
    BY <1>3, <2>1 DEF Places
<1>6. Current'
  <2>1. ASSUME NEW v \in Workers, NEW i \in DOMAIN queue'[v]
        PROVE queue'[v][i].pid = pid[v]
    <3> DEFINE e == [msg |-> m, pid |-> pid[v]]
    <3>1. (i \in DOMAIN queue[v] /\ queue'[v][i] = queue[v][i]) \/ queue'[v][i] = e
      <4>1. \A k \in DOMAIN Append(queue[v], e) :
               \/ k \in DOMAIN queue[v] /\ Append(queue[v], e)[k] = queue[v][k]
               \/ Append(queue[v], e)[k] = e
        <5> HIDE DEF e
        <5> QED
          BY SeqAppend
      <4> QED
        BY <1>4, <2>1, <4>1
    <3> QED
      BY <3>1 DEF Current
  <2>2. \A v \in Workers : queue'[v] # <<>> => listed[v] # {}
    BY <1>4 DEF Current
  <2> QED
    BY <1>3, <2>1, <2>2 DEF Current
<1>7. NoMissedAlert'
  <2> SUFFICES ASSUME NEW v \in Workers, queue'[v] # <<>>
               PROVE \/ at'[v] \in {"check", "respond", "dead"}
                     \/ inbox'[v] > 0
                     \/ \E u \in Workers : at'[u] = "alert" /\ v \in todo'[u]
                     \/ v \in stuck'
    BY DEF NoMissedAlert
  <2>1. CASE queue[v] = <<>>
    <3>1. listed[v] # {}
      BY <1>4, <2>1
    <3>2. at'[w] = "alert" /\ v \in todo'[w]
      BY <1>3, <2>1, <3>1
    <3> QED
      BY <3>2
  <2>2. CASE queue[v] # <<>>
    <3>1. \/ at[v] \in {"check", "respond", "dead"}
          \/ inbox[v] > 0
          \/ \E u \in Workers : at[u] = "alert" /\ v \in todo[u]
          \/ v \in stuck
      BY <2>2 DEF NoMissedAlert
    <3> QED
      BY <1>3, <3>1
  <2> QED
    BY <2>1, <2>2
<1>8. Responding'
  BY <1>3, <1>4, SeqAppend DEF Responding
<1> QED
  BY <1>5, <1>6, <1>7, <1>8

LEMMA InvAlert == ASSUME Inv, NEW w \in Workers, Alert(w) PROVE Inv'
<1> USE DEF Inv, Types
<1>1. PICK v \in todo[w] \cup (Workers \ frame[w].known) :
        /\ inbox' = IF listed[v] # {} THEN [inbox EXCEPT ![v] = @ + 1] ELSE inbox
        /\ todo' = [todo EXCEPT ![w] = @ \ {v}]
  BY DEF Alert
<1>2. UNCHANGED <<at, pid, queue, listed, stuck>> /\ v \in Workers
  BY DEF Alert
<1>3. Types'
  BY <1>1, <1>2
<1>4. Current'
  BY <1>2 DEF Current
<1>5. NoMissedAlert'
  <2> SUFFICES ASSUME NEW u \in Workers, queue[u] # <<>>
               PROVE \/ at[u] \in {"check", "respond", "dead"}
                     \/ inbox'[u] > 0
                     \/ \E x \in Workers : at[x] = "alert" /\ u \in todo'[x]
                     \/ u \in stuck
    BY <1>2 DEF NoMissedAlert
  <2>1. \/ at[u] \in {"check", "respond", "dead"}
        \/ inbox[u] > 0
        \/ \E x \in Workers : at[x] = "alert" /\ u \in todo[x]
        \/ u \in stuck
    BY DEF NoMissedAlert
  <2>2. CASE u = v
    <3>1. listed[v] # {}
      BY <2>2 DEF Current
    <3>2. inbox'[v] = inbox[v] + 1 /\ inbox[v] \in Nat
      BY <1>1, <1>2, <3>1
    <3> QED
      BY <2>2, <3>2
  <2>3. CASE u # v
    BY <1>1, <1>2, <2>1, <2>3
  <2> QED
    BY <2>2, <2>3
<1>6. Responding'
  BY <1>2 DEF Responding
<1> QED
  BY <1>3, <1>4, <1>5, <1>6

-----------------------------------------------------------------------------
LEMMA InvDeliver ==
    ASSUME Inv, NEW w \in Workers,
           CheckMessages(w) \/ Respond(w) \/ FreeWorkerMessage(w) \/ QueueDone(w)
    PROVE Inv'
<1> USE DEF Inv, Types
<1>1. CASE CheckMessages(w)
  <2>1. /\ at' = [at EXCEPT ![w] = "check"]
        /\ inbox[w] > 0 /\ inbox' = [inbox EXCEPT ![w] = @ - 1]
        /\ at[w] = "idle"
        /\ UNCHANGED <<todo, pid, queue, listed, stuck>>
    BY <1>1 DEF CheckMessages, Enter
  <2>2. Types'
    BY <2>1 DEF Places
  <2>3. Current'
    BY <2>1 DEF Current
  <2>4. Responding' /\ NoMissedAlert'
    BY <2>1 DEF Responding, NoMissedAlert
  <2> QED
    BY <2>2, <2>3, <2>4
<1>2. CASE Respond(w)
  <2>1. Head(queue[w]).pid = pid[w]
    BY <1>2, SeqTail DEF Respond, Current
  <2>2. /\ at' = [at EXCEPT ![w] = "respond"] /\ at[w] = "check"
        /\ UNCHANGED <<todo, pid, inbox, queue, listed, stuck>>
    BY <1>2, <2>1 DEF Respond, Step
  <2>3. Types'
    BY <2>2 DEF Places
  <2>4. Current'
    BY <2>2 DEF Current
  <2>5. queue[w] # <<>>
    BY <1>2 DEF Respond
  <2>6. Responding' /\ NoMissedAlert'
    BY <2>2, <2>5 DEF Responding, NoMissedAlert
  <2> QED
    BY <2>3, <2>4, <2>6
<1>3. CASE FreeWorkerMessage(w)
  <2>1. /\ at' = [at EXCEPT ![w] = "check"] /\ at[w] = "respond"
        /\ queue' = [queue EXCEPT ![w] = Tail(@)]
        /\ UNCHANGED <<todo, pid, inbox, listed, stuck>>
    BY <1>3 DEF FreeWorkerMessage, Step
  <2>2. queue[w] # <<>>
    BY <2>1 DEF Responding
  <2>3. /\ queue'[w] = Tail(queue[w])
        /\ \A v \in Workers \ {w} : queue'[v] = queue[v]
    BY <2>1
  <2>4. Types'
    <3>1. IsSeq(Tail(queue[w]))
      BY <2>2, SeqTail
    <3>2. \A v \in Workers : IsSeq(queue'[v])
      BY <2>3, <3>1
    <3> QED
      BY <2>1, <3>2 DEF Places
  <2>5. Current'
    <3>1. \A i \in DOMAIN Tail(queue[w]) : Tail(queue[w])[i].pid = pid[w]
      BY <2>2, SeqTail DEF Current
    <3>2. listed[w] # {}
      BY <2>2 DEF Current
    <3> QED
      BY <2>1, <2>3, <3>1, <3>2 DEF Current
  <2>6. NoMissedAlert'
    BY <2>1, <2>3 DEF NoMissedAlert
  <2>7. Responding'
    BY <2>1, <2>3 DEF Responding
  <2> QED
    BY <2>4, <2>5, <2>6, <2>7
<1>4. CASE QueueDone(w)
  <2>1. /\ at' = [at EXCEPT ![w] = "idle"] /\ at[w] = "check"
        /\ queue[w] = <<>> /\ stuck' = stuck \ {w}
        /\ UNCHANGED <<todo, pid, inbox, queue, listed>>
    BY <1>4 DEF QueueDone, Step
  <2>2. Types'
    BY <2>1 DEF Places
  <2>3. Current'
    BY <2>1 DEF Current
  <2>4. Responding' /\ NoMissedAlert'
    BY <2>1 DEF Responding, NoMissedAlert
  <2> QED
    BY <2>2, <2>3, <2>4
<1> QED
  BY <1>1, <1>2, <1>3, <1>4

(* The list only grows, by the process that runs in the slot.                 *)
LEMMA InvListed ==
    ASSUME Inv, NEW w \in Workers,
           UNCHANGED <<todo, pid, inbox, queue, stuck>>,
           listed' = [listed EXCEPT ![w] = @ \cup {pid[w]}],
           at' = at \/ (at' = [at EXCEPT ![w] = "idle"] /\ at[w] = "old")
    PROVE Inv'
<1> USE DEF Inv, Types
<1>1. Types'
  BY DEF Places
<1>2. Current'
  BY DEF Current
<1>3. Responding' /\ NoMissedAlert'
  BY DEF Responding, NoMissedAlert
<1> QED
  BY <1>1, <1>2, <1>3

LEMMA InvSubscribe ==
    ASSUME Inv, NEW w \in Workers,
           \/ Assign(w)
           \/ \E s \in Subscribers : SendOld(w, s) \/ LongPoll(w, s) \/ Disconnect(w, s)
    PROVE Inv'
<1>1. CASE Assign(w)
  <2>1. CASE frame[w].sub = {}
    BY <1>1, <2>1, InvQuiet DEF Assign, Step, Places
  <2>2. CASE frame[w].sub # {}
    BY <1>1, <2>2, InvListed DEF Assign, Step
  <2> QED
    BY <2>1, <2>2
<1>2. ASSUME NEW s \in Subscribers, SendOld(w, s) PROVE Inv'
  BY <1>2, InvQuiet DEF SendOld, Enter, Places
<1>3. ASSUME NEW s \in Subscribers, LongPoll(w, s) PROVE Inv'
  BY <1>3, InvListed DEF LongPoll
<1>4. ASSUME NEW s \in Subscribers, Disconnect(w, s) PROVE Inv'
  BY <1>4, InvQuiet DEF Disconnect, Places
<1> QED
  BY <1>1, <1>2, <1>3, <1>4

LEMMA InvOthers ==
    ASSUME Inv, NEW w \in Workers,
           AddMessage(w) \/ Published(w) \/ BufferCleanup(w) \/ MemoryCleanup(w)
    PROVE Inv'
<1>1. CASE AddMessage(w)
  BY <1>1, InvQuiet DEF AddMessage, Enter, Places
<1>2. CASE Published(w)
  BY <1>2, InvQuiet DEF Published, Step, Places
<1>3. CASE BufferCleanup(w)
  BY <1>3, InvQuiet DEF BufferCleanup, Places
<1>4. CASE MemoryCleanup(w)
  BY <1>4, InvQuiet DEF MemoryCleanup, Places
<1> QED
  BY <1>1, <1>2, <1>3, <1>4

LEMMA InvDie == ASSUME Inv, NEW w \in Workers, Die(w) PROVE Inv'
<1> USE DEF Inv, Types
<1>1. /\ at' = [at EXCEPT ![w] = "dead"]
      /\ stuck' = stuck \cup todo[w] /\ todo' = [todo EXCEPT ![w] = {}]
      /\ UNCHANGED <<pid, inbox, queue, listed>>
  BY DEF Die
<1>2. Types'
  BY <1>1 DEF Places
<1>3. Current'
  BY <1>1 DEF Current
<1>4. Responding' /\ NoMissedAlert'
  BY <1>1 DEF Responding, NoMissedAlert
<1> QED
  BY <1>2, <1>3, <1>4

(* ngx_http_push_stream_clean_worker_data forgets the last process of the slot, *)
(* so that the next one may have another pid.                                 *)
LEMMA InvClean ==
    ASSUME Inv, NEW w \in Workers, CleanWorker(w), UNCHANGED <<todo, inbox>>,
           at[w] \in {"idle", "dead"},
           NEW to \in {"idle", "dead"}, at' = [at EXCEPT ![w] = to],
           pid' = pid \/ pid' = [pid EXCEPT ![w] = @ + 1]
    PROVE Inv'
<1> USE DEF Inv, Types
<1>1. /\ queue' = [queue EXCEPT ![w] = <<>>]
      /\ listed' = [listed EXCEPT ![w] = {}]
      /\ stuck' = stuck \ {w}
  BY DEF CleanWorker
<1>2. queue'[w] = <<>> /\ \A v \in Workers \ {w} : queue'[v] = queue[v]
  BY <1>1
<1>3. Types'
  <2>1. \A v \in Workers : IsSeq(queue'[v])
    BY <1>2, NilSeq
  <2> QED
    BY <1>1, <2>1 DEF Places
<1>4. Current'
  BY <1>1, <1>2 DEF Current
<1>5. Responding' /\ NoMissedAlert'
  BY <1>1, <1>2 DEF Responding, NoMissedAlert
<1> QED
  BY <1>3, <1>4, <1>5

LEMMA InvStep == Inv /\ [Next]_vars => Inv'
<1> SUFFICES ASSUME Inv, [Next]_vars PROVE Inv'
  OBVIOUS
<1>1. CASE UNCHANGED vars
  BY <1>1 DEF vars, Inv, Types, Current, Responding, NoMissedAlert
<1>2. ASSUME NEW w \in Workers, Enqueue(w) \/ Alert(w) PROVE Inv'
  BY <1>2, InvEnqueue, InvAlert
<1>3. ASSUME NEW w \in Workers, Quit(w) \/ Start(w) PROVE Inv'
  BY <1>3, InvClean DEF Quit, Start, Step
<1> QED
  BY <1>1, <1>2, <1>3, InvOthers, InvDeliver, InvSubscribe, InvDie DEF Next, Handler

(* Every worker cleans up after the process that had its slot before it reads   *)
(* its socket: ngx_http_push_stream_process_worker_message_data never meets a  *)
(* message for another process, for any number of workers, messages and deaths. *)
THEOREM NeverStranger == Spec => []NoStranger
<1>1. Inv => NoStranger
  BY DEF Inv, Current, NoStranger
<1> QED
  BY InvInit, InvStep, <1>1, PTL DEF Spec

(* broadcast decides under the mutex whom to alert and alerts without it, while *)
(* the workers empty their queues: still no queue with messages is forgotten,  *)
(* except by the death of the publisher.                                      *)
THEOREM AlertsNotMissed == Spec => []NoMissedAlert
<1>1. Inv => NoMissedAlert
  BY DEF Inv
<1> QED
  BY InvInit, InvStep, <1>1, PTL DEF Spec
=============================================================================
