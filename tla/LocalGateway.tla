---------------------------- MODULE LocalGateway ----------------------------
(***************************************************************************)
(* The event buffer of the Local Gateway (gateway/src/index.ts).           *)
(*                                                                         *)
(* MQTT messages and heartbeats are enqueued by callbacks of one Node      *)
(* process; flushQueue sends the head of the queue, removes it when the    *)
(* reply is good, and saves the queue to a file now and then.  It gives up *)
(* control at every await: while the head is being sent or the file        *)
(* written, callbacks go on enqueueing.  The process may die at any time   *)
(* and starts again from the file.                                         *)
(*                                                                         *)
(* Time is relative: an entry carries its age, a timer what is left of it. *)
(***************************************************************************)
EXTENDS Integers, Sequences, FiniteSets

CONSTANTS
    Contents,    \* what events say, apart from their id and time
    Heartbeat,   \* the content of gateway heartbeats
    MaxQueue,    \* maxQueueLength
    BufferAge,   \* maxBufferAgeMs
    Bucket,      \* the window in which equal events are dropped
    DedupeSpan,  \* how many pending events are compared
    SaveEvery,   \* the queue is saved whenever its length is a multiple
    MaxDelay,    \* cap of retryDelayMs
    MaxEvents,   \* bound: events enqueued
    MaxRestarts  \* bound: deaths of the process

ASSUME ContentsAssumption == Heartbeat \in Contents
ASSUME BoundsAssumption ==
    /\ {MaxQueue, DedupeSpan, SaveEvery, MaxDelay, Bucket} \subseteq Nat \ {0}
    /\ {BufferAge, MaxEvents, MaxRestarts} \subseteq Nat
    /\ Bucket =< BufferAge + 1

VARIABLES
    pc,       \* where flushQueue is: "idle", "send" or a "save...", or "dead"
    queue,    \* pendingEvents
    sending,  \* id of the event being sent
    snap,     \* the copy of the queue being written
    file,     \* pending-events.json
    retryIn,  \* nextRetryAt - Date.now(), 0 when it has passed
    delay,    \* retryDelayMs
    timer,    \* what is left of retryTimer, Off when there is none
    phase,    \* Date.now() modulo Bucket
    next,     \* the next event id
    received, \* ids with a receipt in mqtt_gateway_events
    fate,     \* history: why an event left the queue, if it was discarded
    saved,    \* history: ids that have ever been in the file
    displaced,\* history: an event was discarded because the queue was full
    restarts  \* number of deaths so far

memory == <<pc, queue, sending, snap, retryIn, delay, timer>>
history == <<fate, saved, displaced, restarts>>
vars == <<memory, file, phase, next, received, history>>

Off == -1
Ids == 1 .. MaxEvents
Entry == [id : Ids, content : Contents, age : 0 .. BufferAge + 1]
IdsOf(q) == {q[i].id : i \in 1 .. Len(q)}
Saving == {"saveInLoop", "saveAtEnd", "saveAfterError"}

TypeOK ==
    /\ pc \in {"dead", "idle", "send"} \cup Saving
    /\ {queue, snap, file} \subseteq Seq(Entry)
    /\ Len(queue) =< MaxQueue
    /\ sending \in Ids \cup {0}
    /\ retryIn \in 0 .. MaxDelay
    /\ delay \in 1 .. MaxDelay
    /\ timer \in Off .. MaxDelay
    /\ phase \in 0 .. Bucket - 1
    /\ next \in 1 .. MaxEvents + 1
    /\ received \subseteq Ids
    /\ fate \in [Ids -> {"kept", "aged", "displaced"}]
    /\ saved \subseteq Ids
    /\ displaced \in BOOLEAN
    /\ restarts \in 0 .. MaxRestarts

Init ==
    /\ pc = "idle"
    /\ queue = <<>>
    /\ sending = 0
    /\ snap = <<>>
    /\ file = <<>>
    /\ retryIn = 0
    /\ delay = 1
    /\ timer = Off
    /\ phase = 0
    /\ next = 1
    /\ received = {}
    /\ fate = [i \in Ids |-> "kept"]
    /\ saved = {}
    /\ displaced = FALSE
    /\ restarts = 0

Lesser(a, b) == IF a < b THEN a ELSE b
Greater(a, b) == IF a > b THEN a ELSE b

(***************************************************************************)
(* flushQueue                                                              *)
(***************************************************************************)

\* Deviation: nothing is too old, or too much.
KeepAll(q) == q

\* The queue without its leading events that are too old; they are only looked
\* for when a flush begins, and only at the head.
Fresh(q) ==
    LET old == {i \in 1 .. Len(q) : \A j \in 1 .. i : q[j].age > BufferAge}
    IN  SubSeq(q, Cardinality(old) + 1, Len(q))

\* Deviation: the newest event is sent, the oldest is taken off.
SendNewest(q) ==
    IF q # <<>>
    THEN pc' = "send" /\ sending' = q[Len(q)].id /\ UNCHANGED <<snap, retryIn, delay>>
    ELSE pc' = "saveAtEnd" /\ sending' = 0 /\ snap' = q /\ retryIn' = 0 /\ delay' = 1

\* The loop goes on with queue q: its head is sent, or the queue is saved.
SendNext(q) ==
    IF q # <<>>
    THEN /\ pc' = "send"
         /\ sending' = q[1].id
         /\ UNCHANGED <<snap, retryIn, delay>>
    ELSE /\ pc' = "saveAtEnd"
         /\ sending' = 0
         /\ snap' = q
         /\ retryIn' = 0
         /\ delay' = 1

\* Why the events of q that are not in kept left it.
Discard(f, q, kept, why) == [i \in Ids |-> IF i \in IdsOf(q) \ IdsOf(kept) THEN why ELSE f[i]]

\* flushQueue(state), called with queue q, timer t and fates f, runs to its first
\* await.
FlushQueue(q, t, f) ==
    IF pc # "idle" \/ q = <<>>
    THEN /\ queue' = q
         /\ timer' = t
         /\ fate' = f
         /\ UNCHANGED <<pc, sending, snap, retryIn, delay>>
    ELSE IF retryIn > 0
    THEN /\ queue' = q
         /\ timer' = IF t = Off THEN retryIn ELSE t
         /\ fate' = f
         /\ UNCHANGED <<pc, sending, snap, retryIn, delay>>
    ELSE /\ queue' = Fresh(q)
         /\ timer' = t
         /\ fate' = Discard(f, q, Fresh(q), "aged")
         /\ SendNext(Fresh(q))

\* Deviation: the event is taken off the queue at its other end.
DropLast(q) == SubSeq(q, 1, Len(q) - 1)

\* pendingEvents.shift() after a good reply: whatever is at the head now.
Shift(q) == Tail(q)

\* The event was stored, now or before, and the reply is good.
SendOk ==
    LET q == Shift(queue)
    IN  /\ pc = "send"
        /\ received' = received \cup {sending}
        /\ queue' = q
        /\ IF Len(q) % SaveEvery = 0
           THEN /\ pc' = "saveInLoop"
                /\ snap' = q
                /\ sending' = 0
                /\ UNCHANGED <<retryIn, delay>>
           ELSE SendNext(q)
        /\ UNCHANGED <<file, timer, phase, next, history>>

\* The catch block, up to its saveQueue.
BackOff ==
    /\ pc' = "saveAfterError"
    /\ snap' = queue
    /\ sending' = 0
    /\ retryIn' = delay
    /\ delay' = Lesser(MaxDelay, 2 * delay)

\* No reply, or a bad one; the event may have been stored all the same.
SendFails(stored) ==
    /\ pc = "send"
    /\ BackOff
    /\ received' = IF stored THEN received \cup {sending} ELSE received
    /\ UNCHANGED <<queue, file, timer, phase, next, history>>

\* The file is renamed into place.
SaveDone ==
    /\ pc \in Saving
    /\ file' = snap
    /\ saved' = saved \cup IdsOf(snap)
    /\ IF pc = "saveInLoop"
       THEN SendNext(queue) /\ UNCHANGED timer
       ELSE /\ pc' = "idle"
            /\ timer' = IF pc = "saveAfterError" /\ timer = Off THEN retryIn ELSE timer
            /\ UNCHANGED <<sending, snap, retryIn, delay>>
    /\ UNCHANGED <<queue, phase, next, received, fate, displaced, restarts>>

\* The write fails.  (After an error nothing catches it: see Die.)
SaveFails ==
    /\ pc \in Saving \ {"saveAfterError"}
    /\ BackOff
    /\ UNCHANGED <<queue, file, timer, phase, next, received, history>>

TimerFires ==
    /\ pc # "dead"
    /\ timer = 0
    /\ FlushQueue(queue, Off, fate)
    /\ UNCHANGED <<file, phase, next, received, saved, displaced, restarts>>

(***************************************************************************)
(* enqueue                                                                 *)
(***************************************************************************)

\* An equal event of the same window is among the latest pending ones.
Duplicate(c) ==
    \E i \in 1 .. Len(queue) : /\ i > Len(queue) - DedupeSpan
                               /\ queue[i].content = c
                               /\ queue[i].age =< phase

\* pendingEvents.splice(0, length - maxQueueLength)
Latest(q) == SubSeq(q, Greater(Len(q) - MaxQueue, 0) + 1, Len(q))

Enqueue(c) ==
    LET grown == Append(queue, [id |-> next, content |-> c, age |-> 0])
        q == Latest(grown)
    IN  /\ pc # "dead"
        /\ next =< MaxEvents
        /\ ~Duplicate(c)
        /\ next' = next + 1
        /\ displaced' = (displaced \/ q # grown)
        /\ FlushQueue(q, timer, Discard(fate, grown, q, "displaced"))
        /\ UNCHANGED <<file, phase, received, saved, restarts>>

\* A message of a scanner, or the connection to the broker, enqueues an event.
EventArrives == \E c \in Contents : Enqueue(c)

\* The heartbeat timer.  Bound: after MaxEvents a heartbeat is not stored any
\* more, but still calls flushQueue.
Beat ==
    \/ Enqueue(Heartbeat)
    \/ /\ pc # "dead"
       /\ next > MaxEvents
       /\ FlushQueue(queue, timer, fate)
       /\ UNCHANGED <<file, phase, next, received, saved, displaced, restarts>>

(***************************************************************************)
(* Time, death and restart                                                 *)
(***************************************************************************)
Older(q) == [i \in DOMAIN q |-> [q[i] EXCEPT !.age = Lesser(@ + 1, BufferAge + 1)]]

Tick ==
    /\ queue' = Older(queue)
    /\ snap' = Older(snap)
    /\ file' = Older(file)
    /\ retryIn' = Greater(retryIn - 1, 0)
    /\ timer' = IF timer > 0 THEN timer - 1 ELSE timer
    /\ phase' = (phase + 1) % Bucket
    /\ UNCHANGED <<pc, sending, delay, next, received, history>>

\* The process is killed: a request on its way may still be stored, a file being
\* written may be in place or not.  On SIGTERM the queue is saved first, unless
\* that takes too long.
Die ==
    /\ pc # "dead"
    /\ restarts < MaxRestarts
    /\ restarts' = restarts + 1
    /\ pc' = "dead"
    /\ \E f \in {file, queue} \cup (IF pc \in Saving THEN {snap} ELSE {}) :
         /\ file' = f
         /\ saved' = saved \cup IdsOf(f)
    /\ \/ received' = received
       \/ pc = "send" /\ received' = received \cup {sending}
    /\ queue' = <<>>
    /\ snap' = <<>>
    /\ sending' = 0
    /\ retryIn' = 0
    /\ delay' = 1
    /\ timer' = Off
    /\ UNCHANGED <<phase, next, fate, displaced>>

\* The queue is restored.  flushQueue is called soon: a timer that is due.
Restart ==
    /\ pc = "dead"
    /\ pc' = "idle"
    /\ queue' = file
    /\ timer' = 0
    /\ UNCHANGED <<sending, snap, file, retryIn, delay, phase, next, received, history>>

-----------------------------------------------------------------------------
Answer == SendOk \/ \E stored \in BOOLEAN : SendFails(stored)
Write == SaveDone \/ SaveFails

Next ==
    \/ EventArrives
    \/ Beat
    \/ Answer
    \/ Write
    \/ TimerFires
    \/ Tick
    \/ Die
    \/ Restart

Spec == Init /\ [][Next]_vars

\* Every request and every write comes to an end, the heartbeat interval and the
\* retry timer fire, time passes, and a process that died is started again.
Fairness ==
    /\ WF_vars(Answer)
    /\ WF_vars(SaveDone)
    /\ WF_vars(TimerFires)
    /\ WF_vars(Beat)
    /\ WF_vars(Tick)
    /\ WF_vars(Restart)

FairSpec == Spec /\ Fairness

(***************************************************************************)
(* Properties                                                              *)
(***************************************************************************)
Kept(i) == i < next /\ fate[i] = "kept" /\ i \notin received

\* Where a kept event can be: in memory, or in the file of a dead process.
Buffered == IF pc = "dead" THEN IdsOf(file) ELSE IdsOf(queue)

\* While the queue has room, no event disappears: until it is stored in the cloud
\* or too old it stays in the queue, and once it has been saved not even a death
\* of the process loses it.
NothingLost ==
    ~displaced => \A i \in Ids : Kept(i) /\ (i \in saved \/ restarts = 0) => i \in Buffered

\* While the queue has room, the cloud first sees events in the order they were
\* observed in, whatever is retried, restored or sent twice.
FirstDeliveriesInOrder ==
    [][~displaced => \A i \in received' \ received : \A k \in received : k < i]_vars

\* Whatever the cloud answers, no event stays in the queue for ever: one that is
\* always refused does not hold up the others for longer than BufferAge.
QueueDrains == \A i \in Ids : i \in IdsOf(queue) ~> i \notin IdsOf(queue)
=============================================================================
