---------------------------- MODULE ClientQueue ----------------------------
(***************************************************************************)
(* internal/radio/client.go: the two outgoing queues of one connected      *)
(* client, the goroutines that fill them, the WritePump that empties them, *)
(* the ReadPump, and Close.                                                *)
(*                                                                         *)
(* enqueue and enqueuePriority hold c.mu.RLock throughout, so several      *)
(* goroutines can be inside at once; each select on a Go channel is one    *)
(* atomic step.  Close holds c.mu.Lock.  A send on a closed Go channel     *)
(* would panic.                                                            *)
(***************************************************************************)
EXTENDS Naturals, Sequences

CONSTANTS
    Producer,     \* goroutines that send to this client
    Capacity,     \* highPriSize and sendBufferSize (64 in the code)
    MaxSends      \* bound on the messages of a producer

ASSUME QueueAssumption == Capacity \in Nat \ {0} /\ MaxSends \in Nat

Queue == {"highPri", "send"}
Message == [from : Producer, n : Nat]

VARIABLES
    queue,        \* the contents of both Go channels
    isClosed,     \* both channels are closed
    stage,        \* where each producer is in enqueue
    into,         \* the queue its message is for
    count,        \* how many messages it has sent; the newest has this number
    pump,         \* where WritePump is
    reader,       \* where ReadPump is
    connUp,       \* the WebSocket is open
    last,         \* the newest message written, by queue and producer
    overtaken     \* send-queue messages taken since signals have been waiting

written == <<last, overtaken>>
vars == <<queue, isClosed, stage, into, count, pump, reader, connUp, written>>

Init ==
    /\ queue = [q \in Queue |-> <<>>]
    /\ isClosed = FALSE
    /\ stage = [p \in Producer |-> "out"]
    /\ into = [p \in Producer |-> "send"]
    /\ count = [p \in Producer |-> 0]
    /\ pump = "check"
    /\ reader = "reading"
    /\ connUp = TRUE
    /\ last = [q \in Queue |-> [p \in Producer |-> 0]]
    /\ overtaken = 0

----------------------------------------------------------------------------
Full(q) == Len(queue[q]) >= Capacity
Inside == {p \in Producer : stage[p] # "out"}
Newest(p) == [from |-> p, n |-> count[p]]

(* RLock and the check of isClosed. *)
Enqueue(p, q) ==
    /\ stage[p] = "out"
    /\ count[p] < MaxSends
    /\ ~isClosed
    /\ stage' = [stage EXCEPT ![p] = "try"]
    /\ into' = [into EXCEPT ![p] = q]
    /\ count' = [count EXCEPT ![p] = @ + 1]
    /\ UNCHANGED <<queue, isClosed, pump, reader, connUp, written>>

Overtake(n) == overtaken' = IF queue'["highPri"] = <<>> THEN 0 ELSE overtaken + n

Put(p) == queue' = [queue EXCEPT ![into[p]] = Append(@, Newest(p))]

(* Mutant of TrySend: a full queue gets longer. *)
TrySendUnbounded(p) ==
    /\ stage[p] = "try"
    /\ Put(p)
    /\ stage' = [stage EXCEPT ![p] = "out"]
    /\ UNCHANGED <<isClosed, into, count, pump, reader, connUp, written>>

(* The first select. *)
TrySend(p) ==
    /\ stage[p] = "try"
    /\ IF Full(into[p])
       THEN stage' = [stage EXCEPT ![p] = "evict"] /\ UNCHANGED queue
       ELSE stage' = [stage EXCEPT ![p] = "out"] /\ Put(p)
    /\ UNCHANGED <<isClosed, into, count, pump, reader, connUp, written>>

(* The second select: the oldest message is thrown away, if there is one. *)
Evict(p) ==
    /\ stage[p] = "evict"
    /\ IF queue[into[p]] = <<>>
       THEN UNCHANGED queue
       ELSE queue' = [queue EXCEPT ![into[p]] = Tail(@)]
    /\ stage' = [stage EXCEPT ![p] = "retry"]
    /\ Overtake(0)
    /\ UNCHANGED <<isClosed, into, count, pump, reader, connUp, last>>

(* The third select; a queue that is full again loses the message. *)
Retry(p) ==
    /\ stage[p] = "retry"
    /\ IF Full(into[p]) THEN UNCHANGED queue ELSE Put(p)
    /\ stage' = [stage EXCEPT ![p] = "out"]
    /\ UNCHANGED <<isClosed, into, count, pump, reader, connUp, written>>

----------------------------------------------------------------------------
(* Mutant of Close: it does not wait for the producers (no c.mu.Lock). *)
CloseUnlocked == isClosed' = TRUE /\ connUp' = FALSE

(* Lock waits for the producers inside; the second Close does nothing. *)
Close == Inside = {} /\ isClosed' = TRUE /\ connUp' = FALSE

(* Mutant of Written: the queue is read from the wrong end. *)
WrittenLIFO(q) ==
    LET s == queue[q] IN
    /\ queue' = [queue EXCEPT ![q] = SubSeq(s, 1, Len(s) - 1)]
    /\ last' = [last EXCEPT ![q][s[Len(s)].from] = s[Len(s)].n]

(* The oldest message of a queue is taken and written to the WebSocket. *)
Written(q) ==
    /\ queue' = [queue EXCEPT ![q] = Tail(@)]
    /\ last' = [last EXCEPT ![q][Head(queue[q]).from] = Head(queue[q]).n]

(* Taking a message; the write may fail, and does on a closed connection. *)
TakeFrom(q) ==
    /\ queue[q] # <<>>
    /\ \/ /\ connUp
          /\ Written(q)
          /\ pump' = "check"
       \/ /\ queue' = [queue EXCEPT ![q] = Tail(@)]
          /\ pump' = "closing"
          /\ UNCHANGED last
    /\ Overtake(IF q = "send" THEN 1 ELSE 0)
    /\ UNCHANGED <<isClosed, stage, into, count, reader, connUp>>

PumpGoto(step) ==
    /\ pump' = step
    /\ UNCHANGED <<queue, isClosed, stage, into, count, reader, connUp, written>>

(* Mutant of CheckPriority: there is no first select. *)
CheckPrioritySkipped == pump = "check" /\ PumpGoto("wait")

(* Priority 1: highPri without blocking. *)
CheckPriority ==
    /\ pump = "check"
    /\ \/ TakeFrom("highPri")
       \/ queue["highPri"] = <<>> /\ PumpGoto(IF isClosed THEN "closing" ELSE "wait")

(* Priority 2: select takes any case that is ready: a queue with a         *)
(* message, a queue that is closed and empty, or the ticker.               *)
WaitAny ==
    /\ pump = "wait"
    /\ \/ \E q \in Queue : TakeFrom(q)
       \/ \E q \in Queue : isClosed /\ queue[q] = <<>> /\ PumpGoto("closing")

(* A ping; it fails when the peer is gone. *)
Ping ==
    /\ pump = "wait"
    /\ \/ connUp /\ PumpGoto("check")
       \/ PumpGoto("closing")

(* Mutant of PumpClose: WritePump returns without Close. *)
PumpCloseForgotten == pump = "closing" /\ PumpGoto("done")

(* The deferred Close of WritePump. *)
PumpClose ==
    /\ pump = "closing"
    /\ Close
    /\ pump' = "done"
    /\ UNCHANGED <<queue, stage, into, count, reader, written>>

(* ReadMessage fails: closed, lost, or no pong within PongWait. *)
ReadFails ==
    /\ reader = "reading"
    /\ reader' = "unregister"
    /\ UNCHANGED <<queue, isClosed, stage, into, count, pump, connUp, written>>

(* The deferred calls of ReadPump: UnregisterClient, then Close. *)
Unregister ==
    /\ reader = "unregister"
    /\ reader' = "closing"
    /\ UNCHANGED <<queue, isClosed, stage, into, count, pump, connUp, written>>

ReaderClose ==
    /\ reader = "closing"
    /\ Close
    /\ reader' = "done"
    /\ UNCHANGED <<queue, stage, into, count, pump, written>>

----------------------------------------------------------------------------
InEnqueue(p) == TrySend(p) \/ Evict(p) \/ Retry(p)
WritePump == CheckPriority \/ WaitAny \/ Ping \/ PumpClose
ReadPumpEnd == Unregister \/ ReaderClose

Next ==
    \/ \E p \in Producer : InEnqueue(p) \/ \E q \in Queue : Enqueue(p, q)
    \/ WritePump
    \/ ReadFails
    \/ ReadPumpEnd

Spec == Init /\ [][Next]_vars

(* Goroutines that can run do run; a read on a closed connection fails.    *)
(* The ticker ticks, but nothing makes a producer send or a peer vanish.   *)
Fairness ==
    /\ \A p \in Producer : WF_vars(InEnqueue(p))
    /\ WF_vars(CheckPriority) /\ WF_vars(WaitAny) /\ WF_vars(PumpClose)
    /\ WF_vars(ReadPumpEnd)
    /\ WF_vars(ReadFails /\ ~connUp)

FairSpec == Spec /\ Fairness

----------------------------------------------------------------------------
(* The types; no queue is longer than its buffer. *)
TypeOK ==
    /\ queue \in [Queue -> Seq(Message)]
    /\ \A q \in Queue : Len(queue[q]) <= Capacity
    /\ isClosed \in BOOLEAN
    /\ stage \in [Producer -> {"out", "try", "evict", "retry"}]
    /\ into \in [Producer -> Queue]
    /\ count \in [Producer -> 0..MaxSends]
    /\ pump \in {"check", "wait", "closing", "done"}
    /\ reader \in {"reading", "unregister", "closing", "done"}
    /\ connUp \in BOOLEAN
    /\ last \in [Queue -> [Producer -> Nat]]
    /\ overtaken \in Nat

(* No goroutine is about to send on, or receive from, a channel that Close *)
(* has closed: the check of isClosed is still true when the send happens.  *)
NoSendOnClosed == isClosed => Inside = {}

(* What one goroutine puts into one queue is written in that order:        *)
(* eviction and concurrent producers make gaps, never a swap.              *)
OrderIsKept ==
    \A q \in Queue : \A i \in DOMAIN queue[q] :
        LET m == queue[q][i] IN
        /\ last[q][m.from] < m.n
        /\ \A j \in DOMAIN queue[q] : j < i /\ queue[q][j].from = m.from => queue[q][j].n < m.n

(* While signals wait, at most one message of the send queue overtakes     *)
(* them: the one select may pick when the signal arrives after the check  *)
(* of highPri (the second select has no priority).                         *)
OvertakenOnce == overtaken <= 1

(* The two pumps end together: when WritePump gives up, ReadPump returns   *)
(* and unregisters the client, and the other way round; no half-dead       *)
(* client stays registered.                                                *)
PumpsEndTogether ==
    /\ pump \in {"closing", "done"} ~> reader = "done"
    /\ reader # "reading" ~> pump = "done"
=============================================================================
