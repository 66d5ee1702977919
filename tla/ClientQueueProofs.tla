------------------------- MODULE ClientQueueProofs -------------------------
(***************************************************************************)
(* Proofs about ClientQueue, for any number of producers, any capacity and *)
(* any number of messages: no send on a closed channel, no queue beyond    *)
(* its buffer, each producer's messages in order, and a waiting signal is  *)
(* overtaken once at most.                                                 *)
(***************************************************************************)
EXTENDS ClientQueue, SequenceTheorems, TLAPS

Goroutines ==
    /\ stage \in [Producer -> {"out", "try", "evict", "retry"}]
    /\ into \in [Producer -> Queue]
    /\ count \in [Producer -> Nat]
    /\ pump \in {"check", "wait", "closing", "done"}

(* Both queues hold messages, never more than their buffers. *)
Bounded ==
    /\ queue \in [Queue -> Seq(Message)]
    /\ \A q \in Queue : Len(queue[q]) <= Capacity

(* The count starts over with every empty highPri, and WritePump goes to   *)
(* wait only after it has seen highPri empty.                              *)
Overtaking ==
    /\ overtaken \in {0, 1}
    /\ pump = "wait" => overtaken = 0
    /\ queue["highPri"] = <<>> => overtaken = 0

QueueInv == Goroutines /\ Bounded /\ NoSendOnClosed /\ Overtaking

----------------------------------------------------------------------------
(* Putting a message that fits. *)
LEMMA PutFits ==
  ASSUME QueueAssumption, Goroutines, Bounded, NEW p \in Producer, Put(p), ~Full(into[p])
  PROVE  Bounded' /\ (queue'["highPri"] = <<>> => queue["highPri"] = <<>>)
<1> DEFINE q == into[p]
<1>1. q \in Queue /\ Newest(p) \in Message
  BY DEF Goroutines, Newest, Message
<1> DEFINE s == Append(queue[q], Newest(p))
<1>2. s \in Seq(Message) /\ Len(s) = Len(queue[q]) + 1 /\ s # <<>>
  BY <1>1 DEF Bounded
<1>3. Len(s) <= Capacity
  BY <1>1, <1>2 DEF Bounded, Full, QueueAssumption
<1>4. queue' = [queue EXCEPT ![q] = s]
  BY DEF Put
<1> HIDE DEF s, q
<1> QED
  BY <1>1, <1>2, <1>3, <1>4 DEF Bounded, Queue

(* Taking the oldest message. *)
LEMMA TailFits ==
  ASSUME QueueAssumption, Bounded, NEW q \in Queue, queue[q] # <<>>,
         queue' = [queue EXCEPT ![q] = Tail(@)]
  PROVE  Bounded'
<1> DEFINE s == Tail(queue[q])
<1>1. s \in Seq(Message) /\ Len(s) = Len(queue[q]) - 1 /\ Len(queue[q]) \in Nat
  BY DEF Bounded
<1>2. Len(s) <= Capacity
  BY <1>1 DEF Bounded, QueueAssumption
<1>3. queue' = [queue EXCEPT ![q] = s]
  OBVIOUS
<1> HIDE DEF s
<1> QED
  BY <1>1, <1>2, <1>3 DEF Bounded

(* WritePump takes a message: from highPri at any time, from the send      *)
(* queue only while it waits.                                              *)
LEMMA TakeStep ==
  ASSUME QueueAssumption, QueueInv, NEW q \in Queue, TakeFrom(q),
         q = "highPri" \/ pump = "wait"
  PROVE  QueueInv'
<1> USE DEF QueueInv
<1>1. queue[q] # <<>> /\ queue' = [queue EXCEPT ![q] = Tail(@)] /\ pump' \in {"check", "closing"}
  BY DEF TakeFrom, Written
<1>2. UNCHANGED <<isClosed, stage, into, count>>
  BY DEF TakeFrom
<1>3. Bounded'
  BY <1>1, TailFits
<1>4. Goroutines' /\ NoSendOnClosed'
  BY <1>1, <1>2 DEF Goroutines, NoSendOnClosed, Inside
<1>5. Overtaking'
  BY <1>1 DEF TakeFrom, Overtake, Overtaking, Queue
<1> QED
  BY <1>3, <1>4, <1>5

(* Both queues start empty and open. *)
LEMMA QueueStart == QueueAssumption /\ Init => QueueInv
  BY DEF QueueAssumption, Init, QueueInv, Goroutines, Bounded, NoSendOnClosed, Overtaking,
         Inside, Queue

(* Every step of producers, pumps and Close keeps the invariant. *)
LEMMA QueueStep == QueueAssumption /\ QueueInv /\ [Next]_vars => QueueInv'
<1> SUFFICES ASSUME QueueAssumption, QueueInv, [Next]_vars PROVE QueueInv'
  OBVIOUS
<1> USE DEF QueueInv
<1>1. ASSUME NEW p \in Producer, NEW q \in Queue, Enqueue(p, q) PROVE QueueInv'
  <2>1. Goroutines'
    BY <1>1 DEF Enqueue, Goroutines
  <2> QED
    BY <1>1, <2>1 DEF Enqueue, Bounded, NoSendOnClosed, Overtaking, written
<1>2. ASSUME NEW p \in Producer, InEnqueue(p) PROVE QueueInv'
  <2>1. p \in Inside
    BY <1>2 DEF InEnqueue, TrySend, Evict, Retry, Inside
  <2>2. ~isClosed /\ isClosed' = isClosed
    BY <1>2, <2>1 DEF InEnqueue, TrySend, Evict, Retry, NoSendOnClosed
  <2>3. Goroutines'
    BY <1>2 DEF InEnqueue, TrySend, Evict, Retry, Goroutines
  <2>4. Bounded' /\ Overtaking'
    <3>1. CASE TrySend(p)
      BY <3>1, PutFits DEF TrySend, Bounded, Overtaking, written
    <3>2. CASE Retry(p)
      BY <3>2, PutFits DEF Retry, Bounded, Overtaking, written
    <3>3. CASE Evict(p)
      <4>1. into[p] \in Queue
        BY DEF Goroutines
      <4>2. Bounded'
        BY <3>3, <4>1, TailFits DEF Evict, Bounded
      <4>3. Overtaking'
        BY <3>3 DEF Evict, Overtake, Overtaking
      <4> QED
        BY <4>2, <4>3
    <3> QED
      BY <1>2, <3>1, <3>2, <3>3 DEF InEnqueue
  <2> QED
    BY <2>2, <2>3, <2>4 DEF NoSendOnClosed
<1>3. ASSUME WritePump PROVE QueueInv'
  <2>1. ASSUME NEW step \in {"check", "wait", "closing"}, PumpGoto(step),
               step = "wait" => queue["highPri"] = <<>>
        PROVE  QueueInv'
    BY <2>1 DEF PumpGoto, Goroutines, Bounded, NoSendOnClosed, Inside, Overtaking, written
  <2>2. CASE CheckPriority
    BY <2>1, <2>2, TakeStep DEF CheckPriority, Queue
  <2>3. CASE WaitAny
    BY <2>1, <2>3, TakeStep DEF WaitAny
  <2>4. CASE Ping
    BY <2>1, <2>4 DEF Ping
  <2>5. CASE PumpClose
    BY <2>5 DEF PumpClose, Close, Goroutines, Bounded, NoSendOnClosed, Inside, Overtaking, written
  <2> QED
    BY <1>3, <2>2, <2>3, <2>4, <2>5 DEF WritePump
<1>4. ASSUME ReadFails \/ Unregister PROVE QueueInv'
  BY <1>4 DEF ReadFails, Unregister, Goroutines, Bounded, NoSendOnClosed, Inside, Overtaking, written
<1>5. ASSUME ReaderClose PROVE QueueInv'
  BY <1>5 DEF ReaderClose, Close, Goroutines, Bounded, NoSendOnClosed, Inside, Overtaking, written
<1>6. ASSUME UNCHANGED vars PROVE QueueInv'
  BY <1>6 DEF vars, Goroutines, Bounded, NoSendOnClosed, Inside, Overtaking, written
<1> QED
  BY <1>1, <1>2, <1>3, <1>4, <1>5, <1>6 DEF Next, ReadPumpEnd

(* In every reachable state QueueInv holds: the queues stay within their   *)
(* buffers, for any number of producers.                                   *)
THEOREM QueueInvariant == Spec => []QueueInv
  BY QueueAssumption, QueueStart, QueueStep, PTL DEF Spec

(* No goroutine sends on a channel that Close has closed (such a send      *)
(* panics): enqueue checks isClosed and sends under the same read lock.    *)
THEOREM ClosedChannelsAreQuiet == Spec => []NoSendOnClosed
  BY QueueInvariant, PTL DEF QueueInv

(* A waiting signal is overtaken by one message of the send queue at most. *)
THEOREM SignalsWaitOnce == Spec => []OvertakenOnce
<1>1. QueueInv => OvertakenOnce
  BY DEF QueueInv, Overtaking, OvertakenOnce
<1> QED
  BY <1>1, QueueInvariant, PTL

----------------------------------------------------------------------------
(* Order.  One queue, whose newest message written by each producer is in  *)
(* l: everything in it is newer, and increases per producer.               *)
InOrder(s, l) ==
    \A i \in 1..Len(s) :
        /\ l[s[i].from] < s[i].n
        /\ \A j \in 1..Len(s) : j < i /\ s[j].from = s[i].from => s[j].n < s[i].n

(* A number is at most the producer's count, and less while the producer   *)
(* is still about to put its newest message.                               *)
Spent(p, n) == n <= count[p] /\ (stage[p] # "out" => n < count[p])

SpentNext(p, n) == n <= count'[p] /\ (stage'[p] # "out" => n < count'[p])

Numbered ==
    /\ last \in [Queue -> [Producer -> Nat]]
    /\ \A q \in Queue, p \in Producer : Spent(p, last[q][p])
    /\ \A q \in Queue : \A i \in 1..Len(queue[q]) : Spent(queue[q][i].from, queue[q][i].n)

OrderInv == QueueInv /\ Numbered /\ \A q \in Queue : InOrder(queue[q], last[q])

(* A newer message may be put at the end. *)
LEMMA AppendInOrder ==
  ASSUME NEW s \in Seq(Message), NEW l, InOrder(s, l), NEW m \in Message, l[m.from] < m.n,
         \A i \in 1..Len(s) : s[i].from = m.from => s[i].n < m.n
  PROVE  InOrder(Append(s, m), l)
<1> DEFINE t == Append(s, m)
<1>1. /\ Len(t) = Len(s) + 1 /\ Len(s) \in Nat /\ t[Len(s) + 1] = m
      /\ \A i \in 1..Len(s) : t[i] = s[i]
  OBVIOUS
<1>2. \A i \in 1..Len(t) : i \in 1..Len(s) \/ i = Len(s) + 1
  BY <1>1
<1> HIDE DEF t
<1> SUFFICES InOrder(t, l)
  BY DEF t
<1> QED
  BY <1>1, <1>2 DEF InOrder

(* The rest of a queue is in order, whether its head was written or lost. *)
LEMMA TailInOrder ==
  ASSUME NEW s \in Seq(Message), s # <<>>, NEW l \in [Producer -> Nat], InOrder(s, l)
  PROVE  /\ InOrder(Tail(s), l)
         /\ InOrder(Tail(s), [l EXCEPT ![Head(s).from] = Head(s).n])
         /\ Head(s) \in Message /\ Head(s) = s[1] /\ 1 \in 1..Len(s)
         /\ \A i \in 1..Len(Tail(s)) : i + 1 \in 1..Len(s) /\ Tail(s)[i] = s[i + 1]
<1> DEFINE t == Tail(s)
           h == Head(s)
<1>1. /\ Len(t) = Len(s) - 1 /\ Len(s) \in Nat /\ h = s[1] /\ h \in Message
      /\ 1 \in 1..Len(s)
      /\ \A i \in 1..Len(t) : i + 1 \in 1..Len(s) /\ t[i] = s[i + 1]
  OBVIOUS
<1>2. ASSUME NEW i \in 1..Len(s) PROVE s[i].from \in Producer
  <2>1. s[i] \in Message
    BY ElementOfSeq
  <2> QED
    BY <2>1 DEF Message
<1> HIDE DEF t, h
<1>3. InOrder(t, l)
  BY <1>1 DEF InOrder
<1>4. ASSUME NEW i \in 1..Len(t) PROVE [l EXCEPT ![h.from] = h.n][t[i].from] < t[i].n
  <2>1. CASE t[i].from = h.from
    BY <1>1, <1>2, <2>1 DEF InOrder
  <2>2. CASE t[i].from # h.from
    BY <1>1, <1>2, <2>2 DEF InOrder
  <2> QED
    BY <2>1, <2>2
<1>5. InOrder(t, [l EXCEPT ![h.from] = h.n])
  BY <1>3, <1>4 DEF InOrder
<1> QED
  BY <1>1, <1>3, <1>5 DEF t, h

(* Losing or writing the head of a queue. *)
LEMMA HeadGone ==
  ASSUME QueueInv, OrderInv, NEW q \in Queue, queue[q] # <<>>,
         queue' = [queue EXCEPT ![q] = Tail(@)], count' = count,
         \A p \in Producer : stage'[p] # "out" => stage[p] # "out",
         \/ last' = last
         \/ last' = [last EXCEPT ![q][Head(queue[q]).from] = Head(queue[q]).n]
  PROVE  Numbered' /\ \A k \in Queue : InOrder(queue'[k], last'[k])
<1> DEFINE s == queue[q]
           l == last[q]
<1>1. s \in Seq(Message) /\ s # <<>> /\ l \in [Producer -> Nat] /\ InOrder(s, l)
  BY DEF OrderInv, QueueInv, Bounded, Numbered
<1>2. /\ InOrder(Tail(s), l) /\ InOrder(Tail(s), [l EXCEPT ![Head(s).from] = Head(s).n])
      /\ Head(s) \in Message /\ Head(s) = s[1] /\ 1 \in 1..Len(s)
      /\ \A i \in 1..Len(Tail(s)) : i + 1 \in 1..Len(s) /\ Tail(s)[i] = s[i + 1]
  BY <1>1, TailInOrder
<1>3. queue'[q] = Tail(s) /\ \A k \in Queue \ {q} : queue'[k] = queue[k]
  BY DEF QueueInv, Bounded
<1>4. /\ \A k \in Queue \ {q} : last'[k] = last[k]
      /\ last'[q] \in {l, [l EXCEPT ![Head(s).from] = Head(s).n]}
      /\ Head(s).from \in Producer /\ Head(s).n \in Nat
      /\ last' \in [Queue -> [Producer -> Nat]]
  <2>1. Head(s).from \in Producer /\ Head(s).n \in Nat
    BY <1>2 DEF Message
  <2>2. last \in [Queue -> [Producer -> Nat]]
    BY DEF OrderInv, Numbered
  <2>3. [l EXCEPT ![Head(s).from] = Head(s).n] \in [Producer -> Nat]
    BY <1>1, <2>1
  <2>4. last' = last \/ last' = [last EXCEPT ![q] = [l EXCEPT ![Head(s).from] = Head(s).n]]
    BY <2>2
  <2> HIDE DEF s, l
  <2> QED
    BY <2>1, <2>2, <2>3, <2>4 DEF l
<1>5. \A k \in Queue : InOrder(queue'[k], last'[k])
  BY <1>2, <1>3, <1>4 DEF OrderInv
<1>6. \A p \in Producer, n \in Nat : Spent(p, n) => Spent(p, n)'
  BY DEF Spent
<1>7. Spent(Head(s).from, Head(s).n)
  BY <1>2 DEF OrderInv, Numbered
<1>8. \A k \in Queue, p \in Producer : Spent(p, last'[k][p])
  <2>1. \A p \in Producer : last'[q][p] = last[q][p] \/ (p = Head(s).from /\ last'[q][p] = Head(s).n)
    BY <1>1, <1>4
  <2> QED
    BY <1>4, <1>7, <2>1 DEF OrderInv, Numbered
<1>9. \A k \in Queue : \A i \in 1..Len(queue'[k]) :
         /\ Spent(queue'[k][i].from, queue'[k][i].n)
         /\ queue'[k][i].from \in Producer /\ queue'[k][i].n \in Nat
  <2>1. ASSUME NEW k \in Queue, NEW i \in 1..Len(queue[k])
        PROVE  queue[k][i].from \in Producer /\ queue[k][i].n \in Nat
    <3>1. queue[k][i] \in Message
      BY ElementOfSeq DEF QueueInv, Bounded
    <3> QED
      BY <3>1 DEF Message
  <2>2. ASSUME NEW i \in 1..Len(queue'[q])
        PROVE  /\ Spent(queue'[q][i].from, queue'[q][i].n)
               /\ queue'[q][i].from \in Producer /\ queue'[q][i].n \in Nat
    BY <1>2, <1>3, <2>1 DEF OrderInv, Numbered
  <2> QED
    BY <1>3, <2>1, <2>2 DEF OrderInv, Numbered
<1> HIDE DEF s, l
<1>10. Numbered'
  BY <1>4, <1>6, <1>8, <1>9 DEF Numbered
<1> QED
  BY <1>5, <1>10

(* Putting the newest message of a producer that is inside enqueue. *)
LEMMA NewestPut ==
  ASSUME QueueInv, OrderInv, NEW p \in Producer, stage[p] # "out", stage' = [stage EXCEPT ![p] = "out"],
         Put(p), UNCHANGED <<count, last>>
  PROVE  Numbered' /\ \A k \in Queue : InOrder(queue'[k], last'[k])
<1> DEFINE q == into[p]
           s == queue[q]
           m == Newest(p)
<1>1. /\ q \in Queue /\ m \in Message /\ m.from = p /\ m.n = count[p] /\ s \in Seq(Message)
      /\ count[p] \in Nat
  BY DEF QueueInv, Goroutines, Bounded, Newest, Message
<1>2. last[q][p] < count[p] /\ \A i \in 1..Len(s) : s[i].from = p => s[i].n < count[p]
  BY <1>1 DEF OrderInv, Numbered, Spent
<1>3. InOrder(Append(s, m), last[q])
  <2>1. InOrder(s, last[q])
    BY <1>1 DEF OrderInv
  <2> HIDE DEF s, m, q
  <2> QED
    BY <1>1, <1>2, <2>1, AppendInOrder
<1>4. queue'[q] = Append(s, m) /\ \A k \in Queue \ {q} : queue'[k] = queue[k]
  BY <1>1 DEF Put, QueueInv, Bounded
<1>5. \A k \in Queue : InOrder(queue'[k], last'[k])
  BY <1>3, <1>4 DEF OrderInv
<1>6. /\ stage'[p] = "out" /\ \A d \in Producer \ {p} : stage'[d] = stage[d]
      /\ \A d \in Producer, n \in Nat : Spent(d, n) => SpentNext(d, n)
      /\ SpentNext(m.from, m.n)
  BY <1>1 DEF Spent, SpentNext, QueueInv, Goroutines
<1>7. ASSUME NEW k \in Queue, NEW i \in 1..Len(queue'[k])
      PROVE  SpentNext(queue'[k][i].from, queue'[k][i].n)
  <2>1. ASSUME NEW j \in 1..Len(queue[k]) PROVE SpentNext(queue[k][j].from, queue[k][j].n)
    <3>1. queue[k][j] \in Message
      BY ElementOfSeq DEF QueueInv, Bounded
    <3>2. queue[k][j].from \in Producer /\ queue[k][j].n \in Nat
      BY <3>1 DEF Message
    <3> QED
      BY <1>6, <3>2 DEF OrderInv, Numbered
  <2>2. CASE k # q
    BY <1>4, <2>1, <2>2
  <2>3. CASE k = q
    <3>1. /\ Len(Append(s, m)) = Len(s) + 1 /\ Len(s) \in Nat /\ Append(s, m)[Len(s) + 1] = m
          /\ \A j \in 1..Len(s) : Append(s, m)[j] = s[j]
      BY <1>1
    <3>2. i \in 1..Len(s) \/ i = Len(s) + 1
      BY <1>4, <2>3, <3>1
    <3> HIDE DEF m
    <3>3. CASE i = Len(s) + 1
      BY <1>4, <1>6, <2>3, <3>1, <3>3
    <3>4. CASE i \in 1..Len(s)
      BY <1>4, <2>1, <2>3, <3>1, <3>4
    <3> QED
      BY <3>2, <3>3, <3>4
  <2> QED
    BY <2>2, <2>3
<1>8. \A k \in Queue, d \in Producer : SpentNext(d, last'[k][d])
  BY <1>6 DEF OrderInv, Numbered
<1>9. Numbered'
  BY <1>7, <1>8 DEF OrderInv, Numbered, Spent, SpentNext
<1> QED
  BY <1>5, <1>9

(* Both queues start empty, and nothing has been written. *)
LEMMA OrderStart == QueueAssumption /\ Init => OrderInv
<1> SUFFICES ASSUME QueueAssumption, Init PROVE OrderInv
  OBVIOUS
<1>1. QueueInv
  BY QueueStart
<1>2. \A q \in Queue : Len(queue[q]) = 0
  BY DEF Init
<1>3. Numbered
  BY <1>2 DEF Init, Numbered, Spent
<1> QED
  BY <1>1, <1>2, <1>3 DEF OrderInv, InOrder

(* Every step keeps the order. *)
LEMMA OrderStep == QueueAssumption /\ OrderInv /\ [Next]_vars => OrderInv'
<1> SUFFICES ASSUME QueueAssumption, OrderInv, [Next]_vars PROVE OrderInv'
  OBVIOUS
<1>0. QueueInv /\ QueueInv'
  BY QueueStep DEF OrderInv
<1> DEFINE Goal == Numbered' /\ \A k \in Queue : InOrder(queue'[k], last'[k])
<1>1. ASSUME UNCHANGED <<queue, last>>, \A p \in Producer, n \in Nat : Spent(p, n) => SpentNext(p, n)
      PROVE  Goal
  <2>1. ASSUME NEW k \in Queue, NEW j \in 1..Len(queue[k])
        PROVE  SpentNext(queue[k][j].from, queue[k][j].n)
    <3>1. queue[k][j] \in Message
      BY <1>0, ElementOfSeq DEF QueueInv, Bounded
    <3>2. queue[k][j].from \in Producer /\ queue[k][j].n \in Nat
      BY <3>1 DEF Message
    <3> QED
      BY <1>1, <3>2 DEF OrderInv, Numbered
  <2>2. \A k \in Queue, d \in Producer : SpentNext(d, last[k][d])
    BY <1>1 DEF OrderInv, Numbered
  <2>3. Numbered'
    BY <1>1, <2>1, <2>2 DEF OrderInv, Numbered, Spent, SpentNext
  <2> QED
    BY <1>1, <2>3 DEF OrderInv
<1>1a. ASSUME UNCHANGED <<queue, last, count>>, \A p \in Producer : stage'[p] # "out" => stage[p] # "out"
       PROVE  Goal
  BY <1>1, <1>1a DEF Spent, SpentNext
<1>2. ASSUME NEW p \in Producer, NEW q \in Queue, Enqueue(p, q) PROVE Goal
  <2>1. /\ UNCHANGED <<queue, last>> /\ count'[p] = count[p] + 1 /\ count[p] \in Nat
        /\ \A d \in Producer \ {p} : count'[d] = count[d] /\ stage'[d] = stage[d]
        /\ stage[p] = "out"
    BY <1>0, <1>2 DEF Enqueue, written, QueueInv, Goroutines
  <2>2. \A d \in Producer, n \in Nat : Spent(d, n) => SpentNext(d, n)
    BY <2>1 DEF Spent, SpentNext
  <2> QED
    BY <1>1, <2>1, <2>2
<1>3. ASSUME NEW p \in Producer, InEnqueue(p) PROVE Goal
  <2>1. /\ stage[p] # "out" /\ UNCHANGED <<count, last>>
        /\ \A d \in Producer : stage'[d] # "out" => stage[d] # "out"
    BY <1>0, <1>3 DEF InEnqueue, TrySend, Evict, Retry, written, QueueInv, Goroutines
  <2>2. CASE UNCHANGED queue
    BY <1>1a, <2>1, <2>2
  <2>3. CASE Put(p) /\ stage' = [stage EXCEPT ![p] = "out"]
    BY <1>0, <2>1, <2>3, NewestPut
  <2>4. CASE queue[into[p]] # <<>> /\ queue' = [queue EXCEPT ![into[p]] = Tail(@)]
    <3>1. into[p] \in Queue
      BY <1>0 DEF QueueInv, Goroutines
    <3> QED
      BY <1>0, <2>1, <2>4, <3>1, HeadGone
  <2> QED
    BY <1>3, <2>2, <2>3, <2>4 DEF InEnqueue, TrySend, Evict, Retry
<1>4. ASSUME NEW q \in Queue, TakeFrom(q) PROVE Goal
  <2>1. /\ queue[q] # <<>> /\ queue' = [queue EXCEPT ![q] = Tail(@)] /\ UNCHANGED <<count, stage>>
        /\ \/ last' = last
           \/ last' = [last EXCEPT ![q][Head(queue[q]).from] = Head(queue[q]).n]
    BY <1>4 DEF TakeFrom, Written
  <2> QED
    BY <1>0, <2>1, HeadGone
<1>5. ASSUME NEW step, PumpGoto(step) PROVE Goal
  BY <1>1a, <1>5 DEF PumpGoto, written
<1>6. ASSUME WritePump PROVE Goal
  <2>1. CASE PumpClose
    BY <1>1a, <2>1 DEF PumpClose, written
  <2> QED
    BY <1>4, <1>5, <1>6, <2>1 DEF WritePump, CheckPriority, WaitAny, Ping, Queue
<1>7. ASSUME ReadFails \/ ReadPumpEnd PROVE Goal
  BY <1>1a, <1>7 DEF ReadFails, ReadPumpEnd, Unregister, ReaderClose, written
<1>8. ASSUME UNCHANGED vars PROVE Goal
  BY <1>1a, <1>8 DEF vars, written
<1>9. Goal
  BY <1>2, <1>3, <1>6, <1>7, <1>8 DEF Next
<1> QED
  BY <1>0, <1>9 DEF OrderInv

(* What one goroutine puts into one queue is written in that order: every  *)
(* message in a queue is newer than the last one written and than those    *)
(* ahead of it, and a producer still inside enqueue holds a newer one.     *)
THEOREM OrderHolds == Spec => []OrderIsKept
<1>1. OrderInv => OrderIsKept
  <2> SUFFICES ASSUME OrderInv PROVE OrderIsKept
    OBVIOUS
  <2>1. \A q \in Queue : DOMAIN queue[q] = 1..Len(queue[q])
    BY DEF OrderInv, QueueInv, Bounded
  <2> QED
    BY <2>1 DEF OrderInv, InOrder, OrderIsKept
<1> QED
  BY <1>1, QueueAssumption, OrderStart, OrderStep, PTL DEF Spec

----------------------------------------------------------------------------
(* The rest of the types. *)
OtherTypes ==
    /\ isClosed \in BOOLEAN /\ connUp \in BOOLEAN
    /\ count \in [Producer -> 0..MaxSends]
    /\ reader \in {"reading", "unregister", "closing", "done"}

LEMMA TypesStep == QueueAssumption /\ OtherTypes /\ [Next]_vars => OtherTypes'
<1> SUFFICES ASSUME QueueAssumption, OtherTypes, [Next]_vars PROVE OtherTypes'
  OBVIOUS
<1> USE DEF OtherTypes
<1>1. ASSUME NEW p \in Producer, NEW q \in Queue, Enqueue(p, q) PROVE OtherTypes'
  <2>1. count[p] + 1 \in 0..MaxSends
    BY <1>1 DEF Enqueue, QueueAssumption
  <2> QED
    BY <1>1, <2>1 DEF Enqueue
<1>2. ASSUME NEW p \in Producer, InEnqueue(p) PROVE OtherTypes'
  BY <1>2 DEF InEnqueue, TrySend, Evict, Retry, written
<1>3. ASSUME NEW q \in Queue, TakeFrom(q) PROVE OtherTypes'
  BY <1>3 DEF TakeFrom
<1>4. ASSUME NEW step, PumpGoto(step) PROVE OtherTypes'
  BY <1>4 DEF PumpGoto
<1>5. CASE WritePump
  <2>1. CASE PumpClose
    BY <2>1 DEF PumpClose, Close
  <2> QED
    BY <1>3, <1>4, <1>5, <2>1 DEF WritePump, CheckPriority, WaitAny, Ping, Queue
<1>6. CASE ReadFails \/ ReadPumpEnd
  BY <1>6 DEF ReadFails, ReadPumpEnd, Unregister, ReaderClose, Close
<1>7. CASE UNCHANGED vars
  BY <1>7 DEF vars
<1> QED
  BY <1>1, <1>2, <1>5, <1>6, <1>7 DEF Next

(* The types of a connection; no queue outgrows its buffer, however many   *)
(* goroutines are between the selects of enqueue at once.                  *)
THEOREM QueuesAreBounded == Spec => []TypeOK
<1>1. QueueAssumption /\ Init => OtherTypes
  <2> SUFFICES ASSUME QueueAssumption, Init PROVE OtherTypes
    OBVIOUS
  <2>1. 0 \in 0..MaxSends
    BY DEF QueueAssumption
  <2>2. count \in [Producer -> 0..MaxSends]
    BY <2>1 DEF Init
  <2>3. isClosed \in BOOLEAN /\ connUp \in BOOLEAN
    BY DEF Init
  <2> QED
    BY <2>2, <2>3 DEF Init, OtherTypes
<1>2. OrderInv /\ OtherTypes => TypeOK
  <2>1. OrderInv => overtaken \in Nat
    BY DEF OrderInv, QueueInv, Overtaking
  <2> QED
    BY <2>1 DEF OrderInv, QueueInv, Goroutines, Bounded, Numbered, OtherTypes, TypeOK
<1> QED
  BY <1>1, <1>2, QueueAssumption, OrderStart, OrderStep, TypesStep, PTL DEF Spec

----------------------------------------------------------------------------
(* A pump that has ended has closed the connection. *)
EndedIsClosed == pump = "done" \/ reader = "done" => isClosed /\ ~connUp

(* The safety half of PumpsEndTogether: neither pump returns without the   *)
(* Close that ends the other one's wait (the deferred calls of ReadPump    *)
(* and WritePump, client.go).                                              *)
THEOREM NoPumpEndsAlone == Spec => []EndedIsClosed
<1>1. Init => EndedIsClosed
  BY DEF Init, EndedIsClosed
<1>2. ASSUME EndedIsClosed, [Next]_vars PROVE EndedIsClosed'
  <2>k. ASSUME UNCHANGED <<isClosed, connUp, reader>>, pump' # "done" \/ pump' = pump
        PROVE  EndedIsClosed'
    BY <2>k, <1>2 DEF EndedIsClosed
  <2>1. ASSUME NEW p \in Producer, NEW q \in Queue, Enqueue(p, q) PROVE EndedIsClosed'
    BY <2>1, <2>k DEF Enqueue
  <2>2. ASSUME NEW p \in Producer, InEnqueue(p) PROVE EndedIsClosed'
    BY <2>2, <2>k DEF InEnqueue, TrySend, Evict, Retry
  <2>3. ASSUME NEW q \in Queue, TakeFrom(q) PROVE EndedIsClosed'
    BY <2>3, <2>k DEF TakeFrom
  <2>4. ASSUME NEW step, PumpGoto(step), step # "done" PROVE EndedIsClosed'
    BY <2>4, <2>k DEF PumpGoto
  <2>5. ASSUME PumpClose \/ ReaderClose PROVE EndedIsClosed'
    BY <2>5 DEF PumpClose, ReaderClose, Close, EndedIsClosed
  <2>6. ASSUME CheckPriority \/ WaitAny \/ Ping PROVE EndedIsClosed'
    BY <2>6, <2>3, <2>4 DEF CheckPriority, WaitAny, Ping, Queue
  <2>7. ASSUME ReadFails \/ Unregister PROVE EndedIsClosed'
    BY <2>7, <1>2 DEF ReadFails, Unregister, EndedIsClosed
  <2>8. ASSUME UNCHANGED vars PROVE EndedIsClosed'
    BY <2>8, <2>k DEF vars
  <2> QED
    BY <1>2, <2>1, <2>2, <2>5, <2>6, <2>7, <2>8 DEF Next, WritePump, ReadPumpEnd
<1> QED BY <1>1, <1>2, PTL DEF Spec
=============================================================================
