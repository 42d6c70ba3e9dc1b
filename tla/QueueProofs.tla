---------------------------- MODULE QueueProofs -----------------------------
(***************************************************************************)
(* internal/queue, for any number of producers, waiters, pollers and       *)
(* observers and for segments of any size: access to the queue is exclusive, *)
(* no waiter wakes up to an empty queue, and the queue implements a FIFO.  *)
(***************************************************************************)
EXTENDS Holder, SequenceTheorems, TLAPS

-----------------------------------------------------------------------------
(* The token of the Holder *)

PcType == pc \in [Goroutines -> {"idle", "held", "used", "lenEmpty", "lenPopulated"}]

\* The token is in one channel or with one goroutine.
OneToken ==
    /\ empty \in BOOLEAN /\ populated \in BOOLEAN
    /\ ~(empty /\ populated)
    /\ (empty \/ populated) => \A g \in Goroutines : pc[g] = "idle"
    /\ ~(empty \/ populated) => \E g \in Goroutines : pc[g] # "idle"
    /\ \A g, h \in Goroutines : pc[g] # "idle" /\ pc[h] # "idle" => g = h

\* The channel the token is in, or was taken from, tells whether there are items.
RightChannel ==
    /\ empty => size = 0
    /\ populated => size # 0
    /\ \A g \in Goroutines : pc[g] = "lenEmpty" => size = 0
    /\ \A g \in Goroutines : pc[g] = "lenPopulated" => size # 0
    /\ \A g \in Waiters : pc[g] = "held" => size # 0

IInv == PcType /\ OneToken /\ RightChannel

\* A goroutine that takes the token out of a channel was preceded by nobody.
LEMMA TakeKeepsIInv ==
    ASSUME IInv, NEW g \in Goroutines, pc[g] = "idle",
           UNCHANGED qvars,
           NEW to \in {"held", "lenEmpty", "lenPopulated"}, Goto(g, to),
           \/ FromEmpty /\ to # "lenPopulated" /\ (to = "held" => g \notin Waiters)
           \/ FromPopulated /\ to # "lenEmpty"
    PROVE  IInv'
  <1>1. PcType'
    BY Zenon DEF IInv, PcType, Goto
  <1>2. \A h \in Goroutines : pc[h] = "idle"
    BY Zenon DEF IInv, OneToken, FromEmpty, FromPopulated
  <1>3. pc'[g] = to /\ \A h \in Goroutines : h # g => pc'[h] = "idle"
    BY Zenon, <1>2 DEF IInv, PcType, Goto
  <1>4. empty' = FALSE /\ populated' = FALSE
    BY Zenon DEF IInv, OneToken, FromEmpty, FromPopulated
  <1>5. OneToken'
    BY Zenon, <1>3, <1>4 DEF OneToken
  <1>6. size' = size
    BY Zenon DEF qvars
  <1>7. RightChannel'
    <2>1. CASE FromEmpty /\ to # "lenPopulated" /\ (to = "held" => g \notin Waiters)
      <3>1. size = 0
        BY Zenon, <2>1 DEF IInv, RightChannel, FromEmpty
      <3> QED
        BY Zenon, <1>3, <1>4, <1>6, <2>1, <3>1 DEF RightChannel, Goroutines
    <2>2. CASE FromPopulated /\ to # "lenEmpty"
      <3>1. size # 0
        BY Zenon, <2>2 DEF IInv, RightChannel, FromPopulated
      <3> QED
        BY Zenon, <1>3, <1>4, <1>6, <2>2, <3>1 DEF RightChannel, Goroutines
    <2> QED
      BY Zenon, <2>1, <2>2
  <1> QED
    BY Zenon, <1>1, <1>5, <1>7 DEF IInv

\* A goroutine that puts the token into the channel that fits is followed by nobody.
LEMMA ReturnKeepsIInv ==
    ASSUME IInv, NEW g \in Goroutines, pc[g] # "idle",
           UNCHANGED qvars, Goto(g, "idle"),
           (size = 0 /\ ToEmpty) \/ (size # 0 /\ ToPopulated)
    PROVE  IInv'
  <1>1. PcType'
    BY Zenon DEF IInv, PcType, Goto
  <1>2. \A h \in Goroutines : h # g => pc[h] = "idle"
    BY Zenon DEF IInv, OneToken
  <1>3. \A h \in Goroutines : pc'[h] = "idle"
    BY Zenon, <1>2 DEF IInv, PcType, Goto
  <1>4. ~empty /\ ~populated
    BY Zenon DEF IInv, OneToken
  <1>5. size' = size
    BY Zenon DEF qvars
  <1>6. \/ size = 0 /\ empty' = TRUE /\ populated' = FALSE
        \/ size # 0 /\ empty' = FALSE /\ populated' = TRUE
    BY Zenon, <1>4 DEF OneToken, IInv, ToEmpty, ToPopulated
  <1>7. OneToken'
    BY Zenon, <1>3, <1>6 DEF OneToken
  <1>8. RightChannel'
    BY Zenon, <1>3, <1>5, <1>6 DEF RightChannel, Goroutines
  <1> QED
    BY Zenon, <1>1, <1>7, <1>8 DEF IInv

\* Whatever the holder does to the queue, only its own claim on the size ends.
LEMMA UseKeepsIInv ==
    ASSUME IInv, NEW g \in Goroutines, pc[g] = "held", Goto(g, "used"),
           UNCHANGED <<empty, populated>>
    PROVE  IInv'
  <1>1. PcType'
    BY Zenon DEF IInv, PcType, Goto
  <1>2. \A h \in Goroutines : h # g => pc[h] = "idle"
    BY Zenon DEF IInv, OneToken
  <1>3. pc'[g] = "used" /\ \A h \in Goroutines : h # g => pc'[h] = "idle"
    BY Zenon, <1>2 DEF IInv, PcType, Goto
  <1>4. ~empty' /\ ~populated' /\ empty' \in BOOLEAN /\ populated' \in BOOLEAN
    BY Zenon DEF IInv, OneToken
  <1>5. OneToken'
    BY Zenon, <1>3, <1>4 DEF OneToken
  <1>6. RightChannel'
    BY Zenon, <1>3, <1>4 DEF RightChannel, Goroutines
  <1> QED
    BY Zenon, <1>1, <1>5, <1>6 DEF IInv

\* Every step of every goroutine preserves the invariant.
LEMMA StepKeepsIInv == IInv /\ [HNext]_hvars => IInv'
  <1> SUFFICES ASSUME IInv, [HNext]_hvars PROVE IInv'
    BY Zenon
  <1>1. ASSUME NEW g \in Producers \cup Pollers, Acquire(g) PROVE IInv'
    <2>1. g \in Goroutines /\ g \notin Waiters
      BY Zenon, GoroutinesAssumption DEF Goroutines
    <2> QED
      BY Zenon, <1>1, <2>1, TakeKeepsIInv DEF Acquire
  <1>2. ASSUME NEW g \in Waiters, Wait(g) PROVE IInv'
    BY Zenon, <1>2, TakeKeepsIInv DEF Wait, Goroutines
  <1>3. ASSUME NEW g \in Goroutines, Release(g) PROVE IInv'
    BY Zenon, <1>3, ReturnKeepsIInv DEF Release
  <1>4. ASSUME NEW g \in Observers, LenTake(g) PROVE IInv'
    BY Zenon, <1>4, TakeKeepsIInv DEF LenTake, Goroutines
  <1>5. ASSUME NEW g \in Observers, LenReturn(g) PROVE IInv'
    <2>1. g \in Goroutines
      BY Zenon DEF Goroutines
    <2>2. (size = 0 /\ ToEmpty) \/ (size # 0 /\ ToPopulated)
      BY Zenon, <1>5, <2>1 DEF LenReturn, IInv, RightChannel
    <2> QED
      BY Zenon, <1>5, <2>1, <2>2, ReturnKeepsIInv DEF LenReturn
  <1>6. CASE UNCHANGED hvars
    BY Zenon, <1>6 DEF hvars, IInv, PcType, OneToken, RightChannel
  <1>7. ASSUME NEW g \in Producers, Produce(g) PROVE IInv'
    <2>1. g \in Goroutines
      BY Zenon DEF Goroutines
    <2>2. ASSUME NEW x \in Item, Use(g, Enqueue(x)) PROVE IInv'
      BY Zenon, <2>1, <2>2, UseKeepsIInv DEF Use
    <2> QED
      BY Zenon, <1>1, <1>3, <1>7, <2>1, <2>2 DEF Produce
  <1>8. ASSUME NEW g \in Waiters, Consume(g) PROVE IInv'
    <2>1. g \in Goroutines
      BY Zenon DEF Goroutines
    <2>2. CASE Use(g, Dequeue)
      BY Zenon, <2>1, <2>2, UseKeepsIInv DEF Use
    <2> QED
      BY Zenon, <1>2, <1>3, <1>8, <2>1, <2>2 DEF Consume
  <1>9. ASSUME NEW g \in Pollers, Poll(g) PROVE IInv'
    <2>1. g \in Goroutines
      BY Zenon DEF Goroutines
    <2>2. CASE Use(g, Dequeue)
      BY Zenon, <2>1, <2>2, UseKeepsIInv DEF Use
    <2> QED
      BY Zenon, <1>1, <1>3, <1>9, <2>1, <2>2 DEF Poll
  <1> QED
    BY Zenon, <1>4, <1>5, <1>6, <1>7, <1>8, <1>9 DEF HNext, Observe

\* NewHolder establishes the invariant.
LEMMA InitIInv == HInit => IInv
  BY Zenon DEF HInit, New, IInv, PcType, OneToken, RightChannel, Goroutines

\* It holds throughout.
LEMMA AlwaysIInv == HSpec => []IInv
  BY InitIInv, StepKeepsIInv, PTL DEF HSpec

\* The queue is only ever in one channel or with one goroutine (queue.go, Holder).
THEOREM HolderExclusive == HSpec => []ExclusiveAccess
  <1>1. IInv => ExclusiveAccess
    BY Zenon DEF IInv, OneToken, ExclusiveAccess, Holding
  <1> QED
    BY <1>1, AlwaysIInv, PTL

\* A mux woken through Wait may dereference what Dequeue returns (queue.go, Wait).
THEOREM HolderWakesWithItems == HSpec => []WaitersFindItems
  <1>1. IInv => WaitersFindItems
    BY Zenon DEF IInv, RightChannel, WaitersFindItems
  <1> QED
    BY <1>1, AlwaysIInv, PTL

-----------------------------------------------------------------------------
(* The segmented queue *)

Segments == [items : [0 .. SegSize - 1 -> Item \cup {Nil}], head : 0 .. SegSize, tail : 0 .. SegSize]

QueueTypes ==
    /\ ring \in Seq(Segments) /\ tail \in 1 .. Len(ring) /\ size \in Nat

\* The segments from q.head to q.tail are full but for their ends, those after
\* q.tail are empty and reset; q.head's is empty only if nothing is queued.
QueueInv ==
    /\ QueueTypes
    /\ \A i \in 1 .. Len(ring) : i # 1 => ring[i].head = 0
    /\ \A i \in 1 .. Len(ring) : i < tail => ring[i].tail = SegSize
    /\ \A i \in 1 .. Len(ring) : i > tail => ring[i].tail = 0
    /\ tail # 1 => ring[tail].tail # 0
    /\ \/ ring[1].head < ring[1].tail
       \/ ring[1].head = 0 /\ ring[1].tail = 0 /\ tail = 1
    /\ size = (tail - 1) * SegSize + ring[tail].tail - ring[1].head

\* A position is an offset of one segment.
LEMMA PositionOf ==
    ASSUME NEW k \in Nat, NEW o \in 0 .. SegSize - 1
    PROVE  (k * SegSize + o) \div SegSize = k /\ (k * SegSize + o) % SegSize = o
  BY SizesAssumption

\* The index of an item is its segment and its place in it.
LEMMA PositionSplit ==
    ASSUME NEW p \in Nat
    PROVE  /\ p \div SegSize \in Nat /\ p % SegSize \in 0 .. SegSize - 1
           /\ p = (p \div SegSize) * SegSize + (p % SegSize)
  <1>1. p \div SegSize \in Nat /\ p % SegSize \in 0 .. SegSize - 1
    BY SizesAssumption
  <1>2. p = (p \div SegSize) * SegSize + (p % SegSize)
    BY SizesAssumption
  <1> QED
    BY Zenon, <1>1, <1>2

\* The place after the last of a segment is the first of the next.
LEMMA NextPosition ==
    ASSUME NEW p \in Nat
    PROVE  (p + SegSize) \div SegSize = (p \div SegSize) + 1 /\ (p + SegSize) % SegSize = p % SegSize
  <1> DEFINE k == p \div SegSize
             o == p % SegSize
  <1>1. k \in Nat /\ o \in 0 .. SegSize - 1 /\ p = k * SegSize + o
    BY Zenon, PositionSplit
  <1> HIDE DEF k, o
  <1>2. p + SegSize = (k + 1) * SegSize + o
    BY <1>1, SizesAssumption
  <1>3. (p + SegSize) \div SegSize = k + 1 /\ (p + SegSize) % SegSize = o
    BY <1>1, <1>2, PositionOf
  <1> QED
    BY Zenon, <1>3 DEF k, o

\* The fields of a segment of the ring.
LEMMA SegmentFields ==
    ASSUME NEW r \in Seq(Segments), NEW i \in 1 .. Len(r)
    PROVE  /\ r[i] \in Segments /\ r[i].head \in 0 .. SegSize /\ r[i].tail \in 0 .. SegSize
           /\ r[i].items \in [0 .. SegSize - 1 -> Item \cup {Nil}]
  <1>1. r[i] \in Segments
    OBVIOUS
  <1> QED
    BY Zenon, <1>1 DEF Segments

\* Every item queued is in a segment up to q.tail's, below its tail index.
LEMMA QueuedPositions ==
    ASSUME QueueInv, NEW p \in Nat, p < ring[1].head + size
    PROVE  LET k == (p \div SegSize) + 1
           IN  k \in 1 .. tail /\ p % SegSize \in 0 .. SegSize - 1
               /\ (k = tail => p % SegSize < ring[tail].tail)
  <1> DEFINE k == p \div SegSize
             o == p % SegSize
             t == tail - 1
             n == ring[tail].tail
  <1>1. k \in Nat /\ o \in 0 .. SegSize - 1 /\ p = k * SegSize + o
    BY Zenon, PositionSplit
  <1>2. t \in Nat /\ n \in 0 .. SegSize /\ ring[1].head \in Nat
    <2>1. ring \in Seq(Segments) /\ tail \in 1 .. Len(ring) /\ 1 \in 1 .. Len(ring)
      BY DEF QueueInv, QueueTypes
    <2> QED
      BY <2>1, SegmentFields, SizesAssumption
  <1>3. t * SegSize \in Nat
    BY <1>2, SizesAssumption
  <1>4. size = t * SegSize + n - ring[1].head
    BY Zenon DEF QueueInv
  <1> HIDE DEF k, o, t, n
  <1>5. k < t \/ (k = t /\ o < n)
    <2>1. p < t * SegSize + n
      BY <1>2, <1>3, <1>4
    <2> QED
      BY <1>1, <1>2, <2>1, SizesAssumption
  <1>6. tail = t + 1
    BY DEF t, QueueInv, QueueTypes
  <1>7. k + 1 \in 1 .. tail /\ (k + 1 = tail => o < n)
    BY <1>1, <1>2, <1>5, <1>6
  <1> QED
    BY Zenon, <1>1, <1>7 DEF k, o, n

\* Where Enqueue puts its item: at q.tail or, if that segment is full, after it.
LEMMA EnqueueAtTail ==
    ASSUME QueueInv
    PROVE  \/ ring[tail].tail < SegSize /\ EnqueueAt = tail
           \/ ring[tail].tail = SegSize /\ EnqueueAt = tail + 1
  <1>1. CASE ring[tail].tail < SegSize
    <2>1. tail \in Room /\ \A j \in Room : tail <= j
      BY <1>1 DEF Room, QueueInv, QueueTypes
    <2>2. \A i \in Room : (\A j \in Room : i <= j) => i = tail
      BY <2>1 DEF Room, QueueInv, QueueTypes
    <2> QED
      BY Zenon, <1>1, <2>1, <2>2 DEF EnqueueAt
  <1>2. CASE ring[tail].tail = SegSize
    <2>1. CASE tail = Len(ring)
      <3>1. Room = {}
        BY <1>2, <2>1, SizesAssumption DEF Room, QueueInv, QueueTypes
      <3> QED
        BY Zenon, <1>2, <2>1, <3>1 DEF EnqueueAt
    <2>2. CASE tail # Len(ring)
      <3>1. tail + 1 \in Room /\ \A j \in Room : tail + 1 <= j
        BY <1>2, <2>2, SizesAssumption DEF Room, QueueInv, QueueTypes
      <3>2. \A i \in Room : (\A j \in Room : i <= j) => i = tail + 1
        BY <3>1 DEF Room, QueueInv, QueueTypes
      <3> QED
        BY Zenon, <1>2, <3>1, <3>2 DEF EnqueueAt
    <2> QED
      BY Zenon, <2>1, <2>2
  <1>3. ring[tail].tail \in 0 .. SegSize
    BY Zenon, SegmentFields DEF QueueInv, QueueTypes
  <1> QED
    BY <1>1, <1>2, <1>3, SizesAssumption

\* The ring after Enqueue.
LEMMA EnqueueRing ==
    ASSUME QueueInv, NEW x \in Item, Enqueue(x)
    PROVE  LET at == EnqueueAt
               off == IF at = tail THEN ring[tail].tail ELSE 0
           IN  /\ ring' \in Seq(Segments) /\ tail' = at /\ size' = size + 1
               /\ at \in 1 .. Len(ring')
               /\ Len(ring') = IF at > Len(ring) THEN Len(ring) + 1 ELSE Len(ring)
               /\ \A i \in 1 .. Len(ring) : i # at => ring'[i] = ring[i]
               /\ off \in 0 .. SegSize - 1
               /\ ring'[at].tail = off + 1
               /\ ring'[at].items[off] = x
               /\ at <= Len(ring) => /\ ring'[at].head = ring[at].head
                                     /\ \A o \in 0 .. SegSize - 1 :
                                           o # off => ring'[at].items[o] = ring[at].items[o]
               /\ at > Len(ring) => ring'[at].head = 0
  <1> DEFINE at == EnqueueAt
             off == IF at = tail THEN ring[tail].tail ELSE 0
             grown == IF at > Len(ring) THEN Append(ring, EmptySegment) ELSE ring
             put == Put(grown[at], x)
  <1>1. ring' = [grown EXCEPT ![at] = Put(@, x)] /\ tail' = at /\ size' = size + 1
    BY Zenon DEF Enqueue
  <1>2. \/ ring[tail].tail < SegSize /\ at = tail
        \/ ring[tail].tail = SegSize /\ at = tail + 1
    BY Zenon, EnqueueAtTail
  <1> HIDE DEF at
  <1>3. ring \in Seq(Segments) /\ tail \in 1 .. Len(ring)
    BY Zenon DEF QueueInv, QueueTypes
  <1>4. EmptySegment \in Segments /\ EmptySegment.tail = 0 /\ EmptySegment.head = 0
    BY SizesAssumption DEF EmptySegment, Segments
  <1>5. /\ grown \in Seq(Segments)
        /\ Len(grown) = IF at > Len(ring) THEN Len(ring) + 1 ELSE Len(ring)
        /\ \A i \in 1 .. Len(ring) : grown[i] = ring[i]
        /\ at > Len(ring) => grown[at] = EmptySegment
    BY <1>2, <1>3, <1>4, AppendProperties
  <1>6. at \in 1 .. Len(grown)
    BY <1>2, <1>3, <1>5
  <1>7. off \in 0 .. SegSize - 1 /\ grown[at].tail = off
    <2>1. CASE at = tail
      <3>1. ring[tail].tail \in 0 .. SegSize
        BY Zenon, <1>3, SegmentFields
      <3>2. off = ring[tail].tail /\ grown[at] = ring[tail]
        BY Zenon, <1>3, <1>5, <2>1
      <3>3. ring[tail].tail < SegSize
        BY <1>2, <1>3, <2>1
      <3> HIDE DEF grown, off
      <3> QED
        BY <3>1, <3>2, <3>3, SizesAssumption
    <2>2. CASE at = tail + 1
      <3>1. grown[at].tail = 0
        BY <1>3, <1>4, <1>5, <2>2 DEF QueueInv
      <3> QED
        BY <1>3, <2>2, <3>1, SizesAssumption
    <2> QED
      BY Zenon, <1>2, <2>1, <2>2
  <1> HIDE DEF grown, off
  <1>8. grown[at] \in Segments
    BY <1>5, <1>6
  <1>9. /\ put \in Segments /\ put.tail = off + 1 /\ put.items[off] = x /\ put.head = grown[at].head
        /\ \A o \in 0 .. SegSize - 1 : o # off => put.items[o] = grown[at].items[o]
    <2> DEFINE seg == grown[at]
    <2>1. /\ seg \in Segments /\ seg.tail = off /\ seg.head \in 0 .. SegSize
          /\ seg.items \in [0 .. SegSize - 1 -> Item \cup {Nil}]
      BY Zenon, <1>7, <1>8 DEF Segments
    <2> HIDE DEF seg
    <2>2. /\ Put(seg, x).items = [seg.items EXCEPT ![off] = x]
          /\ Put(seg, x).head = seg.head /\ Put(seg, x).tail = off + 1
      BY Zenon, <2>1 DEF Put, Segments
    <2> DEFINE its == [seg.items EXCEPT ![off] = x]
               one == [seg EXCEPT !.items = its]
    <2>3. its \in [0 .. SegSize - 1 -> Item \cup {Nil}] /\ off + 1 \in 0 .. SegSize
      BY <1>7, <2>1, SizesAssumption
    <2>4. Put(seg, x) = [one EXCEPT !.tail = off + 1]
      BY Zenon, <2>1 DEF Put, Segments
    <2> HIDE DEF its
    <2>5. one \in Segments
      BY Zenon, <2>1, <2>3 DEF Segments
    <2> HIDE DEF one
    <2>6. Put(seg, x) \in Segments
      BY Zenon, <2>3, <2>4, <2>5 DEF Segments
    <2> QED
      BY Zenon, <1>7, <2>1, <2>2, <2>6 DEF seg
  <1>10. /\ ring' \in Seq(Segments) /\ Len(ring') = Len(grown) /\ ring'[at] = put
         /\ \A i \in 1 .. Len(grown) : i # at => ring'[i] = grown[i]
    BY <1>1, <1>5, <1>6, <1>9, ExceptSeq
  <1> HIDE DEF put
  <1> SUFFICES /\ ring' \in Seq(Segments) /\ tail' = at /\ size' = size + 1
               /\ at \in 1 .. Len(ring')
               /\ Len(ring') = IF at > Len(ring) THEN Len(ring) + 1 ELSE Len(ring)
               /\ \A i \in 1 .. Len(ring) : i # at => ring'[i] = ring[i]
               /\ off \in 0 .. SegSize - 1
               /\ ring'[at].tail = off + 1
               /\ ring'[at].items[off] = x
               /\ at <= Len(ring) => /\ ring'[at].head = ring[at].head
                                     /\ \A o \in 0 .. SegSize - 1 :
                                           o # off => ring'[at].items[o] = ring[at].items[o]
               /\ at > Len(ring) => ring'[at].head = 0
    BY Zenon DEF at, off
  <1>11. \A i \in 1 .. Len(ring) : i # at => ring'[i] = ring[i]
    BY <1>3, <1>5, <1>10
  <1>12. at <= Len(ring) => grown[at] = ring[at]
    BY <1>3, <1>5, <1>6
  <1> QED
    BY Zenon, <1>1, <1>4, <1>5, <1>6, <1>7, <1>9, <1>10, <1>11, <1>12

\* The queue's items are a sequence.
LEMMA ContentsSeq ==
    ASSUME QueueInv
    PROVE  /\ Contents \in Seq(Item \cup {Nil}) /\ Len(Contents) = size
           /\ \A i \in 1 .. size : Contents[i] = ItemAt(ring[1].head + i - 1)
  <1>1. /\ ring \in Seq(Segments) /\ tail \in 1 .. Len(ring) /\ 1 \in 1 .. Len(ring)
        /\ size \in Nat /\ ring[1].head \in Nat
    BY SegmentFields, SizesAssumption DEF QueueInv, QueueTypes
  <1>2. ASSUME NEW i \in 1 .. size PROVE ItemAt(ring[1].head + i - 1) \in Item \cup {Nil}
    <2> DEFINE p == ring[1].head + i - 1
               k == (p \div SegSize) + 1
    <2>1. p \in Nat /\ p < ring[1].head + size
      BY <1>1
    <2> HIDE DEF p
    <2>2. k \in 1 .. tail /\ p % SegSize \in 0 .. SegSize - 1
      BY Zenon, <2>1, QueuedPositions
    <2>3. k \in 1 .. Len(ring)
      BY <1>1, <2>2
    <2>4. ring[k].items \in [0 .. SegSize - 1 -> Item \cup {Nil}]
      BY Zenon, <1>1, <2>3, SegmentFields
    <2>5. ItemAt(p) \in Item \cup {Nil}
      BY Zenon, <2>2, <2>4 DEF ItemAt
    <2> QED
      BY Zenon, <2>5 DEF p
  <1>3. Contents \in [1 .. size -> Item \cup {Nil}]
    BY Zenon, <1>2 DEF Contents
  <1>4. Contents \in Seq(Item \cup {Nil})
    BY <1>1, <1>3, SeqDef
  <1>5. Len(Contents) = size
    BY <1>1, <1>3, <1>4
  <1> QED
    BY Zenon, <1>4, <1>5 DEF Contents

\* Enqueue keeps the segments in order and appends its item.
LEMMA EnqueueKeepsQueueInv ==
    ASSUME QueueInv, NEW x \in Item, Enqueue(x)
    PROVE  QueueInv' /\ Contents' = Append(Contents, x)
  <1> DEFINE at == EnqueueAt
             off == IF at = tail THEN ring[tail].tail ELSE 0
             head == ring[1].head
  <1>1. /\ ring' \in Seq(Segments) /\ tail' = at /\ size' = size + 1
        /\ at \in 1 .. Len(ring')
        /\ Len(ring') = IF at > Len(ring) THEN Len(ring) + 1 ELSE Len(ring)
        /\ \A i \in 1 .. Len(ring) : i # at => ring'[i] = ring[i]
        /\ off \in 0 .. SegSize - 1
        /\ ring'[at].tail = off + 1
        /\ ring'[at].items[off] = x
        /\ at <= Len(ring) => /\ ring'[at].head = ring[at].head
                              /\ \A o \in 0 .. SegSize - 1 :
                                    o # off => ring'[at].items[o] = ring[at].items[o]
        /\ at > Len(ring) => ring'[at].head = 0
    BY Zenon, EnqueueRing
  <1>2. \/ ring[tail].tail < SegSize /\ at = tail /\ off = ring[tail].tail
        \/ ring[tail].tail = SegSize /\ at = tail + 1 /\ off = 0
    BY EnqueueAtTail DEF QueueInv, QueueTypes
  <1>3. /\ ring \in Seq(Segments) /\ tail \in 1 .. Len(ring) /\ size \in Nat /\ 1 \in 1 .. Len(ring)
        /\ Len(ring) \in Nat
    BY DEF QueueInv, QueueTypes
  <1>4. head \in 0 .. SegSize /\ ring[tail].tail \in 0 .. SegSize
    BY Zenon, <1>3, SegmentFields
  <1> HIDE DEF at, off
  <1>5. ring'[1].head = head
    BY <1>1, <1>2, <1>3
  <1>6. (at - 1) * SegSize + off = head + size
    <2>1. size = (tail - 1) * SegSize + ring[tail].tail - head
      BY Zenon DEF QueueInv
    <2>2. CASE at = tail + 1 /\ ring[tail].tail = SegSize /\ off = 0
      <3>1. (at - 1) * SegSize = (tail - 1) * SegSize + SegSize
        BY <1>3, <2>2, SizesAssumption
      <3>2. (tail - 1) * SegSize \in Nat
        BY <1>3, SizesAssumption
      <3> DEFINE before == (tail - 1) * SegSize
                 here == (at - 1) * SegSize
      <3>3. head \in Int /\ SegSize \in Int /\ size \in Int /\ before \in Int
        BY <1>3, <1>4, <3>2, SizesAssumption
      <3>4. here = before + SegSize /\ size = before + SegSize - head
        BY Zenon, <2>1, <2>2, <3>1
      <3> HIDE DEF before, here, head
      <3>5. here + 0 = head + size
        BY <3>3, <3>4
      <3> QED
        BY Zenon, <2>2, <3>5 DEF here, head
    <2>3. CASE at = tail /\ off = ring[tail].tail
      <3>2. (tail - 1) * SegSize \in Nat
        BY <1>3, SizesAssumption
      <3> QED
        BY <1>3, <1>4, <2>1, <2>3, <3>2, SizesAssumption
    <2> QED
      BY Zenon, <1>2, <2>2, <2>3
  <1>7. QueueInv'
    <2>1. QueueTypes'
      BY <1>1, <1>3 DEF QueueTypes
    <2> DEFINE Old(i) == ring'[i] = ring[i] /\ i \in 1 .. Len(ring)
    <2>a. \A i \in 1 .. Len(ring') : i = at \/ Old(i)
      BY <1>1, <1>3
    <2>b. ring'[at].tail = off + 1 /\ (at # 1 => ring'[at].head = 0)
      <3>1. at <= Len(ring) /\ at # 1 => at \in 1 .. Len(ring) /\ ring[at].head = 0
        <4>1. at <= Len(ring) => at \in 1 .. Len(ring)
          BY <1>1
        <4> QED
          BY Zenon, <4>1 DEF QueueInv
      <3>2. at <= Len(ring) \/ at > Len(ring)
        BY <1>1, <1>3
      <3> QED
        BY Zenon, <1>1, <3>1, <3>2
    <2>2. \A i \in 1 .. Len(ring') : i # 1 => ring'[i].head = 0
      BY Zenon, <2>a, <2>b DEF QueueInv
    <2>3. \A i \in 1 .. Len(ring') : i < tail' => ring'[i].tail = SegSize
      <3>1. ASSUME NEW i \in 1 .. Len(ring'), i < tail', i \in 1 .. Len(ring)
            PROVE  i # at /\ (i < tail \/ (i = tail /\ ring[tail].tail = SegSize))
        <4>1. at = tail \/ (at = tail + 1 /\ ring[tail].tail = SegSize)
          BY Zenon, <1>2
        <4>2. i \in Int /\ tail \in Int /\ at \in Int
          BY <1>1, <1>3, <3>1
        <4>3. i < at
          BY Zenon, <1>1, <3>1
        <4>4. i # at /\ (at = tail => i < tail) /\ (at = tail + 1 => i < tail \/ i = tail)
          BY <4>2, <4>3
        <4>5. CASE at = tail
          BY Zenon, <4>4, <4>5
        <4>6. CASE at = tail + 1 /\ ring[tail].tail = SegSize
          BY Zenon, <4>4, <4>6
        <4> QED
          BY Zenon, <4>1, <4>5, <4>6
      <3>2. \A i \in 1 .. Len(ring') : i < tail' => i # at
        BY <1>1
      <3> QED
        BY Zenon, <2>a, <3>1, <3>2 DEF QueueInv
    <2>4. \A i \in 1 .. Len(ring') : i > tail' => ring'[i].tail = 0
      <3>1. ASSUME NEW i \in 1 .. Len(ring'), i > tail', i \in 1 .. Len(ring)
            PROVE  i > tail
        <4>1. at = tail \/ at = tail + 1
          BY Zenon, <1>2
        <4>2. i \in Int /\ tail \in Int /\ at \in Int
          BY <1>1, <1>3, <3>1
        <4>3. i > at
          BY Zenon, <1>1, <3>1
        <4> QED
          BY <4>1, <4>2, <4>3
      <3>2. \A i \in 1 .. Len(ring') : i > tail' => i # at
        BY <1>1
      <3>3. \A i \in 1 .. Len(ring) : i > tail => ring[i].tail = 0
        BY Zenon DEF QueueInv
      <3> QED
        BY Zenon, <2>a, <3>1, <3>2, <3>3
    <2>5. ring'[tail'].tail # 0
      BY <1>1, SizesAssumption
    <2>6. ring'[1].head < ring'[1].tail
      <3>1. CASE at = 1
        BY <1>1, <1>2, <1>3, <1>4, <1>5, <3>1, SizesAssumption DEF QueueInv
      <3>2. CASE at # 1 /\ tail # 1
        BY Zenon, <1>1, <1>3, <1>5, <3>2 DEF QueueInv
      <3>3. CASE at # 1 /\ tail = 1
        BY Zenon, <1>1, <1>2, <1>3, <1>5, <3>3, SizesAssumption DEF QueueInv
      <3> QED
        BY Zenon, <3>1, <3>2, <3>3
    <2>7. size' = (tail' - 1) * SegSize + ring'[tail'].tail - ring'[1].head
      <3> DEFINE m == (at - 1) * SegSize
      <3>0. \A a, b \in Nat : a * b \in Nat
        OBVIOUS
      <3>1. m \in Nat /\ off \in Nat /\ head \in Nat
        <4>1. at \in 1 .. Len(ring') /\ off \in 0 .. SegSize - 1
          BY Zenon, <1>1
        <4>2. at - 1 \in Nat /\ SegSize \in Nat /\ off \in Nat
          BY <4>1, SizesAssumption
        <4>3. head \in Nat
          BY <1>4, SizesAssumption
        <4> QED
          BY Zenon, <3>0, <4>2, <4>3
      <3>2. m + off = head + size
        BY Zenon, <1>6
      <3> HIDE DEF m, head
      <3>3. size + 1 = m + (off + 1) - head
        BY <1>3, <3>1, <3>2
      <3> QED
        BY Zenon, <1>1, <1>5, <3>3 DEF m
    <2> QED
      BY Zenon, <2>1, <2>2, <2>3, <2>4, <2>5, <2>6, <2>7 DEF QueueInv
  <1> DEFINE After(i) == ring'[((head + i - 1) \div SegSize) + 1].items[(head + i - 1) % SegSize]
  <1>8. Contents' = [i \in 1 .. size + 1 |-> After(i)]
    BY Zenon, <1>1, <1>5 DEF Contents, ItemAt
  <1>9. /\ Contents \in Seq(Item \cup {Nil}) /\ Len(Contents) = size
        /\ \A i \in 1 .. size : Contents[i] = ItemAt(head + i - 1)
    BY Zenon, ContentsSeq
  <1>10. ASSUME NEW i \in 1 .. size PROVE After(i) = Contents[i]
    <2> DEFINE p == head + i - 1
               k == (p \div SegSize) + 1
               o == p % SegSize
    <2>1. p \in Nat /\ p < head + size
      BY <1>3, <1>4
    <2> HIDE DEF p
    <2>2. k \in 1 .. tail /\ o \in 0 .. SegSize - 1 /\ (k = tail => o < ring[tail].tail)
      BY Zenon, <2>1, QueuedPositions
    <2>3. k \in 1 .. Len(ring)
      BY <1>3, <2>2
    <2> HIDE DEF k, o
    <2>4. ring'[k].items[o] = ring[k].items[o]
      <3>1. CASE k = at
        <4>1. k # tail + 1 /\ k <= Len(ring)
          BY <1>3, <2>2, <2>3
        <4>2. at = tail /\ off = ring[tail].tail
          BY Zenon, <1>2, <3>1, <4>1
        <4>3. o # ring[tail].tail
          BY <1>4, <2>2, <3>1, <4>2
        <4> QED
          BY Zenon, <1>1, <2>2, <3>1, <4>1, <4>2, <4>3
      <3>2. CASE k # at
        BY Zenon, <1>1, <2>3, <3>2
      <3> QED
        BY Zenon, <3>1, <3>2
    <2>5. After(i) = ring'[k].items[o]
      BY Zenon DEF k, o, p
    <2>6. Contents[i] = ring[k].items[o]
      BY Zenon, <1>9 DEF ItemAt, k, o, p
    <2> QED
      BY Zenon, <2>4, <2>5, <2>6
  <1>11. After(size + 1) = x
    <2> DEFINE p == head + (size + 1) - 1
    <2>1. p = (at - 1) * SegSize + off
      BY <1>3, <1>4, <1>6
    <2>2. at - 1 \in Nat
      BY <1>1
    <2> HIDE DEF p
    <2>3. (p \div SegSize) = at - 1 /\ p % SegSize = off
      BY Zenon, <1>1, <2>1, <2>2, PositionOf
    <2>4. (p \div SegSize) + 1 = at
      BY <1>1, <2>3
    <2> QED
      BY Zenon, <1>1, <2>3, <2>4 DEF p
  <1> HIDE DEF After
  <1>12. Contents' = Append(Contents, x)
    <2> DEFINE X == Item \cup {Nil}
               old == Contents
               new == [i \in 1 .. size + 1 |-> After(i)]
    <2>1. old \in Seq(X) /\ Len(old) = size /\ x \in X
      BY Zenon, <1>9
    <2>2. \A i \in 1 .. size : After(i) \in X
      BY <1>9, <1>10
    <2>3. \A i \in 1 .. size + 1 : i \in 1 .. size \/ i = size + 1
      BY <1>3
    <2>4. new \in [1 .. size + 1 -> X]
      BY Zenon, <1>11, <2>1, <2>2, <2>3
    <2> HIDE DEF X, old, new
    <2>5. new \in Seq(X) /\ Len(new) = size + 1
      BY <1>3, <2>4, SeqDef
    <2>6. /\ Append(old, x) \in Seq(X) /\ Len(Append(old, x)) = size + 1
          /\ \A i \in 1 .. size : Append(old, x)[i] = old[i]
          /\ Append(old, x)[size + 1] = x
      BY <2>1, AppendProperties
    <2>7. \A i \in 1 .. size + 1 : new[i] = Append(old, x)[i]
      BY Zenon, <1>10, <1>11, <2>3, <2>6 DEF new, old
    <2>8. new = Append(old, x)
      BY Zenon, <2>5, <2>6, <2>7, SeqEqual
    <2> QED
      BY Zenon, <1>8, <2>8 DEF new, old
  <1> QED
    BY Zenon, <1>7, <1>12

\* q.head's segment after Dequeue.
LEMMA TakeFields ==
    ASSUME NEW seg \in Segments, seg.head < seg.tail
    PROVE  /\ Take(seg) \in Segments /\ Take(seg).head = seg.head + 1 /\ Take(seg).tail = seg.tail
           /\ \A o \in 0 .. SegSize - 1 : o # seg.head => Take(seg).items[o] = seg.items[o]
  <1> DEFINE its == [seg.items EXCEPT ![seg.head] = Nil]
             one == [seg EXCEPT !.items = its]
  <1>1. /\ seg.items \in [0 .. SegSize - 1 -> Item \cup {Nil}]
        /\ seg.head \in 0 .. SegSize /\ seg.tail \in 0 .. SegSize
    BY Zenon DEF Segments
  <1>2. seg.head \in 0 .. SegSize - 1 /\ seg.head + 1 \in 0 .. SegSize
    BY <1>1, SizesAssumption
  <1>3. Take(seg) = [one EXCEPT !.head = seg.head + 1]
    BY Zenon, <1>1 DEF Take, Segments
  <1>4. /\ its \in [0 .. SegSize - 1 -> Item \cup {Nil}]
        /\ \A o \in 0 .. SegSize - 1 : o # seg.head => its[o] = seg.items[o]
    BY Zenon, <1>1
  <1> HIDE DEF its
  <1>5. one \in Segments /\ one.items = its /\ one.tail = seg.tail
    BY Zenon, <1>4 DEF Segments
  <1> HIDE DEF one
  <1>6. Take(seg) \in Segments
    BY Zenon, <1>2, <1>3, <1>5 DEF Segments
  <1>7. Take(seg).head = seg.head + 1 /\ Take(seg).tail = seg.tail /\ Take(seg).items = its
    BY Zenon, <1>3, <1>5 DEF Segments
  <1> QED
    BY Zenon, <1>4, <1>6, <1>7

\* Its indices are reset when it is empty.
LEMMA ResetFields ==
    ASSUME NEW seg \in Segments
    PROVE  /\ seg.head # seg.tail => Reset(seg) = seg
           /\ seg.head = seg.tail => /\ Reset(seg) \in Segments /\ Reset(seg).items = seg.items
                                     /\ Reset(seg).head = 0 /\ Reset(seg).tail = 0
  <1> DEFINE one == [seg EXCEPT !.head = 0]
  <1>1. one \in Segments /\ one.head = 0 /\ one.items = seg.items
    BY SizesAssumption DEF Segments
  <1>2. seg.head = seg.tail => Reset(seg) = [one EXCEPT !.tail = 0]
    BY Zenon DEF Reset, Segments
  <1> HIDE DEF one
  <1>3. /\ [one EXCEPT !.tail = 0] \in Segments
        /\ [one EXCEPT !.tail = 0].head = 0 /\ [one EXCEPT !.tail = 0].tail = 0
        /\ [one EXCEPT !.tail = 0].items = one.items
    BY Zenon, <1>1, SizesAssumption DEF Segments
  <1> QED
    BY Zenon, <1>1, <1>2, <1>3 DEF Reset

\* An empty head segment is an empty queue, and nothing is returned.
LEMMA DequeueEmpty ==
    ASSUME QueueInv, ring[1].tail = 0
    PROVE  size = 0 /\ Contents = << >>
  <1>1. ring \in Seq(Segments) /\ 1 \in 1 .. Len(ring)
    BY DEF QueueInv, QueueTypes
  <1>2. ring[1].head \in 0 .. SegSize
    BY Zenon, <1>1, SegmentFields
  <1>3. ring[1].head = 0 /\ tail = 1
    BY <1>2, SizesAssumption DEF QueueInv
  <1>4. (tail - 1) * SegSize = 0
    BY <1>3, SizesAssumption
  <1>5. size = 0
    BY <1>3, <1>4 DEF QueueInv
  <1> QED
    BY <1>5, ContentsSeq

\* The ring after Dequeue of an item.  Only q.head's segment changes, and it
\* moves behind all others when it becomes empty and q.tail is elsewhere.
LEMMA DequeueRing ==
    ASSUME QueueInv, Dequeue, ring[1].tail # 0
    PROVE  LET seg == ring[1]
           IN  /\ ring' \in Seq(Segments) /\ Len(ring') = Len(ring)
               /\ out' = seg.items[seg.head] /\ size' = size - 1
               /\ \/ /\ seg.head + 1 < seg.tail /\ tail' = tail
                     /\ ring'[1].head = seg.head + 1 /\ ring'[1].tail = seg.tail
                     /\ \A o \in 0 .. SegSize - 1 :
                           o # seg.head => ring'[1].items[o] = seg.items[o]
                     /\ \A i \in 1 .. Len(ring) : i # 1 => ring'[i] = ring[i]
                  \/ /\ seg.head + 1 = seg.tail /\ tail = 1 /\ tail' = tail
                     /\ ring'[1].head = 0 /\ ring'[1].tail = 0
                     /\ \A i \in 1 .. Len(ring) : i # 1 => ring'[i] = ring[i]
                  \/ /\ seg.head + 1 = seg.tail /\ tail # 1 /\ tail' = tail - 1
                     /\ \A i \in 1 .. Len(ring) - 1 : ring'[i] = ring[i + 1]
                     /\ ring'[Len(ring)].head = 0 /\ ring'[Len(ring)].tail = 0
  <1> DEFINE seg == ring[1]
             rest == Take(seg)
             new == Reset(rest)
             left == [ring EXCEPT ![1] = new]
  <1>1. ring \in Seq(Segments) /\ tail \in 1 .. Len(ring) /\ 1 \in 1 .. Len(ring) /\ Len(ring) \in Nat
    BY DEF QueueInv, QueueTypes
  <1>2. seg \in Segments /\ seg.head \in 0 .. SegSize /\ seg.tail \in 0 .. SegSize
    BY Zenon, <1>1, SegmentFields
  <1>3. seg.head < seg.tail
    BY Zenon DEF QueueInv
  <1>4. /\ out' = seg.items[seg.head] /\ size' = size - 1
        /\ IF rest.head = rest.tail /\ tail # 1
           THEN ring' = Append(Tail(left), Head(left)) /\ tail' = tail - 1
           ELSE ring' = left /\ tail' = tail
    BY Zenon DEF Dequeue, IsEmpty, First, Advance
  <1> HIDE DEF seg
  <1>5. /\ rest \in Segments /\ rest.head = seg.head + 1 /\ rest.tail = seg.tail
        /\ \A o \in 0 .. SegSize - 1 : o # seg.head => rest.items[o] = seg.items[o]
    BY Zenon, <1>2, <1>3, TakeFields
  <1> HIDE DEF rest
  <1>6. /\ rest.head # rest.tail => new = rest
        /\ rest.head = rest.tail => new \in Segments /\ new.head = 0 /\ new.tail = 0
    BY Zenon, <1>5, ResetFields
  <1>7. new \in Segments
    BY Zenon, <1>5, <1>6
  <1> HIDE DEF new
  <1>8. /\ left \in Seq(Segments) /\ Len(left) = Len(ring) /\ left[1] = new
        /\ \A i \in 1 .. Len(ring) : i # 1 => left[i] = ring[i]
    BY <1>1, <1>7, ExceptSeq
  <1> HIDE DEF left
  <1> SUFFICES /\ ring' \in Seq(Segments) /\ Len(ring') = Len(ring)
               /\ \/ /\ seg.head + 1 < seg.tail /\ tail' = tail
                     /\ ring'[1].head = seg.head + 1 /\ ring'[1].tail = seg.tail
                     /\ \A o \in 0 .. SegSize - 1 :
                           o # seg.head => ring'[1].items[o] = seg.items[o]
                     /\ \A i \in 1 .. Len(ring) : i # 1 => ring'[i] = ring[i]
                  \/ /\ seg.head + 1 = seg.tail /\ tail = 1 /\ tail' = tail
                     /\ ring'[1].head = 0 /\ ring'[1].tail = 0
                     /\ \A i \in 1 .. Len(ring) : i # 1 => ring'[i] = ring[i]
                  \/ /\ seg.head + 1 = seg.tail /\ tail # 1 /\ tail' = tail - 1
                     /\ \A i \in 1 .. Len(ring) - 1 : ring'[i] = ring[i + 1]
                     /\ ring'[Len(ring)].head = 0 /\ ring'[Len(ring)].tail = 0
    BY Zenon, <1>4 DEF seg
  <1>9. CASE seg.head + 1 < seg.tail
    <2>1. ring' = left /\ tail' = tail /\ new = rest
      BY <1>2, <1>4, <1>5, <1>6, <1>9
    <2> QED
      BY Zenon, <1>5, <1>8, <1>9, <2>1
  <1>10. CASE seg.head + 1 = seg.tail /\ tail = 1
    <2>1. ring' = left /\ tail' = tail /\ new.head = 0 /\ new.tail = 0
      BY Zenon, <1>4, <1>5, <1>6, <1>10
    <2> QED
      BY Zenon, <1>8, <1>10, <2>1
  <1>11. CASE seg.head + 1 = seg.tail /\ tail # 1
    <2>1. /\ ring' = Append(Tail(left), Head(left)) /\ tail' = tail - 1
          /\ new.head = 0 /\ new.tail = 0
      BY Zenon, <1>4, <1>5, <1>6, <1>11
    <2>2. left # << >> /\ Head(left) = new
      BY <1>1, <1>8
    <2>3. /\ Tail(left) \in Seq(Segments) /\ Len(Tail(left)) = Len(ring) - 1
          /\ \A i \in 1 .. Len(ring) - 1 : Tail(left)[i] = left[i + 1]
      BY <1>1, <1>8, <2>2, HeadTailProperties
    <2> DEFINE t == Tail(left)
    <2> HIDE DEF t
    <2>4. /\ Append(t, new) \in Seq(Segments) /\ Len(Append(t, new)) = Len(ring)
          /\ Append(t, new)[Len(ring)] = new
          /\ \A i \in 1 .. Len(ring) - 1 : Append(t, new)[i] = left[i + 1]
      <3>1. t \in Seq(Segments) /\ Len(t) = Len(ring) - 1 /\ \A i \in 1 .. Len(t) : t[i] = left[i + 1]
        BY Zenon, <2>3 DEF t
      <3> QED
        BY <1>1, <1>7, <3>1, AppendProperties
    <2>5. \A i \in 1 .. Len(ring) - 1 : left[i + 1] = ring[i + 1]
      BY <1>1, <1>8
    <2>6. ring' = Append(t, new)
      BY Zenon, <2>1, <2>2 DEF t
    <2> QED
      BY Zenon, <1>11, <2>1, <2>4, <2>5, <2>6
  <1> QED
    BY <1>2, <1>3, <1>9, <1>10, <1>11

\* Dequeue keeps the segments in order and removes the oldest item.
LEMMA DequeueKeepsQueueInv ==
    ASSUME QueueInv, Dequeue, ring[1].tail # 0
    PROVE  QueueInv' /\ Contents # << >> /\ out' = Head(Contents) /\ Contents' = Tail(Contents)
  <1> DEFINE seg == ring[1]
             head == seg.head
             t == tail - 1
             m == t * SegSize
             n == ring[tail].tail
             A == /\ head + 1 < seg.tail /\ tail' = tail
                  /\ ring'[1].head = head + 1 /\ ring'[1].tail = seg.tail
                  /\ \A o \in 0 .. SegSize - 1 : o # head => ring'[1].items[o] = seg.items[o]
                  /\ \A i \in 1 .. Len(ring) : i # 1 => ring'[i] = ring[i]
             B == /\ head + 1 = seg.tail /\ tail = 1 /\ tail' = tail
                  /\ ring'[1].head = 0 /\ ring'[1].tail = 0
                  /\ \A i \in 1 .. Len(ring) : i # 1 => ring'[i] = ring[i]
             C == /\ head + 1 = seg.tail /\ tail # 1 /\ tail' = tail - 1
                  /\ \A i \in 1 .. Len(ring) - 1 : ring'[i] = ring[i + 1]
                  /\ ring'[Len(ring)].head = 0 /\ ring'[Len(ring)].tail = 0
  <1>1. /\ ring' \in Seq(Segments) /\ Len(ring') = Len(ring)
        /\ out' = seg.items[head] /\ size' = size - 1
        /\ A \/ B \/ C
    BY Zenon, DequeueRing
  <1>2. ring \in Seq(Segments) /\ tail \in 1 .. Len(ring) /\ 1 \in 1 .. Len(ring) /\ Len(ring) \in Nat
    BY DEF QueueInv, QueueTypes
  <1>3. head \in 0 .. SegSize /\ seg.tail \in 0 .. SegSize /\ n \in 0 .. SegSize /\ size \in Nat
    BY Zenon, <1>2, SegmentFields DEF QueueInv, QueueTypes
  <1>4. head < seg.tail /\ head \in 0 .. SegSize - 1
    <2>1. head < seg.tail
      BY Zenon DEF QueueInv
    <2> QED
      BY <1>3, <2>1, SizesAssumption
  <1>5. m \in Nat /\ t \in Nat /\ size = m + n - head
    BY <1>2, SizesAssumption DEF QueueInv
  <1>6. tail = 1 => n = seg.tail /\ m = 0
    BY SizesAssumption
  <1>7. tail # 1 => seg.tail = SegSize /\ n # 0 /\ m >= SegSize
    <2>1. tail # 1 => seg.tail = SegSize /\ n # 0
      BY <1>2 DEF QueueInv
    <2>2. tail # 1 => t >= 1
      BY <1>2
    <2>3. t >= 1 => t * SegSize >= SegSize
      BY <1>5, SizesAssumption
    <2> QED
      BY Zenon, <2>1, <2>2, <2>3
  <1>8. size >= 1
    BY <1>3, <1>4, <1>5, <1>6, <1>7, SizesAssumption
  <1>9. QueueInv'
    <2>1. QueueTypes'
      BY <1>1, <1>2, <1>3, <1>8 DEF QueueTypes
    <2>2. \A i \in 1 .. Len(ring') : i # 1 => ring'[i].head = 0
      <3>1. CASE A \/ B
        BY Zenon, <1>1, <3>1 DEF QueueInv
      <3>2. CASE C
        <4>1. \A i \in 1 .. Len(ring) :
                 i = Len(ring) \/ (i \in 1 .. Len(ring) - 1 /\ i + 1 \in 1 .. Len(ring) /\ i + 1 # 1)
          BY <1>2
        <4>2. ASSUME NEW i \in 1 .. Len(ring), i # Len(ring) PROVE ring'[i].head = 0
          <5>1. ring'[i] = ring[i + 1]
            BY Zenon, <3>2, <4>1, <4>2
          <5> QED
            BY Zenon, <4>1, <4>2, <5>1 DEF QueueInv
        <4> QED
          BY Zenon, <1>1, <3>2, <4>2
      <3> QED
        BY Zenon, <1>1, <3>1, <3>2
    <2>3. \A i \in 1 .. Len(ring') : i < tail' => ring'[i].tail = SegSize
      <3>1. CASE A \/ B
        <4>1. tail' = tail /\ \A i \in 1 .. Len(ring) : i # 1 => ring'[i] = ring[i]
          BY Zenon, <3>1
        <4>2. 1 < tail => ring'[1].tail = SegSize
          <5>1. tail # 1 => ring[1].tail = SegSize
            <6>1. tail # 1 => 1 < tail
              BY <1>2
            <6> QED
              BY Zenon, <1>2, <6>1 DEF QueueInv
          <5>2. 1 < tail => tail # 1
            BY <1>2
          <5> QED
            BY Zenon, <3>1, <5>1, <5>2
        <4>3. \A i \in 1 .. Len(ring) : i < tail => ring[i].tail = SegSize
          BY Zenon DEF QueueInv
        <4> QED
          BY Zenon, <1>1, <4>1, <4>2, <4>3
      <3>2. CASE C
        <4>1. ASSUME NEW i \in 1 .. Len(ring), i < tail - 1
              PROVE  i + 1 \in 1 .. Len(ring) /\ i + 1 < tail /\ i \in 1 .. Len(ring) - 1
          BY <1>2, <4>1
        <4>2. ASSUME NEW i \in 1 .. Len(ring), i < tail - 1 PROVE ring'[i].tail = SegSize
          <5>1. ring'[i] = ring[i + 1]
            BY Zenon, <3>2, <4>1, <4>2
          <5> QED
            BY Zenon, <4>1, <4>2, <5>1 DEF QueueInv
        <4> QED
          BY Zenon, <1>1, <3>2, <4>2
      <3> QED
        BY Zenon, <1>1, <3>1, <3>2
    <2>4. \A i \in 1 .. Len(ring') : i > tail' => ring'[i].tail = 0
      <3>1. CASE A \/ B
        <4>1. \A i \in 1 .. Len(ring) : i > tail => i # 1
          BY <1>2
        <4>2. tail' = tail /\ \A i \in 1 .. Len(ring) : i # 1 => ring'[i] = ring[i]
          BY Zenon, <3>1
        <4>3. \A i \in 1 .. Len(ring) : i > tail => ring[i].tail = 0
          BY Zenon DEF QueueInv
        <4> QED
          BY Zenon, <1>1, <4>1, <4>2, <4>3
      <3>2. CASE C
        <4>1. \A i \in 1 .. Len(ring) : i > tail - 1 =>
                 i = Len(ring) \/ (i \in 1 .. Len(ring) - 1 /\ i + 1 \in 1 .. Len(ring) /\ i + 1 > tail)
          BY <1>2
        <4>2. ASSUME NEW i \in 1 .. Len(ring), i > tail - 1, i # Len(ring) PROVE ring'[i].tail = 0
          <5>1. ring'[i] = ring[i + 1]
            BY Zenon, <3>2, <4>1, <4>2
          <5> QED
            BY Zenon, <4>1, <4>2, <5>1 DEF QueueInv
        <4> QED
          BY Zenon, <1>1, <3>2, <4>2
      <3> QED
        BY Zenon, <1>1, <3>1, <3>2
    <2>5. tail' # 1 => ring'[tail'].tail # 0
      BY <1>1, <1>2 DEF QueueInv
    <2>6. \/ ring'[1].head < ring'[1].tail
          \/ ring'[1].head = 0 /\ ring'[1].tail = 0 /\ tail' = 1
      <3>1. CASE A
        BY Zenon, <1>1, <3>1
      <3>2. CASE B
        BY Zenon, <1>1, <3>2
      <3>3. CASE C
        <4>1. ring'[1] = ring[2] /\ 2 \in 1 .. Len(ring)
          BY <1>2, <3>3
        <4>2. ring[2].head = 0 /\ ring[2].tail \in 0 .. SegSize
          BY <1>2, <4>1, SegmentFields DEF QueueInv
        <4>3. ring[2].tail # 0
          <5>1. CASE tail = 2
            BY Zenon, <1>7, <3>3, <5>1
          <5>2. CASE tail # 2
            <6>1. 2 < tail
              BY <1>2, <3>3, <5>2
            <6> QED
              BY Zenon, <4>1, <6>1, SizesAssumption DEF QueueInv
          <5> QED
            BY Zenon, <5>1, <5>2
        <4> QED
          BY <4>1, <4>2, <4>3, SizesAssumption
      <3> QED
        BY Zenon, <1>1, <3>1, <3>2, <3>3
    <2>7. size' = (tail' - 1) * SegSize + ring'[tail'].tail - ring'[1].head
      <3>1. CASE A
        <4>1. ring'[tail'].tail = n /\ (tail' - 1) * SegSize = m /\ ring'[1].head = head + 1
          BY Zenon, <1>2, <1>6, <3>1
        <4> HIDE DEF m, n, head
        <4> QED
          BY <1>1, <1>3, <1>5, <4>1
      <3>2. CASE B
        <4>1. ring'[tail'].tail = 0 /\ (tail' - 1) * SegSize = 0 /\ ring'[1].head = 0
          BY Zenon, <1>2, <1>6, <3>2, SizesAssumption
        <4>2. size = 1
          BY <1>3, <1>5, <1>6, <3>2
        <4> QED
          BY <1>1, <4>1, <4>2
      <3>3. CASE C
        <4>1. tail - 1 \in 1 .. Len(ring) - 1
          BY <1>2, <3>3
        <4>2. ring'[tail'] = ring[tail] /\ ring'[1] = ring[2]
          BY <1>2, <3>3, <4>1
        <4>3. ring'[tail'].tail = n /\ ring'[1].head = 0
          BY <1>2, <4>1, <4>2 DEF QueueInv
        <4>4. (tail' - 1) * SegSize = m - SegSize
          <5>1. tail' - 1 = t - 1
            BY Zenon, <3>3
          <5>2. (t - 1) * SegSize = t * SegSize - SegSize
            BY <1>5, SizesAssumption
          <5> QED
            BY Zenon, <5>1, <5>2
        <4>5. head + 1 = SegSize
          BY Zenon, <1>7, <3>3
        <4>6. size - 1 = (m - SegSize) + n - 0
          <5> HIDE DEF m, n, head
          <5> QED
            BY <1>3, <1>5, <4>5, SizesAssumption
        <4> QED
          BY Zenon, <1>1, <4>3, <4>4, <4>6
      <3> QED
        BY Zenon, <1>1, <3>1, <3>2, <3>3
    <2> QED
      BY Zenon, <2>1, <2>2, <2>3, <2>4, <2>5, <2>6, <2>7 DEF QueueInv
  <1>10. /\ Contents \in Seq(Item \cup {Nil}) /\ Len(Contents) = size
         /\ \A i \in 1 .. size : Contents[i] = ItemAt(head + i - 1)
    BY Zenon, ContentsSeq
  <1>11. Contents # << >> /\ out' = Head(Contents)
    <2>1. Contents # << >> /\ Head(Contents) = Contents[1]
      BY <1>8, <1>10
    <2>2. Contents[1] = ItemAt(head)
      BY <1>3, <1>8, <1>10
    <2>3. head \div SegSize = 0 /\ head % SegSize = head
      BY <1>4, SizesAssumption
    <2> QED
      BY <1>1, <2>1, <2>2, <2>3 DEF ItemAt
  <1> DEFINE After(i) == ring'[((ring'[1].head + i - 1) \div SegSize) + 1].items[(ring'[1].head + i - 1) % SegSize]
  <1>12. Contents' = [i \in 1 .. size - 1 |-> After(i)]
    BY Zenon, <1>1 DEF Contents, ItemAt
  <1>13. ASSUME NEW i \in 1 .. size - 1 PROVE After(i) = Contents[i + 1]
    <2> DEFINE p == head + i
               k == (p \div SegSize) + 1
               o == p % SegSize
    <2>1. p \in Nat /\ p < head + size /\ i + 1 \in 1 .. size /\ head + (i + 1) - 1 = p
      BY <1>3
    <2> HIDE DEF p
    <2>2. k \in 1 .. tail /\ o \in 0 .. SegSize - 1
      BY Zenon, <2>1, QueuedPositions
    <2>3. k \in 1 .. Len(ring)
      BY <1>2, <2>2
    <2>4. Contents[i + 1] = ring[k].items[o]
      <3>1. Contents[i + 1] = ItemAt(p)
        BY Zenon, <1>10, <2>1
      <3> QED
        BY Zenon, <3>1 DEF ItemAt
    <2>5. CASE A
      <3>1. ring'[1].head + i - 1 = p
        BY <1>3, <2>5 DEF p
      <3>2. After(i) = ring'[k].items[o]
        BY Zenon, <3>1
      <3>3. k = 1 => o # head
        <4>1. p = (k - 1) * SegSize + o
          BY <2>1, PositionSplit
        <4>2. p > head
          BY <1>3 DEF p
        <4> HIDE DEF k, o
        <4>3. k = 1 => p = o
          BY <2>2, <4>1, SizesAssumption
        <4> QED
          BY <1>3, <2>2, <4>2, <4>3
      <3> HIDE DEF k, o
      <3>4. ring'[k].items[o] = ring[k].items[o]
        BY Zenon, <2>2, <2>3, <2>5, <3>3
      <3> QED
        BY Zenon, <2>4, <3>2, <3>4
    <2>6. CASE B
      <3>1. size = 1
        BY <1>3, <1>5, <1>6, <2>6
      <3> QED
        BY <3>1
    <2>7. CASE C
      <3> DEFINE r == i - 1
      <3>1. ring'[1].head = 0
        <4>1. ring'[1] = ring[2] /\ 2 \in 1 .. Len(ring)
          BY <1>2, <2>7
        <4> QED
          BY <4>1 DEF QueueInv
      <3>2. ring'[1].head + i - 1 = r /\ r \in Nat /\ p = r + SegSize
        <4>1. head + 1 = SegSize
          BY Zenon, <1>7, <2>7
        <4> QED
          BY <1>3, <3>1, <4>1, SizesAssumption DEF p
      <3> HIDE DEF r
      <3>3. p \div SegSize = (r \div SegSize) + 1 /\ o = r % SegSize /\ r \div SegSize \in Nat
        BY Zenon, <3>2, NextPosition, PositionSplit
      <3>4. k - 1 = (r \div SegSize) + 1 /\ k - 1 \in 1 .. Len(ring) - 1
        BY <1>2, <2>3, <3>3
      <3>5. After(i) = ring'[k - 1].items[o]
        BY Zenon, <3>2, <3>3, <3>4
      <3> HIDE DEF k, o
      <3>6. ring'[k - 1] = ring[k]
        BY <2>3, <2>7, <3>4
      <3> QED
        BY Zenon, <2>4, <3>5, <3>6
    <2> QED
      BY Zenon, <1>1, <2>5, <2>6, <2>7
  <1> HIDE DEF After
  <1>14. Contents' = Tail(Contents)
    <2> DEFINE X == Item \cup {Nil}
               old == Contents
               new == [i \in 1 .. size - 1 |-> After(i)]
    <2>1. old \in Seq(X) /\ Len(old) = size /\ old # << >>
      BY Zenon, <1>10, <1>11
    <2>2. \A i \in 1 .. size - 1 : After(i) = old[i + 1]
      BY Zenon, <1>13
    <2> HIDE DEF old, X
    <2>3. /\ Tail(old) \in Seq(X) /\ Len(Tail(old)) = size - 1
          /\ \A i \in 1 .. size - 1 : Tail(old)[i] = old[i + 1]
      BY Zenon, <2>1, HeadTailProperties
    <2>4. size - 1 \in Nat
      BY <1>3, <1>8
    <2>5. \A i \in 1 .. size - 1 : After(i) \in X
      <3>1. \A i \in 1 .. size - 1 : i + 1 \in 1 .. size
        BY <1>3
      <3> QED
        BY Zenon, <2>1, <2>2, <3>1, ElementOfSeq
    <2>6. new \in [1 .. size - 1 -> X]
      BY Zenon, <2>5
    <2>7. new \in Seq(X)
      BY ZenonT(30), <2>4, <2>6, SeqDef
    <2>8. Len(new) = size - 1
      BY <2>4, <2>6, <2>7
    <2>9. \A i \in 1 .. size - 1 : new[i] = Tail(old)[i]
      BY Zenon, <2>2, <2>3
    <2> HIDE DEF new
    <2>10. new = Tail(old)
      BY Zenon, <2>3, <2>7, <2>8, <2>9, SeqEqual
    <2> QED
      BY Zenon, <1>12, <2>10 DEF new, old
  <1> QED
    BY Zenon, <1>9, <1>11, <1>14

\* A step of Queue is a step of the FIFO.
LEMMA QueueStep ==
    ASSUME QueueInv, Dequeue \/ \E x \in Item : Enqueue(x)
    PROVE  QueueInv' /\ F!Next
  <1>1. ASSUME NEW x \in Item, Enqueue(x) PROVE QueueInv' /\ F!Enqueue(x)
    <2>1. out' = out
      BY Zenon, <1>1 DEF Enqueue
    <2> QED
      BY Zenon, <1>1, <2>1, EnqueueKeepsQueueInv DEF F!Enqueue
  <1>2. CASE Dequeue /\ ring[1].tail = 0
    <2>1. out' = Nil /\ ring' = ring /\ tail' = tail /\ size' = size
      BY Zenon, <1>2 DEF Dequeue, IsEmpty
    <2>2. QueueInv' /\ Contents' = Contents
      BY Zenon, <2>1 DEF QueueInv, QueueTypes, Contents, ItemAt
    <2>3. Contents = << >>
      BY Zenon, <1>2, DequeueEmpty
    <2> QED
      BY Zenon, <2>1, <2>2, <2>3 DEF F!Next, F!Dequeue
  <1>3. CASE Dequeue /\ ring[1].tail # 0
    BY Zenon, <1>3, DequeueKeepsQueueInv DEF F!Next, F!Dequeue
  <1> QED
    BY Zenon, <1>1, <1>2, <1>3 DEF F!Next

\* The queue changes only by a goroutine's Enqueue or Dequeue.
LEMMA HolderStep ==
    ASSUME [HNext]_hvars
    PROVE  UNCHANGED qvars \/ Dequeue \/ \E x \in Item : Enqueue(x)
  BY Zenon DEF HNext, hvars, qvars, Produce, Consume, Poll, Observe, Acquire, Wait, Use, Release,
         LenTake, LenReturn

\* Every step of every goroutine keeps the invariant and is a step of Fifo or none.
LEMMA HolderKeepsQueueInv == QueueInv /\ [HNext]_hvars => QueueInv' /\ [F!Next]_<<Contents, out>>
  <1> SUFFICES ASSUME QueueInv, [HNext]_hvars
               PROVE  QueueInv' /\ [F!Next]_<<Contents, out>>
    BY Zenon
  <1>1. CASE UNCHANGED qvars
    BY Zenon, <1>1 DEF qvars, QueueInv, QueueTypes, Contents, ItemAt
  <1>2. CASE Dequeue \/ \E x \in Item : Enqueue(x)
    BY Zenon, <1>2, QueueStep
  <1> QED
    BY Zenon, <1>1, <1>2, HolderStep

\* New is one empty segment, and an empty FIFO.
LEMMA NewQueue == HInit => QueueInv /\ F!Init
  <1> SUFFICES ASSUME HInit PROVE QueueInv /\ F!Init
    BY Zenon
  <1>1. ring = <<EmptySegment>> /\ tail = 1 /\ size = 0 /\ out = Nil
    BY Zenon DEF HInit, New
  <1>2. EmptySegment \in Segments /\ EmptySegment.tail = 0 /\ EmptySegment.head = 0
    BY SizesAssumption DEF EmptySegment, Segments
  <1>3. ring \in Seq(Segments) /\ Len(ring) = 1 /\ ring[1] = EmptySegment
    BY <1>1, <1>2
  <1>4. (tail - 1) * SegSize = 0
    BY <1>1, SizesAssumption
  <1>5. QueueInv
    BY <1>1, <1>2, <1>3, <1>4, SizesAssumption DEF QueueInv, QueueTypes
  <1>6. Contents = << >>
    BY <1>1, <1>5, ContentsSeq
  <1> QED
    BY Zenon, <1>1, <1>5, <1>6 DEF F!Init

\* The invariant of the segments holds throughout.
LEMMA AlwaysQueueInv == HSpec => []QueueInv
  BY NewQueue, HolderKeepsQueueInv, PTL DEF HSpec

\* For segments of any size and any goroutines, Queue is a FIFO: no item lost,
\* doubled or overtaken where one segment ends and the next begins (queue.go,
\* Enqueue and Dequeue).
THEOREM QueueImplementsFifo == HSpec => ImplementsFifo
  BY NewQueue, HolderKeepsQueueInv, AlwaysQueueInv, PTL DEF HSpec, ImplementsFifo, F!Spec

\* A segment is linked in only when all others are in use (queue.go, Enqueue).
THEOREM QueueGrowsOnlyWhenFull == HSpec => GrowsOnlyWhenFull
  <1> DEFINE Grows == Len(ring') > Len(ring) => size >= (Len(ring) - 1) * SegSize + 1
  <1>1. QueueInv /\ [HNext]_hvars => [Grows]_qvars
    <2> SUFFICES ASSUME QueueInv, [HNext]_hvars, Len(ring') > Len(ring)
                 PROVE  size >= (Len(ring) - 1) * SegSize + 1
      BY Zenon
    <2>1. ring \in Seq(Segments) /\ tail \in 1 .. Len(ring) /\ 1 \in 1 .. Len(ring) /\ Len(ring) \in Nat
      BY DEF QueueInv, QueueTypes
    <2>2. PICK x \in Item : Enqueue(x)
      <3>1. ~UNCHANGED qvars
        BY <2>1 DEF qvars
      <3>2. ~Dequeue
        <4>1. CASE ring[1].tail = 0
          BY <2>1, <4>1 DEF Dequeue, IsEmpty
        <4>2. CASE ring[1].tail # 0
          <5>1. Dequeue => Len(ring') = Len(ring)
            BY Zenon, <4>2, DequeueRing
          <5> QED
            BY <2>1, <5>1
        <4> QED
          BY Zenon, <4>1, <4>2
      <3> QED
        BY Zenon, <3>1, <3>2, HolderStep
    <2>3. EnqueueAt > Len(ring)
      <3>1. Len(ring') = IF EnqueueAt > Len(ring) THEN Len(ring) + 1 ELSE Len(ring)
        BY Zenon, <2>2, EnqueueRing
      <3> QED
        BY <2>1, <3>1
    <2>4. tail = Len(ring) /\ ring[tail].tail = SegSize
      BY <2>1, <2>3, EnqueueAtTail
    <2>5. ring[1].head \in 0 .. SegSize /\ ring[1].tail \in 0 .. SegSize
      BY Zenon, <2>1, SegmentFields
    <2>6. ring[1].head < SegSize
      BY <2>5, SizesAssumption DEF QueueInv
    <2> DEFINE m == (Len(ring) - 1) * SegSize
    <2>7. m \in Nat
      BY <2>1, SizesAssumption
    <2>8. size = m + SegSize - ring[1].head
      BY Zenon, <2>4 DEF QueueInv
    <2> HIDE DEF m
    <2>9. size >= m + 1
      BY <2>5, <2>6, <2>7, <2>8, SizesAssumption
    <2> QED
      BY Zenon, <2>9 DEF m
  <1> QED
    BY <1>1, AlwaysQueueInv, PTL DEF HSpec, GrowsOnlyWhenFull
=============================================================================
