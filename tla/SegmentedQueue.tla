--------------------------- MODULE SegmentedQueue ---------------------------
(***************************************************************************)
(* internal/queue.Queue: a FIFO made of fixed-size segments linked in a    *)
(* container/ring.  Only positions relative to q.head matter, so the ring   *)
(* is the sequence of its segments starting at q.head: ring[1] is q.head,   *)
(* ring[tail] is q.tail, and advancing q.head rotates the sequence.         *)
(***************************************************************************)
EXTENDS Integers, Sequences

CONSTANTS Item, Nil,
          SegSize,   \* capacity of a segment: the session window in the code
          MaxLen     \* bound on the queue's length (the code has none)

ASSUME SizesAssumption == SegSize \in Nat \ {0} /\ MaxLen \in Nat /\ Nil \notin Item

VARIABLES ring,      \* the segments, from q.head
          tail,      \* position of q.tail in ring
          size,      \* q.size
          out        \* what the last Dequeue returned

qvars == <<ring, tail, size, out>>

\* segment[T] with its head and tail indices, as zero-based as in the code.
EmptySegment == [items |-> [i \in 0 .. SegSize - 1 |-> Nil], head |-> 0, tail |-> 0]

New == ring = <<EmptySegment>> /\ tail = 1 /\ size = 0 /\ out = Nil

\* seg.items[seg.tail] = &item; seg.tail++
Put(seg, x) == [seg EXCEPT !.items[seg.tail] = x, !.tail = @ + 1]

\* Positions from q.tail up to q.head whose segment has room.
Room == {i \in tail .. Len(ring) : ring[i].tail < SegSize}

\* Mutant of EnqueueAt: recycled segments are never reused.
EnqueueAtAlwaysGrow == IF ring[tail].tail < SegSize THEN tail ELSE Len(ring) + 1

(***************************************************************************)
(* The loop of Enqueue: from q.tail on it advances over full segments; if   *)
(* the next one would be q.head, a new segment is linked in before it.      *)
(***************************************************************************)
EnqueueAt ==
    IF Room = {} THEN Len(ring) + 1 ELSE CHOOSE i \in Room : \A j \in Room : i <= j

Enqueue(x) ==
    LET at == EnqueueAt
        grown == IF at > Len(ring) THEN Append(ring, EmptySegment) ELSE ring
    IN  /\ size < MaxLen
        /\ ring' = [grown EXCEPT ![at] = Put(@, x)]
        /\ tail' = at
        /\ size' = size + 1
        /\ UNCHANGED out

\* r.Next() becomes q.head: the old head is now the last segment before it.
Advance(r) == Append(Tail(r), Head(r))

\* Mutant of First: the newest item of the segment.
Newest(seg) == seg.items[seg.tail - 1]

\* item := seg.items[seg.head]
First(seg) == seg.items[seg.head]

\* seg.items[seg.head] = nil; seg.head++
Take(seg) == [seg EXCEPT !.items[seg.head] = Nil, !.head = @ + 1]

\* "segment is now empty, reset indices"
Reset(seg) == IF seg.head = seg.tail THEN [seg EXCEPT !.head = 0, !.tail = 0] ELSE seg

\* "queue is empty"
IsEmpty(seg) == seg.tail = 0

Dequeue ==
    LET seg == ring[1]
        rest == Take(seg)
        left == [ring EXCEPT ![1] = Reset(rest)]
    IN  \/ /\ IsEmpty(seg)
           /\ out' = Nil
           /\ UNCHANGED <<ring, tail, size>>
        \/ /\ ~IsEmpty(seg)
           /\ out' = First(seg)
           /\ size' = size - 1
           /\ IF rest.head = rest.tail /\ tail # 1
              THEN ring' = Advance(left) /\ tail' = tail - 1
              ELSE ring' = left /\ UNCHANGED tail

-----------------------------------------------------------------------------
\* The items in order: positions count on from segment to segment, and those of
\* the queue follow q.head's index.
ItemAt(p) == ring[(p \div SegSize) + 1].items[p % SegSize]
Contents == [i \in 1 .. size |-> ItemAt(ring[1].head + i - 1)]

(***************************************************************************)
(* Enqueue links a new segment in only when every segment is in use: all    *)
(* but the one at q.head are full and that one is not empty.  (Otherwise    *)
(* the ring of a long-lived link would keep growing.)                       *)
(***************************************************************************)
GrowsOnlyWhenFull ==
    [][Len(ring') > Len(ring) => size >= (Len(ring) - 1) * SegSize + 1]_qvars

(***************************************************************************)
(* The segmented queue implements a FIFO: same items, same order, nothing   *)
(* lost, duplicated or returned twice, whatever the segment boundaries.     *)
(***************************************************************************)
F == INSTANCE Fifo WITH q <- Contents
ImplementsFifo == F!Spec
=============================================================================
