------------------------------- MODULE Holder -------------------------------
(***************************************************************************)
(* internal/queue.Holder: synchronised access to a Queue.  The *Queue       *)
(* pointer is a token that sits in one of two channels of capacity one,     *)
(* `empty` or `populated`, or is held by the goroutine that received it.    *)
(* The goroutines are the users the client has: producers (connReader,      *)
(* Session.muxFrameToLink, Receiver.muxReceive), waiters (the muxes,        *)
(* waitForFrame, Receive), pollers (Prefetched) and observers (Len).        *)
(***************************************************************************)
EXTENDS SegmentedQueue

CONSTANTS Producers, Waiters, Pollers, Observers

ASSUME GoroutinesAssumption ==
    /\ Producers \cap Waiters = {}
    /\ (Producers \cup Waiters) \cap (Pollers \cup Observers) = {}
    /\ Pollers \cap Observers = {}

VARIABLES empty,      \* the token is in channel h.empty
          populated,  \* the token is in channel h.populated
          pc          \* what each goroutine does with the token

Goroutines == Producers \cup Waiters \cup Pollers \cup Observers
hvars == <<ring, tail, size, out, empty, populated, pc>>

\* NewHolder releases an empty queue into the holder.
HInit ==
    /\ New
    /\ empty = TRUE /\ populated = FALSE
    /\ pc = [g \in Goroutines |-> "idle"]

Goto(g, to) == pc' = [pc EXCEPT ![g] = to]

\* <-h.empty and <-h.populated
FromEmpty == empty /\ empty' = FALSE /\ UNCHANGED populated
FromPopulated == populated /\ populated' = FALSE /\ UNCHANGED empty

\* h.empty <- q and h.populated <- q; each blocks while the channel is full.
ToEmpty == ~empty /\ empty' = TRUE /\ UNCHANGED populated
ToPopulated == ~populated /\ populated' = TRUE /\ UNCHANGED empty

\* Mutant of Acquire: the populated queue is looked at but left in its channel.
AcquireWithoutTaking(g) ==
    /\ pc[g] = "idle"
    /\ FromEmpty \/ (populated /\ UNCHANGED <<empty, populated>>)
    /\ Goto(g, "held")
    /\ UNCHANGED qvars

\* Acquire: select on both channels.
Acquire(g) ==
    /\ pc[g] = "idle"
    /\ FromEmpty \/ FromPopulated
    /\ Goto(g, "held")
    /\ UNCHANGED qvars

\* case q := <-h.Wait()
Wait(g) ==
    /\ pc[g] = "idle"
    /\ FromPopulated
    /\ Goto(g, "held")
    /\ UNCHANGED qvars

\* The holder of the token works on the queue.
Use(g, Operation) ==
    /\ pc[g] = "held"
    /\ Operation
    /\ Goto(g, "used")
    /\ UNCHANGED <<empty, populated>>

\* Mutants of Release: always to the one channel, or always to the other.
ReleaseToPopulated(g) == pc[g] = "used" /\ ToPopulated /\ Goto(g, "idle") /\ UNCHANGED qvars
ReleaseToEmpty(g) == pc[g] = "used" /\ ToEmpty /\ Goto(g, "idle") /\ UNCHANGED qvars

\* Release: the channel depends on q.Len().
Release(g) ==
    /\ pc[g] = "used"
    /\ IF size = 0 THEN ToEmpty ELSE ToPopulated
    /\ Goto(g, "idle")
    /\ UNCHANGED qvars

\* Holder.Len: takes the token from a channel and puts it back into that channel.
LenTake(g) ==
    /\ pc[g] = "idle"
    /\ \/ FromEmpty /\ Goto(g, "lenEmpty")
       \/ FromPopulated /\ Goto(g, "lenPopulated")
    /\ UNCHANGED qvars

LenReturn(g) ==
    /\ \/ pc[g] = "lenEmpty" /\ ToEmpty
       \/ pc[g] = "lenPopulated" /\ ToPopulated
    /\ Goto(g, "idle")
    /\ UNCHANGED qvars

\* size < MaxLen bounds the model: a producer of the code is never refused.
Produce(g) ==
    \/ size < MaxLen /\ Acquire(g)
    \/ \E x \in Item : Use(g, Enqueue(x))
    \/ Release(g)
Consume(g) == Wait(g) \/ Use(g, Dequeue) \/ Release(g)
Poll(g) == Acquire(g) \/ Use(g, Dequeue) \/ Release(g)
Observe(g) == LenTake(g) \/ LenReturn(g)

HNext ==
    \/ \E g \in Producers : Produce(g)
    \/ \E g \in Waiters : Consume(g)
    \/ \E g \in Pollers : Poll(g)
    \/ \E g \in Observers : Observe(g)

(***************************************************************************)
(* Fairness: whoever holds the token goes on to return it, and goroutines   *)
(* blocked on a Go channel are served in order, so a waiter that stays in   *)
(* Wait is not overtaken for ever.  Producers and pollers need not come.    *)
(***************************************************************************)
HFairness ==
    /\ \A g \in Producers : WF_hvars((\E x \in Item : Use(g, Enqueue(x))) \/ Release(g))
    /\ \A g \in Waiters : SF_hvars(Wait(g)) /\ WF_hvars(Use(g, Dequeue) \/ Release(g))
    /\ \A g \in Pollers : WF_hvars(Use(g, Dequeue) \/ Release(g))
    /\ \A g \in Observers : WF_hvars(LenReturn(g))

HSpec == HInit /\ [][HNext]_hvars /\ HFairness

-----------------------------------------------------------------------------
\* Goroutines that hold the token.
Holding == {g \in Goroutines : pc[g] # "idle"}

(***************************************************************************)
(* "the *Queue[T] is only ever in one channel" (queue.go): at any moment    *)
(* the queue is in exactly one of the channels or with exactly one          *)
(* goroutine, so no two goroutines ever work on the segments at once and    *)
(* no Release ever blocks.                                                  *)
(***************************************************************************)
ExclusiveAccess ==
    /\ ~(empty /\ populated)
    /\ (empty \/ populated) <=> Holding = {}
    /\ \A g, h \in Holding : g = h

(***************************************************************************)
(* Whoever is woken through Wait finds an item: the muxes dereference       *)
(* *q.Dequeue() without a test, so an empty queue would be a nil dereference. *)
(***************************************************************************)
WaitersFindItems == \A g \in Waiters : pc[g] = "held" => size # 0

(***************************************************************************)
(* Nothing stays queued unnoticed: a frame that was enqueued reaches a      *)
(* waiter, whatever producers, pollers and observers do in between.         *)
(***************************************************************************)
WaitersAreServed == []<>(size = 0 \/ \E g \in Waiters : pc[g] = "held")
=============================================================================
