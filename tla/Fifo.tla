-------------------------------- MODULE Fifo --------------------------------
(***************************************************************************)
(* What internal/queue.Queue promises its users (sessions, links and the   *)
(* receiver's prefetch buffer): an unbounded first-in first-out queue whose *)
(* Dequeue returns nil when there is nothing to return.                     *)
(***************************************************************************)
EXTENDS Sequences

CONSTANTS Item,   \* the values queued (frames or messages)
          Nil     \* what Dequeue returns on an empty queue

VARIABLES q,      \* the items waiting, oldest first
          out     \* the result of the last Dequeue

Init == q = <<>> /\ out = Nil

Enqueue(x) == q' = Append(q, x) /\ UNCHANGED out

Dequeue ==
    \/ q = <<>> /\ out' = Nil /\ UNCHANGED q
    \/ q # <<>> /\ out' = Head(q) /\ q' = Tail(q)

Next == Dequeue \/ \E x \in Item : Enqueue(x)

Spec == Init /\ [][Next]_<<q, out>>
=============================================================================
