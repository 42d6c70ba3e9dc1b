------------------------------- MODULE Sender -------------------------------
(***************************************************************************)
(* A Sender link (sender.go, link.go): goroutines calling Send, the link's  *)
(* mux, and the interface they see of the session, the connWriter and the   *)
(* peer.  Every frame from the peer reaches the link in order through FIFO  *)
(* queues (net.Conn, Session.rxQ, link.rxQ), modelled as one queue, rxQ.    *)
(* deliveryCount is kept as the natural number it represents modulo M; the  *)
(* uint32 arithmetic of the code is arithmetic modulo M.                    *)
(***************************************************************************)
EXTENDS Integers, Sequences, FiniteSets

CONSTANTS Callers,           \* goroutines that call Send or SendWithReceipt
          NoCaller,
          M,                 \* modulus of uint32: 2^32 in the code
          MaxCredit,         \* greatest link-credit of a flow
          MaxFrames,         \* most transfer frames a message is split into
          MaxSends,          \* bound on the calls of Send
          MaxFlows,          \* bound on the flow frames of the peer
          PeerReduces,       \* the peer may lower the limit it has granted
          PeerMisbehaves     \* the peer may send frames that a sender rejects

ASSUME SenderAssumption ==
    /\ M \in Nat /\ MaxCredit \in Nat /\ MaxCredit < M
    /\ MaxFrames \in Nat \ {0}
    /\ MaxSends \in Nat /\ MaxFlows \in Nat
    /\ PeerReduces \in BOOLEAN /\ PeerMisbehaves \in BOOLEAN
    /\ NoCaller \notin Callers

VARIABLES
    \* callers
    pc,              \* where each caller is in Send
    ctx,             \* the caller's context is cancelled or expired
    delivery,        \* the delivery whose confirmation the caller awaits (0: none)
    mu,              \* holder of Sender.mu
    more,            \* frames of the current message after the current one
    settled,         \* the current message is sent settled
    frame,           \* progress of the current frame (its frameContext)
    sends,           \* calls of Send so far
    \* the link and its mux
    mux,             \* where the mux is; "exited" also stands for close(l.done)
    count,           \* l.deliveryCount
    linkCredit,      \* l.linkCredit
    closeInProgress, \* l.closeInProgress
    close,           \* l.close is closed
    rxQ,             \* frames on their way to the mux
    acking,          \* the delivery whose disposition the mux acknowledges
    \* session
    sess,            \* "open", "ending" (end sent), "done" (session.done closed)
    window,          \* the session mux accepts transfers
    \* peer
    written,         \* complete deliveries written to the network
    rcvd,            \* complete deliveries the peer has received
    limit,           \* delivery-count + link-credit of the last flow sent
    seen,            \* delivery-count + link-credit of the last flow handled
    flows,           \* flow frames sent so far
    disposed,        \* deliveries the peer has sent a disposition for
    confirmed,       \* deliveries whose Done channel is closed
    detachOut,       \* our detach is on the wire
    peerDetached     \* the peer has sent its detach

callerVars == <<pc, ctx, delivery, mu, more, settled, frame, sends>>
linkVars == <<mux, count, linkCredit, closeInProgress, close, rxQ, acking>>
sessVars == <<sess, window>>
peerVars == <<written, rcvd, limit, seen, flows, disposed, confirmed, detachOut, peerDetached>>
vars == <<callerVars, linkVars, sessVars, peerVars>>

Init ==
    /\ pc = [c \in Callers |-> "idle"]
    /\ ctx = [c \in Callers |-> FALSE]
    /\ delivery = [c \in Callers |-> 0]
    /\ mu = NoCaller /\ more = 0 /\ settled = FALSE /\ frame = "none" /\ sends = 0
    /\ mux = "select" /\ count = 0 /\ linkCredit = 0
    /\ closeInProgress = FALSE /\ close = FALSE /\ rxQ = <<>> /\ acking = 0
    /\ sess = "open" /\ window = TRUE
    /\ written = 0 /\ rcvd = 0 /\ limit = 0 /\ seen = 0 /\ flows = 0
    /\ disposed = {} /\ confirmed = {} /\ detachOut = FALSE /\ peerDetached = FALSE

-----------------------------------------------------------------------------
(* Send, SendWithReceipt, send and SendReceipt.Wait *)

Goto(c, to) == pc' = [pc EXCEPT ![c] = to]

\* Send returns: its context and its receipt are gone.
Leave(c) ==
    /\ Goto(c, "idle")
    /\ ctx' = [ctx EXCEPT ![c] = FALSE]
    /\ delivery' = [delivery EXCEPT ![c] = 0]

\* Deferred s.mu.Unlock() and return from send.
Return(c) == Leave(c) /\ mu' = NoCaller

\* A Send on a link that is already dead returns at once and is not modelled.
Send(c) ==
    /\ pc[c] = "idle" /\ sends < MaxSends
    /\ mux # "exited"
    /\ Goto(c, "lock")
    /\ sends' = sends + 1
    /\ UNCHANGED <<ctx, delivery, mu, more, settled, frame, linkVars, sessVars, peerVars>>

\* The caller's context ends at any moment of the call.
Cancel(c) ==
    /\ pc[c] # "idle" /\ ~ctx[c]
    /\ ctx' = [ctx EXCEPT ![c] = TRUE]
    /\ UNCHANGED <<pc, delivery, mu, more, settled, frame, sends, linkVars, sessVars, peerVars>>

(***************************************************************************)
(* s.mu.Lock(), then the message is refused (delivery tag or message too    *)
(* large, not encodable, settled on an unsettled link), or it is split into *)
(* n frames.  An empty encoding has no frame: send returns a receipt with a *)
(* nil channel.                                                             *)
(***************************************************************************)
Lock(c) ==
    /\ pc[c] = "lock" /\ mu = NoCaller
    /\ \/ Leave(c) /\ UNCHANGED <<mu, more, settled>>
       \/ Goto(c, "confirm") /\ UNCHANGED <<ctx, delivery, mu, more, settled>>
       \/ \E n \in 1 .. MaxFrames, s \in BOOLEAN :
              /\ Goto(c, "hand") /\ mu' = c /\ more' = n - 1 /\ settled' = s
              /\ UNCHANGED <<ctx, delivery>>
    /\ UNCHANGED <<frame, sends, linkVars, sessVars, peerVars>>

\* Mutant of HandOver: transfers are not disabled while the link is closing.
HandOverWhileClosing(c) ==
    /\ pc[c] = "hand"
    /\ mux = "select" /\ linkCredit > 0
    /\ Goto(c, "wait") /\ frame' = "mux" /\ mux' = "transfer"
    /\ UNCHANGED <<ctx, delivery, mu, more, settled, sends, count, linkCredit,
                   closeInProgress, close, rxQ, acking, sessVars, peerVars>>

\* Mutant of HandOver: transfers are enabled without credit.
HandOverWithoutCredit(c) ==
    /\ pc[c] = "hand"
    /\ mux = "select" /\ ~closeInProgress
    /\ Goto(c, "wait") /\ frame' = "mux" /\ mux' = "transfer"
    /\ UNCHANGED <<ctx, delivery, mu, more, settled, sends, count, linkCredit,
                   closeInProgress, close, rxQ, acking, sessVars, peerVars>>

\* case s.transfers <- transferEnvelope{...}: rendezvous with case env := <-outgoingTransfers.
HandOver(c) ==
    /\ pc[c] = "hand"
    /\ mux = "select" /\ linkCredit > 0 /\ ~closeInProgress
    /\ Goto(c, "wait") /\ frame' = "mux" /\ mux' = "transfer"
    /\ UNCHANGED <<ctx, delivery, mu, more, settled, sends, count, linkCredit,
                   closeInProgress, close, rxQ, acking, sessVars, peerVars>>

\* Mutant of HandOverFails: the end of the link goes unnoticed.
HandOverFailsByContext(c) ==
    /\ pc[c] = "hand"
    /\ ctx[c]
    /\ Return(c)
    /\ UNCHANGED <<more, settled, frame, sends, linkVars, sessVars, peerVars>>

\* case <-s.l.done, or case <-ctx.Done(): credit limit exceeded.
HandOverFails(c) ==
    /\ pc[c] = "hand"
    /\ mux = "exited" \/ ctx[c]
    /\ Return(c)
    /\ UNCHANGED <<more, settled, frame, sends, linkVars, sessVars, peerVars>>

\* Mutant of FrameWritten: one frame too many.
FrameWrittenOnceMore(c) ==
    /\ pc[c] = "wait" /\ frame = "written"
    /\ frame' = "none"
    /\ more >= 0 /\ Goto(c, "hand") /\ more' = more - 1
    /\ UNCHANGED <<ctx, mu, delivery, settled, sends, linkVars, sessVars, peerVars>>

\* case <-frameCtx.Done without error: next frame, or return the receipt.
FrameWritten(c) ==
    /\ pc[c] = "wait" /\ frame = "written"
    /\ frame' = "none"
    /\ \/ more > 0 /\ Goto(c, "hand") /\ more' = more - 1 /\ UNCHANGED <<mu, delivery>>
       \/ /\ more = 0
          /\ delivery' = [delivery EXCEPT ![c] = written]
          /\ Goto(c, "confirm") /\ mu' = NoCaller /\ UNCHANGED more
    /\ UNCHANGED <<ctx, settled, sends, linkVars, sessVars, peerVars>>

\* case <-frameCtx.Done with the context's error: the write never happened.
FrameFailed(c) ==
    /\ pc[c] = "wait" /\ frame = "failed"
    /\ frame' = "none"
    /\ \/ more > 0 /\ Return(c)
       \/ more = 0 /\ Goto(c, "rollback") /\ UNCHANGED <<ctx, delivery, mu>>
    /\ UNCHANGED <<more, settled, sends, linkVars, sessVars, peerVars>>

\* case <-s.l.done while waiting for the frame.
FrameAbandoned(c) ==
    /\ pc[c] = "wait" /\ mux = "exited"
    /\ frame' = "none"
    /\ Return(c)
    /\ UNCHANGED <<more, settled, sends, linkVars, sessVars, peerVars>>

\* Mutant of Rollback: the credit is given back, the delivery count is not.
RollbackCreditOnly(c) ==
    /\ pc[c] = "rollback" /\ mux = "select"
    /\ linkCredit' = (linkCredit + 1) % M
    /\ Return(c)
    /\ UNCHANGED <<more, settled, frame, sends, mux, count,
                   closeInProgress, close, rxQ, acking, sessVars, peerVars>>

\* Mutant of Rollback: nothing is given back.
RollbackNothing(c) ==
    /\ pc[c] = "rollback" /\ mux = "select"
    /\ Return(c)
    /\ UNCHANGED <<more, settled, frame, sends, linkVars, sessVars, peerVars>>

\* case s.rollback <- struct{}{}: rendezvous with case <-s.rollback of the mux.
Rollback(c) ==
    /\ pc[c] = "rollback" /\ mux = "select"
    /\ count' = count - 1
    /\ linkCredit' = (linkCredit + 1) % M
    /\ Return(c)
    /\ UNCHANGED <<more, settled, frame, sends, mux,
                   closeInProgress, close, rxQ, acking, sessVars, peerVars>>

\* case <-s.l.close in the rollback select; note that s.l.done is not a case.
RollbackClosed(c) ==
    /\ pc[c] = "rollback" /\ close
    /\ Return(c)
    /\ UNCHANGED <<more, settled, frame, sends, linkVars, sessVars, peerVars>>

\* SendReceipt.Wait: settlement, link done, or context done.
Confirm(c) ==
    /\ pc[c] = "confirm"
    /\ delivery[c] \in confirmed \/ mux = "exited" \/ ctx[c]
    /\ Leave(c)
    /\ UNCHANGED <<mu, more, settled, frame, sends, linkVars, sessVars, peerVars>>

-----------------------------------------------------------------------------
(* Sender.mux, Sender.muxHandleFrame and link.muxHandleFrame *)

\* The session mux takes a frame from session.tx: not while it writes a transfer.
SessionReceives == sess = "open" /\ frame # "session"

\* case s.l.session.txTransfer <- env: count and credit change with the last frame.
TransferToSession ==
    /\ mux = "transfer" /\ SessionReceives /\ window
    /\ frame' = "session" /\ mux' = "select"
    /\ IF more = 0
       THEN count' = count + 1 /\ linkCredit' = (linkCredit - 1) % M
       ELSE UNCHANGED <<count, linkCredit>>
    /\ UNCHANGED <<pc, ctx, delivery, mu, more, settled, sends,
                   closeInProgress, close, rxQ, acking, sessVars, peerVars>>

\* case <-s.l.close or case <-s.l.session.done: the envelope is dropped.
TransferAbandoned ==
    /\ mux = "transfer"
    /\ close \/ sess = "done"
    /\ frame' = "lost" /\ mux' = "select"
    /\ UNCHANGED <<pc, ctx, delivery, mu, more, settled, sends, count, linkCredit,
                   closeInProgress, close, rxQ, acking, sessVars, peerVars>>

\* The mux takes the next frame off rxQ.
Dequeued(type) == mux = "select" /\ rxQ # <<>> /\ Head(rxQ).type = type /\ rxQ' = Tail(rxQ)

(***************************************************************************)
(* PerformFlow.  linkCredit := LinkCredit - deliveryCount + DeliveryCount   *)
(* in uint32; an echo is answered with a flow through session.tx.           *)
(***************************************************************************)
HandleFlow ==
    /\ Dequeued("flow")
    /\ LET fr == Head(rxQ) IN
       /\ linkCredit' = (fr.linkCredit - count + fr.deliveryCount) % M
       /\ seen' = fr.linkCredit + fr.deliveryCount
       /\ mux' = IF fr.echo THEN "echo" ELSE "select"
    /\ UNCHANGED <<callerVars, count, closeInProgress, close, acking, sessVars,
                   written, rcvd, limit, flows, disposed, confirmed, detachOut, peerDetached>>

\* Mutant of HandleDisposition: no disposition is acknowledged.
HandleDispositionSilently ==
    /\ Dequeued("disposition")
    /\ UNCHANGED <<callerVars, mux, count, linkCredit, closeInProgress, close, acking, sessVars,
                   peerVars>>

\* PerformDisposition: an unsettled one is acknowledged through session.tx.
HandleDisposition ==
    /\ Dequeued("disposition")
    /\ LET fr == Head(rxQ) IN
       IF fr.settled THEN UNCHANGED <<mux, acking>>
                     ELSE mux' = "ack" /\ acking' = fr.delivery
    /\ UNCHANGED <<callerVars, count, linkCredit, closeInProgress, close, sessVars, peerVars>>

(***************************************************************************)
(* The select of the echo and of the acknowledgement: session.tx, l.close   *)
(* (return nil) or session.done (the mux terminates).  The session closes   *)
(* the delivery's Done channel when it takes the acknowledgement.           *)
(***************************************************************************)
SendReply ==
    /\ mux \in {"echo", "ack"}
    /\ \/ /\ SessionReceives
          /\ confirmed' = IF mux = "ack" THEN confirmed \cup {acking} ELSE confirmed
          /\ mux' = "select"
       \/ close /\ mux' = "select" /\ UNCHANGED confirmed
       \/ sess = "done" /\ mux' = "exited" /\ UNCHANGED confirmed
    /\ acking' = 0
    /\ UNCHANGED <<callerVars, count, linkCredit, closeInProgress, close, rxQ, sessVars,
                   written, rcvd, limit, seen, flows, disposed, detachOut, peerDetached>>

\* Detach with closed=true: the ack of our detach, or the peer closes and we ack.
HandleDetach ==
    /\ Dequeued("detach")
    /\ mux' = IF closeInProgress THEN "exited" ELSE "detachAck"
    /\ UNCHANGED <<callerVars, count, linkCredit, closeInProgress, close, acking, sessVars,
                   peerVars>>

\* A non-closing detach, or a frame no sender expects: closeWithError.
HandleUnexpected ==
    /\ Dequeued("unexpected")
    /\ closeInProgress' = TRUE
    /\ mux' = IF closeInProgress THEN "select" ELSE "detach"
    /\ UNCHANGED <<callerVars, count, linkCredit, close, acking, sessVars, peerVars>>

\* case <-closed: the client closes the link.
CloseRequested ==
    /\ mux = "select" /\ close /\ ~closeInProgress
    /\ closeInProgress' = TRUE /\ mux' = "detach"
    /\ UNCHANGED <<callerVars, count, linkCredit, close, rxQ, acking, sessVars, peerVars>>

\* link.txFrame of a detach: swallowed when the session is ending or done.
SendDetach ==
    /\ mux \in {"detach", "detachAck"}
    /\ \/ sess # "open" /\ UNCHANGED detachOut
       \/ SessionReceives /\ detachOut' = TRUE
    /\ mux' = IF mux = "detachAck" THEN "exited" ELSE "select"
    /\ UNCHANGED <<callerVars, count, linkCredit, closeInProgress, close, rxQ, acking, sessVars,
                   written, rcvd, limit, seen, flows, disposed, confirmed, peerDetached>>

\* case <-s.l.session.done
SessionGone ==
    /\ mux = "select" /\ sess = "done"
    /\ mux' = "exited"
    /\ UNCHANGED <<callerVars, count, linkCredit, closeInProgress, close, rxQ, acking, sessVars,
                   peerVars>>

\* Sender.Close: closeLink closes l.close.
Close ==
    /\ ~close /\ close' = TRUE
    /\ UNCHANGED <<callerVars, mux, count, linkCredit, closeInProgress, rxQ, acking, sessVars,
                   peerVars>>

-----------------------------------------------------------------------------
(* What the link sees of the session, the connWriter and the peer *)

\* connWriter: a context that is already done fails the frame, otherwise it is
\* written; the session closes the Done channel of a settled message at once.
WriteFrame ==
    /\ frame = "session"
    /\ IF ctx[mu]
       THEN frame' = "failed" /\ UNCHANGED <<written, confirmed>>
       ELSE /\ frame' = "written"
            /\ written' = IF more = 0 THEN written + 1 ELSE written
            /\ confirmed' = IF more = 0 /\ settled THEN confirmed \cup {written + 1} ELSE confirmed
    /\ UNCHANGED <<pc, ctx, delivery, mu, more, settled, sends, linkVars, sessVars,
                   rcvd, limit, seen, flows, disposed, detachOut, peerDetached>>

\* The session sends its end performative (endSent is closed).
SessionEnds ==
    /\ SessionReceives /\ sess' = "ending"
    /\ UNCHANGED <<callerVars, linkVars, window, peerVars>>

\* The session's mux exits: end received, or the connection is gone in mid-write.
SessionDone ==
    /\ sess # "done" /\ sess' = "done"
    /\ frame' = IF frame = "session" THEN "lost" ELSE frame
    /\ UNCHANGED <<pc, ctx, delivery, mu, more, settled, sends, linkVars, window, peerVars>>

\* Transfers and flows of the whole session close and open its window, which the
\* link sees only while it holds a transfer.
WindowCloses ==
    /\ mux = "transfer" /\ window /\ window' = FALSE
    /\ UNCHANGED <<callerVars, linkVars, sess, peerVars>>
WindowOpens == ~window /\ window' = TRUE /\ UNCHANGED <<callerVars, linkVars, sess, peerVars>>

PeerReceives ==
    /\ rcvd < written /\ rcvd' = rcvd + 1
    /\ UNCHANGED <<callerVars, linkVars, sessVars, written, limit, seen, flows,
                   disposed, confirmed, detachOut, peerDetached>>

\* The peer may still send: it has not detached and the session is there to receive.
PeerAttached == ~peerDetached /\ sess # "done"

PeerFlow(credit, echo) ==
    /\ PeerAttached /\ flows < MaxFlows
    /\ PeerReduces \/ rcvd + credit >= limit
    /\ flows' = flows + 1
    /\ limit' = rcvd + credit
    /\ rxQ' = Append(rxQ, [type |-> "flow", linkCredit |-> credit, deliveryCount |-> rcvd,
                           echo |-> echo])
    /\ UNCHANGED <<callerVars, mux, count, linkCredit, closeInProgress, close, acking, sessVars,
                   written, rcvd, seen, disposed, confirmed, detachOut, peerDetached>>

\* Receiver settle mode first: settled, and the session closes Done before it
\* passes the frame on.  Mode second: not settled until the link acknowledges it.
PeerSettles(n, first) ==
    /\ PeerAttached
    /\ n \notin disposed /\ n \notin confirmed
    /\ disposed' = disposed \cup {n}
    /\ confirmed' = IF first THEN confirmed \cup {n} ELSE confirmed
    /\ rxQ' = Append(rxQ, [type |-> "disposition", delivery |-> n, settled |-> first])
    /\ UNCHANGED <<callerVars, mux, count, linkCredit, closeInProgress, close, acking, sessVars,
                   written, rcvd, limit, seen, flows, detachOut, peerDetached>>

PeerDetaches ==
    /\ PeerAttached
    /\ peerDetached' = TRUE
    /\ rxQ' = Append(rxQ, [type |-> "detach"])
    /\ UNCHANGED <<callerVars, mux, count, linkCredit, closeInProgress, close, acking, sessVars,
                   written, rcvd, limit, seen, flows, disposed, confirmed, detachOut>>

\* A frame of another kind, or a non-closing detach: after it the session routes
\* nothing more to the link.  No flow follows: behind such a frame the
\* link sends no transfer, whatever its credit.
PeerUnexpected ==
    /\ PeerMisbehaves /\ PeerAttached /\ flows <= MaxFlows
    /\ flows' = MaxFlows + 1
    /\ peerDetached' \in BOOLEAN
    /\ rxQ' = Append(rxQ, [type |-> "unexpected"])
    /\ UNCHANGED <<callerVars, mux, count, linkCredit, closeInProgress, close, acking, sessVars,
                   written, rcvd, limit, seen, disposed, confirmed, detachOut>>

\* The link awaits an answer that the session cannot route: the peer has detached
\* without closing, and its next detach names a handle that is not in use.
AnswerUnrouted ==
    /\ detachOut /\ peerDetached /\ mux # "exited"
    /\ \A i \in DOMAIN rxQ : rxQ[i].type # "detach"

-----------------------------------------------------------------------------
CallerStep(c) ==
    \/ HandOver(c) \/ HandOverFails(c)
    \/ FrameWritten(c) \/ FrameFailed(c) \/ FrameAbandoned(c)
    \/ Rollback(c) \/ RollbackClosed(c)
    \/ Confirm(c)

MuxStep ==
    \/ TransferToSession \/ TransferAbandoned
    \/ HandleFlow \/ HandleDisposition \/ SendReply
    \/ HandleDetach \/ HandleUnexpected \/ CloseRequested \/ SendDetach
    \/ SessionGone

SessionStep == SessionEnds \/ SessionDone \/ WindowCloses \/ WindowOpens

PeerStep ==
    \/ PeerReceives
    \/ \E credit \in 0 .. MaxCredit, echo \in BOOLEAN : PeerFlow(credit, echo)
    \/ \E n \in 1 .. rcvd, first \in BOOLEAN : PeerSettles(n, first)
    \/ PeerDetaches \/ PeerUnexpected

Next ==
    \/ \E c \in Callers : Send(c) \/ Cancel(c) \/ Lock(c) \/ CallerStep(c)
    \/ MuxStep \/ Close \/ WriteFrame
    \/ SessionStep \/ PeerStep

Spec == Init /\ [][Next]_vars

(***************************************************************************)
(* The goroutines of the client run when they can; sync.Mutex hands over to *)
(* a waiter that starves, hence strong fairness of Lock; a select with      *)
(* several ready cases picks at random, hence strong fairness of the        *)
(* hand-over to a session that becomes ready again and again.               *)
(***************************************************************************)
ClientFairness ==
    /\ \A c \in Callers : SF_vars(Lock(c)) /\ WF_vars(CallerStep(c))
    /\ WF_vars(MuxStep) /\ SF_vars(TransferToSession) /\ WF_vars(WriteFrame)

FairSpec == Spec /\ ClientFairness

\* A peer that works: it reads, confirms, answers detach and end, and reopens its
\* window.  An answer that finds no handle makes the session end.
PeerFairness ==
    /\ WF_vars(PeerReceives) /\ WF_vars(WindowOpens)
    /\ WF_vars(\E n \in 1 .. rcvd, first \in BOOLEAN : PeerSettles(n, first))
    /\ WF_vars(detachOut /\ PeerDetaches) /\ WF_vars(AnswerUnrouted /\ SessionEnds)
    /\ WF_vars(sess = "ending" /\ SessionDone)

LiveSpec == FairSpec /\ PeerFairness

-----------------------------------------------------------------------------
(* Properties *)

Frames ==
    [type : {"flow"}, linkCredit : 0 .. MaxCredit, deliveryCount : Nat, echo : BOOLEAN]
        \cup [type : {"disposition"}, delivery : Nat, settled : BOOLEAN]
        \cup [type : {"detach", "unexpected"}]

CallerTypes ==
    /\ pc \in [Callers -> {"idle", "lock", "hand", "wait", "rollback", "confirm"}]
    /\ ctx \in [Callers -> BOOLEAN] /\ delivery \in [Callers -> Nat]
    /\ mu \in Callers \cup {NoCaller}
    /\ more \in 0 .. (MaxFrames - 1) /\ settled \in BOOLEAN /\ sends \in Nat
    /\ frame \in {"none", "mux", "session", "written", "failed", "lost"}

LinkTypes ==
    /\ mux \in {"select", "transfer", "echo", "ack", "detach", "detachAck", "exited"}
    /\ count \in Nat /\ linkCredit \in 0 .. (M - 1)
    /\ closeInProgress \in BOOLEAN /\ close \in BOOLEAN
    /\ rxQ \in Seq(Frames) /\ acking \in Nat

SessTypes == sess \in {"open", "ending", "done"} /\ window \in BOOLEAN

PeerTypes ==
    /\ written \in Nat /\ rcvd \in Nat /\ limit \in Nat /\ seen \in Nat /\ flows \in Nat
    /\ disposed \subseteq Nat /\ confirmed \subseteq Nat
    /\ detachOut \in BOOLEAN /\ peerDetached \in BOOLEAN

\* The types of the variables; linkCredit stays within the range of uint32.
TypeOK == CallerTypes /\ LinkTypes /\ SessTypes /\ PeerTypes

\* Whatever sends, failed writes, rollbacks and flows came before, the link-credit
\* the mux keeps is what the last flow it handled leaves after its delivery-count
\* (the formula quoted in muxHandleFrame).
CreditIsWhatIsLeft == linkCredit = (seen - count) % M

\* A last frame that the mux has counted and whose write is not known to have
\* happened: with the connWriter, refused by it, or about to be rolled back.
InDoubt ==
    \/ frame \in {"session", "failed"} /\ more = 0
    \/ \E c \in Callers : pc[c] = "rollback"

\* While the link works, its delivery-count is the number of deliveries that
\* reached the network, plus the one in doubt: a write that never happened is
\* always rolled back, and exactly once.
DeliveryCountIsWritten ==
    (mux # "exited" /\ ~close /\ sess # "done") =>
        count = written + (IF InDoubt THEN 1 ELSE 0)

\* A peer that never lowers its limit never gets a delivery beyond it, although
\* flows, transfers and rollbacks cross each other.
PeerNeverOverrun == ~PeerReduces => written <= limit

\* Once our detach is on the wire no delivery follows it: sending is disabled
\* when closing is in progress.
NoTransferAfterDetach == [][detachOut => written' = written /\ frame' # "session"]_vars

AllIdle == \A c \in Callers : pc[c] = "idle"

\* Sender.Close releases every call of Send, wherever it is blocked, when the peer
\* answers detach and end, after a frame that the link rejected too.
CloseReleasesCallers == close ~> AllIdle

\* A call that awaits the confirmation of a written message returns when the
\* peer settles what it receives, in mode first and in mode second.
ConfirmReturns == \A c \in Callers : (pc[c] = "confirm" /\ delivery[c] # 0) ~> (pc[c] # "confirm")

\* Send blocks until the message is sent or an error occurs: when the link has
\* ended every call returns.
LinkEndReleasesCallers == (mux = "exited") ~> AllIdle
=============================================================================
