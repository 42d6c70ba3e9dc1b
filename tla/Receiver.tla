------------------------------ MODULE Receiver ------------------------------
(***************************************************************************)
(* A Receiver link (receiver.go, creditor.go, link.go): goroutines that     *)
(* receive and settle messages and manage credit, the link's mux, and the   *)
(* interface they see of the session and the peer.  Frames to the link pass *)
(* through FIFO queues (net.Conn, Session.rxQ, link.rxQ), modelled as rxQ;  *)
(* toPeer holds the frames of the other direction.  Contexts that end are   *)
(* choices at the places where the code looks at them.                      *)
(***************************************************************************)
EXTENDS Integers, Sequences, FiniteSets

CONSTANTS Apps,            \* goroutines of the application
          NoApp,
          M,               \* modulus of uint32: 2^32 in the code
          Credit,          \* ReceiverOptions.Credit
          MaxSent,         \* bound on the deliveries of the peer
          MaxCalls,        \* bound on the calls of IssueCredit and DrainCredit
          Autos,           \* autoSendFlow: which modes of credit management
          Seconds,         \* receiver settle mode second: yes or no
          EchoModes,       \* the values of autoSendFlow with which the peer asks for echoes
          MaxExtras,       \* bound on the flows of the peer's own, rejected frames and splits
          ExtraModes       \* the values of second with which the peer sends these

ASSUME ReceiverAssumption ==
    /\ NoApp \notin Apps
    /\ M \in Nat /\ Credit \in Nat \ {0} /\ Credit + MaxCalls < M
    /\ MaxSent \in Nat /\ MaxCalls \in Nat
    /\ Autos \subseteq BOOLEAN /\ Seconds \subseteq BOOLEAN /\ EchoModes \subseteq BOOLEAN
    /\ MaxExtras \in Nat /\ ExtraModes \subseteq BOOLEAN

VARIABLES
    autoSendFlow, second,
    \* applications
    pc,              \* where each goroutine is in a call
    msg,             \* the delivery it holds, or the drain it waits for (0: none)
    calls,           \* calls of IssueCredit and DrainCredit so far
    \* shared by applications and mux
    messagesQ,       \* r.messagesQ
    settlementCount, \* r.settlementCount
    receiverReady,   \* the channel r.receiverReady is full
    settledMsgs,     \* deliveries whose message has msg.settled set after receipt
    inFlight,        \* r.inFlight.m: deliveries awaiting the peer's settlement
    signalled,       \* goroutines whose wait channel holds a value
    unsettled,       \* r.unsettledMessages
    pendingDrain, creditsToAdd,
    drained,         \* creditor.drained: number of the drain in progress (0: nil)
    drains,          \* drains started so far
    ended,           \* drains whose channel is closed
    \* the mux
    mux,             \* where the mux is; "exited" also stands for close(l.done)
    linkCredit, count, \* l.linkCredit, l.deliveryCount
    flow,            \* the flow that muxFlow sends
    env,             \* the goroutine whose disposition the mux sends
    msgSettled,      \* r.msg.settled of the delivery being put together
    doneErr,         \* l.doneErr: "nil", "error" (closeWithError) or "end"
    closeInProgress, close,
    rxQ,
    \* session and peer
    sess,            \* "open", "ending" (end sent), "done" (session.done closed)
    toPeer,          \* flows on their way to the peer
    sent,            \* deliveries the peer has sent completely
    mid,             \* the peer is in the middle of a delivery
    limit,           \* delivery-count + link-credit of the last flow it has read
    disposed,        \* deliveries whose disposition is written
    answered,        \* deliveries it has settled (mode second)
    extras,          \* how many of these it has sent
    detachOut,       \* our detach is written
    peerDetached,    \* the peer has sent its detach
    \* history
    acked            \* drains that the peer's flow has ended

appVars == <<pc, msg, calls>>
settleVars == <<settlementCount, settledMsgs, inFlight, signalled, unsettled>>
drainVars == <<pendingDrain, creditsToAdd, drained, drains, ended, acked>>
creditVars == <<linkCredit, count, flow>>
endVars == <<doneErr, closeInProgress, close>>
peerVars == <<sent, mid, limit, disposed, answered, extras, detachOut, peerDetached>>
conf == <<autoSendFlow, second>>
vars == <<conf, appVars, messagesQ, receiverReady, settleVars, drainVars, mux, creditVars, env,
          msgSettled, endVars, rxQ, sess, toPeer, peerVars>>

NoFlow == [credit |-> 0, drain |-> FALSE]

\* newReceiver: with manual credit management the link starts without credit.
\* Settling has no effect on credit then, so there is one settle mode and all
\* deliveries are settled (PeerSends).
Init ==
    /\ autoSendFlow \in Autos /\ second \in Seconds /\ (second => autoSendFlow)
    /\ pc = [a \in Apps |-> "idle"] /\ msg = [a \in Apps |-> 0] /\ calls = 0
    /\ messagesQ = <<>> /\ settlementCount = 0 /\ receiverReady = FALSE
    /\ settledMsgs = {} /\ inFlight = {} /\ signalled = {} /\ unsettled = 0
    /\ pendingDrain = FALSE /\ creditsToAdd = 0 /\ drained = 0 /\ drains = 0
    /\ ended = {} /\ acked = {}
    /\ mux = IF autoSendFlow THEN "start" ELSE "top"
    /\ linkCredit = (IF autoSendFlow THEN Credit ELSE 0) /\ count = 0
    /\ flow = [credit |-> linkCredit, drain |-> FALSE]
    /\ env = NoApp /\ msgSettled = FALSE
    /\ doneErr = "nil" /\ closeInProgress = FALSE /\ close = FALSE /\ rxQ = <<>>
    /\ sess = "open" /\ toPeer = <<>> /\ sent = 0 /\ mid = FALSE /\ limit = 0
    /\ disposed = {} /\ answered = {} /\ extras = 0 /\ detachOut = FALSE /\ peerDetached = FALSE

-----------------------------------------------------------------------------
(* The application: Receive, messageDisposition, IssueCredit, DrainCredit.  *)
(* Calls on a link that is already dead return at once and are left out.    *)

\* A call goes on, or returns.
Goto(a, to) == pc' = [pc EXCEPT ![a] = to]
Hold(a, id) == msg' = [msg EXCEPT ![a] = id]
Return(a) == Goto(a, "idle") /\ Hold(a, 0)
Exited == mux = "exited"

\* Receive and Prefetched poke the mux first, whether there is a message or not.
Receive(a) ==
    /\ ~Exited /\ pc[a] = "idle"
    /\ receiverReady' = TRUE /\ Goto(a, "take")
    /\ UNCHANGED <<conf, msg, calls, messagesQ, settleVars, drainVars, mux, creditVars, env,
                   msgSettled, endVars, rxQ, sess, toPeer, peerVars>>

\* The next message is taken, if there is one; with none, Prefetched returns and
\* Receive does when its context or the link ends.
Take(a) ==
    /\ pc[a] = "take"
    /\ \/ messagesQ = <<>> /\ Return(a) /\ UNCHANGED messagesQ
       \/ /\ messagesQ # <<>> /\ messagesQ' = Tail(messagesQ)
          /\ Goto(a, IF Head(messagesQ).settled THEN "count" ELSE "got")
          /\ Hold(a, Head(messagesQ).id)
    /\ UNCHANGED <<conf, calls, receiverReady, settleVars, drainVars, mux, creditVars, env,
                   msgSettled, endVars, rxQ, sess, toPeer, peerVars>>

\* onSettlement(1), for a message that was sent settled.
Count(a) ==
    /\ pc[a] = "count" /\ Goto(a, "poke")
    /\ settlementCount' = IF autoSendFlow THEN settlementCount + 1 ELSE settlementCount
    /\ UNCHANGED <<conf, msg, calls, messagesQ, receiverReady, settledMsgs, inFlight, signalled,
                   unsettled, drainVars, mux, creditVars, env, msgSettled, endVars, rxQ, sess,
                   toPeer, peerVars>>

\* Mutant of Poke: onSettlement does not wake the mux.
PokeNobody(a) ==
    /\ pc[a] \in {"poke", "pokeDrain"}
    /\ \/ pc[a] = "poke" /\ Return(a)
       \/ pc[a] = "pokeDrain" /\ Goto(a, "drain") /\ UNCHANGED msg
    /\ UNCHANGED <<conf, calls, messagesQ, receiverReady, settleVars, drainVars, mux, creditVars,
                   env, msgSettled, endVars, rxQ, sess, toPeer, peerVars>>

\* A non-blocking send to r.receiverReady, "cause mux() to check our flow conditions".
Poke(a) ==
    /\ pc[a] \in {"poke", "pokeDrain"}
    /\ receiverReady' = TRUE
    /\ \/ pc[a] = "poke" /\ Return(a)
       \/ pc[a] = "pokeDrain" /\ Goto(a, "drain") /\ UNCHANGED msg
    /\ UNCHANGED <<conf, calls, messagesQ, settleVars, drainVars, mux, creditVars, env,
                   msgSettled, endVars, rxQ, sess, toPeer, peerVars>>

\* messageDisposition: nothing to do for a settled message; mode second goes
\* through inFlight first.
Settle(a) ==
    /\ ~Exited /\ pc[a] = "got"
    /\ \/ msg[a] \in settledMsgs /\ Return(a)
       \/ msg[a] \notin settledMsgs /\ Goto(a, IF second THEN "add" ELSE "offer") /\ UNCHANGED msg
    /\ UNCHANGED <<conf, calls, messagesQ, receiverReady, settleVars, drainVars, mux,
                   creditVars, env, msgSettled, endVars, rxQ, sess, toPeer, peerVars>>

\* inFlight.add, with a wait channel of its own for every call.
AddInFlight(a) ==
    /\ pc[a] = "add"
    /\ inFlight' = inFlight \cup {msg[a]} /\ signalled' = signalled \ {a}
    /\ Goto(a, "offer")
    /\ UNCHANGED <<conf, msg, calls, messagesQ, receiverReady, settlementCount, settledMsgs,
                   unsettled, drainVars, mux, creditVars, env, msgSettled, endVars, rxQ, sess,
                   toPeer, peerVars>>

\* sendDisposition, case <-r.l.done, of both selects.
DispositionLost(a) ==
    /\ pc[a] \in {"offer", "sending"} /\ Exited
    /\ Return(a)
    /\ UNCHANGED <<conf, calls, messagesQ, receiverReady, settleVars, drainVars, mux,
                   creditVars, env, msgSettled, endVars, rxQ, sess, toPeer, peerVars>>

\* Mutant of OnSettlement: deleteUnsettled is not called.
OnSettlementStillOwed(a) ==
    /\ pc[a] = "settle"
    /\ settledMsgs' = settledMsgs \cup {msg[a]}
    /\ settlementCount' = IF autoSendFlow THEN settlementCount + 1 ELSE settlementCount
    /\ Goto(a, "poke")
    /\ UNCHANGED <<conf, msg, calls, messagesQ, receiverReady, inFlight, signalled, unsettled,
                   drainVars, mux, creditVars, env, msgSettled, endVars, rxQ, sess, toPeer,
                   peerVars>>

\* Settle mode first: msg.onSettlement, deleteUnsettled, and onSettlement(1) up
\* to its non-blocking send.
OnSettlement(a) ==
    /\ pc[a] = "settle"
    /\ settledMsgs' = settledMsgs \cup {msg[a]}
    /\ unsettled' = unsettled - 1
    /\ settlementCount' = IF autoSendFlow THEN settlementCount + 1 ELSE settlementCount
    /\ Goto(a, "poke")
    /\ UNCHANGED <<conf, msg, calls, messagesQ, receiverReady, inFlight, signalled, drainVars,
                   mux, creditVars, env, msgSettled, endVars, rxQ, sess, toPeer, peerVars>>

\* Mode second: the peer's settlement, or the link's end.
Settled(a) ==
    /\ pc[a] = "wait" /\ a \in signalled
    /\ Return(a) /\ signalled' = signalled \ {a}
    /\ UNCHANGED <<conf, calls, messagesQ, receiverReady, settlementCount, settledMsgs, inFlight,
                   unsettled, drainVars, mux,
                   creditVars, env, msgSettled, endVars, rxQ, sess, toPeer, peerVars>>

\* Mode second: the context ends first; the call may be repeated.
SettlementExpires(a) ==
    /\ pc[a] = "wait"
    /\ Goto(a, "got")
    /\ UNCHANGED <<conf, msg, calls, messagesQ, receiverReady, settleVars, drainVars, mux,
                   creditVars, env, msgSettled, endVars, rxQ, sess, toPeer, peerVars>>

\* Mutant of IssueCredit: credit may be issued during a drain.
IssueCreditWhileDraining(a) ==
    /\ ~Exited /\ pc[a] = "idle" /\ ~autoSendFlow /\ calls < MaxCalls
    /\ calls' = calls + 1
    /\ creditsToAdd' = creditsToAdd + 1 /\ Goto(a, "poke")
    /\ UNCHANGED <<conf, msg, messagesQ, receiverReady, settleVars, pendingDrain, drained, drains,
                   ended, acked, mux, creditVars, env, msgSettled, endVars, rxQ, sess,
                   toPeer, peerVars>>

\* Receiver.IssueCredit: an error while draining, otherwise one credit is queued for
\* FlowBits; more take more calls.
IssueCredit(a) ==
    /\ ~Exited /\ pc[a] = "idle" /\ ~autoSendFlow /\ calls < MaxCalls
    /\ calls' = calls + 1
    /\ \/ drained # 0 /\ UNCHANGED <<pc, creditsToAdd>>
       \/ drained = 0 /\ creditsToAdd' = creditsToAdd + 1 /\ Goto(a, "poke")
    /\ UNCHANGED <<conf, msg, messagesQ, receiverReady, settleVars, pendingDrain, drained, drains,
                   ended, acked, mux, creditVars, env, msgSettled, endVars, rxQ, sess,
                   toPeer, peerVars>>

\* creditor.Drain up to its wait; a second drain at a time is refused.
Drain(a) ==
    /\ ~Exited /\ pc[a] = "idle" /\ ~autoSendFlow /\ calls < MaxCalls
    /\ calls' = calls + 1
    /\ \/ drained # 0 /\ UNCHANGED <<pc, msg, drained, drains, pendingDrain>>
       \/ /\ drained = 0
          /\ drains' = drains + 1 /\ drained' = drains' /\ pendingDrain' = TRUE
          /\ Goto(a, "pokeDrain") /\ Hold(a, drains')
    /\ UNCHANGED <<conf, messagesQ, receiverReady, settleVars, creditsToAdd, ended, acked,
                   mux, creditVars, env, msgSettled, endVars, rxQ, sess, toPeer,
                   peerVars>>

\* The wait of creditor.Drain: drained (nil), or the link is done (an error).
DrainReturns(a) ==
    /\ pc[a] = "drain"
    /\ msg[a] \in ended \/ Exited
    /\ Return(a)
    /\ UNCHANGED <<conf, calls, messagesQ, receiverReady, settleVars, drainVars, mux,
                   creditVars, env, msgSettled, endVars, rxQ, sess, toPeer, peerVars>>

\* The context of DrainCredit ends: the drain goes on without its caller.
DrainExpires(a) ==
    /\ pc[a] = "drain"
    /\ Return(a)
    /\ UNCHANGED <<conf, calls, messagesQ, receiverReady, settleVars, drainVars, mux,
                   creditVars, env, msgSettled, endVars, rxQ, sess, toPeer, peerVars>>

-----------------------------------------------------------------------------
(* Receiver.mux, Receiver.muxHandleFrame and link.muxHandleFrame *)

\* Mutant of Reclaim: credit is reclaimed below the threshold too.
ReclaimAny == autoSendFlow /\ settlementCount > 0

\* "once we have pending credit equal to or greater than our available credit, reclaim it"
Reclaim == autoSendFlow /\ settlementCount > 0 /\ settlementCount >= linkCredit
ToAdd == creditsToAdd + (IF Reclaim THEN settlementCount ELSE 0)

\* creditor.FlowBits: no credits with a drain, and none if none were added.
Credits == IF pendingDrain \/ ToAdd = 0 THEN 0 ELSE (ToAdd + linkCredit) % M

\* Mutant of NewCredit: muxFlow grants credit that the link does not record.
NewCreditUnrecorded == linkCredit

\* muxFlow, before its select: new credit becomes the link's.
NewCredit == IF Credits > 0 THEN Credits ELSE linkCredit

(***************************************************************************)
(* The top of the loop, up to the wait in muxFlow or the select.            *)
(* creditor.IssueCredit, called to reclaim credit, returns nil, and that is *)
(* assigned to doneErr.                                                     *)
(***************************************************************************)
MuxTop ==
    /\ mux = "top"
    /\ settlementCount' = IF settlementCount >= linkCredit THEN 0 ELSE settlementCount
    /\ doneErr' = IF Reclaim THEN "nil" ELSE doneErr
    /\ \/ /\ doneErr' # "nil"
          /\ mux' = "unwind" /\ creditsToAdd' = ToAdd
          /\ UNCHANGED <<pendingDrain, linkCredit, flow>>
       \/ /\ doneErr' = "nil"
          /\ mux' = IF pendingDrain \/ Credits > 0 THEN "flow" ELSE "select"
          /\ flow' = [credit |-> Credits, drain |-> pendingDrain]
          /\ linkCredit' = NewCredit
          /\ pendingDrain' = FALSE /\ creditsToAdd' = 0
    /\ UNCHANGED <<conf, appVars, messagesQ, receiverReady, settledMsgs, inFlight, signalled,
                   unsettled, drained, drains, ended, acked, count, env, msgSettled,
                   closeInProgress, close, rxQ, sess, toPeer, peerVars>>

\* A flow on its way to the peer, with the delivery-count of the moment; a peer
\* that has detached reads none.
Transmit(fl) ==
    toPeer' = IF peerDetached THEN toPeer
              ELSE Append(toPeer, [upTo |-> count + fl.credit, drain |-> fl.drain])

\* The select of muxFlow: session.tx, l.close (nothing is sent) or session.done.
MuxFlow ==
    /\ mux \in {"start", "flow"}
    /\ LET next == IF mux = "start" THEN "top" ELSE "select" IN
       \/ /\ sess = "open" /\ mux' = next /\ UNCHANGED doneErr
          /\ Transmit(flow)
       \/ close /\ mux' = next /\ UNCHANGED <<toPeer, doneErr>>
       \/ sess = "done" /\ mux' = "unwind" /\ doneErr' = "end" /\ UNCHANGED toPeer
    /\ flow' = NoFlow
    /\ UNCHANGED <<conf, appVars, messagesQ, receiverReady, settleVars, drainVars, linkCredit,
                   count, env, msgSettled, closeInProgress, close, rxQ, sess, peerVars>>

\* The mux takes the next frame off rxQ.
Dequeued(type) == mux = "select" /\ rxQ # <<>> /\ Head(rxQ).type = type /\ rxQ' = Tail(rxQ)

(***************************************************************************)
(* muxReceive: an aborted delivery is discarded; the last frame completes   *)
(* the message, which is settled if one of its frames is, and takes credit. *)
(***************************************************************************)
MuxReceive ==
    /\ Dequeued("transfer") /\ mux' = "top"
    /\ LET fr == Head(rxQ)
           settled == msgSettled \/ fr.settled
           complete == ~fr.aborted /\ ~fr.more
       IN  /\ msgSettled' = (~fr.aborted /\ fr.more /\ settled)
           /\ IF complete
              THEN /\ messagesQ' = Append(messagesQ, [id |-> fr.id, settled |-> settled])
                   /\ unsettled' = IF settled THEN unsettled ELSE unsettled + 1
                   /\ count' = count + 1 /\ linkCredit' = (linkCredit - 1) % M
              ELSE UNCHANGED <<messagesQ, unsettled, count, linkCredit>>
    /\ UNCHANGED <<conf, appVars, receiverReady, settlementCount, settledMsgs, inFlight, signalled,
                   drainVars, flow, env, endVars, sess, toPeer, peerVars>>

\* creditor.EndDrain
EndDrain ==
    /\ ended' = IF drained = 0 THEN ended ELSE ended \cup {drained}
    /\ drained' = 0

\* PerformFlow: an echo is answered; the drain flag ends the drain.
HandleFlow ==
    /\ Dequeued("flow")
    /\ LET fr == Head(rxQ) IN
       \/ fr.echo /\ mux' = "echo" /\ UNCHANGED <<linkCredit, ended, drained, acked>>
       \/ /\ ~fr.echo /\ (~fr.drain \/ autoSendFlow)
          /\ mux' = "top" /\ UNCHANGED <<linkCredit, ended, drained, acked>>
       \/ /\ ~fr.echo /\ fr.drain /\ ~autoSendFlow
          /\ linkCredit' = 0 /\ EndDrain /\ acked' = acked \cup {drained}
          /\ mux' = "top"
    /\ UNCHANGED <<conf, appVars, messagesQ, receiverReady, settleVars, pendingDrain, creditsToAdd,
                   drains, count, flow, env, msgSettled, endVars, sess, toPeer,
                   peerVars>>

\* The answer to an echo: session.tx, l.close or session.done.
SendEcho ==
    /\ mux = "echo"
    /\ \/ /\ sess = "open" /\ mux' = "top" /\ UNCHANGED doneErr
          /\ Transmit([credit |-> linkCredit, drain |-> FALSE])
       \/ close /\ mux' = "top" /\ UNCHANGED <<toPeer, doneErr>>
       \/ sess = "done" /\ mux' = "unwind" /\ doneErr' = "end" /\ UNCHANGED toPeer
    /\ UNCHANGED <<conf, appVars, messagesQ, receiverReady, settleVars, drainVars, creditVars, env,
                   msgSettled, closeInProgress, close, rxQ, sess, peerVars>>

(***************************************************************************)
(* PerformDisposition: inFlight.remove wakes the waiters of the range and   *)
(* settles their messages; onSettlement counts them and pokes the mux.      *)
(***************************************************************************)
HandleDisposition ==
    /\ Dequeued("disposition") /\ mux' = "top"
    /\ LET removed == inFlight \cap (Head(rxQ).first .. Head(rxQ).last) IN
       /\ inFlight' = inFlight \ removed
       /\ settledMsgs' = settledMsgs \cup removed
       /\ unsettled' = unsettled - Cardinality(removed)
       /\ signalled' = signalled \cup {a \in Apps : msg[a] \in removed}
       /\ settlementCount' = settlementCount + (IF autoSendFlow THEN Cardinality(removed) ELSE 0)
    /\ receiverReady' = (receiverReady \/ autoSendFlow)
    /\ UNCHANGED <<conf, appVars, messagesQ, drainVars, creditVars, env, msgSettled, endVars, sess,
                   toPeer, peerVars>>

\* A closing detach: the answer to ours ends the mux, the peer's is answered first.
HandleDetach ==
    /\ Dequeued("detach")
    /\ \/ /\ closeInProgress /\ mux' = "unwind"
          /\ doneErr' = IF doneErr = "nil" THEN "end" ELSE doneErr
       \/ ~closeInProgress /\ mux' = "detachAck" /\ UNCHANGED doneErr
    /\ UNCHANGED <<conf, appVars, messagesQ, receiverReady, settleVars, drainVars, creditVars, env,
                   msgSettled, closeInProgress, close, sess, toPeer, peerVars>>

(***************************************************************************)
(* Frames that close the link with an error: a transfer muxReceive rejects, *)
(* a non-closing detach, a frame no receiver expects.                       *)
(***************************************************************************)
CloseWithError ==
    /\ Dequeued("bad")
    /\ \/ closeInProgress /\ mux' = "top" /\ UNCHANGED <<closeInProgress, doneErr>>
       \/ ~closeInProgress /\ mux' = "detach" /\ closeInProgress' = TRUE /\ doneErr' = "error"
    /\ UNCHANGED <<conf, appVars, messagesQ, receiverReady, settleVars, drainVars, creditVars, env,
                   msgSettled, close, sess, toPeer, peerVars>>

\* case env := <-txDisposition
TakeDisposition(a) ==
    /\ pc[a] = "offer" /\ mux = "select" /\ ~closeInProgress
    /\ Goto(a, "sending") /\ env' = a /\ mux' = "tx"
    /\ UNCHANGED <<conf, msg, calls, messagesQ, receiverReady, settleVars, drainVars, creditVars,
                   msgSettled, endVars, rxQ, sess, toPeer, peerVars>>

\* link.txFrame of a disposition: written, refused by the connWriter because the
\* caller's context has ended, or swallowed when the session is ending or done.
SendDisposition ==
    /\ mux = "tx" /\ mux' = "top" /\ env' = NoApp
    /\ \/ /\ sess = "open" /\ Goto(env, IF second THEN "wait" ELSE "settle")
          /\ disposed' = disposed \cup {msg[env]}
       \/ sess = "open" /\ Goto(env, "got") /\ UNCHANGED disposed
       \/ sess # "open" /\ UNCHANGED <<pc, disposed>>
    /\ UNCHANGED <<conf, msg, calls, messagesQ, receiverReady, settleVars, drainVars, creditVars,
                   msgSettled, endVars, rxQ, sess, toPeer, sent, mid, limit, answered, extras,
                   detachOut, peerDetached>>

\* case <-r.receiverReady
Ready ==
    /\ mux = "select" /\ receiverReady
    /\ receiverReady' = FALSE /\ mux' = "top"
    /\ UNCHANGED <<conf, appVars, messagesQ, settleVars, drainVars, creditVars, env, msgSettled,
                   endVars, rxQ, sess, toPeer, peerVars>>

\* case <-closed: the client closes the link.
CloseRequested ==
    /\ mux = "select" /\ close /\ ~closeInProgress
    /\ closeInProgress' = TRUE /\ mux' = "detach"
    /\ UNCHANGED <<conf, appVars, messagesQ, receiverReady, settleVars, drainVars, creditVars, env,
                   msgSettled, doneErr, close, rxQ, sess, toPeer, peerVars>>

\* link.txFrame of a detach: swallowed when the session is ending or done.
SendDetach ==
    /\ mux \in {"detach", "detachAck"}
    /\ detachOut' = (detachOut \/ sess = "open")
    /\ \/ mux = "detach" /\ mux' = "top" /\ UNCHANGED doneErr
       \/ mux = "detachAck" /\ mux' = "unwind" /\ doneErr' = "end"
    /\ UNCHANGED <<conf, appVars, messagesQ, receiverReady, settleVars, drainVars, creditVars, env,
                   msgSettled, closeInProgress, close, rxQ, sess, toPeer, sent, mid, limit,
                   disposed, answered, extras, peerDetached>>

\* case <-r.l.session.done
SessionGone ==
    /\ mux = "select" /\ sess = "done"
    /\ mux' = "unwind" /\ doneErr' = "end"
    /\ UNCHANGED <<conf, appVars, messagesQ, receiverReady, settleVars, drainVars, creditVars, env,
                   msgSettled, closeInProgress, close, rxQ, sess, toPeer, peerVars>>

\* Mutant of Unwind: inFlight.clear is missing.
UnwindKeepsInFlight ==
    /\ mux = "unwind" /\ mux' = "exited"
    /\ IF autoSendFlow THEN UNCHANGED <<drained, ended>> ELSE EndDrain
    /\ UNCHANGED <<conf, appVars, messagesQ, receiverReady, settleVars, pendingDrain, creditsToAdd,
                   drains, acked, creditVars, env, msgSettled, endVars, rxQ, sess, toPeer,
                   peerVars>>

\* The deferred function: dispositions and drains are released, l.done is closed.
Unwind ==
    /\ mux = "unwind" /\ mux' = "exited"
    /\ signalled' = signalled \cup {a \in Apps : msg[a] \in inFlight} /\ inFlight' = {}
    /\ IF autoSendFlow THEN UNCHANGED <<drained, ended>> ELSE EndDrain
    /\ UNCHANGED <<conf, appVars, messagesQ, receiverReady, settlementCount, settledMsgs, unsettled,
                   pendingDrain, creditsToAdd, drains, acked, creditVars, env,
                   msgSettled, endVars, rxQ, sess, toPeer, peerVars>>

\* Receiver.Close: closeLink closes l.close.
Close ==
    /\ ~close /\ close' = TRUE
    /\ UNCHANGED <<conf, appVars, messagesQ, receiverReady, settleVars, drainVars, mux, creditVars,
                   env, msgSettled, doneErr, closeInProgress, rxQ, sess, toPeer, peerVars>>

-----------------------------------------------------------------------------
(* What the link sees of the session and the peer *)

appsMux == <<conf, appVars, messagesQ, receiverReady, settleVars, drainVars, mux, creditVars, env,
             msgSettled, endVars>>

SessionEnds == sess = "open" /\ sess' = "ending" /\ UNCHANGED <<appsMux, rxQ, toPeer, peerVars>>
SessionDone == sess # "done" /\ sess' = "done" /\ UNCHANGED <<appsMux, rxQ, toPeer, peerVars>>

\* The peer may still send: it has not detached and somebody is there to receive.
PeerAttached == ~peerDetached /\ sess # "done" /\ ~Exited
Deliver(fr) == rxQ' = Append(rxQ, fr)
FlowFrame(drain, echo) == [type |-> "flow", drain |-> drain, echo |-> echo]
Transfer(settled, fragment, aborted) ==
    [type |-> "transfer", id |-> sent + 1, settled |-> settled, more |-> fragment,
     aborted |-> aborted]

\* The frame that completes a delivery, the first of two, and an abort.
PeerSends(settled) ==
    /\ autoSendFlow \/ settled
    /\ PeerAttached /\ sent < MaxSent /\ (mid \/ sent < limit)
    /\ Deliver(Transfer(settled, FALSE, FALSE))
    /\ mid' = FALSE /\ sent' = sent + 1
    /\ UNCHANGED <<appsMux, sess, toPeer, limit, disposed, answered, extras, detachOut,
                   peerDetached>>

MayBeExtra == extras < MaxExtras /\ second \in ExtraModes

PeerBegins(settled) ==
    /\ autoSendFlow \/ settled
    /\ PeerAttached /\ sent < MaxSent /\ ~mid /\ sent < limit /\ MayBeExtra
    /\ Deliver(Transfer(settled, TRUE, FALSE))
    /\ mid' = TRUE /\ extras' = extras + 1
    /\ UNCHANGED <<appsMux, sess, toPeer, sent, limit, disposed, answered, detachOut, peerDetached>>

PeerAborts ==
    /\ PeerAttached /\ mid
    /\ Deliver(Transfer(FALSE, FALSE, TRUE))
    /\ mid' = FALSE
    /\ UNCHANGED <<appsMux, sess, toPeer, sent, limit, disposed, answered, extras, detachOut,
                   peerDetached>>

\* The peer reads a flow; a drain is answered, though not in the middle of a delivery.
PeerReads ==
    /\ PeerAttached /\ toPeer # <<>> /\ toPeer' = Tail(toPeer)
    /\ limit' = Head(toPeer).upTo
    /\ \/ Head(toPeer).drain /\ ~mid /\ Deliver(FlowFrame(TRUE, FALSE))
       \/ ~Head(toPeer).drain /\ UNCHANGED rxQ
    /\ UNCHANGED <<appsMux, sess, sent, mid, disposed, answered, extras, detachOut, peerDetached>>

\* Mode second: the peer settles a range of the deliveries it has dispositions for.
PeerSettles(first, last) ==
    /\ PeerAttached /\ second /\ first <= last
    /\ first .. last \subseteq disposed \ answered
    /\ Deliver([type |-> "disposition", first |-> first, last |-> last])
    /\ answered' = answered \cup (first .. last)
    /\ UNCHANGED <<appsMux, sess, toPeer, sent, mid, limit, disposed, extras, detachOut,
                   peerDetached>>

\* A flow of the peer's own accord, or a frame that the link rejects.
PeerExtra(fr) ==
    /\ PeerAttached /\ MayBeExtra
    /\ Deliver(fr) /\ extras' = extras + 1
    /\ UNCHANGED <<appsMux, sess, toPeer, sent, mid, limit, disposed, answered, detachOut,
                   peerDetached>>

PeerFlow(echo) == (echo => autoSendFlow \in EchoModes) /\ PeerExtra(FlowFrame(FALSE, echo))
PeerBad == PeerExtra([type |-> "bad"])

PeerDetaches ==
    /\ PeerAttached /\ peerDetached' = TRUE
    /\ Deliver([type |-> "detach"])
    /\ toPeer' = <<>>
    /\ UNCHANGED <<appsMux, sess, sent, mid, limit, disposed, answered, extras, detachOut>>

-----------------------------------------------------------------------------
\* What a goroutine does without waiting for the world outside the link.
AppStep(a) ==
    \/ Take(a) \/ Count(a) \/ Poke(a) \/ AddInFlight(a) \/ DispositionLost(a) \/ OnSettlement(a)
    \/ Settled(a) \/ DrainReturns(a)

AppCall(a) ==
    \/ Receive(a) \/ Settle(a) \/ SettlementExpires(a)
    \/ Drain(a) \/ DrainExpires(a) \/ IssueCredit(a)

HandleFrame ==
    \/ MuxReceive \/ HandleFlow \/ HandleDisposition \/ HandleDetach \/ CloseWithError

MuxStep ==
    \/ MuxTop \/ MuxFlow \/ HandleFrame \/ SendEcho
    \/ (\E a \in Apps : TakeDisposition(a)) \/ SendDisposition
    \/ Ready \/ CloseRequested \/ SendDetach \/ SessionGone \/ Unwind

PeerStep ==
    \/ \E settled \in BOOLEAN : PeerSends(settled) \/ PeerBegins(settled)
    \/ PeerAborts \/ PeerReads
    \/ \E first, last \in 1 .. MaxSent : PeerSettles(first, last)
    \/ (\E echo \in BOOLEAN : PeerFlow(echo)) \/ PeerBad \/ PeerDetaches

Next ==
    \/ \E a \in Apps : AppCall(a) \/ AppStep(a)
    \/ MuxStep \/ Close
    \/ SessionEnds \/ SessionDone \/ PeerStep

Spec == Init /\ [][Next]_vars

(***************************************************************************)
(* The goroutines run when they can; a select with several ready cases      *)
(* picks at random, hence strong fairness of its cases; the session that    *)
(* has sent its end gets the peer's.                                        *)
(***************************************************************************)
Fairness ==
    /\ \A a \in Apps : WF_vars(AppStep(a))
    /\ WF_vars(MuxStep) /\ SF_vars(Ready) /\ SF_vars(HandleFrame) /\ SF_vars(SessionGone)
    /\ WF_vars(sess = "ending" /\ SessionDone)

FairSpec == Spec /\ Fairness

-----------------------------------------------------------------------------
(* Properties *)

Alive == mux \notin {"unwind", "exited"}

\* Deliveries in the hands of the application: unsettled, or settled and not counted.
Held ==
    {msg[a] : a \in {b \in Apps : pc[b] \in {"got", "add", "offer", "sending", "wait", "settle"}}}
        \ settledMsgs
Uncounted == {msg[a] : a \in {b \in Apps : pc[b] = "count"}}

\* With automatic credit management credit is neither lost nor multiplied: what is
\* not with the peer is with a message, or counted to be issued again, whatever
\* fails, expires or is repeated in settling.
CreditConserved ==
    autoSendFlow /\ Alive =>
        linkCredit + Len(messagesQ) + Cardinality(Held) + Cardinality(Uncounted) + settlementCount
            + creditsToAdd = Credit

\* The link has credit for whatever a peer within its limit has on the way, so that
\* linkCredit-- in muxReceive never wraps around.
CreditCoversTransfers ==
    Alive => sent + (IF mid THEN 1 ELSE 0) - count <= linkCredit

\* r.unsettledMessages is the number of messages the application still owes an
\* outcome, although it changes in the mux and in the callers.
UnsettledIsOwed ==
    Alive => unsettled = Cardinality({i \in DOMAIN messagesQ : ~messagesQ[i].settled})
                             + Cardinality(Held)

\* "After a drain completes, the Receiver will have zero active credits": when the
\* peer's flow ends a drain, every delivery has arrived and none may follow.
DrainIsComplete ==
    [][acked' # acked => /\ sent = count /\ limit <= sent /\ creditsToAdd = 0
                         /\ \A i \in DOMAIN toPeer : toPeer[i].upTo <= sent]_vars

CreditOnTheWay ==
    \/ sent < limit
    \/ \E i \in DOMAIN toPeer : toPeer[i].upTo > sent

\* No wake-up is lost: a peer that has used up its credit gets new credit once the
\* application has received and settled everything.
CreditComesBack ==
    []<>(~autoSendFlow \/ CreditOnTheWay \/ messagesQ # <<>> \/ Held # {} \/ close \/ ~Alive)

\* The end of the link releases every call, wherever it is blocked.
LinkEndReleases ==
    \A a \in Apps : Exited /\ pc[a] \notin {"idle", "got"} ~> pc[a] \in {"idle", "got"}
=============================================================================
