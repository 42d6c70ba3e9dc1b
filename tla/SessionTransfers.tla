-------------------------- MODULE SessionTransfers --------------------------
(***************************************************************************)
(* The transfers of a session: the mux of session.go numbers the           *)
(* deliveries and the transfers of its sender links, stops them when the   *)
(* peer's window is used up, routes dispositions back to the links and the *)
(* settlements to the waiting calls of Send, opens the peer's window again *)
(* as transfers arrive, and ends the session.                              *)
(*                                                                         *)
(* Around the mux: the calls of Send, of which one per sender link hands   *)
(* over its frames while others wait for a settlement (Sender has the link *)
(* itself), a receiver link that settles in mode second, the connWriter,   *)
(* which may refuse a transfer because its context has ended, and a peer   *)
(* whose frames cross ours.  The links are attached (see SessionLinks).  A *)
(* transfer carries the message it is a part of, so that what arrives can  *)
(* be compared with what was sent.                                         *)
(***************************************************************************)
EXTENDS Integers, Sequences, FiniteSets, Functions

CONSTANTS
    Senders,        \* the sender links
    Rcv,            \* the receiver link
    NoLink,
    Stray,          \* a handle that is not in use
    Multi,          \* the sender links whose messages may need two transfers, or be settled
    Detachable,     \* the links that the peer may detach
    M,              \* the numbers are those of uint32, modulo M (2^32 in the code)
    IncomingWindow, \* s.incomingWindow
    PeerWindow,     \* the incoming window of the peer's begin
    MaxWork,        \* bound: messages sent, deliveries and flows from the peer, in all
    MaxFaults       \* bound: ends, detaches, cancellations, errors and failures, in all

Links == Senders \cup {Rcv}

ASSUME TransfersAssumption ==
    /\ IsFiniteSet(Senders) /\ Rcv \notin Senders
    /\ NoLink \notin Links /\ Stray \notin Links \cup {NoLink}
    /\ Multi \subseteq Senders /\ Detachable \subseteq Links
    /\ \A n \in {M, IncomingWindow, PeerWindow, MaxWork} : n \in Nat \ {0}
    /\ MaxFaults \in Nat /\ PeerWindow < M

VARIABLES
    app,        \* per sender link, the call of Send that hands over its frames
    outcome,    \* per message, its link and how far the call of Send is or what it returned
    mux,        \* the variables of the session's mux
    toLink,     \* per link, the frames that the mux has queued for it
    toPeer,     \* frames written to the network
    rxQ,        \* frames from the peer that the mux has not read
    rcv,        \* the receiver link: deliveries to settle and those awaiting confirmation
    peer,       \* the peer's end of the session
    close,      \* whether Session.Close has been called
    connDone    \* whether the connection is gone

vars == << app, outcome, mux, toLink, toPeer, rxQ, rcv, peer, close, connDone >>

Messages == 1..MaxWork

Without(f, S) == Restrict(f, DOMAIN f \ S)
With(f, k, value) == [x \in DOMAIN f \cup {k} |-> IF x = k THEN value ELSE f[x]]

-----------------------------------------------------------------------------
(* Frames *)

Transfer(l, id, first, more, settled, message) ==
    [type |-> "transfer", link |-> l, id |-> id, first |-> first, more |-> more,
     settled |-> settled, message |-> message]

Disposition(role, first, last, settled) ==
    [type |-> "disposition", role |-> role, first |-> first, last |-> last, settled |-> settled]

\* NextIncomingID is nil in a flow of which nextIncomingID is -1.
Flow(nextIncomingID, window, nextOutgoingID, l, echo) ==
    [type |-> "flow", nextIncomingID |-> nextIncomingID, window |-> window,
     nextOutgoingID |-> nextOutgoingID, link |-> l, echo |-> echo]

Detach(l) == [type |-> "detach", link |-> l]

End == [type |-> "end"]

Unexpected == [type |-> "unexpected"]

\* The loop "for deliveryID := start; deliveryID <= end".
IDsOf(fr) == fr.first..fr.last

-----------------------------------------------------------------------------

Idle == [at |-> "idle", message |-> 0, first |-> TRUE, more |-> FALSE, settled |-> FALSE]

Init ==
    /\ app = [l \in Senders |-> Idle]
    /\ outcome = [m \in Messages |-> [at |-> "none", link |-> NoLink]]
    /\ mux = [at |-> "loop", env |-> NoLink, id |-> 0,
              linkFromInputHandle |-> Links,
              inputHandleFromDeliveryID |-> << >>,
              inputHandleFromRemoteDeliveryID |-> << >>,
              deliveryIDFromOutputHandle |-> << >>,
              settlementFromDeliveryID |-> << >>,
              nextDeliveryID |-> 0, nextOutgoingID |-> 0, nextIncomingID |-> 0,
              remoteIncomingWindow |-> PeerWindow,
              needFlowCount |-> 0,
              closeInProgress |-> FALSE, doneErr |-> "none"]
    /\ toLink = [l \in Links |-> << >>]
    /\ toPeer = << >>
    /\ rxQ = << >>
    /\ rcv = [settle |-> {}, confirm |-> {}]
    /\ peer = [next |-> 0, window |-> PeerWindow, nextOut |-> 0, outWindow |-> IncomingWindow,
               flows |-> 0, partial |-> << >>, unsettled |-> << >>, disposed |-> {},
               answered |-> {}, confirm |-> {}, attached |-> Links,
               erred |-> FALSE, endReceived |-> FALSE, ended |-> FALSE]
    /\ close = FALSE
    /\ connDone = FALSE

\* The bounds: what has been started so far, and what has gone wrong.
CanWork ==
    Cardinality({m \in Messages : outcome[m].at # "none"}) + peer.nextOut + peer.flows < MaxWork

Counts(b) == IF b THEN 1 ELSE 0

CanFail ==
    Counts(close) + Counts(connDone) + Counts(peer.ended) + Counts(peer.erred)
        + Cardinality(Links \ peer.attached)
        + Cardinality({m \in Messages : outcome[m].at = "cancelled"}) < MaxFaults

-----------------------------------------------------------------------------
(* Send: hands the frames of a message to its link, one at a time, waits    *)
(* for each to be written, then for the settlement.                        *)

\* Message m is the next one.
Fresh(m) == outcome[m].at = "none" /\ \A k \in Messages : k < m => outcome[k].at # "none"

StartSend(l) ==
    /\ app[l].at = "idle" /\ CanWork
    /\ \E m \in Messages, more, settled \in IF l \in Multi THEN BOOLEAN ELSE {FALSE} :
          /\ Fresh(m)
          /\ app' = [app EXCEPT ![l] = [at |-> "offer", message |-> m, first |-> TRUE,
                                        more |-> more, settled |-> settled]]
          /\ outcome' = [outcome EXCEPT ![m] = [at |-> "sending", link |-> l]]
    /\ UNCHANGED << mux, toLink, toPeer, rxQ, rcv, peer, close, connDone >>

\* The link's mux takes the frame and holds it until the session does.
LinkTakes(l) ==
    /\ app[l].at = "offer"
    /\ app' = [app EXCEPT ![l].at = "held"]
    /\ UNCHANGED << outcome, mux, toLink, toPeer, rxQ, rcv, peer, close, connDone >>

\* The context ends before the link's mux has taken the frame.
SendCancelled(l) ==
    /\ app[l].at = "offer" /\ CanFail
    /\ app' = [app EXCEPT ![l] = Idle]
    /\ outcome' = [outcome EXCEPT ![app[l].message].at = "cancelled"]
    /\ UNCHANGED << mux, toLink, toPeer, rxQ, rcv, peer, close, connDone >>

\* The context ends while the call waits for the settlement.
WaitCancelled(m) ==
    /\ outcome[m].at = "waiting" /\ CanFail
    /\ outcome' = [outcome EXCEPT ![m].at = "cancelled"]
    /\ UNCHANGED << app, mux, toLink, toPeer, rxQ, rcv, peer, close, connDone >>

\* The done channels of the messages are closed; some of the calls have gone.
Settle(messages) ==
    outcome' = [m \in Messages |-> IF m \in messages /\ outcome[m].at = "waiting"
                                   THEN [outcome[m] EXCEPT !.at = "settled"] ELSE outcome[m]]

-----------------------------------------------------------------------------
(* The connection *)

\* connWriter writes the transfer that the mux waits for.  On the network
\* only the first transfer of a delivery has the delivery's number.
ConnWrites ==
    LET send == app[mux.env]
    IN  /\ mux.at = "writing" /\ ~connDone
        /\ toPeer' = Append(toPeer, Transfer(mux.env, mux.id, send.first, send.more,
                                             send.settled /\ ~send.more, send.message))
        /\ mux' = [mux EXCEPT !.at = "written"]
        /\ UNCHANGED << app, outcome, toLink, rxQ, rcv, peer, close, connDone >>

\* connWriter finds that the context of Send has ended: Send returns its
\* error, and what was written of the message stays written.
ConnRefuses ==
    /\ mux.at = "writing" /\ ~connDone /\ CanFail
    /\ mux' = [mux EXCEPT !.at = "loop", !.env = NoLink]
    /\ app' = [app EXCEPT ![mux.env] = Idle]
    /\ outcome' = [outcome EXCEPT ![app[mux.env].message].at = "cancelled"]
    /\ UNCHANGED << toLink, toPeer, rxQ, rcv, peer, close, connDone >>

ConnFails ==
    /\ ~connDone /\ CanFail
    /\ connDone' = TRUE
    /\ UNCHANGED << app, outcome, mux, toLink, toPeer, rxQ, rcv, peer, close >>

-----------------------------------------------------------------------------
(* Session.mux *)

Running == mux.at = "loop"

\* tx, txTransfer and closed are disabled once the end has been sent.
Sending ==
    Running /\ ~mux.closeInProgress

\* Whether the mux knows the delivery that a later transfer of link l is a
\* part of; the map gives 0 where it does not.
Numbered(l) == app[l].first \/ l \in DOMAIN mux.deliveryIDFromOutputHandle

\* A transfer of link l is received from txTransfer, while the window is
\* open: it is numbered and given to the connWriter.
MuxTransfer(l) ==
    LET id == IF app[l].first THEN mux.nextDeliveryID
              ELSE IF Numbered(l) THEN mux.deliveryIDFromOutputHandle[l] ELSE 0
        settled == app[l].settled /\ ~app[l].more
    IN  /\ Sending /\ mux.remoteIncomingWindow # 0
        /\ app[l].at = "held"
        /\ app' = [app EXCEPT ![l].at = "writing"]
        /\ mux' = [mux EXCEPT
              !.at = "writing", !.env = l, !.id = id,
              !.nextDeliveryID = IF app[l].first THEN (@ + 1) % M ELSE @,
              !.deliveryIDFromOutputHandle = IF app[l].first THEN With(@, l, id) ELSE @,
              !.inputHandleFromDeliveryID =
                  IF settled THEN Without(@, {id})
                  ELSE IF app[l].first THEN With(@, id, l) ELSE @]
        /\ UNCHANGED << outcome, toLink, toPeer, rxQ, rcv, peer, close, connDone >>

\* Mutant of AwaitsSettlement: not for the later transfers of a message.
AwaitsFirst(send) ==
    send.first /\ ~send.more /\ ~send.settled

\* Whether the transfer has a done channel that its settlement closes: the
\* last one of a message has.
AwaitsSettlement(send) ==
    ~send.more /\ ~send.settled

\* The transfer was written: Send offers the message's next one, waits for
\* its settlement, or is done with a settled message.
MuxTransferred ==
    LET l    == mux.env
        send == app[l]
    IN  /\ mux.at = "written"
        /\ mux' = [mux EXCEPT
              !.at = "loop", !.env = NoLink,
              !.settlementFromDeliveryID =
                  IF AwaitsSettlement(send) THEN With(@, mux.id, send.message) ELSE @,
              !.nextOutgoingID = (@ + 1) % M,
              !.remoteIncomingWindow = IF @ # 0 THEN @ - 1 ELSE @]
        /\ app' = [app EXCEPT ![l] = IF send.more
                                     THEN [@ EXCEPT !.at = "offer", !.first = FALSE, !.more = FALSE]
                                     ELSE Idle]
        /\ outcome' = IF send.more THEN outcome
                      ELSE [outcome EXCEPT ![send.message].at = IF send.settled THEN "sent" ELSE "waiting"]
        /\ UNCHANGED << toLink, toPeer, rxQ, rcv, peer, close, connDone >>

\* What txFrame leaves on the network: nothing once the connection is gone.
Put(frames) == toPeer' = IF connDone THEN toPeer ELSE toPeer \o frames

\* closeWithError: the mux and what it writes.
CloseWithError(m) ==
    IF m.closeInProgress THEN m ELSE [m EXCEPT !.closeInProgress = TRUE, !.doneErr = "protocol"]

EndOnce == IF mux.closeInProgress THEN << >> ELSE << End >>

Received(type) == Running /\ rxQ # << >> /\ Head(rxQ).type = type

\* Whether the link does anything with the frame: not with a disposition that
\* settles what it sent.
Matters(l, fr) ==
    fr.type = "disposition" => l = Rcv \/ ~fr.settled

\* muxFrameToLink.
Queue(l, fr) ==
    toLink' = IF Matters(l, fr) THEN [toLink EXCEPT ![l] = Append(@, fr)] ELSE toLink

\* A frame for a handle that is not in use ends the session.
Unattached(m) == mux' = CloseWithError(m) /\ Put(EndOnce) /\ UNCHANGED toLink

\* Mutant of HandlesFor: the role is not looked at.
HandlesForAny(role) ==
    mux.inputHandleFromDeliveryID

\* The map of the deliveries that a disposition of this role is about.
HandlesFor(role) ==
    IF role = "sender" THEN mux.inputHandleFromRemoteDeliveryID ELSE mux.inputHandleFromDeliveryID

\* Mutant of Settles: the role is not looked at.
SettlesAny(fr) ==
    fr.settled

\* Whether a disposition is the settlement that calls of Send wait for.
Settles(fr) ==
    fr.settled /\ fr.role = "receiver"

\* A disposition: every delivery in its range is looked up among those of
\* the direction it is about; a settled one releases the call of Send, and
\* the frame goes to the link of each delivery found.
MuxDisposition ==
    LET fr      == Head(rxQ)
        ours    == fr.role = "receiver"
        handles == HandlesFor(fr.role)
        found   == IDsOf(fr) \cap DOMAIN handles
        done    == IF Settles(fr) THEN found \cap DOMAIN mux.settlementFromDeliveryID ELSE {}
        unknown == {id \in found : handles[id] \notin mux.linkFromInputHandle}
        copies(l) == [i \in 1..Cardinality({id \in found : handles[id] = l}) |-> fr]
        after   == [mux EXCEPT
                      !.inputHandleFromDeliveryID = IF ours THEN Without(@, found) ELSE @,
                      !.inputHandleFromRemoteDeliveryID = IF ours THEN @ ELSE Without(@, found),
                      !.settlementFromDeliveryID = Without(@, done)]
    IN  /\ Received("disposition")
        /\ rxQ' = Tail(rxQ)
        /\ Settle({mux.settlementFromDeliveryID[id] : id \in done})
        /\ mux' = IF unknown # {} THEN CloseWithError(after) ELSE after
        /\ Put(IF unknown # {} THEN EndOnce ELSE << >>)
        /\ toLink' = [l \in Links |-> IF l \in mux.linkFromInputHandle /\ Matters(l, fr)
                                  THEN toLink[l] \o copies(l) ELSE toLink[l]]
        /\ UNCHANGED << app, rcv, peer, close, connDone >>

OurFlow(m) == Flow(m.nextIncomingID, IncomingWindow, m.nextOutgoingID, NoLink, FALSE)

\* Mutant of RemoteIncomingWindow: the transfers on their way are not counted.
RemoteIncomingWindowRaw(fr) ==
    fr.window

\* next-incoming-id(flow) + incoming-window(flow) - next-outgoing-id(endpoint).
RemoteIncomingWindow(fr) ==
    (fr.window - mux.nextOutgoingID + fr.nextIncomingID) % M

\* A flow: the windows are taken over, in uint32 arithmetic, and the flow goes
\* to its link or is answered.
MuxFlow ==
    LET fr    == Head(rxQ)
        after == [mux EXCEPT !.nextIncomingID = fr.nextOutgoingID,
                             !.remoteIncomingWindow = RemoteIncomingWindow(fr)]
    IN  /\ Received("flow")
        /\ rxQ' = Tail(rxQ)
        /\ IF fr.nextIncomingID = -1 THEN Unattached(mux)
           ELSE IF fr.link # NoLink /\ fr.link \notin mux.linkFromInputHandle THEN Unattached(after)
           ELSE /\ mux' = after
                /\ IF fr.link # NoLink THEN Queue(fr.link, fr) /\ Put(<< >>)
                   ELSE /\ Put(IF fr.echo /\ ~mux.closeInProgress THEN << OurFlow(after) >> ELSE << >>)
                        /\ UNCHANGED toLink
        /\ UNCHANGED << app, outcome, rcv, peer, close, connDone >>

\* Mutant of HalfConsumed: more than the window has to be used up.
MoreConsumed(m) ==
    m.needFlowCount > IncomingWindow

HalfConsumed(m) ==
    m.needFlowCount >= IncomingWindow \div 2

\* A transfer for the receiver link: half of the window used up is granted
\* again with a flow.
MuxIncoming ==
    LET fr      == Head(rxQ)
        counted == [mux EXCEPT !.needFlowCount = @ + 1,
                               !.nextIncomingID = (@ + 1) % M]
        kept    == [counted EXCEPT !.inputHandleFromRemoteDeliveryID = With(@, fr.id, fr.link)]
        flow    == HalfConsumed(kept) /\ ~mux.closeInProgress
    IN  /\ Received("transfer")
        /\ rxQ' = Tail(rxQ)
        /\ IF fr.link \notin mux.linkFromInputHandle THEN Unattached(counted)
           ELSE /\ Queue(fr.link, fr)
                /\ mux' = IF flow THEN [kept EXCEPT !.needFlowCount = 0] ELSE kept
                /\ Put(IF flow THEN << OurFlow(kept) >> ELSE << >>)
        /\ UNCHANGED << app, outcome, rcv, peer, close, connDone >>

\* A detach goes to its link, and the mux forgets the link's handles; the
\* numbers of its deliveries stay.
MuxDetach ==
    LET fr == Head(rxQ)
    IN  /\ Received("detach")
        /\ rxQ' = Tail(rxQ)
        /\ IF fr.link \notin mux.linkFromInputHandle THEN Unattached(mux)
           ELSE /\ Queue(fr.link, fr)
                /\ mux' = [mux EXCEPT !.linkFromInputHandle = @ \ {fr.link},
                                      !.deliveryIDFromOutputHandle = Without(@, {fr.link})]
                /\ Put(<< >>)
        /\ UNCHANGED << app, outcome, rcv, peer, close, connDone >>

\* The peer's end, which is either the answer to ours or is answered.
MuxEnd ==
    /\ Received("end")
    /\ rxQ' = Tail(rxQ)
    /\ mux' = [mux EXCEPT !.at = "exited"]
    /\ Put(EndOnce)
    /\ UNCHANGED << app, outcome, toLink, rcv, peer, close, connDone >>

MuxUnexpected ==
    /\ Received("unexpected")
    /\ rxQ' = Tail(rxQ)
    /\ Unattached(mux)
    /\ UNCHANGED << app, outcome, rcv, peer, close, connDone >>

\* Session.Close has closed s.close.
MuxClose ==
    /\ Sending /\ close
    /\ mux' = [mux EXCEPT !.closeInProgress = TRUE]
    /\ Put(<< End >>)
    /\ UNCHANGED << app, outcome, toLink, rxQ, rcv, peer, close, connDone >>

\* The connection is gone, also while a transfer is with the connWriter.
MuxConnDone ==
    /\ connDone /\ mux.at # "exited"
    /\ mux' = [mux EXCEPT !.at = "exited", !.doneErr = "conn"]
    /\ UNCHANGED << app, outcome, toLink, toPeer, rxQ, rcv, peer, close, connDone >>

-----------------------------------------------------------------------------
(* The links: each reads its queue and offers its answers on s.tx; a link   *)
(* that holds a transfer reads nothing until the session has taken it.     *)

Free(l) == l \in Senders => app[l].at \notin {"held", "gone"}

NextFor(l, type) == Free(l) /\ toLink[l] # << >> /\ Head(toLink[l]).type = type

Drop(l) == toLink' = [toLink EXCEPT ![l] = Tail(@)]

\* Mutant of Confirmation: only the first delivery is confirmed.
ConfirmationOfFirst(fr) ==
    Disposition("sender", fr.first, fr.first, TRUE)

Confirmation(fr) ==
    Disposition("sender", fr.first, fr.last, TRUE)

\* A sender link answers a disposition that is not settled with one that is,
\* for the same range; the mux releases the calls of Send.
TxDisposition(l) ==
    LET fr   == Head(toLink[l])
        done == IDsOf(fr) \cap DOMAIN mux.settlementFromDeliveryID
    IN  /\ Sending /\ NextFor(l, "disposition")
        /\ Drop(l)
        /\ Settle({mux.settlementFromDeliveryID[id] : id \in done})
        /\ mux' = [mux EXCEPT !.settlementFromDeliveryID = Without(@, done)]
        /\ Put(<< Confirmation(fr) >>)
        /\ UNCHANGED << app, rxQ, rcv, peer, close, connDone >>

\* The mux fills in the session's part of a link's flow.
LinkFlow(l) == [OurFlow(mux) EXCEPT !.link = l]

TxEcho(l) ==
    /\ Sending /\ NextFor(l, "flow")
    /\ Drop(l)
    /\ Put(<< LinkFlow(l) >>)
    /\ UNCHANGED << app, outcome, mux, rxQ, rcv, peer, close, connDone >>

\* The receiver link settles a delivery.
TxSettle ==
    /\ Sending
    /\ \E id \in rcv.settle :
          /\ rcv' = [rcv EXCEPT !.settle = @ \ {id}, !.confirm = @ \cup {id}]
          /\ Put(<< Disposition("receiver", id, id, FALSE) >>)
    /\ UNCHANGED << app, outcome, mux, toLink, rxQ, peer, close, connDone >>

\* The calls of Send on link l end with the link.
Release(l, value) ==
    /\ app' = [x \in Senders |-> IF x = l THEN [Idle EXCEPT !.at = "gone"] ELSE app[x]]
    /\ outcome' = [m \in Messages |->
          IF outcome[m].link = l /\ outcome[m].at \in {"sending", "waiting"}
          THEN [outcome[m] EXCEPT !.at = value] ELSE outcome[m]]

\* The link reads that the peer has detached it: it answers and ends.
TxDetach(l) ==
    /\ Sending /\ NextFor(l, "detach")
    /\ Drop(l)
    /\ Put(<< Detach(l) >>)
    /\ Release(l, "detached")
    /\ rcv' = IF l = Rcv THEN [settle |-> {}, confirm |-> {}] ELSE rcv
    /\ UNCHANGED << mux, rxQ, peer, close, connDone >>

\* The receiver link reads a delivery, or the confirmation of one.
LinkReads ==
    /\ toLink[Rcv] # << >>
    /\ LET fr == Head(toLink[Rcv])
       IN  \/ fr.type = "transfer" /\ rcv' = [rcv EXCEPT !.settle = @ \cup {fr.id}]
           \/ fr.type = "disposition" /\ rcv' = [rcv EXCEPT !.confirm = @ \ IDsOf(fr)]
    /\ Drop(Rcv)
    /\ UNCHANGED << app, outcome, mux, toPeer, rxQ, peer, close, connDone >>

\* The session is done: the link's mux and its calls of Send end.
SessionDone(l) ==
    /\ mux.at = "exited" /\ app[l].at # "gone"
    /\ Release(l, "failed")
    /\ UNCHANGED << mux, toLink, toPeer, rxQ, rcv, peer, close, connDone >>

CloseSession ==
    /\ ~close /\ CanFail
    /\ close' = TRUE
    /\ UNCHANGED << app, outcome, mux, toLink, toPeer, rxQ, rcv, peer, connDone >>

-----------------------------------------------------------------------------
(* The peer *)

\* The peer may send; of one that has broken the protocol it is enough that
\* it reads, and answers the end.
Talking == ~peer.ended /\ ~peer.erred /\ ~connDone

\* A transfer uses up the window, also on a link that the peer has detached.
PeerTransferred(fr) ==
    LET counted == [peer EXCEPT !.next = (@ + 1) % M, !.window = @ - 1]
        id      == IF fr.first THEN fr.id ELSE peer.partial[fr.link]
    IN  IF fr.link \notin peer.attached THEN counted
        ELSE IF fr.more THEN [counted EXCEPT !.partial = With(@, fr.link, id)]
        ELSE [counted EXCEPT !.partial = Without(@, {fr.link}),
                             !.unsettled = IF fr.settled THEN @
                                           ELSE With(@, id, [message |-> fr.message, link |-> fr.link])]

\* The peer reads a frame; it answers an end, and an echo of its own flows.
PeerReads ==
    /\ ~peer.ended /\ ~connDone /\ toPeer # << >>
    /\ LET fr == Head(toPeer)
       IN  /\ peer' = CASE fr.type = "transfer" -> PeerTransferred(fr)
                        [] fr.type = "disposition" /\ fr.role = "sender" ->
                              [peer EXCEPT !.answered = @ \ IDsOf(fr)]
                        [] fr.type = "disposition" /\ fr.role = "receiver" ->
                              [peer EXCEPT !.confirm = IF Rcv \in peer.attached THEN @ \cup IDsOf(fr) ELSE @]
                        [] fr.type = "flow" ->
                              [peer EXCEPT !.outWindow = (fr.nextIncomingID + fr.window - peer.nextOut) % M]
                        [] fr.type = "end" -> [peer EXCEPT !.endReceived = TRUE, !.ended = TRUE]
                        [] OTHER -> peer
           /\ rxQ' = IF fr.type = "end" THEN Append(rxQ, End) ELSE rxQ
    /\ toPeer' = Tail(toPeer)
    /\ UNCHANGED << app, outcome, mux, toLink, rcv, close, connDone >>

PeerSends(fr) ==
    /\ rxQ' = Append(rxQ, fr)
    /\ UNCHANGED << app, outcome, mux, toLink, toPeer, rcv, close, connDone >>

\* A flow, which never takes back what an earlier one granted; one for a
\* link that asks for no echo gives credit only (Sender).
PeerFlow ==
    /\ Talking /\ CanWork
    /\ \E w \in peer.window..PeerWindow, l \in (peer.attached \cap Senders) \cup {NoLink}, echo \in BOOLEAN :
          /\ l # NoLink => echo
          /\ peer' = [peer EXCEPT !.window = w, !.flows = @ + 1]
          /\ PeerSends(Flow(peer.next, w, peer.nextOut, l, echo))

PeerOpensWindow ==
    /\ Talking /\ peer.window = 0
    /\ peer' = [peer EXCEPT !.window = PeerWindow]
    /\ PeerSends(Flow(peer.next, PeerWindow, peer.nextOut, NoLink, FALSE))

\* A disposition of deliveries that the peer has in full; with the receivers
\* in mode second it is not settled, and answered.
PeerDisposes ==
    /\ Talking
    /\ \E first, last \in DOMAIN peer.unsettled, settled \in BOOLEAN :
          /\ first <= last
          /\ \A id \in first..last : /\ id \in DOMAIN peer.unsettled
                                     /\ peer.unsettled[id].link \in peer.attached
          /\ peer' = [peer EXCEPT
                !.unsettled = Without(@, first..last),
                !.disposed = @ \cup {peer.unsettled[id].message : id \in first..last},
                !.answered = IF settled THEN @ ELSE @ \cup first..last]
          /\ PeerSends(Disposition("receiver", first, last, settled))

PeerTransfers ==
    /\ Talking /\ CanWork /\ peer.outWindow > 0 /\ Rcv \in peer.attached
    /\ peer' = [peer EXCEPT !.nextOut = (@ + 1) % M, !.outWindow = @ - 1]
    /\ PeerSends(Transfer(Rcv, peer.nextOut, TRUE, FALSE, FALSE, 0))

\* The peer confirms deliveries that the receiver link has settled.
PeerConfirms ==
    /\ Talking
    /\ \E id \in peer.confirm :
          /\ peer' = [peer EXCEPT !.confirm = @ \ {id}]
          /\ PeerSends(Disposition("sender", id, id, TRUE))

PeerDetaches(l) ==
    /\ Talking /\ l \in peer.attached /\ CanFail
    /\ peer' = [peer EXCEPT !.attached = @ \ {l},
                            !.confirm = IF l = Rcv THEN {} ELSE @]
    /\ PeerSends(Detach(l))

PeerEnds ==
    /\ Talking /\ CanFail
    /\ peer' = [peer EXCEPT !.ended = TRUE]
    /\ PeerSends(End)

\* What the mux answers by ending the session.
PeerErrs ==
    /\ Talking /\ CanFail
    /\ \E fr \in {Flow(-1, PeerWindow, peer.nextOut, NoLink, FALSE),
                  Flow(peer.next, peer.window, peer.nextOut, Stray, FALSE),
                  Transfer(Stray, peer.nextOut, TRUE, FALSE, FALSE, 0),
                  Detach(Stray), Unexpected}
                 \cup {Disposition("receiver", id, id, TRUE) :
                          id \in {i \in DOMAIN peer.unsettled : peer.unsettled[i].link \notin peer.attached}} :
          /\ peer' = [peer EXCEPT !.erred = TRUE,
                                  !.disposed = IF fr.type = "disposition"
                                               THEN @ \cup {peer.unsettled[fr.first].message} ELSE @]
          /\ PeerSends(fr)

-----------------------------------------------------------------------------

Mux ==
    \/ \E l \in Senders : MuxTransfer(l)
    \/ MuxTransferred \/ MuxDisposition \/ MuxFlow \/ MuxIncoming \/ MuxDetach
    \/ MuxEnd \/ MuxUnexpected \/ MuxClose \/ MuxConnDone

Link(l) ==
    \/ TxDetach(l)
    \/ l \in Senders /\ (LinkTakes(l) \/ TxDisposition(l) \/ TxEcho(l) \/ SessionDone(l))
    \/ l = Rcv /\ (TxSettle \/ LinkReads)

App ==
    \/ \E l \in Senders : StartSend(l) \/ SendCancelled(l)
    \/ \E m \in Messages : WaitCancelled(m)
    \/ CloseSession

Peer ==
    \/ PeerReads \/ PeerFlow \/ PeerOpensWindow \/ PeerDisposes \/ PeerTransfers
    \/ PeerConfirms \/ PeerEnds \/ PeerErrs
    \/ \E l \in Detachable : PeerDetaches(l)

Next ==
    \/ Mux \/ App \/ Peer
    \/ ConnWrites \/ ConnRefuses \/ ConnFails
    \/ \E l \in Links : Link(l)

Spec == Init /\ [][Next]_vars

\* The goroutines run; the peer reads, keeps its window open and settles.
FairSpec ==
    /\ Spec
    /\ WF_vars(Mux) /\ WF_vars(ConnWrites)
    /\ \A l \in Links : WF_vars(Link(l))
    /\ WF_vars(PeerReads) /\ WF_vars(PeerOpensWindow) /\ WF_vars(PeerDisposes) /\ WF_vars(PeerConfirms)

-----------------------------------------------------------------------------
(* Properties *)

\* The transfers on their way never exceed the peer's incoming window, however
\* its flows cross our transfers.
WindowRespected ==
    Cardinality({i \in DOMAIN toPeer : toPeer[i].type = "transfer"}) <= peer.window

\* A call of Send reports that its message was settled only when the peer has
\* disposed of the delivery that carried this message.
SettlementReachesItsSend ==
    \A m \in Messages : outcome[m].at = "settled" => m \in peer.disposed

\* The session is not ended for a protocol error with a peer that made none.
NoSpuriousEnd ==
    mux.doneErr = "protocol" => peer.erred

\* A later transfer of a message is numbered with the delivery that its first
\* transfer started.
LaterTransfersAreNumbered ==
    \A l \in Senders : app[l].at = "held" /\ Sending => Numbered(l)

\* Every call of Send that has handed over its message returns.
SendReturns ==
    \A m \in Messages : outcome[m].at = "waiting" ~> outcome[m].at # "waiting"

\* A peer that has used up our incoming window is allowed to send again,
\* unless the session ends.
WindowReopens ==
    peer.outWindow = 0 ~> peer.outWindow > 0 \/ close \/ peer.ended \/ peer.erred \/ connDone

\* What the peer disposes of without settling it is settled by the sender,
\* unless the session or the link ends.
DispositionsAreAnswered ==
    \A id \in 0..(MaxWork - 1) :
        id \in peer.answered ~> \/ id \notin peer.answered \/ close \/ peer.ended \/ peer.erred
                                \/ connDone \/ peer.attached # Links
=============================================================================
