---------------------------- MODULE ReceiverInv -----------------------------
(***************************************************************************)
(* The invariant of a Receiver link, and the part of its proof that follows *)
(* the deliveries, from the frames on the way to the disposition that      *)
(* settles them, the modes of credit management and the drain under way.   *)
(***************************************************************************)
EXTENDS Receiver, TLAPS

\* The places at which a goroutine has an unsettled message, or any delivery.
Holding == {"got", "add", "offer", "sending", "wait", "settle"}
Owning == Holding \cup {"count"}
Elsewhere == {"idle", "take", "poke", "pokeDrain", "drain"}

RFrames ==
    [type : {"transfer"}, id : Nat, settled : BOOLEAN, more : BOOLEAN, aborted : BOOLEAN]
    \cup [type : {"flow"}, drain : BOOLEAN, echo : BOOLEAN]
    \cup [type : {"disposition"}, first : Nat, last : Nat]
    \cup [type : {"bad", "detach"}]

Messages == [id : Nat, settled : BOOLEAN]

AppTypes ==
    /\ autoSendFlow \in BOOLEAN /\ second \in BOOLEAN /\ (second => autoSendFlow)
    /\ pc \in [Apps -> Owning \cup Elsewhere] /\ msg \in [Apps -> Nat]
    /\ messagesQ \in Seq(Messages)
    /\ settlementCount \in Nat /\ unsettled \in Int /\ calls \in 0 .. MaxCalls
    /\ settledMsgs \subseteq Nat /\ inFlight \subseteq Nat
    /\ mux = "tx" => env \in Apps /\ pc[env] = "sending"

CreditTypes ==
    /\ pendingDrain \in BOOLEAN /\ creditsToAdd \in Nat /\ drained \in Nat /\ drains \in Nat
    /\ linkCredit \in 0 .. (M - 1) /\ count \in Nat
    /\ flow \in [credit : Nat, drain : BOOLEAN]

Grants == [upTo : Nat, drain : BOOLEAN]

PeerTypes ==
    /\ rxQ \in Seq(RFrames)
    /\ toPeer \in Seq(Grants)
    /\ sent \in Nat /\ limit \in Nat /\ mid \in BOOLEAN

RTypes == AppTypes /\ CreditTypes /\ PeerTypes

\* A frame that completes a delivery.
Completes(fr) == fr.type = "transfer" /\ ~fr.aborted /\ ~fr.more

\* The queue q completes the deliveries after c up to s, in order.
InOrder(q, c, s) ==
    /\ c <= s
    /\ \A i \in 1 .. Len(q) : Completes(q[i]) => c < q[i].id /\ q[i].id <= s
    /\ \A i, j \in 1 .. Len(q) : Completes(q[i]) /\ Completes(q[j]) /\ i < j => q[i].id < q[j].id
    /\ \A n \in (c + 1) .. s : \E i \in 1 .. Len(q) : Completes(q[i]) /\ q[i].id = n

\* What is on the way is what the peer has sent and the mux has not counted.
OnTheWay == InOrder(rxQ, count, sent)

\* A delivery that was counted is in one place: messagesQ or one goroutine.
OnePlace ==
    /\ \A i \in 1 .. Len(messagesQ) :
           messagesQ[i].id <= count /\ messagesQ[i].id \notin settledMsgs
    /\ \A i, j \in 1 .. Len(messagesQ) : messagesQ[i].id = messagesQ[j].id => i = j
    /\ \A a \in Apps : pc[a] \in Owning =>
           /\ msg[a] <= count
           /\ \A i \in 1 .. Len(messagesQ) : messagesQ[i].id # msg[a]
    /\ \A a, b \in Apps : pc[a] \in Owning /\ pc[b] \in Owning /\ msg[a] = msg[b] => a = b
    /\ \A d \in settledMsgs : d <= count

\* Settle mode first: what a goroutine is settling has not been settled.
FirstInv ==
    ~second =>
        /\ inFlight = {} /\ signalled = {}
        /\ \A a \in Apps : /\ pc[a] \notin {"add", "wait"}
                           /\ pc[a] \in Holding => msg[a] \notin settledMsgs
        /\ \A i \in 1 .. Len(rxQ) : rxQ[i].type # "disposition"

SettledBy(fr) == fr.first .. fr.last

\* The dispositions in the queue q settle, each for itself, what the peer has answered
\* and is not settled.
Settling(q, answers, settled) ==
    /\ \A i \in 1 .. Len(q) : q[i].type = "disposition" =>
           \A d \in SettledBy(q[i]) : d \in answers /\ d \notin settled
    /\ \A i, j \in 1 .. Len(q) :
           q[i].type = "disposition" /\ q[j].type = "disposition" /\ i # j =>
               \A d \in SettledBy(q[i]) : d \notin SettledBy(q[j])

\* Settle mode second: a disposition of the peer's settles what was not settled.
SecondInv ==
    second =>
        /\ \A a \in Apps : pc[a] # "settle"
        /\ settledMsgs \subseteq answered
        /\ Settling(rxQ, answered, settledMsgs)

\* inFlight holds unsettled messages of goroutines that still hold them, and the
\* goroutines that are woken up find their message settled.
FlightInv ==
    Alive =>
        /\ \A d \in inFlight :
               d \in settledMsgs \/ \E a \in Apps : pc[a] \in Holding /\ msg[a] = d
        /\ \A a \in Apps : a \in signalled /\ pc[a] \in {"offer", "sending", "wait"} =>
               msg[a] \in settledMsgs

MidN == IF mid THEN 1 ELSE 0

\* The peer asks for no echo, or credit is managed for the application.
Tame == autoSendFlow \/ FALSE \notin EchoModes

\* What the link has granted, wherever it is on its way, is what it records, and
\* without autoSendFlow no more than was asked for.
Limits ==
    /\ sent + MidN <= count + linkCredit
    /\ limit <= count + linkCredit
    /\ \A i \in 1 .. Len(toPeer) : toPeer[i].upTo <= count + linkCredit
    /\ mux \in {"start", "flow"} => flow.credit <= linkCredit
    /\ autoSendFlow \/ linkCredit + creditsToAdd <= calls

LimitInv == Alive /\ Tame => Limits

\* A peer asks for echoes in these modes only, and there are drains only without
\* autoSendFlow.
ModeInv ==
    /\ \A i \in 1 .. Len(rxQ) : rxQ[i].type = "flow" /\ rxQ[i].echo => autoSendFlow \in EchoModes
    /\ mux = "echo" => autoSendFlow \in EchoModes
    /\ autoSendFlow => ~pendingDrain
    /\ mux = "start" => autoSendFlow

IsDrain(fr) == fr.type = "flow" /\ fr.drain

\* A drain on its way to the peer, and the answer on its way back.
DrainAsked(t) == \E i \in 1 .. Len(t) : t[i].drain
DrainAnswered(q) == \E i \in 1 .. Len(q) : IsDrain(q[i])

\* Nothing is granted behind a drain, and nothing completed behind the answer.
DrainAtEnd(t, c) == \A i \in 1 .. Len(t) : t[i].drain => i = Len(t) /\ t[i].upTo <= c
DrainLast(q) ==
    \A i \in 1 .. Len(q) : IsDrain(q[i]) =>
        \A j \in 1 .. Len(q) : (IsDrain(q[j]) => i = j) /\ (Completes(q[j]) => j < i)

DrainInFlow == mux = "flow" /\ flow.drain

\* There is one drain at a time, in one place.
OneDrain ==
    /\ drained = 0 => ~pendingDrain
    /\ drained = 0 \/ pendingDrain => ~DrainInFlow /\ ~DrainAsked(toPeer) /\ ~DrainAnswered(rxQ)
    /\ drained # 0 /\ ~pendingDrain => creditsToAdd = 0 /\ (mux = "flow" => flow.drain)
    /\ DrainInFlow => flow.credit = 0 /\ ~DrainAsked(toPeer) /\ ~DrainAnswered(rxQ)
    /\ DrainAsked(toPeer) => ~DrainAnswered(rxQ)
    /\ DrainAtEnd(toPeer, count)
    /\ DrainLast(rxQ)
    /\ DrainAnswered(rxQ) => toPeer = <<>> /\ limit <= count /\ ~mid

DrainInv == Alive /\ ~autoSendFlow /\ FALSE \notin EchoModes => OneDrain

RInv ==
    /\ RTypes /\ OnTheWay /\ OnePlace /\ FirstInv /\ SecondInv /\ FlightInv
    /\ LimitInv /\ ModeInv /\ DrainInv /\ CreditConserved /\ UnsettledIsOwed

-----------------------------------------------------------------------------
(* Queues and goroutines *)

\* What is left of a queue whose head is taken.
LEMMA Taken ==
    ASSUME NEW S, NEW q \in Seq(S), q # <<>>
    PROVE  /\ Tail(q) \in Seq(S) /\ Head(q) = q[1] /\ q[1] \in S
           /\ Len(q) \in Nat /\ Len(q) >= 1 /\ 1 \in 1 .. Len(q) /\ Len(Tail(q)) = Len(q) - 1
           /\ \A i \in 1 .. Len(Tail(q)) : i + 1 \in 1 .. Len(q) /\ Tail(q)[i] = q[i + 1]
           /\ \A i \in 1 .. Len(q) : i = 1 \/ (i - 1 \in 1 .. Len(Tail(q)) /\ Tail(q)[i - 1] = q[i])
  OBVIOUS

\* A queue to which an element is appended.
LEMMA Appended ==
    ASSUME NEW S, NEW q \in Seq(S), NEW x \in S
    PROVE  /\ Append(q, x) \in Seq(S)
           /\ Len(q) \in Nat /\ Len(Append(q, x)) = Len(q) + 1
           /\ Append(q, x)[Len(q) + 1] = x
           /\ \A i \in 1 .. Len(q) : i \in 1 .. Len(Append(q, x)) /\ Append(q, x)[i] = q[i]
           /\ \A i \in 1 .. Len(Append(q, x)) : i = Len(q) + 1 \/ i \in 1 .. Len(q)
  OBVIOUS

\* Where the goroutines are after one of them has gone on.
LEMMA Moves ==
    ASSUME AppTypes, NEW a \in Apps, NEW p \in Owning \cup Elsewhere, Goto(a, p)
    PROVE  /\ pc' \in [Apps -> Owning \cup Elsewhere]
           /\ pc'[a] = p /\ \A b \in Apps : b # a => pc'[b] = pc[b]
  BY Zenon DEF AppTypes, Goto

\* What they hold after one of them has got something else.
LEMMA Holds ==
    ASSUME AppTypes, NEW a \in Apps, NEW n \in Nat, Hold(a, n)
    PROVE  /\ msg' \in [Apps -> Nat]
           /\ msg'[a] = n /\ \A b \in Apps : b # a => msg'[b] = msg[b]
  BY Zenon DEF AppTypes, Hold

\* The frames of the peer.
LEMMA PeerFrames ==
    ASSUME RTypes
    PROVE  /\ \A settled, fragment, aborted \in BOOLEAN : Transfer(settled, fragment, aborted) \in RFrames
           /\ \A drain, echo \in BOOLEAN : FlowFrame(drain, echo) \in RFrames
           /\ \A first, last \in Nat : [type |-> "disposition", first |-> first, last |-> last] \in RFrames
           /\ [type |-> "bad"] \in RFrames /\ [type |-> "detach"] \in RFrames
  BY DEF RTypes, PeerTypes, RFrames, Transfer, FlowFrame

-----------------------------------------------------------------------------
(* Deliveries on the way *)

\* A frame that completes a delivery has its number.
LEMMA CompletesHasId ==
    ASSUME NEW fr \in RFrames, Completes(fr)
    PROVE  fr.id \in Nat
  BY Zenon DEF RFrames, Completes

\* The mux takes the deliveries in order.
LEMMA InOrderTail ==
    ASSUME NEW q \in Seq(RFrames), NEW c \in Nat, NEW s \in Nat, InOrder(q, c, s), q # <<>>
    PROVE  /\ Completes(q[1]) => q[1].id = c + 1 /\ c < s /\ InOrder(Tail(q), c + 1, s)
           /\ ~Completes(q[1]) => InOrder(Tail(q), c, s)
  <1> DEFINE t == Tail(q)
  <1>1. /\ Len(q) \in Nat /\ Len(q) >= 1 /\ Len(t) = Len(q) - 1
        /\ \A i \in 1 .. Len(t) : i + 1 \in 1 .. Len(q) /\ t[i] = q[i + 1]
        /\ \A i \in 1 .. Len(q) : i = 1 \/ (i - 1 \in 1 .. Len(t) /\ t[i - 1] = q[i])
    BY Zenon, Taken
  <1>2. \A i \in 1 .. Len(q) : Completes(q[i]) => q[i].id \in Nat
    BY CompletesHasId
  <1>3. \A i, j \in 1 .. Len(t) : Completes(t[i]) /\ Completes(t[j]) /\ i < j => t[i].id < t[j].id
    <2> SUFFICES ASSUME NEW i \in 1 .. Len(t), NEW j \in 1 .. Len(t), Completes(t[i]), Completes(t[j]), i < j
                 PROVE  t[i].id < t[j].id
      BY Zenon
    <2> DEFINE g == i + 1
               h == j + 1
    <2>1. g \in 1 .. Len(q) /\ h \in 1 .. Len(q) /\ g < h /\ t[i] = q[g] /\ t[j] = q[h]
      BY <1>1
    <2> HIDE DEF g, h, t
    <2> QED
      BY Zenon, <2>1 DEF InOrder
  <1>4. ASSUME NEW n \in (c + 1) .. s, Completes(q[1]) => n # q[1].id
        PROVE  \E i \in 1 .. Len(t) : Completes(t[i]) /\ t[i].id = n
    <2>1. PICK i \in 1 .. Len(q) : Completes(q[i]) /\ q[i].id = n
      BY Zenon DEF InOrder
    <2>2. i # 1
      BY Zenon, <1>4, <2>1
    <2> DEFINE g == i - 1
    <2>3. g \in 1 .. Len(t) /\ t[g] = q[i]
      BY Zenon, <1>1, <2>2
    <2> HIDE DEF g, t
    <2> QED
      BY Zenon, <2>1, <2>3
  <1>5. CASE Completes(q[1])
    <2>1. 1 \in 1 .. Len(q) /\ c < q[1].id /\ q[1].id <= s /\ q[1].id \in Nat
      BY <1>1, <1>2, <1>5 DEF InOrder
    <2>2. q[1].id = c + 1 /\ c < s
      <3>1. c + 1 \in (c + 1) .. s
        BY <2>1
      <3>2. PICK i \in 1 .. Len(q) : Completes(q[i]) /\ q[i].id = c + 1
        BY Zenon, <3>1 DEF InOrder
      <3>3. i = 1 \/ q[1].id < q[i].id
        BY <1>1, <1>5, <2>1, <3>2 DEF InOrder
      <3> QED
        BY <2>1, <3>2, <3>3
    <2>3. \A i \in 1 .. Len(t) : Completes(t[i]) => c + 1 < t[i].id /\ t[i].id <= s
      <3> SUFFICES ASSUME NEW i \in 1 .. Len(t), Completes(t[i]) PROVE c + 1 < t[i].id /\ t[i].id <= s
        BY Zenon
      <3> DEFINE g == i + 1
      <3>1. g \in 1 .. Len(q) /\ 1 < g /\ t[i] = q[g]
        BY <1>1
      <3> HIDE DEF g, t
      <3>2. q[1].id < q[g].id /\ q[g].id <= s
        BY Zenon, <1>5, <2>1, <3>1 DEF InOrder
      <3> QED
        BY Zenon, <2>2, <3>1, <3>2
    <2>4. \A n \in (c + 1 + 1) .. s : n \in (c + 1) .. s /\ n # q[1].id
      BY <2>2
    <2>5. \A n \in (c + 1 + 1) .. s : \E i \in 1 .. Len(t) : Completes(t[i]) /\ t[i].id = n
      BY Zenon, <1>4, <2>4
    <2> HIDE DEF t
    <2>6. c + 1 <= s
      BY <2>2
    <2>7. InOrder(t, c + 1, s)
      BY Zenon, <1>3, <2>3, <2>5, <2>6 DEF InOrder
    <2> QED
      BY Zenon, <1>5, <2>2, <2>7 DEF t
  <1>6. CASE ~Completes(q[1])
    <2>1. \A i \in 1 .. Len(t) : Completes(t[i]) => c < t[i].id /\ t[i].id <= s
      BY Zenon, <1>1 DEF InOrder
    <2>2. \A n \in (c + 1) .. s : \E i \in 1 .. Len(t) : Completes(t[i]) /\ t[i].id = n
      BY Zenon, <1>4, <1>6
    <2> HIDE DEF t
    <2>3. InOrder(t, c, s)
      BY Zenon, <1>3, <2>1, <2>2 DEF InOrder
    <2> QED
      BY Zenon, <1>6, <2>3 DEF t
  <1> QED
    BY Zenon, <1>5, <1>6

\* The peer sends them in order.
LEMMA InOrderAppend ==
    ASSUME NEW q \in Seq(RFrames), NEW c \in Nat, NEW s \in Nat, InOrder(q, c, s), NEW fr \in RFrames
    PROVE  /\ Completes(fr) /\ fr.id = s + 1 => InOrder(Append(q, fr), c, s + 1)
           /\ ~Completes(fr) => InOrder(Append(q, fr), c, s)
  <1> DEFINE t == Append(q, fr)
  <1>1. /\ Len(q) \in Nat /\ Len(t) = Len(q) + 1 /\ t[Len(q) + 1] = fr
        /\ \A i \in 1 .. Len(q) : i \in 1 .. Len(t) /\ t[i] = q[i]
        /\ \A i \in 1 .. Len(t) : i = Len(q) + 1 \/ i \in 1 .. Len(q)
    BY Appended
  <1> DEFINE m == Len(q)
             e == m + 1
  <1>2. /\ e \in 1 .. Len(t) /\ t[e] = fr
        /\ \A i \in 1 .. m : i \in 1 .. Len(t) /\ t[i] = q[i] /\ i < e
        /\ \A i \in 1 .. Len(t) : i = e \/ i \in 1 .. m
        /\ \A i \in 1 .. m : ~(e < i) /\ i # e
    BY <1>1
  <1>3. \A i \in 1 .. m : Completes(q[i]) => c < q[i].id /\ q[i].id <= s /\ q[i].id \in Nat
    BY CompletesHasId DEF InOrder
  <1>4. \A i, j \in 1 .. m : Completes(q[i]) /\ Completes(q[j]) /\ i < j => q[i].id < q[j].id
    BY Zenon DEF InOrder
  <1>5. \A n \in (c + 1) .. s : \E i \in 1 .. m : Completes(q[i]) /\ q[i].id = n
    BY Zenon DEF InOrder
  <1>6. c <= s /\ ~(e < e)
    BY <1>1 DEF InOrder
  <1> HIDE DEF m, e, t
  <1>7. \A n \in (c + 1) .. s : \E i \in 1 .. Len(t) : Completes(t[i]) /\ t[i].id = n
    BY Zenon, <1>2, <1>5
  <1>8. CASE Completes(fr) /\ fr.id = s + 1
    <2>1. \A i \in 1 .. Len(t) : Completes(t[i]) => c < t[i].id /\ t[i].id <= s + 1
      BY <1>2, <1>3, <1>6, <1>8
    <2>2. \A i, j \in 1 .. Len(t) : Completes(t[i]) /\ Completes(t[j]) /\ i < j => t[i].id < t[j].id
      <3> SUFFICES ASSUME NEW i \in 1 .. Len(t), NEW j \in 1 .. Len(t), Completes(t[i]), Completes(t[j]), i < j
                   PROVE  t[i].id < t[j].id
        BY Zenon
      <3>1. CASE j = e
        <4>1. i \in 1 .. m
          BY Zenon, <1>2, <1>6, <3>1
        <4> QED
          BY <1>2, <1>3, <1>8, <3>1, <4>1
      <3>2. CASE j # e
        <4>1. i \in 1 .. m /\ j \in 1 .. m
          BY Zenon, <1>2, <3>2
        <4> QED
          BY Zenon, <1>2, <1>4, <4>1
      <3> QED
        BY Zenon, <3>1, <3>2
    <2>3. \A n \in (c + 1) .. (s + 1) : \E i \in 1 .. Len(t) : Completes(t[i]) /\ t[i].id = n
      <3>1. \A n \in (c + 1) .. (s + 1) : n = s + 1 \/ n \in (c + 1) .. s
        OBVIOUS
      <3> QED
        BY Zenon, <1>2, <1>7, <1>8, <3>1
    <2>4. InOrder(t, c, s + 1)
      BY <1>6, <2>1, <2>2, <2>3 DEF InOrder
    <2> QED
      BY Zenon, <1>8, <2>4 DEF t
  <1>9. CASE ~Completes(fr)
    <2>1. \A i \in 1 .. Len(t) : Completes(t[i]) => i \in 1 .. m /\ t[i] = q[i]
      BY Zenon, <1>2, <1>9
    <2>2. InOrder(t, c, s)
      BY Zenon, <1>3, <1>4, <1>6, <1>7, <2>1 DEF InOrder
    <2> QED
      BY Zenon, <1>9, <2>2 DEF t
  <1> QED
    BY Zenon, <1>8, <1>9

\* What else is true of a frame that the peer sends.
Sendable(fr) ==
    /\ UNCHANGED appsMux
    /\ fr.type = "disposition" =>
           second /\ \A d \in SettledBy(fr) : d \notin answered /\ d \in answered'
    /\ fr.type = "flow" /\ fr.echo => autoSendFlow \in EchoModes
    /\ IsDrain(fr) => PeerReads /\ Head(toPeer).drain /\ ~mid
    /\ fr.type = "transfer" => toPeer' = toPeer /\ limit' = limit /\ (mid \/ sent < limit)

\* What a step does to the frames on the way and to the two counts of deliveries.
QueueStep ==
    \/ UNCHANGED <<rxQ, sent, count>>
    \/ /\ rxQ # <<>> /\ rxQ' = Tail(rxQ) /\ sent' = sent
       /\ Completes(Head(rxQ)) => count' = count + 1
       /\ ~Completes(Head(rxQ)) => count' = count
    \/ \E fr \in RFrames :
          /\ rxQ' = Append(rxQ, fr) /\ count' = count
          /\ Completes(fr) => fr.id = sent + 1 /\ sent' = sent + 1
          /\ ~Completes(fr) => sent' = sent
          /\ Sendable(fr)

\* No other step exists.
LEMMA StepsOfQueue ==
    ASSUME RTypes, [Next]_vars
    PROVE  QueueStep
  <1> USE DEF QueueStep
  <1>1. ASSUME NEW a \in Apps, AppCall(a) \/ AppStep(a) PROVE UNCHANGED <<rxQ, sent, count>>
    BY Zenon, <1>1 DEF AppCall, AppStep, Receive, Take, Count, Poke, Settle, AddInFlight, DispositionLost,
                OnSettlement, Settled, SettlementExpires, IssueCredit, Drain, DrainReturns,
                DrainExpires, creditVars, peerVars
  <1>2. CASE MuxStep
    <2>1. CASE MuxReceive
      BY Zenon, <2>1 DEF MuxReceive, Dequeued, Completes, peerVars
    <2>2. CASE HandleFlow \/ HandleDisposition \/ HandleDetach \/ CloseWithError
      <3>1. rxQ # <<>> /\ rxQ' = Tail(rxQ) /\ UNCHANGED <<sent, count>> /\ Head(rxQ).type # "transfer"
        BY Zenon, <2>2 DEF HandleFlow, HandleDisposition, HandleDetach, CloseWithError, Dequeued, creditVars,
                    peerVars
      <3> QED
        BY Zenon, <3>1 DEF Completes
    <2>3. CASE MuxTop \/ MuxFlow \/ SendEcho \/ (\E a \in Apps : TakeDisposition(a)) \/ SendDisposition
               \/ Ready \/ CloseRequested \/ SendDetach \/ SessionGone \/ Unwind
      BY Zenon, <2>3 DEF MuxTop, MuxFlow, SendEcho, TakeDisposition, SendDisposition, Ready, CloseRequested,
                  SendDetach, SessionGone, Unwind, creditVars, peerVars
    <2> QED
      BY Zenon, <1>2, <2>1, <2>2, <2>3 DEF MuxStep, HandleFrame
  <1>3. CASE PeerStep
    <2>0. UNCHANGED appsMux => count' = count
      BY Zenon DEF appsMux, creditVars
    <2>1. ASSUME NEW settled \in BOOLEAN, PeerSends(settled) PROVE QueueStep
      <3> DEFINE fr == Transfer(settled, FALSE, FALSE)
      <3>1. fr \in RFrames
        BY Zenon, PeerFrames
      <3>2. Completes(fr) /\ fr.id = sent + 1
        BY Zenon DEF Completes, Transfer
      <3>3. rxQ' = Append(rxQ, fr) /\ sent' = sent + 1 /\ count' = count
        BY Zenon, <2>0, <2>1 DEF PeerSends, Deliver
      <3>4. Sendable(fr)
        BY Zenon, <2>1 DEF PeerSends, Sendable, Transfer, IsDrain
      <3> HIDE DEF fr
      <3> QED
        BY Zenon, <3>1, <3>2, <3>3, <3>4
    <2>2. ASSUME NEW fr \in RFrames, Deliver(fr), UNCHANGED <<appsMux, sent>>, ~Completes(fr), Sendable(fr)
          PROVE  QueueStep
      BY Zenon, <2>0, <2>2 DEF Deliver
    <2>3. ASSUME NEW settled \in BOOLEAN, PeerBegins(settled) PROVE QueueStep
      <3>1. Transfer(settled, TRUE, FALSE) \in RFrames /\ ~Completes(Transfer(settled, TRUE, FALSE))
        BY Zenon, PeerFrames DEF Completes, Transfer
      <3>2. Sendable(Transfer(settled, TRUE, FALSE))
        BY Zenon, <2>3 DEF PeerBegins, Sendable, Transfer, IsDrain
      <3> QED
        BY Zenon, <2>2, <2>3, <3>1, <3>2 DEF PeerBegins
    <2>4. CASE PeerAborts
      <3>1. Transfer(FALSE, FALSE, TRUE) \in RFrames
        BY Zenon, PeerFrames
      <3>2. ~Completes(Transfer(FALSE, FALSE, TRUE))
        BY Zenon DEF Completes, Transfer
      <3>3. Sendable(Transfer(FALSE, FALSE, TRUE))
        BY Zenon, <2>4 DEF PeerAborts, Sendable, Transfer, IsDrain
      <3> QED
        BY Zenon, <2>2, <2>4, <3>1, <3>2, <3>3 DEF PeerAborts
    <2>5. CASE PeerReads
      <3>1. FlowFrame(TRUE, FALSE) \in RFrames
        BY Zenon, PeerFrames
      <3>2. ~Completes(FlowFrame(TRUE, FALSE))
        BY Zenon DEF Completes, FlowFrame
      <3>3. CASE UNCHANGED rxQ
        BY Zenon, <2>0, <2>5, <3>3 DEF PeerReads
      <3>4. CASE Head(toPeer).drain /\ ~mid /\ Deliver(FlowFrame(TRUE, FALSE))
        <4>1. Sendable(FlowFrame(TRUE, FALSE))
          BY Zenon, <2>5, <3>4 DEF PeerReads, Sendable, FlowFrame, IsDrain
        <4> QED
          BY Zenon, <2>2, <2>5, <3>1, <3>2, <3>4, <4>1 DEF PeerReads
      <3> QED
        BY Zenon, <2>5, <3>3, <3>4 DEF PeerReads
    <2>6. ASSUME NEW first \in 1 .. MaxSent, NEW last \in 1 .. MaxSent, PeerSettles(first, last)
          PROVE  QueueStep
      <3> DEFINE fr == [type |-> "disposition", first |-> first, last |-> last]
      <3>1. fr \in RFrames
        BY PeerFrames, ReceiverAssumption
      <3>2. ~Completes(fr)
        BY Zenon DEF Completes
      <3>3. Sendable(fr)
        BY Zenon, <2>6 DEF PeerSettles, Sendable, SettledBy, IsDrain
      <3> QED
        BY Zenon, <2>2, <2>6, <3>1, <3>2, <3>3 DEF PeerSettles
    <2>7. ASSUME NEW echo \in BOOLEAN, PeerFlow(echo) PROVE QueueStep
      <3>1. FlowFrame(FALSE, echo) \in RFrames
        BY Zenon, PeerFrames
      <3>2. ~Completes(FlowFrame(FALSE, echo))
        BY Zenon DEF Completes, FlowFrame
      <3>3. Sendable(FlowFrame(FALSE, echo))
        BY Zenon, <2>7 DEF PeerFlow, PeerExtra, Sendable, FlowFrame, IsDrain
      <3> QED
        BY Zenon, <2>2, <2>7, <3>1, <3>2, <3>3 DEF PeerFlow, PeerExtra
    <2>8. CASE PeerBad
      <3>1. [type |-> "bad"] \in RFrames /\ ~Completes([type |-> "bad"])
        BY Zenon, PeerFrames DEF Completes
      <3>2. Sendable([type |-> "bad"])
        BY Zenon, <2>8 DEF PeerBad, PeerExtra, Sendable, IsDrain
      <3> QED
        BY Zenon, <2>2, <2>8, <3>1, <3>2 DEF PeerBad, PeerExtra
    <2>9. CASE PeerDetaches
      <3>1. [type |-> "detach"] \in RFrames /\ ~Completes([type |-> "detach"])
        BY Zenon, PeerFrames DEF Completes
      <3>2. Sendable([type |-> "detach"])
        BY Zenon, <2>9 DEF PeerDetaches, Sendable, IsDrain
      <3> QED
        BY Zenon, <2>2, <2>9, <3>1, <3>2 DEF PeerDetaches
    <2> QED
      BY Zenon, <1>3, <2>1, <2>3, <2>4, <2>5, <2>6, <2>7, <2>8, <2>9 DEF PeerStep
  <1>4. CASE Close \/ SessionEnds \/ SessionDone \/ UNCHANGED vars
    BY Zenon, <1>4 DEF Close, SessionEnds, SessionDone, vars, appsMux, creditVars, peerVars
  <1> QED
    BY Zenon, <1>1, <1>2, <1>3, <1>4 DEF Next

\* Every step keeps the order.
LEMMA StepKeepsOnTheWay ==
    ASSUME RTypes, OnTheWay, [Next]_vars
    PROVE  OnTheWay'
  <1>0. rxQ \in Seq(RFrames) /\ count \in Nat /\ sent \in Nat
    BY Zenon DEF RTypes, PeerTypes, CreditTypes
  <1>1. CASE UNCHANGED <<rxQ, sent, count>>
    BY Zenon, <1>1 DEF OnTheWay
  <1>2. CASE /\ rxQ # <<>> /\ rxQ' = Tail(rxQ) /\ sent' = sent
             /\ Completes(Head(rxQ)) => count' = count + 1
             /\ ~Completes(Head(rxQ)) => count' = count
    <2>1. Head(rxQ) = rxQ[1]
      BY <1>0, <1>2
    <2> QED
      BY Zenon, <1>0, <1>2, <2>1, InOrderTail DEF OnTheWay
  <1>3. ASSUME NEW fr \in RFrames, rxQ' = Append(rxQ, fr), count' = count,
               Completes(fr) => fr.id = sent + 1 /\ sent' = sent + 1,
               ~Completes(fr) => sent' = sent
        PROVE  OnTheWay'
    BY Zenon, <1>0, <1>3, InOrderAppend DEF OnTheWay
  <1> QED
    BY Zenon, <1>1, <1>2, <1>3, StepsOfQueue DEF QueueStep

-----------------------------------------------------------------------------
(* Where the deliveries are *)

Still == UNCHANGED <<pc, msg, messagesQ, settledMsgs, count, unsettled>>

\* A goroutine goes on with the unsettled message that it has, or with none: one
\* that it lets go of was settled in the meantime, if the link is alive.
Carry(a) ==
    /\ UNCHANGED <<messagesQ, settledMsgs, count, unsettled>>
    /\ \E p \in Owning \cup Elsewhere :
          /\ Goto(a, p) /\ pc[a] # "count" /\ p # "count"
          /\ p \in Holding => pc[a] \in Holding /\ UNCHANGED msg
          /\ pc[a] \in Holding /\ p \notin Holding /\ Alive => msg[a] \in settledMsgs
    /\ UNCHANGED msg \/ \E n \in Nat : Hold(a, n)

\* The steps of the goroutines that only carry what they have.
LEMMA AppsCarry ==
    ASSUME RTypes, FlightInv, NEW a \in Apps, AppCall(a) \/ AppStep(a)
    PROVE  Still \/ Carry(a) \/ (Take(a) /\ messagesQ # <<>>) \/ Count(a) \/ OnSettlement(a)
  <1> USE DEF Return, settleVars, creditVars
  <1>p. /\ {"idle", "take", "poke", "drain", "pokeDrain"} \subseteq Elsewhere
        /\ {"got", "add", "offer", "sending", "wait"} \subseteq Holding
        /\ Holding \subseteq Owning
        /\ \A p \in Elsewhere : p \notin Holding /\ p # "count"
        /\ "count" \notin Holding
    BY Zenon DEF Owning, Holding, Elsewhere
  <1>h. ASSUME NEW p \in Holding, Goto(a, p), pc[a] \in Holding,
               UNCHANGED <<msg, messagesQ, settledMsgs, count, unsettled>>
        PROVE  Carry(a)
    BY Zenon, <1>h, <1>p DEF Carry
  <1>e. ASSUME NEW p \in Elsewhere, Goto(a, p), pc[a] # "count",
               UNCHANGED <<messagesQ, settledMsgs, count, unsettled>>,
               pc[a] \in Holding => ~Alive \/ msg[a] \in settledMsgs,
               UNCHANGED msg \/ \E n \in Nat : Hold(a, n)
        PROVE  Carry(a)
    BY Zenon, <1>e, <1>p DEF Carry
  <1>1. CASE Receive(a)
    BY Zenon, <1>1, <1>p, <1>e DEF Receive
  <1>2. CASE Take(a) /\ messagesQ = <<>>
    BY Zenon, <1>2, <1>p, <1>e DEF Take
  <1>4. CASE Poke(a)
    BY Zenon, <1>4, <1>p, <1>e DEF Poke
  <1>5. CASE Settle(a)
    <2>1. CASE msg[a] \in settledMsgs
      BY Zenon, <1>5, <2>1, <1>p, <1>e DEF Settle
    <2>2. CASE msg[a] \notin settledMsgs
      <3> DEFINE p == IF second THEN "add" ELSE "offer"
      <3>1. p \in Holding
        BY Zenon, <1>p
      <3>2. Goto(a, p) /\ UNCHANGED msg
        BY Zenon, <1>5, <2>2 DEF Settle
      <3> HIDE DEF p
      <3> QED
        BY Zenon, <1>5, <3>1, <3>2, <1>p, <1>h DEF Settle
    <2> QED
      BY Zenon, <2>1, <2>2
  <1>6. CASE AddInFlight(a)
    BY Zenon, <1>6, <1>p, <1>h DEF AddInFlight
  <1>7. CASE DispositionLost(a)
    <2>1. ~Alive
      BY Zenon, <1>7 DEF DispositionLost, Alive, Exited
    <2> QED
      BY Zenon, <1>7, <2>1, <1>p, <1>e DEF DispositionLost
  <1>9. CASE Settled(a)
    <2>1. ~Alive \/ msg[a] \in settledMsgs
      BY Zenon, <1>9 DEF Settled, FlightInv
    <2> QED
      BY Zenon, <1>9, <2>1, <1>p, <1>e DEF Settled
  <1>10. CASE SettlementExpires(a)
    BY Zenon, <1>10, <1>p, <1>h DEF SettlementExpires
  <1>11. CASE IssueCredit(a)
    <2>1. CASE drained # 0
      BY Zenon, <1>11, <2>1 DEF IssueCredit, Still
    <2>2. CASE drained = 0
      BY Zenon, <1>11, <2>2, <1>p, <1>e DEF IssueCredit
    <2> QED
      BY Zenon, <2>1, <2>2
  <1>12. CASE Drain(a)
    <2>1. CASE drained # 0
      BY Zenon, <1>12, <2>1 DEF Drain, Still
    <2>2. CASE drained = 0
      <3>1. drains + 1 \in Nat
        BY DEF RTypes, CreditTypes
      <3>2. Hold(a, drains + 1)
        BY Zenon, <1>12, <2>2 DEF Drain
      <3> QED
        BY Zenon, <1>12, <2>2, <3>1, <3>2, <1>p, <1>e DEF Drain
    <2> QED
      BY Zenon, <2>1, <2>2
  <1>13. CASE DrainReturns(a)
    BY Zenon, <1>13, <1>p, <1>e DEF DrainReturns
  <1>14. CASE DrainExpires(a)
    BY Zenon, <1>14, <1>p, <1>e DEF DrainExpires
  <1> QED
    BY ZenonT(60), <1>1, <1>2, <1>4, <1>5, <1>6, <1>7, <1>9, <1>10, <1>11, <1>12, <1>13, <1>14
    DEF AppCall, AppStep

\* Every step leaves the deliveries where they are, carries one along, or is one of
\* those that move, count or settle them.
LEMMA StepsOfDeliveries ==
    ASSUME RTypes, FlightInv, [Next]_vars
    PROVE  \/ Still
           \/ \E a \in Apps : \/ Carry(a) \/ Count(a) \/ OnSettlement(a)
                              \/ Take(a) /\ messagesQ # <<>>
           \/ MuxReceive \/ HandleDisposition
  <1>1. ASSUME NEW a \in Apps, AppCall(a) \/ AppStep(a)
        PROVE  Still \/ Carry(a) \/ (Take(a) /\ messagesQ # <<>>) \/ Count(a) \/ OnSettlement(a)
    BY Zenon, <1>1, AppsCarry
  <1>2. ASSUME NEW a \in Apps, TakeDisposition(a) PROVE Carry(a)
    <2>1. "sending" \in Holding /\ pc[a] \in Holding /\ pc[a] # "count" /\ "sending" \in Owning \cup Elsewhere
      BY Zenon, <1>2 DEF TakeDisposition, Holding, Owning
    <2> QED
      BY Zenon, <1>2, <2>1 DEF TakeDisposition, Carry, settleVars, creditVars
  <1>3. CASE SendDisposition
    <2>1. env \in Apps /\ pc[env] \in Holding /\ pc[env] # "count"
      BY Zenon, <1>3 DEF SendDisposition, RTypes, AppTypes, Holding
    <2> DEFINE w == IF second THEN "wait" ELSE "settle"
    <2>2. Goto(env, w) \/ Goto(env, "got") \/ UNCHANGED pc
      BY Zenon, <1>3 DEF SendDisposition
    <2>3. {w, "got"} \subseteq Holding /\ {w, "got"} \subseteq Owning \cup Elsewhere /\ w # "count"
      BY Zenon DEF Holding, Owning
    <2> HIDE DEF w
    <2>4. UNCHANGED <<msg, messagesQ, settledMsgs, count, unsettled>>
      BY Zenon, <1>3 DEF SendDisposition, settleVars, creditVars
    <2>5. CASE UNCHANGED pc
      BY Zenon, <2>4, <2>5 DEF Still
    <2>6. ASSUME NEW p \in {w, "got"}, Goto(env, p) PROVE Carry(env)
      BY Zenon, <2>1, <2>3, <2>4, <2>6 DEF Carry
    <2> QED
      BY Zenon, <2>1, <2>2, <2>5, <2>6
  <1>4. CASE MuxTop \/ MuxFlow \/ HandleFlow \/ HandleDetach \/ CloseWithError \/ SendEcho \/ Ready
             \/ CloseRequested \/ SendDetach \/ SessionGone \/ Unwind
    BY Zenon, <1>4 DEF MuxTop, MuxFlow, HandleFlow, HandleDetach, CloseWithError, SendEcho, Ready,
                CloseRequested, SendDetach, SessionGone, Unwind, Still, appVars, settleVars, creditVars
  <1>5. CASE PeerStep
    <2>1. UNCHANGED appsMux
      BY Zenon, <1>5 DEF PeerStep, PeerSends, PeerBegins, PeerAborts, PeerReads, PeerSettles, PeerFlow, PeerBad,
                  PeerExtra, PeerDetaches
    <2> QED
      BY Zenon, <2>1 DEF appsMux, Still, appVars, settleVars, creditVars
  <1>6. CASE Close \/ SessionEnds \/ SessionDone \/ UNCHANGED vars
    BY Zenon, <1>6 DEF Close, SessionEnds, SessionDone, vars, appsMux, Still, appVars, settleVars, creditVars
  <1> QED
    BY Zenon, <1>1, <1>2, <1>3, <1>4, <1>5, <1>6 DEF Next, MuxStep, HandleFrame

\* What a disposition of the peer's removes from inFlight is unsettled and held.
LEMMA RemovedAreHeld ==
    ASSUME RTypes, FirstInv, SecondInv, FlightInv, HandleDisposition,
           NEW d \in inFlight \cap (Head(rxQ).first .. Head(rxQ).last)
    PROVE  second /\ d \notin settledMsgs /\ \E a \in Apps : pc[a] \in Holding /\ msg[a] = d
  <1>1. rxQ \in Seq(RFrames) /\ rxQ # <<>> /\ Head(rxQ).type = "disposition" /\ mux = "select"
    BY Zenon DEF RTypes, PeerTypes, HandleDisposition, Dequeued
  <1>2. Head(rxQ) = rxQ[1] /\ 1 \in 1 .. Len(rxQ)
    BY <1>1
  <1>3. second
    BY Zenon, <1>1, <1>2 DEF FirstInv
  <1>4. d \notin settledMsgs
    BY Zenon, <1>1, <1>2, <1>3 DEF SecondInv, Settling, SettledBy
  <1>5. Alive
    BY Zenon, <1>1 DEF Alive
  <1> QED
    BY Zenon, <1>3, <1>4, <1>5 DEF FlightInv

\* A goroutine that carries its message along leaves it in one place.
LEMMA CarryKeepsOnePlace ==
    ASSUME RTypes, OnePlace, NEW a \in Apps, Carry(a)
    PROVE  OnePlace'
  <1>1. PICK p \in Owning \cup Elsewhere :
            /\ Goto(a, p) /\ pc[a] # "count" /\ p # "count"
            /\ p \in Holding => pc[a] \in Holding /\ UNCHANGED msg
    BY Zenon DEF Carry
  <1>2. pc'[a] = p /\ \A b \in Apps : b # a => pc'[b] = pc[b]
    BY Zenon, <1>1, Moves DEF RTypes
  <1>3. \A b \in Apps : b # a => msg'[b] = msg[b]
    BY Zenon, Holds DEF Carry, RTypes
  <1>4. \A b \in Apps : pc'[b] \in Owning => pc[b] \in Owning /\ msg'[b] = msg[b]
    <2> TAKE b \in Apps
    <2>1. CASE b = a
      BY Zenon, <1>1, <1>2, <2>1 DEF Owning
    <2>2. CASE b # a
      BY Zenon, <1>2, <1>3, <2>2
    <2> QED
      BY Zenon, <2>1, <2>2
  <1>5. UNCHANGED <<messagesQ, settledMsgs, count>>
    BY Zenon DEF Carry
  <1> QED
    BY Zenon, <1>4, <1>5 DEF OnePlace

\* Every step leaves every delivery in one place.
LEMMA StepKeepsOnePlace ==
    ASSUME RTypes, OnTheWay, OnePlace, FirstInv, SecondInv, FlightInv, [Next]_vars
    PROVE  OnePlace'
  <1>0. messagesQ \in Seq(Messages) /\ count \in Nat /\ msg \in [Apps -> Nat] /\ settledMsgs \subseteq Nat
    BY Zenon DEF RTypes, AppTypes, CreditTypes
  <1>1. CASE Still
    BY Zenon, <1>1 DEF Still, OnePlace
  <1>2. ASSUME NEW a \in Apps, Carry(a) PROVE OnePlace'
    BY Zenon, <1>2, CarryKeepsOnePlace
  <1>3. ASSUME NEW a \in Apps, Count(a) PROVE OnePlace'
    <2>1. pc'[a] = "poke" /\ \A b \in Apps : b # a => pc'[b] = pc[b]
      BY Zenon, <1>3, Moves DEF Count, Elsewhere, RTypes
    <2>2. \A b \in Apps : pc'[b] \in Owning => pc[b] \in Owning
      BY Zenon, <2>1 DEF Owning, Holding
    <2>3. UNCHANGED <<msg, messagesQ, settledMsgs, count>>
      BY Zenon, <1>3 DEF Count, creditVars
    <2> QED
      BY Zenon, <2>2, <2>3 DEF OnePlace
  <1>4. ASSUME NEW a \in Apps, OnSettlement(a) PROVE OnePlace'
    <2>1. pc'[a] = "poke" /\ \A b \in Apps : b # a => pc'[b] = pc[b]
      BY <1>4, Moves DEF OnSettlement, Elsewhere, RTypes
    <2>2. \A b \in Apps : pc'[b] \in Owning => pc[b] \in Owning
      BY Zenon, <2>1 DEF Owning, Holding
    <2>3. UNCHANGED <<msg, messagesQ, count>> /\ settledMsgs' = settledMsgs \cup {msg[a]} /\ pc[a] \in Owning
      BY <1>4 DEF OnSettlement, creditVars, Owning, Holding
    <2>4. \A i \in 1 .. Len(messagesQ) : messagesQ[i].id \notin settledMsgs'
      BY Zenon, <2>3 DEF OnePlace
    <2>5. \A d \in settledMsgs' : d <= count
      BY Zenon, <2>3 DEF OnePlace
    <2> QED
      BY Zenon, <2>2, <2>3, <2>4, <2>5 DEF OnePlace
  <1>5. ASSUME NEW a \in Apps, Take(a), messagesQ # <<>> PROVE OnePlace'
    <2> DEFINE t == Tail(messagesQ)
    <2>1. /\ Len(messagesQ) \in Nat /\ Len(messagesQ) >= 1 /\ Len(t) = Len(messagesQ) - 1
          /\ Head(messagesQ) = messagesQ[1] /\ messagesQ[1] \in Messages
          /\ \A i \in 1 .. Len(t) : i + 1 \in 1 .. Len(messagesQ) /\ t[i] = messagesQ[i + 1]
      BY Zenon, <1>0, <1>5, Taken
    <2> DEFINE id == messagesQ[1].id
               p == IF messagesQ[1].settled THEN "count" ELSE "got"
    <2>2. p \in Owning \cup Elsewhere /\ id \in Nat /\ 1 \in 1 .. Len(messagesQ)
      BY <2>1 DEF Owning, Holding, Messages
    <2>3. Goto(a, p) /\ Hold(a, id) /\ messagesQ' = t /\ UNCHANGED <<settledMsgs, count>> /\ pc[a] = "take"
      BY Zenon, <1>5, <2>1 DEF Take, settleVars, creditVars
    <2>4. \A i \in 1 .. Len(t) : \E g \in 1 .. Len(messagesQ) : g = i + 1 /\ t[i] = messagesQ[g] /\ g # 1
      BY <2>1
    <2>n. pc[a] \notin Owning
      BY Zenon, <2>3 DEF Owning, Holding
    <2> HIDE DEF t, p
    <2>5. pc'[a] = p /\ \A b \in Apps : b # a => pc'[b] = pc[b]
      BY Zenon, <2>2, <2>3, Moves DEF RTypes
    <2> DEFINE new == id
    <2>6. msg'[a] = new /\ \A b \in Apps : b # a => msg'[b] = msg[b]
      BY <2>2, <2>3, Holds DEF RTypes
    <2>7. /\ \A i \in 1 .. Len(t) : t[i].id <= count /\ t[i].id \notin settledMsgs /\ t[i].id # new
          /\ new <= count /\ \A b \in Apps : pc[b] \in Owning => msg[b] # new
      BY ZenonT(60), <2>2, <2>4 DEF OnePlace
    <2>8. \A i, j \in 1 .. Len(t) : t[i].id = t[j].id => i = j
      <3> SUFFICES ASSUME NEW i \in 1 .. Len(t), NEW j \in 1 .. Len(t), t[i].id = t[j].id PROVE i = j
        BY Zenon
      <3>1. PICK g \in 1 .. Len(messagesQ) : g = i + 1 /\ t[i] = messagesQ[g]
        BY Zenon, <2>4
      <3>2. PICK h \in 1 .. Len(messagesQ) : h = j + 1 /\ t[j] = messagesQ[h]
        BY Zenon, <2>4
      <3>3. g = h
        BY Zenon, <3>1, <3>2 DEF OnePlace
      <3> QED
        BY <2>1, <3>1, <3>2, <3>3
    <2>9. \A b \in Apps : b # a /\ pc'[b] \in Owning =>
              msg'[b] <= count /\ \A i \in 1 .. Len(t) : t[i].id # msg'[b]
      BY <2>4, <2>5, <2>6 DEF OnePlace
    <2> HIDE DEF new
    <2>10. \A b \in Apps : pc'[b] \in Owning =>
              msg'[b] <= count /\ \A i \in 1 .. Len(t) : t[i].id # msg'[b]
      BY Zenon, <2>6, <2>7, <2>9
    <2>11. \A b, c \in Apps : pc'[b] \in Owning /\ pc'[c] \in Owning /\ msg'[b] = msg'[c] => b = c
      <3> SUFFICES ASSUME NEW b \in Apps, NEW c \in Apps, pc'[b] \in Owning, pc'[c] \in Owning,
                          msg'[b] = msg'[c], b # c
                   PROVE  FALSE
        BY Zenon
      <3>1. CASE b # a /\ c # a
        BY Zenon, <2>5, <2>6, <3>1 DEF OnePlace
      <3>2. CASE b = a
        BY Zenon, <2>5, <2>6, <2>7, <3>2
      <3>3. CASE c = a
        BY Zenon, <2>5, <2>6, <2>7, <3>3
      <3> QED
        BY Zenon, <3>1, <3>2, <3>3
    <2> QED
      BY Zenon, <2>3, <2>7, <2>8, <2>10, <2>11 DEF OnePlace
  <1>6. CASE MuxReceive
    <2>0. rxQ \in Seq(RFrames) /\ rxQ # <<>> /\ sent \in Nat
      BY Zenon, <1>6 DEF RTypes, PeerTypes, MuxReceive, Dequeued
    <2>1. Head(rxQ) = rxQ[1] /\ rxQ[1] \in RFrames
      BY <2>0
    <2>2. UNCHANGED <<pc, msg, settledMsgs>>
      BY Zenon, <1>6 DEF MuxReceive, appVars
    <2>3. CASE ~Completes(rxQ[1])
      <3>1. UNCHANGED <<messagesQ, count>>
        BY Zenon, <1>6, <2>1, <2>3 DEF MuxReceive, Dequeued, Completes
      <3> QED
        BY Zenon, <2>2, <3>1 DEF OnePlace
    <2>4. CASE Completes(rxQ[1])
      <3>1. rxQ[1].id = count + 1
        BY Zenon, <1>0, <2>0, <2>4, InOrderTail DEF OnTheWay
      <3>2. rxQ[1].settled \in BOOLEAN
        BY Zenon, <2>1, <2>4 DEF RFrames, Completes
      <3> DEFINE m == [id |-> rxQ[1].id, settled |-> (msgSettled \/ rxQ[1].settled)]
                 t == Append(messagesQ, m)
      <3>3. messagesQ' = t /\ count' = count + 1
        BY Zenon, <1>6, <2>1, <2>4 DEF MuxReceive, Completes
      <3>4. m \in Messages /\ m.id = count + 1
        BY <1>0, <3>1, <3>2 DEF Messages
      <3> HIDE DEF m
      <3>5. /\ Len(messagesQ) \in Nat /\ Len(t) = Len(messagesQ) + 1 /\ t[Len(messagesQ) + 1] = m
            /\ \A i \in 1 .. Len(messagesQ) : t[i] = messagesQ[i]
            /\ \A i \in 1 .. Len(t) : i = Len(messagesQ) + 1 \/ i \in 1 .. Len(messagesQ)
        BY <1>0, <3>4, Appended
      <3> HIDE DEF t
      <3> DEFINE e == Len(messagesQ) + 1
                 q == messagesQ
      <3>6. /\ t[e].id = count + 1
            /\ \A i \in 1 .. Len(t) : i = e \/ (i \in 1 .. Len(q) /\ t[i] = q[i])
        BY Zenon, <3>4, <3>5
      <3> HIDE DEF e
      <3>7. \A i \in 1 .. Len(q) : q[i].id \in Nat /\ q[i].id <= count
        <4>1. \A i \in 1 .. Len(messagesQ) : messagesQ[i] \in Messages
          BY <1>0
        <4>2. \A i \in 1 .. Len(messagesQ) : messagesQ[i].id <= count
          BY Zenon DEF OnePlace
        <4> QED
          BY Zenon, <4>1, <4>2 DEF Messages
      <3>n. /\ \A n \in Nat : n <= count => n <= count + 1 /\ n # count + 1
            /\ count + 1 <= count + 1 /\ ~(count + 1 <= count)
        BY <1>0
      <3>8. \A i \in 1 .. Len(t) : t[i].id <= count + 1 /\ t[i].id \notin settledMsgs
        BY Zenon, <3>6, <3>7, <3>n DEF OnePlace
      <3>9. \A i, j \in 1 .. Len(t) : t[i].id = t[j].id => i = j
        BY ZenonT(60), <3>6, <3>7, <3>n DEF OnePlace
      <3>10. \A b \in Apps : pc[b] \in Owning =>
                 msg[b] <= count + 1 /\ \A i \in 1 .. Len(t) : t[i].id # msg[b]
        <4> TAKE b \in Apps
        <4> HAVE pc[b] \in Owning
        <4>1. msg[b] \in Nat /\ msg[b] <= count /\ \A i \in 1 .. Len(q) : q[i].id # msg[b]
          BY Zenon, <1>0 DEF OnePlace
        <4> QED
          BY Zenon, <3>6, <3>n, <4>1
      <3>11. \A d \in settledMsgs : d <= count + 1
        BY <1>0 DEF OnePlace
      <3> QED
        BY Zenon, <2>2, <3>3, <3>8, <3>9, <3>10, <3>11 DEF OnePlace
    <2> QED
      BY Zenon, <2>3, <2>4
  <1>7. CASE HandleDisposition
    <2> DEFINE removed == inFlight \cap (Head(rxQ).first .. Head(rxQ).last)
    <2>1. UNCHANGED <<pc, msg, messagesQ, count>> /\ settledMsgs' = settledMsgs \cup removed
      BY Zenon, <1>7 DEF HandleDisposition, appVars, creditVars
    <2>2. \A d \in removed : \E a \in Apps : pc[a] \in Holding /\ msg[a] = d
      BY Zenon, <1>7, RemovedAreHeld
    <2> HIDE DEF removed
    <2>3. \A d \in removed : d <= count /\ \A i \in 1 .. Len(messagesQ) : messagesQ[i].id # d
      BY ZenonT(60), <2>2 DEF OnePlace, Owning
    <2>4. /\ \A d \in settledMsgs' : d <= count
          /\ \A i \in 1 .. Len(messagesQ) : messagesQ[i].id \notin settledMsgs'
      BY Zenon, <2>1, <2>3 DEF OnePlace
    <2> QED
      BY Zenon, <2>1, <2>4 DEF OnePlace
  <1> QED
    BY Zenon, <1>1, <1>2, <1>3, <1>4, <1>5, <1>6, <1>7, StepsOfDeliveries

-----------------------------------------------------------------------------
(* Settling *)

\* The options of a link do not change, and what the peer has settled stays so.
LEMMA ConfStays ==
    ASSUME [Next]_vars
    PROVE  UNCHANGED <<autoSendFlow, second>> /\ answered \subseteq answered'
  <1>1. ASSUME NEW a \in Apps, AppCall(a) \/ AppStep(a) PROVE UNCHANGED <<autoSendFlow, second, answered>>
    BY Zenon, <1>1 DEF AppCall, AppStep, Receive, Take, Count, Poke, Settle, AddInFlight, DispositionLost,
                OnSettlement, Settled, SettlementExpires, IssueCredit, Drain, DrainReturns,
                DrainExpires, conf, peerVars
  <1>2. CASE MuxStep
    BY Zenon, <1>2 DEF MuxStep, HandleFrame, MuxTop, MuxFlow, MuxReceive, HandleFlow, HandleDisposition,
           HandleDetach, CloseWithError, SendEcho, TakeDisposition, SendDisposition, Ready,
           CloseRequested, SendDetach, SessionGone, Unwind, conf, peerVars
  <1>3. CASE PeerStep
    BY Zenon, <1>3 DEF PeerStep, PeerSends, PeerBegins, PeerAborts, PeerReads, PeerSettles, PeerFlow, PeerBad,
                PeerExtra, PeerDetaches, appsMux, conf
  <1>4. CASE Close \/ SessionEnds \/ SessionDone \/ UNCHANGED vars
    BY Zenon, <1>4 DEF Close, SessionEnds, SessionDone, vars, appsMux, conf, peerVars
  <1> QED
    BY Zenon, <1>1, <1>2, <1>3, <1>4 DEF Next

\* A mux that unwinds does not come back.
LEMMA AliveBefore ==
    ASSUME [Next]_vars, Alive'
    PROVE  Alive
  <1>1. ASSUME NEW a \in Apps, AppCall(a) \/ AppStep(a) PROVE UNCHANGED mux
    BY Zenon, <1>1 DEF AppCall, AppStep, Receive, Take, Count, Poke, Settle, AddInFlight, DispositionLost,
                OnSettlement, Settled, SettlementExpires, IssueCredit, Drain, DrainReturns, DrainExpires
  <1>2. CASE MuxStep
    BY Zenon, <1>2 DEF MuxStep, HandleFrame, MuxTop, MuxFlow, MuxReceive, HandleFlow, HandleDisposition,
           HandleDetach, CloseWithError, SendEcho, TakeDisposition, SendDisposition, Ready,
           CloseRequested, SendDetach, SessionGone, Unwind, Dequeued, Alive
  <1>3. CASE PeerStep
    BY Zenon, <1>3 DEF PeerStep, PeerSends, PeerBegins, PeerAborts, PeerReads, PeerSettles, PeerFlow, PeerBad,
                PeerExtra, PeerDetaches, appsMux, Alive
  <1>4. CASE Close \/ SessionEnds \/ SessionDone \/ UNCHANGED vars
    BY Zenon, <1>4 DEF Close, SessionEnds, SessionDone, vars, appsMux, Alive
  <1> QED
    BY Zenon, <1>1, <1>2, <1>3, <1>4 DEF Next, Alive

\* Where a goroutine may go, as far as settling is concerned.
PcStep(b) ==
    \/ pc'[b] = pc[b]
    \/ pc'[b] \in Elsewhere \cup {"count"}
    \/ pc'[b] = "got" /\ pc[b] \in {"take", "wait", "sending"}
    \/ pc'[b] = "add" /\ pc[b] = "got" /\ second
    \/ pc'[b] = "offer" /\ (AddInFlight(b) \/ ~second)
    \/ pc'[b] = "sending" /\ pc[b] = "offer"
    \/ pc'[b] = "wait" /\ pc[b] = "sending" /\ second
    \/ pc'[b] = "settle" /\ pc[b] = "sending" /\ ~second

\* It goes nowhere else.
LEMMA StepsOfPc ==
    ASSUME RTypes, [Next]_vars, NEW b \in Apps
    PROVE  PcStep(b)
  <1>0. ASSUME UNCHANGED pc PROVE PcStep(b)
    BY Zenon, <1>0 DEF PcStep
  <1>a. ASSUME NEW a \in Apps, NEW p \in Owning \cup Elsewhere, Goto(a, p)
        PROVE  pc'[a] = p /\ (b # a => PcStep(b))
    BY Zenon, <1>a, Moves DEF PcStep, RTypes
  <1>p. {"idle", "take", "count", "got", "poke", "add", "offer", "sending", "wait", "settle",
         "drain", "pokeDrain"} = Owning \cup Elsewhere
    BY Zenon DEF Owning, Holding, Elsewhere
  <1>e. ASSUME NEW a \in Apps, NEW p \in Elsewhere, Goto(a, p) PROVE PcStep(b)
    BY Zenon, <1>e, <1>a DEF PcStep
  <1>i. {"idle", "take", "poke", "drain", "pokeDrain"} = Elsewhere
    BY Zenon DEF Elsewhere
  <1>1. ASSUME NEW a \in Apps, AppCall(a) \/ AppStep(a) PROVE PcStep(b)
    <2> USE DEF Return
    <2>1. CASE Receive(a) \/ Count(a) \/ Poke(a) \/ DispositionLost(a) \/ OnSettlement(a) \/ Settled(a)
               \/ DrainReturns(a) \/ DrainExpires(a)
      BY Zenon, <2>1, <1>e, <1>i DEF Receive, Count, Poke, DispositionLost, OnSettlement, Settled, DrainReturns,
                              DrainExpires
    <2>2. CASE Take(a)
      <3>1. \/ Goto(a, "idle")
            \/ Goto(a, IF Head(messagesQ).settled THEN "count" ELSE "got")
        BY Zenon, <2>2 DEF Take
      <3> DEFINE p == IF Head(messagesQ).settled THEN "count" ELSE "got"
      <3>2. p \in {"count", "got"} /\ pc[a] = "take"
        BY Zenon, <2>2 DEF Take
      <3> HIDE DEF p
      <3>3. CASE Goto(a, p)
        BY Zenon, <1>a, <1>p, <3>2, <3>3 DEF PcStep
      <3> QED
        BY Zenon, <1>e, <1>i, <3>1, <3>3 DEF p
    <2>3. CASE Settle(a)
      <3>1. CASE second
        BY Zenon, <1>a, <1>e, <1>i, <1>p, <2>3, <3>1 DEF Settle, PcStep
      <3>2. CASE ~second
        BY <1>a, <1>e, <1>i, <1>p, <2>3, <3>2 DEF Settle, PcStep
      <3> QED
        BY Zenon, <3>1, <3>2
    <2>4. CASE AddInFlight(a)
      <3>1. Goto(a, "offer") /\ pc[a] = "add"
        BY Zenon, <2>4 DEF AddInFlight
      <3> QED
        BY Zenon, <1>a, <1>p, <2>4, <3>1 DEF PcStep
    <2>5. CASE SettlementExpires(a)
      BY Zenon, <1>a, <1>p, <2>5 DEF SettlementExpires, PcStep
    <2>6. CASE IssueCredit(a)
      BY Zenon, <1>0, <1>e, <1>i, <2>6 DEF IssueCredit
    <2>7. CASE Drain(a)
      BY Zenon, <1>0, <1>e, <1>i, <2>7 DEF Drain
    <2> QED
      BY Zenon, <1>1, <2>1, <2>2, <2>3, <2>4, <2>5, <2>6, <2>7 DEF AppCall, AppStep
  <1>2. ASSUME NEW a \in Apps, TakeDisposition(a) PROVE PcStep(b)
    BY Zenon, <1>2, <1>a, <1>p DEF TakeDisposition, PcStep
  <1>3. CASE SendDisposition
    <2>1. env \in Apps /\ pc[env] = "sending"
      BY Zenon, <1>3 DEF SendDisposition, RTypes, AppTypes
    <2>2. CASE second
      BY Zenon, <1>0, <1>3, <1>a, <1>p, <2>1, <2>2 DEF SendDisposition, PcStep
    <2>3. CASE ~second
      BY Zenon, <1>0, <1>3, <1>a, <1>p, <2>1, <2>3 DEF SendDisposition, PcStep
    <2> QED
      BY Zenon, <2>2, <2>3
  <1>4. CASE MuxTop \/ MuxFlow \/ HandleFrame \/ SendEcho \/ Ready \/ CloseRequested \/ SendDetach
             \/ SessionGone \/ Unwind
    BY Zenon, <1>0, <1>4 DEF MuxTop, MuxFlow, HandleFrame, MuxReceive, HandleFlow, HandleDisposition,
           HandleDetach, CloseWithError, SendEcho, Ready, CloseRequested, SendDetach, SessionGone,
           Unwind, appVars
  <1>5. CASE PeerStep
    BY Zenon, <1>0, <1>5 DEF PeerStep, PeerSends, PeerBegins, PeerAborts, PeerReads, PeerSettles, PeerFlow,
                PeerBad, PeerExtra, PeerDetaches, appsMux, appVars
  <1>6. CASE Close \/ SessionEnds \/ SessionDone \/ UNCHANGED vars
    BY Zenon, <1>0, <1>6 DEF Close, SessionEnds, SessionDone, vars, appsMux, appVars
  <1> QED
    BY Zenon, <1>1, <1>2, <1>3, <1>4, <1>5, <1>6 DEF Next, MuxStep

\* What is settled stays settled; a message that a goroutine holds, it held before or
\* has just taken; one that it lets go of is settled, if the link is alive.
HoldingStep ==
    /\ settledMsgs \subseteq settledMsgs'
    /\ \A b \in Apps : pc'[b] \in Holding =>
           \/ pc[b] \in Holding /\ msg'[b] = msg[b]
           \/ messagesQ # <<>> /\ msg'[b] = messagesQ[1].id /\ settledMsgs' = settledMsgs
    /\ \A b \in Apps : pc[b] \in Holding /\ pc'[b] \notin Holding /\ Alive => msg[b] \in settledMsgs'

\* There is no other step.
LEMMA StepsOfHolding ==
    ASSUME RTypes, FlightInv, [Next]_vars
    PROVE  HoldingStep
  <1>1. ASSUME Still PROVE HoldingStep
    BY Zenon, <1>1 DEF Still, HoldingStep
  <1>2. ASSUME NEW a \in Apps, Carry(a) PROVE HoldingStep
    <2>1. PICK p \in Owning \cup Elsewhere :
            /\ Goto(a, p) /\ pc[a] # "count" /\ p # "count"
            /\ p \in Holding => pc[a] \in Holding /\ UNCHANGED msg
            /\ pc[a] \in Holding /\ p \notin Holding /\ Alive => msg[a] \in settledMsgs
      BY <1>2 DEF Carry
    <2>2. pc'[a] = p /\ \A b \in Apps : b # a => pc'[b] = pc[b]
      BY Zenon, <2>1, Moves DEF RTypes
    <2>3. (\A b \in Apps : b # a => msg'[b] = msg[b]) /\ UNCHANGED settledMsgs
      BY Zenon, <1>2, Holds DEF Carry, RTypes
    <2> QED
      BY Zenon, <2>1, <2>2, <2>3 DEF HoldingStep
  <1>3. ASSUME NEW a \in Apps, Count(a) PROVE HoldingStep
    <2>1. pc'[a] = "poke" /\ \A b \in Apps : b # a => pc'[b] = pc[b]
      BY Zenon, <1>3, Moves DEF Count, Elsewhere, RTypes
    <2>2. UNCHANGED <<msg, settledMsgs>> /\ pc[a] \notin Holding /\ "poke" \notin Holding
      BY Zenon, <1>3 DEF Count, Holding
    <2> QED
      BY Zenon, <2>1, <2>2 DEF HoldingStep
  <1>4. ASSUME NEW a \in Apps, OnSettlement(a) PROVE HoldingStep
    <2>1. pc'[a] = "poke" /\ \A b \in Apps : b # a => pc'[b] = pc[b]
      BY Zenon, <1>4, Moves DEF OnSettlement, Elsewhere, RTypes
    <2>2. UNCHANGED msg /\ settledMsgs' = settledMsgs \cup {msg[a]} /\ "poke" \notin Holding
      BY Zenon, <1>4 DEF OnSettlement, Holding
    <2> QED
      BY Zenon, <2>1, <2>2 DEF HoldingStep
  <1>5. ASSUME NEW a \in Apps, Take(a), messagesQ # <<>> PROVE HoldingStep
    <2>0. messagesQ \in Seq(Messages)
      BY Zenon DEF RTypes, AppTypes
    <2>1. Head(messagesQ) = messagesQ[1] /\ messagesQ[1] \in Messages
      BY Zenon, <1>5, <2>0, Taken
    <2> DEFINE id == messagesQ[1].id
               p == IF messagesQ[1].settled THEN "count" ELSE "got"
    <2>2. p \in Owning \cup Elsewhere /\ id \in Nat
      BY Zenon, <2>1 DEF Owning, Holding, Messages
    <2>3. Goto(a, p) /\ Hold(a, id) /\ UNCHANGED settledMsgs /\ pc[a] \notin Holding
      BY Zenon, <1>5, <2>1 DEF Take, settleVars, Holding
    <2> HIDE DEF p
    <2>5. pc'[a] = p /\ \A b \in Apps : b # a => pc'[b] = pc[b]
      BY Zenon, <2>2, <2>3, Moves DEF RTypes
    <2>6. msg'[a] = id /\ \A b \in Apps : b # a => msg'[b] = msg[b]
      BY Zenon, <2>2, <2>3, Holds DEF RTypes
    <2> QED
      BY Zenon, <1>5, <2>3, <2>5, <2>6 DEF HoldingStep
  <1>6. ASSUME MuxReceive PROVE HoldingStep
    BY Zenon, <1>6 DEF MuxReceive, appVars, HoldingStep
  <1>7. ASSUME HandleDisposition PROVE HoldingStep
    BY Zenon, <1>7 DEF HandleDisposition, appVars, HoldingStep
  <1> QED
    BY Zenon, <1>1, <1>2, <1>3, <1>4, <1>5, <1>6, <1>7, StepsOfDeliveries

\* What a step does to inFlight and to the wait channels.
LEMMA StepsOfFlight ==
    ASSUME RTypes, [Next]_vars
    PROVE  \/ inFlight' = inFlight /\ signalled' \subseteq signalled
           \/ \E a \in Apps : /\ AddInFlight(a) /\ inFlight' = inFlight \cup {msg[a]}
                              /\ signalled' = signalled \ {a}
           \/ HandleDisposition
           \/ /\ mux' = "exited" /\ inFlight' = {}
              /\ signalled' = signalled \cup {a \in Apps : msg[a] \in inFlight}
  <1> USE DEF settleVars
  <1>1. ASSUME NEW a \in Apps, AppCall(a) \/ AppStep(a)
        PROVE  \/ inFlight' = inFlight /\ signalled' \subseteq signalled
               \/ AddInFlight(a) /\ inFlight' = inFlight \cup {msg[a]} /\ signalled' = signalled \ {a}
    BY ZenonT(60), <1>1 DEF AppCall, AppStep, Receive, Take, Count, Poke, Settle, AddInFlight, DispositionLost,
                OnSettlement, Settled, SettlementExpires, IssueCredit, Drain, DrainReturns, DrainExpires
  <1>2. CASE MuxStep
    BY Zenon, <1>2 DEF MuxStep, HandleFrame, MuxTop, MuxFlow, MuxReceive, HandleFlow,
           HandleDetach, CloseWithError, SendEcho, TakeDisposition, SendDisposition, Ready,
           CloseRequested, SendDetach, SessionGone, Unwind
  <1>3. CASE PeerStep
    BY Zenon, <1>3 DEF PeerStep, PeerSends, PeerBegins, PeerAborts, PeerReads, PeerSettles, PeerFlow, PeerBad,
                PeerExtra, PeerDetaches, appsMux
  <1>4. CASE Close \/ SessionEnds \/ SessionDone \/ UNCHANGED vars
    BY Zenon, <1>4 DEF Close, SessionEnds, SessionDone, vars, appsMux
  <1> QED
    BY Zenon, <1>1, <1>2, <1>3, <1>4 DEF Next

\* Every step of a link in settle mode first.
LEMMA StepKeepsFirstInv ==
    ASSUME RTypes, OnePlace, FirstInv, SecondInv, FlightInv, [Next]_vars
    PROVE  FirstInv'
  <1> SUFFICES ASSUME ~second PROVE FirstInv'
    BY Zenon, ConfStays DEF FirstInv
  <1>0. /\ inFlight = {} /\ signalled = {} /\ rxQ \in Seq(RFrames)
        /\ \A a \in Apps : /\ pc[a] \notin {"add", "wait"}
                           /\ pc[a] \in Holding => msg[a] \notin settledMsgs
        /\ \A i \in 1 .. Len(rxQ) : rxQ[i].type # "disposition"
    BY Zenon DEF FirstInv, RTypes, PeerTypes
  <1>1. ~HandleDisposition
    <2>1. rxQ # <<>> => Head(rxQ).type # "disposition"
      <3>1. rxQ # <<>> => Head(rxQ) = rxQ[1] /\ 1 \in 1 .. Len(rxQ)
        BY Zenon, <1>0, Taken
      <3> QED
        BY Zenon, <1>0, <3>1
    <2> QED
      BY Zenon, <2>1 DEF HandleDisposition, Dequeued
  <1>2. inFlight' = {} /\ signalled' = {}
    BY Zenon, <1>0, <1>1, StepsOfFlight DEF AddInFlight
  <1>3. \A a \in Apps : pc'[a] \notin {"add", "wait"}
    BY Zenon, <1>0, StepsOfPc DEF PcStep, Elsewhere
  <1>4. \A b \in Apps : pc'[b] \in Holding => msg'[b] \notin settledMsgs'
    <2> SUFFICES ASSUME NEW b \in Apps, pc'[b] \in Holding PROVE msg'[b] \notin settledMsgs'
      BY Zenon
    <2>1. CASE messagesQ # <<>> /\ msg'[b] = messagesQ[1].id /\ settledMsgs' = settledMsgs
      <3>1. messagesQ \in Seq(Messages)
        BY Zenon DEF RTypes, AppTypes
      <3>2. 1 \in 1 .. Len(messagesQ)
        BY Zenon, <2>1, <3>1, Taken
      <3> QED
        BY Zenon, <2>1, <3>2 DEF OnePlace
    <2>2. CASE pc[b] \in Holding /\ msg'[b] = msg[b]
      <3>1. CASE UNCHANGED settledMsgs
        BY Zenon, <1>0, <2>2, <3>1
      <3>2. ASSUME NEW a \in Apps, OnSettlement(a) PROVE msg'[b] \notin settledMsgs'
        <4>1. pc'[a] = "poke" /\ "poke" \notin Holding
          BY Zenon, <3>2, Moves DEF OnSettlement, Elsewhere, RTypes, Holding
        <4>2. settledMsgs' = settledMsgs \cup {msg[a]} /\ pc[a] \in Owning
          BY Zenon, <3>2 DEF OnSettlement, Owning, Holding
        <4>3. msg[a] # msg[b]
          BY Zenon, <2>2, <4>1, <4>2 DEF OnePlace, Owning
        <4> QED
          BY Zenon, <1>0, <2>2, <4>2, <4>3
      <3> QED
        BY Zenon, <1>1, <3>1, <3>2, StepsOfDeliveries DEF Still, Carry, Count, Take, MuxReceive, settleVars
    <2> QED
      BY Zenon, <2>1, <2>2, StepsOfHolding DEF HoldingStep
  <1>5. \A i \in 1 .. Len(rxQ') : rxQ'[i].type # "disposition"
    <2>1. CASE UNCHANGED rxQ
      BY Zenon, <1>0, <2>1
    <2>2. CASE rxQ # <<>> /\ rxQ' = Tail(rxQ)
      BY <1>0, <2>2, Taken
    <2>3. ASSUME NEW fr \in RFrames, rxQ' = Append(rxQ, fr), fr.type # "disposition"
          PROVE  \A i \in 1 .. Len(rxQ') : rxQ'[i].type # "disposition"
      BY <1>0, <2>3, Appended
    <2> QED
      BY Zenon, <2>1, <2>2, <2>3, StepsOfQueue DEF QueueStep, Sendable
  <1> QED
    BY Zenon, <1>2, <1>3, <1>4, <1>5 DEF FirstInv

\* The mux takes a frame, and with it settles some of what it settles, if it does.
LEMMA SettlingTail ==
    ASSUME NEW q \in Seq(RFrames), NEW A, NEW S, Settling(q, A, S), q # <<>>
    PROVE  /\ Settling(Tail(q), A, S)
           /\ \A R : q[1].type = "disposition" /\ R \subseteq SettledBy(q[1]) =>
                  R \subseteq A /\ Settling(Tail(q), A, S \cup R)
  <1> DEFINE t == Tail(q)
  <1>1. /\ 1 \in 1 .. Len(q)
        /\ \A i \in 1 .. Len(t) : \E g \in 1 .. Len(q) : g = i + 1 /\ t[i] = q[g] /\ g # 1
    BY Taken
  <1>2. \A i, j \in 1 .. Len(t) :
            t[i].type = "disposition" /\ t[j].type = "disposition" /\ i # j =>
                \A d \in SettledBy(t[i]) : d \notin SettledBy(t[j])
    <2> SUFFICES ASSUME NEW i \in 1 .. Len(t), NEW j \in 1 .. Len(t), t[i].type = "disposition",
                        t[j].type = "disposition", i # j, NEW d \in SettledBy(t[i])
                 PROVE  d \notin SettledBy(t[j])
      BY Zenon
    <2>1. PICK g \in 1 .. Len(q) : g = i + 1 /\ t[i] = q[g]
      BY Zenon, <1>1
    <2>2. PICK h \in 1 .. Len(q) : h = j + 1 /\ t[j] = q[h]
      BY Zenon, <1>1
    <2>3. g # h
      BY <2>1, <2>2
    <2> HIDE DEF t
    <2> QED
      BY Zenon, <2>1, <2>2, <2>3 DEF Settling
  <1> HIDE DEF t
  <1>3. Settling(t, A, S)
    BY Zenon, <1>1, <1>2 DEF Settling
  <1>4. ASSUME NEW R, q[1].type = "disposition", R \subseteq SettledBy(q[1])
        PROVE  R \subseteq A /\ Settling(t, A, S \cup R)
    <2>1. \A i \in 1 .. Len(t) : t[i].type = "disposition" => \A d \in SettledBy(t[i]) : d \notin R
      BY Zenon, <1>1, <1>4 DEF Settling
    <2>2. R \subseteq A
      BY Zenon, <1>1, <1>4 DEF Settling
    <2> QED
      BY Zenon, <1>3, <2>1, <2>2 DEF Settling
  <1> QED
    BY Zenon, <1>3, <1>4 DEF t

\* The peer settles what it has not settled before.
LEMMA SettlingAppend ==
    ASSUME NEW q \in Seq(RFrames), NEW A, NEW B, NEW S, Settling(q, A, S), A \subseteq B, S \subseteq A,
           NEW fr \in RFrames,
           fr.type = "disposition" => \A d \in SettledBy(fr) : d \notin A /\ d \in B
    PROVE  Settling(Append(q, fr), B, S)
  <1> DEFINE t == Append(q, fr)
             e == Len(q) + 1
  <1>1. t[e] = fr /\ \A i \in 1 .. Len(t) : i = e \/ (i \in 1 .. Len(q) /\ t[i] = q[i])
    BY Appended
  <1> HIDE DEF t, e
  <1>2. \A i \in 1 .. Len(t) : t[i].type = "disposition" =>
           \A d \in SettledBy(t[i]) : d \in B /\ d \notin S
    BY Zenon, <1>1 DEF Settling
  <1>3. \A i, j \in 1 .. Len(t) :
            t[i].type = "disposition" /\ t[j].type = "disposition" /\ i # j =>
                \A d \in SettledBy(t[i]) : d \notin SettledBy(t[j])
    BY Zenon, <1>1 DEF Settling
  <1> QED
    BY Zenon, <1>2, <1>3 DEF Settling, t

\* Every step of a link in settle mode second.
LEMMA StepKeepsSecondInv ==
    ASSUME RTypes, OnePlace, FirstInv, SecondInv, FlightInv, [Next]_vars
    PROVE  SecondInv'
  <1> SUFFICES ASSUME second PROVE SecondInv'
    BY Zenon, ConfStays DEF SecondInv
  <1>0. /\ rxQ \in Seq(RFrames) /\ settledMsgs \subseteq answered /\ answered \subseteq answered'
        /\ Settling(rxQ, answered, settledMsgs) /\ \A a \in Apps : pc[a] # "settle"
    BY Zenon, ConfStays DEF SecondInv, RTypes, PeerTypes
  <1>1. \A a \in Apps : pc'[a] # "settle"
    BY Zenon, <1>0, StepsOfPc DEF PcStep, Elsewhere
  <1>2. UNCHANGED settledMsgs \/ HandleDisposition
    BY Zenon, <1>0, StepsOfDeliveries DEF Still, Carry, Count, Take, OnSettlement, MuxReceive, settleVars
  <1>3. settledMsgs' \subseteq answered' /\ Settling(rxQ', answered', settledMsgs')
    <2>1. CASE HandleDisposition
      <3> DEFINE R == inFlight \cap (Head(rxQ).first .. Head(rxQ).last)
      <3>1. /\ rxQ # <<>> /\ rxQ' = Tail(rxQ) /\ Head(rxQ).type = "disposition"
            /\ settledMsgs' = settledMsgs \cup R /\ UNCHANGED answered
        BY Zenon, <2>1 DEF HandleDisposition, Dequeued, peerVars
      <3>2. Head(rxQ) = rxQ[1]
        BY <1>0, <3>1
      <3>3. R \subseteq SettledBy(rxQ[1])
        BY Zenon, <3>2 DEF SettledBy
      <3> HIDE DEF R
      <3>4. R \subseteq answered /\ Settling(Tail(rxQ), answered, settledMsgs \cup R)
        BY Zenon, <1>0, <3>1, <3>2, <3>3, SettlingTail
      <3> QED
        BY Zenon, <1>0, <3>1, <3>4
    <2>2. CASE UNCHANGED settledMsgs
      <3>0. ASSUME NEW q, Settling(q, answered, settledMsgs) PROVE Settling(q, answered', settledMsgs')
        BY Zenon, <1>0, <2>2, <3>0 DEF Settling
      <3>1. CASE UNCHANGED rxQ
        BY Zenon, <1>0, <2>2, <3>0, <3>1
      <3>2. CASE rxQ # <<>> /\ rxQ' = Tail(rxQ)
        BY Zenon, <1>0, <2>2, <3>0, <3>2, SettlingTail
      <3>3. ASSUME NEW fr \in RFrames, rxQ' = Append(rxQ, fr), Sendable(fr)
            PROVE  Settling(rxQ', answered', settledMsgs')
        <4>1. Settling(Append(rxQ, fr), answered', settledMsgs)
          BY Zenon, <1>0, <3>3, SettlingAppend DEF Sendable
        <4> QED
          BY Zenon, <2>2, <3>3, <4>1
      <3> QED
        BY Zenon, <1>0, <2>2, <3>1, <3>2, <3>3, StepsOfQueue DEF QueueStep
    <2> QED
      BY Zenon, <1>2, <2>1, <2>2
  <1> QED
    BY Zenon, <1>1, <1>3 DEF SecondInv

\* Every step while the link is alive.
LEMMA StepKeepsFlightInv ==
    ASSUME RTypes, FirstInv, FlightInv, FirstInv', [Next]_vars
    PROVE  FlightInv'
  <1> SUFFICES ASSUME Alive' PROVE FlightInv'
    BY Zenon DEF FlightInv
  <1>0. Alive /\ mux' # "exited"
    BY Zenon, AliveBefore DEF Alive
  <1>h. \A d \in inFlight : d \in settledMsgs \/ \E a \in Apps : pc[a] \in Holding /\ msg[a] = d
    BY Zenon, <1>0 DEF FlightInv
  <1>s. \A a \in Apps : a \in signalled /\ pc[a] \in {"offer", "sending", "wait"} => msg[a] \in settledMsgs
    BY Zenon, <1>0 DEF FlightInv
  <1>a. ASSUME NEW a \in Apps, pc[a] \in Holding
        PROVE  msg[a] \in settledMsgs' \/ \E b \in Apps : pc'[b] \in Holding /\ msg'[b] = msg[a]
    <2>1. CASE pc'[a] \notin Holding
      BY Zenon, <1>0, <1>a, <2>1, StepsOfHolding DEF HoldingStep
    <2>2. CASE pc'[a] \in Holding /\ msg'[a] = msg[a]
      BY Zenon, <2>2
    <2>3. CASE pc'[a] \in Holding /\ msg'[a] # msg[a]
      <3>1. ASSUME NEW b \in Apps, Take(b), messagesQ # <<>> PROVE b = a \/ (pc'[a] = pc[a] /\ msg'[a] = msg[a])
        <4>0. messagesQ \in Seq(Messages)
          BY Zenon DEF RTypes, AppTypes
        <4>1. Head(messagesQ) \in Messages
          BY <3>1, <4>0
        <4> QED
          BY ZenonT(60), <3>1, <4>1, Moves, Holds DEF Take, RTypes, AppTypes, Goto, Hold
      <3>2. ~(\E b \in Apps : Take(b) /\ messagesQ # <<>>)
        BY Zenon, <1>a, <2>3, <3>1 DEF Take, Holding
      <3>3. UNCHANGED msg \/ \E b \in Apps : Carry(b)
        BY Zenon, <3>2, StepsOfDeliveries DEF Still, Count, OnSettlement, MuxReceive, HandleDisposition, appVars
      <3>4. ASSUME NEW b \in Apps, Carry(b) PROVE msg'[a] = msg[a]
        <4>1. PICK p \in Owning \cup Elsewhere : Goto(b, p) /\ (p \in Holding => UNCHANGED msg)
          BY Zenon, <3>4 DEF Carry
        <4>2. pc'[b] = p /\ \A c \in Apps : c # b => msg'[c] = msg[c]
          BY Zenon, <3>4, <4>1, Moves, Holds DEF Carry, RTypes
        <4> QED
          BY <2>3, <4>1, <4>2
      <3> QED
        BY Zenon, <2>3, <3>3, <3>4
    <2> QED
      BY Zenon, <2>1, <2>2, <2>3
  <1>1. \A d \in inFlight : d \in settledMsgs' \/ \E b \in Apps : pc'[b] \in Holding /\ msg'[b] = d
    BY ZenonT(60), <1>h, <1>a, StepsOfHolding DEF HoldingStep
  <1>2. \A d \in inFlight' : d \in settledMsgs' \/ \E b \in Apps : pc'[b] \in Holding /\ msg'[b] = d
    <2>1. ASSUME NEW a \in Apps, AddInFlight(a) PROVE pc'[a] \in Holding /\ msg'[a] = msg[a]
      BY Zenon, <2>1, Moves DEF AddInFlight, RTypes, Holding, Owning
    <2>2. HandleDisposition => inFlight' \subseteq inFlight
      BY Zenon DEF HandleDisposition
    <2> QED
      BY <1>0, <1>1, <2>1, <2>2, StepsOfFlight
  <1>3. \A a \in Apps : a \in signalled' /\ pc'[a] \in {"offer", "sending", "wait"} => msg'[a] \in settledMsgs'
    <2> SUFFICES ASSUME NEW a \in Apps, a \in signalled', pc'[a] \in {"offer", "sending", "wait"}
                 PROVE  msg'[a] \in settledMsgs'
      BY Zenon
    <2>1. ~AddInFlight(a) /\ second
      BY Zenon, ConfStays DEF AddInFlight, FirstInv
    <2>2. pc[a] \in {"offer", "sending", "wait"}
      BY Zenon, <2>1, StepsOfPc DEF PcStep, Elsewhere
    <2>3. msg'[a] = msg[a]
      <3>1. pc'[a] \in Holding /\ pc[a] \in Holding /\ pc[a] # "take"
        BY Zenon, <2>2 DEF Holding
      <3>2. ASSUME NEW b \in Apps, Carry(b) PROVE msg'[a] = msg[a]
        <4>1. PICK p \in Owning \cup Elsewhere : Goto(b, p) /\ (p \in Holding => UNCHANGED msg)
          BY Zenon, <3>2 DEF Carry
        <4>2. pc'[b] = p /\ \A c \in Apps : c # b => msg'[c] = msg[c]
          BY Zenon, <3>2, <4>1, Moves, Holds DEF Carry, RTypes
        <4> QED
          BY Zenon, <3>1, <4>1, <4>2
      <3>3. ASSUME NEW b \in Apps, Take(b), messagesQ # <<>> PROVE msg'[a] = msg[a]
        BY Zenon, <3>1, <3>3 DEF Take, Hold, RTypes, AppTypes
      <3> QED
        BY Zenon, <3>2, <3>3, StepsOfDeliveries DEF Still, Count, OnSettlement, MuxReceive, HandleDisposition, appVars
    <2>4. CASE a \in signalled
      BY Zenon, <1>s, <2>2, <2>3, <2>4, StepsOfHolding DEF HoldingStep
    <2>5. CASE a \notin signalled
      <3>1. HandleDisposition
        BY Zenon, <1>0, <2>5, StepsOfFlight
      <3>2. msg[a] \in settledMsgs'
        BY <2>5, <3>1 DEF HandleDisposition
      <3> QED
        BY <2>3, <3>2
    <2> QED
      BY Zenon, <2>4, <2>5
  <1> QED
    BY Zenon, <1>2, <1>3 DEF FlightInv

-----------------------------------------------------------------------------
(* Credit and drains *)

\* A step that leaves credit and drains alone, except that a frame may be taken off rxQ.
Quiet ==
    /\ UNCHANGED <<drained, pendingDrain, creditsToAdd, linkCredit, count, flow, toPeer, limit, mid,
                   sent, acked, calls>>
    /\ mux' = mux \/ mux' \notin {"start", "flow", "echo"}
    /\ rxQ' = rxQ \/ (rxQ # <<>> /\ rxQ' = Tail(rxQ))

\* Every other step.
LEMMA StepsOfCredit ==
    ASSUME [Next]_vars
    PROVE  \/ Quiet \/ Unwind
           \/ \E a \in Apps : IssueCredit(a) \/ Drain(a)
           \/ MuxTop \/ MuxFlow \/ MuxReceive \/ HandleFlow \/ SendEcho \/ PeerStep
  <1>1. ASSUME NEW a \in Apps, AppCall(a) \/ AppStep(a) PROVE Quiet \/ IssueCredit(a) \/ Drain(a)
    BY ZenonT(60), <1>1 DEF AppCall, AppStep, Receive, Take, Count, Poke, Settle, AddInFlight, DispositionLost,
                OnSettlement, Settled, SettlementExpires, DrainReturns, DrainExpires, Quiet,
                creditVars, drainVars, peerVars
  <1>2. CASE HandleDisposition \/ HandleDetach \/ CloseWithError
    BY Zenon, <1>2 DEF HandleDisposition, HandleDetach, CloseWithError, Dequeued, Quiet, appVars, creditVars,
                drainVars, peerVars
  <1>3. CASE (\E a \in Apps : TakeDisposition(a)) \/ SendDisposition \/ Ready \/ CloseRequested
             \/ SendDetach \/ SessionGone
    BY Zenon, <1>3 DEF TakeDisposition, SendDisposition, Ready, CloseRequested, SendDetach, SessionGone,
                Quiet, appVars, creditVars, drainVars, peerVars
  <1>4. CASE Close \/ SessionEnds \/ SessionDone \/ UNCHANGED vars
    BY Zenon, <1>4 DEF Close, SessionEnds, SessionDone, vars, appsMux, Quiet, appVars, creditVars, drainVars,
                peerVars
  <1> QED
    BY Zenon, <1>1, <1>2, <1>3, <1>4 DEF Next, MuxStep, HandleFrame

\* The peer does nothing to them directly.
LEMMA PeerLeaves ==
    ASSUME PeerStep
    PROVE  UNCHANGED <<drained, pendingDrain, creditsToAdd, linkCredit, count, flow, acked, calls, mux>>
  <1>1. UNCHANGED appsMux
    BY Zenon DEF PeerStep, PeerSends, PeerBegins, PeerAborts, PeerReads, PeerSettles, PeerFlow, PeerBad,
           PeerExtra, PeerDetaches
  <1> QED
    BY Zenon, <1>1 DEF appsMux, appVars, drainVars, creditVars

\* Every step keeps ModeInv.
LEMMA StepKeepsModeInv ==
    ASSUME RTypes, ModeInv, [Next]_vars
    PROVE  ModeInv'
  <1>0. rxQ \in Seq(RFrames) /\ UNCHANGED autoSendFlow
    BY Zenon, ConfStays DEF RTypes, PeerTypes
  <1>1. \A i \in 1 .. Len(rxQ') : rxQ'[i].type = "flow" /\ rxQ'[i].echo => autoSendFlow \in EchoModes
    <2>1. CASE UNCHANGED rxQ
      BY Zenon, <2>1 DEF ModeInv
    <2>2. CASE rxQ # <<>> /\ rxQ' = Tail(rxQ)
      BY <1>0, <2>2, Taken DEF ModeInv
    <2>3. ASSUME NEW fr \in RFrames, rxQ' = Append(rxQ, fr), Sendable(fr)
          PROVE  \A i \in 1 .. Len(rxQ') : rxQ'[i].type = "flow" /\ rxQ'[i].echo => autoSendFlow \in EchoModes
      <3>1. fr.type = "flow" /\ fr.echo => autoSendFlow \in EchoModes
        BY Zenon, <2>3 DEF Sendable
      <3>2. \A i \in 1 .. Len(rxQ') : rxQ'[i] = fr \/ (i \in 1 .. Len(rxQ) /\ rxQ'[i] = rxQ[i])
        BY <1>0, <2>3
      <3> QED
        BY Zenon, <3>1, <3>2 DEF ModeInv
    <2> QED
      BY Zenon, <2>1, <2>2, <2>3, StepsOfQueue DEF QueueStep
  <1>2. mux' = "echo" => autoSendFlow \in EchoModes
    <2>1. CASE HandleFlow
      <3>1. rxQ # <<>> /\ Head(rxQ).type = "flow" /\ (mux' = "echo" => Head(rxQ).echo)
        BY Zenon, <2>1 DEF HandleFlow, Dequeued
      <3>2. Head(rxQ) = rxQ[1] /\ 1 \in 1 .. Len(rxQ)
        BY <1>0, <3>1
      <3> QED
        BY Zenon, <3>1, <3>2 DEF ModeInv
    <2>2. CASE \/ Quiet \/ Unwind \/ (\E a \in Apps : IssueCredit(a) \/ Drain(a))
               \/ MuxTop \/ MuxFlow \/ MuxReceive \/ SendEcho
      BY Zenon, <2>2 DEF Quiet, Unwind, IssueCredit, Drain, MuxTop, MuxFlow, MuxReceive, SendEcho, ModeInv
    <2>3. CASE PeerStep
      BY Zenon, <2>3, PeerLeaves DEF ModeInv
    <2> QED
      BY Zenon, <2>1, <2>2, <2>3, StepsOfCredit
  <1>3. (autoSendFlow => ~pendingDrain') /\ (mux' = "start" => autoSendFlow)
    <2>1. CASE \/ Quiet \/ Unwind \/ (\E a \in Apps : IssueCredit(a) \/ Drain(a))
               \/ MuxTop \/ MuxFlow \/ MuxReceive \/ HandleFlow \/ SendEcho
      <3>1. \/ pendingDrain' = pendingDrain \/ ~pendingDrain' \/ ~autoSendFlow
        BY Zenon, <2>1 DEF Quiet, Unwind, IssueCredit, Drain, MuxTop, MuxFlow, MuxReceive, HandleFlow,
                           SendEcho, drainVars
      <3>2. mux' = mux \/ mux' # "start"
        BY Zenon, <2>1 DEF Quiet, Unwind, IssueCredit, Drain, MuxTop, MuxFlow, MuxReceive, HandleFlow,
                           SendEcho
      <3> QED
        BY <3>1, <3>2 DEF ModeInv
    <2>2. CASE PeerStep
      <3>1. UNCHANGED <<pendingDrain, mux>>
        BY Zenon, <2>2, PeerLeaves
      <3> QED
        BY Zenon, <3>1 DEF ModeInv
    <2> QED
      BY Zenon, <2>1, <2>2, StepsOfCredit
  <1> QED
    BY Zenon, <1>0, <1>1, <1>2, <1>3 DEF ModeInv

\* Taking a frame off the queue leaves what was true of drains; a drain that is taken
\* was the only one, and nothing completes a delivery behind it.
LEMMA DrainTail ==
    ASSUME NEW q \in Seq(RFrames), q # <<>>, DrainLast(q)
    PROVE  /\ DrainLast(Tail(q)) /\ (DrainAnswered(Tail(q)) => DrainAnswered(q))
           /\ IsDrain(q[1]) => ~DrainAnswered(Tail(q)) /\ \A j \in 1 .. Len(q) : ~Completes(q[j])
  <1> DEFINE t == Tail(q)
  <1>1. /\ Len(q) \in Nat /\ Len(q) >= 1 /\ Len(t) = Len(q) - 1
        /\ \A i \in 1 .. Len(t) : i + 1 \in 1 .. Len(q) /\ t[i] = q[i + 1]
    BY Zenon, Taken
  <1>2. \A i \in 1 .. Len(t) : \E g \in 1 .. Len(q) : g = i + 1 /\ g # 1 /\ t[i] = q[g]
    BY <1>1
  <1> HIDE DEF t
  <1>3. DrainLast(t)
    <2> SUFFICES ASSUME NEW i \in 1 .. Len(t), IsDrain(t[i]), NEW j \in 1 .. Len(t)
                 PROVE  (IsDrain(t[j]) => i = j) /\ (Completes(t[j]) => j < i)
      BY Zenon DEF DrainLast
    <2>1. PICK g \in 1 .. Len(q) : g = i + 1 /\ t[i] = q[g]
      BY Zenon, <1>2
    <2>2. PICK h \in 1 .. Len(q) : h = j + 1 /\ t[j] = q[h]
      BY Zenon, <1>2
    <2>3. (IsDrain(q[h]) => g = h) /\ (Completes(q[h]) => h < g)
      BY Zenon, <2>1 DEF DrainLast
    <2> QED
      BY <1>1, <2>1, <2>2, <2>3
  <1>4. DrainAnswered(t) => DrainAnswered(q)
    BY Zenon, <1>2 DEF DrainAnswered
  <1>5. ASSUME IsDrain(q[1]) PROVE ~DrainAnswered(t) /\ \A j \in 1 .. Len(q) : ~Completes(q[j])
    <2>1. 1 \in 1 .. Len(q) /\ \A j \in 1 .. Len(q) : ~(j < 1)
      BY <1>1
    <2>2. \A j \in 1 .. Len(q) : ~Completes(q[j]) /\ (IsDrain(q[j]) => j = 1)
      BY Zenon, <1>5, <2>1 DEF DrainLast
    <2> QED
      BY Zenon, <1>2, <2>2 DEF DrainAnswered
  <1> QED
    BY Zenon, <1>3, <1>4, <1>5 DEF t

\* So does a frame that is no drain, if no delivery is completed behind a drain, and a
\* drain if there is no other.
LEMMA DrainAppend ==
    ASSUME NEW q \in Seq(RFrames), NEW fr \in RFrames, DrainLast(q),
           IsDrain(fr) \/ Completes(fr) => ~DrainAnswered(q)
    PROVE  /\ DrainLast(Append(q, fr))
           /\ DrainAnswered(Append(q, fr)) => DrainAnswered(q) \/ IsDrain(fr)
  <1> DEFINE t == Append(q, fr)
             m == Len(q)
             e == m + 1
  <1>1. /\ Len(q) \in Nat /\ Len(t) = Len(q) + 1 /\ t[Len(q) + 1] = fr
        /\ \A i \in 1 .. Len(q) : i \in 1 .. Len(t) /\ t[i] = q[i]
        /\ \A i \in 1 .. Len(t) : i = Len(q) + 1 \/ i \in 1 .. Len(q)
    BY Appended
  <1>2. /\ t[e] = fr
        /\ \A i \in 1 .. m : t[i] = q[i] /\ i < e
        /\ \A i \in 1 .. Len(t) : i = e \/ i \in 1 .. m
    BY <1>1
  <1> HIDE DEF m, e, t
  <1>3. \A i \in 1 .. Len(t) : \/ t[i] = fr /\ i = e
                               \/ i \in 1 .. m /\ t[i] = q[i] /\ i < e
    BY Zenon, <1>2
  <1>4. ~(IsDrain(fr) /\ Completes(fr))
    BY Zenon DEF IsDrain, Completes
  <1>5. DrainLast(t)
    <2> SUFFICES ASSUME NEW i \in 1 .. Len(t), IsDrain(t[i]), NEW j \in 1 .. Len(t)
                 PROVE  (IsDrain(t[j]) => i = j) /\ (Completes(t[j]) => j < i)
      BY Zenon DEF DrainLast
    <2>1. CASE i = e /\ t[i] = fr
      <3>1. \A k \in 1 .. m : ~IsDrain(q[k])
        BY Zenon, <2>1 DEF DrainAnswered, m
      <3> QED
        BY Zenon, <1>3, <1>4, <2>1, <3>1
    <2>2. CASE i \in 1 .. m /\ t[i] = q[i]
      <3>1. ~IsDrain(fr) /\ ~Completes(fr)
        BY Zenon, <2>2 DEF DrainAnswered, m
      <3>2. (IsDrain(t[j]) \/ Completes(t[j])) => j \in 1 .. m /\ t[j] = q[j]
        BY Zenon, <1>3, <3>1
      <3> QED
        BY Zenon, <2>2, <3>2 DEF DrainLast, m
    <2> QED
      BY Zenon, <1>3, <2>1, <2>2
  <1>6. DrainAnswered(t) => DrainAnswered(q) \/ IsDrain(fr)
    BY Zenon, <1>3 DEF DrainAnswered, m
  <1> QED
    BY Zenon, <1>5, <1>6 DEF t

\* A flow is read: behind a drain there was none.
LEMMA GrantTail ==
    ASSUME NEW t \in Seq(Grants), t # <<>>, NEW c \in Nat, DrainAtEnd(t, c)
    PROVE  /\ DrainAtEnd(Tail(t), c) /\ (DrainAsked(Tail(t)) => DrainAsked(t))
           /\ t[1].drain => DrainAsked(t) /\ Tail(t) = <<>> /\ t[1].upTo <= c
  <1> DEFINE u == Tail(t)
  <1>1. /\ Len(t) \in Nat /\ Len(t) >= 1 /\ Len(u) = Len(t) - 1
        /\ \A i \in 1 .. Len(u) : i + 1 \in 1 .. Len(t) /\ u[i] = t[i + 1]
    BY Zenon, Taken
  <1>2. ASSUME NEW i \in 1 .. Len(u), u[i].drain PROVE i = Len(u) /\ u[i].upTo <= c /\ DrainAsked(t)
    <2> DEFINE g == i + 1
    <2>1. g \in 1 .. Len(t) /\ u[i] = t[g]
      BY Zenon, <1>1
    <2> HIDE DEF g, u
    <2>2. g = Len(t) /\ t[g].upTo <= c /\ DrainAsked(t)
      BY Zenon, <1>2, <2>1 DEF DrainAtEnd, DrainAsked
    <2> QED
      BY <1>1, <2>1, <2>2 DEF g
  <1>3. ASSUME t[1].drain PROVE DrainAsked(t) /\ u = <<>> /\ t[1].upTo <= c
    <2>1. 1 \in 1 .. Len(t)
      BY <1>1
    <2>2. 1 = Len(t) /\ t[1].upTo <= c /\ DrainAsked(t)
      BY Zenon, <1>3, <2>1 DEF DrainAtEnd, DrainAsked
    <2>3. u \in Seq(Grants) /\ Len(u) = 0
      BY <1>1, <2>2, Taken
    <2> HIDE DEF u
    <2>4. u = <<>>
      BY <2>3
    <2> QED
      BY Zenon, <2>2, <2>4
  <1> HIDE DEF u
  <1>4. DrainAtEnd(u, c) /\ (DrainAsked(u) => DrainAsked(t))
    BY Zenon, <1>2 DEF DrainAtEnd, DrainAsked
  <1> QED
    BY Zenon, <1>3, <1>4 DEF u

\* A flow is sent while no drain is on its way.
LEMMA GrantAppend ==
    ASSUME NEW t \in Seq(Grants), NEW c \in Nat, NEW g \in Grants, ~DrainAsked(t),
           g.drain => g.upTo <= c
    PROVE  DrainAtEnd(Append(t, g), c) /\ (DrainAsked(Append(t, g)) => g.drain)
  <1> DEFINE u == Append(t, g)
  <1>1. /\ Len(t) \in Nat /\ Len(u) = Len(t) + 1 /\ u[Len(t) + 1] = g
        /\ \A i \in 1 .. Len(t) : u[i] = t[i]
        /\ \A i \in 1 .. Len(u) : i = Len(t) + 1 \/ i \in 1 .. Len(t)
    BY Appended
  <1>2. \A i \in 1 .. Len(u) : (i = Len(u) /\ u[i] = g) \/ (i \in 1 .. Len(t) /\ u[i] = t[i])
    BY Zenon, <1>1
  <1> HIDE DEF u
  <1> QED
    BY Zenon, <1>2 DEF DrainAtEnd, DrainAsked, u

\* What the peer sends and reads keeps the drain in one place.
LEMMA PeerKeepsOneDrain ==
    ASSUME RTypes, OnTheWay, OneDrain, PeerStep
    PROVE  OneDrain'
  <1>0. /\ rxQ \in Seq(RFrames) /\ toPeer \in Seq(Grants) /\ count \in Nat /\ sent \in Nat /\ limit \in Nat
        /\ count <= sent
    BY Zenon DEF RTypes, PeerTypes, CreditTypes, OnTheWay, InOrder
  <1>1. UNCHANGED <<drained, pendingDrain, creditsToAdd, count, flow, mux>>
    BY Zenon, PeerLeaves
  <1>2. DrainInFlow' = DrainInFlow
    BY Zenon, <1>1 DEF DrainInFlow
  <1>3. ASSUME NEW fr \in RFrames, Deliver(fr), ~IsDrain(fr), UNCHANGED <<toPeer, limit>>,
               (~DrainAnswered(rxQ)) \/ (~Completes(fr) /\ mid' = mid)
        PROVE  OneDrain'
    <2>1. DrainLast(rxQ') /\ (DrainAnswered(rxQ') => DrainAnswered(rxQ))
      BY Zenon, <1>0, <1>3, DrainAppend DEF Deliver, OneDrain
    <2> QED
      BY <1>1, <1>2, <1>3, <2>1 DEF OneDrain
  <1>4. ASSUME mid \/ sent < limit PROVE ~DrainAnswered(rxQ)
    BY <1>0, <1>4 DEF OneDrain
  <1>5. ASSUME NEW settled \in BOOLEAN, PeerSends(settled) PROVE OneDrain'
    <2>1. Transfer(settled, FALSE, FALSE) \in RFrames /\ ~IsDrain(Transfer(settled, FALSE, FALSE))
      BY Zenon, PeerFrames DEF Transfer, IsDrain
    <2> QED
      BY Zenon, <1>3, <1>4, <1>5, <2>1 DEF PeerSends
  <1>6. ASSUME NEW settled \in BOOLEAN, PeerBegins(settled) PROVE OneDrain'
    <2>1. Transfer(settled, TRUE, FALSE) \in RFrames /\ ~IsDrain(Transfer(settled, TRUE, FALSE))
      BY Zenon, PeerFrames DEF Transfer, IsDrain
    <2> QED
      BY Zenon, <1>3, <1>4, <1>6, <2>1 DEF PeerBegins
  <1>7. CASE PeerAborts
    <2>1. Transfer(FALSE, FALSE, TRUE) \in RFrames
      BY Zenon, PeerFrames
    <2>2. ~IsDrain(Transfer(FALSE, FALSE, TRUE))
      BY Zenon DEF Transfer, IsDrain
    <2> QED
      BY Zenon, <1>3, <1>4, <1>7, <2>1, <2>2 DEF PeerAborts
  <1>8. CASE PeerReads
    <2>1. toPeer # <<>> /\ toPeer' = Tail(toPeer) /\ limit' = Head(toPeer).upTo /\ mid' = mid
      BY Zenon, <1>8 DEF PeerReads
    <2>2. ~DrainAnswered(rxQ)
      BY Zenon, <2>1 DEF OneDrain
    <2>3. Head(toPeer) = toPeer[1]
      BY Zenon, <1>0, <2>1, Taken
    <2>4. /\ DrainAtEnd(toPeer', count) /\ (DrainAsked(toPeer') => DrainAsked(toPeer))
          /\ toPeer[1].drain => DrainAsked(toPeer) /\ toPeer' = <<>> /\ toPeer[1].upTo <= count
      BY Zenon, <1>0, <2>1, GrantTail DEF OneDrain
    <2>5. CASE Head(toPeer).drain /\ ~mid /\ Deliver(FlowFrame(TRUE, FALSE))
      <3>1. FlowFrame(TRUE, FALSE) \in RFrames
        BY Zenon, PeerFrames
      <3>2. DrainLast(rxQ')
        BY Zenon, <1>0, <2>2, <2>5, <3>1, DrainAppend DEF Deliver, OneDrain
      <3>3. DrainAsked(toPeer) /\ toPeer' = <<>> /\ limit' <= count
        BY Zenon, <2>1, <2>3, <2>4, <2>5
      <3>4. ~DrainAsked(toPeer')
        BY <3>3 DEF DrainAsked
      <3> QED
        BY ZenonT(60), <1>1, <1>2, <2>1, <2>4, <2>5, <3>2, <3>3, <3>4 DEF OneDrain
    <2>6. CASE UNCHANGED rxQ
      BY Zenon, <1>1, <1>2, <2>2, <2>4, <2>6 DEF OneDrain
    <2> QED
      BY Zenon, <1>8, <2>5, <2>6 DEF PeerReads
  <1>9. ASSUME NEW first \in 1 .. MaxSent, NEW last \in 1 .. MaxSent, PeerSettles(first, last)
        PROVE  OneDrain'
    <2> DEFINE fr == [type |-> "disposition", first |-> first, last |-> last]
    <2>1. fr \in RFrames
      BY PeerFrames, ReceiverAssumption
    <2>2. ~IsDrain(fr) /\ ~Completes(fr)
      BY Zenon DEF IsDrain, Completes
    <2> QED
      BY Zenon, <1>3, <1>9, <2>1, <2>2 DEF PeerSettles
  <1>10. ASSUME NEW echo \in BOOLEAN, PeerFlow(echo) PROVE OneDrain'
    <2>1. FlowFrame(FALSE, echo) \in RFrames
      BY Zenon, PeerFrames
    <2>2. ~IsDrain(FlowFrame(FALSE, echo)) /\ ~Completes(FlowFrame(FALSE, echo))
      BY Zenon DEF FlowFrame, IsDrain, Completes
    <2> QED
      BY Zenon, <1>3, <1>10, <2>1, <2>2 DEF PeerFlow, PeerExtra
  <1>11. CASE PeerBad
    <2>1. [type |-> "bad"] \in RFrames /\ ~IsDrain([type |-> "bad"]) /\ ~Completes([type |-> "bad"])
      BY Zenon, PeerFrames DEF IsDrain, Completes
    <2> QED
      BY Zenon, <1>3, <1>11, <2>1 DEF PeerBad, PeerExtra
  <1>12. CASE PeerDetaches
    <2>1. [type |-> "detach"] \in RFrames /\ ~IsDrain([type |-> "detach"]) /\ ~Completes([type |-> "detach"])
      BY Zenon, PeerFrames DEF IsDrain, Completes
    <2>2. Deliver([type |-> "detach"]) /\ toPeer' = <<>> /\ UNCHANGED <<limit, mid>>
      BY Zenon, <1>12 DEF PeerDetaches
    <2>3. DrainLast(rxQ') /\ (DrainAnswered(rxQ') => DrainAnswered(rxQ))
      BY Zenon, <1>0, <2>1, <2>2, DrainAppend DEF Deliver, OneDrain
    <2>4. ~DrainAsked(toPeer') /\ DrainAtEnd(toPeer', count)
      BY <2>2 DEF DrainAsked, DrainAtEnd
    <2> QED
      BY Zenon, <1>1, <1>2, <2>2, <2>3, <2>4 DEF OneDrain
  <1> QED
    BY ZenonT(60), <1>5, <1>6, <1>7, <1>8, <1>9, <1>10, <1>11, <1>12 DEF PeerStep

\* When the peer's flow ends a drain, nothing is on the way in either direction.
LEMMA DrainEnds ==
    ASSUME RTypes, OnTheWay, OneDrain, HandleFlow, Head(rxQ).drain
    PROVE  /\ drained # 0 /\ ~pendingDrain /\ creditsToAdd = 0
           /\ toPeer = <<>> /\ limit <= count /\ ~mid /\ sent = count
           /\ ~DrainAnswered(rxQ')
  <1>0. /\ rxQ \in Seq(RFrames) /\ count \in Nat /\ sent \in Nat /\ count <= sent
        /\ rxQ # <<>> /\ rxQ' = Tail(rxQ) /\ Head(rxQ).type = "flow"
    BY Zenon DEF RTypes, PeerTypes, CreditTypes, OnTheWay, InOrder, HandleFlow, Dequeued
  <1>1. Head(rxQ) = rxQ[1] /\ 1 \in 1 .. Len(rxQ)
    BY <1>0
  <1>2. IsDrain(rxQ[1]) /\ DrainAnswered(rxQ)
    BY Zenon, <1>0, <1>1 DEF IsDrain, DrainAnswered
  <1>3. ~DrainAnswered(Tail(rxQ)) /\ \A j \in 1 .. Len(rxQ) : ~Completes(rxQ[j])
    BY Zenon, <1>0, <1>2, DrainTail DEF OneDrain
  <1>4. \A n \in (count + 1) .. sent : FALSE
    BY Zenon, <1>3 DEF OnTheWay, InOrder
  <1>5. sent = count
    BY <1>0, <1>4
  <1>6. toPeer = <<>> /\ limit <= count /\ ~mid
    BY Zenon, <1>2 DEF OneDrain
  <1>7. drained # 0 /\ ~pendingDrain
    BY Zenon, <1>2 DEF OneDrain
  <1>8. creditsToAdd = 0
    BY Zenon, <1>7 DEF OneDrain
  <1> QED
    BY Zenon, <1>0, <1>3, <1>5, <1>6, <1>7, <1>8

\* Every step keeps the drain in one place.
LEMMA StepKeepsOneDrain ==
    ASSUME RTypes, OnTheWay, ModeInv, OneDrain, ~autoSendFlow, FALSE \notin EchoModes,
           [Next]_vars, Alive'
    PROVE  OneDrain'
  <1>0. /\ rxQ \in Seq(RFrames) /\ toPeer \in Seq(Grants) /\ count \in Nat /\ drains \in Nat
        /\ pendingDrain \in BOOLEAN /\ creditsToAdd \in Nat
    BY Zenon DEF RTypes, PeerTypes, CreditTypes
  <1>1. mux # "start" /\ mux # "echo"
    <2>1. autoSendFlow \in BOOLEAN
      BY Zenon DEF RTypes, AppTypes
    <2> QED
      BY Zenon, <2>1 DEF ModeInv
  <1>2. ASSUME \/ UNCHANGED rxQ \/ (rxQ # <<>> /\ rxQ' = Tail(rxQ))
        PROVE  DrainLast(rxQ') /\ (DrainAnswered(rxQ') => DrainAnswered(rxQ))
    BY Zenon, <1>0, <1>2, DrainTail DEF OneDrain
  <1>3. CASE Quiet
    <2>1. DrainLast(rxQ') /\ (DrainAnswered(rxQ') => DrainAnswered(rxQ))
      BY Zenon, <1>2, <1>3 DEF Quiet
    <2>2. (DrainInFlow' => DrainInFlow) /\ (mux' = "flow" => mux = "flow")
      BY Zenon, <1>3 DEF Quiet, DrainInFlow
    <2> QED
      BY Zenon, <1>3, <2>1, <2>2 DEF Quiet, OneDrain
  <1>4. ASSUME NEW a \in Apps, IssueCredit(a) PROVE OneDrain'
    <2>1. UNCHANGED <<drained, pendingDrain, mux, count, flow, toPeer, limit, mid, rxQ>>
      BY Zenon, <1>4 DEF IssueCredit, creditVars, peerVars
    <2>2. drained # 0 => UNCHANGED creditsToAdd
      BY Zenon, <1>4 DEF IssueCredit
    <2>3. DrainInFlow' = DrainInFlow
      BY Zenon, <2>1 DEF DrainInFlow
    <2> QED
      BY Zenon, <2>1, <2>2, <2>3 DEF OneDrain
  <1>5. ASSUME NEW a \in Apps, Drain(a) PROVE OneDrain'
    <2>1. UNCHANGED <<creditsToAdd, mux, count, flow, toPeer, limit, mid, rxQ>>
      BY Zenon, <1>5 DEF Drain, creditVars, peerVars
    <2>2. \/ UNCHANGED <<drained, pendingDrain>>
          \/ drained = 0 /\ drained' # 0 /\ pendingDrain'
      BY <1>0, <1>5 DEF Drain
    <2>3. DrainInFlow' = DrainInFlow
      BY Zenon, <2>1 DEF DrainInFlow
    <2> QED
      BY <2>1, <2>2, <2>3 DEF OneDrain
  <1>6. CASE MuxTop
    <2>1. /\ mux' = IF pendingDrain \/ Credits > 0 THEN "flow" ELSE "select"
          /\ flow' = [credit |-> Credits, drain |-> pendingDrain]
          /\ pendingDrain' = FALSE /\ creditsToAdd' = 0
      BY Zenon, <1>6 DEF MuxTop, Alive
    <2>2. UNCHANGED <<drained, count, toPeer, limit, mid, rxQ>>
      BY Zenon, <1>6 DEF MuxTop, peerVars
    <2>3. CASE pendingDrain
      <3>1. mux' = "flow" /\ flow'.drain /\ flow'.credit = 0 /\ drained # 0
        BY Zenon, <2>1, <2>3 DEF Credits, OneDrain
      <3> QED
        BY Zenon, <2>1, <2>2, <2>3, <3>1 DEF OneDrain
    <2>4. CASE ~pendingDrain
      <3>1. ~flow'.drain
        BY Zenon, <2>1, <2>4
      <3>2. ~DrainInFlow'
        BY Zenon, <3>1 DEF DrainInFlow
      <3>3. drained # 0 => mux' # "flow"
        <4> SUFFICES ASSUME drained # 0 PROVE mux' # "flow"
          BY Zenon
        <4>1. ToAdd = 0
          BY <1>0, <2>4 DEF OneDrain, ToAdd, Reclaim
        <4>2. Credits = 0
          BY Zenon, <4>1 DEF Credits
        <4> QED
          BY <2>1, <2>4, <4>2
      <3> QED
        BY Zenon, <2>1, <2>2, <2>4, <3>2, <3>3 DEF OneDrain
    <2> QED
      BY Zenon, <2>3, <2>4, <1>0
  <1>7. CASE MuxFlow
    <2>1. mux = "flow" /\ mux' = "select"
      BY Zenon, <1>1, <1>7 DEF MuxFlow, Alive
    <2>2. UNCHANGED <<drained, pendingDrain, creditsToAdd, count, limit, mid, rxQ>>
      BY Zenon, <1>7 DEF MuxFlow, drainVars, peerVars
    <2>3. ~DrainInFlow'
      BY Zenon, <2>1 DEF DrainInFlow
    <2> DEFINE g == [upTo |-> count + flow.credit, drain |-> flow.drain]
    <2>4. toPeer' = toPeer \/ toPeer' = Append(toPeer, g)
      BY Zenon, <1>7 DEF MuxFlow, Transmit
    <2>5. CASE toPeer' = toPeer
      BY Zenon, <2>1, <2>2, <2>3, <2>5 DEF OneDrain
    <2>6. CASE toPeer' = Append(toPeer, g)
      <3>1. g \in Grants
        BY <1>0 DEF RTypes, CreditTypes, Grants
      <3>2. ~DrainAsked(toPeer) /\ ~DrainAnswered(rxQ)
        BY Zenon, <2>1 DEF OneDrain, DrainInFlow
      <3>3. flow.drain => flow.credit = 0 /\ drained # 0 /\ ~pendingDrain
        BY Zenon, <2>1 DEF OneDrain, DrainInFlow
      <3>4. g.drain => g.upTo <= count
        BY <1>0, <3>3
      <3>5. DrainAtEnd(toPeer', count) /\ (DrainAsked(toPeer') => flow.drain)
        BY Zenon, <1>0, <2>6, <3>1, <3>2, <3>4, GrantAppend
      <3> QED
        BY Zenon, <2>1, <2>2, <2>3, <3>2, <3>3, <3>5 DEF OneDrain
    <2> QED
      BY Zenon, <2>4, <2>5, <2>6
  <1>8. CASE MuxReceive
    <2>1. /\ rxQ # <<>> /\ rxQ' = Tail(rxQ) /\ mux' = "top"
          /\ UNCHANGED <<drained, pendingDrain, creditsToAdd, flow, toPeer, limit, mid>>
      BY Zenon, <1>8 DEF MuxReceive, Dequeued, drainVars, peerVars
    <2>2. count' \in {count, count + 1}
      BY Zenon, <1>8 DEF MuxReceive
    <2>3. DrainLast(rxQ') /\ (DrainAnswered(rxQ') => DrainAnswered(rxQ))
      BY Zenon, <1>2, <2>1
    <2>4. DrainAtEnd(toPeer, count')
      <3>0. \A i \in 1 .. Len(toPeer) : toPeer[i] \in Grants
        BY <1>0
      <3>1. \A i \in 1 .. Len(toPeer) : toPeer[i].upTo \in Nat
        BY Zenon, <3>0 DEF Grants
      <3>2. \A n \in Nat : n <= count => n <= count'
        BY <1>0, <2>2
      <3> QED
        BY Zenon, <3>1, <3>2 DEF OneDrain, DrainAtEnd
    <2>5. limit <= count => limit <= count'
      BY <1>0, <2>2 DEF RTypes, PeerTypes
    <2>6. ~DrainInFlow'
      BY Zenon, <2>1 DEF DrainInFlow
    <2> QED
      BY Zenon, <2>1, <2>3, <2>4, <2>5, <2>6 DEF OneDrain
  <1>9. CASE HandleFlow
    <2>1. /\ rxQ # <<>> /\ rxQ' = Tail(rxQ) /\ mux = "select" /\ Head(rxQ).type = "flow"
          /\ UNCHANGED <<pendingDrain, creditsToAdd, flow, toPeer, limit, mid, count>>
      BY Zenon, <1>9 DEF HandleFlow, Dequeued, peerVars
    <2>2. DrainLast(rxQ') /\ (DrainAnswered(rxQ') => DrainAnswered(rxQ))
      BY Zenon, <1>2, <2>1
    <2>3. ~DrainInFlow' /\ mux' # "flow"
      BY Zenon, <1>9 DEF HandleFlow, DrainInFlow
    <2>4. CASE UNCHANGED drained
      BY Zenon, <2>1, <2>2, <2>3, <2>4 DEF OneDrain
    <2>5. CASE Head(rxQ).drain /\ drained' = 0
      <3>1. ~pendingDrain /\ creditsToAdd = 0 /\ toPeer = <<>> /\ limit <= count /\ ~mid /\ ~DrainAnswered(rxQ')
        BY Zenon, <1>9, <2>5, DrainEnds
      <3>2. ~DrainAsked(toPeer)
        BY <3>1 DEF DrainAsked
      <3> QED
        BY Zenon, <2>1, <2>2, <2>3, <2>5, <3>1, <3>2 DEF OneDrain
    <2> QED
      BY Zenon, <1>9, <2>4, <2>5 DEF HandleFlow, EndDrain
  <1>10. CASE PeerStep
    BY Zenon, <1>10, PeerKeepsOneDrain
  <1>11. ~Unwind /\ ~SendEcho
    BY Zenon, <1>1 DEF Unwind, SendEcho, Alive
  <1> QED
    BY Zenon, <1>3, <1>4, <1>5, <1>6, <1>7, <1>8, <1>9, <1>10, <1>11, StepsOfCredit

\* Every step keeps DrainInv.
LEMMA StepKeepsDrainInv ==
    ASSUME RTypes, OnTheWay, ModeInv, DrainInv, [Next]_vars
    PROVE  DrainInv'
  <1> SUFFICES ASSUME Alive', ~autoSendFlow', FALSE \notin EchoModes PROVE OneDrain'
    BY Zenon DEF DrainInv
  <1>1. Alive /\ ~autoSendFlow
    BY AliveBefore, ConfStays
  <1> QED
    BY Zenon, <1>1, StepKeepsOneDrain DEF DrainInv

-----------------------------------------------------------------------------
(* Types *)

\* newReceiver establishes the types.
LEMMA TypesInit == Init => RTypes
  <1> SUFFICES ASSUME Init PROVE RTypes
    BY Zenon
  <1>0. autoSendFlow \in BOOLEAN /\ second \in BOOLEAN /\ (second => autoSendFlow)
    BY Zenon, ReceiverAssumption DEF Init
  <1>1. AppTypes
    <2>1. pc \in [Apps -> Owning \cup Elsewhere] /\ msg \in [Apps -> Nat]
      BY Zenon DEF Init, Elsewhere
    <2>2. calls \in 0 .. MaxCalls /\ messagesQ \in Seq(Messages)
      BY ReceiverAssumption DEF Init
    <2>3. mux # "tx"
      BY Zenon DEF Init
    <2> QED
      BY <1>0, <2>1, <2>2, <2>3 DEF Init, AppTypes
  <1>2. CreditTypes
    <2>1. linkCredit \in 0 .. (M - 1) /\ linkCredit \in Nat
      <3>1. CASE autoSendFlow
        BY <3>1, ReceiverAssumption DEF Init
      <3>2. CASE ~autoSendFlow
        BY <3>2, ReceiverAssumption DEF Init
      <3> QED
        BY Zenon, <3>1, <3>2
    <2> QED
      BY Zenon, <2>1 DEF Init, CreditTypes
  <1>3. PeerTypes
    <2>1. \A S : <<>> \in Seq(S)
      OBVIOUS
    <2>2. /\ rxQ = <<>> /\ toPeer = <<>> /\ sent = 0 /\ limit = 0 /\ mid = FALSE
      BY Zenon DEF Init
    <2> QED
      BY Zenon, <2>1, <2>2 DEF PeerTypes
  <1> QED
    BY Zenon, <1>1, <1>2, <1>3 DEF RTypes

\* A goroutine that is not sending a disposition may go anywhere.
LEMMA MoveKeepsAppTypes ==
    ASSUME AppTypes, NEW a \in Apps, pc[a] # "sending" \/ mux # "tx",
           NEW p \in Owning \cup Elsewhere, Goto(a, p),
           NEW n \in Nat, Hold(a, n) \/ UNCHANGED msg,
           UNCHANGED <<autoSendFlow, second, mux, env>>,
           messagesQ' \in Seq(Messages),
           settlementCount' \in Nat, unsettled' \in Int, calls' \in 0 .. MaxCalls,
           settledMsgs' \subseteq Nat, inFlight' \subseteq Nat
    PROVE  AppTypes'
  <1>1. /\ pc' \in [Apps -> Owning \cup Elsewhere]
        /\ pc'[a] = p /\ \A b \in Apps : b # a => pc'[b] = pc[b]
    BY Zenon, Moves
  <1>2. msg' \in [Apps -> Nat]
    BY Zenon, Holds DEF AppTypes
  <1>3. mux' = "tx" => env' \in Apps /\ pc'[env'] = "sending"
    BY Zenon, <1>1 DEF AppTypes
  <1> QED
    BY Zenon, <1>1, <1>2, <1>3 DEF AppTypes

\* A step of a goroutine of the application keeps the types.
LEMMA AppsKeepTypes ==
    ASSUME RTypes, NEW a \in Apps, AppCall(a) \/ AppStep(a)
    PROVE  RTypes'
  <1> USE DEF RTypes, conf, settleVars, creditVars, peerVars
  <1>1. PeerTypes'
    BY Zenon DEF PeerTypes, AppCall, AppStep, Receive, Take, Count, Poke, Settle, AddInFlight,
           DispositionLost, OnSettlement, Settled, SettlementExpires, IssueCredit, Drain,
           DrainReturns, DrainExpires
  <1>2. CreditTypes'
    <2>1. CASE IssueCredit(a)
      BY <2>1 DEF CreditTypes, IssueCredit
    <2>2. CASE Drain(a)
      <3>1. CASE drained # 0
        BY Zenon, <2>2, <3>1 DEF CreditTypes, Drain
      <3>2. CASE drained = 0
        <4>1. drained' = drains + 1 /\ drains' = drains + 1 /\ pendingDrain' = TRUE
          BY Zenon, <2>2, <3>2 DEF Drain
        <4> QED
          BY <2>2, <4>1 DEF CreditTypes, Drain
      <3> QED
        BY Zenon, <3>1, <3>2
    <2>3. CASE UNCHANGED <<drainVars, creditVars>>
      BY Zenon, <2>3 DEF CreditTypes, drainVars
    <2> QED
      BY Zenon, <2>1, <2>2, <2>3
      DEF AppCall, AppStep, Receive, Take, Count, Poke, Settle, AddInFlight, DispositionLost,
          OnSettlement, Settled, SettlementExpires, DrainReturns, DrainExpires
  <1>3. AppTypes'
    <2> USE DEF Return
    <2>0. msg[a] \in Nat /\ 0 \in Nat /\ autoSendFlow \in BOOLEAN
      BY Zenon DEF AppTypes
    <2>p. {"idle", "take", "count", "got", "poke", "add", "offer", "sending", "wait", "settle",
           "drain", "pokeDrain"} \subseteq Owning \cup Elsewhere
      BY Zenon DEF Owning, Holding, Elsewhere
    <2>t. /\ messagesQ \in Seq(Messages)
          /\ settlementCount \in Nat /\ unsettled \in Int /\ calls \in 0 .. MaxCalls
          /\ settledMsgs \subseteq Nat /\ inFlight \subseteq Nat
      BY Zenon DEF AppTypes
    <2>1. CASE Receive(a)
      BY Zenon, <2>1, <2>0, <2>p, <2>t, MoveKeepsAppTypes DEF Receive
    <2>2. CASE Take(a) /\ messagesQ = <<>>
      BY Zenon, <2>2, <2>0, <2>p, <2>t, MoveKeepsAppTypes DEF Take
    <2>15. CASE Take(a) /\ messagesQ # <<>>
      <3>1. /\ Head(messagesQ).id \in Nat
            /\ Tail(messagesQ) \in Seq(Messages)
        <4>1. messagesQ \in Seq(Messages) /\ messagesQ # <<>>
          BY Zenon, <2>15, <2>t
        <4>2. Head(messagesQ) \in Messages
          BY <4>1
        <4>3. Tail(messagesQ) \in Seq(Messages)
          BY <4>1
        <4> QED
          BY Zenon, <4>2, <4>3 DEF Messages
      <3> DEFINE m == Head(messagesQ)
                 rest == Tail(messagesQ)
      <3>2. Goto(a, IF m.settled THEN "count" ELSE "got") /\ Hold(a, m.id) /\ messagesQ' = rest
        BY Zenon, <2>15 DEF Take
      <3> HIDE DEF m, rest
      <3>3. UNCHANGED <<autoSendFlow, second, mux, env, settlementCount, unsettled, calls, settledMsgs,
                        inFlight>>
        BY Zenon, <2>15 DEF Take
      <3>4. m.id \in Nat /\ rest \in Seq(Messages) /\ pc[a] # "sending"
        BY Zenon, <3>1, <2>15 DEF m, rest, Take
      <3> QED
        BY Zenon, <2>0, <2>p, <2>t, <3>2, <3>3, <3>4, MoveKeepsAppTypes
    <2>n. settlementCount + 1 \in Nat /\ unsettled - 1 \in Int
      BY <2>t
    <2>3. CASE Count(a)
      BY ZenonT(60), <2>3, <2>n, <2>0, <2>p, <2>t, MoveKeepsAppTypes DEF Count
    <2>4. CASE Poke(a)
      BY Zenon, <2>4, <2>0, <2>p, <2>t, MoveKeepsAppTypes DEF Poke
    <2>5. CASE Settle(a)
      BY Zenon, <2>5, <2>0, <2>p, <2>t, MoveKeepsAppTypes DEF Settle
    <2>6. CASE AddInFlight(a)
      BY Zenon, <2>6, <2>0, <2>p, <2>t, MoveKeepsAppTypes DEF AddInFlight
    <2>7. CASE DispositionLost(a)
      BY Zenon, <2>7, <2>0, <2>p, <2>t, MoveKeepsAppTypes DEF DispositionLost, Exited
    <2>8. CASE OnSettlement(a)
      BY Zenon, <2>8, <2>n, <2>0, <2>p, <2>t, MoveKeepsAppTypes DEF OnSettlement
    <2>9. CASE Settled(a)
      BY Zenon, <2>9, <2>0, <2>p, <2>t, MoveKeepsAppTypes DEF Settled
    <2>10. CASE SettlementExpires(a)
      BY Zenon, <2>10, <2>0, <2>p, <2>t, MoveKeepsAppTypes DEF SettlementExpires
    <2>c. calls < MaxCalls => calls + 1 \in 0 .. MaxCalls
      BY <2>t, ReceiverAssumption
    <2>11. CASE IssueCredit(a)
      <3>1. CASE drained # 0 /\ UNCHANGED <<pc, creditsToAdd>>
        BY Zenon, <2>11, <2>c, <2>t, <3>1 DEF IssueCredit, AppTypes
      <3>2. CASE drained = 0 /\ Goto(a, "poke")
        BY ZenonT(60), <2>11, <3>2, <2>c, <2>0, <2>p, <2>t, MoveKeepsAppTypes DEF IssueCredit
      <3> QED
        BY Zenon, <2>11, <3>1, <3>2 DEF IssueCredit
    <2>12. CASE Drain(a)
      <3>1. CASE drained # 0 /\ UNCHANGED <<pc, msg>>
        BY Zenon, <2>12, <2>c, <2>t, <3>1 DEF Drain, AppTypes
      <3>2. CASE drained = 0 /\ Goto(a, "pokeDrain")
        <4>1. drains + 1 \in Nat
          BY DEF CreditTypes
        <4> QED
          BY ZenonT(60), <2>12, <3>2, <2>c, <2>0, <2>p, <2>t, <4>1, MoveKeepsAppTypes DEF Drain
      <3> QED
        BY Zenon, <2>12, <3>1, <3>2 DEF Drain
    <2>13. CASE DrainReturns(a)
      BY ZenonT(60), <2>13, <2>0, <2>p, <2>t, MoveKeepsAppTypes DEF DrainReturns
    <2>14. CASE DrainExpires(a)
      BY Zenon, <2>14, <2>0, <2>p, <2>t, MoveKeepsAppTypes DEF DrainExpires
    <2> QED
      BY ZenonT(60), <2>1, <2>2, <2>3, <2>4, <2>5, <2>6, <2>7, <2>8, <2>9, <2>10, <2>11, <2>12, <2>13, <2>14,
         <2>15 DEF AppCall, AppStep
  <1> QED
    BY Zenon, <1>1, <1>2, <1>3

\* A step of the mux keeps the types of the credit.
LEMMA MuxKeepsCreditTypes ==
    ASSUME RTypes, MuxStep
    PROVE  CreditTypes'
  <1> USE DEF RTypes
  <1>0. M \in Nat /\ M > 0 /\ \A x \in Int : x % M \in 0 .. (M - 1)
    BY ReceiverAssumption
  <1>1. CASE MuxTop
    <2>0. settlementCount \in Nat /\ creditsToAdd \in Nat /\ linkCredit \in 0 .. (M - 1)
          /\ pendingDrain \in BOOLEAN
      BY Zenon DEF AppTypes, CreditTypes
    <2>1. ToAdd \in Nat
      BY <2>0 DEF ToAdd
    <2>2. Credits \in 0 .. (M - 1)
      <3>1. ToAdd + linkCredit \in Int
        BY <2>0, <2>1, <1>0
      <3>2. (ToAdd + linkCredit) % M \in 0 .. (M - 1)
        BY Zenon, <3>1, <1>0
      <3>3. 0 \in 0 .. (M - 1)
        BY <1>0
      <3> QED
        BY Zenon, <3>2, <3>3 DEF Credits
    <2>3. NewCredit \in 0 .. (M - 1)
      BY Zenon, <2>0, <2>2 DEF NewCredit
    <2>4. Credits \in Nat
      BY <2>2
    <2>5. [credit |-> Credits, drain |-> pendingDrain] \in [credit : Nat, drain : BOOLEAN]
      BY Zenon, <2>0, <2>4
    <2>6. \/ creditsToAdd' = ToAdd /\ UNCHANGED <<pendingDrain, linkCredit, flow>>
          \/ /\ flow' = [credit |-> Credits, drain |-> pendingDrain]
             /\ linkCredit' = NewCredit /\ pendingDrain' = FALSE /\ creditsToAdd' = 0
      BY Zenon, <1>1 DEF MuxTop
    <2>7. UNCHANGED <<drained, drains, count>>
      BY Zenon, <1>1 DEF MuxTop
    <2> HIDE DEF RTypes
    <2>8. CASE creditsToAdd' = ToAdd /\ UNCHANGED <<pendingDrain, linkCredit, flow>>
      BY Zenon, <2>1, <2>7, <2>8 DEF RTypes, CreditTypes
    <2>9. CASE /\ flow' = [credit |-> Credits, drain |-> pendingDrain]
               /\ linkCredit' = NewCredit /\ pendingDrain' = FALSE /\ creditsToAdd' = 0
      BY Zenon, <2>3, <2>5, <2>7, <2>9 DEF RTypes, CreditTypes
    <2> QED
      BY Zenon, <2>6, <2>8, <2>9
  <1>2. CASE MuxReceive
    <2>1. \/ count' = count + 1 /\ linkCredit' = (linkCredit - 1) % M
          \/ UNCHANGED <<count, linkCredit>>
      BY Zenon, <1>2 DEF MuxReceive
    <2>2. linkCredit - 1 \in Int
      BY <1>0 DEF CreditTypes
    <2>3. linkCredit' \in 0 .. (M - 1) /\ count' \in Nat
      BY <1>0, <2>1, <2>2 DEF CreditTypes
    <2> QED
      BY Zenon, <1>2, <2>3 DEF MuxReceive, drainVars, CreditTypes
  <1>3. CASE MuxFlow
    BY Zenon, <1>3 DEF MuxFlow, NoFlow, drainVars, CreditTypes
  <1>4. CASE HandleFlow
    <2>1. \/ UNCHANGED <<linkCredit, drained>>
          \/ linkCredit' = 0 /\ drained' = 0
      BY Zenon, <1>4 DEF HandleFlow, EndDrain
    <2>2. UNCHANGED <<pendingDrain, creditsToAdd, drains, count, flow>>
      BY Zenon, <1>4 DEF HandleFlow
    <2> QED
      BY <1>0, <2>1, <2>2 DEF CreditTypes
  <1>5. CASE Unwind
    <2>1. UNCHANGED <<pendingDrain, creditsToAdd, drains, creditVars>> /\ (drained' = 0 \/ drained' = drained)
      BY Zenon, <1>5 DEF Unwind, EndDrain
    <2> QED
      BY <2>1 DEF CreditTypes, creditVars
  <1>6. CASE UNCHANGED <<drainVars, creditVars>>
    BY Zenon, <1>6 DEF drainVars, creditVars, CreditTypes
  <1> QED
    BY ZenonT(60), <1>1, <1>2, <1>3, <1>4, <1>5, <1>6
    DEF MuxStep, HandleFrame, HandleDisposition, HandleDetach, CloseWithError, SendEcho,
        TakeDisposition, SendDisposition, Ready, CloseRequested, SendDetach, SessionGone

\* A step of the mux keeps the types of the frames.
LEMMA MuxKeepsPeerTypes ==
    ASSUME RTypes, MuxStep
    PROVE  PeerTypes'
  <1> USE DEF RTypes
  <1>1. UNCHANGED <<sent, limit, mid>>
    BY Zenon DEF MuxStep, HandleFrame, MuxTop, MuxFlow, MuxReceive, HandleFlow, HandleDisposition,
           HandleDetach, CloseWithError, SendEcho, TakeDisposition, SendDisposition, Ready,
           CloseRequested, SendDetach, SessionGone, Unwind, peerVars
  <1>2. UNCHANGED rxQ \/ (rxQ # <<>> /\ rxQ' = Tail(rxQ))
    BY Zenon DEF MuxStep, HandleFrame, MuxTop, MuxFlow, MuxReceive, HandleFlow, HandleDisposition,
           HandleDetach, CloseWithError, SendEcho, TakeDisposition, SendDisposition, Ready,
           CloseRequested, SendDetach, SessionGone, Unwind, Dequeued
  <1>3. rxQ' \in Seq(RFrames)
    BY <1>2 DEF PeerTypes
  <1>4. toPeer' \in Seq(Grants)
    <2>1. ASSUME NEW fl \in [credit : Nat, drain : BOOLEAN], Transmit(fl)
          PROVE  toPeer' \in Seq(Grants)
      <3> DEFINE f == [upTo |-> count + fl.credit, drain |-> fl.drain]
      <3>1. f \in Grants
        BY DEF CreditTypes, Grants
      <3>2. toPeer' = toPeer \/ toPeer' = Append(toPeer, f)
        BY Zenon, <2>1 DEF Transmit
      <3> HIDE DEF f
      <3> QED
        BY <3>1, <3>2 DEF PeerTypes
    <2>2. CASE Transmit(flow)
      BY Zenon, <2>1, <2>2 DEF CreditTypes
    <2>3. CASE Transmit([credit |-> linkCredit, drain |-> FALSE])
      <3>1. [credit |-> linkCredit, drain |-> FALSE] \in [credit : Nat, drain : BOOLEAN]
        BY DEF CreditTypes
      <3> QED
        BY Zenon, <2>1, <2>3, <3>1
    <2>4. CASE UNCHANGED toPeer
      BY Zenon, <2>4 DEF PeerTypes
    <2> QED
      BY ZenonT(60), <2>2, <2>3, <2>4
      DEF MuxStep, HandleFrame, MuxTop, MuxFlow, MuxReceive, HandleFlow, HandleDisposition,
          HandleDetach, CloseWithError, SendEcho, TakeDisposition, SendDisposition, Ready,
          CloseRequested, SendDetach, SessionGone, Unwind
  <1> QED
    BY Zenon, <1>1, <1>3, <1>4 DEF PeerTypes

\* A frame that is delivered keeps the types.
LEMMA DeliveryKeepsTypes ==
    ASSUME RTypes, NEW fr \in RFrames, Deliver(fr), UNCHANGED appsMux,
           sent' \in Nat, limit' \in Nat, mid' \in BOOLEAN, toPeer' \in Seq(Grants)
    PROVE  RTypes'
  <1>1. rxQ' \in Seq(RFrames)
    BY DEF Deliver, RTypes, PeerTypes
  <1>2. UNCHANGED <<autoSendFlow, second, pc, msg, messagesQ, settlementCount, unsettled, calls,
                    settledMsgs, inFlight, mux, env, pendingDrain, creditsToAdd, drained, drains,
                    linkCredit, count, flow>>
    BY Zenon DEF appsMux, conf, appVars, settleVars, drainVars, creditVars
  <1>3. AppTypes'
    BY Zenon, <1>2 DEF RTypes, AppTypes
  <1>4. CreditTypes'
    BY Zenon, <1>2 DEF RTypes, CreditTypes
  <1> QED
    BY Zenon, <1>1, <1>3, <1>4 DEF RTypes, PeerTypes

\* A step of the peer keeps the types.
LEMMA PeerKeepsTypes ==
    ASSUME RTypes, PeerStep
    PROVE  RTypes'
  <1>0. sent \in Nat /\ limit \in Nat /\ mid \in BOOLEAN /\ toPeer \in Seq(Grants)
    BY Zenon DEF RTypes, PeerTypes
  <1>1. ASSUME NEW settled \in BOOLEAN, PeerSends(settled) PROVE RTypes'
    <2>1. Transfer(settled, FALSE, FALSE) \in RFrames
      BY Zenon, PeerFrames
    <2>2. /\ Deliver(Transfer(settled, FALSE, FALSE)) /\ mid' = FALSE /\ sent' = sent + 1
          /\ UNCHANGED <<limit, toPeer, appsMux>>
      BY Zenon, <1>1 DEF PeerSends
    <2>3. sent' \in Nat
      BY <1>0, <2>2
    <2>4. mid' \in BOOLEAN
      BY Zenon, <2>2
    <2>5. limit' \in Nat /\ toPeer' \in Seq(Grants)
      BY Zenon, <1>0, <2>2
    <2> QED
      BY Zenon, <2>1, <2>2, <2>3, <2>4, <2>5, DeliveryKeepsTypes
  <1>2. ASSUME NEW settled \in BOOLEAN, PeerBegins(settled) PROVE RTypes'
    BY Zenon, <1>0, <1>2, PeerFrames, DeliveryKeepsTypes DEF PeerBegins
  <1>3. CASE PeerAborts
    BY Zenon, <1>0, <1>3, PeerFrames, DeliveryKeepsTypes DEF PeerAborts
  <1>4. CASE PeerReads
    <2>1. Head(toPeer) \in Grants /\ Tail(toPeer) \in Seq(Grants)
      BY <1>0, <1>4 DEF PeerReads
    <2>2. limit' \in Nat /\ toPeer' \in Seq(Grants)
      BY Zenon, <1>4, <2>1 DEF PeerReads, Grants
    <2>3. CASE Deliver(FlowFrame(TRUE, FALSE))
      BY Zenon, <1>0, <1>4, <2>2, <2>3, PeerFrames, DeliveryKeepsTypes DEF PeerReads
    <2>4. CASE UNCHANGED rxQ
      <3>1. UNCHANGED <<autoSendFlow, second, pc, msg, messagesQ, settlementCount, unsettled, calls,
                    settledMsgs, inFlight, mux, env, pendingDrain, creditsToAdd, drained, drains,
                    linkCredit, count, flow, sent, mid>>
        BY Zenon, <1>4 DEF PeerReads, appsMux, conf, appVars, settleVars, drainVars, creditVars
      <3>2. AppTypes'
        BY Zenon, <3>1 DEF RTypes, AppTypes
      <3>3. CreditTypes'
        BY Zenon, <3>1 DEF RTypes, CreditTypes
      <3> QED
        BY Zenon, <2>2, <2>4, <3>1, <3>2, <3>3 DEF RTypes, PeerTypes
    <2> QED
      BY Zenon, <1>4, <2>3, <2>4 DEF PeerReads
  <1>5. ASSUME NEW first \in 1 .. MaxSent, NEW last \in 1 .. MaxSent, PeerSettles(first, last)
        PROVE  RTypes'
    <2>1. first \in Nat /\ last \in Nat
      BY ReceiverAssumption
    <2> QED
      BY Zenon, <1>0, <1>5, <2>1, PeerFrames, DeliveryKeepsTypes DEF PeerSettles
  <1>6. ASSUME NEW echo \in BOOLEAN, PeerFlow(echo) PROVE RTypes'
    BY Zenon, <1>0, <1>6, PeerFrames, DeliveryKeepsTypes DEF PeerFlow, PeerExtra
  <1>7. CASE PeerBad
    BY Zenon, <1>0, <1>7, PeerFrames, DeliveryKeepsTypes DEF PeerBad, PeerExtra
  <1>8. CASE PeerDetaches
    <2>1. <<>> \in Seq(Grants)
      OBVIOUS
    <2> QED
      BY Zenon, <1>0, <1>8, <2>1, PeerFrames, DeliveryKeepsTypes DEF PeerDetaches
  <1> QED
    BY Zenon, <1>1, <1>2, <1>3, <1>4, <1>5, <1>6, <1>7, <1>8 DEF PeerStep

=============================================================================
