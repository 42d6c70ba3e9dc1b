--------------------------- MODULE ReceiverProofs ---------------------------
(***************************************************************************)
(* The credit of a Receiver link, for any number of goroutines, any credit, *)
(* any number of deliveries and both modes of credit management: it is     *)
(* neither lost nor multiplied, it covers what a peer within its limit has *)
(* on the way, and the answer to a drain means what the code takes it for. *)
(***************************************************************************)
EXTENDS ReceiverInv, FiniteSetTheorems

-----------------------------------------------------------------------------
(* Types *)

\* A disposition removes finitely many deliveries from inFlight.
LEMMA RemovedFinite ==
    ASSUME NEW fr \in RFrames, fr.type = "disposition", NEW S
    PROVE  LET removed == S \cap (fr.first .. fr.last)
           IN  IsFiniteSet(removed) /\ Cardinality(removed) \in Nat
  <1> DEFINE removed == S \cap (fr.first .. fr.last)
  <1>1. fr.first \in Int /\ fr.last \in Int
    BY DEF RFrames
  <1>2. IsFiniteSet(fr.first .. fr.last)
    BY Zenon, <1>1, FS_Interval
  <1>3. removed \in SUBSET (fr.first .. fr.last)
    BY Zenon
  <1>4. IsFiniteSet(removed)
    BY Zenon, <1>2, <1>3, FS_Subset
  <1> HIDE DEF removed
  <1>5. Cardinality(removed) \in Nat
    BY Zenon, <1>4, FS_CardinalityType
  <1> QED
    BY Zenon, <1>4, <1>5 DEF removed

\* A step of the mux keeps the types of what the application uses.
LEMMA MuxKeepsAppTypes ==
    ASSUME RTypes, MuxStep
    PROVE  AppTypes'
  <1> USE DEF RTypes
  <1>0. mux # "tx" => (mux' # "tx" => (UNCHANGED <<autoSendFlow, second, pc, msg, messagesQ, calls,
            settlementCount, unsettled, settledMsgs, inFlight>> => AppTypes'))
    BY DEF AppTypes
  <1>1. CASE MuxTop
    <2>1. settlementCount' \in Nat
      <3>1. settlementCount \in Nat
        BY Zenon DEF AppTypes
      <3>2. settlementCount' = 0 \/ settlementCount' = settlementCount
        BY Zenon, <1>1 DEF MuxTop
      <3> QED
        BY <3>1, <3>2
    <2>2. mux' # "tx"
      BY Zenon, <1>1 DEF MuxTop
    <2>3. UNCHANGED <<autoSendFlow, second, pc, msg, messagesQ, calls, unsettled, settledMsgs, inFlight>>
      BY Zenon, <1>1 DEF MuxTop, conf, appVars
    <2> QED
      BY Zenon, <2>1, <2>2, <2>3 DEF AppTypes
  <1>2. CASE MuxReceive
    <2>1. rxQ \in Seq(RFrames) /\ rxQ # <<>> /\ Head(rxQ).type = "transfer"
      BY Zenon, <1>2 DEF PeerTypes, MuxReceive, Dequeued
    <2>2. Head(rxQ) \in RFrames
      BY <2>1
    <2>3. Head(rxQ).id \in Nat /\ Head(rxQ).settled \in BOOLEAN
      BY Zenon, <2>1, <2>2 DEF RFrames
    <2> DEFINE m == [id |-> Head(rxQ).id, settled |-> (msgSettled \/ Head(rxQ).settled)]
    <2>4. m \in Messages
      BY Zenon, <2>3 DEF Messages
    <2>5. \/ UNCHANGED messagesQ
          \/ messagesQ' = Append(messagesQ, m)
      BY Zenon, <1>2 DEF MuxReceive
    <2> HIDE DEF m
    <2>6. messagesQ' \in Seq(Messages)
      BY <2>4, <2>5 DEF AppTypes
    <2>7. unsettled' = unsettled \/ unsettled' = unsettled + 1
      BY Zenon, <1>2 DEF MuxReceive
    <2>8. /\ mux' # "tx"
          /\ UNCHANGED <<autoSendFlow, second, pc, msg, calls, settlementCount, settledMsgs, inFlight>>
      BY Zenon, <1>2 DEF MuxReceive, conf, appVars
    <2> QED
      BY <2>6, <2>7, <2>8 DEF AppTypes
  <1>3. CASE HandleDisposition
    <2>1. rxQ \in Seq(RFrames) /\ rxQ # <<>> /\ Head(rxQ).type = "disposition"
      BY Zenon, <1>3 DEF PeerTypes, HandleDisposition, Dequeued
    <2>2. Head(rxQ) \in RFrames
      BY <2>1
    <2> DEFINE removed == inFlight \cap (Head(rxQ).first .. Head(rxQ).last)
    <2>3. Cardinality(removed) \in Nat
      BY Zenon, <2>1, <2>2, RemovedFinite
    <2>4. /\ inFlight' = inFlight \ removed /\ settledMsgs' = settledMsgs \cup removed
          /\ removed \subseteq inFlight
          /\ unsettled' = unsettled - Cardinality(removed)
          /\ settlementCount' = settlementCount + (IF autoSendFlow THEN Cardinality(removed) ELSE 0)
      BY Zenon, <1>3 DEF HandleDisposition
    <2> DEFINE k == Cardinality(removed)
    <2>5. /\ unsettled' = unsettled - k /\ k \in Nat
          /\ settlementCount' = settlementCount + k \/ settlementCount' = settlementCount + 0
      BY Zenon, <2>3, <2>4
    <2> HIDE DEF k, removed
    <2>6. settlementCount' \in Nat /\ unsettled' \in Int
      BY <2>5 DEF AppTypes
    <2>7. inFlight' \subseteq Nat /\ settledMsgs' \subseteq Nat
      BY Zenon, <2>4 DEF AppTypes
    <2>8. mux' # "tx" /\ UNCHANGED <<autoSendFlow, second, pc, msg, messagesQ, calls>>
      BY Zenon, <1>3 DEF HandleDisposition, conf, appVars
    <2> QED
      BY Zenon, <2>6, <2>7, <2>8 DEF AppTypes
  <1>4. ASSUME NEW a \in Apps, TakeDisposition(a) PROVE AppTypes'
    <2>1. /\ pc' \in [Apps -> Owning \cup Elsewhere] /\ pc'[a] = "sending"
      BY Zenon, <1>4, Moves DEF TakeDisposition, Owning, Holding
    <2>2. env' = a /\ UNCHANGED <<autoSendFlow, second, msg, messagesQ, calls, unsettled, settledMsgs,
                                   inFlight, settlementCount>>
      BY Zenon, <1>4 DEF TakeDisposition, conf, settleVars
    <2> QED
      BY Zenon, <2>1, <2>2 DEF AppTypes
  <1>5. CASE SendDisposition
    <2>1. env \in Apps
      BY Zenon, <1>5 DEF SendDisposition, AppTypes
    <2>2. \/ \E p \in {"wait", "settle", "got"} : Goto(env, p)
          \/ UNCHANGED pc
      <3> DEFINE w == IF second THEN "wait" ELSE "settle"
      <3>1. Goto(env, w) \/ Goto(env, "got") \/ UNCHANGED pc
        BY Zenon, <1>5 DEF SendDisposition
      <3>2. w \in {"wait", "settle", "got"}
        BY Zenon
      <3> HIDE DEF w
      <3> QED
        BY Zenon, <3>1, <3>2
    <2>3. pc' \in [Apps -> Owning \cup Elsewhere]
      BY Zenon, <2>1, <2>2, Moves DEF Owning, Holding, AppTypes
    <2>4. mux' # "tx" /\ UNCHANGED <<autoSendFlow, second, msg, messagesQ, calls, unsettled, settledMsgs,
                                   inFlight, settlementCount>>
      BY Zenon, <1>5 DEF SendDisposition, conf, settleVars
    <2> QED
      BY Zenon, <2>3, <2>4 DEF AppTypes
  <1>6. CASE Unwind
    BY Zenon, <1>6 DEF Unwind, conf, appVars, AppTypes
  <1>7. CASE MuxFlow \/ HandleFlow \/ HandleDetach \/ CloseWithError \/ SendEcho \/ Ready
             \/ CloseRequested \/ SendDetach \/ SessionGone
    <2>1. mux # "tx" /\ mux' # "tx"
      BY <1>7 DEF MuxFlow, HandleFlow, HandleDetach, CloseWithError, SendEcho, Ready, CloseRequested,
                  SendDetach, SessionGone, Dequeued
    <2>2. UNCHANGED <<conf, appVars, messagesQ, settleVars>>
      BY <1>7 DEF MuxFlow, HandleFlow, HandleDetach, CloseWithError, SendEcho, Ready, CloseRequested,
                  SendDetach, SessionGone
    <2> QED
      BY Zenon, <1>0, <2>1, <2>2 DEF conf, appVars, settleVars
  <1> QED
    BY Zenon, <1>1, <1>2, <1>3, <1>4, <1>5, <1>6, <1>7 DEF MuxStep, HandleFrame

\* Every step keeps the types.
LEMMA StepKeepsRTypes == RTypes /\ [Next]_vars => RTypes'
  <1> SUFFICES ASSUME RTypes, [Next]_vars PROVE RTypes'
    BY Zenon
  <1>1. ASSUME NEW a \in Apps, AppCall(a) \/ AppStep(a) PROVE RTypes'
    BY Zenon, <1>1, AppsKeepTypes
  <1>2. CASE MuxStep
    BY Zenon, <1>2, MuxKeepsAppTypes, MuxKeepsCreditTypes, MuxKeepsPeerTypes DEF RTypes
  <1>3. CASE PeerStep
    BY Zenon, <1>3, PeerKeepsTypes
  <1>4. CASE Close \/ SessionEnds \/ SessionDone \/ UNCHANGED vars
    <2>1. UNCHANGED <<conf, appVars, messagesQ, settleVars, drainVars, mux, creditVars, env, rxQ,
                      toPeer, peerVars>>
      BY Zenon, <1>4 DEF Close, SessionEnds, SessionDone, vars, appsMux
    <2>2. AppTypes'
      BY Zenon, <2>1 DEF RTypes, AppTypes, conf, appVars, settleVars
    <2>3. CreditTypes'
      BY Zenon, <2>1 DEF RTypes, CreditTypes, creditVars, drainVars
    <2>4. PeerTypes'
      BY Zenon, <2>1 DEF RTypes, PeerTypes, peerVars
    <2> QED
      BY Zenon, <2>2, <2>3, <2>4 DEF RTypes
  <1> QED
    BY Zenon, <1>1, <1>2, <1>3, <1>4 DEF Next

-----------------------------------------------------------------------------
(* How many deliveries are where *)

\* The messages of messagesQ that were not sent settled.
Owed(q) == {i \in DOMAIN q : ~q[i].settled}

\* They are finitely many.
LEMMA OwedFinite ==
    ASSUME NEW q \in Seq(Messages)
    PROVE  IsFiniteSet(Owed(q)) /\ Cardinality(Owed(q)) \in Nat
  <1>1. Owed(q) \in SUBSET (1 .. Len(q)) /\ Len(q) \in Nat
    BY DEF Owed
  <1>2. IsFiniteSet(1 .. Len(q))
    BY <1>1, FS_Interval
  <1>3. IsFiniteSet(Owed(q))
    BY Zenon, <1>1, <1>2, FS_Subset
  <1> QED
    BY Zenon, <1>3, FS_CardinalityType

\* A message that is appended is one more if it is not settled.
LEMMA OwedAppend ==
    ASSUME NEW q \in Seq(Messages), NEW x \in Messages
    PROVE  Cardinality(Owed(Append(q, x))) = Cardinality(Owed(q)) + (IF x.settled THEN 0 ELSE 1)
  <1>1. CASE x.settled
    <2>1. Owed(Append(q, x)) = Owed(q)
      BY <1>1 DEF Owed
    <2> QED
      BY <1>1, <2>1, OwedFinite
  <1>2. CASE ~x.settled
    <2>1. Owed(Append(q, x)) = Owed(q) \cup {Len(q) + 1} /\ Len(q) + 1 \notin Owed(q)
      BY <1>2 DEF Owed
    <2> QED
      BY Zenon, <1>2, <2>1, OwedFinite, FS_AddElement
  <1> QED
    BY Zenon, <1>1, <1>2

\* A message that is taken is one less if it is not settled.
LEMMA OwedTail ==
    ASSUME NEW q \in Seq(Messages), q # <<>>
    PROVE  Cardinality(Owed(Tail(q))) = Cardinality(Owed(q)) - (IF q[1].settled THEN 0 ELSE 1)
  <1> DEFINE S == Owed(q) \ {1}
             T == Owed(Tail(q))
             f == [i \in S |-> i - 1]
  <1>1. S \in SUBSET (2 .. Len(q)) /\ \A i \in S : i - 1 \in T
    BY DEF Owed
  <1>2. \A j \in T : j + 1 \in S /\ f[j + 1] = j
    BY DEF Owed
  <1>3. f \in Bijection(S, T)
    <2>1. f \in [S -> T]
      BY Zenon, <1>1
    <2>2. \A i, j \in S : f[i] = f[j] => i = j
      BY <1>1
    <2>3. \A j \in T : \E i \in S : f[i] = j
      BY Zenon, <1>2
    <2> HIDE DEF S, T, f
    <2> QED
      BY Zenon, <2>1, <2>2, <2>3 DEF Bijection, Injection, Surjection, IsInjective
  <1>4. IsFiniteSet(Owed(q)) /\ Cardinality(Owed(q)) \in Nat
    BY Zenon, OwedFinite
  <1>5. IsFiniteSet(S) /\ Cardinality(S) = IF 1 \in Owed(q) THEN Cardinality(Owed(q)) - 1 ELSE Cardinality(Owed(q))
    BY Zenon, <1>4, FS_RemoveElement
  <1>6. Cardinality(T) = Cardinality(S)
    <2>1. ExistsBijection(S, T)
      BY Zenon, <1>3 DEF ExistsBijection
    <2> HIDE DEF S, T
    <2> QED
      BY Zenon, <2>1, <1>5, FS_Bijection
  <1>7. 1 \in Owed(q) <=> ~q[1].settled
    BY DEF Owed
  <1> QED
    BY <1>4, <1>5, <1>6, <1>7

\* The deliveries the application holds, before and after a step.
LEMMA HeldIs ==
    /\ \A d : d \in Held <=> d \notin settledMsgs /\ \E a \in Apps : pc[a] \in Holding /\ msg[a] = d
    /\ \A d : d \in Held' <=> d \notin settledMsgs' /\ \E a \in Apps : pc'[a] \in Holding /\ msg'[a] = d
  BY Zenon DEF Held, Holding

\* The settled deliveries it has still to count.
LEMMA UncountedIs ==
    /\ \A d : d \in Uncounted <=> \E a \in Apps : pc[a] = "count" /\ msg[a] = d
    /\ \A d : d \in Uncounted' <=> \E a \in Apps : pc'[a] = "count" /\ msg'[a] = d
  BY Zenon DEF Uncounted

\* Both.
LEMMA InHands ==
    /\ \A d : d \in Held <=> d \notin settledMsgs /\ \E a \in Apps : pc[a] \in Holding /\ msg[a] = d
    /\ \A d : d \in Held' <=> d \notin settledMsgs' /\ \E a \in Apps : pc'[a] \in Holding /\ msg'[a] = d
    /\ \A d : d \in Uncounted <=> \E a \in Apps : pc[a] = "count" /\ msg[a] = d
    /\ \A d : d \in Uncounted' <=> \E a \in Apps : pc'[a] = "count" /\ msg'[a] = d
  BY Zenon, HeldIs, UncountedIs

\* A goroutine whose hands were empty adds what it takes.
LEMMA HandsOfTaker ==
    ASSUME NEW a \in Apps, pc[a] \notin Holding, pc[a] # "count", UNCHANGED settledMsgs,
           \A b \in Apps : b # a => pc'[b] = pc[b] /\ msg'[b] = msg[b]
    PROVE  /\ \A d : d \in Held' <=> d \in Held \/ (pc'[a] \in Holding /\ d = msg'[a] /\ d \notin settledMsgs)
           /\ \A d : d \in Uncounted' <=> d \in Uncounted \/ (pc'[a] = "count" /\ d = msg'[a])
  <1>1. ASSUME NEW d, d \in Held PROVE d \in Held'
    <2>1. PICK b \in Apps : pc[b] \in Holding /\ msg[b] = d
      BY Zenon, <1>1, HeldIs
    <2>2. pc'[b] \in Holding /\ msg'[b] = d
      BY Zenon, <2>1
    <2> QED
      BY Zenon, <1>1, <2>2, HeldIs
  <1>2. ASSUME NEW d, d \in Held', d \notin Held
        PROVE  pc'[a] \in Holding /\ d = msg'[a] /\ d \notin settledMsgs
    <2>1. PICK b \in Apps : pc'[b] \in Holding /\ msg'[b] = d
      BY Zenon, <1>2, HeldIs
    <2>2. d \notin settledMsgs
      BY Zenon, <1>2, HeldIs
    <2>3. CASE b # a
      <3>1. pc[b] \in Holding /\ msg[b] = d
        BY Zenon, <2>1, <2>3
      <3> QED
        BY Zenon, <1>2, <2>2, <3>1, HeldIs
    <2> QED
      BY Zenon, <2>1, <2>2, <2>3
  <1>3. ASSUME NEW d, pc'[a] \in Holding, d = msg'[a], d \notin settledMsgs PROVE d \in Held'
    BY Zenon, <1>3, HeldIs
  <1>4. ASSUME NEW d, d \in Uncounted PROVE d \in Uncounted'
    <2>1. PICK b \in Apps : pc[b] = "count" /\ msg[b] = d
      BY Zenon, <1>4, UncountedIs
    <2>2. pc'[b] = "count" /\ msg'[b] = d
      BY Zenon, <2>1
    <2> QED
      BY Zenon, <2>2, UncountedIs
  <1>5. ASSUME NEW d, d \in Uncounted', d \notin Uncounted PROVE pc'[a] = "count" /\ d = msg'[a]
    <2>1. PICK b \in Apps : pc'[b] = "count" /\ msg'[b] = d
      BY Zenon, <1>5, UncountedIs
    <2>2. CASE b # a
      <3>1. pc[b] = "count" /\ msg[b] = d
        BY Zenon, <2>1, <2>2
      <3> QED
        BY Zenon, <1>5, <3>1, UncountedIs
    <2> QED
      BY Zenon, <2>1, <2>2
  <1>6. ASSUME NEW d, pc'[a] = "count", d = msg'[a] PROVE d \in Uncounted'
    BY Zenon, <1>6, UncountedIs
  <1> QED
    BY Zenon, <1>1, <1>2, <1>3, <1>4, <1>5, <1>6

\* They are finitely many, since they were counted.
LEMMA HandsFinite ==
    ASSUME RTypes, OnePlace
    PROVE  /\ IsFiniteSet(Held) /\ Cardinality(Held) \in Nat
           /\ IsFiniteSet(Uncounted) /\ Cardinality(Uncounted) \in Nat
  <1>1. msg \in [Apps -> Nat] /\ count \in Nat
    BY Zenon DEF RTypes, AppTypes, CreditTypes
  <1>2. \A a \in Apps : pc[a] \in Owning => msg[a] \in 0 .. count
    BY <1>1 DEF OnePlace
  <1>3. Held \in SUBSET (0 .. count)
    BY Zenon, <1>2, InHands DEF Owning
  <1>4. Uncounted \in SUBSET (0 .. count)
    BY Zenon, <1>2, InHands DEF Owning
  <1>5. IsFiniteSet(0 .. count)
    BY <1>1, FS_Interval
  <1> QED
    BY Zenon, <1>3, <1>4, <1>5, FS_Subset, FS_CardinalityType

\* What a step adds to messagesQ, to Held, to Uncounted and to the unsettled of messagesQ.
Tally(q, h, u, o) ==
    /\ Len(messagesQ') = Len(messagesQ) + q
    /\ Cardinality(Held') = Cardinality(Held) + h
    /\ Cardinality(Uncounted') = Cardinality(Uncounted) + u
    /\ Cardinality(Owed(messagesQ')) = Cardinality(Owed(messagesQ)) + o

\* A step that leaves messagesQ and what is in hands alone adds nothing.
LEMMA SameTally ==
    ASSUME RTypes, OnePlace, UNCHANGED messagesQ, Held' = Held, Uncounted' = Uncounted
    PROVE  Tally(0, 0, 0, 0)
  <1>1. messagesQ \in Seq(Messages)
    BY Zenon DEF RTypes, AppTypes
  <1>2. Len(messagesQ) \in Nat
    BY <1>1
  <1>3. Cardinality(Owed(messagesQ)) \in Nat
    BY Zenon, <1>1, OwedFinite
  <1> QED
    BY <1>2, <1>3, HandsFinite DEF Tally

\* A delivery that is carried along is counted as before.
LEMMA CarryTally ==
    ASSUME RTypes, OnePlace, Alive, NEW a \in Apps, Carry(a)
    PROVE  Tally(0, 0, 0, 0)
  <1>1. PICK p \in Owning \cup Elsewhere :
            /\ Goto(a, p) /\ pc[a] # "count" /\ p # "count"
            /\ p \in Holding => pc[a] \in Holding /\ UNCHANGED msg
            /\ pc[a] \in Holding /\ p \notin Holding => msg[a] \in settledMsgs
    BY Zenon DEF Carry
  <1>2. pc'[a] = p /\ \A b \in Apps : b # a => pc'[b] = pc[b]
    BY Zenon, <1>1, Moves DEF RTypes
  <1>3. (\A b \in Apps : b # a => msg'[b] = msg[b]) /\ UNCHANGED <<messagesQ, settledMsgs>>
    BY Zenon, Holds DEF Carry, RTypes
  <1>4. ASSUME NEW d, d \notin settledMsgs, NEW b \in Apps
        PROVE  pc[b] \in Holding /\ msg[b] = d <=> pc'[b] \in Holding /\ msg'[b] = d
    BY Zenon, <1>1, <1>2, <1>3, <1>4
  <1>5. Held' = Held
    <2>1. \A d : d \in Held' <=> d \in Held
      BY Zenon, <1>3, <1>4, InHands
    <2> QED
      BY Zenon, <2>1 DEF Held
  <1>6. Uncounted' = Uncounted
    <2>1. \A b \in Apps : pc[b] = "count" <=> pc'[b] = "count"
      BY Zenon, <1>1, <1>2
    <2>2. \A b \in Apps : pc[b] = "count" => msg'[b] = msg[b]
      BY Zenon, <1>1, <1>3
    <2>3. \A d : d \in Uncounted' <=> d \in Uncounted
      BY Zenon, <2>1, <2>2, InHands
    <2> QED
      BY Zenon, <2>3 DEF Uncounted
  <1> QED
    BY Zenon, <1>3, <1>5, <1>6, SameTally

\* A settled message that has been received is counted once.
LEMMA CountTally ==
    ASSUME RTypes, OnePlace, NEW a \in Apps, Count(a)
    PROVE  Tally(0, 0, -1, 0)
  <1>1. pc'[a] = "poke" /\ \A b \in Apps : b # a => pc'[b] = pc[b]
    BY Zenon, Moves DEF Count, Elsewhere, RTypes
  <1>2. UNCHANGED <<msg, settledMsgs, messagesQ>> /\ pc[a] = "count"
    BY Zenon DEF Count
  <1>3. Held' = Held
    <2>1. \A b \in Apps : pc[b] \in Holding <=> pc'[b] \in Holding
      BY Zenon, <1>1, <1>2 DEF Holding
    <2>2. \A d : d \in Held' <=> d \in Held
      BY Zenon, <1>2, <2>1, InHands
    <2> QED
      BY Zenon, <2>2 DEF Held
  <1>4. Uncounted' = Uncounted \ {msg[a]} /\ msg[a] \in Uncounted
    <2>1. \A b \in Apps : pc[b] = "count" /\ msg[b] = msg[a] => b = a
      BY Zenon, <1>2 DEF OnePlace, Owning
    <2>2. \A d : d \in Uncounted' <=> d \in Uncounted /\ d # msg[a]
      <3>0. pc'[a] # "count"
        BY Zenon, <1>1
      <3>1. \A b \in Apps : pc'[b] = "count" <=> pc[b] = "count" /\ b # a
        BY Zenon, <1>1, <3>0
      <3>2. \A b \in Apps : pc'[b] = "count" => pc[b] = "count" /\ msg[b] # msg[a]
        BY Zenon, <2>1, <3>1
      <3>3. \A b \in Apps : pc[b] = "count" /\ msg[b] # msg[a] => pc'[b] = "count"
        BY Zenon, <3>1
      <3>4. msg' = msg
        BY Zenon, <1>2
      <3> QED
        BY Zenon, <3>2, <3>3, <3>4, UncountedIs
    <2>3. msg[a] \in Uncounted
      BY Zenon, <1>2, InHands
    <2> QED
      BY Zenon, <2>2, <2>3 DEF Uncounted
  <1>5. Cardinality(Uncounted') = Cardinality(Uncounted) - 1
    BY Zenon, <1>4, HandsFinite, FS_RemoveElement
  <1>6. messagesQ \in Seq(Messages) /\ Cardinality(Owed(messagesQ)) \in Nat
    BY Zenon, OwedFinite DEF RTypes, AppTypes
  <1> QED
    BY <1>2, <1>3, <1>5, <1>6, HandsFinite DEF Tally

\* Settle mode first: a message that is settled is no longer held.
LEMMA SettleTally ==
    ASSUME RTypes, OnePlace, FirstInv, SecondInv, NEW a \in Apps, OnSettlement(a)
    PROVE  Tally(0, -1, 0, 0)
  <1>1. pc'[a] = "poke" /\ \A b \in Apps : b # a => pc'[b] = pc[b]
    BY Zenon, Moves DEF OnSettlement, Elsewhere, RTypes
  <1>2. UNCHANGED <<msg, messagesQ>> /\ settledMsgs' = settledMsgs \cup {msg[a]} /\ pc[a] = "settle"
    BY Zenon DEF OnSettlement
  <1>3. pc[a] \in Holding /\ msg[a] \notin settledMsgs /\ pc'[a] \notin Holding
    BY Zenon, <1>1, <1>2 DEF FirstInv, SecondInv, Holding
  <1>4. Held' = Held \ {msg[a]} /\ msg[a] \in Held
    <2>1. \A d : d \in Held' <=> d \in Held /\ d # msg[a]
      <3>1. \A b \in Apps : b # a => (pc'[b] \in Holding <=> pc[b] \in Holding)
        BY Zenon, <1>1
      <3>2. \A d : d \in settledMsgs' <=> d \in settledMsgs \/ d = msg[a]
        BY Zenon, <1>2
      <3>3. msg' = msg
        BY Zenon, <1>2
      <3>4. ASSUME NEW d PROVE d \in Held' => d \in Held /\ d # msg[a]
        BY Zenon, <1>3, <3>1, <3>2, <3>3, HeldIs
      <3>5. ASSUME NEW d, d \in Held, d # msg[a] PROVE d \in Held'
        BY Zenon, <1>3, <3>1, <3>2, <3>3, <3>5, HeldIs
      <3> QED
        BY Zenon, <3>4, <3>5
    <2>2. msg[a] \in Held
      BY Zenon, <1>3, InHands
    <2> QED
      BY Zenon, <2>1, <2>2 DEF Held
  <1>5. Cardinality(Held') = Cardinality(Held) - 1
    BY Zenon, <1>4, HandsFinite, FS_RemoveElement
  <1>6. Uncounted' = Uncounted
    <2>1. \A d : d \in Uncounted' <=> d \in Uncounted
      BY <1>1, <1>2, InHands
    <2> QED
      BY Zenon, <2>1 DEF Uncounted
  <1>7. messagesQ \in Seq(Messages) /\ Cardinality(Owed(messagesQ)) \in Nat
    BY Zenon, OwedFinite DEF RTypes, AppTypes
  <1> QED
    BY <1>2, <1>5, <1>6, <1>7, HandsFinite DEF Tally

\* A message that is received is counted where it is taken to.
LEMMA TakeTally ==
    ASSUME RTypes, OnePlace, NEW a \in Apps, Take(a), messagesQ # <<>>
    PROVE  Tally(-1, 0, 1, 0) \/ Tally(-1, 1, 0, -1)
  <1>0. messagesQ \in Seq(Messages)
    BY Zenon DEF RTypes, AppTypes
  <1>1. /\ Head(messagesQ) = messagesQ[1] /\ messagesQ[1] \in Messages /\ Len(messagesQ) \in Nat
        /\ Len(messagesQ) >= 1 /\ Len(Tail(messagesQ)) = Len(messagesQ) - 1
    BY Zenon, <1>0, Taken
  <1> DEFINE id == messagesQ[1].id
             p == IF messagesQ[1].settled THEN "count" ELSE "got"
  <1>2. p \in Owning \cup Elsewhere /\ id \in Nat /\ 1 \in 1 .. Len(messagesQ)
    BY <1>1 DEF Owning, Holding, Messages
  <1>3. /\ Goto(a, p) /\ Hold(a, id) /\ pc[a] = "take"
        /\ messagesQ' = Tail(messagesQ) /\ UNCHANGED settledMsgs
    BY Zenon, <1>1 DEF Take, settleVars
  <1>4. id \notin settledMsgs /\ \A b \in Apps : pc[b] \in Owning => msg[b] # id
    BY Zenon, <1>2 DEF OnePlace
  <1>5. pc[a] \notin Holding /\ pc[a] # "count"
    BY Zenon, <1>3 DEF Holding
  <1>n. Len(messagesQ') = Len(messagesQ) + (-1)
    BY Zenon, <1>1, <1>3
  <1>o. /\ Cardinality(Owed(messagesQ)) \in Nat
        /\ Cardinality(Owed(messagesQ')) =
               Cardinality(Owed(messagesQ)) - (IF messagesQ[1].settled THEN 0 ELSE 1)
    BY Zenon, <1>0, <1>3, OwedFinite, OwedTail
  <1> HIDE DEF id
  <1>6. CASE messagesQ[1].settled
    <2>0. p = "count"
      BY Zenon, <1>6
    <2> HIDE DEF p
    <2>1. pc'[a] = "count" /\ \A b \in Apps : b # a => pc'[b] = pc[b]
      BY Zenon, <1>2, <1>3, <2>0, Moves DEF RTypes
    <2>2. msg'[a] = id /\ \A b \in Apps : b # a => msg'[b] = msg[b]
      BY Zenon, <1>2, <1>3, Holds DEF RTypes
    <2>a. /\ \A d : d \in Held' <=> d \in Held \/ (pc'[a] \in Holding /\ d = msg'[a] /\ d \notin settledMsgs)
          /\ \A d : d \in Uncounted' <=> d \in Uncounted \/ (pc'[a] = "count" /\ d = msg'[a])
      BY Zenon, <1>3, <1>5, <2>1, <2>2, HandsOfTaker
    <2>3. Held' = Held
      <3>1. "count" \notin Holding
        BY Zenon DEF Holding
      <3>2. \A d : d \in Held' <=> d \in Held
        BY Zenon, <2>1, <2>a, <3>1
      <3> QED
        BY Zenon, <3>2 DEF Held
    <2>4. Uncounted' = Uncounted \cup {id} /\ id \notin Uncounted
      <3>1. \A d : d \in Uncounted' <=> d \in Uncounted \/ d = id
        BY Zenon, <2>1, <2>2, <2>a
      <3>2. id \notin Uncounted
        BY Zenon, <1>4, InHands DEF Owning
      <3> QED
        BY Zenon, <3>1, <3>2 DEF Uncounted
    <2>5. Cardinality(Uncounted') = Cardinality(Uncounted) + 1
      BY Zenon, <2>4, HandsFinite, FS_AddElement
    <2> QED
      BY <1>6, <1>n, <1>o, <2>3, <2>5, HandsFinite DEF Tally
  <1>7. CASE ~messagesQ[1].settled
    <2>0. p = "got"
      BY Zenon, <1>7
    <2> HIDE DEF p
    <2>1. pc'[a] = "got" /\ \A b \in Apps : b # a => pc'[b] = pc[b]
      BY Zenon, <1>2, <1>3, <2>0, Moves DEF RTypes
    <2>2. msg'[a] = id /\ \A b \in Apps : b # a => msg'[b] = msg[b]
      BY Zenon, <1>2, <1>3, Holds DEF RTypes
    <2>a. /\ \A d : d \in Held' <=> d \in Held \/ (pc'[a] \in Holding /\ d = msg'[a] /\ d \notin settledMsgs)
          /\ \A d : d \in Uncounted' <=> d \in Uncounted \/ (pc'[a] = "count" /\ d = msg'[a])
      BY Zenon, <1>3, <1>5, <2>1, <2>2, HandsOfTaker
    <2>3. Uncounted' = Uncounted
      <3>0. pc'[a] # "count"
        BY Zenon, <2>1
      <3>1. \A d : d \in Uncounted' <=> d \in Uncounted
        BY Zenon, <2>a, <3>0
      <3> QED
        BY Zenon, <3>1 DEF Uncounted
    <2>4. Held' = Held \cup {id} /\ id \notin Held
      <3>0. "got" \in Holding
        BY Zenon DEF Holding
      <3>1. \A d : d \in Held' <=> d \in Held \/ d = id
        <4>1. pc'[a] \in Holding /\ msg'[a] = id /\ id \notin settledMsgs
          BY Zenon, <1>4, <2>1, <2>2, <3>0
        <4> QED
          BY Zenon, <2>a, <4>1
      <3>2. id \notin Held
        BY Zenon, <1>4, InHands DEF Owning
      <3> QED
        BY Zenon, <3>1, <3>2 DEF Held
    <2>5. Cardinality(Held') = Cardinality(Held) + 1
      BY Zenon, <2>4, HandsFinite, FS_AddElement
    <2> QED
      BY <1>7, <1>n, <1>o, <2>3, <2>5, HandsFinite DEF Tally
  <1> QED
    BY Zenon, <1>6, <1>7

\* The mux puts a message into messagesQ.
LEMMA ReceiveTally ==
    ASSUME RTypes, OnePlace, MuxReceive
    PROVE  \/ ~Completes(Head(rxQ)) /\ Tally(0, 0, 0, 0) /\ UNCHANGED <<unsettled, linkCredit>>
           \/ /\ Completes(Head(rxQ)) /\ linkCredit' = (linkCredit - 1) % M
              /\ \/ Tally(1, 0, 0, 0) /\ UNCHANGED unsettled
                 \/ Tally(1, 0, 0, 1) /\ unsettled' = unsettled + 1
  <1>0. messagesQ \in Seq(Messages) /\ rxQ \in Seq(RFrames) /\ rxQ # <<>> /\ Head(rxQ).type = "transfer"
    BY Zenon DEF RTypes, AppTypes, PeerTypes, MuxReceive, Dequeued
  <1> DEFINE fr == Head(rxQ)
             settled == IF msgSettled \/ fr.settled THEN TRUE ELSE FALSE
             x == [id |-> fr.id, settled |-> settled]
  <1>1. UNCHANGED <<pc, msg, settledMsgs>>
    BY Zenon DEF MuxReceive, appVars
  <1>2. Held' = Held /\ Uncounted' = Uncounted
    BY Zenon, <1>1 DEF Held, Uncounted
  <1>3. CASE ~Completes(fr)
    <2>1. UNCHANGED <<messagesQ, unsettled, linkCredit>>
      BY Zenon, <1>0, <1>3 DEF MuxReceive, Completes
    <2> QED
      BY Zenon, <1>2, <1>3, <2>1, SameTally
  <1>4. CASE Completes(fr)
    <2>1. fr \in RFrames
      BY <1>0
    <2>2. x \in Messages
      BY Zenon, <1>4, <2>1, CompletesHasId DEF Messages
    <2>3. /\ messagesQ' = Append(messagesQ, [id |-> fr.id, settled |-> msgSettled \/ fr.settled])
          /\ unsettled' = (IF msgSettled \/ fr.settled THEN unsettled ELSE unsettled + 1)
          /\ linkCredit' = (linkCredit - 1) % M
      BY Zenon, <1>4 DEF MuxReceive, Completes
    <2>4. messagesQ' = Append(messagesQ, x)
      BY Zenon, <2>3
    <2>5. unsettled' = IF x.settled THEN unsettled ELSE unsettled + 1
      BY Zenon, <2>3
    <2> HIDE DEF x, fr
    <2>6. Len(messagesQ') = Len(messagesQ) + 1
      BY <1>0, <2>2, <2>4
    <2>7. /\ Cardinality(Owed(messagesQ)) \in Nat
          /\ Cardinality(Owed(messagesQ')) = Cardinality(Owed(messagesQ)) + (IF x.settled THEN 0 ELSE 1)
      BY Zenon, <1>0, <2>2, <2>4, OwedFinite, OwedAppend
    <2>a. linkCredit' = (linkCredit - 1) % M /\ Completes(Head(rxQ))
      BY Zenon, <1>4, <2>3 DEF fr
    <2>b. /\ Cardinality(Held') = Cardinality(Held) + 0
          /\ Cardinality(Uncounted') = Cardinality(Uncounted) + 0
      BY <1>2, HandsFinite
    <2>8. CASE x.settled
      <3>1. Cardinality(Owed(messagesQ')) = Cardinality(Owed(messagesQ)) + 0
        BY Zenon, <2>7, <2>8
      <3>2. Tally(1, 0, 0, 0)
        BY Zenon, <2>6, <2>b, <3>1 DEF Tally
      <3> QED
        BY Zenon, <2>5, <2>8, <2>a, <3>2
    <2>9. CASE ~x.settled
      <3>1. Cardinality(Owed(messagesQ')) = Cardinality(Owed(messagesQ)) + 1
        BY Zenon, <2>7, <2>9
      <3>2. Tally(1, 0, 0, 1)
        BY Zenon, <2>6, <2>b, <3>1 DEF Tally
      <3> QED
        BY Zenon, <2>5, <2>9, <2>a, <3>2
    <2> QED
      BY Zenon, <2>8, <2>9
  <1> QED
    BY Zenon, <1>3, <1>4

\* Settle mode second: what the peer settles is no longer held.
LEMMA DispositionTally ==
    ASSUME RTypes, OnePlace, FirstInv, SecondInv, FlightInv, HandleDisposition
    PROVE  LET removed == inFlight \cap (Head(rxQ).first .. Head(rxQ).last)
           IN  Cardinality(removed) \in Nat /\ Tally(0, -Cardinality(removed), 0, 0)
  <1> DEFINE removed == inFlight \cap (Head(rxQ).first .. Head(rxQ).last)
  <1>1. UNCHANGED <<pc, msg, messagesQ>> /\ settledMsgs' = settledMsgs \cup removed
    BY Zenon DEF HandleDisposition, appVars
  <1>2. \A d \in removed : d \notin settledMsgs /\ \E a \in Apps : pc[a] \in Holding /\ msg[a] = d
    BY Zenon, RemovedAreHeld
  <1>3. rxQ \in Seq(RFrames) /\ rxQ # <<>> /\ Head(rxQ).type = "disposition"
    BY Zenon DEF RTypes, PeerTypes, HandleDisposition, Dequeued
  <1>4. Head(rxQ) \in RFrames
    BY <1>3
  <1>5. Cardinality(removed) \in Nat
    BY Zenon, <1>3, <1>4, RemovedFinite
  <1>6. messagesQ \in Seq(Messages) /\ Cardinality(Owed(messagesQ)) \in Nat
    BY Zenon, OwedFinite DEF RTypes, AppTypes
  <1>7. Uncounted' = Uncounted
    BY Zenon, <1>1 DEF Uncounted
  <1> HIDE DEF removed
  <1>8. Held' = Held \ removed /\ removed = Held \cap removed
    <2>1. \A d : d \in Held' <=> d \in Held /\ d \notin removed
      BY Zenon, <1>1, InHands
    <2>2. \A d \in removed : d \in Held
      BY Zenon, <1>2, InHands
    <2> QED
      BY Zenon, <2>1, <2>2 DEF Held
  <1>9. Cardinality(Held') = Cardinality(Held) - Cardinality(removed)
    <2>1. IsFiniteSet(Held)
      BY Zenon, HandsFinite
    <2>2. Cardinality(Held \ removed) = Cardinality(Held) - Cardinality(Held \cap removed)
      BY Zenon, <2>1, FS_Difference
    <2>3. Cardinality(Held \cap removed) = Cardinality(removed)
      BY Zenon, <1>8
    <2> QED
      BY Zenon, <1>8, <2>2, <2>3
  <1>10. Tally(0, -Cardinality(removed), 0, 0)
    BY <1>1, <1>5, <1>6, <1>7, <1>9, HandsFinite DEF Tally
  <1> QED
    BY Zenon, <1>5, <1>10 DEF removed

-----------------------------------------------------------------------------
(* Credit *)

\* The credit at the link's disposal fits into a uint32.
LEMMA CreditFits ==
    ASSUME RTypes, OnePlace, LimitInv, CreditConserved, Alive, Tame
    PROVE  /\ ToAdd \in Nat /\ ToAdd + linkCredit < M
           /\ Credits = IF pendingDrain \/ ToAdd = 0 THEN 0 ELSE ToAdd + linkCredit
           /\ autoSendFlow \/ ToAdd = creditsToAdd
  <1>1. /\ linkCredit \in Nat /\ creditsToAdd \in Nat /\ settlementCount \in Nat /\ calls \in Nat
        /\ calls <= MaxCalls
    BY ReceiverAssumption DEF RTypes, AppTypes, CreditTypes
  <1>2. M \in Nat /\ Credit \in Nat /\ MaxCalls \in Nat /\ Credit + MaxCalls < M
    BY Zenon, ReceiverAssumption
  <1>3. ToAdd \in Nat /\ ToAdd <= creditsToAdd + settlementCount
    BY <1>1 DEF ToAdd
  <1>4. ToAdd + linkCredit < M
    <2>1. CASE autoSendFlow
      <3>1. Len(messagesQ) \in Nat
        BY DEF RTypes, AppTypes
      <3>2. linkCredit + settlementCount + creditsToAdd <= Credit
        BY <1>1, <1>2, <2>1, <3>1, HandsFinite DEF CreditConserved
      <3> QED
        BY <1>1, <1>2, <1>3, <3>2
    <2>2. CASE ~autoSendFlow
      <3>1. ToAdd = creditsToAdd
        BY <1>1, <2>2 DEF ToAdd, Reclaim
      <3>2. linkCredit + creditsToAdd <= calls
        BY Zenon, <2>2 DEF LimitInv, Limits
      <3> QED
        BY <1>1, <1>2, <3>1, <3>2
    <2> QED
      BY Zenon, <2>1, <2>2
  <1>5. (ToAdd + linkCredit) % M = ToAdd + linkCredit
    BY <1>1, <1>2, <1>3, <1>4
  <1>6. autoSendFlow \/ ToAdd = creditsToAdd
    BY <1>1 DEF ToAdd, Reclaim
  <1> QED
    BY Zenon, <1>3, <1>4, <1>5, <1>6 DEF Credits

\* A delivery that is completed uses credit that is there.
LEMMA CreditUsed ==
    ASSUME RTypes, OnTheWay, Limits, MuxReceive, Completes(Head(rxQ))
    PROVE  linkCredit' = linkCredit - 1 /\ count' = count + 1
  <1>1. rxQ \in Seq(RFrames) /\ rxQ # <<>> /\ count \in Nat /\ sent \in Nat /\ linkCredit \in 0 .. (M - 1)
    BY Zenon DEF RTypes, PeerTypes, CreditTypes, MuxReceive, Dequeued
  <1>2. Head(rxQ) = rxQ[1]
    BY <1>1
  <1>3. count < sent
    BY Zenon, <1>1, <1>2, InOrderTail DEF OnTheWay
  <1>4. sent <= sent + MidN
    BY <1>1 DEF MidN
  <1>5. MidN \in Nat
    BY Zenon DEF MidN
  <1>6. linkCredit >= 1
    BY <1>1, <1>3, <1>4, <1>5 DEF Limits
  <1>7. linkCredit' = (linkCredit - 1) % M /\ count' = count + 1
    BY Zenon DEF MuxReceive, Completes
  <1>8. M \in Nat
    BY Zenon, ReceiverAssumption
  <1> QED
    BY <1>1, <1>6, <1>7, <1>8

\* What the peer sends and reads stays within its limit.
LEMMA PeerKeepsLimits ==
    ASSUME RTypes, Limits, PeerStep
    PROVE  Limits'
  <1>0. /\ toPeer \in Seq(Grants) /\ sent \in Nat /\ limit \in Nat /\ mid \in BOOLEAN
        /\ count \in Nat /\ linkCredit \in Nat
    BY ReceiverAssumption DEF RTypes, PeerTypes, CreditTypes
  <1>1. UNCHANGED <<count, linkCredit, mux, flow, creditsToAdd, calls>>
    BY Zenon, PeerLeaves
  <1>2. UNCHANGED autoSendFlow
    BY Zenon, ConfStays DEF Next
  <1>3. /\ mux' \in {"start", "flow"} => flow'.credit <= linkCredit'
        /\ autoSendFlow' \/ linkCredit' + creditsToAdd' <= calls'
    BY Zenon, <1>1, <1>2 DEF Limits
  <1>4. ASSUME UNCHANGED limit, toPeer' = toPeer \/ toPeer' = <<>>, sent' + MidN' <= count + linkCredit
        PROVE  Limits'
    <2>1. \A i \in 1 .. Len(toPeer') : toPeer'[i].upTo <= count + linkCredit
      <3>1. CASE toPeer' = toPeer
        BY Zenon, <3>1 DEF Limits
      <3>2. CASE toPeer' = <<>>
        BY <3>2
      <3> QED
        BY Zenon, <1>4, <3>1, <3>2
    <2>2. limit' <= count + linkCredit
      BY Zenon, <1>4 DEF Limits
    <2> QED
      BY Zenon, <1>1, <1>3, <1>4, <2>1, <2>2 DEF Limits
  <1>m. sent + MidN <= count + linkCredit /\ limit <= count + linkCredit
    BY Zenon DEF Limits
  <1>5. ASSUME NEW settled \in BOOLEAN, PeerSends(settled) PROVE Limits'
    <2>1. /\ UNCHANGED <<limit, toPeer>> /\ sent' = sent + 1 /\ mid' = FALSE
          /\ mid \/ sent < limit
      BY Zenon, <1>5 DEF PeerSends
    <2>2. MidN' = 0
      BY Zenon, <2>1 DEF MidN
    <2>3. sent + 1 <= count + linkCredit
      <3>1. CASE mid
        BY Zenon, <1>0, <1>m, <3>1 DEF MidN
      <3>2. CASE sent < limit
        BY <1>0, <1>m, <3>2
      <3> QED
        BY Zenon, <2>1, <3>1, <3>2
    <2> QED
      BY <1>0, <1>4, <2>1, <2>2, <2>3
  <1>6. ASSUME NEW settled \in BOOLEAN, PeerBegins(settled) PROVE Limits'
    <2>1. UNCHANGED <<limit, toPeer, sent>> /\ mid' = TRUE /\ sent < limit
      BY Zenon, <1>6 DEF PeerBegins
    <2>2. MidN' = 1
      BY Zenon, <2>1 DEF MidN
    <2>3. sent + 1 <= count + linkCredit
      BY <1>0, <1>m, <2>1
    <2> QED
      BY Zenon, <1>4, <2>1, <2>2, <2>3
  <1>7. CASE PeerAborts
    <2>1. UNCHANGED <<limit, toPeer, sent>> /\ mid' = FALSE
      BY Zenon, <1>7 DEF PeerAborts
    <2>2. MidN' = 0
      BY Zenon, <2>1 DEF MidN
    <2>3. sent + 0 <= count + linkCredit
      BY <1>0, <1>m DEF MidN
    <2> QED
      BY Zenon, <1>4, <2>1, <2>2, <2>3
  <1>8. CASE PeerReads
    <2>1. toPeer # <<>> /\ toPeer' = Tail(toPeer) /\ limit' = Head(toPeer).upTo /\ UNCHANGED <<sent, mid>>
      BY Zenon, <1>8 DEF PeerReads
    <2>2. /\ Head(toPeer) = toPeer[1] /\ 1 \in 1 .. Len(toPeer)
          /\ \A i \in 1 .. Len(toPeer') : \E g \in 1 .. Len(toPeer) : toPeer'[i] = toPeer[g]
      BY Zenon, <1>0, <2>1, Taken
    <2>3. limit' <= count + linkCredit
      BY Zenon, <2>1, <2>2 DEF Limits
    <2>4. \A i \in 1 .. Len(toPeer') : toPeer'[i].upTo <= count + linkCredit
      BY Zenon, <2>2 DEF Limits
    <2>5. sent' + MidN' <= count + linkCredit
      BY Zenon, <2>1 DEF Limits, MidN
    <2> QED
      BY Zenon, <1>1, <1>3, <2>3, <2>4, <2>5 DEF Limits
  <1>9. CASE \/ (\E first, last \in 1 .. MaxSent : PeerSettles(first, last)) \/ PeerDetaches
             \/ (\E echo \in BOOLEAN : PeerFlow(echo)) \/ PeerBad
    <2>1. UNCHANGED <<sent, mid, limit>> /\ (toPeer' = toPeer \/ toPeer' = <<>>)
      BY Zenon, <1>9 DEF PeerSettles, PeerFlow, PeerBad, PeerExtra, PeerDetaches
    <2>2. MidN' = MidN
      BY Zenon, <2>1 DEF MidN
    <2> QED
      BY Zenon, <1>4, <1>m, <2>1, <2>2
  <1> QED
    BY Zenon, <1>5, <1>6, <1>7, <1>8, <1>9 DEF PeerStep

\* Every step keeps LimitInv.
LEMMA StepKeepsLimitInv ==
    ASSUME RTypes, OnTheWay, OnePlace, ModeInv, DrainInv, LimitInv, CreditConserved, [Next]_vars
    PROVE  LimitInv'
  <1> SUFFICES ASSUME Alive', Tame' PROVE Limits'
    BY Zenon DEF LimitInv
  <1>0. Alive /\ Tame /\ Limits /\ UNCHANGED autoSendFlow
    BY Zenon, AliveBefore, ConfStays DEF Tame, LimitInv
  <1>1. /\ toPeer \in Seq(Grants) /\ sent \in Nat /\ limit \in Nat /\ count \in Nat /\ linkCredit \in Nat
        /\ creditsToAdd \in Nat /\ calls \in Nat /\ flow.credit \in Nat /\ MidN \in Nat
    BY ReceiverAssumption DEF RTypes, AppTypes, PeerTypes, CreditTypes, MidN
  <1>2. \A i \in 1 .. Len(toPeer) : toPeer[i].upTo \in Nat
    <2>1. \A i \in 1 .. Len(toPeer) : toPeer[i] \in Grants
      BY <1>1
    <2> QED
      BY Zenon, <2>1 DEF Grants
  <1>a. autoSendFlow \/ linkCredit + creditsToAdd <= calls
    BY Zenon, <1>0 DEF Limits
  <1>n. linkCredit \in Nat /\ creditsToAdd \in Nat /\ calls \in Nat
    BY Zenon, <1>1
  <1>3. CASE Quiet
    BY Zenon, <1>0, <1>3 DEF Quiet, Limits, MidN
  <1>4. ASSUME NEW a \in Apps, IssueCredit(a) \/ Drain(a) PROVE Limits'
    <2>1. /\ UNCHANGED <<linkCredit, count, flow, mux, toPeer, sent, mid, limit>> /\ calls' = calls + 1
          /\ creditsToAdd' \in {creditsToAdd, creditsToAdd + 1}
      BY Zenon, <1>4 DEF IssueCredit, Drain, creditVars, peerVars
    <2>2. MidN' = MidN
      BY Zenon, <2>1 DEF MidN
    <2>3. autoSendFlow \/ linkCredit + creditsToAdd' <= calls'
      <3>1. calls' = calls + 1 /\ (creditsToAdd' = creditsToAdd \/ creditsToAdd' = creditsToAdd + 1)
        BY Zenon, <2>1
      <3> QED
        BY <1>a, <1>n, <3>1
    <2> QED
      BY Zenon, <1>0, <2>1, <2>2, <2>3 DEF Limits
  <1>5. CASE MuxTop
    <2>1. /\ flow' = [credit |-> Credits, drain |-> pendingDrain]
          /\ linkCredit' = NewCredit /\ creditsToAdd' = 0
      BY Zenon, <1>5 DEF MuxTop, Alive
    <2>2. UNCHANGED <<count, toPeer, sent, mid, limit, calls>>
      BY Zenon, <1>5 DEF MuxTop, appVars, peerVars
    <2>3. /\ ToAdd \in Nat /\ (autoSendFlow \/ ToAdd = creditsToAdd)
          /\ Credits = 0 \/ Credits = ToAdd + linkCredit
      BY Zenon, <1>0, CreditFits
    <2>4. linkCredit <= NewCredit /\ Credits <= NewCredit /\ NewCredit <= ToAdd + linkCredit /\ NewCredit \in Nat
      BY <1>1, <2>3 DEF NewCredit
    <2>5. MidN' = MidN
      BY Zenon, <2>2 DEF MidN
    <2>6. flow'.credit <= linkCredit'
      BY Zenon, <2>1, <2>4
    <2>7. autoSendFlow \/ linkCredit' + creditsToAdd' <= calls'
      <3>1. calls' = calls /\ creditsToAdd' = 0 /\ linkCredit' = NewCredit
        BY Zenon, <2>1, <2>2
      <3>2. autoSendFlow \/ linkCredit' <= creditsToAdd + linkCredit
        BY Zenon, <2>3, <2>4, <3>1
      <3> QED
        BY <1>a, <1>n, <2>4, <3>1, <3>2
    <2>8. \A n \in Nat : n <= count + linkCredit => n <= count' + linkCredit'
      BY <1>1, <2>1, <2>2, <2>4
    <2>9. sent + MidN \in Nat
      BY <1>1
    <2>10. sent' + MidN' <= count' + linkCredit'
      BY Zenon, <1>0, <2>2, <2>5, <2>8, <2>9 DEF Limits
    <2>11. limit' <= count' + linkCredit'
      BY Zenon, <1>0, <1>1, <2>2, <2>8 DEF Limits
    <2>12. \A i \in 1 .. Len(toPeer') : toPeer'[i].upTo <= count' + linkCredit'
      BY Zenon, <1>0, <1>2, <2>2, <2>8 DEF Limits
    <2> QED
      BY Zenon, <1>0, <2>6, <2>7, <2>10, <2>11, <2>12 DEF Limits
  <1>6. ASSUME NEW credit \in Nat, credit <= linkCredit, NEW drain \in BOOLEAN,
               toPeer' = toPeer \/ toPeer' = Append(toPeer, [upTo |-> count + credit, drain |-> drain]),
               UNCHANGED <<linkCredit, count, sent, mid, limit, calls, creditsToAdd>>,
               mux' \notin {"start", "flow"}
        PROVE  Limits'
    <2> DEFINE g == [upTo |-> count + credit, drain |-> drain]
    <2>1. g \in Grants /\ g.upTo <= count + linkCredit
      BY <1>1, <1>6 DEF Grants
    <2> HIDE DEF g
    <2>2. \A i \in 1 .. Len(toPeer') : toPeer'[i].upTo <= count + linkCredit
      <3>1. CASE toPeer' = toPeer
        BY Zenon, <1>0, <3>1 DEF Limits
      <3>2. CASE toPeer' = Append(toPeer, g)
        <4>1. \A i \in 1 .. Len(toPeer') : toPeer'[i] = g \/ (i \in 1 .. Len(toPeer) /\ toPeer'[i] = toPeer[i])
          BY <1>1, <2>1, <3>2, Appended
        <4> QED
          BY Zenon, <1>0, <2>1, <4>1 DEF Limits
      <3> QED
        BY Zenon, <1>6, <3>1, <3>2 DEF g
    <2>3. MidN' = MidN
      BY Zenon, <1>6 DEF MidN
    <2> QED
      BY Zenon, <1>0, <1>6, <2>2, <2>3 DEF Limits
  <1>7. CASE MuxFlow
    <2>1. mux \in {"start", "flow"} /\ mux' \in {"top", "select"}
      BY Zenon, <1>7 DEF MuxFlow, Alive
    <2>2. UNCHANGED <<linkCredit, count, sent, mid, limit, calls, creditsToAdd>>
      BY Zenon, <1>7 DEF MuxFlow, appVars, drainVars, peerVars
    <2>3. toPeer' = toPeer \/ toPeer' = Append(toPeer, [upTo |-> count + flow.credit, drain |-> flow.drain])
      BY Zenon, <1>7 DEF MuxFlow, Transmit
    <2>4. flow.credit <= linkCredit /\ flow.drain \in BOOLEAN
      BY Zenon, <1>0, <2>1 DEF Limits, RTypes, CreditTypes
    <2> QED
      BY Zenon, <1>1, <1>6, <2>1, <2>2, <2>3, <2>4
  <1>8. CASE SendEcho
    <2>1. mux' = "top"
      BY Zenon, <1>8 DEF SendEcho, Alive
    <2>2. UNCHANGED <<linkCredit, count, sent, mid, limit, calls, creditsToAdd>>
      BY Zenon, <1>8 DEF SendEcho, appVars, drainVars, creditVars, peerVars
    <2>3. toPeer' = toPeer \/ toPeer' = Append(toPeer, [upTo |-> count + linkCredit, drain |-> FALSE])
      BY Zenon, <1>8 DEF SendEcho, Transmit
    <2>4. linkCredit <= linkCredit
      BY <1>1
    <2> QED
      BY Zenon, <1>1, <1>6, <2>1, <2>2, <2>3, <2>4
  <1>9. CASE MuxReceive
    <2>1. mux' = "top" /\ UNCHANGED <<toPeer, sent, mid, limit, calls, creditsToAdd>>
      BY Zenon, <1>9 DEF MuxReceive, appVars, drainVars, peerVars
    <2>2. count' + linkCredit' = count + linkCredit /\ linkCredit' <= linkCredit /\ linkCredit' \in Int
      <3>1. CASE Completes(Head(rxQ))
        BY <1>0, <1>1, <1>9, <3>1, CreditUsed
      <3>2. CASE ~Completes(Head(rxQ))
        <4>1. UNCHANGED <<count, linkCredit>>
          BY Zenon, <1>9, <3>2 DEF MuxReceive, Dequeued, Completes
        <4> QED
          BY <1>1, <4>1
      <3> QED
        BY Zenon, <3>1, <3>2
    <2>3. autoSendFlow \/ linkCredit' + creditsToAdd' <= calls'
      <3>1. creditsToAdd' = creditsToAdd /\ calls' = calls
        BY Zenon, <2>1
      <3>t. linkCredit' \in Int
        BY Zenon, <2>2
      <3>2. linkCredit' <= linkCredit
        BY Zenon, <2>2
      <3>3. CASE linkCredit + creditsToAdd <= calls
        <4>0. \A x \in Int : \A y, z, u \in Nat : x <= y /\ y + z <= u => x + z <= u
          OBVIOUS
        <4>1. linkCredit' + creditsToAdd <= calls
          BY Zenon, <1>n, <3>t, <3>2, <3>3, <4>0
        <4> QED
          BY Zenon, <3>1, <4>1
      <3> QED
        BY Zenon, <1>a, <3>3
    <2>4. MidN' = MidN
      BY Zenon, <2>1 DEF MidN
    <2> QED
      BY Zenon, <1>0, <2>1, <2>2, <2>3, <2>4 DEF Limits
  <1>10. CASE HandleFlow
    <2>1. mux' \in {"echo", "top"} /\ UNCHANGED <<count, toPeer, sent, mid, limit, calls, creditsToAdd>>
      BY Zenon, <1>10 DEF HandleFlow, appVars, peerVars
    <2>2. MidN' = MidN
      BY Zenon, <2>1 DEF MidN
    <2>3. CASE UNCHANGED linkCredit
      BY Zenon, <1>0, <2>1, <2>2, <2>3 DEF Limits
    <2>4. CASE Head(rxQ).drain /\ ~autoSendFlow /\ linkCredit' = 0
      <3>1. OneDrain
        BY Zenon, <1>0, <2>4 DEF DrainInv, Tame
      <3>2. toPeer = <<>> /\ limit <= count /\ ~mid /\ sent = count /\ creditsToAdd = 0
        BY Zenon, <1>10, <2>4, <3>1, DrainEnds
      <3>3. MidN = 0
        BY Zenon, <3>2 DEF MidN
      <3>4. sent' + MidN' <= count' + linkCredit' /\ limit' <= count' + linkCredit'
        BY <1>1, <2>1, <2>2, <2>4, <3>2, <3>3
      <3>5. linkCredit' + creditsToAdd' <= calls'
        BY <1>1, <2>1, <2>4, <3>2
      <3>6. \A i \in 1 .. Len(toPeer') : toPeer'[i].upTo <= count' + linkCredit'
        BY <2>1, <3>2
      <3> QED
        BY Zenon, <2>1, <3>4, <3>5, <3>6 DEF Limits
    <2> QED
      BY Zenon, <1>10, <2>3, <2>4 DEF HandleFlow
  <1>11. CASE PeerStep
    BY Zenon, <1>0, <1>11, PeerKeepsLimits
  <1>12. ~Unwind
    BY Zenon DEF Unwind, Alive
  <1> QED
    BY Zenon, <1>3, <1>4, <1>5, <1>7, <1>8, <1>9, <1>10, <1>11, <1>12, StepsOfCredit

\* With autoSendFlow credit changes hands in these steps only.
LEMMA StepsOfSum ==
    ASSUME [Next]_vars, autoSendFlow
    PROVE  \/ UNCHANGED <<linkCredit, settlementCount, creditsToAdd>>
           \/ \E a \in Apps : Count(a) \/ OnSettlement(a)
           \/ MuxTop \/ MuxReceive \/ HandleDisposition
  <1>1. ASSUME NEW a \in Apps, AppCall(a) \/ AppStep(a)
        PROVE  Count(a) \/ OnSettlement(a) \/ UNCHANGED <<linkCredit, settlementCount, creditsToAdd>>
    BY Zenon, <1>1 DEF AppCall, AppStep, Receive, Take, Poke, Settle, AddInFlight, DispositionLost, Settled,
                SettlementExpires, IssueCredit, Drain, DrainReturns, DrainExpires, settleVars,
                creditVars, drainVars
  <1>2. CASE MuxFlow \/ HandleFlow \/ HandleDetach \/ CloseWithError \/ SendEcho
             \/ (\E a \in Apps : TakeDisposition(a)) \/ SendDisposition \/ Ready \/ CloseRequested
             \/ SendDetach \/ SessionGone \/ Unwind
    BY Zenon, <1>2 DEF MuxFlow, HandleFlow, HandleDetach, CloseWithError, SendEcho, TakeDisposition,
                SendDisposition, Ready, CloseRequested, SendDetach, SessionGone, Unwind, settleVars,
                creditVars, drainVars
  <1>3. CASE PeerStep
    BY Zenon, <1>3 DEF PeerStep, PeerSends, PeerBegins, PeerAborts, PeerReads, PeerSettles, PeerFlow, PeerBad,
                PeerExtra, PeerDetaches, appsMux, settleVars, creditVars, drainVars
  <1>4. CASE Close \/ SessionEnds \/ SessionDone \/ UNCHANGED vars
    BY Zenon, <1>4 DEF Close, SessionEnds, SessionDone, vars, appsMux, settleVars, creditVars, drainVars
  <1> QED
    BY Zenon, <1>1, <1>2, <1>3, <1>4 DEF Next, MuxStep, HandleFrame

\* What CreditConserved says of a link that is alive.
Balance ==
    linkCredit + Len(messagesQ) + Cardinality(Held) + Cardinality(Uncounted) + settlementCount
        + creditsToAdd = Credit

\* Every step conserves credit.
LEMMA StepKeepsCreditConserved ==
    ASSUME RTypes, OnTheWay, OnePlace, FirstInv, SecondInv, FlightInv, ModeInv, LimitInv,
           CreditConserved, [Next]_vars
    PROVE  CreditConserved'
  <1> SUFFICES ASSUME Alive', autoSendFlow' PROVE Balance'
    BY Zenon DEF CreditConserved, Balance
  <1>0. Alive /\ autoSendFlow /\ Tame /\ Limits
    BY Zenon, AliveBefore, ConfStays DEF Tame, LimitInv
  <1>1. linkCredit + Len(messagesQ) + Cardinality(Held) + Cardinality(Uncounted) + settlementCount
            + creditsToAdd = Credit
    BY Zenon, <1>0 DEF CreditConserved
  <1>2. /\ linkCredit \in Nat /\ Len(messagesQ) \in Nat /\ settlementCount \in Nat /\ creditsToAdd \in Nat
        /\ Cardinality(Held) \in Nat /\ Cardinality(Uncounted) \in Nat
    BY ReceiverAssumption, HandsFinite DEF RTypes, AppTypes, CreditTypes
  <1> DEFINE left == linkCredit + settlementCount + creditsToAdd
  <1>3. ASSUME NEW q \in Int, NEW h \in Int, NEW u \in Int, NEW o \in Int, Tally(q, h, u, o),
               linkCredit' \in Int, settlementCount' \in Int, creditsToAdd' \in Int,
               linkCredit' + settlementCount' + creditsToAdd' = left - q - h - u
        PROVE  Balance'
    <2>1. /\ Len(messagesQ') = Len(messagesQ) + q
          /\ Cardinality(Held') = Cardinality(Held) + h
          /\ Cardinality(Uncounted') = Cardinality(Uncounted) + u
      BY Zenon, <1>3 DEF Tally
    <2> DEFINE n == Len(messagesQ)
               x == Cardinality(Held)
               y == Cardinality(Uncounted)
               now == linkCredit' + settlementCount' + creditsToAdd'
    <2>2. n \in Int /\ x \in Int /\ y \in Int /\ left \in Int
      BY <1>2
    <2>n. now = left - q - h - u
      BY Zenon, <1>3
    <2>3. left + n + x + y = Credit
      <3>1. linkCredit \in Int /\ settlementCount \in Int /\ creditsToAdd \in Int /\ n \in Int /\ x \in Int /\ y \in Int
        BY <1>2
      <3>2. linkCredit + n + x + y + settlementCount + creditsToAdd = Credit
        BY Zenon, <1>1
      <3> HIDE DEF n, x, y
      <3> QED
        BY <3>1, <3>2
    <2>4. linkCredit' + (n + q) + (x + h) + (y + u) + settlementCount' + creditsToAdd' = now + (n + q) + (x + h) + (y + u)
      <3>1. linkCredit' \in Int /\ settlementCount' \in Int /\ creditsToAdd' \in Int /\ n \in Int /\ x \in Int /\ y \in Int
        BY Zenon, <1>3, <2>2
      <3> HIDE DEF n, x, y
      <3> QED
        BY <3>1
    <2> HIDE DEF n, x, y, left, now
    <2>5. now + (n + q) + (x + h) + (y + u) = Credit
      BY <2>2, <2>n, <2>3
    <2> QED
      BY Zenon, <2>1, <2>4, <2>5 DEF n, x, y, Balance
  <1>4. ASSUME NEW a \in Apps, Count(a) PROVE Balance'
    <2>1. settlementCount' = settlementCount + 1 /\ UNCHANGED <<linkCredit, creditsToAdd>>
      BY Zenon, <1>0, <1>4 DEF Count, creditVars, drainVars
    <2>2. Tally(0, 0, -1, 0)
      BY Zenon, <1>4, CountTally
    <2>3. linkCredit' + settlementCount' + creditsToAdd' = left - 0 - 0 - (-1)
      BY <1>2, <2>1
    <2> HIDE DEF left
    <2> QED
      BY <1>2, <1>3, <2>1, <2>2, <2>3
  <1>5. ASSUME NEW a \in Apps, OnSettlement(a) PROVE Balance'
    <2>1. settlementCount' = settlementCount + 1 /\ UNCHANGED <<linkCredit, creditsToAdd>>
      BY Zenon, <1>0, <1>5 DEF OnSettlement, creditVars, drainVars
    <2>2. Tally(0, -1, 0, 0)
      BY Zenon, <1>5, SettleTally
    <2>3. linkCredit' + settlementCount' + creditsToAdd' = left - 0 - (-1) - 0
      BY <1>2, <2>1
    <2> HIDE DEF left
    <2> QED
      BY <1>2, <1>3, <2>1, <2>2, <2>3
  <1>6. CASE MuxReceive
    <2>1. UNCHANGED <<settlementCount, creditsToAdd>>
      BY Zenon, <1>6 DEF MuxReceive, drainVars
    <2>2. CASE Tally(0, 0, 0, 0) /\ UNCHANGED linkCredit
      <3>1. linkCredit' + settlementCount' + creditsToAdd' = left - 0 - 0 - 0
        BY <1>2, <2>1, <2>2
      <3> HIDE DEF left
      <3> QED
        BY <1>2, <1>3, <2>1, <2>2, <3>1
    <2>3. ASSUME Completes(Head(rxQ)), NEW o \in Int, Tally(1, 0, 0, o) PROVE Balance'
      <3>1. linkCredit' = linkCredit - 1
        BY Zenon, <1>0, <1>6, <2>3, CreditUsed
      <3>2. linkCredit' + settlementCount' + creditsToAdd' = left - 1 - 0 - 0
        BY <1>2, <2>1, <3>1
      <3>3. linkCredit' \in Int
        BY <1>2, <3>1
      <3> HIDE DEF left
      <3> QED
        BY <1>2, <1>3, <2>1, <2>3, <3>2, <3>3
    <2> QED
      BY <1>6, <2>2, <2>3, ReceiveTally
  <1>7. CASE HandleDisposition
    <2> DEFINE n == Cardinality(inFlight \cap (Head(rxQ).first .. Head(rxQ).last))
    <2>1. settlementCount' = settlementCount + n /\ UNCHANGED <<linkCredit, creditsToAdd>>
      BY Zenon, <1>0, <1>7 DEF HandleDisposition, creditVars, drainVars
    <2>2. n \in Nat /\ Tally(0, -n, 0, 0)
      BY Zenon, <1>7, DispositionTally
    <2> HIDE DEF n
    <2>3. linkCredit' + settlementCount' + creditsToAdd' = left - 0 - (-n) - 0
      BY <1>2, <2>1, <2>2
    <2>4. settlementCount' \in Int /\ -n \in Int
      BY <1>2, <2>1, <2>2
    <2> HIDE DEF left
    <2> QED
      BY <1>2, <1>3, <2>1, <2>2, <2>3, <2>4
  <1>8. ASSUME MuxTop \/ UNCHANGED <<linkCredit, settlementCount, creditsToAdd>>
        PROVE  /\ linkCredit' \in Int /\ settlementCount' \in Int /\ creditsToAdd' \in Int
               /\ linkCredit' + settlementCount' + creditsToAdd' = left
    <2>1. CASE UNCHANGED <<linkCredit, settlementCount, creditsToAdd>>
      BY <1>2, <2>1
    <2>2. CASE MuxTop
      <3>1. /\ settlementCount' = IF settlementCount >= linkCredit THEN 0 ELSE settlementCount
            /\ linkCredit' = NewCredit /\ creditsToAdd' = 0
        BY Zenon, <2>2 DEF MuxTop, Alive
      <3>2. Credits = (IF ToAdd = 0 THEN 0 ELSE ToAdd + linkCredit) /\ ToAdd \in Nat
        <4>1. ~pendingDrain
          BY Zenon, <1>0 DEF ModeInv
        <4> QED
          BY Zenon, <1>0, <4>1, CreditFits
      <3>3. NewCredit = ToAdd + linkCredit
        BY <1>2, <3>2 DEF NewCredit
      <3>4. ToAdd = creditsToAdd + (IF settlementCount >= linkCredit THEN settlementCount ELSE 0)
        BY <1>0, <1>2 DEF ToAdd, Reclaim
      <3> QED
        BY <1>2, <3>1, <3>3, <3>4
    <2> QED
      BY Zenon, <1>8, <2>1, <2>2
  <1>9. ASSUME MuxTop \/ UNCHANGED <<linkCredit, settlementCount, creditsToAdd>>,
               NEW q \in Int, NEW h \in Int, NEW u \in Int, NEW o \in Int, Tally(q, h, u, o), q + h + u = 0
        PROVE  Balance'
    <2>1. left \in Int
      BY <1>2
    <2> HIDE DEF left
    <2>2. left = left - q - h - u
      BY <1>9, <2>1
    <2>3. linkCredit' + settlementCount' + creditsToAdd' = left - q - h - u
      BY Zenon, <1>8, <1>9, <2>2
    <2> QED
      BY Zenon, <1>3, <1>8, <1>9, <2>3
  <1>10. ASSUME MuxTop \/ UNCHANGED <<linkCredit, settlementCount, creditsToAdd>> PROVE Balance'
    <2>1. CASE Still
      <3>1. UNCHANGED messagesQ /\ Held' = Held /\ Uncounted' = Uncounted
        BY Zenon, <2>1 DEF Still, Held, Uncounted
      <3>2. Tally(0, 0, 0, 0)
        BY Zenon, <3>1, SameTally
      <3> QED
        BY <1>9, <1>10, <3>2
    <2>2. ASSUME NEW a \in Apps, Carry(a) PROVE Balance'
      <3>1. Tally(0, 0, 0, 0)
        BY Zenon, <1>0, <2>2, CarryTally
      <3> QED
        BY <1>9, <1>10, <3>1
    <2>3. ASSUME NEW a \in Apps, Take(a), messagesQ # <<>> PROVE Balance'
      <3>1. Tally(-1, 0, 1, 0) \/ Tally(-1, 1, 0, -1)
        BY Zenon, <2>3, TakeTally
      <3> QED
        BY <1>9, <1>10, <3>1
    <2> QED
      BY Zenon, <1>4, <1>5, <1>6, <1>7, <2>1, <2>2, <2>3, StepsOfDeliveries
  <1> QED
    BY Zenon, <1>0, <1>4, <1>5, <1>6, <1>7, <1>10, StepsOfSum

\* Every step keeps the count of what is owed.
LEMMA StepKeepsUnsettledIsOwed ==
    ASSUME RTypes, OnTheWay, OnePlace, FirstInv, SecondInv, FlightInv, UnsettledIsOwed, [Next]_vars
    PROVE  UnsettledIsOwed'
  <1> SUFFICES ASSUME Alive' PROVE unsettled' = Cardinality(Owed(messagesQ')) + Cardinality(Held')
    BY Zenon DEF UnsettledIsOwed, Owed
  <1>0. Alive
    BY Zenon, AliveBefore
  <1>1. unsettled = Cardinality(Owed(messagesQ)) + Cardinality(Held)
    BY Zenon, <1>0 DEF UnsettledIsOwed, Owed
  <1>2. Cardinality(Owed(messagesQ)) \in Nat /\ Cardinality(Held) \in Nat
    BY Zenon, OwedFinite, HandsFinite DEF RTypes, AppTypes
  <1>3. ASSUME NEW q, NEW h \in Int, NEW u, NEW o \in Int, Tally(q, h, u, o), unsettled' = unsettled + h + o
        PROVE  unsettled' = Cardinality(Owed(messagesQ')) + Cardinality(Held')
    BY <1>1, <1>2, <1>3 DEF Tally
  <1>4. unsettled \in Int
    BY Zenon DEF RTypes, AppTypes
  <1>5. CASE Still
    <2>1. UNCHANGED <<messagesQ, unsettled>> /\ Held' = Held
      BY Zenon, <1>5 DEF Still, Held
    <2> QED
      BY Zenon, <1>1, <2>1
  <1>6. ASSUME NEW a \in Apps, Carry(a)
        PROVE  unsettled' = Cardinality(Owed(messagesQ')) + Cardinality(Held')
    <2>1. Tally(0, 0, 0, 0) /\ UNCHANGED unsettled
      BY Zenon, <1>0, <1>6, CarryTally DEF Carry
    <2>2. unsettled' = unsettled + 0 + 0
      BY <1>4, <2>1
    <2> QED
      BY <1>3, <2>1, <2>2
  <1>7. ASSUME NEW a \in Apps, Take(a), messagesQ # <<>>
        PROVE  unsettled' = Cardinality(Owed(messagesQ')) + Cardinality(Held')
    <2>1. Tally(-1, 0, 1, 0) \/ Tally(-1, 1, 0, -1)
      BY Zenon, <1>7, TakeTally
    <2>2. unsettled' = unsettled + 0 + 0 /\ unsettled' = unsettled + 1 + (-1)
      BY <1>4, <1>7 DEF Take, settleVars
    <2> QED
      BY <1>3, <2>1, <2>2
  <1>8. ASSUME NEW a \in Apps, Count(a)
        PROVE  unsettled' = Cardinality(Owed(messagesQ')) + Cardinality(Held')
    <2>1. Tally(0, 0, -1, 0)
      BY Zenon, <1>8, CountTally
    <2>2. unsettled' = unsettled + 0 + 0
      BY <1>4, <1>8 DEF Count
    <2> QED
      BY <1>3, <2>1, <2>2
  <1>9. ASSUME NEW a \in Apps, OnSettlement(a)
        PROVE  unsettled' = Cardinality(Owed(messagesQ')) + Cardinality(Held')
    <2>1. Tally(0, -1, 0, 0)
      BY Zenon, <1>9, SettleTally
    <2>2. unsettled' = unsettled + (-1) + 0
      BY <1>4, <1>9 DEF OnSettlement
    <2> QED
      BY <1>3, <2>1, <2>2
  <1>10. CASE MuxReceive
    <2>1. \/ Tally(0, 0, 0, 0) /\ unsettled' = unsettled
          \/ Tally(1, 0, 0, 0) /\ unsettled' = unsettled
          \/ Tally(1, 0, 0, 1) /\ unsettled' = unsettled + 1
      BY Zenon, <1>10, ReceiveTally
    <2>2. unsettled + 0 + 0 = unsettled /\ unsettled + 0 + 1 = unsettled + 1
      BY <1>4
    <2> QED
      BY <1>3, <2>1, <2>2
  <1>11. CASE HandleDisposition
    <2> DEFINE n == Cardinality(inFlight \cap (Head(rxQ).first .. Head(rxQ).last))
    <2>1. n \in Nat /\ Tally(0, -n, 0, 0)
      BY Zenon, <1>11, DispositionTally
    <2>2. unsettled' = unsettled - n
      BY Zenon, <1>11 DEF HandleDisposition
    <2> HIDE DEF n
    <2>3. unsettled' = unsettled + (-n) + 0 /\ -n \in Int
      BY <1>4, <2>1, <2>2
    <2> QED
      BY <1>3, <2>1, <2>3
  <1> QED
    BY Zenon, <1>5, <1>6, <1>7, <1>8, <1>9, <1>10, <1>11, StepsOfDeliveries

-----------------------------------------------------------------------------
(* The theorems *)

\* A new link satisfies the invariant.
LEMMA InitRInv == Init => RInv
  <1> SUFFICES ASSUME Init PROVE RInv
    BY Zenon
  <1>1. RTypes
    BY Zenon, TypesInit
  <1>2. /\ pc = [a \in Apps |-> "idle"] /\ messagesQ = <<>> /\ settledMsgs = {} /\ inFlight = {}
        /\ signalled = {} /\ rxQ = <<>> /\ toPeer = <<>> /\ count = 0 /\ sent = 0 /\ limit = 0 /\ mid = FALSE
        /\ drained = 0 /\ pendingDrain = FALSE /\ creditsToAdd = 0 /\ settlementCount = 0 /\ unsettled = 0
        /\ calls = 0 /\ mux = (IF autoSendFlow THEN "start" ELSE "top")
        /\ linkCredit = (IF autoSendFlow THEN Credit ELSE 0) /\ flow = [credit |-> linkCredit, drain |-> FALSE]
    BY Zenon DEF Init
  <1>3. Len(rxQ) = 0 /\ Len(toPeer) = 0 /\ Len(messagesQ) = 0
    BY Zenon, <1>2
  <1>4. OnTheWay
    BY <1>2, <1>3 DEF OnTheWay, InOrder
  <1>5. OnePlace
    BY <1>2, <1>3 DEF OnePlace, Owning, Holding
  <1>6. FirstInv
    BY <1>2, <1>3 DEF FirstInv, Holding
  <1>7. SecondInv
    BY <1>2, <1>3 DEF SecondInv, Settling
  <1>8. FlightInv
    BY Zenon, <1>2 DEF FlightInv
  <1>9. LimitInv
    <2>1. MidN = 0 /\ linkCredit \in Nat
      BY Zenon, <1>2, ReceiverAssumption DEF MidN
    <2> QED
      BY <1>2, <1>3, <2>1 DEF LimitInv, Limits
  <1>10. ModeInv
    BY <1>2, <1>3 DEF ModeInv
  <1>11. DrainInv
    <2>1. ~DrainInFlow
      BY Zenon, <1>2 DEF DrainInFlow
    <2> QED
      BY <1>2, <1>3, <2>1 DEF DrainInv, OneDrain, DrainAsked, DrainAnswered, DrainAtEnd, DrainLast
  <1>12. Held = {} /\ Uncounted = {} /\ Owed(messagesQ) = {}
    BY <1>2, <1>3 DEF Held, Uncounted, Owed
  <1>13. CreditConserved
    BY <1>2, <1>3, <1>12, FS_EmptySet, ReceiverAssumption DEF CreditConserved
  <1>14. UnsettledIsOwed
    BY <1>2, <1>12, FS_EmptySet DEF UnsettledIsOwed, Owed
  <1> QED
    BY Zenon, <1>1, <1>4, <1>5, <1>6, <1>7, <1>8, <1>9, <1>10, <1>11, <1>13, <1>14 DEF RInv

\* The invariant holds throughout.
LEMMA AlwaysRInv == Spec => []RInv
  <1>1. RInv /\ [Next]_vars => RInv'
    BY Zenon, StepKeepsRTypes, StepKeepsOnTheWay, StepKeepsOnePlace, StepKeepsFirstInv, StepKeepsSecondInv,
       StepKeepsFlightInv, StepKeepsLimitInv, StepKeepsModeInv, StepKeepsDrainInv,
       StepKeepsCreditConserved, StepKeepsUnsettledIsOwed DEF RInv
  <1> QED
    BY <1>1, InitRInv, PTL DEF Spec

\* With autoSendFlow no credit is lost or multiplied, whatever fails, expires or is
\* repeated in settling (receiver.go: Receive, messageDisposition, onSettlement, mux).
THEOREM ReceiverCreditConserved == Spec => []CreditConserved
  <1>1. RInv => CreditConserved
    BY Zenon DEF RInv
  <1> QED
    BY <1>1, AlwaysRInv, PTL

\* r.unsettledMessages is the number of messages still owed an outcome, in both settle
\* modes (receiver.go: addUnsettled, deleteUnsettled).
THEOREM ReceiverUnsettledIsOwed == Spec => []UnsettledIsOwed
  <1>1. RInv => UnsettledIsOwed
    BY Zenon DEF RInv
  <1> QED
    BY <1>1, AlwaysRInv, PTL

\* linkCredit-- never wraps around (receiver.go, muxReceive) for a peer that keeps to its
\* limit, with autoSendFlow or if it asks for no echo while the application manages credit.
THEOREM ReceiverCreditCovers == Spec => [](Tame => CreditCoversTransfers)
  <1>1. RInv => (Tame => CreditCoversTransfers)
    <2> SUFFICES ASSUME RInv, Tame, Alive PROVE sent + (IF mid THEN 1 ELSE 0) - count <= linkCredit
      BY Zenon DEF CreditCoversTransfers
    <2>1. sent \in Nat /\ count \in Nat /\ linkCredit \in Nat
      BY ReceiverAssumption DEF RInv, RTypes, PeerTypes, CreditTypes
    <2>2. sent + MidN <= count + linkCredit
      BY Zenon DEF RInv, LimitInv, Limits
    <2> QED
      BY <2>1, <2>2 DEF MidN
  <1> QED
    BY <1>1, AlwaysRInv, PTL

\* When the peer's flow ends a drain, every delivery has arrived and no credit is on its
\* way (creditor.go, EndDrain; receiver.go, muxHandleFrame), if the peer asks for no echo
\* while the application manages credit: the answer would grant again what is withdrawn.
THEOREM ReceiverDrainIsComplete ==
    ASSUME FALSE \notin EchoModes
    PROVE  Spec => DrainIsComplete
  <1> DEFINE Complete == acked' # acked => /\ sent = count /\ limit <= sent /\ creditsToAdd = 0
                                           /\ \A i \in DOMAIN toPeer : toPeer[i].upTo <= sent
  <1>1. RInv /\ [Next]_vars => [Complete]_vars
    <2> SUFFICES ASSUME RInv, [Next]_vars, acked' # acked
                 PROVE  /\ sent = count /\ limit <= sent /\ creditsToAdd = 0
                        /\ \A i \in DOMAIN toPeer : toPeer[i].upTo <= sent
      BY Zenon
    <2>1. HandleFlow /\ Head(rxQ).drain /\ ~autoSendFlow
      <3>1. ~Quiet /\ ~Unwind /\ ~MuxTop /\ ~MuxFlow
        BY DEF Quiet, Unwind, MuxTop, MuxFlow, drainVars
      <3>2. ~MuxReceive /\ ~SendEcho
        BY DEF MuxReceive, SendEcho, drainVars
      <3>3. ASSUME NEW a \in Apps PROVE ~IssueCredit(a) /\ ~Drain(a)
        BY DEF IssueCredit, Drain, drainVars
      <3>4. HandleFlow
        BY Zenon, <3>1, <3>2, <3>3, StepsOfCredit, PeerLeaves
      <3> QED
        BY Zenon, <3>4 DEF HandleFlow
    <2>2. mux = "select"
      BY Zenon, <2>1 DEF HandleFlow, Dequeued
    <2>3. OneDrain
      BY Zenon, <2>1, <2>2 DEF RInv, DrainInv, Alive
    <2>4. creditsToAdd = 0 /\ toPeer = <<>> /\ limit <= count /\ sent = count
      BY Zenon, <2>1, <2>3, DrainEnds DEF RInv
    <2> QED
      BY <2>4
  <1> QED
    BY <1>1, AlwaysRInv, PTL DEF Spec, DrainIsComplete
=============================================================================
