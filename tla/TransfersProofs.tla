-------------------------- MODULE TransfersProofs --------------------------
(***************************************************************************)
(* What the transfers of a session promise (SessionTransfers), for any      *)
(* number of links, any windows and any order of the frames: the peer's     *)
(* window is respected, a settlement reaches the call of Send that it is    *)
(* for, and the session ends for a protocol error only when the peer has    *)
(* made one.                                                                *)
(***************************************************************************)
EXTENDS SessionTransfers, FiniteSetTheorems, TLAPS

-----------------------------------------------------------------------------
(* The invariants *)

Ids == 0 .. (M - 1)

\* How far number a is ahead of number b, and the number after x.
Dist(a, b) == IF b <= a THEN a - b ELSE (a - b) + M

Inc(x) == IF x + 1 = M THEN 0 ELSE x + 1

\* A sequence, of whatever frames.
IsSeq(q) == q \in Seq(Range(q))

\* A flow that grants a window, and the numbers in the flows of q.
Grants(fr) == fr.type = "flow" /\ fr.nextIncomingID # -1

Flows(q) == \A i \in DOMAIN q : Grants(q[i]) => q[i].nextIncomingID \in Ids /\ q[i].window \in 0 .. PeerWindow

\* The fields of the records that the actions update, and the numbers.
Shapes ==
    /\ DOMAIN mux = {"at", "env", "id", "linkFromInputHandle", "inputHandleFromDeliveryID",
                     "inputHandleFromRemoteDeliveryID", "deliveryIDFromOutputHandle",
                     "settlementFromDeliveryID", "nextDeliveryID", "nextOutgoingID", "nextIncomingID",
                     "remoteIncomingWindow", "needFlowCount", "closeInProgress", "doneErr"}
    /\ DOMAIN peer = {"next", "window", "nextOut", "outWindow", "flows", "partial", "unsettled",
                      "disposed", "answered", "confirm", "attached", "erred", "endReceived", "ended"}
    /\ IsSeq(toPeer) /\ IsSeq(rxQ) /\ Flows(rxQ)
    /\ mux.nextOutgoingID \in Ids /\ mux.remoteIncomingWindow \in Nat
    /\ peer.next \in Ids /\ peer.window \in Nat

\* The transfers on their way.
InFlight(q) == {i \in DOMAIN q : q[i].type = "transfer"}

Flying == Cardinality(InFlight(toPeer))

\* The number of the transfer that is written next, and how many may be: the
\* mux learns that a transfer was written after the peer may have read it.
NextNumber == IF mux.at = "written" THEN Inc(mux.nextOutgoingID) ELSE mux.nextOutgoingID

MayWrite == IF mux.at = "written" THEN mux.remoteIncomingWindow - 1 ELSE mux.remoteIncomingWindow

\* What is left of the window that a flow grants when the transfers that
\* crossed it have been counted.
Room(fr, n) == fr.window - Dist(n, fr.nextIncomingID)

\* A flow in rxQ leaves at least what the mux now reckons with, at most what
\* the peer does, and no less than the flows before it.
GrantInv(q, n, least, most) ==
    /\ \A i \in DOMAIN q : Grants(q[i]) => least <= Room(q[i], n) /\ Room(q[i], n) <= most
    /\ \A i, j \in DOMAIN q : i <= j /\ Grants(q[i]) /\ Grants(q[j]) => Room(q[i], n) <= Room(q[j], n)

\* While there is a connection, the number that the peer expects is behind ours
\* by the transfers on their way, and the mux reckons with no more than the
\* peer has left for others.
WindowInv ==
    /\ Flying <= peer.window /\ peer.window <= PeerWindow
    /\ ~connDone =>
          /\ Dist(NextNumber, peer.next) = Flying
          /\ 0 <= MayWrite /\ MayWrite <= peer.window - Flying
          /\ mux.at = "writing" => 1 <= MayWrite
          /\ GrantInv(rxQ, NextNumber, MayWrite, peer.window - Flying)


-----------------------------------------------------------------------------
(* Numbers, maps and queues *)

\* The constants are what uint32 holds.
LEMMA Sizes == M \in Nat /\ M > 1 /\ PeerWindow \in Nat /\ PeerWindow < M
  BY TransfersAssumption

\* Remainders of what is at most one turn away.
LEMMA ModNear ==
    ASSUME NEW x \in Ids
    PROVE  x % M = x /\ (x + M) % M = x
  <1>1. M \in Nat /\ M > 1
    BY Zenon, Sizes
  <1>2. \A n \in Nat : n > 1 => \A y \in 0 .. (n - 1) : y % n = y /\ (y + n) % n = y
    OBVIOUS
  <1> QED
    BY Zenon, <1>1, <1>2 DEF Ids

\* The next number.
LEMMA IncIs ==
    ASSUME NEW x \in Ids
    PROVE  (x + 1) % M = Inc(x) /\ Inc(x) \in Ids
  <1>1. M \in Nat /\ M > 1
    BY Zenon, Sizes
  <1>2. \A n \in Nat : n > 1 => \A y \in 0 .. (n - 1) :
            /\ y + 1 = n => (y + 1) % n = 0
            /\ y + 1 # n => (y + 1) % n = y + 1 /\ y + 1 \in 0 .. (n - 1)
            /\ 0 \in 0 .. (n - 1)
    OBVIOUS
  <1> QED
    BY Zenon, <1>1, <1>2 DEF Ids, Inc

\* A map with one entry more, and one without some.
LEMMA WithIs ==
    ASSUME NEW f, NEW k, NEW v
    PROVE  /\ DOMAIN With(f, k, v) = DOMAIN f \cup {k}
           /\ With(f, k, v)[k] = v
           /\ \A x \in DOMAIN f : x # k => With(f, k, v)[x] = f[x]
  BY Zenon DEF With

LEMMA WithoutIs ==
    ASSUME NEW f, NEW S
    PROVE  /\ DOMAIN Without(f, S) = DOMAIN f \ S
           /\ \A x \in DOMAIN f \ S : Without(f, S)[x] = f[x]
  BY Zenon DEF Without, Restrict

\* A sequence, indexed.
LEMMA SeqIs ==
    ASSUME NEW q, IsSeq(q)
    PROVE  /\ Len(q) \in Nat /\ DOMAIN q = 1 .. Len(q)
           /\ \A i \in DOMAIN q : q[i] \in Range(q)
           /\ \A x \in Range(q) : \E i \in DOMAIN q : q[i] = x
           /\ q = [i \in 1 .. Len(q) |-> q[i]]
  <1> USE DEF IsSeq
  <1>1. Len(q) \in Nat /\ DOMAIN q = 1 .. Len(q) /\ q = [i \in 1 .. Len(q) |-> q[i]]
    OBVIOUS
  <1> QED
    BY Zenon, <1>1 DEF Range

LEMMA IsASeq ==
    ASSUME NEW n \in Nat, NEW q, q = [i \in 1 .. n |-> q[i]]
    PROVE  IsSeq(q) /\ Len(q) = n
  <1> DEFINE R == Range(q)
  <1>1. \A i \in 1 .. n : q[i] \in R
    BY Zenon DEF Range
  <1> HIDE DEF R
  <1>2. q \in [1 .. n -> R]
    BY Zenon, <1>1
  <1>3. q \in Seq(R) /\ Len(q) = n
    BY <1>2
  <1> QED
    BY Zenon, <1>3 DEF IsSeq, R

\* A frame is appended to a queue.
LEMMA AppendIs ==
    ASSUME NEW q, IsSeq(q), NEW x
    PROVE  /\ IsSeq(Append(q, x)) /\ Len(Append(q, x)) = Len(q) + 1
           /\ DOMAIN Append(q, x) = DOMAIN q \cup {Len(q) + 1} /\ Len(q) + 1 \notin DOMAIN q
           /\ \A i \in DOMAIN q : Append(q, x)[i] = q[i]
           /\ Append(q, x)[Len(q) + 1] = x
           /\ Range(Append(q, x)) = Range(q) \cup {x}
  <1> DEFINE R == Range(q)
             T == R \cup {x}
             a == Append(q, x)
  <1>1. q \in Seq(R) /\ Len(q) \in Nat /\ DOMAIN q = 1 .. Len(q)
    BY Zenon, SeqIs DEF IsSeq
  <1> HIDE DEF R
  <1>2. q \in Seq(T) /\ x \in T
    BY <1>1
  <1> HIDE DEF T
  <1>3. /\ a \in Seq(T) /\ Len(a) = Len(q) + 1 /\ DOMAIN a = 1 .. (Len(q) + 1)
        /\ \A i \in 1 .. Len(q) : a[i] = q[i]
        /\ a[Len(q) + 1] = x
    BY <1>2
  <1>4. 1 .. (Len(q) + 1) = (1 .. Len(q)) \cup {Len(q) + 1} /\ Len(q) + 1 \notin 1 .. Len(q)
    BY <1>1
  <1> HIDE DEF a
  <1>5. a = [i \in 1 .. Len(a) |-> a[i]] /\ Len(a) \in Nat
    BY <1>1, <1>3
  <1>6. IsSeq(a)
    BY Zenon, <1>5, IsASeq
  <1>7. Range(a) = Range(q) \cup {x}
    <2>1. \A i \in DOMAIN a : a[i] \in Range(q) \cup {x}
      BY Zenon, <1>1, <1>3, <1>4 DEF Range
    <2>2. ASSUME NEW y \in Range(q) PROVE y \in Range(a)
      <3>1. PICK i \in 1 .. Len(q) : q[i] = y
        BY Zenon, <1>1 DEF Range
      <3>2. i \in DOMAIN a /\ a[i] = y
        BY Zenon, <1>3, <1>4, <3>1
      <3> QED
        BY Zenon, <3>2 DEF Range
    <2>3. x \in Range(a)
      <3>1. Len(q) + 1 \in DOMAIN a
        BY Zenon, <1>3, <1>4
      <3> QED
        BY Zenon, <1>3, <3>1 DEF Range
    <2>4. \A y \in Range(a) : y \in Range(q) \cup {x}
      BY Zenon, <2>1 DEF Range
    <2> QED
      BY Zenon, <2>2, <2>3, <2>4
  <1> QED
    BY Zenon, <1>1, <1>3, <1>4, <1>6, <1>7 DEF a

\* The first frame of a queue is taken.
LEMMA TailIs ==
    ASSUME NEW q, IsSeq(q), q # << >>
    PROVE  /\ IsSeq(Tail(q)) /\ Len(Tail(q)) = Len(q) - 1
           /\ 1 \in DOMAIN q /\ Head(q) = q[1] /\ q[1] \in Range(q)
           /\ DOMAIN Tail(q) = 1 .. (Len(q) - 1)
           /\ \A i \in DOMAIN Tail(q) : i + 1 \in DOMAIN q /\ Tail(q)[i] = q[i + 1]
           /\ \A i \in DOMAIN q : i # 1 => i - 1 \in DOMAIN Tail(q) /\ Tail(q)[i - 1] = q[i]
           /\ Range(Tail(q)) \subseteq Range(q)
  <1> DEFINE R == Range(q)
             a == Tail(q)
  <1>1. q \in Seq(R) /\ Len(q) \in Nat /\ DOMAIN q = 1 .. Len(q) /\ \A i \in DOMAIN q : q[i] \in R
    BY Zenon, SeqIs DEF IsSeq
  <1> HIDE DEF R
  <1>2. /\ a \in Seq(R) /\ Len(a) = Len(q) - 1 /\ DOMAIN a = 1 .. (Len(q) - 1)
        /\ \A i \in 1 .. (Len(q) - 1) : a[i] = q[i + 1]
        /\ Len(q) - 1 \in Nat /\ Head(q) = q[1]
    BY <1>1
  <1>3. /\ 1 \in 1 .. Len(q)
        /\ \A i \in 1 .. (Len(q) - 1) : i + 1 \in 1 .. Len(q)
        /\ \A i \in 1 .. Len(q) : i # 1 => i - 1 \in 1 .. (Len(q) - 1) /\ (i - 1) + 1 = i
    BY <1>1, <1>2
  <1> HIDE DEF a
  <1>4. a = [i \in 1 .. Len(a) |-> a[i]]
    BY <1>2
  <1>5. IsSeq(a)
    BY Zenon, <1>2, <1>4, IsASeq
  <1>6. Range(a) \subseteq R
    BY Zenon, <1>1, <1>2, <1>3 DEF Range
  <1>7. \A i \in 1 .. Len(q) : i # 1 => a[i - 1] = q[i]
    BY Zenon, <1>2, <1>3
  <1> QED
    BY Zenon, <1>1, <1>2, <1>3, <1>5, <1>6, <1>7 DEF a, R

\* What is on its way can be counted.
LEMMA InFlightFinite ==
    ASSUME NEW q, IsSeq(q)
    PROVE  IsFiniteSet(InFlight(q)) /\ Cardinality(InFlight(q)) \in Nat
  <1>1. InFlight(q) \subseteq 1 .. Len(q) /\ Len(q) \in Nat
    BY Zenon, SeqIs DEF InFlight
  <1>2. IsFiniteSet(1 .. Len(q))
    BY <1>1, FS_Interval
  <1>3. IsFiniteSet(InFlight(q))
    BY Zenon, <1>1, <1>2, FS_Subset
  <1> QED
    BY Zenon, <1>3, FS_CardinalityType

\* A transfer that is written is one more.
LEMMA InFlightAppend ==
    ASSUME NEW q, IsSeq(q), NEW x
    PROVE  /\ x.type = "transfer" => Cardinality(InFlight(Append(q, x))) = Cardinality(InFlight(q)) + 1
           /\ x.type # "transfer" => Cardinality(InFlight(Append(q, x))) = Cardinality(InFlight(q))
  <1>1. /\ DOMAIN Append(q, x) = DOMAIN q \cup {Len(q) + 1} /\ Len(q) + 1 \notin DOMAIN q
        /\ \A i \in DOMAIN q : Append(q, x)[i] = q[i]
        /\ Append(q, x)[Len(q) + 1] = x
    BY Zenon, AppendIs
  <1>2. CASE x.type = "transfer"
    <2>1. /\ InFlight(Append(q, x)) = InFlight(q) \cup {Len(q) + 1}
          /\ Len(q) + 1 \notin InFlight(q)
      BY Zenon, <1>1, <1>2 DEF InFlight
    <2> QED
      BY Zenon, <1>2, <2>1, InFlightFinite, FS_AddElement
  <1>3. CASE x.type # "transfer"
    <2>1. InFlight(Append(q, x)) = InFlight(q)
      BY Zenon, <1>1, <1>3 DEF InFlight
    <2> QED
      BY Zenon, <1>3, <2>1
  <1> QED
    BY Zenon, <1>2, <1>3

\* One that the peer reads is one less.
LEMMA InFlightTail ==
    ASSUME NEW q, IsSeq(q), q # << >>
    PROVE  /\ q[1].type = "transfer" => /\ Cardinality(InFlight(q)) > 0
                                        /\ Cardinality(InFlight(Tail(q))) = Cardinality(InFlight(q)) - 1
           /\ q[1].type # "transfer" => Cardinality(InFlight(Tail(q))) = Cardinality(InFlight(q))
  <1> DEFINE S == InFlight(q) \ {1}
             T == InFlight(Tail(q))
             f == [i \in S |-> i - 1]
  <1>1. /\ 1 \in DOMAIN q /\ DOMAIN q \subseteq Int /\ DOMAIN Tail(q) \subseteq Int
        /\ \A i \in DOMAIN Tail(q) : i + 1 \in DOMAIN q /\ Tail(q)[i] = q[i + 1] /\ i + 1 # 1
        /\ \A i \in DOMAIN q : i # 1 => i - 1 \in DOMAIN Tail(q) /\ Tail(q)[i - 1] = q[i]
    <2>1. DOMAIN q = 1 .. Len(q) /\ DOMAIN Tail(q) = 1 .. (Len(q) - 1)
      BY Zenon, SeqIs, TailIs
    <2>2. \A n \in 1 .. (Len(q) - 1) : n + 1 # 1
      OBVIOUS
    <2> QED
      BY <2>1, <2>2, TailIs
  <1>2. S \subseteq Int /\ \A i \in S : i - 1 \in T
    BY Zenon, <1>1 DEF InFlight
  <1>3. \A j \in T : j + 1 \in S /\ (j + 1) - 1 = j
    <2>1. \A j \in T : j \in Int /\ j + 1 \in S
      BY Zenon, <1>1 DEF InFlight
    <2>2. \A j \in Int : (j + 1) - 1 = j
      OBVIOUS
    <2> QED
      BY Zenon, <2>1, <2>2
  <1>4. f \in Bijection(S, T)
    <2>1. f \in [S -> T]
      BY Zenon, <1>2
    <2>2. \A i, j \in Int : i - 1 = j - 1 => i = j
      OBVIOUS
    <2>3. \A i, j \in S : f[i] = f[j] => i = j
      BY Zenon, <1>2, <2>2
    <2>4. \A j \in T : \E i \in S : f[i] = j
      BY Zenon, <1>3
    <2> HIDE DEF S, T, f
    <2> QED
      BY Zenon, <2>1, <2>3, <2>4 DEF Bijection, Injection, Surjection, IsInjective
  <1>5. IsFiniteSet(InFlight(q)) /\ Cardinality(InFlight(q)) \in Nat
    BY Zenon, InFlightFinite
  <1>6. IsFiniteSet(S) /\ Cardinality(S) = IF 1 \in InFlight(q) THEN Cardinality(InFlight(q)) - 1 ELSE Cardinality(InFlight(q))
    BY Zenon, <1>5, FS_RemoveElement
  <1>7. Cardinality(T) = Cardinality(S)
    <2>1. ExistsBijection(S, T)
      BY Zenon, <1>4 DEF ExistsBijection
    <2> HIDE DEF S, T
    <2> QED
      BY Zenon, <2>1, <1>6, FS_Bijection
  <1>8. 1 \in InFlight(q) <=> q[1].type = "transfer"
    BY Zenon, <1>1 DEF InFlight
  <1>9. Cardinality(S) \in Nat
    BY Zenon, <1>6, FS_CardinalityType
  <1> HIDE DEF S, T, f
  <1> QED
    BY <1>5, <1>6, <1>7, <1>8, <1>9 DEF T

-----------------------------------------------------------------------------
(* Distances *)

\* A number is ahead by less than a turn, and by as much as the window says.
LEMMA DistIs ==
    ASSUME NEW a \in Ids, NEW b \in Ids
    PROVE  /\ Dist(a, b) \in Ids
           /\ Dist(a, b) + 1 < M => Dist(Inc(a), b) = Dist(a, b) + 1
           /\ Dist(a, b) > 0 => Dist(a, Inc(b)) = Dist(a, b) - 1
           /\ \A w \in Ids : Dist(a, b) <= w => (w - a + b) % M = w - Dist(a, b)
  <1>1. M \in Nat /\ M > 1
    BY Zenon, Sizes
  <1>2. /\ Dist(a, b) \in Ids
        /\ Dist(a, b) + 1 < M => Dist(Inc(a), b) = Dist(a, b) + 1
        /\ Dist(a, b) > 0 => Dist(a, Inc(b)) = Dist(a, b) - 1
    BY <1>1 DEF Ids, Dist, Inc
  <1>3. ASSUME NEW w \in Ids, Dist(a, b) <= w PROVE (w - a + b) % M = w - Dist(a, b)
    <2>1. w - Dist(a, b) \in Ids
      BY <1>1, <1>2, <1>3 DEF Ids
    <2>2. w - a + b = w - Dist(a, b) \/ w - a + b = (w - Dist(a, b)) + M
      BY <1>1, <1>3 DEF Ids, Dist
    <2> QED
      BY Zenon, <2>1, <2>2, ModNear
  <1> QED
    BY Zenon, <1>2, <1>3

-----------------------------------------------------------------------------
(* What the steps do to the queues *)

\* The frames of Put are none or one.
LEMMA PutIs ==
    ASSUME IsSeq(toPeer)
    PROVE  /\ Put(<< >>) => toPeer' = toPeer
           /\ \A x : Put(<< x >>) => toPeer' = toPeer \/ (~connDone /\ toPeer' = Append(toPeer, x))
  <1> DEFINE R == Range(toPeer)
  <1>1. toPeer \in Seq(R)
    BY Zenon DEF IsSeq
  <1> HIDE DEF R
  <1>2. toPeer \o << >> = toPeer
    BY <1>1
  <1>3. ASSUME NEW x PROVE toPeer \o << x >> = Append(toPeer, x)
    <2> DEFINE T == R \cup {x}
    <2>1. toPeer \in Seq(T) /\ x \in T
      BY <1>1
    <2> HIDE DEF T
    <2> QED
      BY <2>1
  <1> QED
    BY Zenon, <1>2, <1>3 DEF Put

\* Nothing is put on the network, or read, that counts against the peer's
\* window.
NoTransfer ==
    \/ toPeer' = toPeer
    \/ \E x : x.type # "transfer" /\ toPeer' = Append(toPeer, x)
    \/ toPeer # << >> /\ Head(toPeer).type # "transfer" /\ toPeer' = Tail(toPeer)

\* No window is granted.
NoGrant ==
    \/ rxQ' = rxQ
    \/ rxQ # << >> /\ rxQ' = Tail(rxQ)
    \/ \E fr : ~Grants(fr) /\ rxQ' = Append(rxQ, fr)

\* The mux and the peer count as before.
MuxCounts ==
    /\ DOMAIN mux' = DOMAIN mux
    /\ mux'.nextOutgoingID = mux.nextOutgoingID /\ mux'.remoteIncomingWindow = mux.remoteIncomingWindow

PeerCounts == DOMAIN peer' = DOMAIN peer /\ peer'.next = peer.next /\ peer'.window = peer.window

\* A transfer is given to the connWriter only with the window open, and is not
\* forgotten once written.
MuxAt ==
    \/ mux'.at = mux.at
    \/ mux.at \in {"loop", "writing"} /\ mux'.at \in {"loop", "exited"}
    \/ mux.at = "loop" /\ mux'.at = "writing" /\ mux.remoteIncomingWindow # 0
    \/ connDone'

\* A step that is not about the peer's window.
Quiet ==
    MuxCounts /\ PeerCounts /\ MuxAt /\ NoTransfer /\ NoGrant /\ (connDone => connDone')

\* The frames that the mux and the links put are no transfers.
LEMMA PutNoTransfer ==
    ASSUME IsSeq(toPeer)
    PROVE  /\ Put(<< >>) \/ Put(EndOnce) \/ Put(<< End >>) => NoTransfer
           /\ \A m, l : Put(<< OurFlow(m) >>) \/ Put(<< LinkFlow(l) >>) \/ Put(<< Detach(l) >>) => NoTransfer
           /\ \A r, a, b, s : Put(<< Disposition(r, a, b, s) >>) => NoTransfer
  <1>1. /\ Put(<< >>) => NoTransfer
        /\ \A x : x.type # "transfer" /\ Put(<< x >>) => NoTransfer
    BY Zenon, PutIs DEF NoTransfer
  <1>2. /\ End.type # "transfer"
        /\ \A l : Detach(l).type # "transfer"
        /\ \A r, a, b, s : Disposition(r, a, b, s).type # "transfer"
    BY Zenon DEF End, Detach, Disposition
  <1>3. \A m : OurFlow(m).type # "transfer"
    BY Zenon DEF OurFlow, Flow
  <1>4. \A l : LinkFlow(l).type # "transfer"
    BY Zenon DEF LinkFlow, OurFlow, Flow
  <1>5. Put(EndOnce) => Put(<< >>) \/ Put(<< End >>)
    BY Zenon DEF EndOnce
  <1> QED
    BY Zenon, <1>1, <1>2, <1>3, <1>4, <1>5

\* A frame that grants nothing.
LEMMA NoGrantFrames ==
    /\ ~Grants(End) /\ ~Grants(Unexpected)
    /\ \A l : ~Grants(Detach(l))
    /\ \A r, a, b, s : ~Grants(Disposition(r, a, b, s))
    /\ \A l, id, f, m, s, msg : ~Grants(Transfer(l, id, f, m, s, msg))
    /\ \A w, o, l, e : ~Grants(Flow(-1, w, o, l, e))
  <1>1. /\ End.type # "flow" /\ Unexpected.type # "flow"
        /\ \A l : Detach(l).type # "flow"
        /\ \A r, a, b, s : Disposition(r, a, b, s).type # "flow"
        /\ \A l, id, f, m, s, msg : Transfer(l, id, f, m, s, msg).type # "flow"
    BY Zenon DEF End, Unexpected, Detach, Disposition, Transfer
  <1>2. \A w, o, l, e : Flow(-1, w, o, l, e).nextIncomingID = -1
    BY Zenon DEF Flow
  <1> QED
    BY Zenon, <1>1, <1>2 DEF Grants

\* closeWithError leaves the counts alone.
LEMMA CloseCounts ==
    ASSUME NEW m, DOMAIN m = DOMAIN mux, Shapes
    PROVE  LET c == CloseWithError(m)
           IN  /\ DOMAIN c = DOMAIN mux /\ c.at = m.at
               /\ c.nextOutgoingID = m.nextOutgoingID /\ c.remoteIncomingWindow = m.remoteIncomingWindow
  BY Zenon DEF CloseWithError, Shapes

\* What most steps of the mux have in common.
LEMMA QuietMux ==
    ASSUME MuxCounts, MuxAt, NoTransfer, UNCHANGED << peer, connDone >>,
           rxQ' = rxQ \/ (rxQ # << >> /\ rxQ' = Tail(rxQ))
    PROVE  Quiet
  BY Zenon DEF Quiet, PeerCounts, NoGrant

\* Unattached ends the session and no more.
LEMMA UnattachedQuiet ==
    ASSUME Shapes, NEW m, DOMAIN m = DOMAIN mux, m.at = mux.at, Unattached(m),
           m.nextOutgoingID = mux.nextOutgoingID, m.remoteIncomingWindow = mux.remoteIncomingWindow
    PROVE  MuxCounts /\ MuxAt /\ NoTransfer
  <1>1. mux' = CloseWithError(m) /\ Put(EndOnce)
    BY Zenon DEF Unattached
  <1>2. NoTransfer
    BY Zenon, <1>1, PutNoTransfer DEF Shapes
  <1> QED
    BY Zenon, <1>1, <1>2, CloseCounts DEF MuxCounts, MuxAt

\* The steps of the mux that are not about the peer's window.
LEMMA MuxQuiet ==
    ASSUME Shapes,
           \/ \E l \in Senders : MuxTransfer(l)
           \/ MuxDisposition \/ MuxIncoming \/ MuxDetach \/ MuxEnd \/ MuxUnexpected
           \/ MuxClose \/ MuxConnDone
           \/ MuxFlow /\ Head(rxQ).nextIncomingID = -1
    PROVE  Quiet
  <1>0. IsSeq(toPeer)
    BY Zenon DEF Shapes
  <1>1. ASSUME NEW l \in Senders, MuxTransfer(l) PROVE Quiet
    <2>1. MuxCounts /\ mux.at = "loop" /\ mux'.at = "writing" /\ mux.remoteIncomingWindow # 0
      BY Zenon, <1>1 DEF MuxTransfer, MuxCounts, Sending, Running, Shapes
    <2>2. UNCHANGED << toPeer, rxQ, peer, connDone >>
      BY Zenon, <1>1 DEF MuxTransfer
    <2> QED
      BY Zenon, <2>1, <2>2, QuietMux DEF MuxAt, NoTransfer
  <1>2. CASE MuxDisposition
    <2> DEFINE fr      == Head(rxQ)
               ours    == fr.role = "receiver"
               handles == HandlesFor(fr.role)
               found   == IDsOf(fr) \cap DOMAIN handles
               done    == IF Settles(fr) THEN found \cap DOMAIN mux.settlementFromDeliveryID ELSE {}
               unknown == {id \in found : handles[id] \notin mux.linkFromInputHandle}
               after   == [mux EXCEPT
                             !.inputHandleFromDeliveryID = IF ours THEN Without(@, found) ELSE @,
                             !.inputHandleFromRemoteDeliveryID = IF ours THEN @ ELSE Without(@, found),
                             !.settlementFromDeliveryID = Without(@, done)]
    <2>1. /\ mux' = IF unknown # {} THEN CloseWithError(after) ELSE after
          /\ Put(IF unknown # {} THEN EndOnce ELSE << >>)
          /\ rxQ' = Tail(rxQ) /\ rxQ # << >> /\ UNCHANGED << peer, connDone >>
      BY Zenon, <1>2 DEF MuxDisposition, Received
    <2> HIDE DEF unknown, done, found
    <2>2. /\ DOMAIN after = DOMAIN mux /\ after.at = mux.at
          /\ after.nextOutgoingID = mux.nextOutgoingID /\ after.remoteIncomingWindow = mux.remoteIncomingWindow
      BY Zenon DEF Shapes
    <2> HIDE DEF after
    <2>3. MuxCounts /\ mux'.at = mux.at
      BY Zenon, <2>1, <2>2, CloseCounts DEF MuxCounts
    <2>4. NoTransfer
      BY Zenon, <1>0, <2>1, PutNoTransfer
    <2> QED
      BY Zenon, <2>1, <2>3, <2>4, QuietMux DEF MuxAt
  <1>3. CASE MuxIncoming
    <2> DEFINE fr      == Head(rxQ)
               counted == [mux EXCEPT !.needFlowCount = @ + 1, !.nextIncomingID = (@ + 1) % M]
               kept    == [counted EXCEPT !.inputHandleFromRemoteDeliveryID = With(@, fr.id, fr.link)]
               reset   == [kept EXCEPT !.needFlowCount = 0]
               flow    == HalfConsumed(kept) /\ ~mux.closeInProgress
    <2>1. /\ rxQ' = Tail(rxQ) /\ rxQ # << >> /\ UNCHANGED << peer, connDone >>
          /\ \/ Unattached(counted)
             \/ mux' = reset /\ Put(<< OurFlow(kept) >>)
             \/ mux' = kept /\ Put(<< >>)
      BY Zenon, <1>3 DEF MuxIncoming, Received
    <2>2. /\ DOMAIN counted = DOMAIN mux /\ counted.at = mux.at
          /\ counted.nextOutgoingID = mux.nextOutgoingID /\ counted.remoteIncomingWindow = mux.remoteIncomingWindow
      BY Zenon DEF Shapes
    <2>3. /\ DOMAIN kept = DOMAIN mux /\ kept.at = mux.at
          /\ kept.nextOutgoingID = mux.nextOutgoingID /\ kept.remoteIncomingWindow = mux.remoteIncomingWindow
      BY Zenon DEF Shapes
    <2>4. /\ DOMAIN reset = DOMAIN mux /\ reset.at = mux.at
          /\ reset.nextOutgoingID = mux.nextOutgoingID /\ reset.remoteIncomingWindow = mux.remoteIncomingWindow
      BY Zenon DEF Shapes
    <2> HIDE DEF counted, kept, reset
    <2>5. MuxCounts /\ MuxAt /\ NoTransfer
      BY Zenon, <1>0, <2>1, <2>2, <2>3, <2>4, UnattachedQuiet, PutNoTransfer DEF MuxCounts, MuxAt
    <2> QED
      BY Zenon, <2>1, <2>5, QuietMux
  <1>4. CASE MuxDetach
    <2> DEFINE fr == Head(rxQ)
               after == [mux EXCEPT !.linkFromInputHandle = @ \ {fr.link},
                                    !.deliveryIDFromOutputHandle = Without(@, {fr.link})]
    <2>1. /\ rxQ' = Tail(rxQ) /\ rxQ # << >> /\ UNCHANGED << peer, connDone >>
          /\ Unattached(mux) \/ (mux' = after /\ Put(<< >>))
      BY Zenon, <1>4 DEF MuxDetach, Received
    <2>2. /\ DOMAIN after = DOMAIN mux /\ after.at = mux.at
          /\ after.nextOutgoingID = mux.nextOutgoingID /\ after.remoteIncomingWindow = mux.remoteIncomingWindow
      BY Zenon DEF Shapes
    <2> HIDE DEF after
    <2>3. MuxCounts /\ MuxAt /\ NoTransfer
      BY Zenon, <1>0, <2>1, <2>2, UnattachedQuiet, PutNoTransfer DEF MuxCounts, MuxAt
    <2> QED
      BY Zenon, <2>1, <2>3, QuietMux
  <1>5. CASE MuxEnd \/ MuxClose \/ MuxConnDone
    <2>a. ASSUME MuxEnd PROVE MuxCounts /\ MuxAt
      BY Zenon, <2>a DEF MuxEnd, Running, Received, MuxCounts, MuxAt, Shapes
    <2>b. ASSUME MuxClose PROVE MuxCounts /\ mux'.at = mux.at
      BY Zenon, <2>b DEF MuxClose, MuxCounts, Shapes
    <2>c. ASSUME MuxConnDone PROVE MuxCounts /\ connDone'
      BY Zenon, <2>c DEF MuxConnDone, MuxCounts, Shapes
    <2>1. MuxCounts /\ MuxAt
      BY Zenon, <1>5, <2>a, <2>b, <2>c DEF MuxAt
    <2>2. NoTransfer
      BY Zenon, <1>0, <1>5, PutNoTransfer DEF MuxEnd, MuxClose, MuxConnDone, NoTransfer
    <2>3. /\ rxQ' = rxQ \/ (rxQ # << >> /\ rxQ' = Tail(rxQ))
          /\ UNCHANGED << peer, connDone >>
      BY Zenon, <1>5 DEF MuxEnd, MuxClose, MuxConnDone, Received
    <2> QED
      BY Zenon, <2>1, <2>2, <2>3, QuietMux
  <1>6. CASE MuxUnexpected \/ (MuxFlow /\ Head(rxQ).nextIncomingID = -1)
    <2>1. /\ rxQ' = Tail(rxQ) /\ rxQ # << >> /\ UNCHANGED << peer, connDone >>
          /\ Unattached(mux)
      BY Zenon, <1>6 DEF MuxUnexpected, MuxFlow, Received
    <2>2. MuxCounts /\ MuxAt /\ NoTransfer
      BY Zenon, <2>1, UnattachedQuiet
    <2> QED
      BY Zenon, <2>1, <2>2, QuietMux
  <1> QED
    BY Zenon, <1>1, <1>2, <1>3, <1>4, <1>5, <1>6

\* The calls of Send, the links, and a connection that refuses or fails.
LEMMA OthersQuiet ==
    ASSUME Shapes,
           \/ App \/ ConnRefuses \/ ConnFails \/ UNCHANGED vars
           \/ \E l \in Links : Link(l)
    PROVE  Quiet
  <1>0. IsSeq(toPeer)
    BY Zenon DEF Shapes
  <1>1. CASE App \/ ConnFails \/ UNCHANGED vars
    <2>1. UNCHANGED << mux, toPeer, rxQ, peer >>
      BY Zenon, <1>1 DEF App, StartSend, SendCancelled, WaitCancelled, CloseSession, ConnFails, vars
    <2>2. connDone' = connDone \/ connDone' = TRUE
      BY Zenon, <1>1 DEF App, StartSend, SendCancelled, WaitCancelled, CloseSession, ConnFails, vars
    <2>3. connDone => connDone'
      BY Zenon, <2>2
    <2> QED
      BY Zenon, <2>1, <2>3 DEF Quiet, MuxCounts, PeerCounts, MuxAt, NoTransfer, NoGrant
  <1>2. CASE ConnRefuses
    <2>1. MuxCounts /\ mux.at = "writing" /\ mux'.at = "loop" /\ UNCHANGED << toPeer, rxQ, peer, connDone >>
      BY Zenon, <1>2 DEF ConnRefuses, MuxCounts, Shapes
    <2> QED
      BY Zenon, <2>1, QuietMux DEF MuxAt, NoTransfer
  <1>3. ASSUME NEW l \in Links, Link(l) PROVE Quiet
    <2>1. CASE TxDisposition(l)
      <3>1. MuxCounts /\ mux'.at = mux.at /\ UNCHANGED << rxQ, peer, connDone >>
        BY Zenon, <2>1 DEF TxDisposition, MuxCounts, Shapes
      <3>2. NoTransfer
        BY Zenon, <1>0, <2>1, PutNoTransfer DEF TxDisposition, Confirmation
      <3> QED
        BY Zenon, <3>1, <3>2, QuietMux DEF MuxAt
    <2>2. CASE ~TxDisposition(l)
      <3>1. UNCHANGED << mux, rxQ, peer, connDone >>
        BY Zenon, <1>3, <2>2 DEF Link, TxDetach, LinkTakes, TxEcho, SessionDone, TxSettle, LinkReads
      <3>2. NoTransfer
        BY Zenon, <1>0, <1>3, <2>2, PutNoTransfer
           DEF Link, TxDetach, LinkTakes, TxEcho, SessionDone, TxSettle, LinkReads, NoTransfer
      <3> QED
        BY Zenon, <3>1, <3>2, QuietMux DEF MuxAt, MuxCounts
    <2> QED
      BY Zenon, <2>1, <2>2
  <1> QED
    BY Zenon, <1>1, <1>2, <1>3

\* A frame of the peer that grants nothing.
LEMMA PeerQuiet ==
    ASSUME Shapes, UNCHANGED mux, PeerCounts, NEW fr, PeerSends(fr), ~Grants(fr)
    PROVE  Quiet
  BY Zenon DEF Quiet, PeerSends, MuxCounts, MuxAt, NoTransfer, NoGrant

\* The steps of the peer that only send, and grant nothing.
LEMMA PeersQuiet ==
    ASSUME Shapes,
           \/ PeerDisposes \/ PeerTransfers \/ PeerConfirms \/ PeerEnds
           \/ \E l \in Detachable : PeerDetaches(l)
    PROVE  Quiet
  <1>1. CASE PeerDisposes
    <2>1. PICK first \in DOMAIN peer.unsettled, last \in DOMAIN peer.unsettled, settled \in BOOLEAN :
             /\ peer' = [peer EXCEPT
                   !.unsettled = Without(@, first..last),
                   !.disposed = @ \cup {peer.unsettled[id].message : id \in first..last},
                   !.answered = IF settled THEN @ ELSE @ \cup first..last]
             /\ PeerSends(Disposition("receiver", first, last, settled))
      BY Zenon, <1>1 DEF PeerDisposes
    <2>2. PeerCounts
      BY Zenon, <2>1 DEF PeerCounts, Shapes
    <2> QED
      BY Zenon, <2>1, <2>2, PeerQuiet, NoGrantFrames DEF PeerSends
  <1>2. CASE PeerTransfers
    <2>1. PeerCounts
      BY Zenon, <1>2 DEF PeerTransfers, PeerCounts, Shapes
    <2> QED
      BY Zenon, <1>2, <2>1, PeerQuiet, NoGrantFrames DEF PeerTransfers, PeerSends
  <1>3. CASE PeerConfirms
    <2>1. PICK id \in peer.confirm :
             /\ peer' = [peer EXCEPT !.confirm = @ \ {id}]
             /\ PeerSends(Disposition("sender", id, id, TRUE))
      BY Zenon, <1>3 DEF PeerConfirms
    <2>2. PeerCounts
      BY Zenon, <2>1 DEF PeerCounts, Shapes
    <2> QED
      BY Zenon, <2>1, <2>2, PeerQuiet, NoGrantFrames DEF PeerSends
  <1>4. CASE PeerEnds
    <2>1. PeerCounts
      BY Zenon, <1>4 DEF PeerEnds, PeerCounts, Shapes
    <2> QED
      BY Zenon, <1>4, <2>1, PeerQuiet, NoGrantFrames DEF PeerEnds, PeerSends
  <1>5. ASSUME NEW l \in Detachable, PeerDetaches(l) PROVE Quiet
    <2>1. PeerCounts
      BY Zenon, <1>5 DEF PeerDetaches, PeerCounts, Shapes
    <2> QED
      BY Zenon, <1>5, <2>1, PeerQuiet, NoGrantFrames DEF PeerDetaches, PeerSends
  <1> QED
    BY Zenon, <1>1, <1>2, <1>3, <1>4, <1>5

\* The peer grants a window, no smaller than the one before, as of what it has
\* read.
Granting(w, fr) ==
    /\ w \in peer.window .. PeerWindow
    /\ DOMAIN peer' = DOMAIN peer /\ peer'.next = peer.next /\ peer'.window = w
    /\ fr.nextIncomingID = peer.next /\ fr.window = w
    /\ rxQ' = Append(rxQ, fr) /\ UNCHANGED << mux, toPeer, connDone >> /\ ~connDone

PeerGrants == \E w, fr : Granting(w, fr)

\* A peer that errs may do so in a flow.
LEMMA PeerGrantsOrQuiet ==
    ASSUME Shapes, peer.window <= PeerWindow, PeerFlow \/ PeerOpensWindow \/ PeerErrs
    PROVE  Quiet \/ PeerGrants
  <1>0. ASSUME NEW w \in peer.window .. PeerWindow, NEW o, NEW l, NEW e,
               PeerSends(Flow(peer.next, w, o, l, e)), ~connDone,
               DOMAIN peer' = DOMAIN peer, peer'.next = peer.next, peer'.window = w
        PROVE  PeerGrants
    <2> DEFINE fr == Flow(peer.next, w, o, l, e)
    <2>1. fr.nextIncomingID = peer.next /\ fr.window = w
      BY Zenon DEF Flow
    <2> HIDE DEF fr
    <2>2. rxQ' = Append(rxQ, fr) /\ UNCHANGED << mux, toPeer, connDone >>
      BY Zenon, <1>0 DEF PeerSends, fr
    <2>3. Granting(w, fr)
      BY Zenon, <1>0, <2>1, <2>2 DEF Granting
    <2> QED
      BY Zenon, <2>3 DEF PeerGrants
  <1>1. CASE PeerFlow
    <2>1. PICK w \in peer.window..PeerWindow : \E l, echo :
             /\ peer' = [peer EXCEPT !.window = w, !.flows = @ + 1]
             /\ PeerSends(Flow(peer.next, w, peer.nextOut, l, echo)) /\ ~connDone
      BY Zenon, <1>1 DEF PeerFlow, Talking
    <2>a. PICK l, echo : /\ peer' = [peer EXCEPT !.window = w, !.flows = @ + 1]
                         /\ PeerSends(Flow(peer.next, w, peer.nextOut, l, echo)) /\ ~connDone
      BY Zenon, <2>1
    <2>2. DOMAIN peer' = DOMAIN peer /\ peer'.next = peer.next /\ peer'.window = w
      BY Zenon, <2>a DEF Shapes
    <2> QED
      BY Zenon, <1>0, <2>a, <2>2
  <1>2. CASE PeerOpensWindow
    <2>1. /\ peer' = [peer EXCEPT !.window = PeerWindow]
          /\ PeerSends(Flow(peer.next, PeerWindow, peer.nextOut, NoLink, FALSE)) /\ ~connDone
      BY Zenon, <1>2 DEF PeerOpensWindow, Talking
    <2>2. DOMAIN peer' = DOMAIN peer /\ peer'.next = peer.next /\ peer'.window = PeerWindow
      BY Zenon, <2>1 DEF Shapes
    <2>3. PeerWindow \in peer.window .. PeerWindow
      BY Sizes DEF Shapes
    <2> QED
      BY Zenon, <1>0, <2>1, <2>2, <2>3
  <1>3. CASE PeerErrs
    <2>1. PICK fr : /\ \/ \E w, o, l, e : fr = Flow(-1, w, o, l, e)
                       \/ fr = Flow(peer.next, peer.window, peer.nextOut, Stray, FALSE)
                       \/ \E l, id, f, m, s, msg : fr = Transfer(l, id, f, m, s, msg)
                       \/ \E l : fr = Detach(l)
                       \/ fr = Unexpected
                       \/ \E r, a, b, s : fr = Disposition(r, a, b, s)
                    /\ peer' = [peer EXCEPT !.erred = TRUE,
                                  !.disposed = IF fr.type = "disposition"
                                               THEN @ \cup {peer.unsettled[fr.first].message} ELSE @]
                    /\ PeerSends(fr) /\ ~connDone
      BY Zenon, <1>3 DEF PeerErrs, Talking
    <2>2. PeerCounts
      BY Zenon, <2>1 DEF PeerCounts, Shapes
    <2>3. CASE fr = Flow(peer.next, peer.window, peer.nextOut, Stray, FALSE)
      <3>1. peer.window \in peer.window .. PeerWindow
        BY Sizes DEF Shapes
      <3> QED
        BY Zenon, <1>0, <2>1, <2>2, <2>3, <3>1 DEF PeerCounts
    <2>4. CASE ~Grants(fr)
      BY Zenon, <2>1, <2>2, <2>4, PeerQuiet DEF PeerSends
    <2> QED
      BY Zenon, <2>1, <2>3, <2>4, NoGrantFrames
  <1> QED
    BY Zenon, <1>1, <1>2, <1>3

\* The peer reads a frame that is not a transfer.
LEMMA PeerReadsQuiet ==
    ASSUME Shapes, PeerReads, Head(toPeer).type # "transfer"
    PROVE  Quiet
  <1> DEFINE fr == Head(toPeer)
  <1>1. PeerCounts
    <2>1. peer' = CASE fr.type = "disposition" /\ fr.role = "sender" ->
                             [peer EXCEPT !.answered = @ \ IDsOf(fr)]
                    [] fr.type = "disposition" /\ fr.role = "receiver" ->
                          [peer EXCEPT !.confirm = IF Rcv \in peer.attached THEN @ \cup IDsOf(fr) ELSE @]
                    [] fr.type = "flow" ->
                          [peer EXCEPT !.outWindow = (fr.nextIncomingID + fr.window - peer.nextOut) % M]
                    [] fr.type = "end" -> [peer EXCEPT !.endReceived = TRUE, !.ended = TRUE]
                    [] OTHER -> peer
      BY Zenon DEF PeerReads
    <2> HIDE DEF fr
    <2> QED
      BY Zenon, <2>1 DEF PeerCounts, Shapes
  <1>2. NoGrant
    BY Zenon, NoGrantFrames DEF PeerReads, NoGrant
  <1>3. toPeer # << >> /\ toPeer' = Tail(toPeer) /\ UNCHANGED << mux, connDone >>
    BY Zenon DEF PeerReads
  <1> QED
    BY Zenon, <1>1, <1>2, <1>3 DEF Quiet, MuxCounts, MuxAt, NoTransfer

\* It reads a transfer.
LEMMA PeerReadsTransfer ==
    ASSUME Shapes, PeerReads, Head(toPeer).type = "transfer"
    PROVE  /\ toPeer # << >> /\ toPeer' = Tail(toPeer) /\ UNCHANGED << mux, rxQ, connDone >> /\ ~connDone
           /\ DOMAIN peer' = DOMAIN peer /\ peer'.next = Inc(peer.next) /\ peer'.window = peer.window - 1
  <1> DEFINE fr == Head(toPeer)
             counted == [peer EXCEPT !.next = (@ + 1) % M, !.window = @ - 1]
  <1>1. /\ toPeer # << >> /\ toPeer' = Tail(toPeer) /\ UNCHANGED << mux, rxQ, connDone >> /\ ~connDone
    BY Zenon DEF PeerReads
  <1>2. peer' = PeerTransferred(fr)
    BY Zenon DEF PeerReads
  <1>3. DOMAIN counted = DOMAIN peer /\ counted.next = (peer.next + 1) % M /\ counted.window = peer.window - 1
    BY Zenon DEF Shapes
  <1>4. \/ peer' = counted
        \/ \E p : peer' = [counted EXCEPT !.partial = p]
        \/ \E p, u : peer' = [counted EXCEPT !.partial = p, !.unsettled = u]
    <2> HIDE DEF fr
    <2> QED
      BY Zenon, <1>2 DEF PeerTransferred
  <1> HIDE DEF counted
  <1>5. DOMAIN peer' = DOMAIN peer /\ peer'.next = counted.next /\ peer'.window = counted.window
    BY Zenon, <1>3, <1>4 DEF Shapes
  <1> QED
    BY Zenon, <1>1, <1>3, <1>5, IncIs DEF Shapes

\* A transfer is written.
LEMMA WritesIs ==
    ASSUME Shapes, ConnWrites
    PROVE  /\ mux.at = "writing" /\ mux'.at = "written" /\ MuxCounts
           /\ UNCHANGED << rxQ, peer, connDone >>
           /\ \E x : x.type = "transfer" /\ toPeer' = Append(toPeer, x)
  <1>1. /\ mux.at = "writing" /\ mux'.at = "written" /\ MuxCounts
    BY Zenon DEF ConnWrites, MuxCounts, Shapes
  <1> DEFINE send == app[mux.env]
             x    == Transfer(mux.env, mux.id, send.first, send.more, send.settled /\ ~send.more, send.message)
  <1>2. x.type = "transfer"
    BY Zenon DEF Transfer
  <1>3. toPeer' = Append(toPeer, x) /\ UNCHANGED << rxQ, peer, connDone >>
    BY Zenon DEF ConnWrites
  <1> HIDE DEF x
  <1> QED
    BY Zenon, <1>1, <1>2, <1>3

\* The mux counts it.
LEMMA TransferredIs ==
    ASSUME Shapes, MuxTransferred
    PROVE  /\ mux.at = "written" /\ mux'.at = "loop" /\ DOMAIN mux' = DOMAIN mux
           /\ mux'.nextOutgoingID = Inc(mux.nextOutgoingID)
           /\ mux'.remoteIncomingWindow = IF mux.remoteIncomingWindow # 0 THEN mux.remoteIncomingWindow - 1
                                          ELSE mux.remoteIncomingWindow
           /\ UNCHANGED << toPeer, rxQ, peer, connDone >>
  <1>1. /\ mux.at = "written" /\ mux'.at = "loop" /\ DOMAIN mux' = DOMAIN mux
        /\ mux'.nextOutgoingID = (mux.nextOutgoingID + 1) % M
        /\ mux'.remoteIncomingWindow = IF mux.remoteIncomingWindow # 0 THEN mux.remoteIncomingWindow - 1
                                       ELSE mux.remoteIncomingWindow
    BY Zenon DEF MuxTransferred, Shapes
  <1> QED
    BY Zenon, <1>1, IncIs DEF MuxTransferred, Shapes

\* A flow is taken over.
LEMMA FlowIs ==
    ASSUME Shapes, MuxFlow, Head(rxQ).nextIncomingID # -1
    PROVE  /\ mux.at = "loop" /\ mux'.at = "loop" /\ DOMAIN mux' = DOMAIN mux
           /\ mux'.nextOutgoingID = mux.nextOutgoingID
           /\ mux'.remoteIncomingWindow = RemoteIncomingWindow(Head(rxQ))
           /\ rxQ # << >> /\ Head(rxQ).type = "flow" /\ rxQ' = Tail(rxQ)
           /\ NoTransfer /\ UNCHANGED << peer, connDone >>
  <1> DEFINE fr    == Head(rxQ)
             after == [mux EXCEPT !.nextIncomingID = fr.nextOutgoingID,
                                  !.remoteIncomingWindow = RemoteIncomingWindow(fr)]
  <1>1. /\ mux.at = "loop" /\ rxQ # << >> /\ fr.type = "flow" /\ rxQ' = Tail(rxQ)
        /\ UNCHANGED << peer, connDone >>
    BY Zenon DEF MuxFlow, Received, Running
  <1>2. \/ Unattached(after)
        \/ mux' = after /\ (Put(<< >>) \/ Put(<< OurFlow(after) >>))
    BY Zenon DEF MuxFlow
  <1>3. /\ DOMAIN after = DOMAIN mux /\ after.at = mux.at /\ after.nextOutgoingID = mux.nextOutgoingID
        /\ after.remoteIncomingWindow = RemoteIncomingWindow(fr)
    BY Zenon DEF Shapes
  <1> HIDE DEF after
  <1>4. mux' = after \/ mux' = CloseWithError(after)
    BY Zenon, <1>2 DEF Unattached
  <1>5. Put(EndOnce) \/ Put(<< >>) \/ Put(<< OurFlow(after) >>)
    BY Zenon, <1>2 DEF Unattached
  <1>6. NoTransfer
    BY Zenon, <1>5, PutNoTransfer DEF Shapes
  <1> QED
    BY Zenon, <1>1, <1>3, <1>4, <1>6, CloseCounts

-----------------------------------------------------------------------------
(* The windows that the peer's flows grant *)

\* What a flow leaves is a number, and is one less once a transfer more is
\* written.
LEMMA RoomIs ==
    ASSUME NEW fr, fr.nextIncomingID \in Ids, fr.window \in 0 .. PeerWindow, NEW n \in Ids
    PROVE  /\ Room(fr, n) \in Int /\ Room(fr, n) <= fr.window
           /\ 1 <= Room(fr, n) => Room(fr, Inc(n)) = Room(fr, n) - 1
           /\ 0 <= Room(fr, n) => (fr.window - n + fr.nextIncomingID) % M = Room(fr, n)
  <1>1. /\ Dist(n, fr.nextIncomingID) \in Ids
        /\ Dist(n, fr.nextIncomingID) + 1 < M =>
              Dist(Inc(n), fr.nextIncomingID) = Dist(n, fr.nextIncomingID) + 1
        /\ \A w \in Ids : Dist(n, fr.nextIncomingID) <= w =>
              (w - n + fr.nextIncomingID) % M = w - Dist(n, fr.nextIncomingID)
    BY Zenon, DistIs
  <1>2. M \in Nat /\ PeerWindow \in Nat /\ PeerWindow < M
    BY Zenon, Sizes
  <1>3. fr.window \in Ids /\ fr.window \in Int /\ fr.window < M
    BY <1>2 DEF Ids
  <1> DEFINE d == Dist(n, fr.nextIncomingID)
             e == Dist(Inc(n), fr.nextIncomingID)
             r == (fr.window - n + fr.nextIncomingID) % M
             w == fr.window
  <1>a. \A x \in Ids : x \in Int /\ 0 <= x
    BY <1>2 DEF Ids
  <1>4. /\ d \in Int /\ 0 <= d /\ (d + 1 < M => e = d + 1) /\ (d <= w => r = w - d)
    BY Zenon, <1>1, <1>3, <1>a
  <1>5. w \in Int /\ w < M /\ M \in Int
    BY <1>2, <1>3
  <1>6. Room(fr, n) = w - d /\ Room(fr, Inc(n)) = w - e
    BY Zenon DEF Room
  <1> HIDE DEF d, e, r, w
  <1>7. /\ w - d \in Int /\ w - d <= w
        /\ 1 <= w - d => w - e = (w - d) - 1
        /\ 0 <= w - d => r = w - d
    BY <1>4, <1>5
  <1> QED
    BY Zenon, <1>6, <1>7 DEF r, w

\* The flows of a queue, of which the first frame is read or to which one is
\* added.
LEMMA FlowsAre ==
    ASSUME NEW q, IsSeq(q), Flows(q)
    PROVE  /\ q # << >> => Flows(Tail(q))
           /\ \A fr : (Grants(fr) => fr.nextIncomingID \in Ids /\ fr.window \in 0 .. PeerWindow)
                          => Flows(Append(q, fr))
  <1>1. ASSUME q # << >> PROVE Flows(Tail(q))
    <2>1. \A i \in DOMAIN Tail(q) : i + 1 \in DOMAIN q /\ Tail(q)[i] = q[i + 1]
      BY Zenon, <1>1, TailIs
    <2> QED
      BY Zenon, <2>1 DEF Flows
  <1>2. ASSUME NEW fr, Grants(fr) => fr.nextIncomingID \in Ids /\ fr.window \in 0 .. PeerWindow
        PROVE  Flows(Append(q, fr))
    <2> DEFINE a == Append(q, fr)
    <2>1. /\ DOMAIN a = DOMAIN q \cup {Len(q) + 1}
          /\ \A i \in DOMAIN q : a[i] = q[i]
          /\ a[Len(q) + 1] = fr
      BY Zenon, AppendIs
    <2> HIDE DEF a
    <2>2. Flows(a)
      BY Zenon, <1>2, <2>1 DEF Flows
    <2> QED
      BY Zenon, <2>2 DEF a
  <1> QED
    BY Zenon, <1>1, <1>2

\* A flow is read, or another frame is.
LEMMA GrantTail ==
    ASSUME NEW q, IsSeq(q), q # << >>, NEW n, NEW least, NEW most, GrantInv(q, n, least, most)
    PROVE  /\ GrantInv(Tail(q), n, least, most)
           /\ Grants(q[1]) => GrantInv(Tail(q), n, Room(q[1], n), most)
  <1> DEFINE t == Tail(q)
  <1>1. /\ DOMAIN t = 1 .. (Len(q) - 1) /\ 1 \in DOMAIN q /\ Len(q) \in Nat
        /\ \A i \in DOMAIN t : i + 1 \in DOMAIN q /\ t[i] = q[i + 1]
    BY Zenon, TailIs, SeqIs
  <1>2. \A i, j \in 1 .. (Len(q) - 1) : 1 <= i + 1 /\ (i <= j => i + 1 <= j + 1)
    BY <1>1
  <1> HIDE DEF t
  <1>3. ASSUME NEW i \in DOMAIN t, Grants(t[i])
        PROVE  /\ least <= Room(t[i], n) /\ Room(t[i], n) <= most
               /\ Grants(q[1]) => Room(q[1], n) <= Room(t[i], n)
    <2>1. i + 1 \in DOMAIN q /\ Grants(q[i + 1]) /\ t[i] = q[i + 1] /\ 1 <= i + 1
      BY Zenon, <1>1, <1>2, <1>3
    <2> QED
      BY Zenon, <2>1, <1>1 DEF GrantInv
  <1>4. ASSUME NEW i \in DOMAIN t, NEW j \in DOMAIN t, i <= j, Grants(t[i]), Grants(t[j])
        PROVE  Room(t[i], n) <= Room(t[j], n)
    <2>1. i + 1 \in DOMAIN q /\ t[i] = q[i + 1] /\ j + 1 \in DOMAIN q /\ t[j] = q[j + 1] /\ i + 1 <= j + 1
      BY Zenon, <1>1, <1>2, <1>4
    <2> QED
      BY Zenon, <2>1, <1>4 DEF GrantInv
  <1>5. GrantInv(t, n, least, most) /\ (Grants(q[1]) => GrantInv(t, n, Room(q[1], n), most))
    BY Zenon, <1>3, <1>4 DEF GrantInv
  <1> QED
    BY Zenon, <1>5 DEF t

\* The peer sends another frame, or grants no less than before.
LEMMA GrantAppend ==
    ASSUME NEW q, IsSeq(q), Flows(q), NEW n \in Ids, NEW least \in Int, NEW most \in Int,
           GrantInv(q, n, least, most),
           NEW fr, NEW grant \in Int, most <= grant, least <= grant,
           Grants(fr) => Room(fr, n) = grant
    PROVE  GrantInv(Append(q, fr), n, least, grant)
  <1> DEFINE a == Append(q, fr)
  <1>1. /\ DOMAIN q = 1 .. Len(q) /\ Len(q) \in Nat
        /\ DOMAIN a = DOMAIN q \cup {Len(q) + 1}
        /\ \A i \in DOMAIN q : a[i] = q[i]
        /\ a[Len(q) + 1] = fr
    BY Zenon, AppendIs, SeqIs
  <1>2. \A i \in DOMAIN q : ~(Len(q) + 1 <= i)
    BY <1>1
  <1>3. \A x, y, z \in Int : x <= y /\ y <= z => x <= z
    OBVIOUS
  <1>4. \A x \in Int : x <= x
    OBVIOUS
  <1> HIDE DEF a
  <1>5. \A i \in DOMAIN q : Grants(q[i]) =>
            /\ least <= Room(q[i], n) /\ Room(q[i], n) <= most
            /\ Room(q[i], n) \in Int
    BY Zenon, RoomIs DEF GrantInv, Flows
  <1>6. \A i \in DOMAIN q : Grants(q[i]) => Room(q[i], n) <= grant
    BY Zenon, <1>3, <1>5
  <1>7. \A i \in DOMAIN a : Grants(a[i]) =>
            /\ least <= Room(a[i], n) /\ Room(a[i], n) <= grant
    BY Zenon, <1>1, <1>4, <1>5, <1>6
  <1>8. ASSUME NEW i \in DOMAIN a, NEW j \in DOMAIN a, i <= j, Grants(a[i]), Grants(a[j])
        PROVE  Room(a[i], n) <= Room(a[j], n)
    <2>1. CASE j \in DOMAIN q
      <3>1. i \in DOMAIN q
        BY Zenon, <1>1, <1>2, <1>8, <2>1
      <3> QED
        BY Zenon, <1>1, <1>8, <2>1, <3>1 DEF GrantInv
    <2>2. CASE j = Len(q) + 1
      BY Zenon, <1>1, <1>7, <1>8, <2>2
    <2> QED
      BY Zenon, <1>1, <2>1, <2>2
  <1>9. GrantInv(a, n, least, grant)
    BY Zenon, <1>7, <1>8 DEF GrantInv
  <1> QED
    BY Zenon, <1>9 DEF a

\* A transfer is written, when there is room for one.
LEMMA GrantInc ==
    ASSUME NEW q, Flows(q), NEW n \in Ids, NEW least \in Int, NEW most \in Int,
           GrantInv(q, n, least, most), 1 <= least
    PROVE  GrantInv(q, Inc(n), least - 1, most - 1)
  <1>1. ASSUME NEW i \in DOMAIN q, Grants(q[i])
        PROVE  /\ Room(q[i], n) \in Int /\ Room(q[i], Inc(n)) = Room(q[i], n) - 1
               /\ least <= Room(q[i], n) /\ Room(q[i], n) <= most
    <2>1. /\ q[i].nextIncomingID \in Ids /\ q[i].window \in 0 .. PeerWindow
          /\ least <= Room(q[i], n) /\ Room(q[i], n) <= most
      BY Zenon, <1>1 DEF GrantInv, Flows
    <2>2. Room(q[i], n) \in Int
      BY Zenon, <2>1, RoomIs
    <2>3. 1 <= Room(q[i], n)
      BY <2>1, <2>2
    <2> QED
      BY Zenon, <2>1, <2>2, <2>3, RoomIs
  <1>2. \A x, y \in Int : x <= y => x - 1 <= y - 1
    OBVIOUS
  <1>3. ASSUME NEW i \in DOMAIN q, NEW j \in DOMAIN q, i <= j, Grants(q[i]), Grants(q[j])
        PROVE  Room(q[i], Inc(n)) <= Room(q[j], Inc(n))
    <2>1. Room(q[i], n) <= Room(q[j], n)
      BY Zenon, <1>3 DEF GrantInv
    <2> QED
      BY Zenon, <1>1, <1>2, <1>3, <2>1
  <1>4. ASSUME NEW i \in DOMAIN q, Grants(q[i])
        PROVE  least - 1 <= Room(q[i], Inc(n)) /\ Room(q[i], Inc(n)) <= most - 1
    BY Zenon, <1>1, <1>2, <1>4
  <1> QED
    BY Zenon, <1>1, <1>3, <1>4 DEF GrantInv

-----------------------------------------------------------------------------
(* The peer's window is respected *)

\* The counts are numbers.
LEMMA CountsAre ==
    ASSUME Shapes
    PROVE  /\ Flying \in Nat /\ NextNumber \in Ids /\ MayWrite \in Int
           /\ peer.window \in Int /\ peer.window - Flying \in Int
           /\ IsSeq(toPeer) /\ IsSeq(rxQ) /\ Flows(rxQ) /\ peer.next \in Ids
  <1>1. Flying \in Nat
    BY Zenon, InFlightFinite DEF Shapes, Flying
  <1>2. NextNumber \in Ids
    BY Zenon, IncIs DEF Shapes, NextNumber
  <1>3. MayWrite \in Int
    <2>1. mux.remoteIncomingWindow \in Nat
      BY Zenon DEF Shapes
    <2>2. mux.remoteIncomingWindow \in Int /\ mux.remoteIncomingWindow - 1 \in Int
      BY <2>1
    <2> QED
      BY Zenon, <2>2 DEF MayWrite
  <1>4. peer.window \in Nat
    BY Zenon DEF Shapes
  <1>5. peer.window \in Int /\ peer.window - Flying \in Int
    BY <1>1, <1>4
  <1> QED
    BY Zenon, <1>1, <1>2, <1>3, <1>5 DEF Shapes

\* Nothing counted is written or read.
LEMMA NoTransferKeeps ==
    ASSUME IsSeq(toPeer), NoTransfer
    PROVE  IsSeq(toPeer') /\ Flying' = Flying
  <1>1. CASE toPeer' = toPeer
    BY Zenon, <1>1 DEF Flying
  <1>2. ASSUME NEW x, x.type # "transfer", toPeer' = Append(toPeer, x) PROVE IsSeq(toPeer') /\ Flying' = Flying
    <2>1. IsSeq(Append(toPeer, x))
      BY Zenon, AppendIs
    <2>2. Cardinality(InFlight(Append(toPeer, x))) = Cardinality(InFlight(toPeer))
      BY Zenon, <1>2, InFlightAppend
    <2> QED
      BY Zenon, <1>2, <2>1, <2>2 DEF Flying
  <1>3. ASSUME toPeer # << >>, Head(toPeer).type # "transfer", toPeer' = Tail(toPeer)
        PROVE  IsSeq(toPeer') /\ Flying' = Flying
    <2>1. IsSeq(Tail(toPeer)) /\ Head(toPeer) = toPeer[1]
      BY Zenon, <1>3, TailIs
    <2>2. Cardinality(InFlight(Tail(toPeer))) = Cardinality(InFlight(toPeer))
      BY Zenon, <1>3, <2>1, InFlightTail
    <2> QED
      BY Zenon, <1>3, <2>1, <2>2 DEF Flying
  <1> QED
    BY Zenon, <1>1, <1>2, <1>3 DEF NoTransfer

\* A step that is not about the window.
LEMMA QuietKeepsWindow ==
    ASSUME Shapes, WindowInv, Quiet
    PROVE  Shapes' /\ WindowInv'
  <1>0. /\ Flying \in Nat /\ NextNumber \in Ids /\ MayWrite \in Int
        /\ peer.window \in Int /\ peer.window - Flying \in Int
        /\ IsSeq(toPeer) /\ IsSeq(rxQ) /\ Flows(rxQ)
    BY Zenon, CountsAre
  <1>1. IsSeq(toPeer') /\ Flying' = Flying
    BY Zenon, <1>0, NoTransferKeeps DEF Quiet
  <1>2. IsSeq(rxQ') /\ Flows(rxQ')
    <2>1. ASSUME NEW fr, ~Grants(fr) PROVE IsSeq(Append(rxQ, fr)) /\ Flows(Append(rxQ, fr))
      BY Zenon, <1>0, <2>1, AppendIs, FlowsAre
    <2>2. rxQ # << >> => IsSeq(Tail(rxQ)) /\ Flows(Tail(rxQ))
      BY Zenon, <1>0, TailIs, FlowsAre
    <2> QED
      BY Zenon, <1>0, <2>1, <2>2 DEF Quiet, NoGrant
  <1>3. Shapes'
    BY Zenon, <1>1, <1>2 DEF Shapes, Quiet, MuxCounts, PeerCounts
  <1>4. peer'.window = peer.window /\ peer'.next = peer.next
    BY Zenon DEF Quiet, PeerCounts
  <1>5. ASSUME ~connDone'
        PROVE  /\ Dist(NextNumber', peer'.next) = Flying'
               /\ 0 <= MayWrite' /\ MayWrite' <= peer'.window - Flying'
               /\ mux'.at = "writing" => 1 <= MayWrite'
               /\ GrantInv(rxQ', NextNumber', MayWrite', peer'.window - Flying')
    <2>1. ~connDone
      BY Zenon, <1>5 DEF Quiet
    <2>2. \/ mux'.at = mux.at
          \/ mux.at \in {"loop", "writing"} /\ mux'.at \in {"loop", "exited"}
          \/ mux.at = "loop" /\ mux'.at = "writing" /\ mux.remoteIncomingWindow # 0
      BY Zenon, <1>5 DEF Quiet, MuxAt
    <2>3. NextNumber' = NextNumber /\ MayWrite' = MayWrite
      BY Zenon, <2>2 DEF NextNumber, MayWrite, Quiet, MuxCounts
    <2>4. mux'.at = "writing" => 1 <= MayWrite
      <3>1. mux.at = "loop" /\ mux.remoteIncomingWindow # 0 => 1 <= MayWrite
        <4>1. \A n \in Nat : n # 0 => 1 <= n
          OBVIOUS
        <4> QED
          BY Zenon, <4>1 DEF MayWrite, Shapes
      <3> QED
        BY Zenon, <2>1, <2>2, <3>1 DEF WindowInv
    <2>5. GrantInv(rxQ, NextNumber, MayWrite, peer.window - Flying) /\ MayWrite <= peer.window - Flying
      BY Zenon, <2>1 DEF WindowInv
    <2>6. peer.window - Flying <= peer.window - Flying
      BY <1>0
    <2>7. GrantInv(rxQ', NextNumber, MayWrite, peer.window - Flying)
      BY Zenon, <1>0, <2>5, <2>6, GrantTail, GrantAppend DEF Quiet, NoGrant
    <2> QED
      BY Zenon, <1>1, <1>4, <2>1, <2>3, <2>4, <2>7 DEF WindowInv
  <1> QED
    BY Zenon, <1>1, <1>3, <1>4, <1>5 DEF WindowInv

\* connWriter writes a transfer: one more is on its way, and one fewer may be
\* written.
LEMMA WriteKeepsWindow ==
    ASSUME Shapes, WindowInv, ConnWrites
    PROVE  Shapes' /\ WindowInv'
  <1>0. /\ Flying \in Nat /\ NextNumber \in Ids /\ MayWrite \in Int
        /\ peer.window \in Int /\ peer.window - Flying \in Int
        /\ IsSeq(toPeer) /\ IsSeq(rxQ) /\ Flows(rxQ) /\ peer.next \in Ids
    BY Zenon, CountsAre
  <1>1. /\ mux.at = "writing" /\ mux'.at = "written" /\ MuxCounts
        /\ UNCHANGED << rxQ, peer, connDone >>
        /\ IsSeq(toPeer') /\ Flying' = Flying + 1
    <2>1. PICK x : x.type = "transfer" /\ toPeer' = Append(toPeer, x)
      BY Zenon, WritesIs
    <2>2. IsSeq(Append(toPeer, x))
      BY Zenon, <1>0, AppendIs
    <2>3. Cardinality(InFlight(Append(toPeer, x))) = Cardinality(InFlight(toPeer)) + 1
      BY Zenon, <1>0, <2>1, InFlightAppend
    <2> QED
      BY Zenon, <2>1, <2>2, <2>3, WritesIs DEF Flying
  <1>2. Shapes'
    BY Zenon, <1>1 DEF Shapes, MuxCounts
  <1>3. ~connDone
    BY Zenon DEF ConnWrites
  <1>4. /\ NextNumber = mux.nextOutgoingID /\ NextNumber' = Inc(NextNumber)
        /\ MayWrite' = MayWrite - 1
    BY Zenon, <1>1 DEF NextNumber, MayWrite, MuxCounts
  <1>5. /\ Dist(NextNumber, peer.next) = Flying
        /\ MayWrite <= peer.window - Flying /\ 1 <= MayWrite /\ peer.window <= PeerWindow
        /\ GrantInv(rxQ, NextNumber, MayWrite, peer.window - Flying)
    BY Zenon, <1>1, <1>3 DEF WindowInv
  <1>6. /\ Flying + 1 <= peer.window /\ Flying + 1 < M
        /\ 0 <= MayWrite - 1 /\ MayWrite - 1 <= peer.window - (Flying + 1)
        /\ peer.window - (Flying + 1) = (peer.window - Flying) - 1
    BY <1>0, <1>5, Sizes
  <1>7. Dist(Inc(NextNumber), peer.next) = Flying + 1
    BY Zenon, <1>0, <1>5, <1>6, DistIs
  <1>8. GrantInv(rxQ, Inc(NextNumber), MayWrite - 1, (peer.window - Flying) - 1)
    BY Zenon, <1>0, <1>5, GrantInc
  <1> QED
    BY Zenon, <1>1, <1>2, <1>4, <1>5, <1>6, <1>7, <1>8 DEF WindowInv

\* The mux counts a transfer that was written.
LEMMA TransferredKeepsWindow ==
    ASSUME Shapes, WindowInv, MuxTransferred
    PROVE  Shapes' /\ WindowInv'
  <1>1. /\ mux.at = "written" /\ mux'.at = "loop" /\ DOMAIN mux' = DOMAIN mux
        /\ mux'.nextOutgoingID = Inc(mux.nextOutgoingID)
        /\ mux'.remoteIncomingWindow = IF mux.remoteIncomingWindow # 0 THEN mux.remoteIncomingWindow - 1
                                       ELSE mux.remoteIncomingWindow
        /\ UNCHANGED << toPeer, rxQ, peer, connDone >>
    BY Zenon, TransferredIs
  <1>2. mux.remoteIncomingWindow \in Nat /\ mux.nextOutgoingID \in Ids
    BY Zenon DEF Shapes
  <1>3. \A n \in Nat : (n # 0 => n - 1 \in Nat) /\ (0 <= n - 1 => n # 0)
    OBVIOUS
  <1>4. mux'.remoteIncomingWindow \in Nat /\ mux'.nextOutgoingID \in Ids
    BY Zenon, <1>1, <1>2, <1>3, IncIs
  <1>5. Shapes' /\ Flying' = Flying
    BY Zenon, <1>1, <1>4 DEF Shapes, Flying
  <1>6. NextNumber' = NextNumber
    BY Zenon, <1>1 DEF NextNumber
  <1>7. ~connDone => MayWrite' = MayWrite
    <2>1. ~connDone => 0 <= mux.remoteIncomingWindow - 1
      BY Zenon, <1>1 DEF WindowInv, MayWrite
    <2>2. ~connDone => mux.remoteIncomingWindow # 0
      BY Zenon, <1>2, <1>3, <2>1
    <2> QED
      BY Zenon, <1>1, <2>2 DEF MayWrite
  <1> QED
    BY Zenon, <1>1, <1>5, <1>6, <1>7 DEF WindowInv

\* The mux takes over a window: what it computes, modulo M, is what the flow
\* leaves.
LEMMA FlowKeepsWindow ==
    ASSUME Shapes, WindowInv, MuxFlow, Head(rxQ).nextIncomingID # -1
    PROVE  Shapes' /\ WindowInv'
  <1> DEFINE fr == Head(rxQ)
  <1>0. /\ Flying \in Nat /\ NextNumber \in Ids /\ MayWrite \in Int
        /\ peer.window \in Int /\ peer.window - Flying \in Int
        /\ IsSeq(toPeer) /\ IsSeq(rxQ) /\ Flows(rxQ)
    BY Zenon, CountsAre
  <1>1. /\ mux.at = "loop" /\ mux'.at = "loop" /\ DOMAIN mux' = DOMAIN mux
        /\ mux'.nextOutgoingID = mux.nextOutgoingID
        /\ mux'.remoteIncomingWindow = RemoteIncomingWindow(fr)
        /\ rxQ # << >> /\ fr.type = "flow" /\ rxQ' = Tail(rxQ)
        /\ NoTransfer /\ UNCHANGED << peer, connDone >>
    BY Zenon, FlowIs
  <1>2. IsSeq(toPeer') /\ Flying' = Flying
    BY Zenon, <1>0, <1>1, NoTransferKeeps
  <1>3. Head(rxQ) = rxQ[1] /\ 1 \in DOMAIN rxQ /\ IsSeq(rxQ') /\ Flows(rxQ')
    BY Zenon, <1>0, <1>1, TailIs, FlowsAre
  <1>4. Grants(rxQ[1])
    BY Zenon, <1>1, <1>3 DEF Grants
  <1>5. rxQ[1].nextIncomingID \in Ids /\ rxQ[1].window \in 0 .. PeerWindow
    BY Zenon, <1>0, <1>3, <1>4 DEF Flows
  <1>6. Shapes'
    <2>1. mux.nextOutgoingID \in Ids
      BY Zenon DEF Shapes
    <2>2. RemoteIncomingWindow(fr) \in Nat
      BY <1>3, <1>5, <2>1, Sizes DEF RemoteIncomingWindow, Ids
    <2> QED
      BY Zenon, <1>1, <1>2, <1>3, <2>2 DEF Shapes
  <1>7. NextNumber' = NextNumber /\ NextNumber = mux.nextOutgoingID /\ mux'.at # "writing"
    BY Zenon, <1>1 DEF NextNumber
  <1> DEFINE room == Room(rxQ[1], NextNumber)
  <1>8. ASSUME ~connDone
        PROVE  0 <= room /\ room <= peer.window - Flying /\ MayWrite' = room
               /\ GrantInv(rxQ', NextNumber, room, peer.window - Flying)
    <2>1. GrantInv(rxQ, NextNumber, MayWrite, peer.window - Flying) /\ 0 <= MayWrite
      BY Zenon, <1>8 DEF WindowInv
    <2>2. MayWrite <= room /\ room <= peer.window - Flying
      BY Zenon, <1>3, <1>4, <2>1 DEF GrantInv
    <2>3. room \in Int
      BY Zenon, <1>0, <1>5, RoomIs
    <2>4. 0 <= room
      <3> HIDE DEF room
      <3> QED
        BY <1>0, <2>1, <2>2, <2>3
    <2>5. (rxQ[1].window - NextNumber + rxQ[1].nextIncomingID) % M = room
      BY Zenon, <1>0, <1>5, <2>4, RoomIs
    <2>6. MayWrite' = room
      BY Zenon, <1>1, <1>3, <1>7, <2>5 DEF RemoteIncomingWindow, MayWrite
    <2>7. GrantInv(rxQ', NextNumber, room, peer.window - Flying)
      BY Zenon, <1>0, <1>1, <1>4, <2>1, GrantTail
    <2> QED
      BY Zenon, <2>2, <2>4, <2>6, <2>7
  <1> HIDE DEF room
  <1> QED
    BY Zenon, <1>1, <1>2, <1>6, <1>7, <1>8 DEF WindowInv

\* The peer reads a transfer.
LEMMA ReadKeepsWindow ==
    ASSUME Shapes, WindowInv, PeerReads, Head(toPeer).type = "transfer"
    PROVE  Shapes' /\ WindowInv'
  <1>0. /\ Flying \in Nat /\ NextNumber \in Ids /\ MayWrite \in Int
        /\ peer.window \in Int /\ peer.window - Flying \in Int
        /\ IsSeq(toPeer) /\ IsSeq(rxQ) /\ Flows(rxQ) /\ peer.next \in Ids
    BY Zenon, CountsAre
  <1>1. /\ toPeer # << >> /\ toPeer' = Tail(toPeer) /\ UNCHANGED << mux, rxQ, connDone >> /\ ~connDone
        /\ DOMAIN peer' = DOMAIN peer /\ peer'.next = Inc(peer.next) /\ peer'.window = peer.window - 1
    BY Zenon, PeerReadsTransfer
  <1>2. IsSeq(toPeer') /\ Head(toPeer) = toPeer[1]
    BY Zenon, <1>0, <1>1, TailIs
  <1>3. Flying > 0 /\ Flying' = Flying - 1
    BY Zenon, <1>0, <1>1, <1>2, InFlightTail DEF Flying
  <1>4. Flying <= peer.window /\ peer.window <= PeerWindow
    BY Zenon DEF WindowInv
  <1>5. /\ peer.window - 1 \in Nat /\ Flying - 1 <= peer.window - 1 /\ peer.window - 1 <= PeerWindow
        /\ (peer.window - 1) - (Flying - 1) = peer.window - Flying
    BY <1>0, <1>3, <1>4, Sizes
  <1>6. Inc(peer.next) \in Ids
    BY Zenon, <1>0, IncIs
  <1>7. Shapes'
    BY Zenon, <1>1, <1>2, <1>5, <1>6 DEF Shapes
  <1>8. Dist(NextNumber, peer.next) = Flying
    BY Zenon, <1>1 DEF WindowInv
  <1>9. Dist(NextNumber, Inc(peer.next)) = Flying - 1
    BY Zenon, <1>0, <1>3, <1>8, DistIs
  <1>10. NextNumber' = NextNumber /\ MayWrite' = MayWrite
    BY Zenon, <1>1 DEF NextNumber, MayWrite
  <1> QED
    BY Zenon, <1>1, <1>3, <1>5, <1>7, <1>9, <1>10 DEF WindowInv

\* The peer grants a window.
LEMMA GrantKeepsWindow ==
    ASSUME Shapes, WindowInv, NEW w, NEW fr, Granting(w, fr)
    PROVE  Shapes' /\ WindowInv'
  <1>0. /\ Flying \in Nat /\ NextNumber \in Ids /\ MayWrite \in Int
        /\ peer.window \in Int /\ peer.window - Flying \in Int
        /\ IsSeq(toPeer) /\ IsSeq(rxQ) /\ Flows(rxQ) /\ peer.next \in Ids
    BY Zenon, CountsAre
  <1>1. /\ w \in peer.window .. PeerWindow
        /\ DOMAIN peer' = DOMAIN peer /\ peer'.next = peer.next /\ peer'.window = w
        /\ fr.nextIncomingID = peer.next /\ fr.window = w
        /\ rxQ' = Append(rxQ, fr) /\ UNCHANGED << mux, toPeer, connDone >> /\ ~connDone
    BY Zenon DEF Granting
  <1>2. /\ Flying <= peer.window /\ peer.window <= PeerWindow
        /\ Dist(NextNumber, peer.next) = Flying
        /\ MayWrite <= peer.window - Flying
        /\ GrantInv(rxQ, NextNumber, MayWrite, peer.window - Flying)
    BY Zenon, <1>1 DEF WindowInv
  <1>3. /\ w \in Int /\ w \in Nat /\ w \in 0 .. PeerWindow /\ w - Flying \in Int
        /\ Flying <= w /\ w <= PeerWindow
        /\ peer.window - Flying <= w - Flying /\ MayWrite <= w - Flying
    BY <1>0, <1>1, <1>2, Sizes
  <1>4. Room(fr, NextNumber) = w - Flying
    BY Zenon, <1>1, <1>2 DEF Room
  <1>5. GrantInv(Append(rxQ, fr), NextNumber, MayWrite, w - Flying)
    BY Zenon, <1>0, <1>1, <1>2, <1>3, <1>4, GrantAppend
  <1>6. IsSeq(rxQ') /\ Flows(rxQ')
    BY Zenon, <1>0, <1>1, <1>3, AppendIs, FlowsAre
  <1>7. Shapes'
    BY Zenon, <1>1, <1>3, <1>6 DEF Shapes
  <1>8. NextNumber' = NextNumber /\ MayWrite' = MayWrite /\ Flying' = Flying
    BY Zenon, <1>1 DEF NextNumber, MayWrite, Flying
  <1> QED
    BY Zenon, <1>1, <1>2, <1>3, <1>5, <1>7, <1>8 DEF WindowInv

\* The peer's window is not used yet.
LEMMA InitWindow ==
    ASSUME Init
    PROVE  Shapes /\ WindowInv
  <1>1. IsSeq(<< >>) /\ DOMAIN << >> = {}
    <2>1. << >> \in Seq(Range(<< >>)) /\ DOMAIN << >> = {}
      BY DEF Range
    <2> QED
      BY Zenon, <2>1 DEF IsSeq
  <1>2. Flows(<< >>) /\ InFlight(<< >>) = {} /\ \A n, a, b : GrantInv(<< >>, n, a, b)
    BY Zenon, <1>1 DEF Flows, InFlight, GrantInv
  <1>3. /\ DOMAIN mux = {"at", "env", "id", "linkFromInputHandle", "inputHandleFromDeliveryID",
                         "inputHandleFromRemoteDeliveryID", "deliveryIDFromOutputHandle",
                         "settlementFromDeliveryID", "nextDeliveryID", "nextOutgoingID", "nextIncomingID",
                         "remoteIncomingWindow", "needFlowCount", "closeInProgress", "doneErr"}
        /\ mux.at = "loop" /\ mux.nextOutgoingID = 0 /\ mux.remoteIncomingWindow = PeerWindow
    BY Zenon DEF Init
  <1>4. /\ DOMAIN peer = {"next", "window", "nextOut", "outWindow", "flows", "partial", "unsettled",
                          "disposed", "answered", "confirm", "attached", "erred", "endReceived", "ended"}
        /\ peer.next = 0 /\ peer.window = PeerWindow
    BY Zenon DEF Init
  <1>5. toPeer = << >> /\ rxQ = << >>
    BY Zenon DEF Init
  <1>6. Flying = 0
    BY Zenon, <1>2, <1>5, FS_EmptySet DEF Flying
  <1>7. NextNumber = 0 /\ MayWrite = PeerWindow /\ mux.at # "writing"
    BY Zenon, <1>3 DEF NextNumber, MayWrite
  <1>8. /\ 0 \in Ids /\ PeerWindow \in Nat /\ Dist(0, 0) = 0
        /\ 0 <= PeerWindow /\ PeerWindow <= PeerWindow /\ PeerWindow - 0 = PeerWindow
    BY Sizes DEF Ids, Dist
  <1>9. Shapes
    BY Zenon, <1>1, <1>2, <1>3, <1>4, <1>5, <1>8 DEF Shapes
  <1> QED
    BY Zenon, <1>2, <1>4, <1>5, <1>6, <1>7, <1>8, <1>9 DEF WindowInv

\* Every step keeps the counts.
LEMMA NextKeepsWindow ==
    ASSUME Shapes, WindowInv, [Next]_vars
    PROVE  Shapes' /\ WindowInv'
  <1>1. CASE \/ \E l \in Senders : MuxTransfer(l)
             \/ MuxDisposition \/ MuxIncoming \/ MuxDetach \/ MuxEnd \/ MuxUnexpected
             \/ MuxClose \/ MuxConnDone
             \/ MuxFlow /\ Head(rxQ).nextIncomingID = -1
    BY Zenon, <1>1, MuxQuiet, QuietKeepsWindow
  <1>2. CASE MuxFlow /\ Head(rxQ).nextIncomingID # -1
    BY Zenon, <1>2, FlowKeepsWindow
  <1>3. CASE MuxTransferred
    BY Zenon, <1>3, TransferredKeepsWindow
  <1>4. CASE \/ App \/ ConnRefuses \/ ConnFails \/ UNCHANGED vars
             \/ \E l \in Links : Link(l)
    BY Zenon, <1>4, OthersQuiet, QuietKeepsWindow
  <1>5. CASE ConnWrites
    BY Zenon, <1>5, WriteKeepsWindow
  <1>6. CASE PeerReads
    BY Zenon, <1>6, PeerReadsQuiet, QuietKeepsWindow, ReadKeepsWindow
  <1>7. CASE \/ PeerDisposes \/ PeerTransfers \/ PeerConfirms \/ PeerEnds
             \/ \E l \in Detachable : PeerDetaches(l)
    BY Zenon, <1>7, PeersQuiet, QuietKeepsWindow
  <1>8. CASE PeerFlow \/ PeerOpensWindow \/ PeerErrs
    <2>1. peer.window <= PeerWindow
      BY Zenon DEF WindowInv
    <2> QED
      BY Zenon, <1>8, <2>1, PeerGrantsOrQuiet, QuietKeepsWindow, GrantKeepsWindow DEF PeerGrants
  <1> QED
    BY Zenon, <1>1, <1>2, <1>3, <1>4, <1>5, <1>6, <1>7, <1>8 DEF Next, Mux, Peer

\* The transfers on their way never exceed the peer's incoming window, whatever
\* order its flows and our transfers cross in (the accounting of
\* remoteIncomingWindow and nextOutgoingID in Session.mux, modulo M).
THEOREM WindowIsRespected == Spec => []WindowRespected
  <1>1. Init => Shapes /\ WindowInv
    BY Zenon, InitWindow
  <1>2. (Shapes /\ WindowInv) /\ [Next]_vars => (Shapes /\ WindowInv)'
    BY Zenon, NextKeepsWindow
  <1>3. Shapes /\ WindowInv => WindowRespected
    BY Zenon DEF WindowInv, WindowRespected, Flying, InFlight
  <1> QED
    BY <1>1, <1>2, <1>3, PTL DEF Spec

\* While the connection is up, the mux may write no more than the peer still
\* has room for: remoteIncomingWindow, less the transfer just written, is at
\* most the peer's window less what is on its way, and never negative.
THEOREM WindowIsKnown ==
    Spec => [](~connDone => 0 <= MayWrite /\ MayWrite <= peer.window - Flying)
  <1>1. Init => Shapes /\ WindowInv
    BY Zenon, InitWindow
  <1>2. (Shapes /\ WindowInv) /\ [Next]_vars => (Shapes /\ WindowInv)'
    BY Zenon, NextKeepsWindow
  <1>3. Shapes /\ WindowInv => (~connDone => 0 <= MayWrite /\ MayWrite <= peer.window - Flying)
    BY Zenon DEF WindowInv
  <1> QED
    BY <1>1, <1>2, <1>3, PTL DEF Spec
=============================================================================
