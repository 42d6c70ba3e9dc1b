---------------------------- MODULE LinksProofs -----------------------------
(***************************************************************************)
(* The links of one session, for any number of links and handles: handles  *)
(* and keys stay one to one, frames reach the link whose end at the peer   *)
(* sent them, and with a peer that only answers the two sides agree.       *)
(***************************************************************************)
EXTENDS SessionLinks, WellFoundedInduction, TLAPS

Attaches == {"attach", "refuse"}
LinkFrames == [type : Attaches \cup {"detach"}, handle : Handles, link : Links]
AnyFrame == LinkFrames \cup {EndFrame}
Phases == {"new", "free", "allocate", "closing", "attach", "wait", "refused", "open", "mismatch",
           "answer", "ack", "detached", "abandoned", "failed", "gone"}
Early == {"new", "free", "allocate", "closing"}

LinkTypes ==
    /\ phase \in [Links -> Phases] /\ handle \in [Links -> Handles \cup {-1}]
    /\ linkQ \in [Links -> Seq(LinkFrames)]
    /\ linksByKey \subseteq Links /\ sess \in {"open", "ending", "done"}
    /\ linkFromInputHandle \in [Handles -> Links \cup {NoLink}]
    /\ peerLinks \in [Handles -> Links \cup {NoLink}]
    /\ wire \in Seq(AnyFrame) /\ rxQ \in Seq(AnyFrame)
    /\ abandoned \in Seq(Links) /\ freed \in Nat

\* A link is registered by allocateHandle and has a handle ever after.
KeyInv ==
    /\ HandlesAgree
    /\ \A l \in linksByKey : phase[l] \notin Early
    /\ \A l \in Links : phase[l] \notin Early \cup {"failed"} => handle[l] \in Handles
    /\ \A l \in linksByKey : handle[l] \in Handles
    /\ \A i \in 1 .. Len(abandoned) : handle[abandoned[i]] \in Handles

\* Nothing the peer has sent, and no table, names the link yet.
Unknown(l) ==
    /\ \A i \in 1 .. Len(rxQ) : rxQ[i].link # l
    /\ \A h \in Handles : linkFromInputHandle[h] # l /\ peerLinks[h] # l

\* A link whose attach is still to be written.
Unsent ==
    /\ \A l \in Links : phase[l] = "attach" => l \in linksByKey
    /\ \A l \in Links : phase[l] \in Early \cup {"attach"} =>
          Unknown(l) /\ \A i \in 1 .. Len(wire) : wire[i].type = "attach" => wire[i].link # l

\* A link whose attach is on the wire.
OnWire ==
    /\ \A i \in 1 .. Len(wire) : wire[i].type \in {"attach", "detach", "end"}
    /\ \A i \in 1 .. Len(wire) : wire[i].type = "attach" =>
          /\ wire[i].link \in linksByKey /\ wire[i].handle = handle[wire[i].link]
          /\ Unknown(wire[i].link)
    /\ \A i, j \in 1 .. Len(wire) :
          wire[i].type = "attach" /\ wire[j].type = "attach" /\ wire[i].link = wire[j].link => i = j

\* A link whose attach has been answered.
Answered ==
    /\ \A i \in 1 .. Len(rxQ) : rxQ[i].type \in Attaches =>
          /\ rxQ[i].link \in linksByKey /\ rxQ[i].handle = handle[rxQ[i].link]
          /\ \A h \in Handles : linkFromInputHandle[h] # rxQ[i].link
    /\ \A i, j \in 1 .. Len(rxQ) :
          rxQ[i].type \in Attaches /\ rxQ[j].type \in Attaches /\ rxQ[i].link = rxQ[j].link => i = j

\* A link in the session's table.
InTable ==
    \A h \in Handles : linkFromInputHandle[h] # NoLink =>
        linkFromInputHandle[h] \in linksByKey /\ handle[linkFromInputHandle[h]] = h

\* Every link attaches once.
OneAttach == Unsent /\ OnWire /\ Answered /\ InTable

\* What the peer takes the session's table for once all it has sent is read.
Filed == [h \in Handles |-> IF h \in leaving THEN NoLink ELSE peerLinks[h]]

\* What reading a frame does to the session's table.
Files(fr, from, to) ==
    \/ /\ fr.type \in Attaches
       /\ from[fr.handle] = NoLink /\ to = [from EXCEPT ![fr.handle] = fr.link]
    \/ /\ fr.type = "detach"
       /\ from[fr.handle] = fr.link /\ to = [from EXCEPT ![fr.handle] = NoLink]
    \/ fr.type = "end" /\ to = from

Tables == [Handles -> Links \cup {NoLink}]

\* Reading the frames of q, one after the other, leads from one table to another.
Chain(q, from, to) ==
    \E view \in [0 .. Len(q) -> Tables] :
        /\ view[0] = from /\ view[Len(q)] = to
        /\ \A i \in 1 .. Len(q) : Files(q[i], view[i - 1], view[i])

\* The session's table is on its way to the peer's.
CatchesUp == Chain(rxQ, linkFromInputHandle, Filed)

RouteInv ==
    /\ CatchesUp
    /\ \A h \in leaving : h \in Handles /\ peerLinks[h] # NoLink
    /\ FramesReachTheirLink

\* A peer that only answers has registered links alone, and sends a detach after
\* it has removed the link.
QuietInv ==
    peer = "quiet" =>
        /\ leaving = {}
        /\ \A h \in Handles : peerLinks[h] # NoLink =>
              peerLinks[h] \in linksByKey /\ handle[peerLinks[h]] = h
        /\ \A i \in 1 .. Len(rxQ) : rxQ[i].type = "detach" =>
              peerLinks[rxQ[i].handle] # rxQ[i].link

\* The session's end follows the peer's.
EndInv ==
    /\ \A i \in 1 .. Len(rxQ) : rxQ[i].type = "end" => peerEnded
    /\ sess = "done" => peerEnded
    /\ context = "endless" /\ abandoned # <<>> => sess = "done"

\* If besides no context ends, a link detaches once, and after its attach was
\* answered.
DetachOf(l, at, q, known) ==
    /\ at \notin {"refused", "ack", "answer", "abandoned"}
    /\ at \in Early \cup {"attach"} => q = <<>>
    /\ at = "wait" /\ q # <<>> => Len(q) = 1 /\ known = l
    /\ at \in {"open", "mismatch"} => q = <<>> /\ known = l
    /\ \A i \in 1 .. Len(q) : q[i].type # "refuse"

DetachOfLinks == \A l \in Links : DetachOf(l, phase[l], linkQ[l], peerLinks[handle[l]])

DetachOnWire ==
    /\ \A i \in 1 .. Len(wire) : wire[i].type = "attach" =>
          phase[wire[i].link] = "wait" /\ linkQ[wire[i].link] = <<>>
    /\ \A i \in 1 .. Len(wire) : wire[i].type = "detach" =>
          phase[wire[i].link] \in {"detached", "gone"} /\ peerLinks[wire[i].handle] = wire[i].link
    /\ \A i, j \in 1 .. Len(wire) :
          wire[i].type = "detach" /\ wire[j].type = "detach" /\ wire[i].link = wire[j].link => i = j

DetachInRxQ ==
    \A i \in 1 .. Len(rxQ) :
        /\ rxQ[i].type # "refuse"
        /\ rxQ[i].type = "attach" =>
              /\ phase[rxQ[i].link] = "wait" /\ linkQ[rxQ[i].link] = <<>>
              /\ peerLinks[rxQ[i].handle] = rxQ[i].link
        /\ rxQ[i].type = "detach" => phase[rxQ[i].link] \in {"detached", "gone"}

DetachInv ==
    peer = "quiet" /\ context = "endless" /\ ~peerEnded => DetachOfLinks /\ DetachOnWire /\ DetachInRxQ

LinkInv == LinkTypes /\ KeyInv /\ OneAttach /\ RouteInv /\ QuietInv /\ EndInv /\ DetachInv

-----------------------------------------------------------------------------
(* Frames and queues *)

\* A frame that is not an end is that of a link.
LEMMA FrameFields ==
    ASSUME NEW fr \in AnyFrame
    PROVE  /\ fr.type # "end" => /\ fr \in LinkFrames /\ fr.handle \in Handles /\ fr.link \in Links
                                 /\ fr.type \in Attaches \cup {"detach"}
           /\ fr.type = "end" => fr = EndFrame /\ fr.link = NoLink
  BY DEF AnyFrame, LinkFrames, EndFrame, Attaches

\* The frames that a link with a handle writes.
LEMMA OurFrame ==
    ASSUME NEW type \in {"attach", "detach"}, NEW l \in Links, handle[l] \in Handles
    PROVE  /\ Frame(type, l) \in LinkFrames
           /\ Frame(type, l).type = type /\ Frame(type, l).handle = handle[l] /\ Frame(type, l).link = l
  BY Zenon DEF Frame, LinkFrames, Attaches

\* A frame is appended to a queue; the first frame is taken.
More(s, t, fr) ==
    /\ t \in Seq(AnyFrame) /\ Len(t) = Len(s) + 1
    /\ t[Len(s) + 1] = fr /\ \A i \in 1 .. Len(s) : t[i] = s[i]
Less(s, t) ==
    /\ t \in Seq(AnyFrame) /\ Len(s) = Len(t) + 1
    /\ s[1] \in AnyFrame /\ \A i \in 1 .. Len(t) : t[i] = s[i + 1]

\* What Append does, for the queues of frames.
LEMMA Appended ==
    ASSUME NEW s \in Seq(AnyFrame), NEW fr \in AnyFrame
    PROVE  More(s, Append(s, fr), fr)
  BY DEF More

\* A queue a frame is taken from has a first frame.
LEMMA LessFirst ==
    ASSUME NEW s, NEW t, Less(s, t)
    PROVE  1 \in 1 .. Len(s)
  BY DEF Less

\* A queue a frame is appended to has that frame and the ones it had.
LEMMA MoreOld ==
    ASSUME NEW s, NEW t, NEW fr, Len(s) \in Nat, More(s, t, fr)
    PROVE  /\ Len(t) \in Nat /\ Len(s) <= Len(t)
           /\ \A i \in 1 .. Len(s) : t[i] = s[i]
           /\ \A i \in 1 .. Len(t) : (i = Len(s) + 1 /\ t[i] = fr) \/ (i \in 1 .. Len(s) /\ t[i] = s[i])
  BY DEF More

\* A step of one link, or of its queue, leaves the others as they are.
LEMMA OthersDetach ==
    ASSUME DetachOfLinks, NEW l \in Links, UNCHANGED <<handle, peerLinks>>,
           \A k \in Links : k # l => phase'[k] = phase[k] /\ linkQ'[k] = linkQ[k],
           DetachOf(l, phase'[l], linkQ'[l], peerLinks[handle[l]])
    PROVE  DetachOfLinks'
  <1> SUFFICES ASSUME NEW k \in Links PROVE DetachOf(k, phase'[k], linkQ'[k], peerLinks'[handle'[k]])
    BY Zenon DEF DetachOfLinks
  <1>1. peerLinks'[handle'[k]] = peerLinks[handle[k]]
    BY Zenon
  <1>2. CASE k = l
    BY Zenon, <1>1, <1>2
  <1>3. CASE k # l
    BY Zenon, <1>1, <1>3 DEF DetachOfLinks
  <1> QED
    BY Zenon, <1>2, <1>3

\* Two frames are appended one after the other.
LEMMA AppendedTwo ==
    ASSUME NEW s \in Seq(AnyFrame), NEW fr \in AnyFrame, NEW gr \in AnyFrame
    PROVE  \E t : More(s, t, fr) /\ More(t, s \o <<fr, gr>>, gr)
  <1>1. More(s, Append(s, fr), fr) /\ Append(s, fr) \in Seq(AnyFrame)
    BY Appended
  <1>2. More(Append(s, fr), Append(Append(s, fr), gr), gr)
    BY Zenon, <1>1, Appended
  <1>3. Append(Append(s, fr), gr) = s \o <<fr, gr>>
    OBVIOUS
  <1> QED
    BY Zenon, <1>1, <1>2, <1>3

\* What Head and Tail give, for the queues of frames.
LEMMA Taken ==
    ASSUME NEW s \in Seq(AnyFrame), s # <<>>
    PROVE  Less(s, Tail(s)) /\ Head(s) = s[1]
  BY DEF Less

\* The same for a link's queue.
LEMMA TakenByLink ==
    ASSUME NEW s \in Seq(LinkFrames), s # <<>>
    PROVE  Less(s, Tail(s)) /\ Head(s) = s[1]
  <1>1. s \in Seq(AnyFrame)
    BY DEF AnyFrame
  <1> QED
    BY Zenon, <1>1, Taken

-----------------------------------------------------------------------------
(* What the steps that read or write a frame do *)

\* freeAbandonedLinks writes the detach of a link with a handle.
LEMMA FreeOneWrites ==
    ASSUME LinkTypes, KeyInv, NEW l \in Links, FreeOne(l)
    PROVE  \E k \in Links : /\ handle[k] \in Handles /\ abandoned # <<>>
                            /\ More(wire, wire', Frame("detach", k))
  <1> DEFINE k == abandoned[freed + 1]
             fr == Frame("detach", k)
  <1>1. k \in Links /\ handle[k] \in Handles /\ abandoned # <<>>
    BY DEF LinkTypes, KeyInv, FreeOne
  <1>2. fr \in AnyFrame
    BY Zenon, <1>1, OurFrame DEF AnyFrame
  <1>3. wire' = Append(wire, fr) /\ wire \in Seq(AnyFrame)
    BY Zenon DEF FreeOne, Write, LinkTypes
  <1> HIDE DEF fr, k
  <1>4. More(wire, wire', fr)
    BY Zenon, <1>2, <1>3, Appended
  <1> QED
    BY Zenon, <1>1, <1>4 DEF fr

\* An attach is written, or nothing is.
LEMMA SendAttachWrites ==
    ASSUME LinkTypes, KeyInv, NEW l \in Links, SendAttach(l)
    PROVE  /\ handle[l] \in Handles /\ (Goto(l, "wait") \/ Goto(l, "failed"))
           /\ \/ wire' = wire
              \/ More(wire, wire', Frame("attach", l)) /\ Goto(l, "wait")
  <1> DEFINE fr == Frame("attach", l)
  <1>1. handle[l] \in Handles
    BY Zenon DEF SendAttach, KeyInv, Early
  <1>2. fr \in AnyFrame
    BY Zenon, <1>1, OurFrame DEF AnyFrame
  <1>3. wire' = wire \/ (wire' = Append(wire, fr) /\ Goto(l, "wait"))
    BY Zenon DEF SendAttach, Write
  <1>4. Goto(l, "wait") \/ Goto(l, "failed")
    BY Zenon DEF SendAttach
  <1>5. wire \in Seq(AnyFrame)
    BY Zenon DEF LinkTypes
  <1> HIDE DEF fr
  <1>6. wire' = Append(wire, fr) => More(wire, wire', fr)
    BY Zenon, <1>2, <1>5, Appended
  <1> QED
    BY Zenon, <1>1, <1>3, <1>4, <1>6 DEF fr

\* A detach is written while the session is open, or nothing is.
LEMMA SendDetachWrites ==
    ASSUME LinkTypes, KeyInv, NEW l \in Links, SendDetach(l)
    PROVE  /\ handle[l] \in Handles
           /\ \/ Goto(l, "failed") /\ wire' = wire /\ context = "ending"
              \/ /\ Goto(l, IF phase[l] = "open" THEN "detached" ELSE "gone")
                 /\ wire' = wire \/ (sess = "open" /\ More(wire, wire', Frame("detach", l)))
  <1> DEFINE fr == Frame("detach", l)
  <1>1. handle[l] \in Handles
    BY Zenon DEF SendDetach, KeyInv, Early
  <1>2. fr \in AnyFrame
    BY Zenon, <1>1, OurFrame DEF AnyFrame
  <1>3. \/ Goto(l, "failed") /\ wire' = wire /\ context = "ending"
        \/ /\ Goto(l, IF phase[l] = "open" THEN "detached" ELSE "gone")
           /\ wire' = wire \/ (sess = "open" /\ wire' = Append(wire, fr))
    BY Zenon DEF SendDetach, Write
  <1>4. wire \in Seq(AnyFrame)
    BY Zenon DEF LinkTypes
  <1> HIDE DEF fr
  <1>5. wire' = Append(wire, fr) => More(wire, wire', fr)
    BY Zenon, <1>2, <1>4, Appended
  <1> QED
    BY Zenon, <1>1, <1>3, <1>5 DEF fr

\* The end of the session goes to the wire.
LEMMA EndIsWritten ==
    ASSUME LinkTypes, wire' = Append(wire, EndFrame)
    PROVE  More(wire, wire', EndFrame) /\ EndFrame.type = "end" /\ EndFrame.link = NoLink
  <1>1. EndFrame \in AnyFrame /\ wire \in Seq(AnyFrame)
    BY Zenon DEF AnyFrame, LinkTypes
  <1>2. More(wire, wire', EndFrame)
    BY Zenon, <1>1, Appended
  <1> QED
    BY Zenon, <1>2 DEF EndFrame

\* The frame of a received attach is that of a registered link, found by its name.
LEMMA RxAttachFinds ==
    ASSUME LinkTypes, KeyInv, OneAttach, RxAttach
    PROVE  LET fr == rxQ[1]
           IN  /\ Less(rxQ, rxQ') /\ fr \in LinkFrames /\ fr.type \in Attaches
               /\ fr.link \in linksByKey /\ fr.handle = handle[fr.link] /\ fr.handle \in Handles
               /\ linkFromInputHandle' = [linkFromInputHandle EXCEPT ![fr.handle] = fr.link]
               /\ linkQ' = [linkQ EXCEPT ![fr.link] = Append(@, fr)]
               /\ UNCHANGED <<sess, wire>>
  <1> DEFINE fr == rxQ[1]
  <1>1. rxQ \in Seq(AnyFrame) /\ rxQ # <<>> /\ rxQ' = Tail(rxQ) /\ Head(rxQ).type \in Attaches
    BY Zenon DEF RxAttach, Received, LinkTypes, Attaches
  <1>2. Less(rxQ, rxQ') /\ Head(rxQ) = fr /\ fr \in AnyFrame
    BY Zenon, <1>1, Taken DEF Less
  <1>3. fr \in LinkFrames /\ fr.type \in Attaches /\ fr.handle \in Handles /\ fr.link \in Links
    BY Zenon, <1>1, <1>2, FrameFields DEF Attaches
  <1>4. 1 \in 1 .. Len(rxQ)
    BY <1>1
  <1>5. fr.link \in linksByKey /\ fr.handle = handle[fr.link]
    BY Zenon, <1>3, <1>4 DEF OneAttach, Answered
  <1> HIDE DEF fr
  <1>6. ByName(fr) = {fr.link}
    BY <1>5 DEF ByName, SameKey, KeyInv, HandlesAgree
  <1>7. /\ linkFromInputHandle' = [linkFromInputHandle EXCEPT ![fr.handle] = fr.link]
        /\ linkQ' = [linkQ EXCEPT ![fr.link] = Append(@, fr)]
        /\ UNCHANGED <<sess, wire>>
    BY Zenon, <1>2, <1>6 DEF RxAttach, ToLink
  <1> QED
    BY Zenon, <1>2, <1>3, <1>5, <1>7 DEF fr

\* The link filed under the handle of a received detach is the one it is for.
LEMMA RxDetachFinds ==
    ASSUME LinkTypes, OneAttach, CatchesUp, RxDetach
    PROVE  LET fr == rxQ[1]
           IN  /\ Less(rxQ, rxQ') /\ fr \in LinkFrames /\ fr.type = "detach" /\ fr.handle \in Handles
               /\ linkFromInputHandle[fr.handle] = fr.link /\ fr.link \in Links
               /\ fr.link \in linksByKey /\ handle[fr.link] = fr.handle
               /\ linkFromInputHandle' = [linkFromInputHandle EXCEPT ![fr.handle] = NoLink]
               /\ linkQ' = [linkQ EXCEPT ![fr.link] = Append(@, fr)]
               /\ linksByKey' = linksByKey \ {fr.link}
               /\ outputHandles' = outputHandles \ {fr.handle}
               /\ UNCHANGED <<sess, wire>>
  <1> DEFINE fr == rxQ[1]
  <1>1. rxQ \in Seq(AnyFrame) /\ rxQ # <<>> /\ rxQ' = Tail(rxQ) /\ Head(rxQ).type = "detach"
    BY Zenon DEF RxDetach, Received, LinkTypes
  <1>2. Less(rxQ, rxQ') /\ Head(rxQ) = fr /\ fr \in AnyFrame
    BY Zenon, <1>1, Taken DEF Less
  <1>3. fr \in LinkFrames /\ fr.type = "detach" /\ fr.handle \in Handles /\ fr.link \in Links
    BY Zenon, <1>1, <1>2, FrameFields
  <1>4. 1 \in 1 .. Len(rxQ) /\ 1 - 1 = 0
    BY <1>1
  <1>5. linkFromInputHandle[fr.handle] = fr.link /\ fr.link # NoLink
    <2>1. PICK view \in [0 .. Len(rxQ) -> Tables] :
             view[0] = linkFromInputHandle /\ \A i \in 1 .. Len(rxQ) : Files(rxQ[i], view[i - 1], view[i])
      BY Zenon DEF CatchesUp, Chain
    <2>2. Files(fr, linkFromInputHandle, view[1])
      BY Zenon, <1>4, <2>1
    <2> QED
      BY Zenon, <1>3, <2>2, LinksAssumption DEF Files, Attaches
  <1>6. fr.link \in linksByKey /\ handle[fr.link] = fr.handle
    BY Zenon, <1>3, <1>5 DEF OneAttach, InTable
  <1> HIDE DEF fr
  <1>7. /\ linkFromInputHandle' = [linkFromInputHandle EXCEPT ![fr.handle] = NoLink]
        /\ linkQ' = [linkQ EXCEPT ![fr.link] = Append(@, fr)]
        /\ linksByKey' = linksByKey \ {fr.link}
        /\ outputHandles' = outputHandles \ {handle[fr.link]}
        /\ UNCHANGED <<sess, wire>>
    BY Zenon, <1>2, <1>5 DEF RxDetach, ToLink, DeallocateHandle
  <1> QED
    BY Zenon, <1>2, <1>3, <1>5, <1>6, <1>7 DEF fr

\* The peer's end is read, and answered if it is the first.
LEMMA RxEndReads ==
    ASSUME LinkTypes, RxEnd
    PROVE  /\ Less(rxQ, rxQ') /\ rxQ[1].type = "end" /\ sess' = "done"
           /\ wire' = wire \/ More(wire, wire', EndFrame)
  <1>1. rxQ \in Seq(AnyFrame) /\ rxQ # <<>> /\ rxQ' = Tail(rxQ) /\ Head(rxQ).type = "end"
    BY Zenon DEF RxEnd, Received, LinkTypes
  <1>2. Less(rxQ, rxQ') /\ Head(rxQ) = rxQ[1]
    BY Zenon, <1>1, Taken
  <1>3. wire' = wire \/ wire' = Append(wire, EndFrame)
    BY Zenon DEF RxEnd, Write
  <1> QED
    BY Zenon, <1>1, <1>2, <1>3, EndIsWritten DEF RxEnd

\* The frame of link l that the peer answers to fr.
Answer(type, fr, l) == [type |-> type, handle |-> fr.handle, link |-> l]

\* The peer answers an attach, refuses it, or ends the session.
LEMMA PeerAttachAnswers ==
    ASSUME LinkTypes, PeerAttach
    PROVE  LET fr == wire[1]
           IN  /\ Less(wire, wire') /\ fr \in LinkFrames /\ fr.type = "attach"
               /\ fr.handle \in Handles /\ fr.link \in Links /\ ~peerEnded
               /\ \/ /\ peerLinks[fr.handle] = NoLink
                     /\ peerLinks' = [peerLinks EXCEPT ![fr.handle] = fr.link]
                     /\ UNCHANGED peerEnded
                     /\ \/ UNCHANGED leaving /\ More(rxQ, rxQ', fr)
                        \/ /\ peer = "active" /\ leaving' = leaving \cup {fr.handle}
                           /\ \E t : /\ More(rxQ, t, Answer("refuse", fr, fr.link))
                                     /\ More(t, rxQ', Answer("detach", fr, fr.link))
                  \/ UNCHANGED <<peerLinks, leaving>> /\ peerEnded' = TRUE /\ More(rxQ, rxQ', EndFrame)
  <1> DEFINE fr == wire[1]
             refuse == Answer("refuse", fr, fr.link)
             detach == Answer("detach", fr, fr.link)
  <1>1. /\ wire \in Seq(AnyFrame) /\ rxQ \in Seq(AnyFrame) /\ wire # <<>> /\ wire' = Tail(wire)
        /\ Head(wire).type = "attach" /\ ~peerEnded
    BY Zenon DEF PeerAttach, Read, LinkTypes
  <1>2. Less(wire, wire') /\ Head(wire) = fr /\ fr \in AnyFrame
    BY Zenon, <1>1, Taken DEF Less
  <1>3. fr \in LinkFrames /\ fr.type = "attach" /\ fr.handle \in Handles /\ fr.link \in Links
    BY Zenon, <1>1, <1>2, FrameFields
  <1>4. [Head(wire) EXCEPT !.type = "attach"] = fr
    BY Zenon, <1>2, <1>3 DEF LinkFrames
  <1>5. /\ [Head(wire) EXCEPT !.type = "refuse"] = refuse /\ refuse \in AnyFrame
        /\ [Head(wire) EXCEPT !.type = "detach"] = detach /\ detach \in AnyFrame
    BY <1>2, <1>3 DEF LinkFrames, Answer, AnyFrame, Attaches
  <1>6. EndFrame \in AnyFrame
    BY Zenon DEF AnyFrame
  <1>7. \/ /\ peerLinks[fr.handle] = NoLink
           /\ peerLinks' = [peerLinks EXCEPT ![fr.handle] = fr.link]
           /\ UNCHANGED peerEnded
           /\ \/ UNCHANGED leaving /\ rxQ' = Append(rxQ, fr)
              \/ /\ peer = "active" /\ leaving' = leaving \cup {fr.handle}
                 /\ rxQ' = rxQ \o <<refuse, detach>>
        \/ UNCHANGED <<peerLinks, leaving>> /\ peerEnded' = TRUE /\ rxQ' = Append(rxQ, EndFrame)
    BY Zenon, <1>2, <1>4, <1>5 DEF PeerAttach, PeerEnd
  <1> HIDE DEF fr, refuse, detach
  <1>8. /\ More(rxQ, Append(rxQ, fr), fr) /\ More(rxQ, Append(rxQ, EndFrame), EndFrame)
        /\ \E t : More(rxQ, t, refuse) /\ More(t, rxQ \o <<refuse, detach>>, detach)
    BY Zenon, <1>1, <1>2, <1>5, <1>6, Appended, AppendedTwo
  <1>9. \/ /\ peerLinks[fr.handle] = NoLink
           /\ peerLinks' = [peerLinks EXCEPT ![fr.handle] = fr.link]
           /\ UNCHANGED peerEnded
           /\ \/ UNCHANGED leaving /\ More(rxQ, rxQ', fr)
              \/ /\ peer = "active" /\ leaving' = leaving \cup {fr.handle}
                 /\ \E t : More(rxQ, t, refuse) /\ More(t, rxQ', detach)
        \/ UNCHANGED <<peerLinks, leaving>> /\ peerEnded' = TRUE /\ More(rxQ, rxQ', EndFrame)
    BY Zenon, <1>7, <1>8
  <1> QED
    BY Zenon, <1>1, <1>2, <1>3, <1>9 DEF fr, refuse, detach

\* The peer answers a detach unless it has sent its own, or ends the session.
LEMMA PeerDetachAnswers ==
    ASSUME LinkTypes, PeerDetach
    PROVE  LET fr == wire[1]
           IN  /\ Less(wire, wire') /\ fr \in LinkFrames /\ fr.type = "detach"
               /\ fr.handle \in Handles /\ fr.link \in Links /\ ~peerEnded
               /\ \/ /\ peerLinks[fr.handle] # NoLink
                     /\ peerLinks' = [peerLinks EXCEPT ![fr.handle] = NoLink]
                     /\ leaving' = leaving \ {fr.handle} /\ UNCHANGED peerEnded
                     /\ \/ fr.handle \in leaving /\ rxQ' = rxQ
                        \/ /\ fr.handle \notin leaving
                           /\ More(rxQ, rxQ', Answer("detach", fr, peerLinks[fr.handle]))
                  \/ UNCHANGED <<peerLinks, leaving>> /\ peerEnded' = TRUE /\ More(rxQ, rxQ', EndFrame)
  <1> DEFINE fr == wire[1]
             detach == Answer("detach", fr, peerLinks[fr.handle])
  <1>1. /\ wire \in Seq(AnyFrame) /\ rxQ \in Seq(AnyFrame) /\ wire # <<>> /\ wire' = Tail(wire)
        /\ Head(wire).type = "detach" /\ ~peerEnded
    BY Zenon DEF PeerDetach, Read, LinkTypes
  <1>2. Less(wire, wire') /\ Head(wire) = fr /\ fr \in AnyFrame
    BY Zenon, <1>1, Taken DEF Less
  <1>3. fr \in LinkFrames /\ fr.type = "detach" /\ fr.handle \in Handles /\ fr.link \in Links
    BY Zenon, <1>1, <1>2, FrameFields
  <1>4. /\ [Head(wire) EXCEPT !.link = peerLinks[fr.handle]] = detach
        /\ peerLinks[fr.handle] # NoLink => detach \in AnyFrame
    <2>1. peerLinks[fr.handle] \in Links \cup {NoLink}
      BY Zenon, <1>3 DEF LinkTypes
    <2>2. ASSUME NEW k PROVE [fr EXCEPT !.link = k] = Answer("detach", fr, k)
      BY <1>3 DEF LinkFrames, Answer
    <2>3. peerLinks[fr.handle] # NoLink => detach \in LinkFrames
      BY Zenon, <1>3, <2>1 DEF LinkFrames, Answer, Attaches
    <2> QED
      BY Zenon, <1>2, <2>2, <2>3 DEF AnyFrame
  <1>5. EndFrame \in AnyFrame
    BY Zenon DEF AnyFrame
  <1>6. \/ /\ peerLinks[fr.handle] # NoLink
           /\ peerLinks' = [peerLinks EXCEPT ![fr.handle] = NoLink]
           /\ leaving' = leaving \ {fr.handle} /\ UNCHANGED peerEnded
           /\ rxQ' = IF fr.handle \in leaving THEN rxQ ELSE Append(rxQ, detach)
        \/ UNCHANGED <<peerLinks, leaving>> /\ peerEnded' = TRUE /\ rxQ' = Append(rxQ, EndFrame)
    BY Zenon, <1>2, <1>4 DEF PeerDetach, PeerEnd
  <1> HIDE DEF fr, detach
  <1>7. /\ peerLinks[fr.handle] # NoLink => More(rxQ, Append(rxQ, detach), detach)
        /\ More(rxQ, Append(rxQ, EndFrame), EndFrame)
    BY Zenon, <1>1, <1>4, <1>5, Appended
  <1>8. \/ /\ peerLinks[fr.handle] # NoLink
           /\ peerLinks' = [peerLinks EXCEPT ![fr.handle] = NoLink]
           /\ leaving' = leaving \ {fr.handle} /\ UNCHANGED peerEnded
           /\ \/ fr.handle \in leaving /\ rxQ' = rxQ
              \/ fr.handle \notin leaving /\ More(rxQ, rxQ', detach)
        \/ UNCHANGED <<peerLinks, leaving>> /\ peerEnded' = TRUE /\ More(rxQ, rxQ', EndFrame)
    BY Zenon, <1>6, <1>7
  <1> QED
    BY Zenon, <1>1, <1>2, <1>3, <1>8 DEF fr, detach

\* The peer ends the session.
LEMMA PeerEndsReads ==
    ASSUME LinkTypes, PeerEnds
    PROVE  /\ wire' = wire \/ Less(wire, wire')
           /\ More(rxQ, rxQ', EndFrame) /\ peerEnded' = TRUE /\ UNCHANGED <<peerLinks, leaving>>
  <1>1. wire \in Seq(AnyFrame) /\ rxQ \in Seq(AnyFrame) /\ EndFrame \in AnyFrame
    BY Zenon DEF LinkTypes, AnyFrame
  <1>2. wire' = wire \/ (wire # <<>> /\ wire' = Tail(wire))
    BY Zenon DEF PeerEnds, Read
  <1>3. rxQ' = Append(rxQ, EndFrame) /\ peerEnded' = TRUE /\ UNCHANGED <<peerLinks, leaving>>
    BY Zenon DEF PeerEnds, PeerEnd
  <1> QED
    BY Zenon, <1>1, <1>2, <1>3, Appended, Taken

\* The peer detaches a link of its own accord.
LEMMA PeerDetachesWrites ==
    ASSUME LinkTypes, NEW h \in Handles, PeerDetaches(h)
    PROVE  LET fr == [type |-> "detach", handle |-> h, link |-> peerLinks[h]]
           IN  fr \in LinkFrames /\ More(rxQ, rxQ', fr)
  <1> DEFINE fr == [type |-> "detach", handle |-> h, link |-> peerLinks[h]]
  <1>1. fr \in LinkFrames /\ fr \in AnyFrame
    BY Zenon DEF PeerDetaches, LinkTypes, LinkFrames, AnyFrame, Attaches
  <1>2. rxQ \in Seq(AnyFrame) /\ rxQ' = Append(rxQ, fr)
    BY Zenon DEF LinkTypes, PeerDetaches
  <1> HIDE DEF fr
  <1>3. More(rxQ, rxQ', fr)
    BY Zenon, <1>1, <1>2, Appended
  <1> QED
    BY Zenon, <1>1, <1>3 DEF fr

-----------------------------------------------------------------------------
(* What the frames say *)

\* No link attaches a second time.
LEMMA StepKeepsOneAttach == LinkInv /\ [Next]_vars => OneAttach'
  <1> SUFFICES ASSUME LinkInv, [Next]_vars PROVE OneAttach'
    BY Zenon
  <1>0. LinkTypes /\ KeyInv /\ OneAttach /\ CatchesUp
    BY Zenon DEF LinkInv, RouteInv
  <1>t. /\ linksByKey \subseteq Links /\ Len(wire) \in Nat /\ Len(rxQ) \in Nat
        /\ \A i \in 1 .. Len(wire) : wire[i] \in AnyFrame
        /\ \A i \in 1 .. Len(rxQ) : rxQ[i] \in AnyFrame
    BY <1>0 DEF LinkTypes
  <1> DEFINE Fresh(l) == phase[l] \in Early \cup {"attach"}
  \* Steps that neither write an attach nor read a frame.
  <1>1. ASSUME UNCHANGED <<rxQ, linkFromInputHandle, peerLinks>>, linksByKey \subseteq linksByKey',
               \A k \in linksByKey : handle'[k] = handle[k],
               \A l \in Links : Fresh(l)' => Fresh(l),
               \A l \in Links : phase'[l] = "attach" => l \in linksByKey',
               Len(wire') \in Nat,
               \A i \in 1 .. Len(wire') :
                  \/ i \in 1 .. Len(wire) /\ wire'[i] = wire[i]
                  \/ wire'[i].type \in {"detach", "end"}
        PROVE  OneAttach'
    <2>1. \A l : Unknown(l) => Unknown(l)'
      BY Zenon, <1>1 DEF Unknown
    <2>2. Unsent'
      BY Zenon, <1>0, <1>1, <2>1 DEF OneAttach, Unsent
    <2>3. OnWire'
      BY <1>0, <1>1, <1>t, <2>1 DEF OneAttach, OnWire
    <2>4. Answered'
      BY <1>0, <1>1, <1>t DEF OneAttach, Answered
    <2>5. InTable'
      BY Zenon, <1>0, <1>1, <1>t DEF OneAttach, InTable
    <2> QED
      BY Zenon, <2>2, <2>3, <2>4, <2>5 DEF OneAttach
  <1>2. ASSUME NEW l \in Links, NEW to, Goto(l, to),
               UNCHANGED <<rxQ, linkFromInputHandle, peerLinks, linksByKey, handle>>,
               to \in Early => Fresh(l), to # "attach",
               Len(wire') \in Nat,
               \A i \in 1 .. Len(wire') :
                  \/ i \in 1 .. Len(wire) /\ wire'[i] = wire[i]
                  \/ wire'[i].type \in {"detach", "end"}
        PROVE  OneAttach'
    <2>1. \A k \in Links : phase'[k] = IF k = l THEN to ELSE phase[k]
      BY Zenon, <1>0, <1>2 DEF Goto, LinkTypes
    <2>2. \A k \in Links : phase'[k] = "attach" => k \in linksByKey'
      BY Zenon, <1>0, <1>2, <2>1 DEF OneAttach, Unsent
    <2>3. \A k \in Links : Fresh(k)' => Fresh(k)
      BY Zenon, <1>2, <2>1
    <2> QED
      BY Zenon, <1>1, <1>2, <2>2, <2>3
  <1> USE DEF clientVars, setup, sessVars, peerVars
  <1>3. ASSUME NEW l \in Links, New(l) \/ FreeFails(l) \/ FreeDone(l) \/ CloseReturns(l)
                                \/ ReceiveAttach(l) \/ AbandonLink(l) \/ ReceiveDetach(l) \/ LinkEnds(l)
        PROVE  OneAttach'
    <2>1. UNCHANGED <<wire, rxQ, linkFromInputHandle, peerLinks, linksByKey, handle>>
      BY Zenon, <1>3 DEF New, FreeFails, FreeDone, CloseReturns, ReceiveAttach, AbandonLink, ReceiveDetach, LinkEnds
    <2>2. \E to : Goto(l, to) /\ (to \in Early => Fresh(l)) /\ to # "attach"
      <3>1. CASE New(l) \/ FreeFails(l) \/ FreeDone(l) \/ CloseReturns(l)
        BY Zenon, <3>1 DEF New, FreeFails, FreeDone, CloseReturns, Early
      <3>2. CASE ReceiveAttach(l) \/ AbandonLink(l) \/ LinkEnds(l)
        BY Zenon, <3>2 DEF ReceiveAttach, AbandonLink, LinkEnds, Early
      <3>3. CASE ReceiveDetach(l)
        BY Zenon, <3>3 DEF ReceiveDetach, Early
      <3> QED
        BY Zenon, <1>3, <3>1, <3>2, <3>3
    <2> QED
      BY Zenon, <1>2, <1>t, <2>1, <2>2
  <1>4. ASSUME NEW l \in Links, FreeOne(l) PROVE OneAttach'
    <2>1. \E k \in Links : /\ More(wire, wire', Frame("detach", k)) /\ handle[k] \in Handles
      BY Zenon, <1>0, <1>4, FreeOneWrites
    <2>2. Len(wire') \in Nat /\ \A i \in 1 .. Len(wire') :
                                   \/ i \in 1 .. Len(wire) /\ wire'[i] = wire[i]
                                   \/ wire'[i].type \in {"detach", "end"}
      BY <1>t, <2>1, OurFrame DEF More
    <2>3. \A k \in Links : phase'[k] = "attach" => k \in linksByKey'
      BY Zenon, <1>0, <1>4 DEF OneAttach, Unsent, FreeOne
    <2> QED
      BY Zenon, <1>1, <1>4, <2>2, <2>3 DEF FreeOne
  <1>5. ASSUME NEW l \in Links, SendDetach(l) PROVE OneAttach'
    <2>1. /\ handle[l] \in Handles
          /\ \E to \in {"failed", "gone", "detached"} : Goto(l, to)
          /\ wire' = wire \/ More(wire, wire', Frame("detach", l))
      BY Zenon, <1>0, <1>5, SendDetachWrites
    <2>2. Len(wire') \in Nat /\ \A i \in 1 .. Len(wire') :
                                   \/ i \in 1 .. Len(wire) /\ wire'[i] = wire[i]
                                   \/ wire'[i].type \in {"detach", "end"}
      <3>1. Len(wire) \in Nat /\ Frame("detach", l).type = "detach"
        BY Zenon, <1>t, <2>1, OurFrame
      <3>2. CASE wire' = wire
        BY Zenon, <3>1, <3>2
      <3>3. CASE More(wire, wire', Frame("detach", l))
        <4>1. Len(wire') \in Nat /\ \A i \in 1 .. Len(wire') :
                 wire'[i] = Frame("detach", l) \/ (i \in 1 .. Len(wire) /\ wire'[i] = wire[i])
          BY ZenonT(30), <3>1, <3>3, MoreOld
        <4>2. \A fr : fr = Frame("detach", l) => fr.type \in {"detach", "end"}
          BY Zenon, <3>1
        <4> QED
          BY Zenon, <4>1, <4>2
      <3> QED
        BY Zenon, <2>1, <3>2, <3>3
    <2>3. UNCHANGED <<rxQ, linkFromInputHandle, peerLinks, linksByKey, handle>>
      BY Zenon, <1>5 DEF SendDetach
    <2> QED
      BY Zenon, <1>2, <2>1, <2>2, <2>3 DEF Early
  <1>6. ASSUME NEW l \in Links, AllocateHandle(l) PROVE OneAttach'
    <2>1. l \notin linksByKey
      BY Zenon, <1>0, <1>6 DEF AllocateHandle, KeyInv, Early
    <2>2. /\ UNCHANGED <<wire, rxQ, linkFromInputHandle, peerLinks>> /\ linksByKey \subseteq linksByKey'
          /\ \A k \in linksByKey : handle'[k] = handle[k]
      BY Zenon, <1>0, <1>6, <2>1 DEF AllocateHandle, LinkTypes
    <2>3. /\ \A k \in Links : Fresh(k)' => Fresh(k)
          /\ \A k \in Links : phase'[k] = "attach" => k \in linksByKey'
      BY Zenon, <1>0, <1>6 DEF AllocateHandle, OneAttach, Unsent, Goto, LinkTypes, Early
    <2> QED
      BY Zenon, <1>1, <1>t, <2>2, <2>3
  <1>7. ASSUME NEW l \in Links, SendAttach(l) PROVE OneAttach'
    <2>1. /\ phase[l] = "attach"
          /\ UNCHANGED <<rxQ, linkFromInputHandle, peerLinks, linksByKey, handle>>
      BY Zenon, <1>7 DEF SendAttach
    <2>2. CASE wire' = wire
      <3>1. Goto(l, "wait") \/ Goto(l, "failed")
        BY Zenon, <1>0, <1>7, SendAttachWrites
      <3> QED
        BY Zenon, <1>2, <1>t, <2>1, <2>2, <3>1 DEF Early
    <2>3. CASE More(wire, wire', Frame("attach", l)) /\ Goto(l, "wait")
      <3> DEFINE fr == Frame("attach", l)
      <3>1. fr.type = "attach" /\ fr.link = l /\ fr.handle = handle[l]
        BY Zenon DEF Frame
      <3> HIDE DEF fr
      <3>2. /\ Len(wire') = Len(wire) + 1 /\ wire'[Len(wire) + 1] = fr
            /\ \A i \in 1 .. Len(wire) : wire'[i] = wire[i]
        BY Zenon, <2>3 DEF More, fr
      <3>3. \A k \in Links : phase'[k] = IF k = l THEN "wait" ELSE phase[k]
        BY Zenon, <1>0, <2>3 DEF Goto, LinkTypes
      <3>4. \A k : Unknown(k) => Unknown(k)'
        BY Zenon, <2>1 DEF Unknown
      <3>5. /\ Unknown(l) /\ l \in linksByKey
            /\ \A i \in 1 .. Len(wire) : wire[i].type = "attach" => wire[i].link # l
        BY Zenon, <1>0, <2>1 DEF OneAttach, Unsent
      <3>6. \A i \in 1 .. Len(wire') : i \in 1 .. Len(wire) \/ i = Len(wire) + 1
        BY <1>t, <3>2
      <3>7. Unsent'
        BY <1>0, <2>1, <3>1, <3>2, <3>3, <3>4, <3>6 DEF OneAttach, Unsent, Early
      <3>8. OnWire'
        BY <1>0, <2>1, <3>1, <3>2, <3>4, <3>5, <3>6 DEF OneAttach, OnWire
      <3>9. Answered' /\ InTable'
        BY Zenon, <1>0, <2>1 DEF OneAttach, Answered, InTable
      <3> QED
        BY Zenon, <3>7, <3>8, <3>9 DEF OneAttach
    <2> QED
      BY Zenon, <1>0, <1>7, <2>2, <2>3, SendAttachWrites
  <1>8. CASE CloseSession
    <2>1. wire' = Append(wire, EndFrame)
      BY Zenon, <1>8 DEF CloseSession, SendEnd, Write
    <2>2. More(wire, wire', EndFrame) /\ EndFrame.type = "end"
      BY Zenon, <1>0, <2>1, EndIsWritten
    <2>3. Len(wire') \in Nat /\ \A i \in 1 .. Len(wire') :
                                   \/ i \in 1 .. Len(wire) /\ wire'[i] = wire[i]
                                   \/ wire'[i].type \in {"detach", "end"}
      BY <1>t, <2>2 DEF More
    <2>4. \A k \in Links : phase'[k] = "attach" => k \in linksByKey'
      BY Zenon, <1>0, <1>8 DEF OneAttach, Unsent, CloseSession
    <2> QED
      BY Zenon, <1>1, <1>8, <2>3, <2>4 DEF CloseSession
  \* Steps that read a frame of the peer's.
  <1>9. ASSUME Less(rxQ, rxQ'), UNCHANGED <<phase, handle, peerLinks>>, linksByKey' \subseteq linksByKey,
               \A k \in linksByKey \ linksByKey' :
                  \E h \in Handles : linkFromInputHandle[h] = k,
               \A h \in Handles : \/ linkFromInputHandle'[h] = linkFromInputHandle[h]
                                  \/ linkFromInputHandle'[h] = NoLink
                                  \/ linkFromInputHandle'[h] = rxQ[1].link,
               rxQ[1].type \in Attaches \/ \A h \in Handles : linkFromInputHandle'[h] \in {linkFromInputHandle[h], NoLink},
               InTable', Len(wire') \in Nat,
               \A i \in 1 .. Len(wire') :
                  \/ i \in 1 .. Len(wire) /\ wire'[i] = wire[i]
                  \/ wire'[i].type = "end"
        PROVE  OneAttach'
    <2>1. /\ Len(rxQ') \in Nat /\ Len(rxQ) = Len(rxQ') + 1 /\ 1 \in 1 .. Len(rxQ)
          /\ \A i \in 1 .. Len(rxQ') : rxQ'[i] = rxQ[i + 1] /\ i + 1 \in 1 .. Len(rxQ) /\ i + 1 # 1
      BY <1>9 DEF Less
    <2>2. ASSUME NEW k \in Links, Unknown(k) PROVE Unknown(k)'
      <3> USE <2>2
      <3>1. rxQ[1].link # k /\ k # NoLink
        BY Zenon, <2>1, LinksAssumption DEF Unknown
      <3>2. \A i \in 1 .. Len(rxQ') : rxQ'[i].link # k
        BY Zenon, <2>1 DEF Unknown
      <3>3. \A h \in Handles : linkFromInputHandle'[h] # k /\ peerLinks'[h] # k
        BY <1>9, <3>1 DEF Unknown
      <3> QED
        BY Zenon, <3>2, <3>3 DEF Unknown
    <2>3. \A k \in Links : k \in linksByKey /\ Unknown(k) => k \in linksByKey'
      BY Zenon, <1>9 DEF Unknown
    <2>4. Unsent'
      BY <1>0, <1>9, <2>2, <2>3 DEF OneAttach, Unsent
    <2>5. OnWire'
      <3>1. \A i \in 1 .. Len(wire) : wire[i].type = "attach" => wire[i].link \in Links
        BY Zenon, <1>0, <1>t DEF OneAttach, OnWire
      <3> QED
        BY Zenon, <1>0, <1>9, <2>2, <2>3, <3>1 DEF OneAttach, OnWire
    <2>6. Answered'
      <3>1. ASSUME NEW i \in 1 .. Len(rxQ'), rxQ'[i].type \in Attaches
            PROVE  /\ rxQ'[i].link \in linksByKey' /\ rxQ'[i].handle = handle[rxQ'[i].link]
                   /\ \A h \in Handles : linkFromInputHandle'[h] # rxQ'[i].link
        <4> DEFINE k == rxQ[i + 1].link
        <4>1. rxQ'[i] = rxQ[i + 1] /\ i + 1 \in 1 .. Len(rxQ) /\ i + 1 # 1
          BY Zenon, <2>1
        <4>2. /\ k \in linksByKey /\ rxQ[i + 1].handle = handle[k]
              /\ \A h \in Handles : linkFromInputHandle[h] # k
          BY Zenon, <1>0, <3>1, <4>1 DEF OneAttach, Answered
        <4>3. rxQ[1].type \in Attaches => rxQ[1].link # k
          BY Zenon, <1>0, <2>1, <3>1, <4>1 DEF OneAttach, Answered
        <4>4. k \in linksByKey' /\ k # NoLink
          BY <1>9, <1>t, <4>2, LinksAssumption
        <4> HIDE DEF k
        <4>5. \A h \in Handles : linkFromInputHandle'[h] # k
          BY Zenon, <1>9, <4>2, <4>3, <4>4
        <4> QED
          BY Zenon, <4>1, <4>2, <4>4, <4>5 DEF k
      <3>2. \A i, j \in 1 .. Len(rxQ') :
               rxQ'[i].type \in Attaches /\ rxQ'[j].type \in Attaches /\ rxQ'[i].link = rxQ'[j].link => i = j
        <4> SUFFICES ASSUME NEW i \in 1 .. Len(rxQ'), NEW j \in 1 .. Len(rxQ'),
                            rxQ'[i].type \in Attaches, rxQ'[j].type \in Attaches, rxQ'[i].link = rxQ'[j].link
                     PROVE  i = j
          BY Zenon
        <4>1. i + 1 = j + 1
          BY <1>0, <2>1 DEF OneAttach, Answered
        <4> QED
          BY <4>1
      <3> QED
        BY Zenon, <1>9, <3>1, <3>2 DEF Answered
    <2> QED
      BY Zenon, <1>9, <2>4, <2>5, <2>6 DEF OneAttach
  <1>10. CASE RxAttach
    <2> DEFINE fr == rxQ[1]
    <2>1. /\ Less(rxQ, rxQ') /\ fr.type \in Attaches
          /\ fr.link \in linksByKey /\ fr.handle = handle[fr.link] /\ fr.handle \in Handles
          /\ linkFromInputHandle' = [linkFromInputHandle EXCEPT ![fr.handle] = fr.link]
          /\ wire' = wire
      BY Zenon, <1>0, <1>10, RxAttachFinds
    <2>2. UNCHANGED <<phase, handle, peerLinks, linksByKey>>
      BY Zenon, <1>10 DEF RxAttach
    <2> HIDE DEF fr
    <2>3. \A h \in Handles : linkFromInputHandle'[h] = IF h = fr.handle THEN fr.link ELSE linkFromInputHandle[h]
      BY Zenon, <1>0, <2>1 DEF LinkTypes
    <2>4. InTable'
      BY <1>0, <2>1, <2>2, <2>3 DEF OneAttach, InTable
    <2> QED
      BY Zenon, <1>9, <1>t, <2>1, <2>2, <2>3, <2>4 DEF fr
  <1>11. CASE RxDetach
    <2> DEFINE fr == rxQ[1]
    <2>1. /\ Less(rxQ, rxQ') /\ fr.handle \in Handles
          /\ linkFromInputHandle[fr.handle] = fr.link /\ handle[fr.link] = fr.handle
          /\ linkFromInputHandle' = [linkFromInputHandle EXCEPT ![fr.handle] = NoLink]
          /\ linksByKey' = linksByKey \ {fr.link}
          /\ wire' = wire
      BY Zenon, <1>0, <1>11, RxDetachFinds
    <2>2. UNCHANGED <<phase, handle, peerLinks>>
      BY Zenon, <1>11 DEF RxDetach
    <2> HIDE DEF fr
    <2>3. \A h \in Handles : linkFromInputHandle'[h] = IF h = fr.handle THEN NoLink ELSE linkFromInputHandle[h]
      BY Zenon, <1>0, <2>1 DEF LinkTypes
    <2>4. InTable'
      BY <1>0, <2>1, <2>2, <2>3 DEF OneAttach, InTable
    <2> QED
      BY Zenon, <1>9, <1>t, <2>1, <2>2, <2>3, <2>4
  <1>12. CASE RxEnd
    <2>1. Less(rxQ, rxQ') /\ (wire' = wire \/ More(wire, wire', EndFrame))
      BY Zenon, <1>0, <1>12, RxEndReads
    <2>2. UNCHANGED <<phase, handle, peerLinks, linkFromInputHandle, linksByKey>>
      BY Zenon, <1>12 DEF RxEnd
    <2>3. Len(wire') \in Nat /\ \A i \in 1 .. Len(wire') : \/ i \in 1 .. Len(wire) /\ wire'[i] = wire[i]
                                                           \/ wire'[i].type = "end"
      BY <1>t, <2>1 DEF More, EndFrame
    <2>4. InTable'
      BY Zenon, <1>0, <2>2 DEF OneAttach, InTable
    <2> QED
      BY Zenon, <1>9, <2>1, <2>2, <2>3, <2>4
  \* Steps of the peer: a frame may be read from the wire, and one or two written.
  <1>13. ASSUME UNCHANGED <<phase, handle, linksByKey, linkFromInputHandle>>,
                NEW tables \in SUBSET Links,
                \A h \in Handles : peerLinks'[h] \in {peerLinks[h], NoLink} \cup tables,
                Len(rxQ') \in Nat, Len(rxQ) <= Len(rxQ'),
                \A i \in 1 .. Len(rxQ) : rxQ'[i] = rxQ[i],
                \A i \in 1 .. Len(rxQ') : i \in 1 .. Len(rxQ) \/ rxQ'[i].link \in {NoLink} \cup tables
                                          \/ \E h \in Handles : rxQ'[i].link = peerLinks[h],
                \A l \in tables : ~Fresh(l),
                NEW d \in {0, 1}, Len(wire') + d = Len(wire), Len(wire') \in Nat,
                \A i \in 1 .. Len(wire') : wire'[i] = wire[i + d],
                \A i \in 1 .. Len(wire') : wire'[i].type = "attach" => wire'[i].link \notin tables
         PROVE  Unsent' /\ OnWire' /\ InTable'
    <2>1. ASSUME NEW k \in Links, k \notin tables, Unknown(k) PROVE Unknown(k)'
      <3>1. k # NoLink
        BY Zenon, LinksAssumption
      <3>2. ASSUME NEW i \in 1 .. Len(rxQ') PROVE rxQ'[i].link # k
        <4>1. CASE i \in 1 .. Len(rxQ)
          BY Zenon, <1>13, <2>1, <4>1 DEF Unknown
        <4>2. CASE i \notin 1 .. Len(rxQ)
          <5>1. \A h \in Handles : peerLinks[h] # k
            BY Zenon, <2>1 DEF Unknown
          <5> QED
            BY <1>13, <2>1, <3>1, <4>2, <5>1
        <4> QED
          BY Zenon, <4>1, <4>2
      <3>3. \A h \in Handles : linkFromInputHandle'[h] # k /\ peerLinks'[h] # k
        BY Zenon, <1>13, <2>1, <3>1 DEF Unknown
      <3> QED
        BY Zenon, <3>2, <3>3 DEF Unknown
    <2>2. \A i \in 1 .. Len(wire') : wire'[i] = wire[i + d] /\ i + d \in 1 .. Len(wire)
      BY <1>13, <1>t
    <2>3. Unsent'
      BY <1>0, <1>13, <2>1, <2>2 DEF OneAttach, Unsent
    <2>4. OnWire'
      <3>1. ASSUME NEW i \in 1 .. Len(wire'), wire'[i].type = "attach", NEW k, k = wire'[i].link
            PROVE  k \in linksByKey' /\ wire'[i].handle = handle'[k] /\ Unknown(k)'
        <4>1. k \in linksByKey /\ wire'[i].handle = handle[k] /\ Unknown(k)
          BY Zenon, <1>0, <2>2, <3>1 DEF OneAttach, OnWire
        <4>2. k \in Links /\ k \notin tables
          BY Zenon, <1>13, <1>t, <3>1, <4>1
        <4> QED
          BY Zenon, <1>13, <2>1, <4>1, <4>2
      <3>2. \A i, j \in 1 .. Len(wire') :
               wire'[i].type = "attach" /\ wire'[j].type = "attach" /\ wire'[i].link = wire'[j].link => i = j
        <4> SUFFICES ASSUME NEW i \in 1 .. Len(wire'), NEW j \in 1 .. Len(wire'),
                            wire'[i].type = "attach", wire'[j].type = "attach", wire'[i].link = wire'[j].link
                     PROVE  i = j
          BY Zenon
        <4>1. i + d = j + d
          BY Zenon, <1>0, <2>2 DEF OneAttach, OnWire
        <4> QED
          BY <4>1
      <3>3. \A i \in 1 .. Len(wire') : wire'[i].type \in {"attach", "detach", "end"}
        BY Zenon, <1>0, <2>2 DEF OneAttach, OnWire
      <3> QED
        BY <3>1, <3>2, <3>3 DEF OnWire, Unknown
    <2>5. InTable'
      BY Zenon, <1>0, <1>13 DEF OneAttach, InTable
    <2> QED
      BY Zenon, <2>3, <2>4, <2>5
  \* The same, if what is written is no attach.
  <1>14. ASSUME UNCHANGED <<phase, handle, linksByKey, linkFromInputHandle>>,
                \A h \in Handles : peerLinks'[h] \in {peerLinks[h], NoLink},
                rxQ' = rxQ \/ \E fr : /\ More(rxQ, rxQ', fr) /\ fr.type \in {"detach", "end"}
                                      /\ fr.link = NoLink \/ \E h \in Handles : fr.link = peerLinks[h],
                wire' = wire \/ Less(wire, wire')
         PROVE  OneAttach'
    <2>1. /\ Len(rxQ') \in Nat /\ Len(rxQ) <= Len(rxQ')
          /\ \A i \in 1 .. Len(rxQ) : rxQ'[i] = rxQ[i]
          /\ \A i \in 1 .. Len(rxQ') : \/ i \in 1 .. Len(rxQ)
                                       \/ /\ rxQ'[i].type \in {"detach", "end"}
                                          /\ rxQ'[i].link = NoLink \/ \E h \in Handles : rxQ'[i].link = peerLinks[h]
      <3>0. Len(rxQ) \in Nat
        BY Zenon, <1>t
      <3>1. CASE rxQ' = rxQ
        BY <3>0, <3>1
      <3>2. CASE rxQ' # rxQ
        BY Zenon, <1>14, <3>0, <3>2, MoreOld
      <3> QED
        BY Zenon, <3>1, <3>2
    <2>2. \E d \in {0, 1} : /\ Len(wire') + d = Len(wire) /\ Len(wire') \in Nat
                            /\ \A i \in 1 .. Len(wire') : wire'[i] = wire[i + d]
      BY <1>14, <1>t DEF Less
    <2>3. Unsent' /\ OnWire' /\ InTable'
      <3> DEFINE tables == {}
      <3>1. tables \in SUBSET Links
        BY Zenon
      <3> QED
        BY Zenon, <1>13, <1>14, <2>1, <2>2, <3>1
    <2>4. \A i \in 1 .. Len(rxQ') : rxQ'[i].type \in Attaches => i \in 1 .. Len(rxQ)
      BY Zenon, <2>1 DEF Attaches
    <2>5. Answered'
      <3>1. \A i \in 1 .. Len(rxQ') : rxQ'[i].type \in Attaches => i \in 1 .. Len(rxQ) /\ rxQ'[i] = rxQ[i]
        BY Zenon, <2>1, <2>4
      <3>2. UNCHANGED <<handle, linksByKey, linkFromInputHandle>>
        BY Zenon, <1>14
      <3> QED
        BY <1>0, <3>1, <3>2 DEF OneAttach, Answered
    <2> QED
      BY Zenon, <2>3, <2>5 DEF OneAttach
  <1>15. CASE PeerIgnores
    <2>1. Less(wire, wire')
      BY Zenon, <1>0, <1>15, Taken DEF PeerIgnores, LinkTypes
    <2> QED
      BY Zenon, <1>14, <1>15, <2>1 DEF PeerIgnores
  <1>16. CASE PeerDetach
    <2> DEFINE fr == wire[1]
               detach == Answer("detach", fr, peerLinks[fr.handle])
    <2>1. /\ Less(wire, wire') /\ fr.handle \in Handles
          /\ \/ peerLinks' = [peerLinks EXCEPT ![fr.handle] = NoLink] /\ (rxQ' = rxQ \/ More(rxQ, rxQ', detach))
             \/ UNCHANGED peerLinks /\ More(rxQ, rxQ', EndFrame)
      BY Zenon, <1>0, <1>16, PeerDetachAnswers
    <2>2. /\ detach.type = "detach" /\ detach.link = peerLinks[fr.handle]
          /\ EndFrame.type = "end" /\ EndFrame.link = NoLink
      BY Zenon DEF Answer, EndFrame
    <2> HIDE DEF fr, detach
    <2>3. \A h \in Handles : peerLinks'[h] \in {peerLinks[h], NoLink}
      BY Zenon, <1>0, <2>1 DEF LinkTypes
    <2> QED
      BY Zenon, <1>14, <1>16, <2>1, <2>2, <2>3 DEF PeerDetach
  <1>17. CASE PeerEnds
    <2>1. /\ wire' = wire \/ Less(wire, wire')
          /\ More(rxQ, rxQ', EndFrame) /\ UNCHANGED peerLinks
      BY Zenon, <1>0, <1>17, PeerEndsReads
    <2>2. EndFrame.type = "end" /\ EndFrame.link = NoLink
      BY Zenon DEF EndFrame
    <2> QED
      BY Zenon, <1>14, <1>17, <2>1, <2>2 DEF PeerEnds
  <1>18. ASSUME NEW h \in Handles, PeerDetaches(h) PROVE OneAttach'
    <2> DEFINE fr == [type |-> "detach", handle |-> h, link |-> peerLinks[h]]
    <2>1. More(rxQ, rxQ', fr) /\ fr.type = "detach" /\ fr.link = peerLinks[h]
      BY Zenon, <1>0, <1>18, PeerDetachesWrites
    <2> HIDE DEF fr
    <2> QED
      BY Zenon, <1>14, <1>18, <2>1 DEF PeerDetaches
  <1>19. CASE PeerAttach
    <2> DEFINE fr == wire[1]
               x == fr.link
               refuse == Answer("refuse", fr, x)
               detach == Answer("detach", fr, x)
    <2>1. /\ Less(wire, wire') /\ fr.type = "attach" /\ fr.handle \in Handles /\ x \in Links
          /\ \/ /\ peerLinks' = [peerLinks EXCEPT ![fr.handle] = x]
                /\ \/ More(rxQ, rxQ', fr)
                   \/ \E t : More(rxQ, t, refuse) /\ More(t, rxQ', detach)
             \/ UNCHANGED peerLinks /\ More(rxQ, rxQ', EndFrame)
      BY Zenon, <1>0, <1>19, PeerAttachAnswers
    <2>2. /\ refuse.type = "refuse" /\ refuse.link = x /\ refuse.handle = fr.handle
          /\ detach.type = "detach" /\ detach.link = x
          /\ EndFrame.type = "end" /\ EndFrame.link = NoLink
      BY Zenon DEF Answer, EndFrame
    <2>3. UNCHANGED <<phase, handle, linksByKey, linkFromInputHandle>>
      BY Zenon, <1>19 DEF PeerAttach
    <2>4. /\ 1 \in 1 .. Len(wire) /\ Len(wire') + 1 = Len(wire) /\ Len(wire') \in Nat
          /\ \A i \in 1 .. Len(wire') : wire'[i] = wire[i + 1] /\ i + 1 \in 1 .. Len(wire) /\ i + 1 # 1
      BY <2>1 DEF Less
    <2>5. x \in linksByKey /\ fr.handle = handle[x] /\ Unknown(x) /\ ~Fresh(x)
      BY Zenon, <1>0, <2>1, <2>4 DEF OneAttach, OnWire, Unsent
    <2>6. \A i \in 1 .. Len(wire') : wire'[i].type = "attach" => wire'[i].link # x
      BY Zenon, <1>0, <2>1, <2>4 DEF OneAttach, OnWire
    <2> HIDE DEF fr, x, refuse, detach
    <2>7. \A h \in Handles : peerLinks'[h] \in {peerLinks[h], NoLink} \cup {x}
      BY Zenon, <1>0, <2>1 DEF LinkTypes
    \* One answer, or none, is an attach.
    <2>8. /\ Len(rxQ') \in Nat /\ Len(rxQ) <= Len(rxQ')
          /\ \A i \in 1 .. Len(rxQ) : rxQ'[i] = rxQ[i]
          /\ \A i \in 1 .. Len(rxQ') : i \in 1 .. Len(rxQ) \/ rxQ'[i].link \in {NoLink} \cup {x}
          /\ \A i \in 1 .. Len(rxQ') : \/ i \in 1 .. Len(rxQ)
                                       \/ rxQ'[i].type \notin Attaches
                                       \/ i = Len(rxQ) + 1 /\ rxQ'[i].link = x /\ rxQ'[i].handle = fr.handle
      <3>0. Len(rxQ) \in Nat /\ EndFrame.type \notin Attaches
        BY Zenon, <1>t, <2>2 DEF Attaches
      <3>a. fr.link = x
        BY Zenon DEF x
      <3>1. CASE More(rxQ, rxQ', fr)
        BY Zenon, <3>0, <3>1, <3>a, MoreOld
      <3>2. CASE More(rxQ, rxQ', EndFrame)
        BY Zenon, <2>2, <3>0, <3>2, MoreOld
      <3>3. ASSUME NEW t, More(rxQ, t, refuse), More(t, rxQ', detach)
            PROVE  <2>8!:
        <4>1. /\ Len(t) = Len(rxQ) + 1 /\ Len(rxQ') = Len(rxQ) + 2
              /\ \A i \in 1 .. Len(rxQ) : rxQ'[i] = rxQ[i]
              /\ rxQ'[Len(rxQ) + 1] = refuse /\ rxQ'[Len(rxQ) + 2] = detach
          BY <1>t, <3>3 DEF More
        <4>2. \A i \in 1 .. Len(rxQ') : i \in 1 .. Len(rxQ) \/ i = Len(rxQ) + 1 \/ i = Len(rxQ) + 2
          BY <1>t, <4>1
        <4> QED
          BY <1>t, <2>2, <4>1, <4>2 DEF Attaches
      <3> QED
        BY Zenon, <2>1, <3>1, <3>2, <3>3
    <2>9. Unsent' /\ OnWire' /\ InTable'
      <3>1. {x} \in SUBSET Links /\ \A l \in {x} : ~Fresh(l)
        BY Zenon, <2>1, <2>5
      <3> QED
        BY Zenon, <1>13, <2>3, <2>4, <2>6, <2>7, <2>8, <3>1
    <2>10. Answered'
      <3>1. \A i \in 1 .. Len(rxQ) : rxQ[i].link # x
        BY Zenon, <2>5 DEF Unknown
      <3>2. \A h \in Handles : linkFromInputHandle[h] # x
        BY Zenon, <2>5 DEF Unknown
      <3>3. ASSUME NEW i \in 1 .. Len(rxQ'), rxQ'[i].type \in Attaches
            PROVE  \/ i \in 1 .. Len(rxQ) /\ rxQ'[i] = rxQ[i]
                   \/ i = Len(rxQ) + 1 /\ rxQ'[i].link = x /\ rxQ'[i].handle = fr.handle
        BY Zenon, <2>8, <3>3
      <3>4. \A i \in 1 .. Len(rxQ') : rxQ'[i].type \in Attaches =>
               /\ rxQ'[i].link \in linksByKey /\ rxQ'[i].handle = handle[rxQ'[i].link]
               /\ \A h \in Handles : linkFromInputHandle[h] # rxQ'[i].link
        BY <1>0, <2>5, <3>2, <3>3 DEF OneAttach, Answered
      <3>5. \A i, j \in 1 .. Len(rxQ') :
               rxQ'[i].type \in Attaches /\ rxQ'[j].type \in Attaches /\ rxQ'[i].link = rxQ'[j].link => i = j
        BY Zenon, <1>0, <3>1, <3>3 DEF OneAttach, Answered
      <3> QED
        BY Zenon, <2>3, <3>4, <3>5 DEF Answered
    <2> QED
      BY Zenon, <2>9, <2>10 DEF OneAttach
  <1>20. CASE UNCHANGED vars
    <2>1. UNCHANGED <<phase, handle, linksByKey, linkFromInputHandle, peerLinks, rxQ, wire>>
      BY Zenon, <1>20 DEF vars
    <2> QED
      BY Zenon, <1>14, <2>1
  <1> QED
    BY Zenon, <1>3, <1>4, <1>5, <1>6, <1>7, <1>8, <1>10, <1>11, <1>12, <1>15, <1>16, <1>17, <1>18, <1>19,
       <1>20 DEF Next, Create, Live, SessionMux, Peer

-----------------------------------------------------------------------------
\* A frame written by the peer takes the far end of a chain one table further.
LEMMA ChainIsLonger ==
    ASSUME NEW s \in Seq(AnyFrame), NEW t, NEW fr, More(s, t, fr), NEW a, NEW b, NEW c \in Tables,
           Chain(s, a, b), Files(fr, b, c)
    PROVE  Chain(t, a, c)
  <1> DEFINE n == Len(s)
  <1>1. n \in Nat /\ Len(t) = n + 1 /\ t[n + 1] = fr /\ \A i \in 1 .. n : t[i] = s[i]
    BY DEF More
  <1>2. PICK view \in [0 .. n -> Tables] :
           view[0] = a /\ view[n] = b /\ \A i \in 1 .. n : Files(s[i], view[i - 1], view[i])
    BY Zenon DEF Chain
  <1> HIDE DEF n
  <1> DEFINE new == [i \in 0 .. n + 1 |-> IF i = n + 1 THEN c ELSE view[i]]
  <1>3. \A i \in 0 .. n + 1 : i = n + 1 \/ i \in 0 .. n
    BY <1>1
  <1>4. new \in [0 .. n + 1 -> Tables]
    BY Zenon, <1>2, <1>3
  <1>5. new[0] = a /\ new[n + 1] = c /\ \A i \in 0 .. n : new[i] = view[i]
    BY <1>1, <1>2
  <1> HIDE DEF new
  <1>6. ASSUME NEW i \in 1 .. n + 1 PROVE Files(t[i], new[i - 1], new[i])
    <2>1. CASE i \in 1 .. n
      <3>1. i - 1 \in 0 .. n /\ i \in 0 .. n
        BY <1>1, <2>1
      <3> QED
        BY Zenon, <1>1, <1>2, <1>5, <2>1, <3>1
    <2>2. CASE i = n + 1
      <3>1. i - 1 = n /\ n \in 0 .. n
        BY <1>1, <2>2
      <3> QED
        BY Zenon, <1>1, <1>2, <1>5, <2>2, <3>1
    <2> QED
      BY <1>1, <2>1, <2>2
  <1>7. new \in [0 .. Len(t) -> Tables] /\ new[0] = a /\ new[Len(t)] = c
        /\ \A i \in 1 .. Len(t) : Files(t[i], new[i - 1], new[i])
    BY Zenon, <1>1, <1>4, <1>5, <1>6
  <1> QED
    BY Zenon, <1>7 DEF Chain

\* A frame read by the session takes the near end of a chain one table further.
LEMMA ChainIsShorter ==
    ASSUME NEW s \in Seq(AnyFrame), NEW t, Less(s, t), NEW a, NEW c, Chain(s, a, c)
    PROVE  \E b \in Tables : Files(s[1], a, b) /\ Chain(t, b, c)
  <1> DEFINE n == Len(t)
  <1>1. n \in Nat /\ Len(s) = n + 1 /\ \A i \in 1 .. n : t[i] = s[i + 1]
    BY DEF Less
  <1>2. PICK view \in [0 .. n + 1 -> Tables] :
           view[0] = a /\ view[n + 1] = c /\ \A i \in 1 .. n + 1 : Files(s[i], view[i - 1], view[i])
    BY Zenon, <1>1 DEF Chain
  <1> HIDE DEF n
  <1> DEFINE new == [i \in 0 .. n |-> view[i + 1]]
  <1>3. \A i \in 0 .. n : i + 1 \in 0 .. n + 1
    BY <1>1
  <1>4. new \in [0 .. n -> Tables] /\ new[0] = view[1] /\ new[n] = c
    BY <1>1, <1>2, <1>3
  <1>5. \A i \in 0 .. n : new[i] = view[i + 1]
    BY Zenon
  <1> HIDE DEF new
  <1>6. ASSUME NEW i \in 1 .. n PROVE Files(t[i], new[i - 1], new[i])
    <2>1. /\ i - 1 \in 0 .. n /\ i \in 0 .. n /\ i + 1 \in 1 .. n + 1
          /\ (i - 1) + 1 = i /\ (i + 1) - 1 = i
      BY <1>1
    <2> QED
      BY Zenon, <1>1, <1>2, <1>5, <2>1
  <1>7. Chain(t, view[1], c)
    <2>1. /\ new \in [0 .. Len(t) -> Tables] /\ new[0] = view[1] /\ new[Len(t)] = c
          /\ \A i \in 1 .. Len(t) : Files(t[i], new[i - 1], new[i])
      BY Zenon, <1>4, <1>6 DEF n
    <2> QED
      BY Zenon, <2>1 DEF Chain
  <1>8. Files(s[1], a, view[1]) /\ view[1] \in Tables
    <2>1. 1 \in 1 .. n + 1 /\ 1 \in 0 .. n + 1 /\ 1 - 1 = 0
      BY <1>1
    <2> QED
      BY Zenon, <1>2, <2>1
  <1> QED
    BY Zenon, <1>7, <1>8

\* The session's table follows the peer's, frame by frame.
LEMMA StepKeepsRouteInv == LinkInv /\ [Next]_vars => RouteInv'
  <1> SUFFICES ASSUME LinkInv, [Next]_vars PROVE RouteInv'
    BY Zenon
  <1>0. LinkTypes /\ KeyInv /\ OneAttach /\ RouteInv /\ CatchesUp
    BY Zenon DEF LinkInv, RouteInv
  <1>t. /\ wire \in Seq(AnyFrame) /\ rxQ \in Seq(AnyFrame)
        /\ linkFromInputHandle \in Tables /\ peerLinks \in Tables
        /\ linkQ \in [Links -> Seq(LinkFrames)]
    BY Zenon, <1>0 DEF LinkTypes, Tables
  <1> DEFINE Leaving == \A h \in leaving : h \in Handles /\ peerLinks[h] # NoLink
  <1>1. ASSUME UNCHANGED <<rxQ, linkFromInputHandle, peerLinks, leaving>> PROVE CatchesUp' /\ Leaving'
    BY Zenon, <1>0, <1>1 DEF CatchesUp, Chain, Filed, RouteInv
  <1>2. ASSUME UNCHANGED linkQ PROVE FramesReachTheirLink'
    BY Zenon, <1>0, <1>2 DEF RouteInv, FramesReachTheirLink
  <1>3. ASSUME NEW l \in Links, linkQ[l] # <<>>, linkQ' = [linkQ EXCEPT ![l] = Tail(@)]
        PROVE  FramesReachTheirLink'
    <2>1. /\ linkQ'[l] = Tail(linkQ[l]) /\ \A k \in Links : k # l => linkQ'[k] = linkQ[k]
          /\ linkQ[l] \in Seq(LinkFrames)
      BY Zenon, <1>3, <1>t
    <2> DEFINE q == linkQ[l]
               t == linkQ'[l]
    <2>2. t = Tail(q) /\ q \in Seq(LinkFrames) /\ q # <<>>
      BY Zenon, <1>3, <2>1
    <2>4. Less(q, t)
      <3> HIDE DEF q, t
      <3> QED
        BY Zenon, <2>2, TakenByLink
    <2>3. ASSUME NEW i \in 1 .. Len(linkQ'[l]) PROVE linkQ'[l][i].link = l
      <3>1. linkQ'[l][i] = linkQ[l][i + 1] /\ i + 1 \in 1 .. Len(linkQ[l])
        BY <2>4 DEF Less
      <3> QED
        BY Zenon, <1>0, <3>1 DEF RouteInv, FramesReachTheirLink
    <2> QED
      BY Zenon, <1>0, <2>1, <2>3 DEF RouteInv, FramesReachTheirLink
  <1>4. ASSUME NEW fr \in LinkFrames, fr.link \in Links, linkQ' = [linkQ EXCEPT ![fr.link] = Append(@, fr)]
        PROVE  FramesReachTheirLink'
    <2> DEFINE l == fr.link
    <2>1. /\ linkQ'[l] = Append(linkQ[l], fr) /\ \A k \in Links : k # l => linkQ'[k] = linkQ[k]
          /\ linkQ[l] \in Seq(LinkFrames)
      BY Zenon, <1>4, <1>t
    <2>2. \A i \in 1 .. Len(linkQ'[l]) : linkQ'[l][i] = fr \/ (i \in 1 .. Len(linkQ[l]) /\ linkQ'[l][i] = linkQ[l][i])
      BY <2>1
    <2>3. \A i \in 1 .. Len(linkQ'[l]) : linkQ'[l][i].link = l
      BY <1>0, <1>4, <2>2 DEF RouteInv, FramesReachTheirLink
    <2> HIDE DEF l
    <2> QED
      BY Zenon, <1>0, <2>1, <2>3 DEF RouteInv, FramesReachTheirLink
  <1> USE DEF clientVars, setup, sessVars, peerVars
  <1>5. ASSUME NEW l \in Links, New(l) \/ Create(l) \/ AbandonLink(l) \/ Live(l) PROVE RouteInv'
    <2>1. UNCHANGED <<rxQ, linkFromInputHandle, peerLinks, leaving>>
      BY Zenon, <1>5 DEF New, Create, FreeOne, FreeFails, FreeDone, AllocateHandle, CloseReturns, SendAttach,
                  ReceiveAttach, AbandonLink, Live, ReceiveDetach, SendDetach, LinkEnds
    <2>2. UNCHANGED linkQ \/ (linkQ[l] # <<>> /\ linkQ' = [linkQ EXCEPT ![l] = Tail(@)])
      BY Zenon, <1>5 DEF New, Create, FreeOne, FreeFails, FreeDone, AllocateHandle, CloseReturns, SendAttach,
                  ReceiveAttach, AbandonLink, Live, ReceiveDetach, SendDetach, LinkEnds
    <2> QED
      BY Zenon, <1>1, <1>2, <1>3, <2>1, <2>2 DEF RouteInv
  <1>6. CASE CloseSession \/ PeerIgnores \/ UNCHANGED vars
    BY Zenon, <1>1, <1>2, <1>6 DEF CloseSession, PeerIgnores, vars, RouteInv
  \* The session reads a frame.
  <1>7. ASSUME Less(rxQ, rxQ'), UNCHANGED <<peerLinks, leaving>>,
               \A to : Files(rxQ[1], linkFromInputHandle, to) => linkFromInputHandle' = to
        PROVE  CatchesUp' /\ Leaving'
    <2>1. PICK b \in Tables : Files(rxQ[1], linkFromInputHandle, b) /\ Chain(rxQ', b, Filed)
      BY Zenon, <1>0, <1>7, <1>t, ChainIsShorter DEF CatchesUp
    <2>2. Filed' = Filed
      BY Zenon, <1>7 DEF Filed
    <2>3. linkFromInputHandle' = b
      BY Zenon, <1>7, <2>1
    <2>4. CatchesUp'
      BY Zenon, <2>1, <2>2, <2>3 DEF CatchesUp, Chain
    <2> QED
      BY Zenon, <1>0, <1>7, <2>4 DEF RouteInv
  <1>8. CASE RxAttach
    <2>1. /\ Less(rxQ, rxQ') /\ rxQ[1] \in LinkFrames /\ rxQ[1].type \in Attaches /\ rxQ[1].link \in Links
          /\ linkFromInputHandle' = [linkFromInputHandle EXCEPT ![rxQ[1].handle] = rxQ[1].link]
          /\ linkQ' = [linkQ EXCEPT ![rxQ[1].link] = Append(@, rxQ[1])]
      BY Zenon, <1>0, <1>8, RxAttachFinds DEF LinkTypes
    <2>2. FramesReachTheirLink'
      BY Zenon, <1>4, <2>1
    <2>3. \A to : Files(rxQ[1], linkFromInputHandle, to) => linkFromInputHandle' = to
      BY Zenon, <2>1 DEF Files, Attaches
    <2> QED
      BY Zenon, <1>7, <1>8, <2>1, <2>2, <2>3 DEF RxAttach, RouteInv
  <1>9. CASE RxDetach
    <2>1. /\ Less(rxQ, rxQ') /\ rxQ[1] \in LinkFrames /\ rxQ[1].type = "detach" /\ rxQ[1].link \in Links
          /\ linkFromInputHandle' = [linkFromInputHandle EXCEPT ![rxQ[1].handle] = NoLink]
          /\ linkQ' = [linkQ EXCEPT ![rxQ[1].link] = Append(@, rxQ[1])]
      BY Zenon, <1>0, <1>9, RxDetachFinds
    <2>2. FramesReachTheirLink'
      BY Zenon, <1>4, <2>1
    <2>3. \A to : Files(rxQ[1], linkFromInputHandle, to) => linkFromInputHandle' = to
      BY Zenon, <2>1 DEF Files, Attaches
    <2> QED
      BY Zenon, <1>7, <1>9, <2>1, <2>2, <2>3 DEF RxDetach, RouteInv
  <1>10. CASE RxEnd
    <2>1. Less(rxQ, rxQ') /\ rxQ[1].type = "end"
      BY Zenon, <1>0, <1>10, RxEndReads
    <2>2. \A to : Files(rxQ[1], linkFromInputHandle, to) => linkFromInputHandle' = to
      BY Zenon, <1>10, <2>1 DEF Files, Attaches, RxEnd
    <2> QED
      BY Zenon, <1>2, <1>7, <1>10, <2>1, <2>2 DEF RxEnd, RouteInv
  \* The peer writes a frame.
  <1>11. ASSUME NEW fr, More(rxQ, rxQ', fr), UNCHANGED linkFromInputHandle, Filed' \in Tables,
                Files(fr, Filed, Filed')
         PROVE  CatchesUp'
    BY Zenon, <1>0, <1>11, <1>t, ChainIsLonger DEF CatchesUp
  <1>12. ASSUME More(rxQ, rxQ', EndFrame), UNCHANGED <<linkFromInputHandle, peerLinks, leaving, linkQ>>
         PROVE  RouteInv'
    <2>1. Filed' = Filed /\ Filed \in Tables
      BY Zenon, <1>12, <1>t DEF Filed, Tables
    <2>2. Files(EndFrame, Filed, Filed')
      BY Zenon, <2>1 DEF Files, EndFrame
    <2> QED
      BY Zenon, <1>0, <1>2, <1>11, <1>12, <2>1, <2>2 DEF RouteInv
  <1>13. CASE PeerEnds
    BY Zenon, <1>0, <1>12, <1>13, PeerEndsReads DEF PeerEnds
  <1>14. CASE PeerAttach
    <2> DEFINE fr == wire[1]
               h == fr.handle
               x == fr.link
               refuse == Answer("refuse", fr, x)
               detach == Answer("detach", fr, x)
    <2>1. /\ fr.type = "attach" /\ h \in Handles /\ x \in Links
          /\ \/ /\ peerLinks[h] = NoLink
                /\ peerLinks' = [peerLinks EXCEPT ![h] = x]
                /\ \/ UNCHANGED leaving /\ More(rxQ, rxQ', fr)
                   \/ /\ leaving' = leaving \cup {h}
                      /\ \E t : More(rxQ, t, refuse) /\ More(t, rxQ', detach)
             \/ UNCHANGED <<peerLinks, leaving>> /\ More(rxQ, rxQ', EndFrame)
      BY Zenon, <1>0, <1>14, PeerAttachAnswers
    <2>2. /\ refuse.type = "refuse" /\ refuse.link = x /\ refuse.handle = h
          /\ detach.type = "detach" /\ detach.link = x /\ detach.handle = h
      BY Zenon DEF Answer
    <2>3. UNCHANGED <<linkFromInputHandle, linkQ>>
      BY Zenon, <1>14 DEF PeerAttach
    <2>4. Filed \in Tables /\ x # NoLink
      BY Zenon, <1>t, <2>1, LinksAssumption DEF Filed, Tables
    <2>5. CASE UNCHANGED <<peerLinks, leaving>> /\ More(rxQ, rxQ', EndFrame)
      BY Zenon, <1>12, <2>3, <2>5
    <2>6. ASSUME peerLinks[h] = NoLink, peerLinks' = [peerLinks EXCEPT ![h] = x],
                 UNCHANGED leaving, More(rxQ, rxQ', fr)
          PROVE  RouteInv'
      <3> HIDE DEF x, h, fr
      <3>1. h \notin leaving
        BY Zenon, <1>0, <2>6 DEF RouteInv
      <3>2. Filed' = [Filed EXCEPT ![h] = x] /\ Filed[h] = NoLink
        BY Zenon, <1>t, <2>1, <2>6, <3>1 DEF Filed, Tables
      <3>3. Filed' \in Tables
        BY Zenon, <2>1, <2>4, <3>2 DEF Tables
      <3>4. Files(fr, Filed, Filed')
        BY Zenon, <2>1, <3>2 DEF Files, Attaches, h, x
      <3>5. CatchesUp'
        BY Zenon, <1>11, <2>3, <2>6, <3>3, <3>4
      <3>6. Leaving'
        BY Zenon, <1>0, <1>t, <2>1, <2>4, <2>6 DEF RouteInv, Tables
      <3> QED
        BY Zenon, <1>2, <2>3, <3>5, <3>6 DEF RouteInv
    <2>7. ASSUME peerLinks[h] = NoLink, peerLinks' = [peerLinks EXCEPT ![h] = x], leaving' = leaving \cup {h},
                 NEW t, More(rxQ, t, refuse), More(t, rxQ', detach)
          PROVE  RouteInv'
      <3> DEFINE mid == [Filed EXCEPT ![h] = x]
      <3> HIDE DEF x, h, fr, refuse, detach
      <3>1. Filed' = Filed /\ Filed[h] = NoLink
        BY Zenon, <1>t, <2>1, <2>7 DEF Filed, Tables
      <3>2. mid \in Tables /\ mid[h] = x /\ [mid EXCEPT ![h] = NoLink] = Filed
        BY Zenon, <2>1, <2>4, <3>1 DEF Tables
      <3>3. Files(refuse, Filed, mid) /\ Files(detach, mid, Filed)
        BY Zenon, <2>2, <3>1, <3>2 DEF Files, Attaches
      <3> HIDE DEF mid
      <3>4. t \in Seq(AnyFrame)
        BY Zenon, <2>7 DEF More
      <3>5. Chain(t, linkFromInputHandle, mid)
        BY Zenon, <1>0, <1>t, <2>7, <3>2, <3>3, ChainIsLonger DEF CatchesUp
      <3>6. Chain(rxQ', linkFromInputHandle, Filed)
        BY Zenon, <2>4, <2>7, <3>3, <3>4, <3>5, ChainIsLonger
      <3>7. CatchesUp'
        BY Zenon, <2>3, <3>1, <3>6 DEF CatchesUp, Chain
      <3>8. Leaving'
        BY Zenon, <1>0, <1>t, <2>1, <2>4, <2>7 DEF RouteInv, Tables
      <3> QED
        BY Zenon, <1>2, <2>3, <3>7, <3>8 DEF RouteInv
    <2> QED
      BY Zenon, <2>1, <2>5, <2>6, <2>7
  <1>15. CASE PeerDetach
    <2> DEFINE fr == wire[1]
               h == fr.handle
               detach == Answer("detach", fr, peerLinks[h])
    <2>1. /\ h \in Handles
          /\ \/ /\ peerLinks[h] # NoLink
                /\ peerLinks' = [peerLinks EXCEPT ![h] = NoLink]
                /\ leaving' = leaving \ {h}
                /\ \/ h \in leaving /\ rxQ' = rxQ
                   \/ h \notin leaving /\ More(rxQ, rxQ', detach)
             \/ UNCHANGED <<peerLinks, leaving>> /\ More(rxQ, rxQ', EndFrame)
      BY Zenon, <1>0, <1>15, PeerDetachAnswers
    <2>2. detach.type = "detach" /\ detach.link = peerLinks[h] /\ detach.handle = h
      BY Zenon DEF Answer
    <2>3. UNCHANGED <<linkFromInputHandle, linkQ>>
      BY Zenon, <1>15 DEF PeerDetach
    <2> HIDE DEF h, fr, detach
    <2>4. CASE UNCHANGED <<peerLinks, leaving>> /\ More(rxQ, rxQ', EndFrame)
      BY Zenon, <1>12, <2>3, <2>4
    <2>5. ASSUME peerLinks[h] # NoLink, peerLinks' = [peerLinks EXCEPT ![h] = NoLink],
                 leaving' = leaving \ {h},
                 (h \in leaving /\ rxQ' = rxQ) \/ (h \notin leaving /\ More(rxQ, rxQ', detach))
          PROVE  RouteInv'
      <3>1. Leaving'
        BY Zenon, <1>0, <1>t, <2>1, <2>5 DEF RouteInv, Tables
      <3>2. CASE h \in leaving /\ rxQ' = rxQ
        <4>1. Filed' = Filed
          BY Zenon, <1>t, <2>1, <2>5, <3>2 DEF Filed, Tables
        <4> QED
          BY Zenon, <1>0, <1>2, <2>3, <3>1, <3>2, <4>1 DEF CatchesUp, Chain, RouteInv
      <3>3. CASE h \notin leaving /\ More(rxQ, rxQ', detach)
        <4>1. Filed' = [Filed EXCEPT ![h] = NoLink] /\ Filed[h] = peerLinks[h] /\ Filed' \in Tables
          BY Zenon, <1>t, <2>1, <2>5, <3>3 DEF Filed, Tables
        <4>2. Files(detach, Filed, Filed')
          BY Zenon, <2>2, <4>1 DEF Files
        <4> QED
          BY Zenon, <1>2, <1>11, <2>3, <3>1, <3>3, <4>1, <4>2 DEF RouteInv
      <3> QED
        BY Zenon, <2>5, <3>2, <3>3
    <2> QED
      BY Zenon, <2>1, <2>4, <2>5
  <1>16. ASSUME NEW h \in Handles, PeerDetaches(h) PROVE RouteInv'
    <2> DEFINE fr == [type |-> "detach", handle |-> h, link |-> peerLinks[h]]
    <2>1. More(rxQ, rxQ', fr) /\ fr.type = "detach" /\ fr.handle = h /\ fr.link = peerLinks[h]
      BY Zenon, <1>0, <1>16, PeerDetachesWrites
    <2> HIDE DEF fr
    <2>2. /\ peerLinks[h] # NoLink /\ h \notin leaving /\ leaving' = leaving \cup {h}
          /\ UNCHANGED <<linkFromInputHandle, linkQ, peerLinks>>
      BY Zenon, <1>16 DEF PeerDetaches
    <2>3. Filed' = [Filed EXCEPT ![h] = NoLink] /\ Filed[h] = peerLinks[h] /\ Filed' \in Tables
      BY Zenon, <1>t, <2>2 DEF Filed, Tables
    <2>4. Files(fr, Filed, Filed')
      BY Zenon, <2>1, <2>3 DEF Files
    <2>5. Leaving'
      BY Zenon, <1>0, <2>2 DEF RouteInv
    <2> QED
      BY Zenon, <1>2, <1>11, <2>1, <2>2, <2>3, <2>4, <2>5 DEF RouteInv
  <1> QED
    BY Zenon, <1>5, <1>6, <1>8, <1>9, <1>10, <1>13, <1>14, <1>15, <1>16 DEF Next, SessionMux, Peer

\* A peer that only answers keeps to the registered links.
LEMMA StepKeepsQuietInv == LinkInv /\ [Next]_vars => QuietInv'
  <1> SUFFICES ASSUME LinkInv, [Next]_vars, peer' = "quiet" PROVE QuietInv'
    BY Zenon DEF QuietInv
  <1>0. LinkTypes /\ KeyInv /\ OneAttach /\ CatchesUp /\ QuietInv
    BY Zenon DEF LinkInv, RouteInv
  <1> DEFINE Kept == \A h \in Handles : peerLinks[h] # NoLink =>
                        peerLinks[h] \in linksByKey /\ handle[peerLinks[h]] = h
             Gone == \A i \in 1 .. Len(rxQ) : rxQ[i].type = "detach" =>
                        peerLinks[rxQ[i].handle] # rxQ[i].link
  <1> USE DEF clientVars, setup, sessVars, peerVars
  <1>p. UNCHANGED setup
    BY Zenon DEF Next, New, Create, FreeOne, FreeFails, FreeDone, AllocateHandle, CloseReturns, SendAttach,
           ReceiveAttach, AbandonLink, Live, ReceiveDetach, SendDetach, LinkEnds, CloseSession,
           SessionMux, RxAttach, RxDetach, RxEnd, Peer, PeerIgnores, PeerAttach, PeerDetach, PeerEnds,
           PeerDetaches, vars
  <1>q. peer = "quiet" /\ leaving = {} /\ Kept /\ Gone
    BY Zenon, <1>0, <1>p DEF QuietInv
  <1>t. /\ wire \in Seq(AnyFrame) /\ rxQ \in Seq(AnyFrame) /\ peerLinks \in [Handles -> Links \cup {NoLink}]
        /\ linksByKey \subseteq Links /\ handle \in [Links -> Handles \cup {-1}] /\ NoLink \notin Links
    BY Zenon, <1>0, LinksAssumption DEF LinkTypes
  <1>1. ASSUME UNCHANGED <<rxQ, peerLinks, leaving, linksByKey, handle>> PROVE QuietInv'
    BY Zenon, <1>q, <1>1 DEF QuietInv
  <1>2. ASSUME NEW l \in Links, AllocateHandle(l) PROVE QuietInv'
    <2>1. UNCHANGED <<rxQ, peerLinks, leaving>>
      BY Zenon, <1>2 DEF AllocateHandle
    <2>2. l \notin linksByKey
      BY Zenon, <1>0, <1>2 DEF AllocateHandle, KeyInv, Early
    <2>3. \A k \in linksByKey : k \in linksByKey' /\ handle'[k] = handle[k]
      BY Zenon, <1>2, <1>t, <2>2 DEF AllocateHandle
    <2> QED
      BY Zenon, <1>q, <2>1, <2>3 DEF QuietInv
  <1>3. ASSUME NEW l \in Links, New(l) \/ Create(l) \/ AbandonLink(l) \/ Live(l) PROVE QuietInv'
    <2>1. CASE AllocateHandle(l)
      BY Zenon, <1>2, <2>1
    <2>2. CASE ~ AllocateHandle(l)
      <3>1. UNCHANGED <<rxQ, peerLinks, leaving, linksByKey, handle>>
        BY Zenon, <1>3, <2>2 DEF New, Create, FreeOne, FreeFails, FreeDone, CloseReturns, SendAttach,
                    ReceiveAttach, AbandonLink, Live, ReceiveDetach, SendDetach, LinkEnds
      <3> QED
        BY Zenon, <1>1, <3>1
    <2> QED
      BY Zenon, <2>1, <2>2
  <1>4. CASE CloseSession \/ PeerIgnores \/ UNCHANGED vars
    BY Zenon, <1>1, <1>4 DEF CloseSession, PeerIgnores, vars
  <1>5. ASSUME Less(rxQ, rxQ'), UNCHANGED peerLinks PROVE Gone'
    <2>1. ASSUME NEW i \in 1 .. Len(rxQ') PROVE rxQ'[i] = rxQ[i + 1] /\ i + 1 \in 1 .. Len(rxQ)
      BY <1>5 DEF Less
    <2> QED
      BY <1>5, <1>q, <2>1
  <1>6. CASE RxAttach
    <2>1. Less(rxQ, rxQ')
      BY Zenon, <1>0, <1>6, RxAttachFinds
    <2>2. UNCHANGED <<peerLinks, leaving, linksByKey, handle>>
      BY Zenon, <1>6 DEF RxAttach
    <2> QED
      BY Zenon, <1>5, <1>q, <2>1, <2>2 DEF QuietInv
  <1>7. CASE RxEnd
    <2>1. Less(rxQ, rxQ')
      BY Zenon, <1>0, <1>7, RxEndReads
    <2>2. UNCHANGED <<peerLinks, leaving, linksByKey, handle>>
      BY Zenon, <1>7 DEF RxEnd
    <2> QED
      BY Zenon, <1>5, <1>q, <2>1, <2>2 DEF QuietInv
  \* The peer has removed a link when its detach is read.
  <1>8. CASE RxDetach
    <2> DEFINE x == rxQ[1].link
               h == rxQ[1].handle
    <2>1. Less(rxQ, rxQ') /\ rxQ[1].type = "detach" /\ handle[x] = h /\ linksByKey' = linksByKey \ {x}
      BY Zenon, <1>0, <1>8, RxDetachFinds
    <2>2. UNCHANGED <<peerLinks, leaving, handle>>
      BY Zenon, <1>8 DEF RxDetach
    <2>3. 1 \in 1 .. Len(rxQ)
      BY <2>1, <1>t DEF Less
    <2>4. peerLinks[h] # x
      BY Zenon, <1>q, <2>1, <2>3
    <2> HIDE DEF x, h
    <2>5. Kept'
      BY Zenon, <1>q, <2>1, <2>2, <2>4
    <2> QED
      BY Zenon, <1>5, <1>q, <2>1, <2>2, <2>5 DEF QuietInv
  <1>9. ASSUME NEW fr, More(rxQ, rxQ', fr), fr.type = "detach" => peerLinks'[fr.handle] # fr.link,
               \A i \in 1 .. Len(rxQ) : rxQ[i].type = "detach" => peerLinks'[rxQ[i].handle] # rxQ[i].link
        PROVE  Gone'
    <2>1. ASSUME NEW i \in 1 .. Len(rxQ')
          PROVE rxQ'[i] = fr \/ (i \in 1 .. Len(rxQ) /\ rxQ'[i] = rxQ[i])
      BY <1>9, <1>t DEF More
    <2> QED
      BY Zenon, <1>9, <2>1
  <1>10. ASSUME More(rxQ, rxQ', EndFrame), UNCHANGED <<peerLinks, leaving, linksByKey, handle>>
         PROVE  QuietInv'
    <2>1. EndFrame.type # "detach"
      BY Zenon DEF EndFrame
    <2> QED
      BY Zenon, <1>9, <1>10, <1>q, <2>1 DEF QuietInv
  <1>11. CASE PeerEnds
    BY Zenon, <1>0, <1>10, <1>11, PeerEndsReads DEF PeerEnds
  \* An attach on the wire is that of a registered link nobody has heard of.
  <1>12. CASE PeerAttach
    <2> DEFINE fr == wire[1]
               h == fr.handle
               x == fr.link
    <2>1. /\ Less(wire, wire') /\ fr.type = "attach" /\ h \in Handles /\ x \in Links
          /\ \/ /\ peerLinks' = [peerLinks EXCEPT ![h] = x]
                /\ UNCHANGED leaving /\ More(rxQ, rxQ', fr)
             \/ UNCHANGED <<peerLinks, leaving>> /\ More(rxQ, rxQ', EndFrame)
      BY Zenon, <1>0, <1>12, <1>q, PeerAttachAnswers
    <2>2. 1 \in 1 .. Len(wire)
      BY Zenon, <2>1, LessFirst
    <2>3. x \in linksByKey /\ handle[x] = h /\ Unknown(x)
      BY Zenon, <1>0, <2>1, <2>2 DEF OneAttach, OnWire
    <2>4. UNCHANGED <<linksByKey, handle>>
      BY Zenon, <1>12 DEF PeerAttach
    <2>5. CASE UNCHANGED <<peerLinks, leaving>> /\ More(rxQ, rxQ', EndFrame)
      BY Zenon, <1>10, <2>4, <2>5
    <2>6. CASE peerLinks' = [peerLinks EXCEPT ![h] = x] /\ UNCHANGED leaving /\ More(rxQ, rxQ', fr)
      <3>1. fr.type # "detach"
        BY Zenon, <2>1
      <3> HIDE DEF fr, h, x
      <3>2. \A k \in Handles : peerLinks'[k] = IF k = h THEN x ELSE peerLinks[k]
        BY Zenon, <1>t, <2>1, <2>6
      <3>3. Kept'
        BY Zenon, <1>q, <2>3, <2>4, <3>2
      <3>4. ASSUME NEW i \in 1 .. Len(rxQ), rxQ[i].type = "detach" PROVE peerLinks'[rxQ[i].handle] # rxQ[i].link
        <4>1. rxQ[i].link # x /\ peerLinks[rxQ[i].handle] # rxQ[i].link
          BY Zenon, <1>q, <2>3, <3>4 DEF Unknown
        <4>2. rxQ[i] \in AnyFrame
          BY <1>t
        <4>3. rxQ[i].handle \in Handles
          BY Zenon, <3>4, <4>2, FrameFields
        <4> QED
          BY Zenon, <3>2, <4>1, <4>3
      <3>5. Gone'
        BY Zenon, <1>9, <2>6, <3>1, <3>4
      <3> QED
        BY Zenon, <1>q, <2>6, <3>3, <3>5 DEF QuietInv
    <2> QED
      BY Zenon, <2>1, <2>5, <2>6
  <1>13. CASE PeerDetach
    <2> DEFINE fr == wire[1]
               h == fr.handle
               detach == Answer("detach", fr, peerLinks[h])
    <2>1. /\ h \in Handles
          /\ \/ /\ peerLinks[h] # NoLink
                /\ peerLinks' = [peerLinks EXCEPT ![h] = NoLink]
                /\ leaving' = leaving \ {h} /\ More(rxQ, rxQ', detach)
             \/ UNCHANGED <<peerLinks, leaving>> /\ More(rxQ, rxQ', EndFrame)
      BY Zenon, <1>0, <1>13, <1>q, PeerDetachAnswers
    <2>2. detach.type = "detach" /\ detach.link = peerLinks[h] /\ detach.handle = h
      BY Zenon DEF Answer
    <2>3. UNCHANGED <<linksByKey, handle>>
      BY Zenon, <1>13 DEF PeerDetach
    <2> HIDE DEF fr, h, detach
    <2>4. CASE UNCHANGED <<peerLinks, leaving>> /\ More(rxQ, rxQ', EndFrame)
      BY Zenon, <1>10, <2>3, <2>4
    <2>5. ASSUME peerLinks[h] # NoLink, peerLinks' = [peerLinks EXCEPT ![h] = NoLink],
                 leaving' = leaving \ {h}, More(rxQ, rxQ', detach)
          PROVE  QuietInv'
      <3>1. \A k \in Handles : peerLinks'[k] = IF k = h THEN NoLink ELSE peerLinks[k]
        BY Zenon, <1>t, <2>1, <2>5
      <3>2. Kept'
        BY Zenon, <1>q, <2>3, <3>1
      <3>3. ASSUME NEW i \in 1 .. Len(rxQ), rxQ[i].type = "detach" PROVE peerLinks'[rxQ[i].handle] # rxQ[i].link
        <4>1. rxQ[i] \in AnyFrame
          BY <1>t
        <4>2. rxQ[i].handle \in Handles /\ rxQ[i].link \in Links
          BY Zenon, <3>3, <4>1, FrameFields
        <4>3. peerLinks[rxQ[i].handle] # rxQ[i].link
          BY Zenon, <1>q, <3>3
        <4> QED
          BY Zenon, <1>t, <3>1, <4>2, <4>3
      <3>4. Gone'
        BY Zenon, <1>9, <2>1, <2>2, <2>5, <3>1, <3>3
      <3> QED
        BY Zenon, <1>q, <2>5, <3>2, <3>4 DEF QuietInv
    <2> QED
      BY Zenon, <2>1, <2>4, <2>5
  <1>14. ASSUME NEW h \in Handles, PeerDetaches(h) PROVE FALSE
    BY Zenon, <1>14, <1>q DEF PeerDetaches
  <1> QED
    BY Zenon, <1>3, <1>4, <1>6, <1>7, <1>8, <1>11, <1>12, <1>13, <1>14 DEF Next, SessionMux, Peer

-----------------------------------------------------------------------------
(* Handles *)

\* A set of naturals that is not empty has a least element.
LEMMA LeastNatural ==
    ASSUME NEW T \in SUBSET Nat, T # {}
    PROVE  \E x \in T : \A y \in T : x <= y
  <1> DEFINE R == OpToRel(<, Nat)
  <1>1. IsWellFoundedOn(R, Nat)
    BY Zenon, NatLessThanWellFounded
  <1>2. \A x, y \in Nat : << y, x >> \in R <=> y < x
    BY Zenon DEF OpToRel
  <1> HIDE DEF R
  <1>3. PICK x \in T : \A y \in T : ~ (<< y, x >> \in R)
    BY Zenon, <1>1, WFMin
  <1>4. ASSUME NEW y \in T PROVE x <= y
    <2>1. x \in Nat /\ y \in Nat
      BY Zenon
    <2>2. ~(y < x)
      BY Zenon, <1>2, <1>3, <2>1
    <2> QED
      BY <2>1, <2>2
  <1> QED
    BY Zenon, <1>4

\* The handle that allocateHandle takes is free.
LEMMA LowestIsFree == Free # {} => Lowest \in Free
  <1>1. Free \in SUBSET Nat
    BY LinksAssumption DEF Free, Handles
  <1>2. Free # {} => \E h \in Free : \A k \in Free : h <= k
    BY Zenon, <1>1, LeastNatural
  <1> QED
    BY Zenon, <1>2 DEF Lowest

\* The variables keep their types.
LEMMA StepKeepsLinkTypes == LinkInv /\ [Next]_vars => LinkTypes'
  <1> SUFFICES ASSUME LinkInv, [Next]_vars PROVE LinkTypes'
    BY Zenon
  <1>0. LinkTypes /\ KeyInv /\ OneAttach /\ CatchesUp
    BY Zenon DEF LinkInv, RouteInv
  <1> USE DEF LinkTypes, clientVars, setup, sessVars, peerVars, Goto
  <1>1. ASSUME NEW l \in Links, New(l) PROVE LinkTypes'
    BY Zenon, <1>0, <1>1 DEF New, Phases
  <1>2. ASSUME NEW l \in Links, FreeOne(l) PROVE LinkTypes'
    <2>1. wire' \in Seq(AnyFrame)
      BY Zenon, <1>0, <1>2, FreeOneWrites DEF More
    <2> QED
      BY <1>0, <1>2, <2>1 DEF FreeOne
  <1>3. ASSUME NEW l \in Links, FreeFails(l) PROVE LinkTypes'
    BY Zenon, <1>0, <1>3 DEF FreeFails, Phases
  <1>4. ASSUME NEW l \in Links, FreeDone(l) PROVE LinkTypes'
    BY <1>0, <1>4 DEF FreeDone, Phases
  <1>5. ASSUME NEW l \in Links, AllocateHandle(l) PROVE LinkTypes'
    <2>1. Free # {} => Lowest \in Handles
      BY Zenon, LowestIsFree DEF Free
    <2>2. phase' \in [Links -> Phases] /\ linksByKey' \subseteq Links
      BY Zenon, <1>0, <1>5 DEF AllocateHandle, Phases
    <2>3. handle' \in [Links -> Handles \cup {-1}]
      BY Zenon, <1>0, <1>5, <2>1 DEF AllocateHandle
    <2> QED
      BY Zenon, <1>0, <1>5, <2>2, <2>3 DEF AllocateHandle
  <1>6. ASSUME NEW l \in Links, CloseReturns(l) PROVE LinkTypes'
    BY Zenon, <1>0, <1>6 DEF CloseReturns, Phases
  <1>7. ASSUME NEW l \in Links, SendAttach(l) PROVE LinkTypes'
    <2>1. wire' \in Seq(AnyFrame)
      BY Zenon, <1>0, <1>7, SendAttachWrites DEF More
    <2> QED
      BY Zenon, <1>0, <1>7, <2>1 DEF SendAttach, Phases
  <1>8. ASSUME NEW l \in Links, ReceiveAttach(l) PROVE LinkTypes'
    <2>1. Tail(linkQ[l]) \in Seq(LinkFrames)
      BY <1>0, <1>8 DEF ReceiveAttach
    <2>2. linkQ' \in [Links -> Seq(LinkFrames)]
      BY Zenon, <1>0, <1>8, <2>1 DEF ReceiveAttach
    <2> QED
      BY Zenon, <1>0, <1>8, <2>2 DEF ReceiveAttach, Phases
  <1>9. ASSUME NEW l \in Links, AbandonLink(l) PROVE LinkTypes'
    BY <1>0, <1>9 DEF AbandonLink, Phases
  <1>10. ASSUME NEW l \in Links, ReceiveDetach(l) PROVE LinkTypes'
    <2>1. Tail(linkQ[l]) \in Seq(LinkFrames)
      BY <1>0, <1>10 DEF ReceiveDetach
    <2>2. linkQ' \in [Links -> Seq(LinkFrames)]
      BY Zenon, <1>0, <1>10, <2>1 DEF ReceiveDetach
    <2> QED
      BY Zenon, <1>0, <1>10, <2>2 DEF ReceiveDetach, Phases
  <1>11. ASSUME NEW l \in Links, SendDetach(l) PROVE LinkTypes'
    <2>1. wire' \in Seq(AnyFrame)
      BY Zenon, <1>0, <1>11, SendDetachWrites DEF More
    <2> QED
      BY Zenon, <1>0, <1>11, <2>1 DEF SendDetach, Phases
  <1>12. ASSUME NEW l \in Links, LinkEnds(l) PROVE LinkTypes'
    BY Zenon, <1>0, <1>12 DEF LinkEnds, Phases
  <1>13. CASE CloseSession
    <2>1. wire' = Append(wire, EndFrame) /\ sess' = "ending"
      BY Zenon, <1>13 DEF CloseSession, SendEnd, Write
    <2>2. wire' \in Seq(AnyFrame)
      BY Zenon, <1>0, <2>1, EndIsWritten DEF More
    <2> QED
      BY Zenon, <1>0, <1>13, <2>1, <2>2 DEF CloseSession
  <1>14. CASE RxAttach
    <2> DEFINE fr == rxQ[1]
    <2>1. /\ rxQ' \in Seq(AnyFrame) /\ fr \in LinkFrames /\ fr.link \in linksByKey
          /\ linkFromInputHandle' = [linkFromInputHandle EXCEPT ![fr.handle] = fr.link]
          /\ linkQ' = [linkQ EXCEPT ![fr.link] = Append(@, fr)] /\ UNCHANGED <<sess, wire>>
      BY Zenon, <1>0, <1>14, RxAttachFinds DEF Less
    <2> HIDE DEF fr
    <2>2. fr.link \in Links /\ Append(linkQ[fr.link], fr) \in Seq(LinkFrames)
      BY <1>0, <2>1
    <2> QED
      BY Zenon, <1>0, <1>14, <2>1, <2>2 DEF RxAttach
  <1>15. CASE RxDetach
    <2> DEFINE fr == rxQ[1]
    <2>1. /\ rxQ' \in Seq(AnyFrame) /\ fr \in LinkFrames /\ fr.link \in linksByKey
          /\ linkFromInputHandle' = [linkFromInputHandle EXCEPT ![fr.handle] = NoLink]
          /\ linkQ' = [linkQ EXCEPT ![fr.link] = Append(@, fr)] /\ UNCHANGED <<sess, wire>>
          /\ linksByKey' = linksByKey \ {fr.link}
      BY Zenon, <1>0, <1>15, RxDetachFinds DEF Less
    <2> HIDE DEF fr
    <2>2. fr.link \in Links /\ Append(linkQ[fr.link], fr) \in Seq(LinkFrames)
      BY <1>0, <2>1
    <2> QED
      BY Zenon, <1>0, <1>15, <2>1, <2>2 DEF RxDetach
  <1>16. CASE RxEnd
    <2>1. rxQ' \in Seq(AnyFrame) /\ wire' \in Seq(AnyFrame) /\ sess' = "done"
      BY Zenon, <1>0, <1>16, RxEndReads DEF Less, More
    <2> QED
      BY Zenon, <1>0, <1>16, <2>1 DEF RxEnd
  <1>17. CASE PeerIgnores
    BY Zenon, <1>0, <1>17, Taken DEF PeerIgnores, Less
  <1>18. CASE PeerAttach
    <2>1. /\ wire' \in Seq(AnyFrame) /\ rxQ' \in Seq(AnyFrame)
          /\ peerLinks' \in [Handles -> Links \cup {NoLink}]
      BY Zenon, <1>0, <1>18, PeerAttachAnswers DEF Less, More
    <2> QED
      BY Zenon, <1>0, <1>18, <2>1 DEF PeerAttach
  <1>19. CASE PeerDetach
    <2>1. /\ wire' \in Seq(AnyFrame) /\ rxQ' \in Seq(AnyFrame)
          /\ peerLinks' \in [Handles -> Links \cup {NoLink}]
      BY Zenon, <1>0, <1>19, PeerDetachAnswers DEF Less, More
    <2> QED
      BY Zenon, <1>0, <1>19, <2>1 DEF PeerDetach
  <1>20. CASE PeerEnds
    <2>1. wire' \in Seq(AnyFrame) /\ rxQ' \in Seq(AnyFrame) /\ UNCHANGED peerLinks
      BY Zenon, <1>0, <1>20, PeerEndsReads DEF Less, More
    <2> QED
      BY Zenon, <1>0, <1>20, <2>1 DEF PeerEnds
  <1>21. ASSUME NEW h \in Handles, PeerDetaches(h) PROVE LinkTypes'
    <2>1. rxQ' \in Seq(AnyFrame)
      BY Zenon, <1>0, <1>21, PeerDetachesWrites DEF More
    <2> QED
      BY Zenon, <1>0, <1>21, <2>1 DEF PeerDetaches
  <1>22. CASE UNCHANGED vars
    BY Zenon, <1>0, <1>22 DEF vars
  <1> QED
    BY Zenon, <1>1, <1>2, <1>3, <1>4, <1>5, <1>6, <1>7, <1>8, <1>9, <1>10, <1>11, <1>12, <1>13, <1>14,
       <1>15, <1>16, <1>17, <1>18, <1>19, <1>20, <1>21, <1>22
       DEF Next, Create, Live, SessionMux, Peer

\* Handles and keys change together, in allocateHandle and deallocateHandle.
LEMMA StepKeepsKeyInv == LinkInv /\ [Next]_vars => KeyInv'
  <1> SUFFICES ASSUME LinkInv, [Next]_vars PROVE KeyInv'
    BY Zenon
  <1>0. LinkTypes /\ KeyInv /\ OneAttach /\ CatchesUp
    BY Zenon DEF LinkInv, RouteInv
  <1>1. ASSUME UNCHANGED <<namesakes, handle, linksByKey, outputHandles, abandoned>>,
               \A l \in Links : \/ phase'[l] = phase[l]
                                \/ phase'[l] \in Early /\ phase[l] \in Early
                                \/ phase'[l] = "failed"
                                \/ phase[l] \notin Early \cup {"failed"} /\ phase'[l] \notin Early
        PROVE  KeyInv'
    <2>1. HandlesAgree'
      BY <1>0, <1>1 DEF KeyInv, HandlesAgree, SameKey
    <2>2. linksByKey \subseteq Links
      BY Zenon, <1>0 DEF LinkTypes
    <2> QED
      BY Zenon, <1>0, <1>1, <2>1, <2>2 DEF KeyInv, Early
  <1>2. ASSUME NEW l \in Links, NEW to,
               UNCHANGED <<namesakes, handle, linksByKey, outputHandles, abandoned>>, Goto(l, to),
               \/ to \in Early /\ phase[l] \in Early
               \/ to = "failed"
               \/ phase[l] \notin Early \cup {"failed"} /\ to \notin Early
        PROVE  KeyInv'
    <2>1. \A k \in Links : phase'[k] = IF k = l THEN to ELSE phase[k]
      BY Zenon, <1>0, <1>2 DEF Goto, LinkTypes
    <2> QED
      BY Zenon, <1>1, <1>2, <2>1
  <1>3. ASSUME UNCHANGED <<namesakes, handle, linksByKey, outputHandles, abandoned, phase>> PROVE KeyInv'
    BY Zenon, <1>1, <1>3
  <1> USE DEF clientVars, setup, sessVars
  <1>4. ASSUME NEW l \in Links, New(l) \/ FreeFails(l) \/ CloseReturns(l) \/ SendAttach(l)
                                \/ ReceiveAttach(l) \/ ReceiveDetach(l) \/ SendDetach(l) \/ LinkEnds(l)
        PROVE  KeyInv'
    <2>1. CASE New(l) \/ FreeFails(l) \/ CloseReturns(l) \/ LinkEnds(l)
      BY Zenon, <1>2, <2>1 DEF New, FreeFails, CloseReturns, LinkEnds, Early
    <2>2. CASE SendAttach(l) \/ SendDetach(l)
      BY Zenon, <1>2, <2>2 DEF SendAttach, SendDetach, Early
    <2>3. CASE ReceiveAttach(l) \/ ReceiveDetach(l)
      BY Zenon, <1>2, <2>3 DEF ReceiveAttach, ReceiveDetach, Early
    <2> QED
      BY Zenon, <1>4, <2>1, <2>2, <2>3
  <1>5. ASSUME NEW l \in Links, FreeOne(l) PROVE KeyInv'
    BY Zenon, <1>3, <1>5 DEF FreeOne
  <1>6. ASSUME NEW l \in Links, FreeDone(l) PROVE KeyInv'
    <2>1. abandoned' = <<>> /\ \A k \in Links : phase'[k] = IF k = l THEN "allocate" ELSE phase[k]
      BY Zenon, <1>0, <1>6 DEF FreeDone, Goto, LinkTypes
    <2>2. UNCHANGED <<namesakes, handle, linksByKey, outputHandles>> /\ phase[l] \in Early
      BY Zenon, <1>6 DEF FreeDone, Early
    <2>3. HandlesAgree'
      BY <1>0, <2>2 DEF KeyInv, HandlesAgree, SameKey
    <2>4. linksByKey \subseteq Links
      BY Zenon, <1>0 DEF LinkTypes
    <2>5. \A k \in linksByKey' : phase'[k] \notin Early
      BY Zenon, <1>0, <2>1, <2>2, <2>4 DEF KeyInv
    <2>6. \A k \in Links : phase'[k] \notin Early \cup {"failed"} => handle'[k] \in Handles
      <3>1. "allocate" \in Early
        BY Zenon DEF Early
      <3> QED
        BY Zenon, <1>0, <2>1, <2>2, <3>1 DEF KeyInv
    <2>7. \A i \in 1 .. Len(abandoned') : handle'[abandoned'[i]] \in Handles
      BY <2>1
    <2> QED
      BY Zenon, <1>0, <2>2, <2>3, <2>5, <2>6, <2>7 DEF KeyInv
  <1>7. ASSUME NEW l \in Links, AbandonLink(l) PROVE KeyInv'
    <2>1. \A k \in Links : phase'[k] = IF k = l THEN "abandoned" ELSE phase[k]
      BY Zenon, <1>0, <1>7 DEF AbandonLink, Goto, LinkTypes
    <2>2. handle[l] \in Handles /\ phase[l] \notin Early
      BY Zenon, <1>0, <1>7 DEF AbandonLink, KeyInv, Early
    <2>3. \A i \in 1 .. Len(abandoned') : handle[abandoned'[i]] \in Handles
      BY <1>0, <1>7, <2>2 DEF AbandonLink, KeyInv, LinkTypes
    <2>4. UNCHANGED <<namesakes, handle, linksByKey, outputHandles>> /\ linksByKey \subseteq Links
      BY Zenon, <1>0, <1>7 DEF AbandonLink, LinkTypes
    <2>5. HandlesAgree'
      BY <1>0, <2>4 DEF KeyInv, HandlesAgree, SameKey
    <2> QED
      BY Zenon, <1>0, <2>1, <2>2, <2>3, <2>4, <2>5 DEF KeyInv, Early
  <1>8. ASSUME NEW l \in Links, AllocateHandle(l) PROVE KeyInv'
    <2>1. CASE Goto(l, "failed") /\ UNCHANGED <<handle, linksByKey, outputHandles>>
      BY Zenon, <1>2, <1>8, <2>1 DEF AllocateHandle
    <2>2. CASE Goto(l, "closing") /\ UNCHANGED <<handle, linksByKey, outputHandles>>
      BY Zenon, <1>2, <1>8, <2>2 DEF AllocateHandle, Early
    <2>3. CASE /\ ~ \E k \in linksByKey : SameKey(l, k)
               /\ Free # {}
               /\ handle' = [handle EXCEPT ![l] = Lowest]
               /\ outputHandles' = outputHandles \cup {Lowest}
               /\ linksByKey' = linksByKey \cup {l}
               /\ Goto(l, "attach")
      <3>1. /\ \A k \in Links : phase'[k] = IF k = l THEN "attach" ELSE phase[k]
            /\ \A k \in Links : handle'[k] = IF k = l THEN Lowest ELSE handle[k]
        BY Zenon, <1>0, <2>3 DEF Goto, LinkTypes
      <3>2. Lowest \in Handles /\ Lowest \notin outputHandles
        BY Zenon, <2>3, LowestIsFree DEF Free
      <3>3. l \notin linksByKey /\ phase[l] = "allocate" /\ linksByKey \subseteq Links
            /\ UNCHANGED <<namesakes, abandoned>>
        BY Zenon, <1>0, <1>8 DEF AllocateHandle, KeyInv, Early, LinkTypes
      <3>4. outputHandles' = {handle'[k] : k \in linksByKey'}
        BY <1>0, <2>3, <3>1, <3>3 DEF KeyInv, HandlesAgree
      <3>5. \A k \in linksByKey : handle[k] # Lowest
        BY Zenon, <1>0, <3>2 DEF KeyInv, HandlesAgree
      <3>6. \A k, m \in linksByKey' : handle'[k] = handle'[m] => k = m
        BY <1>0, <2>3, <3>1, <3>3, <3>5 DEF KeyInv, HandlesAgree
      <3>7. \A k, m \in linksByKey' : SameKey(k, m)' => k = m
        BY <1>0, <2>3, <3>3 DEF KeyInv, HandlesAgree, SameKey
      <3>8. /\ \A k \in linksByKey' : phase'[k] \notin Early
            /\ \A k \in Links : phase'[k] \notin Early \cup {"failed"} => handle'[k] \in Handles
            /\ \A k \in linksByKey' : handle'[k] \in Handles
            /\ \A i \in 1 .. Len(abandoned') : handle'[abandoned'[i]] \in Handles
        BY <1>0, <2>3, <3>1, <3>2, <3>3 DEF KeyInv, Early, LinkTypes
      <3> QED
        BY Zenon, <3>4, <3>6, <3>7, <3>8 DEF KeyInv, HandlesAgree
    <2> QED
      BY Zenon, <1>8, <2>1, <2>2, <2>3 DEF AllocateHandle
  <1>9. CASE RxDetach
    <2> DEFINE l == rxQ[1].link
    <2>1. /\ l \in linksByKey /\ linksByKey' = linksByKey \ {l}
          /\ outputHandles' = outputHandles \ {handle[l]}
      BY Zenon, <1>0, <1>9, RxDetachFinds
    <2>2. UNCHANGED <<namesakes, handle, abandoned, phase>>
      BY Zenon, <1>9 DEF RxDetach
    <2> HIDE DEF l
    <2>3. outputHandles' = {handle'[k] : k \in linksByKey'}
      BY Zenon, <1>0, <2>1, <2>2 DEF KeyInv, HandlesAgree
    <2>4. \A k, m \in linksByKey' : handle'[k] = handle'[m] \/ SameKey(k, m)' => k = m
      BY <1>0, <2>1, <2>2 DEF KeyInv, HandlesAgree, SameKey
    <2> QED
      BY Zenon, <1>0, <2>1, <2>2, <2>3, <2>4 DEF KeyInv, HandlesAgree
  <1>10. CASE CloseSession \/ RxAttach \/ RxEnd
    BY Zenon, <1>3, <1>10 DEF CloseSession, RxAttach, RxEnd
  <1>11. CASE Peer \/ \E h \in Handles : PeerDetaches(h)
    BY Zenon, <1>3, <1>11 DEF Peer, PeerIgnores, PeerAttach, PeerDetach, PeerEnds, PeerDetaches
  <1>12. CASE UNCHANGED vars
    BY Zenon, <1>3, <1>12 DEF vars
  <1> QED
    BY Zenon, <1>4, <1>5, <1>6, <1>7, <1>8, <1>9, <1>10, <1>11, <1>12
       DEF Next, Create, Live, SessionMux

-----------------------------------------------------------------------------
(* How links and the session end *)

\* The session is done only after an end of the peer's.
LEMMA StepKeepsEndInv == LinkInv /\ [Next]_vars => EndInv'
  <1> SUFFICES ASSUME LinkInv, [Next]_vars PROVE EndInv'
    BY Zenon
  <1>0. LinkTypes /\ KeyInv /\ OneAttach /\ CatchesUp /\ EndInv
    BY Zenon DEF LinkInv, RouteInv
  <1>t. rxQ \in Seq(AnyFrame)
    BY Zenon, <1>0 DEF LinkTypes
  <1> USE DEF clientVars, setup, sessVars, peerVars
  <1> DEFINE Ends == \A i \in 1 .. Len(rxQ) : rxQ[i].type = "end" => peerEnded
  <1>1. ASSUME UNCHANGED <<rxQ, peerEnded, context>>, sess' = "done" <=> sess = "done",
               UNCHANGED abandoned \/ abandoned' = <<>> \/ sess = "done" \/ context = "ending"
        PROVE  EndInv'
    BY Zenon, <1>0, <1>1 DEF EndInv
  <1>2. ASSUME NEW l \in Links, New(l) \/ Create(l) \/ AbandonLink(l) \/ Live(l) PROVE EndInv'
    <2>1. /\ UNCHANGED <<rxQ, peerEnded, context, sess>>
          /\ UNCHANGED abandoned \/ abandoned' = <<>> \/ sess = "done" \/ context = "ending"
      BY Zenon, <1>2 DEF New, Create, FreeOne, FreeFails, FreeDone, AllocateHandle, CloseReturns, SendAttach,
                  ReceiveAttach, AbandonLink, Live, ReceiveDetach, SendDetach, LinkEnds
    <2> QED
      BY Zenon, <1>1, <2>1
  <1>3. CASE CloseSession \/ PeerIgnores \/ UNCHANGED vars
    BY Zenon, <1>1, <1>3 DEF CloseSession, SendEnd, PeerIgnores, vars
  <1>4. ASSUME Less(rxQ, rxQ'), UNCHANGED peerEnded PROVE Ends'
    <2>1. ASSUME NEW i \in 1 .. Len(rxQ') PROVE rxQ'[i] = rxQ[i + 1] /\ i + 1 \in 1 .. Len(rxQ)
      BY <1>4 DEF Less
    <2> QED
      BY Zenon, <1>0, <1>4, <2>1 DEF EndInv
  <1>5. CASE RxAttach
    <2>1. Less(rxQ, rxQ') /\ UNCHANGED <<sess, peerEnded, abandoned, context>>
      BY Zenon, <1>0, <1>5, RxAttachFinds DEF RxAttach
    <2> QED
      BY Zenon, <1>0, <1>4, <2>1 DEF EndInv
  <1>6. CASE RxDetach
    <2>1. Less(rxQ, rxQ') /\ UNCHANGED <<sess, peerEnded, abandoned, context>>
      BY Zenon, <1>0, <1>6, RxDetachFinds DEF RxDetach
    <2> QED
      BY Zenon, <1>0, <1>4, <2>1 DEF EndInv
  <1>7. CASE RxEnd
    <2>1. /\ Less(rxQ, rxQ') /\ rxQ[1].type = "end" /\ sess' = "done"
          /\ UNCHANGED <<peerEnded, abandoned, context>>
      BY Zenon, <1>0, <1>7, RxEndReads DEF RxEnd
    <2>2. 1 \in 1 .. Len(rxQ)
      BY <1>t, <2>1 DEF Less
    <2>3. peerEnded
      BY Zenon, <1>0, <2>1, <2>2 DEF EndInv
    <2> QED
      BY Zenon, <1>0, <1>4, <2>1, <2>3 DEF EndInv
  <1>8. ASSUME peerEnded' = TRUE, UNCHANGED <<sess, abandoned, context>> PROVE EndInv'
    BY Zenon, <1>0, <1>8 DEF EndInv
  <1>9. ASSUME NEW fr, More(rxQ, rxQ', fr), fr.type # "end", UNCHANGED <<peerEnded, sess, abandoned, context>>
        PROVE  EndInv'
    <2>1. ASSUME NEW i \in 1 .. Len(rxQ')
          PROVE rxQ'[i] = fr \/ (i \in 1 .. Len(rxQ) /\ rxQ'[i] = rxQ[i])
      BY <1>9, <1>t DEF More
    <2> QED
      BY Zenon, <1>0, <1>9, <2>1 DEF EndInv
  <1>10. CASE PeerEnds
    BY Zenon, <1>0, <1>8, <1>10, PeerEndsReads DEF PeerEnds
  <1>11. CASE PeerAttach
    <2> DEFINE fr == wire[1]
               refuse == Answer("refuse", fr, fr.link)
               detach == Answer("detach", fr, fr.link)
    <2>1. /\ fr.type = "attach"
          /\ \/ UNCHANGED peerEnded /\ More(rxQ, rxQ', fr)
             \/ UNCHANGED peerEnded /\ \E t : More(rxQ, t, refuse) /\ More(t, rxQ', detach)
             \/ peerEnded' = TRUE
      BY Zenon, <1>0, <1>11, PeerAttachAnswers
    <2>2. refuse.type # "end" /\ detach.type # "end"
      BY Zenon DEF Answer
    <2>3. UNCHANGED <<sess, abandoned, context>>
      BY Zenon, <1>11 DEF PeerAttach
    <2> HIDE DEF fr, refuse, detach
    <2>4. ASSUME UNCHANGED peerEnded, NEW t, More(rxQ, t, refuse), More(t, rxQ', detach) PROVE EndInv'
      <3>1. ASSUME NEW i \in 1 .. Len(rxQ')
            PROVE  rxQ'[i] = detach \/ rxQ'[i] = refuse \/ (i \in 1 .. Len(rxQ) /\ rxQ'[i] = rxQ[i])
        BY <2>4, <1>t DEF More
      <3> QED
        BY Zenon, <1>0, <2>2, <2>3, <2>4, <3>1 DEF EndInv
    <2> QED
      BY Zenon, <1>8, <1>9, <2>1, <2>3, <2>4
  <1>12. CASE PeerDetach
    <2> DEFINE detach == Answer("detach", wire[1], peerLinks[wire[1].handle])
    <2>1. \/ UNCHANGED peerEnded /\ rxQ' = rxQ
          \/ UNCHANGED peerEnded /\ More(rxQ, rxQ', detach)
          \/ peerEnded' = TRUE
      BY Zenon, <1>0, <1>12, PeerDetachAnswers
    <2>2. detach.type # "end"
      BY Zenon DEF Answer
    <2>3. UNCHANGED <<sess, abandoned, context>>
      BY Zenon, <1>12 DEF PeerDetach
    <2> HIDE DEF detach
    <2> QED
      BY Zenon, <1>1, <1>8, <1>9, <2>1, <2>2, <2>3
  <1>13. ASSUME NEW h \in Handles, PeerDetaches(h) PROVE EndInv'
    <2> DEFINE fr == [type |-> "detach", handle |-> h, link |-> peerLinks[h]]
    <2>1. More(rxQ, rxQ', fr) /\ fr.type # "end" /\ UNCHANGED <<peerEnded, sess, abandoned, context>>
      BY Zenon, <1>0, <1>13, PeerDetachesWrites DEF PeerDetaches
    <2> HIDE DEF fr
    <2> QED
      BY Zenon, <1>9, <2>1
  <1> QED
    BY Zenon, <1>2, <1>3, <1>5, <1>6, <1>7, <1>10, <1>11, <1>12, <1>13 DEF Next, SessionMux, Peer

\* Without contexts that end, every detach on the wire is for the link the peer has
\* at its handle.
LEMMA StepKeepsDetachInv == LinkInv /\ [Next]_vars => DetachInv'
  <1> USE DEF clientVars, setup, sessVars, peerVars
  <1> SUFFICES ASSUME LinkInv, [Next]_vars, peer' = "quiet", context' = "endless", ~peerEnded'
               PROVE  DetachOfLinks' /\ DetachOnWire' /\ DetachInRxQ'
    BY Zenon DEF DetachInv
  <1>0. LinkTypes /\ KeyInv /\ OneAttach /\ CatchesUp /\ QuietInv /\ EndInv /\ DetachInv
    BY Zenon DEF LinkInv, RouteInv
  <1>p. UNCHANGED setup /\ (UNCHANGED peerEnded \/ peerEnded' = TRUE)
    BY Zenon DEF Next, New, Create, FreeOne, FreeFails, FreeDone, AllocateHandle, CloseReturns, SendAttach,
           ReceiveAttach, AbandonLink, Live, ReceiveDetach, SendDetach, LinkEnds, CloseSession,
           SessionMux, RxAttach, RxDetach, RxEnd, Peer, PeerIgnores, PeerAttach, PeerDetach, PeerEnds,
           PeerDetaches, vars, PeerEnd
  <1>q. peer = "quiet" /\ context = "endless" /\ ~peerEnded
    BY <1>p
  <1>r. DetachOfLinks /\ DetachOnWire /\ DetachInRxQ
    BY Zenon, <1>0, <1>q DEF DetachInv
  <1>s. sess # "done" /\ abandoned = <<>> /\ leaving = {}
    BY Zenon, <1>0, <1>q DEF EndInv, QuietInv
  <1>t. /\ wire \in Seq(AnyFrame) /\ rxQ \in Seq(AnyFrame) /\ peerLinks \in [Handles -> Links \cup {NoLink}]
        /\ linksByKey \subseteq Links /\ handle \in [Links -> Handles \cup {-1}] /\ NoLink \notin Links
        /\ phase \in [Links -> Phases] /\ linkQ \in [Links -> Seq(LinkFrames)]
    BY Zenon, <1>0, LinksAssumption DEF LinkTypes
  <1>w. /\ \A i \in 1 .. Len(wire) : wire[i].type \in {"attach", "detach"} =>
              wire[i].link \in Links /\ wire[i].handle \in Handles
        /\ \A i \in 1 .. Len(rxQ) : rxQ[i].type \in {"attach", "detach"} =>
              rxQ[i].link \in Links /\ rxQ[i].handle \in Handles
    <2>1. \A i \in 1 .. Len(wire) : wire[i] \in AnyFrame
      BY <1>t
    <2>2. \A i \in 1 .. Len(rxQ) : rxQ[i] \in AnyFrame
      BY <1>t
    <2> QED
      BY Zenon, <2>1, <2>2, FrameFields
  <1> DEFINE Good == DetachOfLinks /\ DetachOnWire /\ DetachInRxQ
  \* A link that has not attached yet.
  <1>1. ASSUME NEW l \in Links, phase[l] \in Early,
               phase' = [phase EXCEPT ![l] = phase'[l]], phase'[l] \in Early \cup {"attach", "failed"},
               \A k \in Links : k # l => handle'[k] = handle[k],
               UNCHANGED <<linkQ, wire, rxQ, peerLinks>>
        PROVE  Good'
    <2>1. \A k \in Links : k # l => phase'[k] = phase[k]
      BY Zenon, <1>1, <1>t
    <2>2. linkQ[l] = <<>> /\ phase[l] \notin {"wait", "open", "mismatch", "detached", "gone"}
      BY Zenon, <1>1, <1>r DEF DetachOfLinks, DetachOf, Early
    <2>3. DetachOfLinks'
      BY <1>1, <1>r, <2>1, <2>2 DEF DetachOfLinks, DetachOf, Early
    <2>4. DetachOnWire'
      BY ZenonT(30), <1>1, <1>r, <1>w, <2>1, <2>2 DEF DetachOnWire
    <2>5. DetachInRxQ'
      BY <1>1, <1>r, <1>w, <2>1, <2>2 DEF DetachInRxQ
    <2> QED
      BY Zenon, <2>3, <2>4, <2>5
  <1>2. ASSUME NEW l \in Links, New(l) \/ FreeDone(l) \/ AllocateHandle(l) \/ CloseReturns(l) PROVE Good'
    <2>1. /\ phase[l] \in Early
          /\ phase' = [phase EXCEPT ![l] = phase'[l]] /\ phase'[l] \in Early \cup {"attach", "failed"}
          /\ \A k \in Links : k # l => handle'[k] = handle[k]
          /\ UNCHANGED <<linkQ, wire, rxQ, peerLinks>>
      BY Zenon, <1>2, <1>t DEF New, FreeDone, AllocateHandle, CloseReturns, Goto, Early
    <2> QED
      BY Zenon, <1>1, <2>1
  <1>3. ASSUME NEW l \in Links, FreeOne(l) \/ FreeFails(l) \/ AbandonLink(l) \/ LinkEnds(l) PROVE FALSE
    <2>1. freed \in Nat /\ Len(abandoned) = 0
      BY Zenon, <1>0, <1>s DEF LinkTypes
    <2> QED
      BY <1>3, <1>q, <1>s, <2>1 DEF FreeOne, FreeFails, AbandonLink, LinkEnds
  <1>4. ASSUME NEW l \in Links, SendAttach(l) PROVE Good'
    <2> DEFINE fr == Frame("attach", l)
    <2>1. /\ phase[l] = "attach" /\ UNCHANGED <<handle, linkQ, rxQ, peerLinks>>
          /\ phase' = [phase EXCEPT ![l] = "wait"]
      BY Zenon, <1>4, <1>q, <1>s DEF SendAttach, Goto
    <2>9. handle[l] \in Handles /\ (wire' = wire \/ More(wire, wire', fr))
      BY Zenon, <1>0, <1>4, SendAttachWrites
    <2>2. fr.type = "attach" /\ fr.link = l
      BY Zenon, <2>9, OurFrame
    <2> HIDE DEF fr
    <2>3. phase'[l] = "wait" /\ \A k \in Links : k # l => phase'[k] = phase[k]
      BY Zenon, <2>1, <1>t
    <2>4. linkQ[l] = <<>>
      BY Zenon, <2>1, <1>r DEF DetachOfLinks, DetachOf
    <2>5. DetachOfLinks'
      BY <1>r, <2>1, <2>3, <2>4 DEF DetachOfLinks, DetachOf, Early
    <2>6. DetachInRxQ'
      BY <1>r, <1>w, <2>1, <2>3 DEF DetachInRxQ
    <2>7. ASSUME NEW i \in 1 .. Len(wire')
          PROVE  wire'[i] = fr \/ (i \in 1 .. Len(wire) /\ wire'[i] = wire[i])
      BY <1>t, <2>9 DEF More
    <2>8. DetachOnWire'
      <3>1. ASSUME NEW i \in 1 .. Len(wire'), wire'[i].type = "attach"
            PROVE  phase'[wire'[i].link] = "wait" /\ linkQ'[wire'[i].link] = <<>>
        BY <1>r, <1>w, <2>1, <2>2, <2>3, <2>4, <2>7, <3>1 DEF DetachOnWire
      <3>2. ASSUME NEW i \in 1 .. Len(wire'), wire'[i].type = "detach"
            PROVE  i \in 1 .. Len(wire) /\ wire'[i] = wire[i]
        BY Zenon, <2>2, <2>7, <3>2
      <3>3. ASSUME NEW i \in 1 .. Len(wire'), wire'[i].type = "detach"
            PROVE  phase'[wire'[i].link] \in {"detached", "gone"} /\ peerLinks'[wire'[i].handle] = wire'[i].link
        BY <1>r, <1>w, <2>1, <2>3, <3>2, <3>3 DEF DetachOnWire
      <3>4. ASSUME NEW i \in 1 .. Len(wire'), NEW j \in 1 .. Len(wire'),
                   wire'[i].type = "detach", wire'[j].type = "detach", wire'[i].link = wire'[j].link
            PROVE  i = j
        BY Zenon, <1>r, <3>2, <3>4 DEF DetachOnWire
      <3> QED
        BY Zenon, <3>1, <3>3, <3>4 DEF DetachOnWire
    <2> QED
      BY Zenon, <2>5, <2>6, <2>8
  <1>5. ASSUME NEW l \in Links, ReceiveAttach(l) PROVE Good'
    <2>1. /\ phase[l] = "wait" /\ linkQ[l] # <<>> /\ linkQ' = [linkQ EXCEPT ![l] = Tail(@)]
          /\ UNCHANGED <<handle, wire, rxQ, peerLinks>>
      BY Zenon, <1>5 DEF ReceiveAttach
    <2>2. Len(linkQ[l]) = 1 /\ peerLinks[handle[l]] = l /\ linkQ[l][1].type # "refuse"
      <3>1. Len(linkQ[l]) = 1 /\ peerLinks[handle[l]] = l
        BY Zenon, <1>r, <2>1 DEF DetachOfLinks, DetachOf
      <3>2. 1 \in 1 .. Len(linkQ[l])
        BY <3>1
      <3> QED
        BY Zenon, <1>r, <3>1, <3>2 DEF DetachOfLinks, DetachOf
    <2>3. linkQ'[l] = <<>> /\ \A k \in Links : k # l => linkQ'[k] = linkQ[k]
      <3> DEFINE q == linkQ[l]
      <3>1. q \in Seq(LinkFrames) /\ Len(q) = 1 /\ linkQ'[l] = Tail(q)
        BY Zenon, <1>t, <2>1, <2>2
      <3>2. Tail(q) = <<>>
        <4> HIDE DEF q
        <4> QED
          BY <3>1
      <3> QED
        BY Zenon, <1>t, <2>1, <3>1, <3>2
    <2>4. Head(linkQ[l]) = linkQ[l][1]
      BY Zenon, <1>t, <2>1, TakenByLink
    <2>5. phase' = [phase EXCEPT ![l] = "open"] \/ phase' = [phase EXCEPT ![l] = "mismatch"]
      BY Zenon, <1>5, <2>2, <2>4 DEF ReceiveAttach, Goto
    <2>6. phase'[l] \in {"open", "mismatch"} /\ \A k \in Links : k # l => phase'[k] = phase[k]
      BY Zenon, <1>t, <2>5
    <2>7. DetachOfLinks'
      <3>1. phase'[l] \notin Early \cup {"refused", "ack", "answer", "abandoned", "attach", "wait"}
        BY Zenon, <2>6 DEF Early
      <3>2. \A i \in 1 .. Len(<<>>) : FALSE
        OBVIOUS
      <3>3. DetachOf(l, phase'[l], <<>>, l)
        BY Zenon, <3>1, <3>2 DEF DetachOf
      <3> QED
        <4>1. DetachOf(l, phase'[l], linkQ'[l], peerLinks[handle[l]])
          BY Zenon, <2>2, <2>3, <3>3
        <4>2. \A k \in Links : k # l => phase'[k] = phase[k] /\ linkQ'[k] = linkQ[k]
          BY Zenon, <2>3, <2>6
        <4>3. UNCHANGED <<handle, peerLinks>>
          BY Zenon, <2>1
        <4> QED
          BY Zenon, <1>r, <4>1, <4>2, <4>3, OthersDetach
    <2>8. DetachOnWire'
      BY <1>r, <1>w, <2>1, <2>3, <2>6 DEF DetachOnWire
    <2>9. DetachInRxQ'
      BY <1>r, <1>w, <2>1, <2>3, <2>6 DEF DetachInRxQ
    <2> QED
      BY Zenon, <2>7, <2>8, <2>9
  <1>6. ASSUME NEW l \in Links, ReceiveDetach(l) PROVE Good'
    <2>1. /\ phase[l] = "detached" /\ linkQ[l] # <<>> /\ linkQ' = [linkQ EXCEPT ![l] = Tail(@)]
          /\ phase' = [phase EXCEPT ![l] = "gone"]
          /\ UNCHANGED <<handle, wire, rxQ, peerLinks>>
      <3>1. phase[l] = "detached"
        BY Zenon, <1>6, <1>r DEF ReceiveDetach, DetachOfLinks, DetachOf
      <3> QED
        BY Zenon, <1>6, <3>1 DEF ReceiveDetach, Goto
    <2>2. \A k \in Links : k # l => linkQ'[k] = linkQ[k]
      BY Zenon, <1>t, <2>1
    <2>3. phase'[l] = "gone" /\ \A k \in Links : k # l => phase'[k] = phase[k]
      BY Zenon, <1>t, <2>1
    <2>4. \A i \in 1 .. Len(linkQ'[l]) : linkQ'[l][i].type # "refuse"
      <3>1. Less(linkQ[l], Tail(linkQ[l])) /\ linkQ'[l] = Tail(linkQ[l])
        BY Zenon, <1>t, <2>1, TakenByLink
      <3>2. ASSUME NEW i \in 1 .. Len(linkQ'[l])
            PROVE  linkQ'[l][i] = linkQ[l][i + 1] /\ i + 1 \in 1 .. Len(linkQ[l])
        BY <3>1 DEF Less
      <3> QED
        BY <1>r, <3>2 DEF DetachOfLinks, DetachOf
    <2>5. DetachOfLinks'
      BY <1>r, <2>1, <2>2, <2>3, <2>4 DEF DetachOfLinks, DetachOf, Early
    <2>6. DetachOnWire'
      BY <1>r, <1>w, <2>1, <2>2, <2>3 DEF DetachOnWire
    <2>7. DetachInRxQ'
      BY <1>r, <1>w, <2>1, <2>2, <2>3 DEF DetachInRxQ
    <2> QED
      BY Zenon, <2>5, <2>6, <2>7
  <1>7. ASSUME NEW l \in Links, SendDetach(l) PROVE Good'
    <2> DEFINE fr == Frame("detach", l)
    <2>1. /\ phase[l] \in {"open", "mismatch"} /\ peerLinks[handle[l]] = l
          /\ UNCHANGED <<handle, linkQ, rxQ, peerLinks>>
      BY Zenon, <1>7, <1>r DEF SendDetach, DetachOfLinks, DetachOf
    <2>2. /\ handle[l] \in Handles /\ (wire' = wire \/ More(wire, wire', fr))
          /\ phase' = [phase EXCEPT ![l] = IF phase[l] = "open" THEN "detached" ELSE "gone"]
      BY Zenon, <1>0, <1>7, <1>q, SendDetachWrites DEF Goto
    <2>3. fr.type = "detach" /\ fr.link = l /\ fr.handle = handle[l]
      BY Zenon, <2>2, OurFrame
    <2> HIDE DEF fr
    <2>4. phase'[l] \in {"detached", "gone"} /\ \A k \in Links : k # l => phase'[k] = phase[k]
      BY Zenon, <2>2, <1>t
    <2>5. DetachOfLinks'
      BY Zenon, <1>r, <2>1, <2>4 DEF DetachOfLinks, DetachOf, Early
    <2>6. DetachInRxQ'
      BY Zenon, <1>r, <1>w, <2>1, <2>4 DEF DetachInRxQ
    <2>7. ASSUME NEW i \in 1 .. Len(wire')
          PROVE  (i \in 1 .. Len(wire) /\ wire'[i] = wire[i]) \/ (i = Len(wire) + 1 /\ wire'[i] = fr)
      BY <1>t, <2>2 DEF More
    <2>8. \A i \in 1 .. Len(wire) : wire[i].type \in {"attach", "detach"} => wire[i].link # l
      BY Zenon, <1>r, <2>1 DEF DetachOnWire
    <2>9. DetachOnWire'
      <3>1. ASSUME NEW i \in 1 .. Len(wire'), wire'[i].type = "attach"
            PROVE  phase'[wire'[i].link] = "wait" /\ linkQ'[wire'[i].link] = <<>>
        BY <1>r, <1>w, <2>1, <2>3, <2>4, <2>7, <2>8, <3>1 DEF DetachOnWire
      <3>2. ASSUME NEW i \in 1 .. Len(wire'), wire'[i].type = "detach"
            PROVE  phase'[wire'[i].link] \in {"detached", "gone"} /\ peerLinks'[wire'[i].handle] = wire'[i].link
        BY <1>r, <1>w, <2>1, <2>3, <2>4, <2>7, <2>8, <3>2 DEF DetachOnWire
      <3>3. ASSUME NEW i \in 1 .. Len(wire'), NEW j \in 1 .. Len(wire'),
                   wire'[i].type = "detach", wire'[j].type = "detach", wire'[i].link = wire'[j].link
            PROVE  i = j
        BY Zenon, <1>r, <2>3, <2>7, <2>8, <3>3 DEF DetachOnWire
      <3> QED
        BY Zenon, <3>1, <3>2, <3>3 DEF DetachOnWire
    <2> QED
      BY Zenon, <2>5, <2>6, <2>9
  <1>8. CASE CloseSession
    <2>1. UNCHANGED <<phase, handle, linkQ, rxQ, peerLinks>> /\ wire' = Append(wire, EndFrame)
      BY Zenon, <1>8 DEF CloseSession, SendEnd, Write
    <2>2. More(wire, wire', EndFrame) /\ EndFrame.type = "end"
      BY Zenon, <1>0, <2>1, EndIsWritten
    <2>3. ASSUME NEW i \in 1 .. Len(wire'), wire'[i].type # "end"
          PROVE  i \in 1 .. Len(wire) /\ wire'[i] = wire[i]
      BY <1>t, <2>2, <2>3 DEF More
    <2>4. DetachOnWire'
      BY <1>r, <2>1, <2>3 DEF DetachOnWire
    <2> QED
      BY Zenon, <1>r, <2>1, <2>4 DEF DetachOfLinks, DetachOf, DetachInRxQ
  <1>9. CASE UNCHANGED vars
    BY ZenonT(30), <1>r, <1>9 DEF vars, DetachOfLinks, DetachOf, DetachOnWire, DetachInRxQ
  <1>10. CASE RxAttach
    <2> DEFINE fr == rxQ[1]
               l == fr.link
    <2>1. /\ Less(rxQ, rxQ') /\ fr.type \in Attaches /\ l \in linksByKey /\ fr.handle = handle[l]
          /\ linkQ' = [linkQ EXCEPT ![l] = Append(@, fr)] /\ UNCHANGED wire
      BY Zenon, <1>0, <1>10, RxAttachFinds
    <2>2. UNCHANGED <<phase, handle, peerLinks>> /\ l \in Links /\ 1 \in 1 .. Len(rxQ)
      <3>1. UNCHANGED <<phase, handle, peerLinks>>
        BY Zenon, <1>10 DEF RxAttach
      <3> QED
        BY Zenon, <1>t, <2>1, <3>1, LessFirst
    <2>3. fr.type = "attach" /\ phase[l] = "wait" /\ linkQ[l] = <<>> /\ peerLinks[handle[l]] = l
      BY Zenon, <1>r, <2>1, <2>2 DEF DetachInRxQ, Attaches
    <2>4. \A i \in 1 .. Len(wire) : wire[i].type = "attach" => wire[i].link # l
      BY Zenon, <1>0, <2>2 DEF OneAttach, OnWire, Unknown
    <2>5. \A i \in 1 .. Len(rxQ) : i # 1 /\ rxQ[i].type = "attach" => rxQ[i].link # l
      BY Zenon, <1>0, <2>2, <2>3 DEF OneAttach, Answered, Attaches
    <2> HIDE DEF fr, l
    <2>6. linkQ'[l] = <<fr>> /\ \A k \in Links : k # l => linkQ'[k] = linkQ[k]
      <3>1. Append(<<>>, fr) = <<fr>>
        OBVIOUS
      <3> QED
        BY Zenon, <1>t, <2>1, <2>2, <2>3, <3>1
    <2>7. Len(linkQ'[l]) = 1 /\ \A i \in 1 .. Len(linkQ'[l]) : linkQ'[l][i].type # "refuse"
      <3>1. Len(<<fr>>) = 1 /\ <<fr>>[1] = fr
        BY Zenon
      <3> QED
        BY <2>3, <2>6, <3>1
    <2>8. DetachOfLinks'
      <3>1. "wait" \notin Early \cup {"refused", "ack", "answer", "abandoned", "attach", "open", "mismatch"}
        BY Zenon DEF Early
      <3>2. DetachOf(l, phase'[l], linkQ'[l], peerLinks[handle[l]])
        BY Zenon, <2>2, <2>3, <2>7, <3>1 DEF DetachOf
      <3> QED
        BY Zenon, <1>r, <2>2, <2>6, <3>2, OthersDetach
    <2>9. DetachOnWire'
      BY <1>r, <1>w, <2>1, <2>2, <2>4, <2>6 DEF DetachOnWire
    <2>10. ASSUME NEW i \in 1 .. Len(rxQ')
           PROVE  rxQ'[i] = rxQ[i + 1] /\ i + 1 \in 1 .. Len(rxQ) /\ i + 1 # 1
      BY <2>1 DEF Less
    <2>11. DetachInRxQ'
      <3> SUFFICES ASSUME NEW i \in 1 .. Len(rxQ')
                   PROVE  /\ rxQ'[i].type # "refuse"
                          /\ rxQ'[i].type = "attach" =>
                                /\ phase'[rxQ'[i].link] = "wait" /\ linkQ'[rxQ'[i].link] = <<>>
                                /\ peerLinks'[rxQ'[i].handle] = rxQ'[i].link
                          /\ rxQ'[i].type = "detach" => phase'[rxQ'[i].link] \in {"detached", "gone"}
        BY Zenon DEF DetachInRxQ
      <3> DEFINE g == i + 1
      <3>1. rxQ'[i] = rxQ[g] /\ g \in 1 .. Len(rxQ) /\ g # 1
        BY Zenon, <2>10
      <3> HIDE DEF g
      <3> QED
        BY <1>r, <1>w, <2>2, <2>5, <2>6, <3>1 DEF DetachInRxQ
    <2> QED
      BY Zenon, <2>8, <2>9, <2>11
  <1>11. CASE RxDetach
    <2> DEFINE fr == rxQ[1]
               l == fr.link
    <2>1. /\ Less(rxQ, rxQ') /\ fr.type = "detach" /\ l \in Links /\ fr \in LinkFrames
          /\ linkQ' = [linkQ EXCEPT ![l] = Append(@, fr)] /\ UNCHANGED wire
      BY Zenon, <1>0, <1>11, RxDetachFinds
    <2>2. UNCHANGED <<phase, handle, peerLinks>> /\ 1 \in 1 .. Len(rxQ)
      <3>1. UNCHANGED <<phase, handle, peerLinks>>
        BY Zenon, <1>11 DEF RxDetach
      <3> QED
        BY Zenon, <2>1, <3>1, LessFirst
    <2>3. phase[l] \in {"detached", "gone"}
      BY Zenon, <1>r, <2>1, <2>2 DEF DetachInRxQ
    <2> HIDE DEF fr, l
    <2>4. linkQ'[l] = Append(linkQ[l], fr) /\ \A k \in Links : k # l => linkQ'[k] = linkQ[k]
      BY Zenon, <1>t, <2>1
    <2>5. \A i \in 1 .. Len(linkQ'[l]) : linkQ'[l][i].type # "refuse"
      <3> DEFINE q == linkQ[l]
      <3>1. q \in Seq(LinkFrames) /\ \A i \in 1 .. Len(q) : q[i].type # "refuse"
        BY Zenon, <1>r, <1>t, <2>1 DEF DetachOfLinks, DetachOf
      <3>2. linkQ'[l] = Append(q, fr)
        BY Zenon, <2>4
      <3> HIDE DEF q
      <3>3. \A i \in 1 .. Len(Append(q, fr)) : Append(q, fr)[i] = fr \/ (i \in 1 .. Len(q) /\ Append(q, fr)[i] = q[i])
        <4>1. q \in Seq(LinkFrames) /\ fr \in LinkFrames
          BY Zenon, <2>1, <3>1
        <4> QED
          BY <4>1
      <3> QED
        BY Zenon, <2>1, <3>1, <3>2, <3>3
    <2>6. DetachOfLinks'
      <3>1. phase[l] \notin Early \cup {"refused", "ack", "answer", "abandoned", "attach", "open", "mismatch", "wait"}
        BY Zenon, <2>3 DEF Early
      <3>2. DetachOf(l, phase'[l], linkQ'[l], peerLinks[handle[l]])
        BY Zenon, <2>2, <2>5, <3>1 DEF DetachOf
      <3> QED
        BY Zenon, <1>r, <2>1, <2>2, <2>4, <3>2, OthersDetach
    <2>7. DetachOnWire'
      BY ZenonT(30), <1>r, <1>w, <2>1, <2>2, <2>3, <2>4 DEF DetachOnWire
    <2>8. ASSUME NEW i \in 1 .. Len(rxQ') PROVE rxQ'[i] = rxQ[i + 1] /\ i + 1 \in 1 .. Len(rxQ)
      BY <2>1 DEF Less
    <2>9. DetachInRxQ'
      <3> SUFFICES ASSUME NEW i \in 1 .. Len(rxQ')
                   PROVE  /\ rxQ'[i].type # "refuse"
                          /\ rxQ'[i].type = "attach" =>
                                /\ phase'[rxQ'[i].link] = "wait" /\ linkQ'[rxQ'[i].link] = <<>>
                                /\ peerLinks'[rxQ'[i].handle] = rxQ'[i].link
                          /\ rxQ'[i].type = "detach" => phase'[rxQ'[i].link] \in {"detached", "gone"}
        BY Zenon DEF DetachInRxQ
      <3> DEFINE g == i + 1
      <3>1. rxQ'[i] = rxQ[g] /\ g \in 1 .. Len(rxQ)
        BY Zenon, <2>8
      <3> HIDE DEF g
      <3> QED
        BY ZenonT(30), <1>r, <1>w, <2>1, <2>2, <2>3, <2>4, <3>1 DEF DetachInRxQ
    <2> QED
      BY Zenon, <2>6, <2>7, <2>9
  <1>12. CASE RxEnd
    <2>1. Less(rxQ, rxQ') /\ rxQ[1].type = "end"
      BY Zenon, <1>0, <1>12, RxEndReads
    <2>2. 1 \in 1 .. Len(rxQ)
      BY <1>t, <2>1 DEF Less
    <2> QED
      BY Zenon, <1>0, <1>q, <2>1, <2>2 DEF EndInv
  \* The peer reads a frame.
  <1>13. ASSUME Less(wire, wire'), UNCHANGED <<phase, linkQ>>,
                \A i \in 2 .. Len(wire) : wire[i].type = "detach" => peerLinks'[wire[i].handle] = wire[i].link
         PROVE  DetachOnWire'
    <2>1. ASSUME NEW i \in 1 .. Len(wire')
          PROVE  wire'[i] = wire[i + 1] /\ i + 1 \in 2 .. Len(wire) /\ i + 1 \in 1 .. Len(wire)
      BY <1>13 DEF Less
    <2>2. ASSUME NEW i \in 1 .. Len(wire'), wire'[i].type = "attach"
          PROVE  phase'[wire'[i].link] = "wait" /\ linkQ'[wire'[i].link] = <<>>
      BY <1>13, <1>r, <2>1, <2>2 DEF DetachOnWire
    <2>3. ASSUME NEW i \in 1 .. Len(wire'), wire'[i].type = "detach"
          PROVE  phase'[wire'[i].link] \in {"detached", "gone"} /\ peerLinks'[wire'[i].handle] = wire'[i].link
      BY <1>13, <1>r, <2>1, <2>3 DEF DetachOnWire
    <2>4. ASSUME NEW i \in 1 .. Len(wire'), NEW j \in 1 .. Len(wire'),
                 wire'[i].type = "detach", wire'[j].type = "detach", wire'[i].link = wire'[j].link
          PROVE  i = j
      <3>1. i + 1 = j + 1
        BY ZenonT(30), <1>r, <2>1, <2>4 DEF DetachOnWire
      <3> QED
        BY <3>1
    <2> QED
      BY Zenon, <2>2, <2>3, <2>4 DEF DetachOnWire
  <1>14. CASE PeerAttach
    <2> DEFINE fr == wire[1]
               h == fr.handle
               x == fr.link
    <2>1. /\ Less(wire, wire') /\ fr.type = "attach" /\ h \in Handles /\ x \in Links
          /\ peerLinks[h] = NoLink /\ peerLinks' = [peerLinks EXCEPT ![h] = x]
          /\ More(rxQ, rxQ', fr)
      BY Zenon, <1>0, <1>14, <1>q, PeerAttachAnswers
    <2>2. UNCHANGED <<phase, handle, linkQ>> /\ 1 \in 1 .. Len(wire)
      <3>1. UNCHANGED <<phase, handle, linkQ>>
        BY Zenon, <1>14 DEF PeerAttach
      <3> QED
        BY Zenon, <2>1, <3>1, LessFirst
    <2>3. phase[x] = "wait" /\ linkQ[x] = <<>>
      BY Zenon, <1>r, <2>1, <2>2 DEF DetachOnWire
    <2>4. fr.link = x /\ fr.handle = h
      BY Zenon
    <2> HIDE DEF fr, h, x
    <2>5. peerLinks'[h] = x /\ \A k \in Handles : peerLinks[k] # NoLink => peerLinks'[k] = peerLinks[k]
      BY Zenon, <1>t, <2>1
    <2>6. DetachOfLinks'
      <3> SUFFICES ASSUME NEW k \in Links PROVE DetachOf(k, phase[k], linkQ[k], peerLinks'[handle[k]])
        BY Zenon, <2>2 DEF DetachOfLinks
      <3>1. phase[k] \in {"wait", "open", "mismatch"} => handle[k] \in Handles
        BY Zenon, <1>0 DEF KeyInv, Early
      <3>2. DetachOf(k, phase[k], linkQ[k], peerLinks[handle[k]])
        BY Zenon, <1>r DEF DetachOfLinks
      <3>3. phase[k] \in {"wait", "open", "mismatch"} /\ peerLinks[handle[k]] = k => peerLinks'[handle[k]] = k
        BY Zenon, <1>t, <2>5, <3>1
      <3> QED
        BY Zenon, <3>2, <3>3 DEF DetachOf
    <2>7. DetachOnWire'
      <3>1. ASSUME NEW i \in 2 .. Len(wire), wire[i].type = "detach" PROVE peerLinks'[wire[i].handle] = wire[i].link
        <4>1. i \in 1 .. Len(wire)
          BY <1>t
        <4> QED
          BY <1>r, <1>t, <1>w, <2>5, <3>1, <4>1 DEF DetachOnWire
      <3> QED
        BY Zenon, <1>13, <2>1, <2>2, <3>1
    <2>8. ASSUME NEW i \in 1 .. Len(rxQ')
          PROVE  rxQ'[i] = fr \/ (i \in 1 .. Len(rxQ) /\ rxQ'[i] = rxQ[i])
      <3>1. Len(rxQ) \in Nat
        BY <1>t
      <3> QED
        BY ZenonT(30), <2>1, <3>1, MoreOld
    <2>9. DetachInRxQ'
      <3> SUFFICES ASSUME NEW i \in 1 .. Len(rxQ')
                   PROVE  /\ rxQ'[i].type # "refuse"
                          /\ rxQ'[i].type = "attach" =>
                                /\ phase'[rxQ'[i].link] = "wait" /\ linkQ'[rxQ'[i].link] = <<>>
                                /\ peerLinks'[rxQ'[i].handle] = rxQ'[i].link
                          /\ rxQ'[i].type = "detach" => phase'[rxQ'[i].link] \in {"detached", "gone"}
        BY Zenon DEF DetachInRxQ
      <3>1. CASE rxQ'[i] = fr
        BY Zenon, <2>1, <2>2, <2>3, <2>4, <2>5, <3>1
      <3>2. CASE i \in 1 .. Len(rxQ) /\ rxQ'[i] = rxQ[i]
        BY <1>r, <1>t, <1>w, <2>2, <2>5, <3>2 DEF DetachInRxQ
      <3> QED
        BY Zenon, <2>8, <3>1, <3>2
    <2> QED
      BY Zenon, <2>6, <2>7, <2>9
  <1>15. CASE PeerDetach
    <2> DEFINE fr == wire[1]
               h == fr.handle
               x == fr.link
               detach == Answer("detach", fr, peerLinks[h])
    <2>1. /\ Less(wire, wire') /\ fr.type = "detach" /\ h \in Handles /\ x \in Links
          /\ peerLinks' = [peerLinks EXCEPT ![h] = NoLink]
          /\ More(rxQ, rxQ', detach)
      BY Zenon, <1>0, <1>15, <1>q, <1>s, PeerDetachAnswers
    <2>2. UNCHANGED <<phase, handle, linkQ>> /\ 1 \in 1 .. Len(wire)
      <3>1. UNCHANGED <<phase, handle, linkQ>>
        BY Zenon, <1>15 DEF PeerDetach
      <3> QED
        BY Zenon, <2>1, <3>1, LessFirst
    <2>3. /\ phase[x] \in {"detached", "gone"} /\ peerLinks[h] = x
          /\ \A i \in 2 .. Len(wire) : wire[i].type = "detach" => wire[i].link # x
      <3>1. phase[x] \in {"detached", "gone"} /\ peerLinks[h] = x
        BY Zenon, <1>r, <2>1, <2>2 DEF DetachOnWire
      <3>2. \A i \in 2 .. Len(wire) : i \in 1 .. Len(wire) /\ i # 1
        BY <1>t
      <3> QED
        BY Zenon, <1>r, <2>1, <2>2, <3>1, <3>2 DEF DetachOnWire
    <2>4. detach.type = "detach" /\ detach.link = x
      BY Zenon, <2>3 DEF Answer
    <2> HIDE DEF fr, h, x, detach
    <2>5. \A k \in Handles : peerLinks[k] # x => peerLinks'[k] = peerLinks[k]
      BY Zenon, <1>t, <2>1, <2>3
    <2>6. DetachOfLinks'
      <3> SUFFICES ASSUME NEW k \in Links PROVE DetachOf(k, phase[k], linkQ[k], peerLinks'[handle[k]])
        BY Zenon, <2>2 DEF DetachOfLinks
      <3>1. phase[k] \in {"wait", "open", "mismatch"} => handle[k] \in Handles /\ k # x
        BY Zenon, <1>0, <2>3 DEF KeyInv, Early
      <3>2. DetachOf(k, phase[k], linkQ[k], peerLinks[handle[k]])
        BY Zenon, <1>r DEF DetachOfLinks
      <3>3. phase[k] \in {"wait", "open", "mismatch"} /\ peerLinks[handle[k]] = k => peerLinks'[handle[k]] = k
        BY Zenon, <2>5, <3>1
      <3> QED
        BY Zenon, <3>2, <3>3 DEF DetachOf
    <2>7. DetachOnWire'
      <3>1. ASSUME NEW i \in 2 .. Len(wire), wire[i].type = "detach" PROVE peerLinks'[wire[i].handle] = wire[i].link
        <4>1. i \in 1 .. Len(wire)
          BY <1>t
        <4> QED
          BY Zenon, <1>r, <1>w, <2>3, <2>5, <3>1, <4>1 DEF DetachOnWire
      <3> QED
        BY Zenon, <1>13, <2>1, <2>2, <3>1
    <2>8. ASSUME NEW i \in 1 .. Len(rxQ')
          PROVE  rxQ'[i] = detach \/ (i \in 1 .. Len(rxQ) /\ rxQ'[i] = rxQ[i])
      <3>1. Len(rxQ) \in Nat /\ More(rxQ, rxQ', detach)
        BY <1>t, <2>1
      <3> QED
        BY Zenon, <3>1, MoreOld
    <2>9. DetachInRxQ'
      BY <1>r, <1>w, <2>2, <2>3, <2>4, <2>5, <2>8 DEF DetachInRxQ
    <2> QED
      BY Zenon, <2>6, <2>7, <2>9
  <1>16. CASE PeerIgnores \/ PeerEnds \/ \E h \in Handles : PeerDetaches(h)
    BY Zenon, <1>16, <1>q DEF PeerIgnores, PeerEnds, PeerEnd, PeerDetaches
  <1> QED
    BY Zenon, <1>2, <1>3, <1>4, <1>5, <1>6, <1>7, <1>8, <1>9, <1>10, <1>11, <1>12, <1>14, <1>15, <1>16
    DEF Next, Create, Live, SessionMux, Peer

-----------------------------------------------------------------------------
(* The theorems *)

\* A session begins without links.
LEMMA LinkInvInit == Init => LinkInv
  <1> SUFFICES ASSUME Init PROVE LinkInv
    BY Zenon
  <1>1. /\ \A l \in Links : phase[l] = "new" /\ handle[l] = -1 /\ linkQ[l] = <<>>
        /\ \A h \in Handles : linkFromInputHandle[h] = NoLink /\ peerLinks[h] = NoLink
        /\ linksByKey = {} /\ outputHandles = {} /\ leaving = {} /\ peerEnded = FALSE
        /\ wire = <<>> /\ rxQ = <<>> /\ abandoned = <<>> /\ sess = "open"
        /\ Len(wire) = 0 /\ Len(rxQ) = 0 /\ Len(abandoned) = 0
    BY Zenon DEF Init
  <1>2. LinkTypes
    BY DEF Init, LinkTypes, Phases, Handles
  <1>3. KeyInv
    BY <1>1 DEF KeyInv, HandlesAgree, Early
  <1>e. (\A i \in 1 .. Len(wire) : FALSE) /\ (\A i \in 1 .. Len(rxQ) : FALSE)
    BY <1>1
  <1>4. OneAttach
    <2>1. \A l \in Links : Unknown(l)
      BY Zenon, <1>1, <1>e, LinksAssumption DEF Unknown
    <2>2. Unsent
      BY Zenon, <1>1, <1>e, <2>1 DEF Unsent
    <2>3. OnWire /\ Answered /\ InTable
      BY Zenon, <1>1, <1>e DEF OnWire, Answered, InTable
    <2> QED
      BY Zenon, <2>2, <2>3 DEF OneAttach
  <1>5. CatchesUp
    <2> DEFINE table == [h \in Handles |-> NoLink]
               view == [i \in 0 .. 0 |-> table]
    <2>1. linkFromInputHandle = table /\ Filed = table
      BY Zenon DEF Init, Filed
    <2>2. view \in [0 .. 0 -> Tables] /\ view[0] = table
      BY DEF Tables
    <2>3. \A i \in 1 .. Len(rxQ) : FALSE
      BY <1>1
    <2> HIDE DEF view, table
    <2> QED
      BY Zenon, <1>1, <2>1, <2>2, <2>3 DEF CatchesUp, Chain
  <1>6. RouteInv
    BY <1>1, <1>5 DEF RouteInv, FramesReachTheirLink
  <1>7. QuietInv /\ EndInv
    BY <1>1 DEF QuietInv, EndInv
  <1>8. DetachInv
    BY <1>1 DEF DetachInv, DetachOfLinks, DetachOf, DetachOnWire, DetachInRxQ, Early
  <1> QED
    BY Zenon, <1>2, <1>3, <1>4, <1>6, <1>7, <1>8 DEF LinkInv

\* The invariant of the links holds throughout.
LEMMA AlwaysLinkInv == Spec => []LinkInv
  <1>1. LinkInv /\ [Next]_vars => LinkInv'
    BY Zenon, StepKeepsLinkTypes, StepKeepsKeyInv, StepKeepsOneAttach, StepKeepsRouteInv, StepKeepsQuietInv,
       StepKeepsEndInv, StepKeepsDetachInv DEF LinkInv
  <1> QED
    BY <1>1, LinkInvInit, PTL DEF Spec

\* The bitmap of handles and the links by key stay one to one, whatever the peer and
\* the contexts do (session.go, allocateHandle and deallocateHandle).
THEOREM LinksHandlesAgree == Spec => []HandlesAgree
  <1>1. LinkInv => HandlesAgree
    BY Zenon DEF LinkInv, KeyInv
  <1> QED
    BY <1>1, AlwaysLinkInv, PTL

\* muxFrameToLink passes an attach or a detach to the link whose end at the peer
\* sent it, however handles are given back and taken again.
THEOREM LinksFramesReachTheirLink == Spec => []FramesReachTheirLink
  <1>1. LinkInv => FramesReachTheirLink
    BY Zenon DEF LinkInv, RouteInv
  <1> QED
    BY <1>1, AlwaysLinkInv, PTL

\* With a peer that only answers, a handle is taken again only after the peer has
\* let go of it, and without ending contexts a detach finds its own link.
THEOREM LinksQuietPeerAgrees == Spec => []QuietPeerAgrees
  <1>1. ASSUME LinkInv, peer = "quiet" PROVE HandleIsFree
    <2> SUFFICES ASSUME wire # <<>>, Head(wire).type = "attach"
                 PROVE  peerLinks[Head(wire).handle] = NoLink
      BY Zenon DEF HandleIsFree
    <2>1. wire \in Seq(AnyFrame) /\ KeyInv /\ OneAttach /\ QuietInv
      BY Zenon, <1>1 DEF LinkInv, LinkTypes
    <2>2. Head(wire) = wire[1] /\ 1 \in 1 .. Len(wire) /\ wire[1] \in AnyFrame
      BY <2>1
    <2> DEFINE m == wire[1].link
               h == wire[1].handle
               x == peerLinks[h]
    <2>3. m \in linksByKey /\ h = handle[m] /\ Unknown(m)
      BY Zenon, <2>1, <2>2 DEF OneAttach, OnWire
    <2>4. h \in Handles
      BY Zenon, <2>2, FrameFields
    <2>5. x # NoLink => x \in linksByKey /\ handle[x] = h
      BY Zenon, <1>1, <2>1, <2>4 DEF QuietInv
    <2>6. x # m
      BY Zenon, <2>3, <2>4 DEF Unknown
    <2> HIDE DEF m, h, x
    <2>7. x = NoLink
      BY Zenon, <2>1, <2>3, <2>5, <2>6 DEF KeyInv, HandlesAgree
    <2> QED
      BY Zenon, <2>2, <2>7 DEF h, x
  <1>2. ASSUME LinkInv, peer = "quiet", context = "endless" PROVE DetachFindsItsLink
    <2> SUFFICES ASSUME wire # <<>>, ~peerEnded, Head(wire).type = "detach"
                 PROVE  peerLinks[Head(wire).handle] = Head(wire).link
      BY Zenon DEF DetachFindsItsLink
    <2>1. wire \in Seq(AnyFrame) /\ DetachOnWire
      BY Zenon, <1>2 DEF LinkInv, LinkTypes, DetachInv
    <2>2. Head(wire) = wire[1] /\ 1 \in 1 .. Len(wire)
      BY <2>1
    <2> QED
      BY Zenon, <2>1, <2>2 DEF DetachOnWire
  <1>3. LinkInv => QuietPeerAgrees
    BY Zenon, <1>1, <1>2 DEF QuietPeerAgrees
  <1> QED
    BY <1>3, AlwaysLinkInv, PTL
=============================================================================
