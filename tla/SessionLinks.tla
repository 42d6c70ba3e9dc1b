---------------------------- MODULE SessionLinks ----------------------------
(***************************************************************************)
(* The links of one session (session.go, link.go): the goroutines that      *)
(* create links (freeAbandonedLinks, allocateHandle, attach), the life of   *)
(* each link up to its detach, the part of Session.mux that routes attach,  *)
(* detach and end frames and frees handles, and the peer's link table.      *)
(* The frames of each direction travel in order; the peer answers with its  *)
(* own handle equal to ours.                                                *)
(***************************************************************************)
EXTENDS Integers, Sequences

CONSTANTS Links,          \* the link objects that are created, each once
          Clashes,        \* which links may be created under one and the same name
          HandleMax,      \* s.handleMax
          NoLink,
          Peers,          \* kinds of peer: "quiet", or "active" (refuses, detaches, ends)
          Contexts        \* contexts given to NewSender and NewReceiver: "endless", "ending"

ASSUME LinksAssumption ==
    /\ Clashes \subseteq SUBSET Links /\ NoLink \notin Links
    /\ HandleMax \in Nat
    /\ Peers \subseteq {"quiet", "active"} /\ Contexts \subseteq {"endless", "ending"}

VARIABLES peer,       \* the kind of peer
          context,    \* the kind of contexts
          namesakes,  \* the links created under one and the same name
          phase,      \* where each link is in its life
          handle,     \* l.outputHandle (-1: none yet)
          linkQ,      \* l.rxQ: attach and detach frames
          linksByKey, \* links registered under their key
          outputHandles, \* the bitmap of allocated handles
          linkFromInputHandle, \* links by remote handle
          abandoned,  \* s.abandonedLinks
          freeing,    \* holder of abandonedLinksMu, in freeAbandonedLinks
          freed,      \* how many of the abandoned links it has detached
          linksMu,    \* holder of linksMu, if it keeps it over a wait
          sess,       \* "open", "ending" (endSent closed), "done"
          wire,       \* frames written to the network, not yet read by the peer
          rxQ,        \* frames from the peer, up to s.rxQ
          peerLinks,  \* the peer's table: link attached by handle
          leaving,    \* handles for which the peer has sent its detach
          peerEnded   \* the peer has sent or answered end

setup == <<peer, context, namesakes>>
clientVars == <<setup, phase, handle, linkQ, abandoned, freeing, freed>>
sessVars == <<linksByKey, outputHandles, linkFromInputHandle, linksMu, sess>>
peerVars == <<peerLinks, leaving, peerEnded>>
vars == <<clientVars, sessVars, wire, rxQ, peerVars>>

Handles == 0 .. HandleMax

Init ==
    /\ peer \in Peers /\ context \in Contexts /\ namesakes \in Clashes
    /\ phase = [l \in Links |-> "new"] /\ handle = [l \in Links |-> -1]
    /\ linkQ = [l \in Links |-> <<>>]
    /\ linksByKey = {} /\ outputHandles = {}
    /\ linkFromInputHandle = [h \in Handles |-> NoLink]
    /\ abandoned = <<>> /\ freeing = NoLink /\ freed = 0 /\ linksMu = NoLink
    /\ sess = "open" /\ wire = <<>> /\ rxQ = <<>>
    /\ peerLinks = [h \in Handles |-> NoLink] /\ leaving = {} /\ peerEnded = FALSE

\* Links with the same key.
SameKey(l, k) == l = k \/ {l, k} \subseteq namesakes

Goto(l, to) == phase' = [phase EXCEPT ![l] = to]

\* A frame of link l, as the network sees it.
Frame(type, l) == [type |-> type, handle |-> handle[l], link |-> l]
Write(fr) == wire' = Append(wire, fr)
EndFrame == [type |-> "end", handle |-> -1, link |-> NoLink]

-----------------------------------------------------------------------------
(* newSenderForSession, newReceiverForSession and link.attach *)

\* NewSender or NewReceiver: attach takes abandonedLinksMu first.
New(l) ==
    /\ phase[l] = "new" /\ freeing = NoLink
    /\ Goto(l, "free") /\ freeing' = l /\ freed' = 0
    /\ UNCHANGED <<setup, handle, linkQ, abandoned, sessVars, wire, rxQ, peerVars>>

\* freeAbandonedLinks: one detach after the other, sent past the session's mux.
FreeOne(l) ==
    /\ phase[l] = "free" /\ freed < Len(abandoned)
    /\ Write(Frame("detach", abandoned[freed + 1]))
    /\ freed' = freed + 1
    /\ UNCHANGED <<setup, phase, handle, linkQ, abandoned, freeing, sessVars, rxQ, peerVars>>

\* A detach could not be written, or the session is found done after it: the list
\* is kept as it is.
FreeFails(l) ==
    /\ phase[l] = "free"
    /\ \/ context = "ending" /\ freed < Len(abandoned)
       \/ sess = "done" /\ freed > 0
    /\ Goto(l, "failed") /\ freeing' = NoLink /\ freed' = 0
    /\ UNCHANGED <<setup, handle, linkQ, abandoned, sessVars, wire, rxQ, peerVars>>

FreeDone(l) ==
    /\ phase[l] = "free" /\ freed = Len(abandoned)
    /\ abandoned' = <<>> /\ freeing' = NoLink /\ freed' = 0
    /\ Goto(l, "allocate")
    /\ UNCHANGED <<setup, handle, linkQ, sessVars, wire, rxQ, peerVars>>

Free == Handles \ outputHandles

\* Bitmap.Next: the lowest number that is not set, up to max.
Lowest == CHOOSE h \in Free : \A k \in Free : h <= k

(***************************************************************************)
(* allocateHandle: an error if the key is in use; without a free handle the *)
(* session is closed, with linksMu held until it is done.                   *)
(***************************************************************************)
AllocateHandle(l) ==
    /\ phase[l] = "allocate" /\ linksMu = NoLink
    /\ \/ /\ \E k \in linksByKey : SameKey(l, k)
          /\ Goto(l, "failed")
          /\ UNCHANGED <<handle, linksByKey, outputHandles, linksMu>>
       \/ /\ ~ \E k \in linksByKey : SameKey(l, k)
          /\ Free # {}
          /\ handle' = [handle EXCEPT ![l] = Lowest]
          /\ outputHandles' = outputHandles \cup {Lowest}
          /\ linksByKey' = linksByKey \cup {l}
          /\ Goto(l, "attach") /\ UNCHANGED linksMu
       \/ /\ ~ \E k \in linksByKey : SameKey(l, k)
          /\ Free = {}
          /\ linksMu' = l /\ Goto(l, "closing")
          /\ UNCHANGED <<handle, linksByKey, outputHandles>>
    /\ UNCHANGED <<setup, linkQ, abandoned, freeing, freed, linkFromInputHandle, sess, wire, rxQ,
                   peerVars>>

\* Mutant of CloseReturns: the wait for the session's end ignores the context.
CloseReturnsWhenDone(l) ==
    /\ phase[l] = "closing"
    /\ sess = "done"
    /\ Goto(l, "failed") /\ linksMu' = NoLink
    /\ UNCHANGED <<setup, handle, linkQ, abandoned, freeing, freed, linksByKey, outputHandles,
                   linkFromInputHandle, sess, wire, rxQ, peerVars>>

\* Session.Close in allocateHandle returns: session done, or context done.
CloseReturns(l) ==
    /\ phase[l] = "closing"
    /\ sess = "done" \/ context = "ending"
    /\ Goto(l, "failed") /\ linksMu' = NoLink
    /\ UNCHANGED <<setup, handle, linkQ, abandoned, freeing, freed, linksByKey, outputHandles,
                   linkFromInputHandle, sess, wire, rxQ, peerVars>>

(***************************************************************************)
(* link.txFrameAndWait of the attach: written; swallowed once the end is    *)
(* sent; or it fails and attach returns, with handle and key still taken.   *)
(***************************************************************************)
SendAttach(l) ==
    /\ phase[l] = "attach"
    /\ \/ sess = "open" /\ Write(Frame("attach", l)) /\ Goto(l, "wait")
       \/ sess = "ending" /\ Goto(l, "wait") /\ UNCHANGED wire
       \/ (sess = "done" \/ context = "ending") /\ Goto(l, "failed") /\ UNCHANGED wire
    /\ UNCHANGED <<setup, handle, linkQ, abandoned, freeing, freed, sessVars, rxQ, peerVars>>

\* link.waitForFrame of an attach: next, the link's mux runs; or the peer refuses
\* and its detach is awaited; or the settlement modes do not match.
ReceiveAttach(l) ==
    /\ phase[l] = "wait" /\ linkQ[l] # <<>>
    /\ linkQ' = [linkQ EXCEPT ![l] = Tail(@)]
    /\ \/ Head(linkQ[l]).type = "attach" /\ (Goto(l, "open") \/ Goto(l, "mismatch"))
       \/ Head(linkQ[l]).type = "refuse" /\ Goto(l, "refused")
    /\ UNCHANGED <<setup, handle, abandoned, freeing, freed, sessVars, wire, rxQ, peerVars>>

\* Mutant of AbandonLink: the handle is given back at once.
AbandonLinkAtOnce(l) ==
    /\ phase[l] \in {"wait", "refused"}
    /\ sess = "done" \/ context = "ending"
    /\ freeing = NoLink
    /\ abandoned' = Append(abandoned, l) /\ Goto(l, "abandoned")
    /\ linksByKey' = linksByKey \ {l} /\ outputHandles' = outputHandles \ {handle[l]}
    /\ UNCHANGED <<setup, handle, linkQ, freeing, freed, linkFromInputHandle, linksMu, sess, wire,
                   rxQ, peerVars>>

\* waitForFrame fails: the link is left for the next call to clean up.
AbandonLink(l) ==
    /\ phase[l] \in {"wait", "refused"}
    /\ sess = "done" \/ context = "ending"
    /\ freeing = NoLink
    /\ abandoned' = Append(abandoned, l) /\ Goto(l, "abandoned")
    /\ UNCHANGED <<setup, handle, linkQ, freeing, freed, sessVars, wire, rxQ, peerVars>>

-----------------------------------------------------------------------------
(* The rest of a link's life *)

\* The peer's detach reaches link.attach or the link's mux, which must answer it,
\* or it answers ours and the mux exits.
ReceiveDetach(l) ==
    /\ phase[l] \in {"open", "refused", "detached"} /\ linkQ[l] # <<>>
    /\ linkQ' = [linkQ EXCEPT ![l] = Tail(@)]
    /\ Goto(l, CASE phase[l] = "open" -> "ack" [] phase[l] = "refused" -> "answer"
                 [] OTHER -> "gone")
    /\ UNCHANGED <<setup, handle, abandoned, freeing, freed, sessVars, wire, rxQ, peerVars>>

(***************************************************************************)
(* link.txFrame of a detach: the mux closes the link or acknowledges the    *)
(* peer's detach; or link.txFrameAndWait of a detach in link.attach: the    *)
(* modes mismatch (nobody waits for the answer) or the peer's refusal is    *)
(* answered.  Only the latter depend on the context of the call.            *)
(***************************************************************************)
SendDetach(l) ==
    /\ phase[l] \in {"open", "ack", "mismatch", "answer"}
    /\ \/ /\ \/ sess = "open" /\ Write(Frame("detach", l))
             \/ sess # "open" /\ UNCHANGED wire
          /\ Goto(l, IF phase[l] = "open" THEN "detached" ELSE "gone")
       \/ /\ phase[l] \in {"mismatch", "answer"} /\ context = "ending"
          /\ Goto(l, "failed") /\ UNCHANGED wire
    /\ UNCHANGED <<setup, handle, linkQ, abandoned, freeing, freed, sessVars, rxQ, peerVars>>

\* case <-session.done of the link's mux.
LinkEnds(l) ==
    /\ phase[l] \in {"open", "detached"} /\ sess = "done"
    /\ Goto(l, "gone")
    /\ UNCHANGED <<setup, handle, linkQ, abandoned, freeing, freed, sessVars, wire, rxQ, peerVars>>

-----------------------------------------------------------------------------
(* Session.mux *)

\* case <-s.close, and closeWithError: the end is sent once.
SendEnd == IF sess = "open" THEN sess' = "ending" /\ Write(EndFrame) ELSE UNCHANGED <<sess, wire>>

CloseSession ==
    /\ sess = "open" /\ SendEnd
    /\ UNCHANGED <<clientVars, linksByKey, outputHandles, linkFromInputHandle, linksMu, rxQ,
                   peerVars>>

Received(types) == sess # "done" /\ rxQ # <<>> /\ Head(rxQ).type \in types /\ rxQ' = Tail(rxQ)

\* muxFrameToLink
ToLink(l, fr) == linkQ' = [linkQ EXCEPT ![l] = Append(@, fr)]

\* Mutant of ByName: a link is found by its role alone.
ByRole(fr) == linksByKey

\* The link of an attach frame, if it is known.
ByName(fr) == {k \in linksByKey : SameKey(k, fr.link)}

\* PerformAttach: the link is looked up by key and filed under the remote handle.
RxAttach ==
    /\ Received({"attach", "refuse"}) /\ linksMu = NoLink
    /\ LET fr == Head(rxQ)
           found == ByName(fr)
       IN  \/ \E k \in found :
                /\ linkFromInputHandle' = [linkFromInputHandle EXCEPT ![fr.handle] = k]
                /\ ToLink(k, fr) /\ UNCHANGED <<sess, wire>>
           \/ found = {} /\ SendEnd /\ UNCHANGED <<linkFromInputHandle, linkQ>>
    /\ UNCHANGED <<setup, phase, handle, abandoned, freeing, freed, linksByKey, outputHandles,
                   linksMu, peerVars>>

\* Mutant of DeallocateHandle: the bitmap is cleared, the key is not.
DeallocateNumberOnly(l) == outputHandles' = outputHandles \ {handle[l]} /\ UNCHANGED linksByKey

\* deallocateHandle
DeallocateHandle(l) ==
    /\ linksByKey' = linksByKey \ {l}
    /\ outputHandles' = outputHandles \ {handle[l]}

\* PerformDetach: passed to the link's queue, then the session forgets the link.
RxDetach ==
    /\ Received({"detach"}) /\ linksMu = NoLink
    /\ LET fr == Head(rxQ)
           l == linkFromInputHandle[fr.handle]
       IN  \/ /\ l # NoLink
              /\ ToLink(l, fr)
              /\ linkFromInputHandle' = [linkFromInputHandle EXCEPT ![fr.handle] = NoLink]
              /\ DeallocateHandle(l) /\ UNCHANGED <<sess, wire>>
           \/ /\ l = NoLink
              /\ SendEnd /\ UNCHANGED <<linkQ, linkFromInputHandle, linksByKey, outputHandles>>
    /\ UNCHANGED <<setup, phase, handle, abandoned, freeing, freed, linksMu, peerVars>>

\* PerformEnd: the answer to ours, or the peer's, which is answered.
RxEnd ==
    /\ Received({"end"})
    /\ sess' = "done"
    /\ IF sess = "open" THEN Write(EndFrame) ELSE UNCHANGED wire
    /\ UNCHANGED <<clientVars, linksByKey, outputHandles, linkFromInputHandle, linksMu, peerVars>>

-----------------------------------------------------------------------------
(* The peer *)

Read(type) == wire # <<>> /\ Head(wire).type = type /\ wire' = Tail(wire)

\* A protocol error, and the peer's own choice: it ends the session.
PeerEnd == rxQ' = Append(rxQ, EndFrame) /\ peerEnded' = TRUE /\ UNCHANGED <<peerLinks, leaving>>

PeerIgnores ==
    /\ wire # <<>> /\ peerEnded /\ wire' = Tail(wire)
    /\ UNCHANGED <<clientVars, sessVars, rxQ, peerVars>>

PeerAttach ==
    /\ Read("attach") /\ ~peerEnded
    /\ LET fr == Head(wire)
           answer == [fr EXCEPT !.type = "attach"]
           refusal == <<[fr EXCEPT !.type = "refuse"], [fr EXCEPT !.type = "detach"]>>
       IN  \/ /\ peerLinks[fr.handle] = NoLink
              /\ peerLinks' = [peerLinks EXCEPT ![fr.handle] = fr.link]
              /\ \/ rxQ' = Append(rxQ, answer) /\ UNCHANGED leaving
                 \/ peer = "active" /\ rxQ' = rxQ \o refusal /\ leaving' = leaving \cup {fr.handle}
              /\ UNCHANGED peerEnded
           \/ peerLinks[fr.handle] # NoLink /\ PeerEnd
    /\ UNCHANGED <<clientVars, sessVars>>

\* The link detached is the one the peer has at the handle, whichever was meant.
PeerDetach ==
    /\ Read("detach") /\ ~peerEnded
    /\ LET fr == Head(wire)
       IN  \/ /\ peerLinks[fr.handle] # NoLink
              /\ peerLinks' = [peerLinks EXCEPT ![fr.handle] = NoLink]
              /\ leaving' = leaving \ {fr.handle}
              /\ rxQ' = IF fr.handle \in leaving THEN rxQ
                        ELSE Append(rxQ, [fr EXCEPT !.link = peerLinks[fr.handle]])
              /\ UNCHANGED peerEnded
           \/ peerLinks[fr.handle] = NoLink /\ PeerEnd
    /\ UNCHANGED <<clientVars, sessVars>>

PeerEnds ==
    /\ ~peerEnded
    /\ Read("end") \/ (peer = "active" /\ UNCHANGED wire)
    /\ PeerEnd
    /\ UNCHANGED <<clientVars, sessVars>>

PeerDetaches(h) ==
    /\ peer = "active" /\ ~peerEnded /\ peerLinks[h] # NoLink /\ h \notin leaving
    /\ rxQ' = Append(rxQ, [type |-> "detach", handle |-> h, link |-> peerLinks[h]])
    /\ leaving' = leaving \cup {h}
    /\ UNCHANGED <<clientVars, sessVars, wire, peerLinks, peerEnded>>

-----------------------------------------------------------------------------
Create(l) ==
    \/ FreeOne(l) \/ FreeFails(l) \/ FreeDone(l)
    \/ AllocateHandle(l) \/ CloseReturns(l)
    \/ SendAttach(l) \/ ReceiveAttach(l)

Live(l) == ReceiveDetach(l) \/ SendDetach(l) \/ LinkEnds(l)

SessionMux == RxAttach \/ RxDetach \/ RxEnd

Peer == PeerIgnores \/ PeerAttach \/ PeerDetach \/ PeerEnds

Next ==
    \/ \E l \in Links : New(l) \/ Create(l) \/ AbandonLink(l) \/ Live(l)
    \/ CloseSession \/ SessionMux
    \/ Peer \/ \E h \in Handles : PeerDetaches(h)

Spec == Init /\ [][Next]_vars

(***************************************************************************)
(* Goroutines that can run do; the session's mux sends the end it was asked *)
(* for; the peer reads and answers.  New links, expiring contexts and       *)
(* closes by the application need not happen.                               *)
(***************************************************************************)
Fairness ==
    /\ \A l \in Links : /\ SF_vars(Create(l) \/ (sess = "done" /\ AbandonLink(l)))
                        /\ WF_vars(ReceiveDetach(l) \/ (phase[l] # "open" /\ SendDetach(l)))
    /\ WF_vars(SessionMux) /\ WF_vars(Peer)
    /\ WF_vars(linksMu # NoLink /\ CloseSession)

FairSpec == Spec /\ Fairness

-----------------------------------------------------------------------------
(* Properties *)

Frames == [type : {"attach", "refuse", "detach", "end"}, handle : Handles \cup {-1},
           link : Links \cup {NoLink}]

\* The bitmap and the registered links agree: a handle belongs to exactly one link
\* and no handle is taken without a link, however attaches and detaches cross.
HandlesAgree ==
    /\ outputHandles = {handle[l] : l \in linksByKey}
    /\ \A l, k \in linksByKey : handle[l] = handle[k] \/ SameKey(l, k) => l = k

\* An attach never names a handle that is still attached at the peer: "now that
\* the link has processed the frame it's detached so we are safe to clean up its
\* state" (session.go, PerformDetach).
HandleIsFree ==
    wire # <<>> /\ ~peerEnded /\ Head(wire).type = "attach" =>
        peerLinks[Head(wire).handle] = NoLink

\* A detach reaches the link at the peer that it was sent for.
DetachFindsItsLink ==
    wire # <<>> /\ ~peerEnded /\ Head(wire).type = "detach" =>
        peerLinks[Head(wire).handle] = Head(wire).link

\* With a peer that only answers, an attach always finds its handle free at the
\* peer; if besides no context ends, a detach always finds its own link there.
QuietPeerAgrees ==
    peer = "quiet" => HandleIsFree /\ (context = "endless" => DetachFindsItsLink)

\* Frames that the session files for a link come from the peer's end of that link.
FramesReachTheirLink ==
    \A l \in Links : \A i \in 1 .. Len(linkQ[l]) : linkQ[l][i].link = l

Creating(l) == phase[l] \in {"free", "allocate", "closing", "attach", "wait", "refused"}
Created(l) == phase[l] \in {"open", "mismatch", "answer", "ack", "detached", "abandoned", "failed",
                          "gone"}

\* NewSender and NewReceiver return when their contexts end, also while
\* allocateHandle closes the session and keeps linksMu.
EndingCreationReturns == \A l \in Links : context = "ending" /\ Creating(l) ~> Created(l)

\* The handle of a link that has gone is given back while the session lives.
HandleComesBack ==
    \A l \in Links : (phase[l] = "gone") ~> (l \notin linksByKey \/ sess # "open")
=============================================================================
