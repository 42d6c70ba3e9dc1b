---------------------------- MODULE SenderProofs ----------------------------
(***************************************************************************)
(* The Sender link for any number of callers, any message and credit sizes  *)
(* and any number of sends and flows: the variables keep their types, the   *)
(* delivery-count is exact, nothing follows the detach on the wire, and a   *)
(* peer that does not lower its limit is never overrun.                     *)
(***************************************************************************)
EXTENDS Sender, TLAPS

Owning == {"hand", "wait", "rollback"}

\* Sender.mu serialises the callers, and the current frame belongs to its holder.
OneOwner ==
    /\ \A c \in Callers : pc[c] \in Owning <=> mu = c
    /\ frame # "none" => mu \in Callers /\ pc[mu] = "wait"
    /\ frame = "mux" <=> mux = "transfer"

\* The delivery-count covers the written deliveries and the one in doubt, exactly
\* so while the link works.
Counted ==
    LET n == written + (IF InDoubt THEN 1 ELSE 0)
    IN  /\ n <= count
        /\ (mux # "exited" /\ ~close /\ sess # "done") => n = count

IInv == TypeOK /\ OneOwner /\ Counted

-----------------------------------------------------------------------------
\* The range of a remainder.
LEMMA ModRange == ASSUME NEW x \in Int PROVE x % M \in 0 .. (M - 1)
  <1>1. M \in Nat \ {0}
    BY SenderAssumption
  <1> QED
    BY <1>1

\* A number below the modulus is its own remainder.
LEMMA ModSmall == ASSUME NEW x \in Int, 0 <= x, x < M PROVE x % M = x
  BY SenderAssumption

\* The head of rxQ has the fields of its type.
LEMMA HeadFields ==
    ASSUME TypeOK, NEW type, Dequeued(type)
    PROVE  /\ rxQ' \in Seq(Frames)
           /\ type = "flow" => /\ Head(rxQ).linkCredit \in 0 .. MaxCredit
                               /\ Head(rxQ).deliveryCount \in Nat /\ Head(rxQ).echo \in BOOLEAN
           /\ type = "disposition" => Head(rxQ).delivery \in Nat /\ Head(rxQ).settled \in BOOLEAN
  <1>1. rxQ \in Seq(Frames) /\ rxQ # <<>> /\ rxQ' = Tail(rxQ) /\ Head(rxQ).type = type
    BY Zenon DEF TypeOK, LinkTypes, Dequeued
  <1>2. Head(rxQ) \in Frames /\ rxQ' \in Seq(Frames)
    BY <1>1
  <1> QED
    BY Zenon, <1>1, <1>2 DEF Frames

-----------------------------------------------------------------------------
\* Every step keeps the types; the count of a rollback is positive by Counted.
LEMMA StepKeepsTypes == IInv /\ [Next]_vars => TypeOK'
  <1> SUFFICES ASSUME IInv, [Next]_vars PROVE TypeOK'
    BY Zenon
  <1>0. CallerTypes /\ LinkTypes /\ SessTypes /\ PeerTypes
    BY Zenon DEF IInv, TypeOK
  <1>1. ASSUME NEW c \in Callers, Send(c) PROVE TypeOK'
    <2>1. CallerTypes'
      BY <1>0, <1>1 DEF CallerTypes, Send, Goto
    <2>2. LinkTypes' /\ SessTypes' /\ PeerTypes'
      BY ZenonT(60), <1>0, <1>1 DEF Send, LinkTypes, linkVars, SessTypes, sessVars, PeerTypes, peerVars
    <2> QED
      BY Zenon, <2>1, <2>2 DEF TypeOK
  <1>2. ASSUME NEW c \in Callers, Cancel(c) PROVE TypeOK'
    <2>1. CallerTypes'
      BY Zenon, <1>0, <1>2 DEF CallerTypes, Cancel
    <2>2. LinkTypes' /\ SessTypes' /\ PeerTypes'
      BY Zenon, <1>0, <1>2 DEF Cancel, LinkTypes, linkVars, SessTypes, sessVars, PeerTypes, peerVars
    <2> QED
      BY Zenon, <2>1, <2>2 DEF TypeOK
  <1>3. ASSUME NEW c \in Callers, Lock(c) PROVE TypeOK'
    <2>1. CallerTypes'
      <3>1. CASE Leave(c) /\ UNCHANGED <<mu, more, settled>>
        BY Zenon, <1>0, <1>3, <3>1 DEF CallerTypes, Lock, Goto, Leave
      <3>2. CASE Goto(c, "confirm") /\ UNCHANGED <<ctx, delivery, mu, more, settled>>
        BY Zenon, <1>0, <1>3, <3>2 DEF CallerTypes, Lock, Goto
      <3>3. ASSUME NEW n \in 1 .. MaxFrames, NEW s \in BOOLEAN,
                   Goto(c, "hand"), mu' = c, more' = n - 1, settled' = s,
                   UNCHANGED <<ctx, delivery>>
            PROVE  CallerTypes'
        <4>1. more' \in 0 .. (MaxFrames - 1)
          BY <3>3, SenderAssumption
        <4> QED
          BY Zenon, <1>0, <1>3, <3>3, <4>1 DEF CallerTypes, Lock, Goto
      <3> QED
        BY Zenon, <1>3, <3>1, <3>2, <3>3 DEF Lock
    <2>2. LinkTypes' /\ SessTypes' /\ PeerTypes'
      BY ZenonT(60), <1>0, <1>3 DEF Lock, LinkTypes, linkVars, SessTypes, sessVars, PeerTypes, peerVars
    <2> QED
      BY Zenon, <2>1, <2>2 DEF TypeOK
  <1>4. ASSUME NEW c \in Callers, HandOver(c) PROVE TypeOK'
    <2>1. CallerTypes'
      BY Zenon, <1>0, <1>4 DEF CallerTypes, HandOver, Goto
    <2>2. LinkTypes'
      BY Zenon, <1>0, <1>4 DEF LinkTypes, HandOver
    <2>3. SessTypes' /\ PeerTypes'
      BY Zenon, <1>0, <1>4 DEF HandOver, SessTypes, sessVars, PeerTypes, peerVars
    <2> QED
      BY Zenon, <2>1, <2>2, <2>3 DEF TypeOK
  <1>5. ASSUME NEW c \in Callers, HandOverFails(c) PROVE TypeOK'
    <2>1. CallerTypes'
      BY Zenon, <1>0, <1>5 DEF CallerTypes, HandOverFails, Return, Leave, Goto
    <2>2. LinkTypes' /\ SessTypes' /\ PeerTypes'
      BY ZenonT(60), <1>0, <1>5 DEF HandOverFails, LinkTypes, linkVars, SessTypes, sessVars, PeerTypes, peerVars
    <2> QED
      BY Zenon, <2>1, <2>2 DEF TypeOK
  <1>6. ASSUME NEW c \in Callers, FrameWritten(c) PROVE TypeOK'
    <2>1. CallerTypes'
      BY <1>0, <1>6, SenderAssumption DEF CallerTypes, PeerTypes, FrameWritten, Goto
    <2>2. LinkTypes' /\ SessTypes' /\ PeerTypes'
      BY Zenon, <1>0, <1>6 DEF FrameWritten, LinkTypes, linkVars, SessTypes, sessVars, PeerTypes, peerVars
    <2> QED
      BY Zenon, <2>1, <2>2 DEF TypeOK
  <1>7. ASSUME NEW c \in Callers, FrameFailed(c) PROVE TypeOK'
    <2>1. CallerTypes'
      <3>1. CASE Return(c)
        BY Zenon, <1>0, <1>7, <3>1 DEF CallerTypes, FrameFailed, Return, Leave, Goto
      <3>2. CASE Goto(c, "rollback") /\ UNCHANGED <<ctx, delivery, mu>>
        BY Zenon, <1>0, <1>7, <3>2 DEF CallerTypes, FrameFailed, Goto
      <3> QED
        BY Zenon, <1>7, <3>1, <3>2 DEF FrameFailed
    <2>2. LinkTypes' /\ SessTypes' /\ PeerTypes'
      BY ZenonT(60), <1>0, <1>7 DEF FrameFailed, LinkTypes, linkVars, SessTypes, sessVars, PeerTypes, peerVars
    <2> QED
      BY Zenon, <2>1, <2>2 DEF TypeOK
  <1>8. ASSUME NEW c \in Callers, FrameAbandoned(c) PROVE TypeOK'
    <2>1. CallerTypes'
      BY Zenon, <1>0, <1>8 DEF CallerTypes, FrameAbandoned, Return, Leave, Goto
    <2>2. LinkTypes' /\ SessTypes' /\ PeerTypes'
      BY Zenon, <1>0, <1>8 DEF FrameAbandoned, LinkTypes, linkVars, SessTypes, sessVars, PeerTypes, peerVars
    <2> QED
      BY Zenon, <2>1, <2>2 DEF TypeOK
  <1>9. ASSUME NEW c \in Callers, Rollback(c) PROVE TypeOK'
    <2>a. InDoubt
      BY Zenon, <1>9 DEF Rollback, InDoubt
    <2>b. count - 1 \in Nat
      BY <1>0, <2>a DEF IInv, Counted, LinkTypes, PeerTypes
    <2>c. (linkCredit + 1) % M \in 0 .. (M - 1)
      <3>1. linkCredit + 1 \in Int
        BY <1>0, SenderAssumption DEF LinkTypes
      <3> QED
        BY Zenon, <3>1, ModRange
    <2>1. CallerTypes'
      BY Zenon, <1>0, <1>9 DEF CallerTypes, Rollback, Return, Leave, Goto
    <2>2. LinkTypes'
      BY Zenon, <1>0, <1>9, <2>b, <2>c DEF LinkTypes, Rollback
    <2>3. SessTypes' /\ PeerTypes'
      BY Zenon, <1>0, <1>9 DEF Rollback, SessTypes, sessVars, PeerTypes, peerVars
    <2> QED
      BY Zenon, <2>1, <2>2, <2>3 DEF TypeOK
  <1>10. ASSUME NEW c \in Callers, RollbackClosed(c) PROVE TypeOK'
    <2>1. CallerTypes'
      BY Zenon, <1>0, <1>10 DEF CallerTypes, RollbackClosed, Return, Leave, Goto
    <2>2. LinkTypes' /\ SessTypes' /\ PeerTypes'
      BY Zenon, <1>0, <1>10 DEF RollbackClosed, LinkTypes, linkVars, SessTypes, sessVars, PeerTypes, peerVars
    <2> QED
      BY Zenon, <2>1, <2>2 DEF TypeOK
  <1>11. ASSUME NEW c \in Callers, Confirm(c) PROVE TypeOK'
    <2>1. CallerTypes'
      BY Zenon, <1>0, <1>11 DEF CallerTypes, Confirm, Leave, Goto
    <2>2. LinkTypes' /\ SessTypes' /\ PeerTypes'
      BY Zenon, <1>0, <1>11 DEF Confirm, LinkTypes, linkVars, SessTypes, sessVars, PeerTypes, peerVars
    <2> QED
      BY Zenon, <2>1, <2>2 DEF TypeOK
  <1>12. CASE TransferToSession
    <2>a. (linkCredit - 1) % M \in 0 .. (M - 1)
      <3>1. linkCredit - 1 \in Int
        BY <1>0, SenderAssumption DEF LinkTypes
      <3> QED
        BY Zenon, <3>1, ModRange
    <2>1. CallerTypes'
      BY Zenon, <1>0, <1>12 DEF CallerTypes, TransferToSession
    <2>2. LinkTypes'
      BY <1>0, <1>12, <2>a DEF LinkTypes, TransferToSession
    <2>3. SessTypes' /\ PeerTypes'
      BY Zenon, <1>0, <1>12 DEF TransferToSession, SessTypes, sessVars, PeerTypes, peerVars
    <2> QED
      BY Zenon, <2>1, <2>2, <2>3 DEF TypeOK
  <1>13. CASE TransferAbandoned
    <2>1. CallerTypes'
      BY Zenon, <1>0, <1>13 DEF CallerTypes, TransferAbandoned
    <2>2. LinkTypes'
      BY Zenon, <1>0, <1>13 DEF LinkTypes, TransferAbandoned
    <2>3. SessTypes' /\ PeerTypes'
      BY Zenon, <1>0, <1>13 DEF TransferAbandoned, SessTypes, sessVars, PeerTypes, peerVars
    <2> QED
      BY Zenon, <2>1, <2>2, <2>3 DEF TypeOK
  <1>14. CASE HandleFlow
    <2>a. Dequeued("flow")
      BY Zenon, <1>14 DEF HandleFlow
    <2>b. /\ rxQ' \in Seq(Frames)
          /\ Head(rxQ).linkCredit \in 0 .. MaxCredit /\ Head(rxQ).deliveryCount \in Nat
      BY Zenon, <2>a, HeadFields DEF IInv
    <2>c. Head(rxQ).linkCredit - count + Head(rxQ).deliveryCount \in Int
      BY <1>0, <2>b, SenderAssumption DEF LinkTypes
    <2>d. (Head(rxQ).linkCredit - count + Head(rxQ).deliveryCount) % M \in 0 .. (M - 1)
      BY Zenon, <2>c, ModRange
    <2>1. LinkTypes'
      BY Zenon, <1>0, <1>14, <2>b, <2>d DEF LinkTypes, HandleFlow
    <2>2. PeerTypes'
      BY <1>0, <1>14, <2>b, SenderAssumption DEF PeerTypes, HandleFlow
    <2>3. CallerTypes' /\ SessTypes'
      BY Zenon, <1>0, <1>14 DEF HandleFlow, CallerTypes, callerVars, SessTypes, sessVars
    <2> QED
      BY Zenon, <2>1, <2>2, <2>3 DEF TypeOK
  <1>15. CASE HandleDisposition
    <2>a. Dequeued("disposition")
      BY Zenon, <1>15 DEF HandleDisposition
    <2>b. rxQ' \in Seq(Frames) /\ Head(rxQ).delivery \in Nat
      BY Zenon, <2>a, HeadFields DEF IInv
    <2>1. LinkTypes'
      BY Zenon, <1>0, <1>15, <2>b DEF LinkTypes, HandleDisposition
    <2>2. CallerTypes' /\ SessTypes' /\ PeerTypes'
      BY ZenonT(60), <1>0, <1>15 DEF HandleDisposition, CallerTypes, callerVars, SessTypes, sessVars, PeerTypes, peerVars
    <2> QED
      BY Zenon, <2>1, <2>2 DEF TypeOK
  <1>16. CASE SendReply
    <2>1. LinkTypes'
      BY Zenon, <1>0, <1>16 DEF LinkTypes, SendReply
    <2>2. PeerTypes'
      BY Zenon, <1>0, <1>16 DEF PeerTypes, LinkTypes, SendReply
    <2>3. CallerTypes' /\ SessTypes'
      BY Zenon, <1>0, <1>16 DEF SendReply, CallerTypes, callerVars, SessTypes, sessVars
    <2> QED
      BY Zenon, <2>1, <2>2, <2>3 DEF TypeOK
  <1>17. CASE HandleDetach
    <2>a. Dequeued("detach")
      BY Zenon, <1>17 DEF HandleDetach
    <2>b. rxQ' \in Seq(Frames)
      BY Zenon, <2>a, HeadFields DEF IInv
    <2>1. LinkTypes'
      BY Zenon, <1>0, <1>17, <2>b DEF LinkTypes, HandleDetach
    <2>2. CallerTypes' /\ SessTypes' /\ PeerTypes'
      BY ZenonT(60), <1>0, <1>17 DEF HandleDetach, CallerTypes, callerVars, SessTypes, sessVars, PeerTypes, peerVars
    <2> QED
      BY Zenon, <2>1, <2>2 DEF TypeOK
  <1>18. CASE HandleUnexpected
    <2>a. Dequeued("unexpected")
      BY Zenon, <1>18 DEF HandleUnexpected
    <2>b. rxQ' \in Seq(Frames)
      BY Zenon, <2>a, HeadFields DEF IInv
    <2>1. LinkTypes'
      BY Zenon, <1>0, <1>18, <2>b DEF LinkTypes, HandleUnexpected
    <2>2. CallerTypes' /\ SessTypes' /\ PeerTypes'
      BY ZenonT(60), <1>0, <1>18 DEF HandleUnexpected, CallerTypes, callerVars, SessTypes, sessVars, PeerTypes, peerVars
    <2> QED
      BY Zenon, <2>1, <2>2 DEF TypeOK
  <1>19. CASE CloseRequested
    <2>1. LinkTypes'
      BY Zenon, <1>0, <1>19 DEF LinkTypes, CloseRequested
    <2>2. CallerTypes' /\ SessTypes' /\ PeerTypes'
      BY Zenon, <1>0, <1>19 DEF CloseRequested, CallerTypes, callerVars, SessTypes, sessVars, PeerTypes, peerVars
    <2> QED
      BY Zenon, <2>1, <2>2 DEF TypeOK
  <1>20. CASE SendDetach
    <2>1. LinkTypes'
      BY Zenon, <1>0, <1>20 DEF LinkTypes, SendDetach
    <2>2. PeerTypes'
      BY Zenon, <1>0, <1>20 DEF PeerTypes, SendDetach
    <2>3. CallerTypes' /\ SessTypes'
      BY Zenon, <1>0, <1>20 DEF SendDetach, CallerTypes, callerVars, SessTypes, sessVars
    <2> QED
      BY Zenon, <2>1, <2>2, <2>3 DEF TypeOK
  <1>21. CASE SessionGone
    <2>1. LinkTypes'
      BY Zenon, <1>0, <1>21 DEF LinkTypes, SessionGone
    <2>2. CallerTypes' /\ SessTypes' /\ PeerTypes'
      BY Zenon, <1>0, <1>21 DEF SessionGone, CallerTypes, callerVars, SessTypes, sessVars, PeerTypes, peerVars
    <2> QED
      BY Zenon, <2>1, <2>2 DEF TypeOK
  <1>22. CASE Close
    <2>1. LinkTypes'
      BY Zenon, <1>0, <1>22 DEF LinkTypes, Close
    <2>2. CallerTypes' /\ SessTypes' /\ PeerTypes'
      BY ZenonT(60), <1>0, <1>22 DEF Close, CallerTypes, callerVars, SessTypes, sessVars, PeerTypes, peerVars
    <2> QED
      BY Zenon, <2>1, <2>2 DEF TypeOK
  <1>23. CASE WriteFrame
    <2>1. CallerTypes'
      BY Zenon, <1>0, <1>23, SenderAssumption DEF CallerTypes, WriteFrame
    <2>2. PeerTypes'
      <3>1. written' = written \/ written' = written + 1
        BY Zenon, <1>23 DEF WriteFrame
      <3>2. confirmed' = confirmed \/ confirmed' = confirmed \cup {written + 1}
        BY Zenon, <1>23 DEF WriteFrame
      <3>3. UNCHANGED <<rcvd, limit, seen, flows, disposed, detachOut, peerDetached>>
        BY Zenon, <1>23 DEF WriteFrame
      <3>4. written' \in Nat /\ written + 1 \in Nat
        BY <1>0, <3>1 DEF PeerTypes
      <3>5. confirmed' \subseteq Nat
        BY Zenon, <1>0, <3>2, <3>4 DEF PeerTypes
      <3> QED
        BY Zenon, <1>0, <3>3, <3>4, <3>5 DEF PeerTypes
    <2>3. LinkTypes' /\ SessTypes'
      BY Zenon, <1>0, <1>23 DEF WriteFrame, LinkTypes, linkVars, SessTypes, sessVars
    <2> QED
      BY Zenon, <2>1, <2>2, <2>3 DEF TypeOK
  <1>24. CASE SessionEnds
    <2>1. SessTypes'
      BY Zenon, <1>0, <1>24 DEF SessTypes, SessionEnds, SessionReceives
    <2>2. CallerTypes' /\ LinkTypes' /\ PeerTypes'
      BY <1>0, <1>24 DEF SessionEnds, CallerTypes, callerVars, LinkTypes, linkVars, PeerTypes, peerVars
    <2> QED
      BY Zenon, <2>1, <2>2 DEF TypeOK
  <1>25. CASE SessionDone
    <2>1. CallerTypes'
      BY Zenon, <1>0, <1>25 DEF CallerTypes, SessionDone
    <2>2. SessTypes'
      BY Zenon, <1>0, <1>25 DEF SessTypes, SessionDone
    <2>3. LinkTypes' /\ PeerTypes'
      BY Zenon, <1>0, <1>25 DEF SessionDone, LinkTypes, linkVars, PeerTypes, peerVars
    <2> QED
      BY Zenon, <2>1, <2>2, <2>3 DEF TypeOK
  <1>26. CASE WindowCloses
    <2>1. SessTypes'
      BY Zenon, <1>0, <1>26 DEF SessTypes, WindowCloses
    <2>2. CallerTypes' /\ LinkTypes' /\ PeerTypes'
      BY ZenonT(60), <1>0, <1>26 DEF WindowCloses, CallerTypes, callerVars, LinkTypes, linkVars, PeerTypes, peerVars
    <2> QED
      BY Zenon, <2>1, <2>2 DEF TypeOK
  <1>27. CASE WindowOpens
    <2>1. SessTypes'
      BY Zenon, <1>0, <1>27 DEF SessTypes, WindowOpens
    <2>2. CallerTypes' /\ LinkTypes' /\ PeerTypes'
      BY <1>0, <1>27 DEF WindowOpens, CallerTypes, callerVars, LinkTypes, linkVars, PeerTypes, peerVars
    <2> QED
      BY Zenon, <2>1, <2>2 DEF TypeOK
  <1>28. CASE PeerReceives
    <2>1. PeerTypes'
      BY <1>0, <1>28 DEF PeerTypes, PeerReceives
    <2>2. CallerTypes' /\ LinkTypes' /\ SessTypes'
      BY <1>0, <1>28 DEF PeerReceives, CallerTypes, callerVars, LinkTypes, linkVars, SessTypes, sessVars
    <2> QED
      BY Zenon, <2>1, <2>2 DEF TypeOK
  <1>29. CASE PeerDetaches
    <2>b. rxQ' \in Seq(Frames)
      BY <1>0, <1>29 DEF LinkTypes, PeerTypes, PeerDetaches, Frames
    <2>1. LinkTypes'
      BY Zenon, <1>0, <1>29, <2>b DEF LinkTypes, PeerDetaches
    <2>2. PeerTypes'
      BY Zenon, <1>0, <1>29 DEF PeerTypes, PeerDetaches
    <2>3. CallerTypes' /\ SessTypes'
      BY Zenon, <1>0, <1>29 DEF PeerDetaches, CallerTypes, callerVars, SessTypes, sessVars
    <2> QED
      BY Zenon, <2>1, <2>2, <2>3 DEF TypeOK
  <1>30. CASE PeerUnexpected
    <2>b. rxQ' \in Seq(Frames)
      BY <1>0, <1>30 DEF LinkTypes, PeerTypes, PeerUnexpected, Frames
    <2>1. LinkTypes'
      BY Zenon, <1>0, <1>30, <2>b DEF LinkTypes, PeerUnexpected
    <2>2. PeerTypes'
      BY <1>0, <1>30, SenderAssumption DEF PeerTypes, PeerUnexpected
    <2>3. CallerTypes' /\ SessTypes'
      BY Zenon, <1>0, <1>30 DEF PeerUnexpected, CallerTypes, callerVars, SessTypes, sessVars
    <2> QED
      BY Zenon, <2>1, <2>2, <2>3 DEF TypeOK
  <1>31. ASSUME NEW credit \in 0 .. MaxCredit, NEW echo \in BOOLEAN, PeerFlow(credit, echo)
        PROVE  TypeOK'
    <2>b. rxQ' \in Seq(Frames)
      BY <1>0, <1>31, SenderAssumption DEF LinkTypes, PeerTypes, PeerFlow, Frames
    <2>1. LinkTypes'
      BY Zenon, <1>0, <1>31, <2>b DEF LinkTypes, PeerFlow
    <2>2. PeerTypes'
      BY <1>0, <1>31, SenderAssumption DEF PeerTypes, PeerFlow
    <2>3. CallerTypes' /\ SessTypes'
      BY Zenon, <1>0, <1>31 DEF PeerFlow, CallerTypes, callerVars, SessTypes, sessVars
    <2> QED
      BY Zenon, <2>1, <2>2, <2>3 DEF TypeOK
  <1>32. ASSUME NEW i \in 1 .. rcvd, NEW first \in BOOLEAN, PeerSettles(i, first) PROVE TypeOK'
    <2>a. i \in Nat
      BY <1>0 DEF PeerTypes
    <2>b. rxQ' \in Seq(Frames)
      BY <1>0, <1>32, <2>a DEF LinkTypes, PeerTypes, PeerSettles, Frames
    <2>1. LinkTypes'
      BY Zenon, <1>0, <1>32, <2>b DEF LinkTypes, PeerSettles
    <2>2. PeerTypes'
      BY Zenon, <1>0, <1>32, <2>a DEF PeerTypes, PeerSettles
    <2>3. CallerTypes' /\ SessTypes'
      BY Zenon, <1>0, <1>32 DEF PeerSettles, CallerTypes, callerVars, SessTypes, sessVars
    <2> QED
      BY Zenon, <2>1, <2>2, <2>3 DEF TypeOK
  <1>33. CASE UNCHANGED vars
    BY <1>0, <1>33 DEF TypeOK, CallerTypes, LinkTypes, SessTypes, PeerTypes,
       vars, callerVars, linkVars, sessVars, peerVars
  <1> QED
    BY Zenon, <1>1, <1>2, <1>3, <1>4, <1>5, <1>6, <1>7, <1>8, <1>9, <1>10, <1>11, <1>12, <1>13,
       <1>14, <1>15, <1>16, <1>17, <1>18, <1>19, <1>20, <1>21, <1>22, <1>23, <1>24,
       <1>25, <1>26, <1>27, <1>28, <1>29, <1>30, <1>31, <1>32, <1>33 DEF Next,
       CallerStep, MuxStep, SessionStep, PeerStep

-----------------------------------------------------------------------------
\* Every step keeps the mutual exclusion of the callers.
LEMMA StepKeepsOneOwner == IInv /\ [Next]_vars => OneOwner'
  <1> SUFFICES ASSUME IInv, [Next]_vars PROVE OneOwner'
    BY Zenon
  <1>0. CallerTypes /\ OneOwner
    BY Zenon DEF IInv, TypeOK
  <1> USE SenderAssumption DEF OneOwner, Owning
  <1>1. ASSUME NEW c \in Callers, Send(c) PROVE OneOwner'
    BY Zenon, <1>0, <1>1 DEF Send, Goto, callerVars, linkVars, CallerTypes
  <1>2. ASSUME NEW c \in Callers, Cancel(c) PROVE OneOwner'
    BY Zenon, <1>0, <1>2 DEF Cancel, callerVars, linkVars, CallerTypes
  <1>3. ASSUME NEW c \in Callers, Lock(c) PROVE OneOwner'
    BY <1>0, <1>3 DEF Lock, Goto, Leave, callerVars, linkVars, CallerTypes
  <1>4. ASSUME NEW c \in Callers, HandOver(c) PROVE OneOwner'
    BY Zenon, <1>0, <1>4 DEF HandOver, Goto, callerVars, linkVars, CallerTypes
  <1>5. ASSUME NEW c \in Callers, HandOverFails(c) PROVE OneOwner'
    BY Zenon, <1>0, <1>5 DEF HandOverFails, Return, Leave, Goto, callerVars, linkVars, CallerTypes
  <1>6. ASSUME NEW c \in Callers, FrameWritten(c) PROVE OneOwner'
    BY Zenon, <1>0, <1>6 DEF FrameWritten, Goto, callerVars, linkVars, CallerTypes
  <1>7. ASSUME NEW c \in Callers, FrameFailed(c) PROVE OneOwner'
    BY Zenon, <1>0, <1>7 DEF FrameFailed, Return, Leave, Goto, callerVars, linkVars, CallerTypes
  <1>8. ASSUME NEW c \in Callers, FrameAbandoned(c) PROVE OneOwner'
    BY Zenon, <1>0, <1>8 DEF FrameAbandoned, Return, Leave, Goto, callerVars, linkVars, CallerTypes
  <1>9. ASSUME NEW c \in Callers, Rollback(c) PROVE OneOwner'
    BY Zenon, <1>0, <1>9 DEF Rollback, Return, Leave, Goto, callerVars, linkVars, CallerTypes
  <1>10. ASSUME NEW c \in Callers, RollbackClosed(c) PROVE OneOwner'
    BY Zenon, <1>0, <1>10 DEF RollbackClosed, Return, Leave, Goto, callerVars, linkVars, CallerTypes
  <1>11. ASSUME NEW c \in Callers, Confirm(c) PROVE OneOwner'
    BY Zenon, <1>0, <1>11 DEF Confirm, Leave, Goto, callerVars, linkVars, CallerTypes
  <1>12. CASE TransferToSession
    BY Zenon, <1>0, <1>12 DEF TransferToSession, SessionReceives, callerVars, linkVars, CallerTypes
  <1>13. CASE TransferAbandoned
    BY Zenon, <1>0, <1>13 DEF TransferAbandoned, callerVars, linkVars, CallerTypes
  <1>14. CASE HandleFlow
    BY Zenon, <1>0, <1>14 DEF HandleFlow, Dequeued, callerVars, linkVars, CallerTypes
  <1>15. CASE HandleDisposition
    BY Zenon, <1>0, <1>15 DEF HandleDisposition, Dequeued, callerVars, linkVars, CallerTypes
  <1>16. CASE SendReply
    BY Zenon, <1>0, <1>16 DEF SendReply, callerVars, linkVars, CallerTypes
  <1>17. CASE HandleDetach
    BY Zenon, <1>0, <1>17 DEF HandleDetach, Dequeued, callerVars, linkVars, CallerTypes
  <1>18. CASE HandleUnexpected
    BY Zenon, <1>0, <1>18 DEF HandleUnexpected, Dequeued, callerVars, linkVars, CallerTypes
  <1>19. CASE CloseRequested
    BY Zenon, <1>0, <1>19 DEF CloseRequested, callerVars, linkVars, CallerTypes
  <1>20. CASE SendDetach
    BY Zenon, <1>0, <1>20 DEF SendDetach, callerVars, linkVars, CallerTypes
  <1>21. CASE SessionGone
    BY Zenon, <1>0, <1>21 DEF SessionGone, callerVars, linkVars, CallerTypes
  <1>22. CASE Close
    BY Zenon, <1>0, <1>22 DEF Close, callerVars, linkVars, CallerTypes
  <1>23. CASE WriteFrame
    BY Zenon, <1>0, <1>23 DEF WriteFrame, callerVars, linkVars, CallerTypes
  <1>24. CASE SessionEnds
    BY Zenon, <1>0, <1>24 DEF SessionEnds, SessionReceives, callerVars, linkVars, CallerTypes
  <1>25. CASE SessionDone
    BY Zenon, <1>0, <1>25 DEF SessionDone, callerVars, linkVars, CallerTypes
  <1>26. CASE WindowCloses
    BY Zenon, <1>0, <1>26 DEF WindowCloses, callerVars, linkVars, CallerTypes
  <1>27. CASE WindowOpens
    BY Zenon, <1>0, <1>27 DEF WindowOpens, callerVars, linkVars, CallerTypes
  <1>28. CASE PeerReceives
    BY Zenon, <1>0, <1>28 DEF PeerReceives, callerVars, linkVars, CallerTypes
  <1>29. CASE PeerDetaches
    BY Zenon, <1>0, <1>29 DEF PeerDetaches, callerVars, linkVars, CallerTypes
  <1>30. CASE PeerUnexpected
    BY Zenon, <1>0, <1>30 DEF PeerUnexpected, callerVars, linkVars, CallerTypes
  <1>31. ASSUME NEW credit \in 0 .. MaxCredit, NEW echo \in BOOLEAN, PeerFlow(credit, echo)
        PROVE  OneOwner'
    BY Zenon, <1>0, <1>31 DEF PeerFlow, callerVars, linkVars, CallerTypes
  <1>32. ASSUME NEW i \in 1 .. rcvd, NEW first \in BOOLEAN, PeerSettles(i, first) PROVE OneOwner'
    BY Zenon, <1>0, <1>32 DEF PeerSettles, callerVars, linkVars, CallerTypes
  <1>33. CASE UNCHANGED vars
    BY Zenon, <1>0, <1>33 DEF vars, callerVars, linkVars, sessVars, peerVars
  <1> QED
    BY Zenon, <1>1, <1>2, <1>3, <1>4, <1>5, <1>6, <1>7, <1>8, <1>9, <1>10, <1>11, <1>12, <1>13,
       <1>14, <1>15, <1>16, <1>17, <1>18, <1>19, <1>20, <1>21, <1>22, <1>23, <1>24,
       <1>25, <1>26, <1>27, <1>28, <1>29, <1>30, <1>31, <1>32, <1>33 DEF Next,
       CallerStep, MuxStep, SessionStep, PeerStep

-----------------------------------------------------------------------------
\* What keeps the deliveries in doubt, and does not revive a link, keeps the count.
LEMMA SameDoubt ==
    ASSUME Counted, InDoubt' <=> InDoubt, count' = count, written' = written,
           mux = "exited" => mux' = "exited", close => close', sess = "done" => sess' = "done"
    PROVE  Counted'
  BY Zenon DEF Counted

\* A link that has ended may forget a delivery in doubt.
LEMMA LessDoubt ==
    ASSUME Counted, InDoubt' => InDoubt, count' = count, written' = written,
           count \in Nat, written \in Nat, mux' = "exited" \/ close' \/ sess' = "done"
    PROVE  Counted'
  BY DEF Counted

\* Every step keeps the delivery-count exact.
LEMMA StepKeepsCounted == IInv /\ [Next]_vars => Counted'
  <1> SUFFICES ASSUME IInv, [Next]_vars PROVE Counted'
    BY Zenon
  <1>0. CallerTypes /\ OneOwner /\ Counted /\ count \in Nat /\ written \in Nat
    BY Zenon DEF IInv, TypeOK, LinkTypes, PeerTypes
  <1>a. ASSUME NEW c \in Callers, pc[c] \in Owning
        PROVE  /\ \A d \in Callers : pc[d] = "rollback" => d = c
               /\ frame # "none" => pc[c] = "wait"
    BY Zenon, <1>0, <1>a DEF OneOwner, Owning
  <1>b. mu = NoCaller => frame = "none" /\ \A d \in Callers : pc[d] # "rollback"
    BY Zenon, <1>0, SenderAssumption DEF OneOwner, Owning
  <1>c. frame # "none" => \A d \in Callers : pc[d] # "rollback"
    BY Zenon, <1>0 DEF OneOwner, Owning
  <1>1. ASSUME NEW c \in Callers, Send(c) PROVE Counted'
    <2>1. InDoubt' <=> InDoubt
      BY Zenon, <1>0, <1>1 DEF Send, Goto, InDoubt, CallerTypes
    <2> QED
      BY Zenon, <1>0, <1>1, <2>1, SameDoubt DEF Send, linkVars, sessVars, peerVars
  <1>2. ASSUME NEW c \in Callers, Cancel(c) PROVE Counted'
    BY Zenon, <1>0, <1>2, SameDoubt DEF Cancel, InDoubt, linkVars, sessVars, peerVars
  <1>3. ASSUME NEW c \in Callers, Lock(c) PROVE Counted'
    <2>1. ~InDoubt /\ ~InDoubt'
      BY Zenon, <1>0, <1>3, <1>b DEF Lock, Goto, Leave, InDoubt, CallerTypes
    <2> QED
      BY Zenon, <1>0, <1>3, <2>1, SameDoubt DEF Lock, linkVars, sessVars, peerVars
  <1>4. ASSUME NEW c \in Callers, HandOver(c) PROVE Counted'
    <2>1. ~InDoubt /\ ~InDoubt'
      BY Zenon, <1>0, <1>4, <1>a DEF HandOver, Goto, InDoubt, CallerTypes, Owning
    <2> QED
      BY Zenon, <1>0, <1>4, <2>1, SameDoubt DEF HandOver, linkVars, sessVars, peerVars
  <1>5. ASSUME NEW c \in Callers, HandOverFails(c) PROVE Counted'
    <2>1. ~InDoubt /\ ~InDoubt'
      BY Zenon, <1>0, <1>5, <1>a DEF HandOverFails, Return, Leave, Goto, InDoubt, CallerTypes, Owning
    <2> QED
      BY Zenon, <1>0, <1>5, <2>1, SameDoubt DEF HandOverFails, linkVars, sessVars, peerVars
  <1>6. ASSUME NEW c \in Callers, FrameWritten(c) PROVE Counted'
    <2>1. ~InDoubt /\ ~InDoubt'
      BY Zenon, <1>0, <1>6, <1>a DEF FrameWritten, Goto, InDoubt, CallerTypes, Owning
    <2> QED
      BY Zenon, <1>0, <1>6, <2>1, SameDoubt DEF FrameWritten, linkVars, sessVars, peerVars
  <1>7. ASSUME NEW c \in Callers, FrameFailed(c) PROVE Counted'
    <2>1. InDoubt' <=> InDoubt
      BY <1>0, <1>7, <1>a DEF FrameFailed, Return, Leave, Goto, InDoubt, CallerTypes, Owning
    <2> QED
      BY Zenon, <1>0, <1>7, <2>1, SameDoubt DEF FrameFailed, linkVars, sessVars, peerVars
  <1>8. ASSUME NEW c \in Callers, FrameAbandoned(c) PROVE Counted'
    <2>1. InDoubt' => InDoubt
      BY Zenon, <1>0, <1>8, <1>a DEF FrameAbandoned, Return, Leave, Goto, InDoubt, CallerTypes, Owning
    <2> QED
      BY Zenon, <1>0, <1>8, <2>1, LessDoubt DEF FrameAbandoned, linkVars, sessVars, peerVars
  <1>9. ASSUME NEW c \in Callers, Rollback(c) PROVE Counted'
    <2>1. InDoubt /\ ~InDoubt'
      BY Zenon, <1>0, <1>9, <1>a DEF Rollback, Return, Leave, Goto, InDoubt, CallerTypes, Owning
    <2> QED
      BY <1>0, <1>9, <2>1 DEF Rollback, Counted, linkVars, sessVars, peerVars
  <1>10. ASSUME NEW c \in Callers, RollbackClosed(c) PROVE Counted'
    <2>1. InDoubt' => InDoubt
      BY Zenon, <1>0, <1>10, <1>a DEF RollbackClosed, Return, Leave, Goto, InDoubt, CallerTypes, Owning
    <2> QED
      BY Zenon, <1>0, <1>10, <2>1, LessDoubt DEF RollbackClosed, linkVars, sessVars, peerVars
  <1>11. ASSUME NEW c \in Callers, Confirm(c) PROVE Counted'
    <2>1. InDoubt' <=> InDoubt
      BY Zenon, <1>0, <1>11 DEF Confirm, Leave, Goto, InDoubt, CallerTypes
    <2> QED
      BY Zenon, <1>0, <1>11, <2>1, SameDoubt DEF Confirm, linkVars, sessVars, peerVars
  <1>12. CASE TransferToSession
    <2>1. ~InDoubt /\ (InDoubt' <=> more = 0)
      BY Zenon, <1>0, <1>12, <1>c DEF TransferToSession, InDoubt, OneOwner
    <2> QED
      BY <1>0, <1>12, <2>1 DEF TransferToSession, Counted, sessVars, peerVars
  <1>13. CASE TransferAbandoned
    <2>1. ~InDoubt /\ ~InDoubt'
      BY Zenon, <1>0, <1>13, <1>c DEF TransferAbandoned, InDoubt, OneOwner
    <2> QED
      BY Zenon, <1>0, <1>13, <2>1, SameDoubt DEF TransferAbandoned, sessVars, peerVars
  <1>14. CASE HandleFlow
    BY Zenon, <1>0, <1>14, SameDoubt DEF HandleFlow, Dequeued, InDoubt, callerVars, linkVars, sessVars, peerVars
  <1>15. CASE HandleDisposition
    BY Zenon, <1>0, <1>15, SameDoubt DEF HandleDisposition, Dequeued, InDoubt, callerVars, linkVars, sessVars, peerVars
  <1>16. CASE SendReply
    BY Zenon, <1>0, <1>16, SameDoubt DEF SendReply, InDoubt, callerVars, linkVars, sessVars, peerVars
  <1>17. CASE HandleDetach
    BY Zenon, <1>0, <1>17, SameDoubt DEF HandleDetach, Dequeued, InDoubt, callerVars, linkVars, sessVars, peerVars
  <1>18. CASE HandleUnexpected
    BY Zenon, <1>0, <1>18, SameDoubt DEF HandleUnexpected, Dequeued, InDoubt, callerVars, linkVars, sessVars, peerVars
  <1>19. CASE CloseRequested
    BY Zenon, <1>0, <1>19, SameDoubt DEF CloseRequested, InDoubt, callerVars, linkVars, sessVars, peerVars
  <1>20. CASE SendDetach
    BY Zenon, <1>0, <1>20, SameDoubt DEF SendDetach, InDoubt, callerVars, linkVars, sessVars, peerVars
  <1>21. CASE SessionGone
    BY Zenon, <1>0, <1>21, SameDoubt DEF SessionGone, InDoubt, callerVars, linkVars, sessVars, peerVars
  <1>22. CASE Close
    BY Zenon, <1>0, <1>22, SameDoubt DEF Close, InDoubt, callerVars, linkVars, sessVars, peerVars
  <1>23. CASE WriteFrame
    <2>1. (InDoubt <=> more = 0) /\ (InDoubt' <=> more = 0 /\ ctx[mu])
      BY Zenon, <1>0, <1>23, <1>c DEF WriteFrame, InDoubt
    <2> QED
      BY <1>0, <1>23, <2>1 DEF WriteFrame, Counted, linkVars, sessVars
  <1>24. CASE SessionEnds
    BY Zenon, <1>0, <1>24, SameDoubt DEF SessionEnds, SessionReceives, InDoubt, callerVars, linkVars, sessVars, peerVars
  <1>25. CASE SessionDone
    <2>1. InDoubt' => InDoubt
      BY Zenon, <1>0, <1>25 DEF SessionDone, InDoubt
    <2> QED
      BY Zenon, <1>0, <1>25, <2>1, LessDoubt DEF SessionDone, linkVars, peerVars
  <1>26. CASE WindowCloses
    BY Zenon, <1>0, <1>26, SameDoubt DEF WindowCloses, InDoubt, callerVars, linkVars, sessVars, peerVars
  <1>27. CASE WindowOpens
    BY Zenon, <1>0, <1>27, SameDoubt DEF WindowOpens, InDoubt, callerVars, linkVars, sessVars, peerVars
  <1>28. CASE PeerReceives
    BY Zenon, <1>0, <1>28, SameDoubt DEF PeerReceives, InDoubt, callerVars, linkVars, sessVars, peerVars
  <1>29. CASE PeerDetaches
    BY Zenon, <1>0, <1>29, SameDoubt DEF PeerDetaches, InDoubt, callerVars, linkVars, sessVars, peerVars
  <1>30. CASE PeerUnexpected
    BY Zenon, <1>0, <1>30, SameDoubt DEF PeerUnexpected, InDoubt, callerVars, linkVars, sessVars, peerVars
  <1>31. ASSUME NEW credit \in 0 .. MaxCredit, NEW echo \in BOOLEAN, PeerFlow(credit, echo)
        PROVE  Counted'
    BY Zenon, <1>0, <1>31, SameDoubt DEF PeerFlow, InDoubt, callerVars, linkVars, sessVars, peerVars
  <1>32. ASSUME NEW i \in 1 .. rcvd, NEW first \in BOOLEAN, PeerSettles(i, first) PROVE Counted'
    BY Zenon, <1>0, <1>32, SameDoubt DEF PeerSettles, InDoubt, callerVars, linkVars, sessVars, peerVars
  <1>33. CASE UNCHANGED vars
    BY Zenon, <1>0, <1>33, SameDoubt DEF vars, InDoubt, callerVars, linkVars, sessVars, peerVars
  <1> QED
    BY Zenon, <1>1, <1>2, <1>3, <1>4, <1>5, <1>6, <1>7, <1>8, <1>9, <1>10, <1>11, <1>12, <1>13,
       <1>14, <1>15, <1>16, <1>17, <1>18, <1>19, <1>20, <1>21, <1>22, <1>23, <1>24,
       <1>25, <1>26, <1>27, <1>28, <1>29, <1>30, <1>31, <1>32, <1>33 DEF Next,
       CallerStep, MuxStep, SessionStep, PeerStep

-----------------------------------------------------------------------------
\* A new link satisfies the invariant.
LEMMA InitIInv == Init => IInv
  <1> SUFFICES ASSUME Init PROVE IInv
    BY Zenon
  <1>1. TypeOK
    <2>1. CallerTypes
      <3>1. 0 \in 0 .. (MaxFrames - 1)
        BY SenderAssumption
      <3> QED
        BY Zenon, <3>1 DEF Init, CallerTypes
    <2>2. LinkTypes
      <3>1. <<>> \in Seq(Frames) /\ 0 \in 0 .. (M - 1)
        BY SenderAssumption
      <3> QED
        BY Zenon, <3>1 DEF Init, LinkTypes
    <2>3. SessTypes /\ PeerTypes
      BY Zenon DEF Init, SessTypes, PeerTypes
    <2> QED
      BY Zenon, <2>1, <2>2, <2>3 DEF TypeOK
  <1>2. OneOwner
    BY Zenon, SenderAssumption DEF Init, OneOwner, Owning
  <1>3. Counted
    <2>1. ~InDoubt
      BY Zenon DEF Init, InDoubt
    <2> QED
      BY <2>1 DEF Init, Counted
  <1> QED
    BY Zenon, <1>1, <1>2, <1>3 DEF IInv

\* It holds throughout.
LEMMA AlwaysIInv == Spec => []IInv
  <1>1. IInv /\ [Next]_vars => IInv'
    BY Zenon, StepKeepsTypes, StepKeepsOneOwner, StepKeepsCounted DEF IInv
  <1> QED
    BY <1>1, InitIInv, PTL DEF Spec

\* The variables keep their types; linkCredit stays within the range of uint32
\* (sender.go, mux and muxHandleFrame).
THEOREM SenderTypes == Spec => []TypeOK
  <1>1. IInv => TypeOK
    BY Zenon DEF IInv
  <1> QED
    BY <1>1, AlwaysIInv, PTL

\* While the link works its delivery-count is exactly the number of deliveries
\* written, plus the one in doubt (sender.go, send and the rollback of mux).
THEOREM SenderCountsWritten == Spec => []DeliveryCountIsWritten
  <1>1. IInv => DeliveryCountIsWritten
    BY Zenon DEF IInv, Counted, DeliveryCountIsWritten
  <1> QED
    BY <1>1, AlwaysIInv, PTL

-----------------------------------------------------------------------------
\* After our detach the link is closing or gone and no transfer is on its way.
DetachLast ==
    /\ mux = "detach" => closeInProgress
    /\ detachOut => /\ closeInProgress \/ mux = "exited"
                    /\ mux # "transfer" /\ frame # "session"

\* Every step keeps it.
LEMMA StepKeepsDetachLast == DetachLast /\ [Next]_vars => DetachLast'
  <1> SUFFICES ASSUME DetachLast, [Next]_vars PROVE DetachLast'
    BY Zenon
  <1> USE DEF DetachLast
  <1>1. ASSUME NEW c \in Callers, Send(c) PROVE DetachLast'
    BY Zenon, <1>1 DEF Send, callerVars, linkVars, peerVars
  <1>2. ASSUME NEW c \in Callers, Cancel(c) PROVE DetachLast'
    BY Zenon, <1>2 DEF Cancel, callerVars, linkVars, peerVars
  <1>3. ASSUME NEW c \in Callers, Lock(c) PROVE DetachLast'
    BY Zenon, <1>3 DEF Lock, callerVars, linkVars, peerVars
  <1>4. ASSUME NEW c \in Callers, HandOver(c) PROVE DetachLast'
    BY Zenon, <1>4 DEF HandOver, callerVars, linkVars, peerVars
  <1>5. ASSUME NEW c \in Callers, HandOverFails(c) PROVE DetachLast'
    BY Zenon, <1>5 DEF HandOverFails, callerVars, linkVars, peerVars
  <1>6. ASSUME NEW c \in Callers, FrameWritten(c) PROVE DetachLast'
    BY Zenon, <1>6 DEF FrameWritten, callerVars, linkVars, peerVars
  <1>7. ASSUME NEW c \in Callers, FrameFailed(c) PROVE DetachLast'
    BY Zenon, <1>7 DEF FrameFailed, callerVars, linkVars, peerVars
  <1>8. ASSUME NEW c \in Callers, FrameAbandoned(c) PROVE DetachLast'
    BY Zenon, <1>8 DEF FrameAbandoned, callerVars, linkVars, peerVars
  <1>9. ASSUME NEW c \in Callers, Rollback(c) PROVE DetachLast'
    BY Zenon, <1>9 DEF Rollback, callerVars, linkVars, peerVars
  <1>10. ASSUME NEW c \in Callers, RollbackClosed(c) PROVE DetachLast'
    BY Zenon, <1>10 DEF RollbackClosed, callerVars, linkVars, peerVars
  <1>11. ASSUME NEW c \in Callers, Confirm(c) PROVE DetachLast'
    BY Zenon, <1>11 DEF Confirm, callerVars, linkVars, peerVars
  <1>12. CASE TransferToSession
    BY Zenon, <1>12 DEF TransferToSession, SessionReceives, callerVars, linkVars, peerVars
  <1>13. CASE TransferAbandoned
    BY Zenon, <1>13 DEF TransferAbandoned, callerVars, linkVars, peerVars
  <1>14. CASE HandleFlow
    BY Zenon, <1>14 DEF HandleFlow, Dequeued, callerVars, linkVars, peerVars
  <1>15. CASE HandleDisposition
    BY Zenon, <1>15 DEF HandleDisposition, Dequeued, callerVars, linkVars, peerVars
  <1>16. CASE SendReply
    BY Zenon, <1>16 DEF SendReply, callerVars, linkVars, peerVars
  <1>17. CASE HandleDetach
    BY Zenon, <1>17 DEF HandleDetach, Dequeued, callerVars, linkVars, peerVars
  <1>18. CASE HandleUnexpected
    BY Zenon, <1>18 DEF HandleUnexpected, Dequeued, callerVars, linkVars, peerVars
  <1>19. CASE CloseRequested
    BY Zenon, <1>19 DEF CloseRequested, callerVars, linkVars, peerVars
  <1>20. CASE SendDetach
    BY <1>20 DEF SendDetach, SessionReceives, callerVars, linkVars, peerVars
  <1>21. CASE SessionGone
    BY Zenon, <1>21 DEF SessionGone, callerVars, linkVars, peerVars
  <1>22. CASE Close
    BY Zenon, <1>22 DEF Close, callerVars, linkVars, peerVars
  <1>23. CASE WriteFrame
    BY Zenon, <1>23 DEF WriteFrame, callerVars, linkVars, peerVars
  <1>24. CASE SessionEnds
    BY Zenon, <1>24 DEF SessionEnds, callerVars, linkVars, peerVars
  <1>25. CASE SessionDone
    BY Zenon, <1>25 DEF SessionDone, callerVars, linkVars, peerVars
  <1>26. CASE WindowCloses
    BY Zenon, <1>26 DEF WindowCloses, callerVars, linkVars, peerVars
  <1>27. CASE WindowOpens
    BY Zenon, <1>27 DEF WindowOpens, callerVars, linkVars, peerVars
  <1>28. CASE PeerReceives
    BY Zenon, <1>28 DEF PeerReceives, callerVars, linkVars, peerVars
  <1>29. CASE PeerDetaches
    BY Zenon, <1>29 DEF PeerDetaches, callerVars, linkVars, peerVars
  <1>30. CASE PeerUnexpected
    BY Zenon, <1>30 DEF PeerUnexpected, callerVars, linkVars, peerVars
  <1>31. ASSUME NEW credit \in 0 .. MaxCredit, NEW echo \in BOOLEAN, PeerFlow(credit, echo)
        PROVE  DetachLast'
    BY Zenon, <1>31 DEF PeerFlow, callerVars, linkVars, peerVars
  <1>32. ASSUME NEW k \in 1 .. rcvd, NEW first \in BOOLEAN, PeerSettles(k, first) PROVE DetachLast'
    BY Zenon, <1>32 DEF PeerSettles, callerVars, linkVars, peerVars
  <1>33. CASE UNCHANGED vars
    BY Zenon, <1>33 DEF vars, callerVars, linkVars, peerVars
  <1> QED
    BY Zenon, <1>1, <1>2, <1>3, <1>4, <1>5, <1>6, <1>7, <1>8, <1>9, <1>10, <1>11, <1>12, <1>13,
       <1>14, <1>15, <1>16, <1>17, <1>18, <1>19, <1>20, <1>21, <1>22, <1>23, <1>24,
       <1>25, <1>26, <1>27, <1>28, <1>29, <1>30, <1>31, <1>32, <1>33 DEF Next,
       CallerStep, MuxStep, SessionStep, PeerStep

-----------------------------------------------------------------------------
\* A new link satisfies it.
LEMMA InitDetachLast == Init => DetachLast
  BY Zenon DEF Init, DetachLast

\* Nothing follows our detach on the wire (sender.go, mux; link.go, txFrame).
THEOREM SenderDetachLast == Spec => NoTransferAfterDetach
  <1> DEFINE Step == detachOut => written' = written /\ frame' # "session"
  <1>1. DetachLast /\ [Next]_vars => [Step]_vars
    <2> SUFFICES ASSUME DetachLast, [Next]_vars, detachOut
                 PROVE  written' = written /\ frame' # "session"
      BY Zenon DEF vars
    <2>1. frame # "session" /\ mux # "transfer"
      BY Zenon DEF DetachLast
    <2>2. ASSUME NEW c \in Callers, Send(c) \/ Cancel(c) \/ Lock(c) \/ CallerStep(c)
          PROVE  written' = written /\ frame' # "session"
      BY Zenon, <2>1, <2>2 DEF Send, Cancel, Lock, CallerStep, HandOver, HandOverFails, FrameWritten,
         FrameFailed, FrameAbandoned, Rollback, RollbackClosed, Confirm, peerVars
    <2>3. CASE MuxStep
      BY Zenon, <2>1, <2>3 DEF MuxStep, TransferToSession, TransferAbandoned, HandleFlow,
         HandleDisposition, SendReply, HandleDetach, HandleUnexpected, CloseRequested,
         SendDetach, SessionGone, callerVars, peerVars
    <2>4. CASE Close \/ WriteFrame \/ SessionStep
      BY Zenon, <2>1, <2>4 DEF Close, WriteFrame, SessionStep, SessionEnds, SessionDone,
         WindowCloses, WindowOpens, callerVars, peerVars
    <2>5. CASE PeerStep
      BY Zenon, <2>1, <2>5 DEF PeerStep, PeerReceives, PeerFlow, PeerSettles, PeerDetaches,
         PeerUnexpected, callerVars
    <2>6. CASE UNCHANGED vars
      BY Zenon, <2>1, <2>6 DEF vars, callerVars, peerVars
    <2> QED
      BY Zenon, <2>2, <2>3, <2>4, <2>5, <2>6 DEF Next
  <1>2. Init => DetachLast
    BY Zenon, InitDetachLast
  <1> QED
    BY <1>1, <1>2, StepKeepsDetachLast, PTL DEF Spec, NoTransferAfterDetach

-----------------------------------------------------------------------------
(* The credit of the link, while the peer takes none of it back *)

Granted(fr) == fr.linkCredit + fr.deliveryCount

\* The flows on their way never take back what an earlier one granted, and none
\* counts deliveries that the peer has not received.
FlowsInOrder ==
    /\ \A i \in 1 .. Len(rxQ) : rxQ[i].type = "flow" =>
           /\ rxQ[i].deliveryCount <= rcvd
           /\ seen <= Granted(rxQ[i]) /\ Granted(rxQ[i]) <= limit
    /\ \A i, j \in 1 .. Len(rxQ) :
           i < j /\ rxQ[i].type = "flow" /\ rxQ[j].type = "flow" =>
               Granted(rxQ[i]) <= Granted(rxQ[j])

\* The credit kept is the credit left, without wrapping around, and it does not
\* change between the test of the mux and the hand-over to the session.
CreditLeft ==
    /\ linkCredit = seen - count
    /\ mux = "transfer" => linkCredit > 0
    /\ rcvd <= written
    /\ seen <= rcvd + MaxCredit /\ seen <= limit

CInv == IInv /\ CreditLeft /\ FlowsInOrder

\* The frames of rxQ that are flows have numbers in their fields.
LEMMA FlowFields ==
    ASSUME TypeOK, NEW i \in 1 .. Len(rxQ), rxQ[i].type = "flow"
    PROVE  rxQ[i].linkCredit \in 0 .. MaxCredit /\ rxQ[i].deliveryCount \in Nat
  <1>1. rxQ[i] \in Frames
    BY DEF TypeOK, LinkTypes
  <1> QED
    BY Zenon, <1>1 DEF Frames

\* A frame taken off the front leaves the others in order.
LEMMA DequeueKeepsOrder ==
    ASSUME CInv, NEW type, Dequeued(type), rcvd' = rcvd, limit' = limit,
           seen' = (IF type = "flow" THEN Granted(Head(rxQ)) ELSE seen)
    PROVE  FlowsInOrder'
  <1>1. rxQ \in Seq(Frames) /\ rxQ # <<>> /\ rxQ' = Tail(rxQ) /\ rxQ[1].type = type
    BY DEF CInv, IInv, TypeOK, LinkTypes, Dequeued
  <1>2. \A i \in 1 .. Len(rxQ') : i + 1 \in 1 .. Len(rxQ) /\ rxQ'[i] = rxQ[i + 1]
    BY <1>1
  <1>3. 1 \in 1 .. Len(rxQ) /\ Head(rxQ) = rxQ[1]
    BY <1>1
  <1>4. ASSUME NEW i \in 1 .. Len(rxQ'), rxQ'[i].type = "flow"
        PROVE  rxQ'[i].deliveryCount <= rcvd /\ seen' <= Granted(rxQ'[i]) /\ Granted(rxQ'[i]) <= limit
    <2>1. i + 1 \in 1 .. Len(rxQ) /\ rxQ'[i] = rxQ[i + 1] /\ 1 < i + 1
      BY <1>2
    <2>2. type = "flow" => Granted(rxQ[1]) <= Granted(rxQ[i + 1])
      BY Zenon, <1>1, <1>3, <1>4, <2>1 DEF CInv, FlowsInOrder
    <2> QED
      BY <1>3, <1>4, <2>1, <2>2 DEF CInv, FlowsInOrder
  <1>5. ASSUME NEW i \in 1 .. Len(rxQ'), NEW j \in 1 .. Len(rxQ'), i < j,
               rxQ'[i].type = "flow", rxQ'[j].type = "flow"
        PROVE  Granted(rxQ'[i]) <= Granted(rxQ'[j])
    <2>1. i + 1 < j + 1
      BY <1>5
    <2> QED
      BY Zenon, <1>2, <1>5, <2>1 DEF CInv, FlowsInOrder
  <1> QED
    BY <1>4, <1>5 DEF FlowsInOrder, Granted

\* A frame at the end keeps the order: a flow because it grants no less.
LEMMA AppendKeepsOrder ==
    ASSUME CInv, NEW fr \in Frames, rxQ' = Append(rxQ, fr), rcvd' = rcvd, seen' = seen,
           limit' \in Nat, limit <= limit',
           fr.type = "flow" => fr.deliveryCount <= rcvd /\ Granted(fr) = limit'
    PROVE  FlowsInOrder'
  <1>1. rxQ \in Seq(Frames) /\ limit \in Nat /\ seen \in Nat
    BY Zenon DEF CInv, IInv, TypeOK, LinkTypes, PeerTypes
  <1>2. \A i \in 1 .. Len(rxQ') :
            \/ i \in 1 .. Len(rxQ) /\ rxQ'[i] = rxQ[i]
            \/ i = Len(rxQ) + 1 /\ rxQ'[i] = fr
    BY <1>1
  <1>3. ASSUME NEW i \in 1 .. Len(rxQ), rxQ[i].type = "flow"
        PROVE  Granted(rxQ[i]) \in Nat
    <2>1. rxQ[i].linkCredit \in 0 .. MaxCredit /\ rxQ[i].deliveryCount \in Nat
      BY Zenon, <1>3, FlowFields DEF CInv, IInv
    <2>2. MaxCredit \in Nat
      BY Zenon, SenderAssumption
    <2>3. \A max, d \in Nat : \A c \in 0 .. max : c + d \in Nat
      OBVIOUS
    <2> QED
      BY Zenon, <2>1, <2>2, <2>3 DEF Granted
  <1>4. ASSUME NEW i \in 1 .. Len(rxQ'), rxQ'[i].type = "flow"
        PROVE  rxQ'[i].deliveryCount <= rcvd /\ seen <= Granted(rxQ'[i]) /\ Granted(rxQ'[i]) <= limit'
    <2>1. CASE i \in 1 .. Len(rxQ) /\ rxQ'[i] = rxQ[i]
      BY <1>1, <1>3, <1>4, <2>1 DEF CInv, FlowsInOrder
    <2>2. CASE i = Len(rxQ) + 1 /\ rxQ'[i] = fr
      BY <1>1, <1>4, <2>2 DEF CInv, CreditLeft
    <2> QED
      BY Zenon, <1>2, <2>1, <2>2
  <1>5. ASSUME NEW i \in 1 .. Len(rxQ'), NEW j \in 1 .. Len(rxQ'), i < j,
               rxQ'[i].type = "flow", rxQ'[j].type = "flow"
        PROVE  Granted(rxQ'[i]) <= Granted(rxQ'[j])
    <2>1. i \in 1 .. Len(rxQ) /\ rxQ'[i] = rxQ[i]
      BY <1>1, <1>2, <1>5
    <2>2. CASE j \in 1 .. Len(rxQ) /\ rxQ'[j] = rxQ[j]
      BY Zenon, <1>5, <2>1, <2>2 DEF CInv, FlowsInOrder
    <2>3. CASE j = Len(rxQ) + 1 /\ rxQ'[j] = fr
      BY <1>1, <1>3, <1>5, <2>1, <2>3 DEF CInv, FlowsInOrder
    <2> QED
      BY Zenon, <1>2, <2>2, <2>3
  <1> QED
    BY Zenon, <1>4, <1>5 DEF FlowsInOrder, Granted

\* Every step of a link whose peer does not lower its limit keeps the credit.
LEMMA StepKeepsCredit == ~PeerReduces /\ CInv /\ [Next]_vars => CreditLeft' /\ FlowsInOrder'
  <1> DEFINE Goal == CreditLeft' /\ FlowsInOrder'
  <1> SUFFICES ASSUME ~PeerReduces, CInv, [Next]_vars PROVE Goal
    BY Zenon
  <1>0. /\ count \in Nat /\ linkCredit \in 0 .. (M - 1) /\ rxQ \in Seq(Frames)
        /\ written \in Nat /\ rcvd \in Nat /\ limit \in Nat /\ seen \in Nat
        /\ written <= count /\ CreditLeft /\ FlowsInOrder /\ MaxCredit \in Nat /\ MaxCredit < M /\ M \in Nat
    BY SenderAssumption DEF CInv, IInv, TypeOK, LinkTypes, PeerTypes, Counted
  <1>1. ASSUME NEW c \in Callers, Send(c) PROVE Goal
    BY Zenon, <1>0, <1>1 DEF Send, CreditLeft, FlowsInOrder, linkVars, peerVars
  <1>2. ASSUME NEW c \in Callers, Cancel(c) PROVE Goal
    BY Zenon, <1>0, <1>2 DEF Cancel, CreditLeft, FlowsInOrder, linkVars, peerVars
  <1>3. ASSUME NEW c \in Callers, Lock(c) PROVE Goal
    BY Zenon, <1>0, <1>3 DEF Lock, CreditLeft, FlowsInOrder, linkVars, peerVars
  <1>4. ASSUME NEW c \in Callers, HandOver(c) PROVE Goal
    BY Zenon, <1>0, <1>4 DEF HandOver, Goto, CreditLeft, FlowsInOrder, linkVars, peerVars
  <1>5. ASSUME NEW c \in Callers, HandOverFails(c) PROVE Goal
    BY Zenon, <1>0, <1>5 DEF HandOverFails, CreditLeft, FlowsInOrder, linkVars, peerVars
  <1>6. ASSUME NEW c \in Callers, FrameWritten(c) PROVE Goal
    BY Zenon, <1>0, <1>6 DEF FrameWritten, CreditLeft, FlowsInOrder, linkVars, peerVars
  <1>7. ASSUME NEW c \in Callers, FrameFailed(c) PROVE Goal
    BY Zenon, <1>0, <1>7 DEF FrameFailed, CreditLeft, FlowsInOrder, linkVars, peerVars
  <1>8. ASSUME NEW c \in Callers, FrameAbandoned(c) PROVE Goal
    BY Zenon, <1>0, <1>8 DEF FrameAbandoned, CreditLeft, FlowsInOrder, linkVars, peerVars
  <1>9. ASSUME NEW c \in Callers, Rollback(c) PROVE Goal
    <2>1. FlowsInOrder'
      BY Zenon, <1>0, <1>9 DEF Rollback, FlowsInOrder, linkVars, peerVars
    <2>2. InDoubt
      BY Zenon, <1>9 DEF Rollback, InDoubt
    <2>3. written + 1 <= count
      BY Zenon, <1>0, <2>2 DEF CInv, IInv, Counted
    <2>4. linkCredit' = linkCredit + 1
      BY <1>0, <1>9, <2>3, ModSmall DEF Rollback, CreditLeft
    <2>5. CreditLeft'
      BY <1>0, <1>9, <2>4 DEF Rollback, CreditLeft, peerVars
    <2> QED
      BY Zenon, <2>1, <2>5
  <1>10. ASSUME NEW c \in Callers, RollbackClosed(c) PROVE Goal
    BY Zenon, <1>0, <1>10 DEF RollbackClosed, CreditLeft, FlowsInOrder, linkVars, peerVars
  <1>11. ASSUME NEW c \in Callers, Confirm(c) PROVE Goal
    BY Zenon, <1>0, <1>11 DEF Confirm, CreditLeft, FlowsInOrder, linkVars, peerVars
  <1>12. CASE TransferToSession
    <2>1. FlowsInOrder'
      BY Zenon, <1>0, <1>12 DEF TransferToSession, FlowsInOrder, linkVars, peerVars
    <2>2. (linkCredit - 1) % M = linkCredit - 1
      BY <1>0, <1>12, ModSmall DEF TransferToSession, CreditLeft
    <2>3. CreditLeft'
      BY <1>0, <1>12, <2>2 DEF TransferToSession, CreditLeft, peerVars
    <2> QED
      BY Zenon, <2>1, <2>3
  <1>13. CASE TransferAbandoned
    BY Zenon, <1>0, <1>13 DEF TransferAbandoned, CreditLeft, FlowsInOrder, linkVars, peerVars
  <1>14. CASE HandleFlow
    <2>1. Dequeued("flow") /\ seen' = Granted(Head(rxQ))
      BY Zenon, <1>14 DEF HandleFlow, Granted
    <2>2. FlowsInOrder'
      BY Zenon, <1>14, <2>1, DequeueKeepsOrder DEF HandleFlow
    <2>3. 1 \in 1 .. Len(rxQ) /\ Head(rxQ) = rxQ[1] /\ rxQ[1].type = "flow"
      BY <1>0, <2>1 DEF Dequeued
    <2>4. /\ rxQ[1].linkCredit \in 0 .. MaxCredit /\ rxQ[1].deliveryCount \in Nat
          /\ rxQ[1].deliveryCount <= rcvd
          /\ seen <= Granted(rxQ[1]) /\ Granted(rxQ[1]) <= limit
      BY Zenon, <1>0, <2>3, FlowFields DEF CInv, IInv, FlowsInOrder
    <2> DEFINE left == rxQ[1].linkCredit - count + rxQ[1].deliveryCount
    <2>5. left \in Int /\ 0 <= left /\ left < M /\ left = Granted(rxQ[1]) - count
      <3>1. count <= seen /\ rcvd <= count
        BY <1>0 DEF CreditLeft
      <3>2. seen <= rxQ[1].linkCredit + rxQ[1].deliveryCount
        BY Zenon, <2>4 DEF Granted
      <3>3. /\ rxQ[1].linkCredit \in Nat /\ rxQ[1].linkCredit <= MaxCredit
            /\ rxQ[1].deliveryCount \in Nat /\ rxQ[1].deliveryCount <= count
        <4>1. rcvd \in Nat /\ count \in Nat /\ MaxCredit \in Nat
          BY Zenon, <1>0
        <4> QED
          BY <2>4, <3>1, <4>1
      <3>4. count \in Nat /\ seen \in Nat /\ MaxCredit \in Nat /\ M \in Nat /\ MaxCredit < M
        BY Zenon, <1>0
      <3> QED
        BY <3>1, <3>2, <3>3, <3>4 DEF Granted
    <2>6. left % M = left
      BY Zenon, <2>5, ModSmall
    <2>7. linkCredit' = left
      BY <1>14, <2>3, <2>6 DEF HandleFlow
    <2>8. CreditLeft'
      <3>1. /\ mux' # "transfer" /\ count' = count /\ rcvd' = rcvd /\ written' = written
            /\ limit' = limit
        BY Zenon, <1>14 DEF HandleFlow
      <3>2. linkCredit' = seen' - count
        BY Zenon, <2>1, <2>3, <2>5, <2>7
      <3>3. seen' <= limit /\ seen' <= rcvd + MaxCredit
        <4>1. seen' = rxQ[1].linkCredit + rxQ[1].deliveryCount
          BY Zenon, <2>1, <2>3 DEF Granted
        <4>2. rxQ[1].linkCredit \in Nat /\ rxQ[1].linkCredit <= MaxCredit
          <5>1. MaxCredit \in Nat
            BY Zenon, <1>0
          <5> QED
            BY <2>4, <5>1
        <4>3. /\ rxQ[1].deliveryCount \in Nat /\ rxQ[1].deliveryCount <= rcvd
              /\ rxQ[1].linkCredit + rxQ[1].deliveryCount <= limit
          BY Zenon, <2>4 DEF Granted
        <4>4. rcvd \in Nat /\ MaxCredit \in Nat /\ limit \in Nat
          BY Zenon, <1>0
        <4> QED
          BY <4>1, <4>2, <4>3, <4>4
      <3> QED
        BY Zenon, <1>0, <3>1, <3>2, <3>3 DEF CreditLeft
    <2> QED
      BY Zenon, <2>2, <2>8
  <1>15. CASE HandleDisposition
    <2>1. FlowsInOrder'
      BY Zenon, <1>15, DequeueKeepsOrder DEF HandleDisposition, peerVars
    <2>2. CreditLeft'
      BY Zenon, <1>0, <1>15 DEF HandleDisposition, CreditLeft, Dequeued, peerVars
    <2> QED
      BY Zenon, <2>1, <2>2
  <1>16. CASE SendReply
    BY Zenon, <1>0, <1>16 DEF SendReply, CreditLeft, FlowsInOrder, linkVars, peerVars
  <1>17. CASE HandleDetach
    <2>1. FlowsInOrder'
      BY Zenon, <1>17, DequeueKeepsOrder DEF HandleDetach, peerVars
    <2>2. CreditLeft'
      BY Zenon, <1>0, <1>17 DEF HandleDetach, CreditLeft, Dequeued, peerVars
    <2> QED
      BY Zenon, <2>1, <2>2
  <1>18. CASE HandleUnexpected
    <2>1. FlowsInOrder'
      BY Zenon, <1>18, DequeueKeepsOrder DEF HandleUnexpected, peerVars
    <2>2. CreditLeft'
      BY Zenon, <1>0, <1>18 DEF HandleUnexpected, CreditLeft, Dequeued, peerVars
    <2> QED
      BY Zenon, <2>1, <2>2
  <1>19. CASE CloseRequested
    BY Zenon, <1>0, <1>19 DEF CloseRequested, CreditLeft, FlowsInOrder, linkVars, peerVars
  <1>20. CASE SendDetach
    BY Zenon, <1>0, <1>20 DEF SendDetach, CreditLeft, FlowsInOrder, linkVars, peerVars
  <1>21. CASE SessionGone
    BY Zenon, <1>0, <1>21 DEF SessionGone, CreditLeft, FlowsInOrder, linkVars, peerVars
  <1>22. CASE Close
    BY Zenon, <1>0, <1>22 DEF Close, CreditLeft, FlowsInOrder, linkVars, peerVars
  <1>23. CASE WriteFrame
    <2>1. FlowsInOrder'
      BY <1>0, <1>23 DEF WriteFrame, FlowsInOrder, linkVars
    <2>2. written <= written' /\ written' \in Nat
      BY <1>0, <1>23 DEF WriteFrame
    <2>3. CreditLeft'
      BY <1>0, <1>23, <2>2 DEF WriteFrame, CreditLeft, linkVars
    <2> QED
      BY Zenon, <2>1, <2>3
  <1>24. CASE SessionEnds
    BY Zenon, <1>0, <1>24 DEF SessionEnds, CreditLeft, FlowsInOrder, linkVars, peerVars
  <1>25. CASE SessionDone
    BY <1>0, <1>25 DEF SessionDone, CreditLeft, FlowsInOrder, linkVars, peerVars
  <1>26. CASE WindowCloses
    BY Zenon, <1>0, <1>26 DEF WindowCloses, CreditLeft, FlowsInOrder, linkVars, peerVars
  <1>27. CASE WindowOpens
    BY Zenon, <1>0, <1>27 DEF WindowOpens, CreditLeft, FlowsInOrder, linkVars, peerVars
  <1>28. CASE PeerReceives
    <2>1. FlowsInOrder'
      <3>1. \A i \in 1 .. Len(rxQ) : rxQ[i].type = "flow" => rxQ[i].deliveryCount \in Nat
        BY Zenon, FlowFields DEF CInv, IInv
      <3>2. rxQ' = rxQ /\ seen' = seen /\ limit' = limit /\ rcvd' = rcvd + 1
        BY Zenon, <1>28 DEF PeerReceives, linkVars
      <3>3. ASSUME NEW i \in 1 .. Len(rxQ), rxQ[i].type = "flow"
            PROVE  rxQ[i].deliveryCount <= rcvd + 1
        <4>1. rxQ[i].deliveryCount <= rcvd
          BY Zenon, <1>0, <3>3 DEF FlowsInOrder
        <4>2. rxQ[i].deliveryCount \in Nat
          BY Zenon, <3>1, <3>3
        <4> QED
          BY <1>0, <4>1, <4>2
      <3>4. FlowsInOrder
        BY Zenon, <1>0
      <3> QED
        BY <3>2, <3>3, <3>4 DEF FlowsInOrder, Granted
    <2>2. CreditLeft'
      BY <1>0, <1>28 DEF PeerReceives, CreditLeft, linkVars
    <2> QED
      BY Zenon, <2>1, <2>2
  <1>29. CASE PeerDetaches
    <2> DEFINE fr == [type |-> "detach"]
    <2>1. fr \in Frames /\ fr.type # "flow" /\ rxQ' = Append(rxQ, fr)
      BY Zenon, <1>0, <1>29 DEF PeerDetaches, Frames
    <2>a. rcvd' = rcvd /\ seen' = seen /\ limit' \in Nat /\ limit <= limit'
      BY <1>0, <1>29 DEF PeerDetaches
    <2> HIDE DEF fr
    <2>2. FlowsInOrder'
      BY Zenon, <2>1, <2>a, AppendKeepsOrder
    <2>3. CreditLeft'
      BY Zenon, <1>0, <1>29 DEF PeerDetaches, CreditLeft
    <2> QED
      BY Zenon, <2>2, <2>3
  <1>30. CASE PeerUnexpected
    <2> DEFINE fr == [type |-> "unexpected"]
    <2>1. fr \in Frames /\ fr.type # "flow" /\ rxQ' = Append(rxQ, fr)
      BY Zenon, <1>0, <1>30 DEF PeerUnexpected, Frames
    <2>a. rcvd' = rcvd /\ seen' = seen /\ limit' \in Nat /\ limit <= limit'
      BY <1>0, <1>30 DEF PeerUnexpected
    <2> HIDE DEF fr
    <2>2. FlowsInOrder'
      BY Zenon, <2>1, <2>a, AppendKeepsOrder
    <2>3. CreditLeft'
      BY Zenon, <1>0, <1>30 DEF PeerUnexpected, CreditLeft
    <2> QED
      BY Zenon, <2>2, <2>3
  <1>31. ASSUME NEW credit \in 0 .. MaxCredit, NEW echo \in BOOLEAN, PeerFlow(credit, echo) PROVE Goal
    <2> DEFINE fr == [type |-> "flow", linkCredit |-> credit, deliveryCount |-> rcvd, echo |-> echo]
    <2>1. fr \in Frames /\ rxQ' = Append(rxQ, fr)
      BY Zenon, <1>0, <1>31 DEF PeerFlow, Frames
    <2>2. limit' \in Nat /\ limit <= limit' /\ Granted(fr) = limit' /\ fr.deliveryCount <= rcvd
      BY <1>0, <1>31 DEF PeerFlow, Granted
    <2>a. rcvd' = rcvd /\ seen' = seen
      BY Zenon, <1>31 DEF PeerFlow
    <2> HIDE DEF fr
    <2>3. FlowsInOrder'
      BY Zenon, <2>1, <2>2, <2>a, AppendKeepsOrder
    <2>4. CreditLeft'
      BY <1>0, <1>31, <2>2 DEF PeerFlow, CreditLeft
    <2> QED
      BY Zenon, <2>3, <2>4
  <1>32. ASSUME NEW k \in 1 .. rcvd, NEW first \in BOOLEAN, PeerSettles(k, first) PROVE Goal
    <2> DEFINE fr == [type |-> "disposition", delivery |-> k, settled |-> first]
    <2>1. fr \in Frames /\ fr.type # "flow" /\ rxQ' = Append(rxQ, fr)
      <3>1. k \in Nat
        BY <1>0
      <3>2. fr \in Frames /\ fr.type # "flow"
        BY Zenon, <3>1 DEF Frames
      <3> QED
        BY Zenon, <1>32, <3>2 DEF PeerSettles
    <2>a. rcvd' = rcvd /\ seen' = seen /\ limit' \in Nat /\ limit <= limit'
      BY <1>0, <1>32 DEF PeerSettles
    <2> HIDE DEF fr
    <2>2. FlowsInOrder'
      BY Zenon, <2>1, <2>a, AppendKeepsOrder
    <2>3. CreditLeft'
      BY Zenon, <1>0, <1>32 DEF PeerSettles, CreditLeft
    <2> QED
      BY Zenon, <2>2, <2>3
  <1>33. CASE UNCHANGED vars
    BY Zenon, <1>0, <1>33 DEF vars, CreditLeft, FlowsInOrder, linkVars, peerVars
  <1> QED
    BY Zenon, <1>1, <1>2, <1>3, <1>4, <1>5, <1>6, <1>7, <1>8, <1>9, <1>10, <1>11, <1>12, <1>13,
       <1>14, <1>15, <1>16, <1>17, <1>18, <1>19, <1>20, <1>21, <1>22, <1>23, <1>24,
       <1>25, <1>26, <1>27, <1>28, <1>29, <1>30, <1>31, <1>32, <1>33 DEF Next,
       CallerStep, MuxStep, SessionStep, PeerStep

-----------------------------------------------------------------------------
\* A new link has no credit and no flow on its way.
LEMMA InitCInv == Init => CInv
  <1> SUFFICES ASSUME Init PROVE CInv
    BY Zenon
  <1>1. CreditLeft
    BY SenderAssumption DEF Init, CreditLeft
  <1>2. FlowsInOrder
    <2>1. 1 .. Len(rxQ) = {}
      BY DEF Init
    <2> QED
      BY Zenon, <2>1 DEF FlowsInOrder
  <1> QED
    BY Zenon, <1>1, <1>2, InitIInv DEF CInv

\* Every step keeps the invariant while the peer keeps its limit.
LEMMA StepKeepsCInv == ~PeerReduces /\ CInv /\ [Next]_vars => CInv'
  BY Zenon, StepKeepsTypes, StepKeepsOneOwner, StepKeepsCounted, StepKeepsCredit DEF CInv, IInv

\* With such a peer the link-credit that the mux keeps, in 32 bits, is what the
\* peer has granted less what was sent (sender.go, mux, muxHandleFrame and the
\* rollback).
THEOREM SenderCreditIsWhatIsLeft ==
    ASSUME ~PeerReduces PROVE Spec => []CreditIsWhatIsLeft
  <1>1. CInv /\ [Next]_vars => CInv'
    BY Zenon, StepKeepsCInv
  <1>2. CInv => CreditIsWhatIsLeft
    <2> SUFFICES ASSUME CInv PROVE linkCredit = (seen - count) % M
      BY Zenon DEF CreditIsWhatIsLeft
    <2>1. /\ linkCredit \in 0 .. (M - 1) /\ M \in Nat \ {0} /\ seen \in Nat /\ count \in Nat
          /\ linkCredit = seen - count
      BY SenderAssumption DEF CInv, IInv, TypeOK, LinkTypes, PeerTypes, CreditLeft
    <2>2. (seen - count) \in Int /\ 0 <= seen - count /\ seen - count < M
      BY <2>1
    <2> QED
      BY Zenon, <2>1, <2>2, ModSmall
  <1> QED
    BY <1>1, <1>2, InitCInv, PTL DEF Spec

\* A peer that does not lower its limit is never sent more than it granted,
\* whatever flows, transfers, failed writes and rollbacks cross each other
\* (sender.go, mux and muxHandleFrame).
THEOREM SenderNeverOverruns == Spec => []PeerNeverOverrun
  <1>1. CASE PeerReduces
    <2>1. PeerNeverOverrun
      BY Zenon, <1>1 DEF PeerNeverOverrun
    <2> QED
      BY <2>1, PTL
  <1>2. CASE ~PeerReduces
    <2>1. CInv /\ [Next]_vars => CInv'
      BY Zenon, <1>2, StepKeepsCInv
    <2>2. CInv => PeerNeverOverrun
      <3> SUFFICES ASSUME CInv PROVE written <= limit
        BY Zenon DEF PeerNeverOverrun
      <3>1. /\ written \in Nat /\ count \in Nat /\ seen \in Nat /\ limit \in Nat
            /\ linkCredit \in 0 .. (M - 1) /\ M \in Nat
        BY Zenon, SenderAssumption DEF CInv, IInv, TypeOK, LinkTypes, PeerTypes
      <3>2. written <= count
        BY <3>1 DEF CInv, IInv, Counted
      <3>3. count <= seen /\ seen <= limit
        BY <3>1 DEF CInv, CreditLeft
      <3> QED
        BY <3>1, <3>2, <3>3
    <2> QED
      BY <2>1, <2>2, InitCInv, PTL DEF Spec
  <1> QED
    BY Zenon, <1>1, <1>2
=============================================================================
