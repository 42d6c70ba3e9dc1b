----------------------------- MODULE ConnProofs -----------------------------
(***************************************************************************)
(* What a connection promises (Conn), for any number of sessions, any       *)
(* configuration and any peer.                                              *)
(***************************************************************************)
EXTENDS Conn, BitmapProofs

\* The fields of the records that the actions update.
Shapes ==
    /\ DOMAIN start = {"at", "proto", "mech", "tlsComplete", "saslComplete", "challenged",
                       "channelMax", "result"}
    /\ DOMAIN reader = {"at", "fr", "rxErr"}
    /\ DOMAIN writer = {"at", "txErr"}
    /\ DOMAIN closing = {"at", "closeErr", "doneErr"}

\* Until start returns nil there is no goroutine, no session and no frame.
Idle ==
    start.result # "ok" =>
        /\ reader.at = "read" /\ writer.at = "select" /\ closing.at = "no" /\ ~user
        /\ toUs = << >>
        /\ \A s \in Sessions : sess[s].at = "new"

\* Who has closed the network connection: the state functions or the
\* interruptor while start runs, and after that only close().
NetInv ==
    /\ start.result \in {"none", "ok", "error"} /\ net \in {"open", "closed"}
    /\ start.result = "none" /\ closeOnce => net = "closed"
    /\ interruptor = "ctxErr" /\ start.result = "none" => net = "closed"
    /\ start.at = "failed" /\ start.result = "none" => net = "closed"
    /\ start.at = "established" /\ start.result = "none" /\ net = "closed" => interruptor = "ctxErr"
    /\ start.result # "none" => interruptor # "waiting" /\ start.at \in {"established", "failed"}
    /\ start.result = "ok" => start.at = "established"
    /\ start.result = "ok" /\ closing.at \in {"no", "tx"} => net = "open"
    /\ start.result = "error" => net = "closed"

\* What each state function relies on having been negotiated.
NegotiationInv ==
    /\ start.at = "exchangeProtoHeader" => start.proto \in {"tls", "sasl", "amqp"}
    /\ conf.tls => \/ start.tlsComplete
                   \/ start.at \in {"negotiateProto", "startTLS", "failed"}
                   \/ start.at = "exchangeProtoHeader" /\ start.proto = "tls"
    /\ conf.sasl # {} => \/ start.saslComplete
                         \/ start.at \notin {"exchangeProtoHeader", "openAMQP", "opening", "established"}
                         \/ start.at = "exchangeProtoHeader" /\ start.proto # "amqp"

\* close() waits for the goroutines, whose errors are then final.
ExitInv ==
    /\ closing.at \in {"no", "tx", "rx", "set", "done"}
    /\ closing.at \in {"rx", "set", "done"} => writer.at = "exited"
    /\ closing.at \in {"set", "done"} => reader.at = "exited" /\ closing.doneErr = DoneErr

LifeInv == Shapes /\ Idle /\ NetInv /\ NegotiationInv /\ ExitInv

\* NewConn establishes the invariant.
LEMMA LifeInvInit == Init => LifeInv
  BY DEF Init, StartInit, LifeInv, Shapes, Idle, NetInv, NegotiationInv, ExitInv

\* Every step of start and of the interruptor preserves it.
LEMMA StartKeepsLifeInv ==
    ASSUME LifeInv, StartNext(ChannelMax), UNCHANGED << sess, table, cleanup, io, faults >>
    PROVE  LifeInv'
  <1> USE DEF LifeInv
  <1>0. UNCHANGED << sess, reader, writer, closing, toUs, user >>
    BY Zenon DEF io
  <1>1. Shapes'
    BY Zenon, <1>0 DEF Shapes, StartNext, Step, negotiateProto, exchangeProtoHeader, startTLS, negotiateSASL,
                saslInit, saslOutcome, challenge, openAMQP, opened, StartFails, ContextEnds,
                Interrupts, InterruptorStops, StartReturns
  <1>2. ExitInv'
    BY Zenon, <1>0 DEF ExitInv, DoneErr
  <1>3. Idle' /\ NetInv' /\ NegotiationInv'
    <2>1. CASE negotiateProto
      BY ZenonT(60), <1>0, <2>1 DEF Shapes, Idle, NetInv, NegotiationInv, negotiateProto, NextProto, Step, At
    <2>2. CASE exchangeProtoHeader
      BY ZenonT(60), <1>0, <2>2 DEF Shapes, Idle, NetInv, NegotiationInv, exchangeProtoHeader, Step, At
    <2>3. CASE startTLS
      BY ZenonT(60), <1>0, <2>3 DEF Shapes, Idle, NetInv, NegotiationInv, startTLS, Step, At
    <2>4. CASE negotiateSASL
      BY <1>0, <2>4 DEF Shapes, Idle, NetInv, NegotiationInv, negotiateSASL, Step, At
    <2>5. CASE saslInit
      BY ZenonT(60), <1>0, <2>5 DEF Shapes, Idle, NetInv, NegotiationInv, saslInit, Step, At
    <2>6. CASE saslOutcome
      BY ZenonT(60), <1>0, <2>6 DEF Shapes, Idle, NetInv, NegotiationInv, saslOutcome, Step, At
    <2>7. CASE challenge
      BY ZenonT(60), <1>0, <2>7 DEF Shapes, Idle, NetInv, NegotiationInv, challenge, Step, At
    <2>8. CASE openAMQP
      BY ZenonT(60), <1>0, <2>8 DEF Shapes, Idle, NetInv, NegotiationInv, openAMQP, Step, At
    <2>9. CASE opened(ChannelMax)
      BY <1>0, <2>9 DEF Shapes, Idle, NetInv, NegotiationInv, opened, Step, At, Lesser
    <2>10. CASE StartFails
      BY ZenonT(60), <1>0, <2>10 DEF Shapes, Idle, NetInv, NegotiationInv, StartFails, closeDuringStart
    <2>11. CASE ContextEnds
      BY ZenonT(60), <1>0, <2>11 DEF Shapes, Idle, NetInv, NegotiationInv, ContextEnds
    <2>12. CASE Interrupts
      BY ZenonT(60), <1>0, <2>12 DEF Shapes, Idle, NetInv, NegotiationInv, Interrupts, closeDuringStart
    <2>13. CASE InterruptorStops
      BY ZenonT(60), <1>0, <2>13 DEF Shapes, Idle, NetInv, NegotiationInv, InterruptorStops
    <2>14. CASE StartReturns
      BY ZenonT(60), <1>0, <2>14 DEF Shapes, Idle, NetInv, NegotiationInv, StartReturns, Started, Step
    <2> QED
      BY Zenon, <2>1, <2>2, <2>3, <2>4, <2>5, <2>6, <2>7, <2>8, <2>9, <2>10, <2>11, <2>12, <2>13, <2>14 DEF StartNext
  <1> QED
    BY Zenon, <1>1, <1>2, <1>3

\* The steps that are not of start or of the interruptor.
Work ==
    \/ Writer \/ WriteFails \/ WriterExits \/ ReadFrame \/ ReaderLocks \/ ReadFails
    \/ Closing \/ UserCloses
    \/ PeerReads \/ PeerEnds \/ PeerData \/ PeerCloses
    \/ \E s \in Sessions : Session(s) \/ WaitEnds(s) \/ CloseSession(s) \/ Refuses(s)

\* None of them is taken before start has returned nil.
LEMMA WorkAfterStart ==
    ASSUME LifeInv, Work
    PROVE  start.result = "ok"
  <1> SUFFICES ASSUME Idle, start.result # "ok" PROVE FALSE
    BY Zenon DEF LifeInv
  <1>0. /\ reader.at = "read" /\ writer.at = "select" /\ closing.at = "no" /\ ~user
        /\ toUs = << >>
        /\ \A s \in Sessions : sess[s].at = "new"
    BY Zenon DEF Idle
  <1>1. CASE Writer
    BY Zenon, <1>0, <1>1 DEF Writer, Writes, Offering
  <1>2. CASE WriteFails \/ WriterExits \/ ReadFrame \/ ReaderLocks \/ ReadFails \/ UserCloses
    BY Zenon, <1>0, <1>2 DEF WriteFails, WriterExits, ReadFrame, ReaderLocks, ReadFails, UserCloses, Up
  <1>3. CASE Closing
    BY Zenon, <1>0, <1>3 DEF Closing, CloseStarts, CloseNet, CloseSets, CloseDone, Unlocked
  <1>4. CASE PeerReads \/ PeerEnds \/ PeerData \/ PeerCloses
    BY Zenon, <1>4 DEF PeerReads, PeerEnds, PeerData, PeerCloses, Talking, Up
  <1>5. ASSUME NEW s \in Sessions, Session(s) PROVE FALSE
    BY Zenon, <1>0, <1>5 DEF Session, NewSession, Freed, newSession, Begun, ConnDone, MuxReads, Up, Done
  <1>6. ASSUME NEW s \in Sessions, WaitEnds(s) \/ CloseSession(s) \/ Refuses(s) PROVE FALSE
    BY Zenon, <1>0, <1>6 DEF WaitEnds, CloseSession, Refuses, Offering
  <1> QED
    BY Zenon, <1>1, <1>2, <1>3, <1>4, <1>5, <1>6 DEF Work

\* None of them changes what start has left.
LEMMA WorkLeavesStart ==
    ASSUME Work
    PROVE  UNCHANGED << conf, start, interruptor >>
  BY Zenon DEF Work, Writer, Writes, WriteFails, WriterExits, ReadFrame, ReaderLocks, ReadFails,
         Closing, CloseStarts, CloseNet, CloseSets, CloseDone, UserCloses,
         PeerReads, PeerEnds, PeerData, PeerCloses, PeerSends,
         Session, NewSession, Freed, newSession, Begun, ConnDone, MuxReads,
         WaitEnds, CloseSession, Refuses, startVars

\* The goroutines and close() keep their order: the writer's exit, the network
\* connection, the reader's exit, the reason.
LEMMA WorkKeepsLifeInv ==
    ASSUME LifeInv, Work
    PROVE  LifeInv'
  <1> USE DEF LifeInv
  <1>0. start.result = "ok"
    BY Zenon, WorkAfterStart
  <1>1. UNCHANGED << conf, start, interruptor >>
    BY Zenon, WorkLeavesStart
  <1>2. CASE UNCHANGED << reader, writer, closing, net >>
    BY Zenon, <1>0, <1>1, <1>2 DEF Shapes, Idle, NetInv, NegotiationInv, ExitInv, DoneErr
  <1>3. CASE WriteFails \/ WriterExits
    BY Zenon, <1>0, <1>1, <1>3 DEF Shapes, Idle, NetInv, NegotiationInv, ExitInv, WriteFails, WriterExits,
                            startVars
  <1>4. CASE ReadFrame
    BY ZenonT(60), <1>0, <1>1, <1>4 DEF Shapes, Idle, NetInv, NegotiationInv, ExitInv, ReadFrame, ReaderEnds, ReaderWaits,
                            startVars
  <1>5. CASE ReaderLocks
    BY ZenonT(60), <1>0, <1>1, <1>5 DEF Shapes, Idle, NetInv, NegotiationInv, ExitInv, ReaderLocks, ReaderEnds,
                            HandleBegin, HandleEnd, startVars
  <1>6. CASE ReadFails
    BY ZenonT(60), <1>0, <1>1, <1>6 DEF Shapes, Idle, NetInv, NegotiationInv, ExitInv, ReadFails, ReaderEnds,
                            startVars
  <1>7. CASE Closing
    <2>1. UNCHANGED << reader, writer >> /\ Idle' /\ NegotiationInv'
      BY Zenon, <1>0, <1>1, <1>7 DEF Idle, NegotiationInv, Closing, CloseStarts, CloseNet, CloseSets, CloseDone
    <2>2. CASE CloseStarts
      BY Zenon, <1>0, <1>1, <2>1, <2>2 DEF Shapes, NetInv, ExitInv, CloseStarts
    <2>3. CASE CloseNet
      BY ZenonT(60), <1>0, <1>1, <2>1, <2>3 DEF Shapes, NetInv, ExitInv, CloseNet
    <2>4. CASE CloseSets
      <3>1. closing'.at = "set" /\ closing'.doneErr = DoneErr /\ DoneErr' = DoneErr /\ Shapes'
        BY Zenon, <1>1, <2>1, <2>4 DEF Shapes, CloseSets, DoneErr
      <3> QED
        BY Zenon, <1>0, <1>1, <2>1, <2>4, <3>1 DEF NetInv, ExitInv, CloseSets, startVars
    <2>5. CASE CloseDone
      <3>1. closing'.at = "done" /\ closing'.doneErr = closing.doneErr /\ DoneErr' = DoneErr /\ Shapes'
        BY Zenon, <1>1, <2>1, <2>5 DEF Shapes, CloseDone, DoneErr
      <3> QED
        BY Zenon, <1>0, <1>1, <2>1, <2>5, <3>1 DEF NetInv, ExitInv, CloseDone, startVars
    <2> QED
      BY Zenon, <1>7, <2>2, <2>3, <2>4, <2>5 DEF Closing
  <1>8. ASSUME Work, ~(WriteFails \/ WriterExits \/ ReadFrame \/ ReaderLocks \/ ReadFails \/ Closing)
        PROVE  UNCHANGED << reader, writer, closing, net >>
    BY ZenonT(60), <1>8 DEF Work, Writer, Writes, UserCloses,
           PeerReads, PeerEnds, PeerData, PeerCloses, PeerSends,
           Session, NewSession, Freed, newSession, Begun, ConnDone, MuxReads,
           WaitEnds, CloseSession, Refuses, io, startVars
  <1> QED
    BY Zenon, <1>2, <1>3, <1>4, <1>5, <1>6, <1>7, <1>8

\* It holds throughout.
LEMMA AlwaysLifeInv == Spec => []LifeInv
  <1>1. ASSUME LifeInv, [Next]_vars PROVE LifeInv'
    <2>1. CASE UNCHANGED vars
      BY ZenonT(60), <1>1, <2>1 DEF vars, startVars, io, LifeInv, Shapes, Idle, NetInv, NegotiationInv, ExitInv,
                        DoneErr
    <2> QED
      BY Zenon, <1>1, <2>1, StartKeepsLifeInv, WorkKeepsLifeInv DEF Next, Work
  <1> QED
    BY <1>1, LifeInvInit, PTL DEF Spec

\* start hands out what was configured and closes what it does not hand out, and
\* sends nothing before its time (conn.go, start, startImpl and the state functions).
THEOREM ConnStartIsSound == Spec => []StartIsSound
  <1>1. LifeInv => StartIsSound
    BY Zenon DEF LifeInv, NetInv, NegotiationInv, StartIsSound
  <1> QED
    BY <1>1, AlwaysLifeInv, PTL

\* Err and Close report what happened (conn.go, closedErr and close).
THEOREM ConnReasonIsTrue == Spec => []ReasonIsTrue
  <1>1. LifeInv => ReasonIsTrue
    BY Zenon DEF LifeInv, ExitInv, ReasonIsTrue, DoneErr
  <1> QED
    BY <1>1, AlwaysLifeInv, PTL

\* A connection is handed out at most once, and the reason for which it ends never
\* changes afterwards: it implements ConnLife.
THEOREM ConnImplementsLife == Spec => ImplementsConnLife
  <1>1. Init => Life!LifeInit
    BY DEF Init, StartInit, Life!LifeInit, Done
  <1>2. ASSUME LifeInv, LifeInv', [Next]_vars
        PROVE  [Life!Establish \/ Life!Refuse \/ Life!End]_Life!lifeVars
    <2>1. CASE StartNext(ChannelMax) /\ UNCHANGED << sess, table, cleanup, io, faults >>
      <3>1. closing' = closing
        BY Zenon, <2>1 DEF io
      <3>2. CASE StartReturns
        <4>1. start.result = "none" /\ start'.result \in {"ok", "error"} /\ closing.at = "no"
          BY Zenon, <1>2, <3>2 DEF LifeInv, Shapes, Idle, StartReturns, Step
        <4> QED
          BY Zenon, <3>1, <4>1 DEF Life!Establish, Life!Refuse, Done
      <3>3. CASE ~StartReturns
        <4>1. start'.result = start.result
          BY ZenonT(60), <1>2, <2>1, <3>3 DEF LifeInv, Shapes, StartNext, Step, negotiateProto, exchangeProtoHeader,
              startTLS, negotiateSASL, saslInit, saslOutcome, challenge, openAMQP, opened,
              StartFails, ContextEnds, Interrupts, InterruptorStops
        <4> QED
          BY Zenon, <3>1, <4>1 DEF Life!lifeVars, Done
      <3> QED
        BY Zenon, <3>2, <3>3
    <2>2. CASE Work
      <3>0. start.result = "ok" /\ UNCHANGED start
        BY Zenon, <1>2, <2>2, WorkAfterStart, WorkLeavesStart
      <3>1. CASE CloseDone
        <4>1. closing.at = "set" /\ closing'.at = "done" /\ closing'.doneErr = DoneErr
          BY Zenon, <1>2, <3>1 DEF LifeInv, Shapes, ExitInv, CloseDone
        <4>2. DoneErr \in {"nil", "remote", "tx", "rx", "close"}
          BY Zenon DEF DoneErr
        <4> QED
          BY Zenon, <3>0, <4>1, <4>2 DEF Life!End, Done
      <3>2. CASE ~CloseDone
        <4>1. (closing.at = "done" /\ closing' = closing) \/ (closing.at # "done" /\ closing'.at # "done")
          BY ZenonT(60), <1>2, <2>2, <3>2 DEF LifeInv, Shapes, Work, Writer, Writes, WriteFails, WriterExits,
              ReadFrame, ReaderLocks, ReadFails, Closing, CloseStarts, CloseNet, CloseSets, UserCloses,
              PeerReads, PeerEnds, PeerData, PeerCloses, PeerSends,
              Session, NewSession, Freed, newSession, Begun, ConnDone, MuxReads,
              WaitEnds, CloseSession, Refuses, io
        <4> QED
          BY Zenon, <3>0, <4>1 DEF Life!lifeVars, Done
      <3> QED
        BY Zenon, <3>1, <3>2
    <2>3. CASE UNCHANGED vars
      BY Zenon, <2>3 DEF vars, startVars, io, Life!lifeVars, Done
    <2> QED
      BY Zenon, <1>2, <2>1, <2>2, <2>3 DEF Next, Work
  <1> QED
    BY <1>1, <1>2, AlwaysLifeInv, PTL DEF Spec, ImplementsConnLife, Life!LifeSpec
-----------------------------------------------------------------------------
(* The channels *)

\* newSession has not yet given the session a channel.
Early == {"new", "freeing", "alloc", "full"}

\* The records of sessions and of the tables.
ChannelTypes ==
    /\ start.channelMax \in Nat
    /\ DOMAIN sess = Sessions
    /\ \A s \in Sessions : DOMAIN sess[s] = {"at", "ch", "rxQ", "i"} /\ sess[s].ch \in Nat
    /\ DOMAIN table = {"channels", "byChannel", "byRemote"}
    /\ table.channels \in Seq(SUBSET Full)

\* The peer's channel-max is known before the first channel is taken, a session
\* gets its channel once, and connReader keeps what it looks up.
ChannelInv ==
    /\ ChannelTypes
    /\ ChannelsMatchSessions
    /\ \A ch \in DOMAIN table.byChannel : /\ table.byChannel[ch] \in Sessions
                                          /\ sess[table.byChannel[ch]].at \notin Early
    /\ \A ch \in DOMAIN table.byRemote : table.byRemote[ch] \in Sessions
    /\ start.result # "ok" => DOMAIN table.byChannel = {}
    /\ reader.at = "locking" /\ reader.fr.type # "begin" => reader.fr.ch \in DOMAIN table.byRemote

\* A connection begins without sessions and channels.
LEMMA ChannelInvInit == Init => ChannelInv
  <1> SUFFICES ASSUME Init PROVE ChannelInv
    BY Zenon
  <1>1. Numbers(<< >>) = {}
    BY DEF Numbers
  <1>2. ChannelTypes /\ DOMAIN table.byChannel = {} /\ DOMAIN table.byRemote = {}
    BY DEF Init, StartInit, EmptyBits, ChannelTypes
  <1> QED
    BY Zenon, <1>1, <1>2 DEF Init, StartInit, EmptyBits, ChannelInv, ChannelsMatchSessions

\* start sets channelMax before it returns.
LEMMA StartKeepsChannelInv ==
    ASSUME LifeInv, LifeInv', ChannelInv,
           StartNext(ChannelMax), UNCHANGED << sess, table, cleanup, io, faults >>
    PROVE  ChannelInv'
  <1>0. UNCHANGED << sess, table, reader >>
    BY Zenon DEF io
  <1>1. \/ UNCHANGED start.channelMax
        \/ start.result = "none" /\ start'.channelMax \in Nat
    <2>1. CASE opened(ChannelMax)
      BY ZenonT(60), <2>1, StartAssumption, ConnAssumption DEF opened, Step, At, Lesser, LifeInv, Shapes, NetInv
    <2>2. CASE ~opened(ChannelMax)
      BY ZenonT(60), <2>2 DEF LifeInv, Shapes, StartNext, Step, negotiateProto, exchangeProtoHeader,
              startTLS, negotiateSASL, saslInit, saslOutcome, challenge, openAMQP,
              StartFails, ContextEnds, Interrupts, InterruptorStops, StartReturns
    <2> QED
      BY Zenon, <2>1, <2>2
  <1>2. start'.result # "ok" => start.result # "ok"
    BY Zenon DEF LifeInv, Shapes, NetInv, StartNext, Step, negotiateProto, exchangeProtoHeader,
              startTLS, negotiateSASL, saslInit, saslOutcome, challenge, openAMQP, opened, At,
              StartFails, ContextEnds, Interrupts, InterruptorStops, StartReturns
  <1> QED
    BY Zenon, <1>0, <1>1, <1>2 DEF ChannelInv, ChannelTypes, ChannelsMatchSessions

\* Steps of sessions that leave the tables and their channels alone.
LEMMA SessionsKeepChannelInv ==
    ASSUME ChannelInv, start.result = "ok", UNCHANGED start,
           table' = table \/ (/\ DOMAIN table' = DOMAIN table
                              /\ table'.channels = table.channels
                              /\ table'.byChannel = table.byChannel
                              /\ table'.byRemote = table.byRemote),
           reader' = reader \/ reader'.at # "locking" \/ reader'.fr.type = "begin"
             \/ reader'.fr.ch \in DOMAIN table.byRemote,
           DOMAIN sess' = Sessions,
           \A s \in Sessions : /\ DOMAIN sess'[s] = DOMAIN sess[s] /\ sess'[s].ch = sess[s].ch
                               /\ sess[s].at \notin Early => sess'[s].at \notin Early
    PROVE  ChannelInv'
  BY Zenon DEF ChannelInv, ChannelTypes, ChannelsMatchSessions

\* newSession takes a channel that is free for a session that has none.
LEMMA newSessionKeepsChannelInv ==
    ASSUME LifeInv, ChannelInv, NEW s \in Sessions, newSession(s)
    PROVE  ChannelInv'
  <1> DEFINE next == BitNext(table.channels, start.channelMax)
  <1>0. UNCHANGED << start, reader >> /\ start.result = "ok"
    BY Zenon DEF newSession, io, startVars, LifeInv, Idle
  <1>1. /\ next.bits \in Seq(SUBSET Full)
        /\ next.ok \in BOOLEAN
        /\ next.ok => /\ next.next \in (0..start.channelMax) \ Numbers(table.channels)
                      /\ Numbers(next.bits) = Numbers(table.channels) \cup {next.next}
        /\ ~next.ok => next.bits = table.channels
    BY Zenon, BitNextNumbers DEF ChannelInv, ChannelTypes
  <1>2. /\ sess[s].at = "alloc"
        /\ sess' = IF next.ok THEN [sess EXCEPT ![s].at = "begin", ![s].ch = next.next]
                   ELSE [sess EXCEPT ![s].at = "full"]
        /\ table' = [table EXCEPT !.channels = next.bits,
                                  !.byChannel = IF next.ok THEN With(@, next.next, s) ELSE @]
    BY Zenon DEF newSession
  <1> HIDE DEF next
  <1>3. \A ch \in DOMAIN table.byChannel : table.byChannel[ch] # s
    BY Zenon, <1>2 DEF ChannelInv, Early
  <1>4. CASE next.ok
    <2>1. /\ table'.channels = next.bits /\ table'.byChannel = With(table.byChannel, next.next, s)
          /\ table'.byRemote = table.byRemote
          /\ DOMAIN table' = {"channels", "byChannel", "byRemote"}
      BY Zenon, <1>2, <1>4 DEF ChannelInv, ChannelTypes
    <2>2. /\ DOMAIN table'.byChannel = DOMAIN table.byChannel \cup {next.next}
          /\ table'.byChannel[next.next] = s
          /\ \A ch \in DOMAIN table.byChannel : ch # next.next => table'.byChannel[ch] = table.byChannel[ch]
      BY Zenon, <2>1 DEF With
    <2>3. /\ DOMAIN sess' = Sessions
          /\ \A t \in Sessions : DOMAIN sess'[t] = {"at", "ch", "rxQ", "i"}
          /\ sess'[s].ch = next.next /\ sess'[s].at = "begin"
          /\ \A t \in Sessions : t # s => sess'[t] = sess[t]
      BY Zenon, <1>2, <1>4 DEF ChannelInv, ChannelTypes
    <2>4. next.next \in Nat /\ next.next <= start.channelMax
      BY <1>1, <1>4 DEF ChannelInv, ChannelTypes
    <2>5. ChannelTypes'
      BY Zenon, <1>0, <1>1, <2>1, <2>3, <2>4 DEF ChannelInv, ChannelTypes
    <2>6. next.next \notin DOMAIN table.byChannel /\ Numbers(table'.channels) = DOMAIN table'.byChannel
      BY Zenon, <1>1, <1>4, <2>1, <2>2 DEF ChannelInv, ChannelsMatchSessions
    <2>7. ASSUME NEW ch \in DOMAIN table'.byChannel
          PROVE  /\ ch <= start.channelMax /\ table'.byChannel[ch] \in Sessions
                 /\ sess'[table'.byChannel[ch]].ch = ch /\ sess'[table'.byChannel[ch]].at \notin Early
      <3>1. CASE ch = next.next
        BY Zenon, <2>2, <2>3, <2>4, <3>1 DEF Early
      <3>2. CASE ch # next.next
        <4>1. ch \in DOMAIN table.byChannel /\ table'.byChannel[ch] = table.byChannel[ch]
          BY Zenon, <2>2, <3>2
        <4> QED
          BY ZenonT(60), <1>3, <2>3, <4>1 DEF ChannelInv, ChannelsMatchSessions
      <3> QED
        BY Zenon, <3>1, <3>2
    <2> QED
      BY Zenon, <1>0, <2>1, <2>5, <2>6, <2>7 DEF ChannelInv, ChannelsMatchSessions
  <1>5. CASE ~next.ok
    <2>1. /\ DOMAIN table' = DOMAIN table /\ table'.channels = table.channels
          /\ table'.byChannel = table.byChannel /\ table'.byRemote = table.byRemote
      BY Zenon, <1>1, <1>2, <1>5 DEF ChannelInv, ChannelTypes
    <2>2. /\ DOMAIN sess' = Sessions
          /\ \A t \in Sessions : DOMAIN sess'[t] = DOMAIN sess[t] /\ sess'[t].ch = sess[t].ch
          /\ \A t \in Sessions : t # s => sess'[t] = sess[t]
      BY Zenon, <1>2, <1>5 DEF ChannelInv, ChannelTypes
    <2> QED
      BY ZenonT(60), <1>0, <1>2, <2>1, <2>2, SessionsKeepChannelInv DEF Early
  <1> QED
    BY Zenon, <1>4, <1>5

\* An end gives back the channel of its session, a begin only adds to the peer's.
LEMMA ReaderKeepsChannelInv ==
    ASSUME LifeInv, ChannelInv, ReaderLocks
    PROVE  ChannelInv'
  <1>0. UNCHANGED start /\ start.result = "ok"
    BY Zenon DEF ReaderLocks, startVars, LifeInv, Idle
  <1>1. CASE reader.fr.type = "begin" /\ reader.fr.our \notin DOMAIN table.byChannel
    BY <1>0, <1>1, SessionsKeepChannelInv
       DEF ReaderLocks, HandleBegin, ReaderEnds, ChannelInv, ChannelTypes
  <1>2. CASE reader.fr.type = "begin" /\ reader.fr.our \in DOMAIN table.byChannel
    <2> DEFINE t == table.byChannel[reader.fr.our]
    <2>1. /\ table' = [table EXCEPT !.byRemote = With(@, reader.fr.ch, t)]
          /\ sess' = [sess EXCEPT ![t].rxQ = Append(@, reader.fr)]
          /\ reader' = [reader EXCEPT !.at = "read", !.fr = << >>]
      BY Zenon, <1>2 DEF ReaderLocks, HandleBegin, Queue
    <2>2. t \in Sessions
      BY Zenon, <1>2 DEF ChannelInv
    <2> HIDE DEF t
    <2>3. /\ table'.channels = table.channels /\ table'.byChannel = table.byChannel
          /\ table'.byRemote = With(table.byRemote, reader.fr.ch, t)
          /\ DOMAIN table' = {"channels", "byChannel", "byRemote"}
      BY Zenon, <2>1 DEF ChannelInv, ChannelTypes
    <2>4. /\ DOMAIN sess' = Sessions
          /\ \A u \in Sessions : /\ DOMAIN sess'[u] = DOMAIN sess[u]
                                 /\ sess'[u].ch = sess[u].ch /\ sess'[u].at = sess[u].at
      BY Zenon, <2>1 DEF ChannelInv, ChannelTypes
    <2>5. reader'.at = "read"
      BY Zenon, <2>1 DEF LifeInv, Shapes
    <2>6. \A ch \in DOMAIN table'.byRemote : table'.byRemote[ch] \in Sessions
      BY Zenon, <2>2, <2>3 DEF With, ChannelInv
    <2> QED
      BY <1>0, <2>3, <2>4, <2>5, <2>6 DEF ChannelInv, ChannelTypes, ChannelsMatchSessions
  <1>3. CASE reader.fr.type # "begin"
    <2> DEFINE t == table.byRemote[reader.fr.ch]
               c == sess[t].ch
    <2>1. /\ table' = [byRemote |-> Without(table.byRemote, {reader.fr.ch}),
                       byChannel |-> Without(table.byChannel, {c}),
                       channels |-> BitRemove(table.channels, c)]
          /\ sess' = [sess EXCEPT ![t].rxQ = Append(@, reader.fr)]
          /\ reader' = [reader EXCEPT !.at = "read", !.fr = << >>]
      BY Zenon, <1>3 DEF ReaderLocks, HandleEnd, Queue
    <2>2. t \in Sessions /\ c \in Nat
      BY Zenon, <1>3 DEF ChannelInv, ChannelTypes, ReaderLocks
    <2> HIDE DEF t, c
    <2>3. /\ BitRemove(table.channels, c) \in Seq(SUBSET Full)
          /\ Numbers(BitRemove(table.channels, c)) = Numbers(table.channels) \ {c}
      BY Zenon, <2>2, BitRemoveNumbers DEF ChannelInv, ChannelTypes
    <2>4. /\ DOMAIN sess' = Sessions
          /\ \A u \in Sessions : /\ DOMAIN sess'[u] = DOMAIN sess[u]
                                 /\ sess'[u].ch = sess[u].ch /\ sess'[u].at = sess[u].at
      BY Zenon, <2>1 DEF ChannelInv, ChannelTypes
    <2>5. reader'.at = "read"
      BY Zenon, <2>1 DEF LifeInv, Shapes
    <2>6. \A ch \in DOMAIN table'.byRemote : table'.byRemote[ch] \in Sessions
      BY Zenon, <2>1 DEF Without, ChannelInv
    <2>7. /\ DOMAIN table'.byChannel = DOMAIN table.byChannel \ {c}
          /\ \A ch \in DOMAIN table'.byChannel : table'.byChannel[ch] = table.byChannel[ch]
      BY Zenon, <2>1 DEF Without
    <2>8. ChannelTypes'
      BY Zenon, <1>0, <2>1, <2>3, <2>4 DEF ChannelInv, ChannelTypes
    <2>9. ChannelsMatchSessions'
      <3>1. Numbers(table'.channels) = DOMAIN table'.byChannel
        BY Zenon, <2>1, <2>3, <2>7 DEF ChannelInv, ChannelsMatchSessions
      <3>2. \A ch \in DOMAIN table'.byChannel :
                ch <= start'.channelMax /\ sess'[table'.byChannel[ch]].ch = ch
        BY ZenonT(60), <1>0, <2>4, <2>7 DEF ChannelInv, ChannelsMatchSessions
      <3> QED
        BY Zenon, <3>1, <3>2 DEF ChannelsMatchSessions
    <2> QED
      BY ZenonT(60), <1>0, <2>4, <2>5, <2>6, <2>7, <2>8, <2>9 DEF ChannelInv
  <1> QED
    BY Zenon, <1>1, <1>2, <1>3

\* What else a step may do to a session.
LEMMA WorkKeepsChannelInv ==
    ASSUME LifeInv, ChannelInv, Work
    PROVE  ChannelInv'
  <1>0. start.result = "ok" /\ UNCHANGED start
    BY Zenon, WorkAfterStart, WorkLeavesStart
  <1> DEFINE SessionsStay ==
        /\ DOMAIN sess' = Sessions
        /\ \A s \in Sessions : /\ DOMAIN sess'[s] = DOMAIN sess[s] /\ sess'[s].ch = sess[s].ch
                               /\ sess[s].at \notin Early => sess'[s].at \notin Early
  <1>1. CASE sess' = sess /\ UNCHANGED << table, reader >>
    BY Zenon, <1>0, <1>1, SessionsKeepChannelInv DEF ChannelInv, ChannelTypes
  <1>2. ASSUME NEW s \in Sessions, sess[s].at \in {"begin", "ack", "end", "freeing"}, sess' = [sess EXCEPT ![s] = After(s)]
        PROVE  SessionsStay
    BY ZenonT(60), <1>2 DEF ChannelInv, ChannelTypes, Early, After
  <1>3. ASSUME NEW s \in Sessions, NEW at, Goto(s, at), sess[s].at \notin Early => at \notin Early
        PROVE  SessionsStay
    BY Zenon, <1>3 DEF ChannelInv, ChannelTypes, Goto
  <1>4. CASE Writer
    <2>1. PICK s \in Sessions : Writes(s)
      BY Zenon, <1>4 DEF Writer
    <2> QED
      BY Zenon, <1>0, <1>2, <2>1, SessionsKeepChannelInv DEF Writes, Offering
  <1>5. CASE WriteFails
    <2>1. SessionsStay
      BY Zenon, <1>2, <1>5 DEF WriteFails, ChannelInv, ChannelTypes
    <2> QED
      BY Zenon, <1>0, <1>5, <2>1, SessionsKeepChannelInv DEF WriteFails
  <1>6. CASE ReadFrame
    <2> DEFINE fr == Head(toUs)
    <2>1. UNCHANGED table
      BY Zenon, <1>6 DEF ReadFrame
    <2>2. \/ ReaderEnds("none") /\ UNCHANGED sess
          \/ ReaderEnds("remote") /\ UNCHANGED sess
          \/ ReaderEnds("protocol") /\ UNCHANGED sess
          \/ /\ ReaderWaits(fr) /\ UNCHANGED sess
             /\ fr.type = "begin" \/ fr.ch \in DOMAIN table.byRemote
          \/ Queue(table.byRemote[fr.ch], fr) /\ UNCHANGED reader
      BY Zenon, <1>6 DEF ReadFrame
    <2> HIDE DEF fr
    <2>3. SessionsStay
      <3>1. CASE sess' = sess
        BY Zenon, <3>1 DEF ChannelInv, ChannelTypes
      <3>2. CASE Queue(table.byRemote[fr.ch], fr)
        <4> DEFINE t == table.byRemote[fr.ch]
                   q == Append(sess[t].rxQ, fr)
        <4>1. sess' = [sess EXCEPT ![t] = [sess[t] EXCEPT !.rxQ = q]]
          BY Zenon, <3>2 DEF Queue
        <4> HIDE DEF t, q
        <4> QED
          BY Zenon, <4>1 DEF ChannelInv, ChannelTypes
      <3> QED
        BY Zenon, <2>2, <3>1, <3>2
    <2>4. reader' = reader \/ reader'.at # "locking" \/ reader'.fr.type = "begin"
             \/ reader'.fr.ch \in DOMAIN table.byRemote
      <3>1. ReaderWaits(fr) => reader'.fr = fr
        BY Zenon DEF ReaderWaits, LifeInv, Shapes
      <3>2. ReaderEnds("none") \/ ReaderEnds("remote") \/ ReaderEnds("protocol") => reader'.at = "exited"
        BY DEF ReaderEnds
      <3> QED
        BY <2>2, <3>1, <3>2
    <2> QED
      BY Zenon, <1>0, <2>1, <2>3, <2>4, SessionsKeepChannelInv
  <1>7. CASE ReaderLocks
    BY Zenon, <1>7, ReaderKeepsChannelInv
  <1>8. CASE ReadFails
    <2>1. sess' = sess /\ UNCHANGED table /\ reader'.at # "locking"
      BY <1>8 DEF ReadFails, ReaderEnds
    <2>2. SessionsStay
      BY Zenon, <2>1 DEF ChannelInv, ChannelTypes
    <2> QED
      BY Zenon, <1>0, <2>1, <2>2, SessionsKeepChannelInv
  <1>9. CASE WriterExits \/ Closing \/ UserCloses \/ PeerReads \/ PeerEnds \/ PeerData \/ PeerCloses
    BY Zenon, <1>1, <1>9 DEF WriterExits, Closing, CloseStarts, CloseNet, CloseSets, CloseDone, UserCloses,
           PeerReads, PeerEnds, PeerData, PeerCloses, PeerSends
  <1>10. ASSUME NEW s \in Sessions, Session(s) \/ WaitEnds(s) \/ CloseSession(s) \/ Refuses(s)
         PROVE  ChannelInv'
    <2>1. CASE newSession(s)
      BY Zenon, <2>1, newSessionKeepsChannelInv
    <2>2. CASE ~newSession(s)
      <3>1. UNCHANGED << table, reader >>
        BY Zenon, <1>10, <2>2 DEF Session, NewSession, Freed, Begun, ConnDone, MuxReads,
           WaitEnds, CloseSession, Refuses, Abandon, io
      <3>2. CASE NewSession(s) \/ Begun(s) \/ MuxReads(s)
        <4>1. ASSUME NewSession(s) PROVE SessionsStay
          BY Zenon, <4>1 DEF NewSession, ChannelInv, ChannelTypes, Early
        <4>2. ASSUME Begun(s) PROVE SessionsStay
          BY ZenonT(60), <4>2 DEF Begun, ChannelInv, ChannelTypes, Early
        <4>3. ASSUME MuxReads(s) PROVE SessionsStay
          BY ZenonT(60), <4>3 DEF MuxReads, ChannelInv, ChannelTypes, Early
        <4>4. SessionsStay
          BY Zenon, <3>2, <4>1, <4>2, <4>3
        <4> QED
          BY Zenon, <1>0, <3>1, <4>4, SessionsKeepChannelInv
      <3>3. CASE Freed(s) \/ ConnDone(s) \/ WaitEnds(s) \/ CloseSession(s) \/ Refuses(s)
        <4>1. \E at : Goto(s, at) /\ (sess[s].at \notin Early => at \notin Early)
          BY <3>3 DEF Freed, ConnDone, WaitEnds, CloseSession, Refuses, Abandon, Early
        <4>2. SessionsStay
          BY Zenon, <1>3, <4>1
        <4> QED
          BY Zenon, <1>0, <3>1, <4>2, SessionsKeepChannelInv
      <3> QED
        BY Zenon, <1>10, <2>2, <3>2, <3>3 DEF Session
    <2> QED
      BY Zenon, <2>1, <2>2
  <1> QED
    BY Zenon, <1>4, <1>5, <1>6, <1>7, <1>8, <1>9, <1>10 DEF Work

\* The invariant of the channels holds throughout.
LEMMA AlwaysChannelInv == Spec => []ChannelInv
  <1>1. ASSUME LifeInv, LifeInv', ChannelInv, [Next]_vars PROVE ChannelInv'
    <2>1. CASE UNCHANGED vars
      BY Zenon, <1>1, <2>1 DEF vars, startVars, io, ChannelInv, ChannelTypes, ChannelsMatchSessions
    <2> QED
      BY Zenon, <1>1, <2>1, StartKeepsChannelInv, WorkKeepsChannelInv DEF Next, Work
  <1> QED
    BY <1>1, ChannelInvInit, AlwaysLifeInv, PTL DEF Spec

\* However sessions begin, end, fail and are cleaned up, the bitmap has the channels of
\* the sessions that connReader finds, each below the peer's channel-max (conn.go,
\* newSession and connReader).
THEOREM ConnChannelsMatch == Spec => []ChannelsMatchSessions
  <1>1. ChannelInv => ChannelsMatchSessions
    BY Zenon DEF ChannelInv
  <1> QED
    BY <1>1, AlwaysChannelInv, PTL
=============================================================================
