-------------------------------- MODULE Conn --------------------------------
(***************************************************************************)
(* A connection (conn.go) with the sessions that are opened on it:         *)
(* connReader and connWriter, Close and close(), the channels, NewSession  *)
(* with Session.begin, the cleaning up of abandoned sessions, and as much  *)
(* of a session's mux as begins and ends it.  ConnStart is its start-up.   *)
(*                                                                         *)
(* A member of Sessions is a call of NewSession and the session that it    *)
(* makes.  A frame on the network carries, besides its channel, the        *)
(* session that it is about in the view of the one who sent it.            *)
(***************************************************************************)
EXTENDS ConnStart, FiniteSets, Bitmap

CONSTANTS
    Sessions,
    NoSession,
    Working,        \* the configuration with which the connection is used
    ChannelMax,     \* our channelMax
    MaxData,        \* bound: other frames from the peer
    MaxFaults       \* bound: closes, ends, contexts that end and failures

ASSUME ConnAssumption == ChannelMax \in Nat

VARIABLES
    sess,           \* per session, its state, channel, queued frames and place in a cleanup
    table,          \* c.channels, c.sessionsByChannel and connReader's sessionsByRemoteChannel
    abandoned,      \* c.abandonedSessions
    cleaner,        \* the call of NewSession that holds abandonedSessionsMu
    reader,         \* connReader: its state, the frame in hand, rxErr
    writer,         \* connWriter: its state, txErr
    closing,        \* close(): how far it is, closeErr, doneErr
    toPeer, toUs,   \* frames on the network
    peer,           \* the peer's sessions, by our channel
    user,           \* whether Close has been called
    faults          \* what has gone wrong so far

cleanup == << abandoned, cleaner >>
io == << reader, writer, closing, toPeer, toUs, peer, user >>
vars == << startVars, sess, table, cleanup, io, faults >>

Without(f, S) == [x \in DOMAIN f \ S |-> f[x]]
With(f, k, value) == [x \in DOMAIN f \cup {k} |-> IF x = k THEN value ELSE f[x]]

\* our is the channel by which the peer's begin refers to ours.
Frame(type, ch, our, s) == [type |-> type, ch |-> ch, our |-> our, session |-> s]

Init ==
    /\ StartInit
    /\ sess = [s \in Sessions |-> [at |-> "new", ch |-> 0, rxQ |-> << >>, i |-> 0]]
    /\ table = [channels |-> EmptyBits, byChannel |-> << >>, byRemote |-> << >>]
    /\ abandoned = << >>
    /\ cleaner = NoSession
    /\ reader = [at |-> "read", fr |-> << >>, rxErr |-> "none"]
    /\ writer = [at |-> "select", txErr |-> "none"]
    /\ closing = [at |-> "no", closeErr |-> "none", doneErr |-> "none"]
    /\ toPeer = << >>
    /\ toUs = << >>
    /\ peer = [mapped |-> << >>, data |-> 0, surprised |-> FALSE, closed |-> FALSE]
    /\ user = FALSE
    /\ faults = 0

\* The connection has been handed out and is in use.
Up == start.result = "ok" /\ conf = Working

Fault == faults < MaxFaults /\ faults' = faults + 1

Done == closing.at = "done"

Goto(s, at) == sess' = [sess EXCEPT ![s].at = at]

-----------------------------------------------------------------------------
(* NewSession *)

NewSession(s) ==
    /\ Up /\ sess[s].at = "new"
    /\ cleaner = NoSession
    /\ cleaner' = s
    /\ sess' = [sess EXCEPT ![s].at = "freeing", ![s].i = 1]
    /\ UNCHANGED << table, abandoned, io, faults, startVars >>

\* freeAbandonedSessions is through.
Freed(s) ==
    /\ sess[s].at = "freeing" /\ sess[s].i > Len(abandoned)
    /\ abandoned' = << >>
    /\ cleaner' = NoSession
    /\ Goto(s, "alloc")
    /\ UNCHANGED << table, io, faults, startVars >>

\* Nobody has sessionsByChannelMu: newSession keeps it while it closes the
\* connection.
Unlocked == \A s \in Sessions : sess[s].at # "full"

\* newSession: the lowest free channel, or the connection is closed.
newSession(s) ==
    LET next == BitNext(table.channels, start.channelMax)
    IN  /\ sess[s].at = "alloc" /\ Unlocked
        /\ sess' = IF next.ok THEN [sess EXCEPT ![s].at = "begin", ![s].ch = next.next]
                   ELSE [sess EXCEPT ![s].at = "full"]
        /\ table' = [table EXCEPT !.channels = next.bits,
                                  !.byChannel = IF next.ok THEN With(@, next.next, s) ELSE @]
        /\ UNCHANGED << cleanup, io, faults, startVars >>

\* NewSession returns; a session of which begin has failed is kept for a
\* later call to clean up.
Abandon(s) ==
    /\ cleaner = NoSession
    /\ Goto(s, "failed")
    /\ abandoned' = Append(abandoned, s)
    /\ UNCHANGED << table, cleaner >>

\* begin has read the peer's begin: the mux starts.
Begun(s) ==
    /\ sess[s].at = "wait" /\ sess[s].rxQ # << >> /\ Head(sess[s].rxQ).type = "begin"
    /\ sess' = [sess EXCEPT ![s].at = "mux", ![s].rxQ = Tail(@)]
    /\ UNCHANGED << table, cleanup, io, faults, startVars >>

\* Mutant of WaitEnds: the channel is given back at once.
WaitEndsFreeing(s) ==
    /\ sess[s].at = "wait" /\ Fault
    /\ Goto(s, "failed")
    /\ table' = [table EXCEPT !.channels = BitRemove(@, sess[s].ch),
                              !.byChannel = Without(@, {sess[s].ch})]
    /\ UNCHANGED << cleanup, io, startVars >>

\* waitForFrame: the context ends.
WaitEnds(s) ==
    /\ sess[s].at = "wait" /\ Fault
    /\ Abandon(s)
    /\ UNCHANGED << io, startVars >>

\* c.done is closed: whoever waits for the connection returns.
ConnDone(s) ==
    /\ Done
    /\ \/ sess[s].at \in {"begin", "wait"} /\ Abandon(s)
       \/ /\ sess[s].at = "freeing" /\ sess[s].i <= Len(abandoned)
          /\ Goto(s, "failed") /\ cleaner' = NoSession /\ UNCHANGED << table, abandoned >>
       \/ sess[s].at = "full" /\ Goto(s, "failed") /\ UNCHANGED << table, cleanup >>
       \/ sess[s].at \in {"mux", "ack", "end", "ended"} /\ Goto(s, "over") /\ UNCHANGED << table, cleanup >>
    /\ UNCHANGED << io, faults, startVars >>

-----------------------------------------------------------------------------
(* The session's mux *)

\* Session.Close.
CloseSession(s) ==
    /\ sess[s].at = "mux" /\ Fault
    /\ Goto(s, "end")
    /\ UNCHANGED << table, cleanup, io, startVars >>

\* The mux reads a frame: the peer's end is the answer to ours, or is
\* answered.
MuxReads(s) ==
    /\ sess[s].at \in {"mux", "ended"} /\ sess[s].rxQ # << >>
    /\ sess' = [sess EXCEPT ![s].rxQ = Tail(@),
                            ![s].at = IF Head(sess[s].rxQ).type # "end" THEN @
                                      ELSE IF @ = "mux" THEN "ack" ELSE "over"]
    /\ UNCHANGED << table, cleanup, io, faults, startVars >>

-----------------------------------------------------------------------------
(* connWriter *)

Offering(s) ==
    sess[s].at \in {"begin", "ack", "end"} \/ (sess[s].at = "freeing" /\ sess[s].i <= Len(abandoned))

\* The frame that session s, or the call that makes it, hands to connWriter.
Offered(s) ==
    LET about == IF sess[s].at = "freeing" THEN abandoned[sess[s].i] ELSE s
    IN  Frame(IF sess[s].at = "begin" THEN "begin" ELSE "end", sess[about].ch, sess[about].ch, about)

\* Once its frame is taken, or written where the caller waits for that.
After(s) ==
    CASE sess[s].at = "begin"   -> [sess[s] EXCEPT !.at = "wait"]
      [] sess[s].at = "freeing" -> [sess[s] EXCEPT !.i = @ + 1]
      [] sess[s].at = "ack"     -> [sess[s] EXCEPT !.at = "over"]
      [] sess[s].at = "end"     -> [sess[s] EXCEPT !.at = "ended"]

Writes(s) ==
    /\ writer.at = "select" /\ Offering(s)
    /\ toPeer' = Append(toPeer, Offered(s))
    /\ sess' = [sess EXCEPT ![s] = After(s)]
    /\ UNCHANGED << table, cleanup, reader, writer, closing, toUs, peer, user, faults, startVars >>

\* The context of the frame has ended: the frame is not written, and the
\* call of NewSession fails, in begin or in freeAbandonedSessions.
Refuses(s) ==
    /\ writer.at = "select" /\ Offering(s) /\ Fault
    /\ \/ sess[s].at = "begin" /\ Abandon(s)
       \/ /\ sess[s].at = "freeing"
          /\ Goto(s, "failed") /\ cleaner' = NoSession /\ UNCHANGED << table, abandoned >>
    /\ UNCHANGED << io, startVars >>

\* A write fails, of a frame or of a keepalive: connWriter exits.
WriteFails ==
    /\ Up /\ writer.at = "select" /\ Fault
    /\ writer' = [at |-> "exited", txErr |-> "write"]
    /\ \/ UNCHANGED sess
       \/ \E s \in Sessions : sess[s].at \in {"ack", "end"} /\ sess' = [sess EXCEPT ![s] = After(s)]
    /\ UNCHANGED << table, cleanup, reader, closing, toPeer, toUs, peer, user, startVars >>

\* rxtxExit is closed: connWriter writes the close and exits.
WriterExits ==
    /\ writer.at = "select" /\ closing.at # "no"
    /\ \/ /\ toPeer' = Append(toPeer, Frame("close", 0, 0, NoSession))
          /\ writer' = [writer EXCEPT !.at = "exited"]
          /\ UNCHANGED faults
       \/ /\ Fault
          /\ writer' = [at |-> "exited", txErr |-> "write"]
          /\ UNCHANGED toPeer
    /\ UNCHANGED << sess, table, cleanup, reader, closing, toUs, peer, user, startVars >>

-----------------------------------------------------------------------------
(* connReader *)

ReaderEnds(err) == reader' = [at |-> "exited", fr |-> << >>, rxErr |-> err]

Queue(s, fr) == sess' = [sess EXCEPT ![s].rxQ = Append(@, fr)]

ReaderWaits(fr) == reader' = [reader EXCEPT !.at = "locking", !.fr = fr]

\* A close, a frame for a session, or one for which sessionsByChannelMu is
\* needed.
ReadFrame ==
    LET fr == Head(toUs)
    IN  /\ reader.at = "read" /\ toUs # << >>
        /\ toUs' = Tail(toUs)
        /\ \/ fr.type = "close" /\ ReaderEnds("none") /\ UNCHANGED sess
           \/ fr.type = "closeError" /\ ReaderEnds("remote") /\ UNCHANGED sess
           \/ fr.type = "begin" /\ ReaderWaits(fr) /\ UNCHANGED sess
           \/ /\ fr.type \in {"end", "data"}
              /\ IF fr.ch \notin DOMAIN table.byRemote THEN ReaderEnds("protocol") /\ UNCHANGED sess
                 ELSE IF fr.type = "end" THEN ReaderWaits(fr) /\ UNCHANGED sess
                 ELSE Queue(table.byRemote[fr.ch], fr) /\ UNCHANGED reader
        /\ UNCHANGED << table, cleanup, writer, closing, toPeer, peer, user, faults, startVars >>

\* The begin is that of the session on our channel.
HandleBegin(fr) ==
    IF fr.our \notin DOMAIN table.byChannel
    THEN ReaderEnds("protocol") /\ UNCHANGED << sess, table >>
    ELSE /\ table' = [table EXCEPT !.byRemote = With(@, fr.ch, table.byChannel[fr.our])]
         /\ Queue(table.byChannel[fr.our], fr)
         /\ reader' = [reader EXCEPT !.at = "read", !.fr = << >>]

\* The end removes the session, before its mux sees it.
HandleEnd(fr) ==
    LET s == table.byRemote[fr.ch]
    IN  /\ table' = [byRemote |-> Without(table.byRemote, {fr.ch}),
                     byChannel |-> Without(table.byChannel, {sess[s].ch}),
                     channels |-> BitRemove(table.channels, sess[s].ch)]
        /\ Queue(s, fr)
        /\ reader' = [reader EXCEPT !.at = "read", !.fr = << >>]

ReaderLocks ==
    /\ reader.at = "locking" /\ Unlocked
    /\ IF reader.fr.type = "begin" THEN HandleBegin(reader.fr) ELSE HandleEnd(reader.fr)
    /\ UNCHANGED << cleanup, writer, closing, toPeer, toUs, peer, user, faults, startVars >>

\* The connection has been closed, or breaks.
ReadFails ==
    /\ Up /\ reader.at = "read"
    /\ \/ net = "closed" /\ ReaderEnds("closed") /\ UNCHANGED faults
       \/ Fault /\ ReaderEnds("net")
    /\ UNCHANGED << sess, table, cleanup, writer, closing, toPeer, toUs, peer, user, startVars >>

-----------------------------------------------------------------------------
(* Close and close() *)

UserCloses ==
    /\ Up /\ ~user /\ Fault
    /\ user' = TRUE
    /\ UNCHANGED << sess, table, cleanup, reader, writer, closing, toPeer, toUs, peer, startVars >>

\* closeOnce.Do: by Close, by newSession or by the goroutine that has exited.
CloseStarts ==
    /\ closing.at = "no"
    /\ user \/ reader.at = "exited" \/ writer.at = "exited" \/ ~Unlocked
    /\ closing' = [closing EXCEPT !.at = "tx"]
    /\ closeOnce' = TRUE
    /\ UNCHANGED << sess, table, cleanup, reader, writer, toPeer, toUs, peer, user, faults,
                    conf, start, interruptor, ctx, net >>

\* Mutant of CloseNet: connReader is waited for first.
CloseNetLast ==
    /\ closing.at = "tx" /\ writer.at = "exited" /\ reader.at = "exited"
    /\ closing' = [closing EXCEPT !.at = "rx"]
    /\ net' = "closed"
    /\ UNCHANGED << sess, table, cleanup, reader, writer, toPeer, toUs, peer, user, faults,
                    conf, start, interruptor, ctx, closeOnce >>

\* connWriter has exited: the network connection is closed.
CloseNet ==
    /\ closing.at = "tx" /\ writer.at = "exited"
    /\ \/ closing' = [closing EXCEPT !.at = "rx"] /\ UNCHANGED faults
       \/ closing' = [closing EXCEPT !.at = "rx", !.closeErr = "close"] /\ Fault
    /\ net' = "closed"
    /\ UNCHANGED << sess, table, cleanup, reader, writer, toPeer, toUs, peer, user,
                    conf, start, interruptor, ctx, closeOnce >>

\* Mutant of DoneErr: the writer's error comes before the peer's.
DoneErrWriterFirst ==
    IF writer.txErr # "none" THEN "tx"
    ELSE IF reader.rxErr = "remote" THEN "remote"
    ELSE IF reader.rxErr \notin {"none", "closed"} THEN "rx"
    ELSE IF closing.closeErr # "none" THEN "close"
    ELSE "nil"

\* The reason of the end, as closedErr gives it: the error of the peer's
\* close, then connWriter's, then connReader's, then that of net.Close.
DoneErr ==
    IF reader.rxErr = "remote" THEN "remote"
    ELSE IF writer.txErr # "none" THEN "tx"
    ELSE IF reader.rxErr \notin {"none", "closed"} THEN "rx"
    ELSE IF closing.closeErr # "none" THEN "close"
    ELSE "nil"

\* connReader has exited.
CloseSets ==
    /\ closing.at = "rx" /\ reader.at = "exited"
    /\ closing' = [closing EXCEPT !.at = "set", !.doneErr = DoneErr]
    /\ UNCHANGED << sess, table, cleanup, reader, writer, toPeer, toUs, peer, user, faults, startVars >>

\* Mutant of CloseDone: c.done is closed without waiting for connReader.
CloseDoneEarly ==
    /\ closing.at \in {"rx", "set"}
    /\ closing' = [closing EXCEPT !.at = "done"]
    /\ UNCHANGED << sess, table, cleanup, reader, writer, toPeer, toUs, peer, user, faults, startVars >>

CloseDone ==
    /\ closing.at = "set"
    /\ closing' = [closing EXCEPT !.at = "done"]
    /\ UNCHANGED << sess, table, cleanup, reader, writer, toPeer, toUs, peer, user, faults, startVars >>

-----------------------------------------------------------------------------
(* The peer *)

Talking == Up /\ ~peer.closed /\ net = "open"

\* The lowest of the peer's channels that it does not use.
PeerChannel ==
    LET used == {peer.mapped[ch].remote : ch \in {c \in DOMAIN peer.mapped : ~peer.mapped[c].ended}}
    IN  CHOOSE n \in 0..Cardinality(Sessions) : n \notin used /\ \A k \in 0..(n - 1) : k \in used

PeerSends(fr) ==
    /\ toUs' = Append(toUs, fr)
    /\ UNCHANGED << sess, table, cleanup, reader, writer, closing, toPeer, user, startVars >>

\* A begin on a channel that is in use, or an end on one that is not, is an
\* error; a begin and an end are answered otherwise.
PeerReads ==
    LET fr     == Head(toPeer)
        mapped == fr.ch \in DOMAIN peer.mapped
    IN  /\ Talking /\ toPeer # << >>
        /\ toPeer' = Tail(toPeer)
        /\ \/ /\ fr.type = "close"
              /\ peer' = [peer EXCEPT !.closed = TRUE]
              /\ UNCHANGED toUs
           \/ /\ (fr.type = "begin" /\ mapped) \/ (fr.type = "end" /\ ~mapped)
              /\ peer' = [peer EXCEPT !.surprised = TRUE]
              /\ UNCHANGED toUs
           \/ /\ fr.type = "begin" /\ ~mapped
              /\ peer' = [peer EXCEPT !.mapped = With(@, fr.ch,
                            [session |-> fr.session, remote |-> PeerChannel, ended |-> FALSE])]
              /\ toUs' = Append(toUs, Frame("begin", PeerChannel, fr.ch, fr.session))
           \/ /\ fr.type = "end" /\ mapped
              /\ peer' = [peer EXCEPT !.mapped = Without(@, {fr.ch})]
              /\ toUs' = IF peer.mapped[fr.ch].ended THEN toUs
                         ELSE Append(toUs, Frame("end", peer.mapped[fr.ch].remote, fr.ch,
                                                 peer.mapped[fr.ch].session))
        /\ UNCHANGED << sess, table, cleanup, reader, writer, closing, user, faults, startVars >>

PeerEnds ==
    /\ Talking /\ ~peer.surprised /\ Fault
    /\ \E ch \in DOMAIN peer.mapped :
          /\ ~peer.mapped[ch].ended
          /\ peer' = [peer EXCEPT !.mapped[ch].ended = TRUE]
          /\ PeerSends(Frame("end", peer.mapped[ch].remote, ch, peer.mapped[ch].session))

PeerData ==
    /\ Talking /\ ~peer.surprised /\ peer.data < MaxData
    /\ \E ch \in DOMAIN peer.mapped :
          /\ ~peer.mapped[ch].ended
          /\ peer' = [peer EXCEPT !.data = @ + 1]
          /\ PeerSends(Frame("data", peer.mapped[ch].remote, ch, peer.mapped[ch].session))
    /\ UNCHANGED faults

PeerCloses ==
    /\ Talking
    /\ \E type \in {"close", "closeError"} :
          /\ IF peer.surprised THEN type = "closeError" /\ UNCHANGED faults ELSE Fault
          /\ peer' = [peer EXCEPT !.closed = TRUE]
          /\ PeerSends(Frame(type, 0, 0, NoSession))

-----------------------------------------------------------------------------

Session(s) ==
    \/ NewSession(s) \/ Freed(s) \/ newSession(s) \/ Begun(s) \/ ConnDone(s) \/ MuxReads(s)

Writer == \E s \in Sessions : Writes(s)

Reader == ReadFrame \/ ReaderLocks \/ (net = "closed" /\ ReadFails)

Closing == CloseStarts \/ CloseNet \/ CloseSets \/ CloseDone

Next ==
    \/ StartNext(ChannelMax) /\ UNCHANGED << sess, table, cleanup, io, faults >>
    \/ Writer \/ WriteFails \/ WriterExits \/ ReadFrame \/ ReaderLocks \/ ReadFails
    \/ Closing \/ UserCloses
    \/ PeerReads \/ PeerEnds \/ PeerData \/ PeerCloses
    \/ \E s \in Sessions : Session(s) \/ WaitEnds(s) \/ CloseSession(s) \/ Refuses(s)

Spec == Init /\ [][Next]_vars

\* The goroutines run.  Nothing is assumed of the peer.
FairSpec ==
    /\ Spec /\ StartFairness
    /\ WF_vars(Writer) /\ WF_vars(WriterExits) /\ WF_vars(Reader) /\ WF_vars(Closing)
    /\ \A s \in Sessions : WF_vars(Session(s))

-----------------------------------------------------------------------------
(* Properties *)

\* start hands out a connection that is open and has what was configured, one
\* that it does not hand out has been closed, and nothing goes out before TLS
\* is up where TLS is configured, nor the open before a SASL outcome was ok.
StartIsSound ==
    /\ start.result = "ok" /\ closing.at \in {"no", "tx"} => net = "open"
    /\ start.result = "error" => net = "closed"
    /\ conf.tls /\ start.at \in {"negotiateSASL", "saslInit", "openAMQP", "established"} =>
          start.tlsComplete
    /\ conf.sasl # {} /\ start.at \in {"openAMQP", "established"} => start.saslComplete

\* The channels taken in the bitmap are those of the sessions that connReader
\* finds, and none is above what the peer allows.
ChannelsMatchSessions ==
    /\ Numbers(table.channels) = DOMAIN table.byChannel
    /\ \A ch \in DOMAIN table.byChannel : ch <= start.channelMax /\ sess[table.byChannel[ch]].ch = ch

\* What connReader queues for a session is what the peer has sent on this
\* session, its begin first (Session.begin: "hard to hit (impossible?)"),
\* although both sides use their channel numbers again; and it finds a session
\* for every frame, also when NewSession has given up waiting for it.
FramesReachTheirSession ==
    /\ reader.rxErr # "protocol"
    /\ \A s \in Sessions :
          /\ \A i \in DOMAIN sess[s].rxQ : sess[s].rxQ[i].session = s
          /\ sess[s].at = "wait" /\ sess[s].rxQ # << >> => Head(sess[s].rxQ).type = "begin"

\* What Err and Close report is what happened: the peer's error whenever it
\* was received, and nothing only if someone here closed the connection or
\* the peer did without an error.
ReasonIsTrue ==
    closing.at \in {"set", "done"} =>
        /\ reader.rxErr = "remote" => closing.doneErr = "remote"
        /\ closing.doneErr = "nil" => /\ writer.txErr = "none" /\ closing.closeErr = "none"
                                      /\ reader.rxErr \in {"none", "closed"}

\* The connection is one of ConnLife.
Life ==
    INSTANCE ConnLife WITH
        life <- CASE start.result = "none" -> "starting"
                  [] start.result = "error" -> "failed"
                  [] start.result = "ok" -> IF Done THEN "closed" ELSE "open",
        err <- IF Done THEN closing.doneErr ELSE "nil",
        Reasons <- {"nil", "remote", "tx", "rx", "close"}

ImplementsConnLife == Life!LifeSpec

\* Close ends the connection and releases every call that waits for it, unless
\* newSession has found no channel left and closes it itself.
CloseReleasesAll ==
    user ~> \/ ~Unlocked
            \/ Done /\ \A s \in Sessions : sess[s].at \in {"new", "failed", "over"}

=============================================================================
