-------------------------------- MODULE Wire --------------------------------
(***************************************************************************)
(* One direction of a connection between two go-amqp endpoints: connWriter *)
(* of the one marshals frames and keepalives and puts them on the network, *)
(* readFrame of the other collects bytes in rxBuf, in whatever pieces the  *)
(* network gives them, and cuts and parses the frames.  The reader's       *)
(* maximum is what its Open told the writer.                               *)
(***************************************************************************)
EXTENDS Frames, FiniteSetsExt

CONSTANTS
    Streams,        \* what a connection may be used for: [items, pieces, maxFrameSize],
                    \* a sequence of items to write, the pieces in which the network
                    \* may hand out the bytes, and the agreed maximum
    MinRead,        \* minRead of ReadFromOnce (512 in the code)
    MaxBehind       \* bound: bytes on the network that are not read yet

(***************************************************************************)
(* An item is [channel, body, message]: a frame, whose message is the one  *)
(* that the payload of a transfer stands for, or Keepalive.                *)
(***************************************************************************)
Item(channel, body, message) == [channel |-> channel, body |-> body, message |-> message]

Keepalive == Item(0, Nil, EmptyMessage)

VARIABLES
    stream,     \* the items to write
    pieces,     \* how many bytes a Read of the network gives at most
    maxFrameSize, \* the reader's c.maxFrameSize, the writer's c.peerMaxFrameSize
    written,    \* how many of them connWriter has dealt with
    refused,    \* the items that writeFrame returned an error for
    net,        \* the bytes on the network
    rxBuf,      \* the reader's buffer: bytes b, read index i, capacity cap
    reader,     \* readFrame: where it is, and its local variables
    got         \* the frames that readFrame has returned

wireVars == << stream, pieces, maxFrameSize, written, refused, net, rxBuf, reader, got >>

WireInit ==
    /\ \E s \in Streams : stream = s.items /\ pieces = s.pieces /\ maxFrameSize = s.maxFrameSize
    /\ written = 0
    /\ refused = {}
    /\ net = << >>
    /\ rxBuf = [b |-> << >>, i |-> 0, cap |-> 0]
    /\ reader = [at |-> "call", header |-> Nil, frameInProgress |-> FALSE]
    /\ got = << >>

-----------------------------------------------------------------------------
(* connWriter *)

\* A terminal error: the writer exits and the connection is closed.
WriterAlive == refused = {}

\* writeFrame: a frame that cannot be marshalled or that is larger than the
\* peer takes is an error; otherwise its bytes go to the network.
writeFrame ==
    LET item == stream[written + 1]
    IN  /\ WriterAlive /\ written < Len(stream) /\ Len(net) <= MaxBehind
        /\ item # Keepalive
        /\ written' = written + 1
        /\ \E bytes \in {Write(item.channel, item.body)} :
              IF bytes = MarshalError \/ Len(bytes) > maxFrameSize
              THEN refused' = {written + 1} /\ UNCHANGED net
              ELSE net' = net \o bytes /\ UNCHANGED refused
        /\ UNCHANGED << stream, pieces, maxFrameSize, rxBuf, reader, got >>

\* The keepalive timer.
keepalive ==
    /\ WriterAlive /\ written < Len(stream) /\ Len(net) <= MaxBehind
    /\ stream[written + 1] = Keepalive
    /\ written' = written + 1
    /\ net' = net \o keepaliveFrame
    /\ UNCHANGED << stream, pieces, maxFrameSize, refused, rxBuf, reader, got >>

-----------------------------------------------------------------------------
(* buffer.go *)

BufLen(buf) == Len(buf.b) - buf.i

Bytes(buf) == SubSeq(buf.b, buf.i + 1, Len(buf.b))

Reset(buf) == [buf EXCEPT !.b = << >>, !.i = 0]

Reclaim(buf) == [buf EXCEPT !.b = Bytes(buf), !.i = 0]

Advance(buf, n) == [buf EXCEPT !.i = @ + n]

\* The buffer that ReadFromOnce reads into: one of twice the length, when
\* less than MinRead bytes are free.
Grow(buf) ==
    IF buf.cap - Len(buf.b) >= MinRead THEN buf
    ELSE [buf EXCEPT !.cap = IF buf.b = << >> THEN MinRead ELSE 2 * Len(buf.b)]

-----------------------------------------------------------------------------
(* readFrame *)

\* Mutant of CallReadFrame: an empty buffer is not reset.
CallReadFrameKeeping ==
    /\ reader.at = "call"
    /\ reader' = [at |-> "loop", header |-> Nil, frameInProgress |-> FALSE]
    /\ UNCHANGED << stream, pieces, maxFrameSize, written, refused, net, rxBuf, got >>

\* connReader calls readFrame: free space is reused.
CallReadFrame ==
    /\ reader.at = "call"
    /\ rxBuf' = CASE BufLen(rxBuf) = 0                           -> Reset(rxBuf)
                  [] BufLen(rxBuf) > 0 /\ rxBuf.i > maxFrameSize -> Reclaim(rxBuf)
                  [] OTHER                                       -> rxBuf
    /\ reader' = [at |-> "loop", header |-> Nil, frameInProgress |-> FALSE]
    /\ UNCHANGED << stream, pieces, maxFrameSize, written, refused, net, got >>

\* The loop goes on, or readFrame returns.
Continue(buf, header, inProgress) ==
    /\ rxBuf' = buf
    /\ reader' = [at |-> "loop", header |-> header, frameInProgress |-> inProgress]
    /\ UNCHANGED got

Return(buf, at) ==
    /\ rxBuf' = buf
    /\ reader' = [at |-> at, header |-> Nil, frameInProgress |-> FALSE]

\* The loop body once the header is known.
ParseFrame(buf, header) ==
    LET size == header.size - HeaderSize
    IN  CASE header.size > MaxInt(W32) -> Return(buf, "failed") /\ UNCHANGED got
          [] header.size <= MaxInt(W32) /\ BufLen(buf) < size -> Continue(buf, header, TRUE)
          [] header.size <= MaxInt(W32) /\ BufLen(buf) >= size /\ size = 0 ->
                Continue(buf, header, FALSE)
          [] OTHER ->
                \E body \in {ParseBody(SubSeq(Bytes(buf), 1, size))} :
                   IF body.ok
                   THEN /\ Return(Advance(buf, size), "call")
                        /\ got' = Append(got, [channel |-> header.channel, body |-> body.v])
                   ELSE Return(Advance(buf, size), "failed") /\ UNCHANGED got

\* Mutant of Parse: a body shorter than a header is waited for.
ParseAfterHeader(buf) ==
    CASE BufLen(buf) < HeaderSize -> Continue(buf, reader.header, reader.frameInProgress)
      [] BufLen(buf) >= HeaderSize /\ reader.frameInProgress -> ParseFrame(buf, reader.header)
      [] OTHER ->
            \E header \in {ParseHeader(Bytes(buf))} :
               IF header.ok THEN ParseFrame(Advance(buf, HeaderSize), header.v)
               ELSE Return(Advance(buf, HeaderSize), "failed") /\ UNCHANGED got

\* The loop body after the read.
Parse(buf) ==
    CASE reader.frameInProgress -> ParseFrame(buf, reader.header)
      [] ~reader.frameInProgress /\ BufLen(buf) < HeaderSize -> Continue(buf, Nil, FALSE)
      [] OTHER ->
            \E header \in {ParseHeader(Bytes(buf))} :
               IF header.ok THEN ParseFrame(Advance(buf, HeaderSize), header.v)
               ELSE Return(Advance(buf, HeaderSize), "failed") /\ UNCHANGED got

NeedsToRead == reader.frameInProgress \/ BufLen(rxBuf) < HeaderSize

\* An iteration that begins with a Read of the network.
ReadFromOnce ==
    /\ reader.at = "loop" /\ NeedsToRead
    /\ net # << >>
    /\ \E n \in {Min({p, Len(net), Grow(rxBuf).cap - Len(rxBuf.b)}) : p \in pieces} :
          /\ net' = SubSeq(net, n + 1, Len(net))
          /\ \E buf \in {[Grow(rxBuf) EXCEPT !.b = @ \o SubSeq(net, 1, n)]} : Parse(buf)
    /\ UNCHANGED << stream, pieces, maxFrameSize, written, refused >>

\* An iteration that finds a header in the buffer.
ParseBuffered ==
    /\ reader.at = "loop" /\ ~NeedsToRead
    /\ Parse(rxBuf)
    /\ UNCHANGED << stream, pieces, maxFrameSize, written, refused, net >>

\* The connection is closed by the writer's terminal error, and the reader
\* has taken all the bytes.
ReadEOF ==
    /\ reader.at = "loop" /\ NeedsToRead
    /\ net = << >> /\ ~WriterAlive
    /\ reader' = [at |-> "closed", header |-> Nil, frameInProgress |-> FALSE]
    /\ UNCHANGED << stream, pieces, maxFrameSize, written, refused, net, rxBuf, got >>

WireNext ==
    \/ writeFrame
    \/ keepalive
    \/ CallReadFrame
    \/ ReadFromOnce
    \/ ParseBuffered
    \/ ReadEOF

Reader == CallReadFrame \/ ReadFromOnce \/ ParseBuffered \/ ReadEOF

WireSpec == WireInit /\ [][WireNext]_wireVars
                     /\ WF_wireVars(writeFrame \/ keepalive)
                     /\ WF_wireVars(Reader)

-----------------------------------------------------------------------------
(* What it means that a value arrives *)

(***************************************************************************)
(* The value up to what AMQP does not carry: symbols and strings are one,  *)
(* int and uint have 64 bits, instants and durations whole milliseconds,   *)
(* an empty slice or map is as good as none, the type of a map's keys is   *)
(* not sent, the expiry policy is session-end unless set, and a receiver's *)
(* attach has no initial delivery count.                                   *)
(***************************************************************************)
RECURSIVE Meaning(_)
Meaning(x) ==
    LET each(xs)   == [i \in DOMAIN xs |-> Meaning(xs[i])]
        floor(n)   == TicksPerMs * (n \div TicksPerMs)
        towards0(n) == IF n >= 0 THEN floor(n) ELSE -floor(-n)
    IN  CASE x.t \in {"Symbol", "ErrCond"} -> Val("string", x.v)
          [] x.t = "int"                   -> Val("int64", x.v)
          [] x.t = "uint"                  -> Val("uint64", x.v)
          [] x.t = "Null"                  -> Nil
          [] x.t \in {"time", "Milliseconds"} -> Val(x.t, floor(x.v))
          [] x.t = "ExpiryPolicy"          -> IF x.v = << >> THEN Val(x.t, SessionEnd) ELSE x
          [] x.t \in SliceOrMap \cup {"MultiSymbol"} /\ x.v = << >> -> Nil
          [] x.t = "[]time" /\ x.v # << >> -> Val(x.t, [i \in DOMAIN x.v |-> towards0(x.v[i])])
          [] x.t = "[]any" /\ x.v # << >>  -> Val(x.t, each(x.v))
          [] x.t \in MapTypes /\ x.v # << >> ->
                Val("map", [i \in DOMAIN x.v |-> << Meaning(x.v[i][1]), Meaning(x.v[i][2]) >>])
          [] x.t = "PerformAttach"         ->
                Val(x.t, [each(x.v) EXCEPT ![10] = IF x.v[3].v THEN Val("uint32", 0) ELSE @])
          [] x.t \in {"DescribedType"} \cup (DOMAIN Composites \ {"PerformAttach"}) ->
                Val(x.t, each(x.v))
          [] OTHER                         -> x

MessageMeaning(m) ==
    [k \in DOMAIN m |->
        IF k = "Data" THEN m[k]
        ELSE IF k = "Sequence" THEN [i \in DOMAIN m[k] |-> Meaning(Val("[]any", m[k][i]))]
        ELSE Meaning(m[k])]

\* The frame f is the one that item stands for.
Arrived(f, item) ==
    /\ f.channel = item.channel
    /\ Meaning(f.body) = Meaning(item.body)
    /\ item.body.t = "PerformTransfer" =>
          LET m == UnmarshalMessage(f.body.payload)
          IN  m.ok /\ MessageMeaning(m.v) = MessageMeaning(item.message)

\* The frames among the items that were written.
FramesWritten ==
    SelectSeq([i \in 1..written |-> IF i \in refused THEN Keepalive ELSE stream[i]],
              LAMBDA item : item # Keepalive)

-----------------------------------------------------------------------------
(* Properties *)

\* However the network cuts the bytes, and whatever keepalives are between
\* the frames, readFrame returns the frames that connWriter wrote, in order,
\* with the same contents, down to every field and every section of the
\* message in a transfer (Marshal and Unmarshal agree on each).
FramesArriveIntact ==
    /\ Len(got) <= Len(FramesWritten)
    /\ \A i \in DOMAIN got : Arrived(got[i], FramesWritten[i])

\* No frame that writeFrame let pass makes the peer's readFrame fail: the
\* size limit, the headers and the bodies that the one side writes are those
\* that the other takes.
ReaderAccepts == reader.at # "failed"

\* rxBuf stays within the space of two frames and one read, however many
\* frames pass through it: "Prevent excessive/unbounded growth by shifting
\* data to beginning of buffer" in readFrame.
RxBufBounded == rxBuf.cap <= 2 * (2 * maxFrameSize + MinRead)

\* Every frame written is returned in the end: readFrame never waits for
\* bytes that it already has (a body shorter than a header, a keepalive
\* before a frame, two frames in one read).
AllFramesArrive == <>[](Len(got) = Len(FramesWritten) /\ (written = Len(stream) \/ ~WriterAlive))
=============================================================================
