------------------------------- MODULE Frames -------------------------------
(***************************************************************************)
(* What travels over a connection: frames (internal/frames/parsing.go) and *)
(* the messages that transfer frames carry (message.go), as sequences of   *)
(* bytes.                                                                  *)
(***************************************************************************)
EXTENDS Codec

HeaderSize == W32 + 2 + W16

TypeAMQP == 0

\* A frame of size, data offset 2, type AMQP and channel.
FrameHeader(size, channel) ==
    AppendUint(size, W32) \o << 2, TypeAMQP >> \o AppendUint(channel, W16)

keepaliveFrame == FrameHeader(HeaderSize, 0)

\* Write: MarshalError when the body cannot be written or is too large.
Write(channel, body) ==
    Once(Marshal(body), LAMBDA bytes :
        IF -1 \in Range(bytes) \/ HeaderSize + Len(bytes) > MaxUint(W32) THEN MarshalError
        ELSE FrameHeader(HeaderSize + Len(bytes), channel) \o bytes)

ParseHeader(r) ==
    Then(NextBytes(r, HeaderSize), LAMBDA b, rest :
        LET header == [size    |-> BigEndian(SubSeq(b, 1, W32)),
                       channel |-> BigEndian(SubSeq(b, W32 + 3, HeaderSize))]
        IN  IF header.size < HeaderSize \/ b[W32 + 1] < 2 THEN Fail ELSE Ok(header, rest))

ParseBody(r) ==
    LET types == {x \in FrameBodies : Composites[x].code = r[3]}
    IN  IF Len(r) < 3 THEN Fail
        ELSE IF r[1] # 0 \/ r[2] # TypeCode.SmallUlong \/ types = {} THEN Fail
        ELSE Unmarshal(CHOOSE x \in types : TRUE, r)

-----------------------------------------------------------------------------
(* message.go *)

(***************************************************************************)
(* A message: its sections, Nil when absent; Data is a sequence of byte    *)
(* sequences and Sequence one of lists.                                    *)
(***************************************************************************)
EmptyMessage ==
    [Header |-> Nil, DeliveryAnnotations |-> Nil, Annotations |-> Nil, Properties |-> Nil,
     ApplicationProperties |-> Nil, Data |-> << >>, Value |-> Nil, Sequence |-> << >>,
     Footer |-> Nil]

\* A section with a descriptor of its own, when it is not nil.
Section(code, x) == IF x = Nil THEN << >> ELSE WriteDescriptor(code) \o Marshal(x)

\* The value amqp.Null, which Marshal writes as a null.
Null == Val("Null", 0)

MarshalMessage(m) ==
    LET bare(x) == IF x = Nil THEN << >> ELSE Marshal(x)
        each(code, es, Put(_)) == FlattenSeq([i \in DOMAIN es |-> WriteDescriptor(code) \o Put(es[i])])
    IN  bare(m.Header)
        \o Section(TypeCode.DeliveryAnnotations, m.DeliveryAnnotations)
        \o Section(TypeCode.MessageAnnotations, m.Annotations)
        \o bare(m.Properties)
        \o Section(TypeCode.ApplicationProperties, m.ApplicationProperties)
        \o each(TypeCode.ApplicationData, m.Data, WriteBinary)
        \o Section(TypeCode.AMQPValue, m.Value)
        \o each(TypeCode.AMQPSequence, m.Sequence, MarshalList)
        \o Section(TypeCode.Footer, m.Footer)

\* The sections by code: the field they are read into and its type.
Sections ==
    << << MessageHeader.code, "Header", "MessageHeader" >>,
       << TypeCode.DeliveryAnnotations, "DeliveryAnnotations", "Annotations" >>,
       << TypeCode.MessageAnnotations, "Annotations", "Annotations" >>,
       << MessageProperties.code, "Properties", "MessageProperties" >>,
       << TypeCode.ApplicationProperties, "ApplicationProperties", "map[string]any" >>,
       << TypeCode.ApplicationData, "Data", "[]byte" >>,
       << TypeCode.AMQPSequence, "Sequence", "[]any" >>,
       << TypeCode.AMQPValue, "Value", "any" >>,
       << TypeCode.Footer, "Footer", "Annotations" >> >>

RECURSIVE UnmarshalSections(_, _)
UnmarshalSections(m, r) ==
    IF r = << >> THEN Ok(m, r)
    ELSE Then(PeekMessageType(r), LAMBDA h, ignored :
        LET found == {i \in DOMAIN Sections : Sections[i][1] = h[1]}
            s     == Sections[CHOOSE i \in found : TRUE]
            start == IF s[2] \in {"Header", "Properties"} THEN r ELSE SubSeq(r, h[2] + 1, Len(r))
        IN  IF found = {} THEN Fail
            ELSE Then(Unmarshal(s[3], start), LAMBDA x, rest :
                UnmarshalSections(
                    [m EXCEPT ![s[2]] = IF s[2] \in {"Data", "Sequence"} THEN Append(@, x.v) ELSE x],
                    rest)))

UnmarshalMessage(r) == UnmarshalSections(EmptyMessage, r)
=============================================================================
