-------------------------------- MODULE Codec --------------------------------
(***************************************************************************)
(* The AMQP codec of internal/encoding (encode.go, decode.go, types.go,    *)
(* exported_types.go) over the byte buffer of internal/buffer: Marshal     *)
(* turns a value into a sequence of bytes, Unmarshal reads a value of a    *)
(* given Go type from the unread bytes of a buffer, ReadAny one of the     *)
(* type that the bytes announce.                                           *)
(*                                                                         *)
(* An error of Marshal is the byte -1: it stays in whatever encloses it,   *)
(* as the error the code returns is returned by every enclosing call.  A   *)
(* read is [ok, v, r]: whether there was no error, the value, and the      *)
(* bytes that are left unread.                                             *)
(***************************************************************************)
EXTENDS Schema, SequencesExt

MarshalError == << -1 >>

Fail == [ok |-> FALSE, v |-> Nil, r |-> << >>]

Ok(value, rest) == [ok |-> TRUE, v |-> value, r |-> rest]

\* Do(x), with x evaluated once: TLC evaluates an operator's argument, or a
\* definition of a LET, each time that an action uses it.
Once(x, Do(_)) == CHOOSE y \in {Do(value) : value \in {x}} : TRUE

\* What follows a read that may have failed.
Then(read, Do(_, _)) == Once(read, LAMBDA x : IF x.ok THEN Do(x.v, x.r) ELSE Fail)

\* n reads one after the other; the value is the sequence of their values.
ReadEach(n, Read(_, _), r) ==
    LET after[i \in 0..n] ==
            IF i = 0 THEN Ok(<< >>, r)
            ELSE Then(after[i - 1], LAMBDA xs, rest :
                     Then(Read(i, rest), LAMBDA x, rest2 : Ok(Append(xs, x), rest2)))
    IN  after[n]

-----------------------------------------------------------------------------
(* buffer.go *)

\* AppendUint16, AppendUint32, AppendUint64: big-endian, the low w bytes of n.
AppendUint(n, w) == [k \in 1..w |-> (n \div 256^(w - k)) % 256]

RECURSIVE BigEndian(_)
BigEndian(bytes) ==
    IF bytes = << >> THEN 0 ELSE 256 * BigEndian(Front(bytes)) + Last(bytes)

Signed(n, w) == IF n > MaxInt(w) THEN n - 256^w ELSE n

NextBytes(r, n) ==
    IF n > Len(r) THEN Fail ELSE Ok(SubSeq(r, 1, n), SubSeq(r, n + 1, Len(r)))

ReadByte(r) == IF r = << >> THEN Fail ELSE Ok(Head(r), Tail(r))

ReadUint(r, w) == Then(NextBytes(r, w), LAMBDA b, rest : Ok(BigEndian(b), rest))

PeekByte(r) == IF r = << >> THEN Fail ELSE Ok(Head(r), r)

-----------------------------------------------------------------------------
(* encode.go: scalars *)

writeUint32(n) ==
    CASE n = 0              -> << TypeCode.Uint0 >>
      [] n > 0 /\ n < 256   -> << TypeCode.SmallUint, n >>
      [] OTHER              -> << TypeCode.Uint >> \o AppendUint(n, W32)

writeUint64(n) ==
    CASE n = 0              -> << TypeCode.Ulong0 >>
      [] n > 0 /\ n < 256   -> << TypeCode.SmallUlong, n >>
      [] OTHER              -> << TypeCode.Ulong >> \o AppendUint(n, W64)

\* Mutant of writeInt32: one bound is checked.
writeInt32Below(n) ==
    IF n < 128 THEN << TypeCode.Smallint, n % 256 >>
    ELSE << TypeCode.Int >> \o AppendUint(n % 256^W32, W32)

writeInt32(n) ==
    IF n < 128 /\ n >= -128 THEN << TypeCode.Smallint, n % 256 >>
    ELSE << TypeCode.Int >> \o AppendUint(n % 256^W32, W32)

writeInt64(n) ==
    IF n < 128 /\ n >= -128 THEN << TypeCode.Smalllong, n % 256 >>
    ELSE << TypeCode.Long >> \o AppendUint(n % 256^W64, W64)

\* UnixMilli rounds towards the past.
writeTimestamp(ticks) ==
    << TypeCode.Timestamp >> \o AppendUint((ticks \div TicksPerMs) % 256^W64, W64)

\* Contents with a length of one byte or of a 32-bit integer in front.
writeSized(code8, code32, bytes) ==
    CASE Len(bytes) < 256 ->
            << code8, Len(bytes) >> \o bytes
      [] Len(bytes) >= 256 /\ Len(bytes) < MaxUint(W32) ->
            << code32 >> \o AppendUint(Len(bytes), W32) \o bytes
      [] OTHER -> MarshalError

ValidString(bytes) == \A i \in DOMAIN bytes : bytes[i] < 128

writeString(bytes) ==
    IF ValidString(bytes) THEN writeSized(TypeCode.Str8, TypeCode.Str32, bytes) ELSE MarshalError

WriteBinary(bytes) == writeSized(TypeCode.Vbin8, TypeCode.Vbin32, bytes)

MarshalSymbol(bytes) == writeSized(TypeCode.Sym8, TypeCode.Sym32, bytes)

WriteDescriptor(code) == << 0, TypeCode.SmallUlong, code >>

-----------------------------------------------------------------------------
(* encode.go and types.go: arrays *)

array8TLSize == 2

array32TLSize == W32 + 1

writeArrayHeader(length, size, code) ==
    IF size + array8TLSize <= 255
    THEN << TypeCode.Array8, size + array8TLSize, length, code >>
    ELSE << TypeCode.Array32 >> \o AppendUint(size + array32TLSize, W32)
                                \o AppendUint(length, W32) \o << code >>

\* One element of a fixed-size array, cut to size bytes.  An instant in an
\* array is divided by a Go division, which rounds towards 1970.
PutElement(kind, e, size) ==
    CASE kind \in {"uint", "int"} -> AppendUint(e % 256^size, size)
      [] kind = "bool"            -> << IF e THEN 1 ELSE 0 >>
      [] kind = "time"            ->
            LET ms == IF e >= 0 THEN e \div TicksPerMs ELSE -((-e) \div TicksPerMs)
            IN  AppendUint(ms % 256^size, size)
      [] kind = "bytes"           -> e

GetElement(kind, b) ==
    CASE kind = "uint"  -> BigEndian(b)
      [] kind = "int"   -> Signed(BigEndian(b), Len(b))
      [] kind = "bool"  -> b[1] # 0
      [] kind = "time"  -> TicksPerMs * Signed(BigEndian(b), Len(b))
      [] kind = "bytes" -> b

MarshalFixedArray(a, es) ==
    LET small == a.small # 0 /\ \A i \in DOMAIN es : ~(es[i] > a.smallMax)
        size  == IF small THEN 1 ELSE a.size
        code  == IF small THEN a.small ELSE a.code
    IN  writeArrayHeader(Len(es), Len(es) * size, code)
        \o FlattenSeq([i \in DOMAIN es |-> PutElement(a.kind, es[i], size)])

\* The bytes of a length: four under the codes 0xB_, one under the others.
lengthWidth(code) == IF code \div 16 = 11 THEN W32 ELSE 1

writeVariableArrayHeader(length, elementsSizeTotal, code) ==
    writeArrayHeader(length, elementsSizeTotal + length * lengthWidth(code), code)

MarshalVariableArray(a, es) ==
    LET code == IF \E i \in DOMAIN es : Len(es[i]) > 255 THEN a.code32 ELSE a.code8
    IN  IF a.utf8 /\ \E i \in DOMAIN es : ~ValidString(es[i]) THEN MarshalError
        ELSE writeVariableArrayHeader(Len(es), Len(FlattenSeq(es)), code)
             \o FlattenSeq([i \in DOMAIN es |-> AppendUint(Len(es[i]), lengthWidth(code)) \o es[i]])

-----------------------------------------------------------------------------
(* encode.go: compounds *)

RECURSIVE Marshal(_)

\* A 32-bit size, which counts the count that follows it, and the contents.
Sized(code, count, contents) ==
    Once(contents, LAMBDA c :
        << code >> \o AppendUint(Len(c) + W32, W32) \o AppendUint(count, W32) \o c)

MarshalList(es) ==
    IF es = << >> THEN << TypeCode.List0 >>
    ELSE Sized(TypeCode.List32, Len(es), FlattenSeq([i \in DOMAIN es |-> Marshal(es[i])]))

MarshalKey(type, key) ==
    CASE type \in {"map[string]any", "Unsettled"}            -> writeString(key.v)
      [] type \in {"map[Symbol]any", "Filter"}               -> MarshalSymbol(key.v)
      [] type = "map[any]any"                                -> Marshal(key)
      [] type = "Annotations" /\ key.t \in {"string", "Symbol"} -> MarshalSymbol(key.v)
      [] type = "Annotations" /\ key.t \in {"int", "int64"}  -> writeInt64(key.v)
      [] OTHER                                               -> MarshalError

writeMap(type, pairs) ==
    Sized(TypeCode.Map32, 2 * Len(pairs),
          FlattenSeq([i \in DOMAIN pairs |->
                         MarshalKey(type, pairs[i][1]) \o Marshal(pairs[i][2])]))

IsZero(x) ==
    CASE x.t = "nil"                                                       -> TRUE
      [] x.t \in {"uint8", "uint16", "uint32", "uint64", "Durability", "Milliseconds"} -> x.v = 0
      [] x.t \in {"bool", "Role"}                                          -> ~x.v
      [] OTHER                                                             -> x.v = << >>

\* The Omit expression of a field of the struct whose fields are s.
Omit(f, x, s) ==
    CASE f.omit = "never"           -> FALSE
      [] f.omit = "zero"            -> IsZero(x)
      [] f.omit = "nil"             -> x.t = "nil"
      [] f.omit = "default"         -> x = f.default
      [] f.omit = "zero or default" -> IsZero(x) \/ x = f.default
      [] f.omit = "receiver"        -> s[3].v

\* Fields up to the last one that is set; the omitted ones among them are
\* null.  Marshal has no case for a pointer to an interface.
MarshalComposite(c, s) ==
    LET set   == {i \in DOMAIN c.fields : ~Omit(c.fields[i], s[i], s)}
        last  == CHOOSE i \in set : \A j \in set : j <= i
        value == [i \in 1..last |->
                     IF i \notin set THEN << TypeCode.Null >>
                     ELSE IF c.fields[i].type = "*any" THEN MarshalError
                     ELSE Marshal(s[i])]
    IN  WriteDescriptor(c.code) \o
        IF set = {} THEN << TypeCode.List0 >>
        ELSE Sized(TypeCode.List32, last, FlattenSeq(value))

MapTypes == {"map[any]any", "map[string]any", "map[Symbol]any", "Unsettled", "Filter",
             "Annotations"}

Marshal(x) ==
    CASE x.t \in {"nil", "Null"}         -> << TypeCode.Null >>
      [] x.t \in {"bool", "Role"}       ->
            << IF x.v THEN TypeCode.BoolTrue ELSE TypeCode.BoolFalse >>
      [] x.t \in {"uint", "uint64"}     -> writeUint64(x.v)
      [] x.t \in {"uint32", "Durability"} -> writeUint32(x.v)
      [] x.t = "Milliseconds"           -> writeUint32((x.v \div TicksPerMs) % 256^W32)
      [] x.t = "uint16"                 -> << TypeCode.Ushort >> \o AppendUint(x.v, W16)
      [] x.t \in {"uint8", "SenderSettleMode", "ReceiverSettleMode", "SASLCode"} ->
            << TypeCode.Ubyte, x.v >>
      [] x.t \in {"int", "int64"}       -> writeInt64(x.v)
      [] x.t = "int32"                  -> writeInt32(x.v)
      [] x.t = "int16"                  -> << TypeCode.Short >> \o AppendUint(x.v % 256^W16, W16)
      [] x.t = "int8"                   -> << TypeCode.Byte, x.v % 256 >>
      [] x.t = "float32"                -> << TypeCode.Float >> \o AppendUint(x.v, W32)
      [] x.t = "float64"                -> << TypeCode.Double >> \o AppendUint(x.v, W64)
      [] x.t = "string"                 -> writeString(x.v)
      [] x.t \in {"Symbol", "ErrCond", "ExpiryPolicy"} -> MarshalSymbol(x.v)
      [] x.t = "[]byte"                 -> WriteBinary(x.v)
      [] x.t = "time"                   -> writeTimestamp(x.v)
      [] x.t = "UUID"                   -> << TypeCode.UUID >> \o x.v
      [] x.t = "LifetimePolicy"         -> WriteDescriptor(x.v) \o << TypeCode.List0 >>
      [] x.t = "MultiSymbol"            -> MarshalVariableArray(arraySymbol, x.v)
      [] x.t \in DOMAIN FixedArrays     -> MarshalFixedArray(FixedArrays[x.t], x.v)
      [] x.t \in DOMAIN VariableArrays  -> MarshalVariableArray(VariableArrays[x.t], x.v)
      [] x.t = "[]any"                  -> MarshalList(x.v)
      [] x.t \in MapTypes               -> writeMap(x.t, x.v)
      [] x.t = "DescribedType"          -> << 0 >> \o Marshal(x.v[1]) \o Marshal(x.v[2])
      [] x.t = "PerformTransfer"        ->
            MarshalComposite(PerformTransfer, x.v) \o x.payload
      [] x.t \in DOMAIN Composites \ {"PerformTransfer"} ->
            MarshalComposite(Composites[x.t], x.v)
      [] OTHER                          -> MarshalError

-----------------------------------------------------------------------------
(* decode.go: scalars *)

readType(r) == ReadByte(r)

tryReadNull(r) == r # << >> /\ r[1] = TypeCode.Null

\* A type code that must be code, and then a w-byte integer.
ReadCoded(type, code, w, r) ==
    Then(readType(r), LAMBDA c, rest :
        IF c # code THEN Fail
        ELSE Then(ReadUint(rest, w), LAMBDA n, rest2 : Ok(Val(type, n), rest2)))

AsSigned(read, w) == Then(read, LAMBDA x, rest : Ok(Val(x.t, Signed(x.v, w)), rest))

readBool(type, r) ==
    Then(readType(r), LAMBDA c, rest :
        CASE c = TypeCode.Bool      -> Then(ReadByte(rest), LAMBDA b, rest2 : Ok(Val(type, b # 0), rest2))
          [] c = TypeCode.BoolTrue  -> Ok(Val(type, TRUE), rest)
          [] c = TypeCode.BoolFalse -> Ok(Val(type, FALSE), rest)
          [] OTHER                  -> Fail)

readUint32(type, r) ==
    Then(readType(r), LAMBDA c, rest :
        CASE c = TypeCode.Uint0     -> Ok(Val(type, 0), rest)
          [] c = TypeCode.SmallUint -> ReadCoded(type, TypeCode.SmallUint, 1, r)
          [] c = TypeCode.Uint      -> ReadCoded(type, TypeCode.Uint, W32, r)
          [] OTHER                  -> Fail)

readUlong(type, r) ==
    Then(readType(r), LAMBDA c, rest :
        CASE c = TypeCode.Ulong0     -> Ok(Val(type, 0), rest)
          [] c = TypeCode.SmallUlong -> ReadCoded(type, TypeCode.SmallUlong, 1, r)
          [] c = TypeCode.Ulong      -> ReadCoded(type, TypeCode.Ulong, W64, r)
          [] OTHER                   -> Fail)

\* An unsigned integer of any width, read by Milliseconds.
readUint(r) ==
    Then(readType(r), LAMBDA c, rest :
        CASE c \in {TypeCode.Uint0, TypeCode.Ulong0} -> Ok(0, rest)
          [] c \in {TypeCode.Ubyte, TypeCode.SmallUint, TypeCode.SmallUlong} -> ReadUint(rest, 1)
          [] c = TypeCode.Ushort -> ReadUint(rest, W16)
          [] c = TypeCode.Uint   -> ReadUint(rest, W32)
          [] c = TypeCode.Ulong  -> ReadUint(rest, W64)
          [] OTHER               -> Fail)

readInt32(r) ==
    Then(readType(r), LAMBDA c, rest :
        IF c = TypeCode.Smallint THEN AsSigned(ReadCoded("int32", c, 1, r), 1)
        ELSE AsSigned(ReadCoded("int32", TypeCode.Int, W32, r), W32))

readLong(r) ==
    Then(readType(r), LAMBDA c, rest :
        IF c = TypeCode.Smalllong THEN AsSigned(ReadCoded("int64", c, 1, r), 1)
        ELSE AsSigned(ReadCoded("int64", TypeCode.Long, W64, r), W64))

readTimestamp(r) ==
    Then(AsSigned(ReadCoded("time", TypeCode.Timestamp, W64, r), W64),
         LAMBDA x, rest : Ok(Val("time", TicksPerMs * x.v), rest))

readUUID(r) ==
    Then(readType(r), LAMBDA c, rest :
        IF c # TypeCode.UUID THEN Fail
        ELSE Then(NextBytes(rest, 16), LAMBDA b, rest2 : Ok(Val("UUID", b), rest2)))

\* A length of one byte under a code of codes8, of W32 bytes under one of
\* codes32, and that many bytes.
ReadSized(codes8, codes32, r) ==
    Then(readType(r), LAMBDA c, rest :
        IF c \notin codes8 \cup codes32 THEN Fail
        ELSE Then(ReadUint(rest, IF c \in codes8 THEN 1 ELSE W32),
                  LAMBDA n, rest2 : NextBytes(rest2, n)))

ReadString(type, r) ==
    Then(ReadSized({TypeCode.Str8, TypeCode.Sym8}, {TypeCode.Str32, TypeCode.Sym32}, r),
         LAMBDA b, rest : Ok(Val(type, b), rest))

readBinary(r) ==
    Then(ReadSized({TypeCode.Vbin8}, {TypeCode.Vbin32}, r),
         LAMBDA b, rest : Ok(Val("[]byte", b), rest))

-----------------------------------------------------------------------------
(* decode.go: headers of compounds.  The value read is the count. *)

\* Mutant of ReadCounts: the size is compared with what is left after both.
ReadCountsAfterBoth(w, r) ==
    Then(NextBytes(r, 2 * w), LAMBDA b, rest :
        IF BigEndian(SubSeq(b, 1, w)) > Len(rest) THEN Fail
        ELSE Ok(BigEndian(SubSeq(b, w + 1, 2 * w)), rest))

\* A size and a count of w bytes each.  The size, which counts the count,
\* must not exceed what was left after the size.
ReadCounts(w, r) ==
    Then(NextBytes(r, 2 * w), LAMBDA b, rest :
        IF BigEndian(SubSeq(b, 1, w)) > Len(r) - w THEN Fail
        ELSE Ok(BigEndian(SubSeq(b, w + 1, 2 * w)), rest))

readListHeader(r) ==
    Then(readType(r), LAMBDA c, rest :
        CASE c = TypeCode.List0  -> Ok(0, rest)
          [] c = TypeCode.List8  -> ReadCounts(1, rest)
          [] c = TypeCode.List32 -> ReadCounts(W32, rest)
          [] OTHER               -> Fail)

readArrayHeader(r) ==
    Then(readType(r), LAMBDA c, rest :
        CASE c = TypeCode.Array8  -> ReadCounts(1, rest)
          [] c = TypeCode.Array32 -> ReadCounts(W32, rest)
          [] OTHER                -> Fail)

readMapHeader(r) ==
    Then(readType(r), LAMBDA c, rest :
        CASE c \in {TypeCode.Map8, TypeCode.Map32} ->
                Then(ReadCounts(IF c = TypeCode.Map8 THEN 1 ELSE W32, rest),
                     LAMBDA count, rest2 : IF count > Len(rest2) THEN Fail ELSE Ok(count, rest2))
          [] OTHER -> Fail)

\* The value read is <<type code, number of fields>>.
readCompositeHeader(r) ==
    Then(readType(r), LAMBDA c, rest :
        IF c # 0 THEN Fail
        ELSE Then(readUlong("uint64", rest), LAMBDA code, rest2 :
                 Then(readListHeader(rest2), LAMBDA n, rest3 : Ok(<< code.v % 256, n >>, rest3))))

\* <<type code, length of the descriptor>> of a composite, nothing consumed.
PeekMessageType(r) ==
    CASE Len(r) < 3 \/ r[1] # 0                          -> Fail
      [] Len(r) >= 3 /\ r[1] = 0 /\ r[2] = TypeCode.Ulong0 -> Ok(<< 0, 2 >>, r)
      [] Len(r) >= 3 /\ r[1] = 0 /\ r[2] = TypeCode.SmallUlong -> Ok(<< r[3], 3 >>, r)
      [] Len(r) >= 2 + W64 /\ r[1] = 0 /\ r[2] = TypeCode.Ulong -> Ok(<< r[2 + W64], 2 + W64 >>, r)
      [] OTHER                                           -> Fail

-----------------------------------------------------------------------------
(* types.go: arrays *)

UnmarshalFixedArray(type, a, r) ==
    Then(readArrayHeader(r), LAMBDA length, rest :
        Then(readType(rest), LAMBDA c, rest2 :
            LET size == IF c = a.code THEN a.size ELSE 1
            IN  IF c \in DOMAIN a.fill THEN Ok(Val(type, [i \in 1..length |-> a.fill[c]]), rest2)
                ELSE IF c # a.code /\ (a.small = 0 \/ c # a.small) THEN Fail
                ELSE Then(NextBytes(rest2, length * size), LAMBDA b, rest3 :
                         Ok(Val(type, [i \in 1..length |->
                                GetElement(a.kind, SubSeq(b, (i - 1) * size + 1, i * size))]),
                            rest3))))

ReadElement(width, r) ==
    Then(ReadUint(r, width), LAMBDA size, rest : NextBytes(rest, size))

\* Every element is assumed to take at least two bytes.
UnmarshalVariableArray(type, a, r) ==
    Then(readArrayHeader(r), LAMBDA length, rest :
        IF length * 2 > Len(rest) THEN Fail
        ELSE Then(readType(rest), LAMBDA c, rest2 :
            IF c \notin {a.code8, a.code32} THEN Fail
            ELSE Then(ReadEach(length, LAMBDA i, rest3 :
                                   ReadElement(IF c = a.code8 THEN 1 ELSE W32, rest3), rest2),
                      LAMBDA es, rest3 : Ok(Val(type, es), rest3))))

-----------------------------------------------------------------------------
(* decode.go and types.go: values of a given type *)

\* The value that a variable of this type has before anything is read into it.
ZeroOf(type) ==
    CASE type \in {"string", "Symbol", "ErrCond", "ExpiryPolicy"} -> Val(type, << >>)
      [] type \in {"uint8", "uint16", "uint32", "uint64", "Durability", "Milliseconds",
                   "SASLCode"}                                    -> Val(type, 0)
      [] type \in {"bool", "Role"}                                -> Val(type, FALSE)
      [] OTHER                                                    -> Nil

\* What a pointer type points to.
Elem ==
    [x \in {"*uint16", "*uint32", "*string", "*Symbol", "*time", "*Source", "*Target", "*Error",
            "*SenderSettleMode", "*ReceiverSettleMode", "*any"} |->
        CASE x = "*uint16" -> "uint16" [] x = "*uint32" -> "uint32" [] x = "*string" -> "string"
          [] x = "*Symbol" -> "Symbol" [] x = "*time" -> "time"     [] x = "*Source" -> "Source"
          [] x = "*Target" -> "Target" [] x = "*Error" -> "Error"   [] x = "*any" -> "any"
          [] x = "*SenderSettleMode"   -> "SenderSettleMode"
          [] x = "*ReceiverSettleMode" -> "ReceiverSettleMode"]

RECURSIVE Unmarshal(_, _), ReadAny(_)

UnmarshalMilliseconds(r) ==
    Then(readUint(r), LAMBDA n, rest : Ok(Val("Milliseconds", n * TicksPerMs), rest))

UnmarshalExpiryPolicy(r) ==
    Then(Unmarshal("Symbol", r), LAMBDA s, rest :
        IF s.v \in {LinkDetach, SessionEnd, ConnectionClose, Never}
        THEN Ok(Val("ExpiryPolicy", s.v), rest) ELSE Fail)

UnmarshalMultiSymbol(r) ==
    Then(PeekByte(r), LAMBDA c, rest :
        IF c \in {TypeCode.Sym8, TypeCode.Sym32}
        THEN Then(ReadString("Symbol", r), LAMBDA s, rest2 : Ok(Val("MultiSymbol", << s.v >>), rest2))
        ELSE UnmarshalVariableArray("MultiSymbol", arraySymbol, r))

UnmarshalLifetimePolicy(r) ==
    Then(readCompositeHeader(r), LAMBDA h, rest :
        IF h[2] # 0 THEN Fail ELSE Ok(Val("LifetimePolicy", h[1]), rest))

UnmarshalDescribedType(r) ==
    Then(ReadByte(r), LAMBDA b, rest :
        IF b # 0 THEN Fail
        ELSE Then(Unmarshal("any", rest), LAMBDA descriptor, rest2 :
                 Then(Unmarshal("any", rest2), LAMBDA value, rest3 :
                     Ok(Val("DescribedType", << descriptor, value >>), rest3))))

UnmarshalList(r) ==
    Then(readListHeader(r), LAMBDA length, rest :
        IF length > Len(rest) THEN Fail
        ELSE Then(ReadEach(length, LAMBDA i, rest2 : ReadAny(rest2), rest), LAMBDA xs, rest2 : Ok(Val("[]any", xs), rest2)))

SliceOrMap == DOMAIN FixedArrays \cup DOMAIN VariableArrays \cup MapTypes \cup {"[]byte", "[]any"}

ReadKey(type, r) ==
    CASE type \in {"map[string]any", "Unsettled"} -> ReadString("string", r)
      [] type \in {"map[Symbol]any", "Filter"}    -> ReadString("Symbol", r)
      [] type \in {"map[any]any", "Annotations"}  -> ReadAny(r)

ReadMapValue(type, r) ==
    CASE type = "Unsettled" -> Unmarshal("DeliveryState", r)
      [] type = "Filter"    -> Unmarshal("DescribedType", r)
      [] OTHER              -> ReadAny(r)

\* m[pair[1]] = pair[2]
Assign(m, pair) ==
    LET same(i) == m[i][1].t = pair[1].t /\ m[i][1].v = pair[1].v
    IN  IF \E i \in DOMAIN m : same(i) THEN [i \in DOMAIN m |-> IF same(i) THEN pair ELSE m[i]]
        ELSE Append(m, pair)

ReadPair(type, r) ==
    Then(ReadKey(type, r), LAMBDA key, rest :
        Then(ReadMapValue(type, rest), LAMBDA value, rest2 :
            IF type = "map[any]any" /\ key.t \in SliceOrMap THEN Fail
            ELSE Ok(<< key, value >>, rest2)))

\* The loop reads a pair while i < count and adds 2 to i.
UnmarshalMap(type, r) ==
    Then(readMapHeader(r), LAMBDA count, rest :
        Then(ReadEach((count + 1) \div 2, LAMBDA i, rest2 : ReadPair(type, rest2), rest),
             LAMBDA pairs, rest2 : Ok(Val(type, FoldLeft(Assign, << >>, pairs)), rest2)))

\* HandleNull of a field that is null or that was not sent.
HandleNull(f, rest) ==
    CASE f.null = "required" -> Fail
      [] f.null = "none"     -> Ok(ZeroOf(f.type), rest)
      [] f.null = "default"  -> Ok(f.default, rest)

\* Field i of a composite of which count fields were sent.
ReadField(f, i, count, r) ==
    CASE i > count                     -> HandleNull(f, r)
      [] i <= count /\ tryReadNull(r)  -> HandleNull(f, Tail(r))
      [] i <= count /\ ~tryReadNull(r) -> Unmarshal(f.type, r)

UnmarshalComposite(type, r) ==
    Then(readCompositeHeader(r), LAMBDA h, rest :
        IF h[1] # Composites[type].code \/ h[2] > Len(Composites[type].fields) THEN Fail
        ELSE Then(ReadEach(Len(Composites[type].fields), LAMBDA i, rest2 :
                               ReadField(Composites[type].fields[i], i, h[2], rest2), rest),
                  LAMBDA s, rest2 : Ok(Val(type, s), rest2)))

\* A transfer keeps what follows its fields as its payload.
UnmarshalTransfer(r) ==
    Then(UnmarshalComposite("PerformTransfer", r), LAMBDA x, rest :
        Ok([t |-> x.t, v |-> x.v, payload |-> rest], << >>))

UnmarshalDeliveryState(r) ==
    Then(PeekMessageType(r), LAMBDA h, rest :
        LET types == {x \in DeliveryStates : Composites[x].code = h[1]}
        IN  IF types = {} THEN Fail ELSE Unmarshal(CHOOSE x \in types : TRUE, r))

Unmarshal(type, r) ==
    CASE tryReadNull(r)                       -> Ok(ZeroOf(type), Tail(r))
      [] ~tryReadNull(r) /\ type = "any"      -> ReadAny(r)
      [] ~tryReadNull(r) /\ type # "any"      ->
        CASE type \in {"bool", "Role"}        -> readBool(type, r)
          [] type \in {"uint8", "SenderSettleMode", "ReceiverSettleMode", "SASLCode"} ->
                ReadCoded(type, TypeCode.Ubyte, 1, r)
          [] type = "uint16"                  -> ReadCoded(type, TypeCode.Ushort, W16, r)
          [] type \in {"uint32", "Durability"} -> readUint32(type, r)
          [] type = "uint64"                  -> readUlong(type, r)
          [] type = "int8"                    -> AsSigned(ReadCoded(type, TypeCode.Byte, 1, r), 1)
          [] type = "int16"                   -> AsSigned(ReadCoded(type, TypeCode.Short, W16, r), W16)
          [] type = "int32"                   -> readInt32(r)
          [] type = "int64"                   -> readLong(r)
          [] type = "float32"                 -> ReadCoded(type, TypeCode.Float, W32, r)
          [] type = "float64"                 -> ReadCoded(type, TypeCode.Double, W64, r)
          [] type \in {"string", "Symbol", "ErrCond"} -> ReadString(type, r)
          [] type = "[]byte"                  -> readBinary(r)
          [] type = "time"                    -> readTimestamp(r)
          [] type = "UUID"                    -> readUUID(r)
          [] type = "Milliseconds"            -> UnmarshalMilliseconds(r)
          [] type = "ExpiryPolicy"            -> UnmarshalExpiryPolicy(r)
          [] type = "MultiSymbol"             -> UnmarshalMultiSymbol(r)
          [] type = "LifetimePolicy"          -> UnmarshalLifetimePolicy(r)
          [] type = "DescribedType"           -> UnmarshalDescribedType(r)
          [] type = "DeliveryState"           -> UnmarshalDeliveryState(r)
          [] type = "[]any"                   -> UnmarshalList(r)
          [] type \in MapTypes                -> UnmarshalMap(type, r)
          [] type \in DOMAIN FixedArrays      -> UnmarshalFixedArray(type, FixedArrays[type], r)
          [] type \in DOMAIN VariableArrays   -> UnmarshalVariableArray(type, VariableArrays[type], r)
          [] type = "PerformTransfer"         -> UnmarshalTransfer(r)
          [] type \in DOMAIN Composites \ {"PerformTransfer"} -> UnmarshalComposite(type, r)
          [] type \in DOMAIN Elem             -> Unmarshal(Elem[type], r)

-----------------------------------------------------------------------------
(* decode.go: values whose type the bytes announce *)

\* A map all of whose keys are strings is given as a map[string]any.
readAnyMap(r) ==
    Then(UnmarshalMap("map[any]any", r), LAMBDA m, rest :
        IF m.v # << >> /\ \A i \in DOMAIN m.v : m.v[i][1].t \in {"string", "Symbol"}
        THEN Ok(Val("map[string]any", m.v), rest)
        ELSE Ok(m, rest))

readAnyArray(r) ==
    LET index    == IF r[1] = TypeCode.Array8 THEN 4 ELSE 2 + 2 * W32
        codes(a) == ({a.code, a.small} \ {0}) \cup DOMAIN a.fill
        fixed    == {x \in DOMAIN FixedArrays : r[index] \in codes(FixedArrays[x])}
        variable == {x \in DOMAIN VariableArrays :
                        r[index] \in {VariableArrays[x].code8, VariableArrays[x].code32}}
    IN  IF Len(r) < index \/ fixed \cup variable = {} THEN Fail
        ELSE Unmarshal(CHOOSE x \in fixed \cup variable : TRUE, r)

\* The codes that readComposite knows and does not decode.
NotImplementedComposites ==
    (16..24) \cup {40, 41} \cup (64..68) \cup (112..120)

readComposite(r) ==
    LET long  == Len(r) >= 2 /\ r[2] = TypeCode.Ulong
        small == Len(r) >= 2 /\ r[2] = TypeCode.SmallUlong
        code  == CASE small -> r[3] [] long -> BigEndian(SubSeq(r, 3, 2 + W64)) [] OTHER -> 0
        known == {x \in DeliveryStates \cup {"Error"} : Composites[x].code = code}
    IN  CASE Len(r) < 2 \/ (small /\ Len(r) < 3) \/ (long /\ Len(r) < 2 + W64) -> Fail
          [] OTHER ->
                CASE code \in NotImplementedComposites -> Fail
                  [] known # {}                        -> Unmarshal(CHOOSE x \in known : TRUE, r)
                  [] code \in LifetimePolicies         -> UnmarshalLifetimePolicy(r)
                  [] OTHER                             -> UnmarshalDescribedType(r)

\* The scalar, list and string types by the type codes that announce them.
\* Symbols are read as strings.
AnyTypes ==
    [ bool |-> {TypeCode.Bool, TypeCode.BoolTrue, TypeCode.BoolFalse},
      uint8 |-> {TypeCode.Ubyte}, uint16 |-> {TypeCode.Ushort},
      uint32 |-> {TypeCode.Uint, TypeCode.SmallUint, TypeCode.Uint0},
      uint64 |-> {TypeCode.Ulong, TypeCode.SmallUlong, TypeCode.Ulong0},
      int8 |-> {TypeCode.Byte}, int16 |-> {TypeCode.Short},
      int32 |-> {TypeCode.Int, TypeCode.Smallint},
      int64 |-> {TypeCode.Long, TypeCode.Smalllong},
      float32 |-> {TypeCode.Float}, float64 |-> {TypeCode.Double},
      string |-> {TypeCode.Str8, TypeCode.Str32, TypeCode.Sym8, TypeCode.Sym32},
      time |-> {TypeCode.Timestamp}, UUID |-> {TypeCode.UUID} ]

ReadAny(r) ==
    LET scalars == {x \in DOMAIN AnyTypes : r[1] \in AnyTypes[x]}
    IN  CASE tryReadNull(r) -> Ok(Nil, Tail(r))
          [] r = << >>      -> Fail
          [] OTHER ->
                CASE r[1] = 0                                       -> readComposite(r)
                  [] r[1] \in {TypeCode.Vbin8, TypeCode.Vbin32}     -> readBinary(r)
                  [] r[1] \in {TypeCode.Array8, TypeCode.Array32}   -> readAnyArray(r)
                  [] r[1] \in {TypeCode.List0, TypeCode.List8, TypeCode.List32} -> UnmarshalList(r)
                  [] r[1] \in {TypeCode.Map8, TypeCode.Map32}       -> readAnyMap(r)
                  [] scalars # {} -> Unmarshal(CHOOSE x \in scalars : TRUE, r)
                  [] OTHER        -> Fail
=============================================================================
