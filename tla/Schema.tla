------------------------------- MODULE Schema -------------------------------
(***************************************************************************)
(* The AMQP types go-amqp reads and writes: the type codes, and for every  *)
(* composite (performative, terminus, delivery state, message section) the *)
(* table of its fields, with the rule by which Marshal leaves a field out  *)
(* and the rule by which Unmarshal fills in a field that is absent.        *)
(*                                                                         *)
(* A Go value is a record [t |-> its Go type, v |-> its contents]:         *)
(*   - an integer's v is its value, a float's v is its bits;               *)
(*   - a string's, symbol's or byte slice's v is the sequence of its bytes;*)
(*   - a map's v is the sequence of its <<key, value>> pairs, in the       *)
(*     (arbitrary) order in which a range loop visits them;                *)
(*   - a struct's v is the sequence of its fields;                         *)
(*   - a duration's or an instant's v counts ticks of 1/TicksPerMs ms.     *)
(* A nil pointer, map, slice or interface is Nil.  Bytes are real bytes;   *)
(* only the widths of the wider integers are parameters, because 2^64      *)
(* values cannot be enumerated.                                            *)
(***************************************************************************)
EXTENDS Integers, Sequences

CONSTANTS
    W16,    \* bytes in a 16-bit integer (2 in the code)
    W32,    \* bytes in a 32-bit integer (4 in the code)
    W64     \* bytes in a 64-bit integer (8 in the code)

ASSUME WidthAssumption == /\ W16 \in Nat \ {0} /\ W32 \in Nat \ {0} /\ W64 \in Nat \ {0}
                          /\ W16 <= W32 /\ W32 <= W64

TicksPerMs == 10

MaxUint(w) == 256^w - 1

MaxInt(w) == 256^w \div 2 - 1

Nil == [t |-> "nil", v |-> 0]

Val(type, value) == [t |-> type, v |-> value]

\* The seven-bit letters of the names that the code compares.
SessionEnd == <<115, 101>>

LinkDetach == <<108, 100>>

ConnectionClose == <<99, 99>>

Never == <<110>>

-----------------------------------------------------------------------------
(* Type codes *)

TypeCode ==
    [ Null |-> 64, Bool |-> 86, BoolTrue |-> 65, BoolFalse |-> 66,
      Ubyte |-> 80, Ushort |-> 96, Uint |-> 112, SmallUint |-> 82, Uint0 |-> 67,
      Ulong |-> 128, SmallUlong |-> 83, Ulong0 |-> 68,
      Byte |-> 81, Short |-> 97, Int |-> 113, Smallint |-> 84, Long |-> 129, Smalllong |-> 85,
      Float |-> 114, Double |-> 130, Timestamp |-> 131, UUID |-> 152,
      Vbin8 |-> 160, Vbin32 |-> 176, Str8 |-> 161, Str32 |-> 177, Sym8 |-> 163, Sym32 |-> 179,
      List0 |-> 69, List8 |-> 192, List32 |-> 208, Map8 |-> 193, Map32 |-> 209,
      Array8 |-> 224, Array32 |-> 240,
      DeliveryAnnotations |-> 113, MessageAnnotations |-> 114, ApplicationProperties |-> 116,
      ApplicationData |-> 117, AMQPSequence |-> 118, AMQPValue |-> 119, Footer |-> 120 ]

LifetimePolicies == 43..46

-----------------------------------------------------------------------------
(* Fields of composites *)

(***************************************************************************)
(* Field: its Go type, when Marshal omits it and what Unmarshal does when  *)
(* it is null or missing.  omit is "never", "zero" (nil, empty, zero or    *)
(* false), "nil", "default", "zero or default" or "receiver" (the link is  *)
(* a receiver's).  null is "required" (an error), "none" (the field keeps  *)
(* its zero value) or "default".                                           *)
(***************************************************************************)
Field(type, omit, null, default) ==
    [type |-> type, omit |-> omit, null |-> null, default |-> default]

Required(type) == Field(type, "never", "required", Nil)

Written(type) == Field(type, "never", "none", Nil)

Optional(type) == Field(type, "zero", "none", Nil)

Pointer(type) == Field(type, "nil", "none", Nil)

Default(type, value) == Field(type, "default", "default", Val(type, value))

ExpiryPolicyField ==
    Field("ExpiryPolicy", "zero or default", "default", Val("ExpiryPolicy", SessionEnd))

Composite(code, fields) == [code |-> code, fields |-> fields]

-----------------------------------------------------------------------------
(* frames.go *)

Source ==
    Composite(40, << Optional("string"), Optional("Durability"), ExpiryPolicyField,
                     Optional("uint32"), Optional("bool"), Optional("map[Symbol]any"),
                     Optional("Symbol"), Optional("Filter"), Pointer("*any"),
                     Optional("MultiSymbol"), Optional("MultiSymbol") >>)

Target ==
    Composite(41, << Optional("string"), Optional("Durability"), ExpiryPolicyField,
                     Optional("uint32"), Optional("bool"), Optional("map[Symbol]any"),
                     Optional("MultiSymbol") >>)

PerformOpen ==
    Composite(16, << Required("string"), Optional("string"),
                     Default("uint32", MaxUint(W32)), Default("uint16", MaxUint(W16)),
                     Optional("Milliseconds"), Optional("MultiSymbol"), Optional("MultiSymbol"),
                     Optional("MultiSymbol"), Optional("MultiSymbol"),
                     Optional("map[Symbol]any") >>)

PerformBegin ==
    Composite(17, << Pointer("*uint16"), Required("uint32"), Required("uint32"),
                     Required("uint32"), Default("uint32", MaxUint(W32)),
                     Optional("MultiSymbol"), Optional("MultiSymbol"),
                     Pointer("map[Symbol]any") >>)

PerformAttach ==
    Composite(18, << Required("string"), Required("uint32"), Required("Role"),
                     Pointer("*SenderSettleMode"), Pointer("*ReceiverSettleMode"),
                     Pointer("*Source"), Pointer("*Target"), Optional("Unsettled"),
                     Optional("bool"), Field("uint32", "receiver", "none", Nil),
                     Optional("uint64"), Optional("MultiSymbol"), Optional("MultiSymbol"),
                     Optional("map[Symbol]any") >>)

PerformFlow ==
    Composite(19, << Pointer("*uint32"), Required("uint32"), Required("uint32"),
                     Required("uint32"), Pointer("*uint32"), Pointer("*uint32"),
                     Pointer("*uint32"), Pointer("*uint32"), Optional("bool"),
                     Optional("bool"), Optional("map[Symbol]any") >>)

\* The payload that follows the fields is the composite's tail.
PerformTransfer ==
    Composite(20, << Required("uint32"), Pointer("*uint32"), Optional("[]byte"),
                     Pointer("*uint32"), Optional("bool"), Optional("bool"),
                     Pointer("*ReceiverSettleMode"), Pointer("DeliveryState"),
                     Optional("bool"), Optional("bool"), Optional("bool") >>)

PerformDisposition ==
    Composite(21, << Required("Role"), Required("uint32"), Pointer("*uint32"),
                     Optional("bool"), Pointer("DeliveryState"), Optional("bool") >>)

PerformDetach ==
    Composite(22, << Required("uint32"), Optional("bool"), Pointer("*Error") >>)

PerformEnd ==
    Composite(23, << Pointer("*Error") >>)

PerformClose ==
    Composite(24, << Pointer("*Error") >>)

SASLMechanisms ==
    Composite(64, << Required("MultiSymbol") >>)

SASLInit ==
    Composite(65, << Required("Symbol"), Written("[]byte"), Optional("string") >>)

SASLChallenge ==
    Composite(66, << Required("[]byte") >>)

SASLResponse ==
    Composite(67, << Required("[]byte") >>)

SASLOutcome ==
    Composite(68, << Required("SASLCode"), Optional("[]byte") >>)

-----------------------------------------------------------------------------
(* exported_types.go and message.go *)

Error ==
    Composite(29, << Required("ErrCond"), Optional("string"), Optional("map[string]any") >>)

StateReceived ==
    Composite(35, << Required("uint32"), Required("uint64") >>)

StateAccepted ==
    Composite(36, << >>)

StateRejected ==
    Composite(37, << Pointer("*Error") >>)

StateReleased ==
    Composite(38, << >>)

StateModified ==
    Composite(39, << Optional("bool"), Optional("bool"), Pointer("Annotations") >>)

MessageHeader ==
    Composite(112, << Written("bool"), Default("uint8", 4), Optional("Milliseconds"),
                      Optional("bool"), Optional("uint32") >>)

\* ContentType and ContentEncoding are strings that are written as symbols.
MessageProperties ==
    Composite(115, << Pointer("any"), Optional("[]byte"), Pointer("*string"),
                      Pointer("*string"), Pointer("*string"), Pointer("any"),
                      Pointer("*Symbol"), Pointer("*Symbol"), Pointer("*time"),
                      Pointer("*time"), Pointer("*string"), Pointer("*uint32"),
                      Pointer("*string") >>)

DeliveryStates == {"StateReceived", "StateAccepted", "StateRejected", "StateReleased",
                   "StateModified"}

FrameBodies == {"PerformOpen", "PerformBegin", "PerformAttach", "PerformFlow",
                "PerformTransfer", "PerformDisposition", "PerformDetach", "PerformEnd",
                "PerformClose", "SASLMechanisms", "SASLChallenge", "SASLOutcome"}

Composites ==
    [ Source |-> Source, Target |-> Target, PerformOpen |-> PerformOpen,
      PerformBegin |-> PerformBegin, PerformAttach |-> PerformAttach,
      PerformFlow |-> PerformFlow, PerformTransfer |-> PerformTransfer,
      PerformDisposition |-> PerformDisposition, PerformDetach |-> PerformDetach,
      PerformEnd |-> PerformEnd, PerformClose |-> PerformClose,
      SASLMechanisms |-> SASLMechanisms, SASLInit |-> SASLInit,
      SASLChallenge |-> SASLChallenge, SASLResponse |-> SASLResponse,
      SASLOutcome |-> SASLOutcome, Error |-> Error, StateReceived |-> StateReceived,
      StateAccepted |-> StateAccepted, StateRejected |-> StateRejected,
      StateReleased |-> StateReleased, StateModified |-> StateModified,
      MessageHeader |-> MessageHeader, MessageProperties |-> MessageProperties ]

-----------------------------------------------------------------------------
(* Arrays *)

(***************************************************************************)
(* An array of fixed-size elements: the type code of its elements, their   *)
(* size and their kind; the one-byte code that Marshal uses when no        *)
(* element is larger than smallMax (0: there is none); and the codes whose *)
(* elements take no bytes, with the element each stands for.               *)
(***************************************************************************)
Fixed(code, size, kind) ==
    [code |-> code, size |-> size, kind |-> kind, small |-> 0, smallMax |-> 0, fill |-> << >>]

Compact(code, size, kind, small, smallMax, fill) ==
    [code |-> code, size |-> size, kind |-> kind, small |-> small, smallMax |-> smallMax,
     fill |-> fill]

ArrayUByte == Fixed(TypeCode.Ubyte, 1, "uint")

arrayInt8 == Fixed(TypeCode.Byte, 1, "int")

arrayUint16 == Fixed(TypeCode.Ushort, W16, "uint")

arrayInt16 == Fixed(TypeCode.Short, W16, "int")

arrayUint32 ==
    Compact(TypeCode.Uint, W32, "uint", TypeCode.SmallUint, 255, [c \in {TypeCode.Uint0} |-> 0])

arrayInt32 ==
    Compact(TypeCode.Int, W32, "int", TypeCode.Smallint, 127, << >>)

arrayUint64 ==
    Compact(TypeCode.Ulong, W64, "uint", TypeCode.SmallUlong, 255, [c \in {TypeCode.Ulong0} |-> 0])

arrayInt64 ==
    Compact(TypeCode.Long, W64, "int", TypeCode.Smalllong, 127, << >>)

arrayFloat == Fixed(TypeCode.Float, W32, "uint")

arrayDouble == Fixed(TypeCode.Double, W64, "uint")

arrayBool ==
    Compact(TypeCode.Bool, 1, "bool", 0, 0,
            [c \in {TypeCode.BoolTrue, TypeCode.BoolFalse} |-> c = TypeCode.BoolTrue])

arrayTimestamp == Fixed(TypeCode.Timestamp, W64, "time")

arrayUUID == Fixed(TypeCode.UUID, 16, "bytes")

FixedArrays ==
    [x \in {"ArrayUByte", "[]int8", "[]uint16", "[]int16", "[]uint32", "[]int32", "[]uint64",
            "[]int64", "[]float32", "[]float64", "[]bool", "[]time", "[]UUID"} |->
        CASE x = "ArrayUByte" -> ArrayUByte [] x = "[]int8"    -> arrayInt8
          [] x = "[]uint16"   -> arrayUint16 [] x = "[]int16"  -> arrayInt16
          [] x = "[]uint32"   -> arrayUint32 [] x = "[]int32"  -> arrayInt32
          [] x = "[]uint64"   -> arrayUint64 [] x = "[]int64"  -> arrayInt64
          [] x = "[]float32"  -> arrayFloat  [] x = "[]float64" -> arrayDouble
          [] x = "[]bool"     -> arrayBool   [] x = "[]time"   -> arrayTimestamp
          [] x = "[]UUID"     -> arrayUUID]

(***************************************************************************)
(* An array of strings, symbols or byte slices: the codes for elements     *)
(* with a one-byte and with a four-byte length, and whether the elements   *)
(* must be valid UTF-8.                                                    *)
(***************************************************************************)
arrayString == [code8 |-> TypeCode.Str8, code32 |-> TypeCode.Str32, utf8 |-> TRUE]

arraySymbol == [code8 |-> TypeCode.Sym8, code32 |-> TypeCode.Sym32, utf8 |-> FALSE]

arrayBinary == [code8 |-> TypeCode.Vbin8, code32 |-> TypeCode.Vbin32, utf8 |-> FALSE]

VariableArrays ==
    [x \in {"[]string", "[]Symbol", "[][]byte"} |->
        CASE x = "[]string" -> arrayString
          [] x = "[]Symbol" -> arraySymbol
          [] x = "[][]byte" -> arrayBinary]
=============================================================================
