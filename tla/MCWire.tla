------------------------------- MODULE MCWire -------------------------------
(***************************************************************************)
(* Wire on frames that between them exercise every field of every          *)
(* performative and section, every type and every encoding of a value.     *)
(***************************************************************************)
EXTENDS Wire

U8(n) == Val("uint8", n)
U16(n) == Val("uint16", n)
U32(n) == Val("uint32", n)
U64(n) == Val("uint64", n)
Bool(b) == Val("bool", b)
Str(s) == Val("string", s)
Sym(s) == Val("Symbol", s)
Bin(s) == Val("[]byte", s)

a == <<97>>
b == <<98>>
Long(n) == [i \in 1..n |-> 97]

\* Values for a field of type any, at the edges of their encodings.
Integers_ ==
    {Val("uint8", n) : n \in {0, 255}} \cup {Val("uint16", n) : n \in {0, MaxUint(W16)}}
    \cup {Val(t, n) : t \in {"uint32", "uint64", "uint"}, n \in {0, 1, 255, 256}}
    \cup {Val("int8", n) : n \in {-128, -1, 127}} \cup {Val("int16", n) : n \in {-128, -1, 127}}
    \cup {Val(t, n) : t \in {"int32", "int64", "int"}, n \in {-129, -128, -1, 0, 127, 128}}
    \cup {U32(MaxUint(W32)), U64(MaxUint(W64)), Val("int32", MaxInt(W32)),
          Val("int32", -MaxInt(W32) - 1), Val("int64", -MaxInt(W64) - 1)}

Scalars ==
    Integers_ \cup
    {Nil, Bool(TRUE), Bool(FALSE), Val("float32", 513), Val("float64", 70000), Str(a), Str(<< >>),
     Str(Long(255)), Str(Long(256)), Sym(a), Sym(Long(256)), Bin(a), Bin(<< >>), Bin(Long(256)),
     Val("time", -1), Val("time", 12340), Val("time", 12345),
     Val("UUID", [i \in 1..16 |-> i]), Val("LifetimePolicy", 43), Val("LifetimePolicy", 46)}

Arrays ==
    {Val("[]int8", <<-128, 127>>), Val("[]uint16", <<0, MaxUint(W16)>>), Val("[]int16", <<-1, 127>>),
     Val("[]uint32", <<0, 255>>), Val("[]uint32", <<0, 256>>), Val("[]int32", <<-128, 127>>),
     Val("[]int32", <<-129, 128>>), Val("[]uint64", <<1>>), Val("[]uint64", <<256>>),
     Val("[]int64", <<-1>>), Val("[]int64", <<-129, 128>>), Val("[]float32", <<513>>),
     Val("[]float64", <<70000>>), Val("[]bool", <<TRUE, FALSE>>), Val("[]string", <<a, Long(2)>>),
     Val("[]string", <<a, Long(256)>>), Val("[]Symbol", <<Long(3), a>>), Val("[]string", << << >> >>),
     Val("[][]byte", <<a, <<0, 255>> >>), Val("[]time", <<-10, 12345>>), Val("ArrayUByte", <<0, 255>>),
     Val("[]UUID", << [i \in 1..16 |-> 255], [i \in 1..16 |-> 0] >>),
     Val("[]string", <<Long(252)>>), Val("[]Symbol", <<Long(253)>>)}

Compounds ==
    {Val("[]any", << >>), Val("[]any", <<Str(a), Nil, U32(0), Val("[]any", <<Sym(b)>>)>>),
     Val("map[string]any", << << Str(a), U32(1) >>, << Str(b), Nil >> >>),
     Val("map[any]any", << << U32(1), Str(a) >>, << Str(b), Bool(TRUE) >> >>),
     Val("map[any]any", << >>), Val("map[Symbol]any", << << Sym(a), Sym(b) >> >>),
     Val("DescribedType", <<Sym(a), Str(b)>>), Val("DescribedType", <<U64(256), Str(b)>>),
     Val("DescribedType", <<U64(1), Val("[]any", <<Nil>>)>>),
     Val("Error", <<Val("ErrCond", a), Str(b), Nil>>), Val("StateAccepted", << >>),
     Val("StateReceived", <<U32(0), U64(7)>>)}

Anys == Scalars \cup Arrays \cup Compounds

-----------------------------------------------------------------------------
(* Structs: every field on its own and every field left out *)

\* Rows are << zero value, set value >> of each field.
Variants(type, rows) ==
    LET zero == [i \in DOMAIN rows |-> rows[i][1]]
        full == [i \in DOMAIN rows |-> rows[i][2]]
    IN  {Val(type, zero), Val(type, full)}
        \cup {Val(type, [zero EXCEPT ![i] = full[i]]) : i \in DOMAIN rows}
        \cup {Val(type, [full EXCEPT ![i] = zero[i]]) : i \in DOMAIN rows}

Set(x) == << Nil, x >>
OrZero(n) == << U32(0), U32(n) >>
OrFalse == << Bool(FALSE), Bool(TRUE) >>
OrEmpty(s) == << Str(<< >>), Str(s) >>
Syms == << Nil, Val("MultiSymbol", <<a, Long(2)>>) >>
Props == << Nil, Val("map[Symbol]any", << << Sym(a), U32(300) >>, << Sym(b), Nil >> >>) >>
Durations == << Val("Milliseconds", 0), Val("Milliseconds", 2567) >>
AnError == Val("Error", <<Val("ErrCond", a), Str(b), Val("map[string]any", << << Str(a), U8(1) >> >>)>>)
AFilter == Val("Filter", << << Sym(a), Val("DescribedType", <<U64(300), Str(b)>>) >> >>)
Notes == Val("Annotations", << << Sym(a), U32(1) >>, << Val("int64", 300), Str(b) >> >>)
Policy == << Val("ExpiryPolicy", << >>), Val("ExpiryPolicy", Never) >>

Sources ==
    Variants("Source", << OrEmpty(a), << Val("Durability", 0), Val("Durability", 2) >>, Policy,
                          OrZero(256), OrFalse, Props, << Sym(<< >>), Sym(a) >>, Set(AFilter),
                          Set(Nil), Syms, Syms >>)

Targets ==
    Variants("Target", << OrEmpty(a), << Val("Durability", 0), Val("Durability", 1) >>, Policy,
                          OrZero(1), OrFalse, Props, Syms >>)

ASource == CHOOSE x \in Sources : \A i \in {1, 3, 10} : x.v[i] \notin {Nil, Str(<< >>)}
ATarget == CHOOSE x \in Targets : x.v[1].v = a /\ x.v[7] # Nil

States ==
    Variants("StateReceived", << OrZero(1), << U64(0), U64(300) >> >>)
    \cup Variants("StateRejected", << Set(AnError) >>)
    \cup Variants("StateModified", << OrFalse, OrFalse, Set(Notes) >>)
    \cup {Val("StateAccepted", << >>), Val("StateReleased", << >>)}

AUnsettled == Val("Unsettled", << << Str(a), Val("StateAccepted", << >>) >>,
                                  << Str(b), Val("StateRejected", <<AnError>>) >> >>)

Opens ==
    Variants("PerformOpen", << OrEmpty(a), OrEmpty(b), << U32(MaxUint(W32)), U32(500) >>,
                               << U16(MaxUint(W16)), U16(5) >>, Durations, Syms, Syms, Syms, Syms,
                               Props >>)

Begins ==
    Variants("PerformBegin", << Set(U16(0)), OrZero(1), OrZero(2), OrZero(300),
                                << U32(MaxUint(W32)), U32(0) >>, Syms, Syms, Props >>)

Attaches ==
    LET rows == << OrEmpty(a), OrZero(7), << Val("Role", FALSE), Val("Role", TRUE) >>,
                   Set(Val("SenderSettleMode", 2)), Set(Val("ReceiverSettleMode", 0)),
                   Set(ASource), Set(ATarget), Set(AUnsettled), OrFalse, OrZero(9),
                   << U64(0), U64(70000) >>, Syms, Syms, Props >>
    IN  Variants("PerformAttach", rows)
        \cup {Val("PerformAttach", [[i \in DOMAIN rows |-> rows[i][1]] EXCEPT ![6] = x]) : x \in Sources}
        \cup {Val("PerformAttach", [[i \in DOMAIN rows |-> rows[i][1]] EXCEPT ![7] = x]) : x \in Targets}

Flows ==
    Variants("PerformFlow", << Set(U32(0)), OrZero(3), OrZero(4), OrZero(5), Set(U32(0)),
                               Set(U32(1)), Set(U32(2)), Set(U32(0)), OrFalse, OrFalse, Props >>)

Dispositions ==
    Variants("PerformDisposition", << << Val("Role", FALSE), Val("Role", TRUE) >>, OrZero(3),
                                      Set(U32(4)), OrFalse, Set(Val("StateReleased", << >>)), OrFalse >>)
    \cup {Val("PerformDisposition", <<Val("Role", TRUE), U32(3), Nil, Bool(TRUE), x, Bool(FALSE)>>) :
             x \in States}

Ends ==
    Variants("PerformDetach", << OrZero(3), OrFalse, Set(AnError) >>)
    \cup Variants("PerformEnd", << Set(AnError) >>) \cup Variants("PerformClose", << Set(AnError) >>)

SASLs ==
    {Val("SASLMechanisms", <<Val("MultiSymbol", <<a, Long(2)>>)>>), Val("SASLChallenge", <<Bin(a)>>),
     Val("SASLOutcome", <<Val("SASLCode", 0), Nil>>), Val("SASLOutcome", <<Val("SASLCode", 1), Bin(b)>>)}

AnyIn(x) ==
    Val("PerformBegin", <<Nil, U32(0), U32(1), U32(2), U32(3), Nil, Nil,
                          Val("map[Symbol]any", << << Sym(a), x >> >>)>>)

Transfer(row, payload) == [t |-> "PerformTransfer", v |-> row, payload |-> payload]

TransferRows ==
    {x.v : x \in Variants("PerformTransfer",
                << OrZero(300), Set(U32(0)), Set(Bin(a)), Set(U32(0)), OrFalse, OrFalse,
                   Set(Val("ReceiverSettleMode", 1)), Set(Val("StateAccepted", << >>)), OrFalse,
                   OrFalse, OrFalse >>)}

Headers ==
    Variants("MessageHeader", << OrFalse, << U8(4), U8(0) >>, Durations, OrFalse, OrZero(1) >>)

MProperties ==
    Variants("MessageProperties",
             << Set(U64(256)), Set(Bin(a)), Set(Str(a)), Set(Str(<< >>)), Set(Str(b)), Set(Sym(a)),
                Set(Sym(b)), Set(Sym(a)), Set(Val("time", 12345)), Set(Val("time", -5)), Set(Str(a)),
                Set(U32(0)), Set(Str(b)) >>)

Messages ==
    {[EmptyMessage EXCEPT !.Header = x] : x \in Headers}
    \cup {[EmptyMessage EXCEPT !.Properties = x, !.Data = <<a>>] : x \in MProperties}
    \cup {[EmptyMessage EXCEPT !.DeliveryAnnotations = Notes, !.Annotations = Notes, !.Footer = Notes],
          [EmptyMessage EXCEPT !.ApplicationProperties = Val("map[string]any", << << Str(a), Nil >> >>),
                               !.Data = << a, << >>, Long(256) >>],
          [EmptyMessage EXCEPT !.Value = Null], [EmptyMessage EXCEPT !.Value = Str(a)],
          [EmptyMessage EXCEPT !.Sequence = << <<Str(a), U32(1)>>, << >>, <<Nil>> >>, !.Footer = Notes]}

ATransfer == CHOOSE x \in TransferRows : x[2] # Nil /\ x[3] # Nil /\ x[4] # Nil

-----------------------------------------------------------------------------
(* Streams *)

End == Item(1, Val("PerformEnd", <<Nil>>), EmptyMessage)

Bodies ==
    Opens \cup Begins \cup Attaches \cup Flows \cup Dispositions \cup Ends \cup SASLs
    \cup {AnyIn(x) : x \in Anys}

Items ==
    {Item(1, x, EmptyMessage) : x \in Bodies}
    \cup {Item(1, Transfer(row, MarshalMessage(EmptyMessage)), EmptyMessage) : row \in TransferRows}
    \cup {Item(1, Transfer(ATransfer, MarshalMessage(m)), m) : m \in Messages}

\* A frame, a keepalive and a frame that is shorter than a header, in large
\* pieces.
OneFrame == {[items |-> << x, Keepalive, End >>, pieces |-> {400}, maxFrameSize |-> 400] : x \in Items}

\* Many short frames in pieces of every kind; frames that cannot be written.
Detach == Item(2, Val("PerformDetach", <<U32(300), Bool(TRUE), Nil>>), EmptyMessage)
TooLarge == Item(1, AnyIn(Str(Long(20))), EmptyMessage)
NotUTF8 == Item(1, AnyIn(Str(<<200>>)), EmptyMessage)

Framing ==
    {[items |-> s, pieces |-> {1, 9, 30}, maxFrameSize |-> 20] :
        s \in {<< Keepalive, Keepalive, Detach, End, Detach, End, Detach, End >>,
               << End, Detach, Keepalive, End, End, Detach, Detach, Keepalive >>,
               << Detach, End, TooLarge, End >>, << End, NotUTF8, Keepalive >>}}

MCStreams == OneFrame \cup Framing

\* Arrays of signed integers, none above 127 and one below -128.
ArrayStreams ==
    {[items |-> << Item(1, AnyIn(x), EmptyMessage) >>, pieces |-> {400}, maxFrameSize |-> 400] :
        x \in {Val("[]int32", <<-129>>), Val("[]int64", <<0, -129>>)}}

=============================================================================
