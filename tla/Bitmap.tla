------------------------------- MODULE Bitmap -------------------------------
(***************************************************************************)
(* The bitmap of internal/bitmap, from which a connection takes its        *)
(* channels and a session its handles.  bits is the slice of words, grown  *)
(* on demand; a word is the set of its offsets that are set.               *)
(***************************************************************************)
EXTENDS Integers, Sequences

CONSTANT Word   \* the bits of a word (64 in the code)

ASSUME WordAssumption == Word \in Nat \ {0}

\* New: nothing allocated.
EmptyBits == << >>

Full == 0..(Word - 1)

\* The offset of the lowest bit that is not set: bits.TrailingZeros64(^v).
LowestUnset(word) ==
    CHOOSE o \in Full \ word : \A p \in Full \ word : o <= p

\* Mutant of BitRemove: the last word is taken for one that does not exist.
BitRemoveShort(bits, n) ==
    LET idx == (n \div Word) + 1
    IN  IF idx >= Len(bits) THEN bits ELSE [bits EXCEPT ![idx] = @ \ {n % Word}]

\* Remove, without effect beyond the slice.
BitRemove(bits, n) ==
    LET idx == (n \div Word) + 1
    IN  IF idx > Len(bits) THEN bits ELSE [bits EXCEPT ![idx] = @ \ {n % Word}]

\* Next: the slice afterwards, the number and whether there is one.
BitNext(bits, max) ==
    LET open  == {i \in DOMAIN bits : bits[i] # Full}
        i     == CHOOSE j \in open : \A k \in open : j <= k
        found == (i - 1) * Word + LowestUnset(bits[i])
    IN  IF open # {}
        THEN IF found > max THEN [bits |-> bits, next |-> found, ok |-> FALSE]
             ELSE [bits |-> [bits EXCEPT ![i] = @ \cup {LowestUnset(bits[i])}],
                   next |-> found, ok |-> TRUE]
        ELSE IF Len(bits) * Word > max THEN [bits |-> bits, next |-> 0, ok |-> FALSE]
        ELSE [bits |-> Append(bits, {0}), next |-> Len(bits) * Word, ok |-> TRUE]

\* The numbers that are set.
Numbers(bits) == UNION {{(i - 1) * Word + o : o \in bits[i]} : i \in DOMAIN bits}
=============================================================================
