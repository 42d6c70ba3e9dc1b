---------------------------- MODULE BitmapProofs ----------------------------
(***************************************************************************)
(* The bitmap of internal/bitmap for words of any width: what Next and      *)
(* Remove do to the set of numbers that are taken.                          *)
(***************************************************************************)
EXTENDS Bitmap, WellFoundedInduction, TLAPS

\* A number names one offset of one word.
LEMMA WordAndOffset ==
    ASSUME NEW i \in Nat \ {0}, NEW j \in Nat \ {0}, NEW o \in Full, NEW p \in Full
    PROVE  (i - 1) * Word + o = (j - 1) * Word + p <=> i = j /\ o = p
  <1> DEFINE a == i - 1
             b == j - 1
  <1>1. a \in Nat /\ b \in Nat
    OBVIOUS
  <1>2. a * Word + o = b * Word + p => a = b /\ o = p
    BY <1>1, WordAssumption DEF Full
  <1> QED
    BY <1>2

\* Every number has a word and an offset.
LEMMA WordOfNumber ==
    ASSUME NEW n \in Nat
    PROVE  /\ (n \div Word) + 1 \in Nat \ {0} /\ n % Word \in Full
           /\ n = (((n \div Word) + 1) - 1) * Word + (n % Word)
  <1>1. n \div Word \in Nat /\ n % Word \in Full
    BY WordAssumption DEF Full
  <1>2. n = (n \div Word) * Word + (n % Word)
    BY WordAssumption
  <1> QED
    BY <1>1, <1>2

\* The numbers set are naturals.
LEMMA NumbersInNat ==
    ASSUME NEW bits \in Seq(SUBSET Full)
    PROVE  Numbers(bits) \subseteq Nat
  <1> SUFFICES ASSUME NEW i \in DOMAIN bits, NEW o \in bits[i] PROVE (i - 1) * Word + o \in Nat
    BY DEF Numbers
  <1>1. i - 1 \in Nat /\ o \in Full
    OBVIOUS
  <1> QED
    BY <1>1, WordAssumption DEF Full

\* A number is set if its bit is.
LEMMA NumberIsSet ==
    ASSUME NEW bits \in Seq(SUBSET Full), NEW i \in Nat \ {0}, NEW o \in Full
    PROVE  (i - 1) * Word + o \in Numbers(bits) <=> i \in DOMAIN bits /\ o \in bits[i]
  <1>1. ASSUME NEW j \in DOMAIN bits, NEW p \in bits[j], (i - 1) * Word + o = (j - 1) * Word + p
        PROVE  i = j /\ o = p
    <2>1. j \in Nat \ {0} /\ p \in Full
      OBVIOUS
    <2> QED
      BY <1>1, <2>1, WordAndOffset
  <1> QED
    BY <1>1 DEF Numbers

\* A set of naturals that is not empty has a least element.
LEMMA LeastNatural ==
    ASSUME NEW T \in SUBSET Nat, T # {}
    PROVE  \E x \in T : \A y \in T : x <= y
  <1> DEFINE R == OpToRel(<, Nat)
  <1>1. IsWellFoundedOn(R, Nat)
    BY Zenon, NatLessThanWellFounded
  <1>2. \A x, y \in Nat : << y, x >> \in R <=> y < x
    BY Zenon DEF OpToRel
  <1> HIDE DEF R
  <1>3. PICK x \in T : \A y \in T : ~ (<< y, x >> \in R)
    BY Zenon, <1>1, WFMin
  <1>4. ASSUME NEW y \in T PROVE x <= y
    <2>1. x \in Nat /\ y \in Nat
      BY Zenon
    <2>2. ~(y < x)
      BY Zenon, <1>2, <1>3, <2>1
    <2> QED
      BY <2>1, <2>2
  <1> QED
    BY Zenon, <1>4

\* Remove takes out the number and no other (internal/bitmap, Remove).
THEOREM BitRemoveNumbers ==
    ASSUME NEW bits \in Seq(SUBSET Full), NEW n \in Nat
    PROVE  /\ BitRemove(bits, n) \in Seq(SUBSET Full)
           /\ Numbers(BitRemove(bits, n)) = Numbers(bits) \ {n}
  <1> DEFINE i == (n \div Word) + 1
             o == n % Word
             after == BitRemove(bits, n)
  <1>1. i \in Nat \ {0} /\ o \in Full /\ n = (i - 1) * Word + o
    BY Zenon, WordOfNumber
  <1>2. after = IF i > Len(bits) THEN bits ELSE [bits EXCEPT ![i] = @ \ {o}]
    BY Zenon DEF BitRemove
  <1> HIDE DEF i, o, after
  <1>3. after \in Seq(SUBSET Full) /\ DOMAIN after = DOMAIN bits
    BY <1>1, <1>2
  <1>4. \A j \in DOMAIN bits : after[j] = IF j = i THEN bits[j] \ {o} ELSE bits[j]
    <2>1. CASE i > Len(bits)
      BY <1>1, <1>2, <2>1
    <2>2. CASE ~(i > Len(bits))
      BY Zenon, <1>1, <1>2, <2>2
    <2> QED
      BY Zenon, <2>1, <2>2
  <1>5. \A j \in DOMAIN bits : j \in Nat \ {0}
    OBVIOUS
  <1>6. \A j \in DOMAIN bits : \A p \in bits[j] : p \in Full /\ ((j - 1) * Word + p = n <=> j = i /\ p = o)
    BY <1>1, <1>5, WordAndOffset
  <1>7. ASSUME NEW m \in Numbers(after) PROVE m \in Numbers(bits) \ {n}
    <2>1. PICK j \in DOMAIN after : \E p \in after[j] : m = (j - 1) * Word + p
      BY Zenon DEF Numbers
    <2>2. PICK p \in after[j] : m = (j - 1) * Word + p
      BY Zenon, <2>1
    <2>3. p \in bits[j] /\ ~(j = i /\ p = o) /\ j \in DOMAIN bits
      BY Zenon, <1>3, <1>4
    <2> QED
      BY <1>6, <2>2, <2>3 DEF Numbers
  <1>8. ASSUME NEW m \in Numbers(bits), m # n PROVE m \in Numbers(after)
    <2>1. PICK j \in DOMAIN bits : \E p \in bits[j] : m = (j - 1) * Word + p
      BY Zenon DEF Numbers
    <2>2. PICK p \in bits[j] : m = (j - 1) * Word + p
      BY Zenon, <2>1
    <2>3. p \in after[j] /\ j \in DOMAIN after
      BY Zenon, <1>1, <1>3, <1>4, <1>8, <2>2
    <2> QED
      BY <2>2, <2>3 DEF Numbers
  <1> QED
    BY Zenon, <1>3, <1>7, <1>8 DEF after

\* Numbers are in the order of their words and, in a word, of their offsets.
LEMMA WordOrder ==
    ASSUME NEW i \in Nat \ {0}, NEW j \in Nat \ {0}, NEW o \in Full, NEW p \in Full,
           (j - 1) * Word + p < (i - 1) * Word + o
    PROVE  j < i \/ (j = i /\ p < o)
  <1> DEFINE a == i - 1
             b == j - 1
  <1>1. a \in Nat /\ b \in Nat
    OBVIOUS
  <1>2. b * Word + p < a * Word + o => b < a \/ (b = a /\ p < o)
    BY <1>1, WordAssumption DEF Full
  <1> QED
    BY <1>2

\* The lowest bit of a word that is not full.
LEMMA LowestUnsetIsLowest ==
    ASSUME NEW word \in SUBSET Full, word # Full
    PROVE  /\ LowestUnset(word) \in Full \ word
           /\ \A p \in Full : p < LowestUnset(word) => p \in word
  <1>0. Full \in SUBSET Nat
    BY WordAssumption DEF Full
  <1>1. Full \ word \in SUBSET Nat /\ Full \ word # {}
    BY Zenon, <1>0
  <1>2. \E o \in Full \ word : \A p \in Full \ word : o <= p
    BY Zenon, <1>1, LeastNatural
  <1>3. /\ LowestUnset(word) \in Full \ word
        /\ \A p \in Full \ word : LowestUnset(word) <= p
    BY Zenon, <1>2 DEF LowestUnset
  <1>4. ASSUME NEW p \in Full, p < LowestUnset(word) PROVE p \in word
    BY <1>3, <1>4, WordAssumption DEF Full
  <1> QED
    BY Zenon, <1>3, <1>4

\* Setting one more bit of a word adds its number.
LEMMA SetBitNumbers ==
    ASSUME NEW bits \in Seq(SUBSET Full), NEW i \in DOMAIN bits, NEW o \in Full
    PROVE  /\ [bits EXCEPT ![i] = @ \cup {o}] \in Seq(SUBSET Full)
           /\ Numbers([bits EXCEPT ![i] = @ \cup {o}]) = Numbers(bits) \cup {(i - 1) * Word + o}
  <1> DEFINE after == [bits EXCEPT ![i] = @ \cup {o}]
  <1>1. after \in Seq(SUBSET Full) /\ DOMAIN after = DOMAIN bits
    OBVIOUS
  <1>2. \A j \in DOMAIN bits : after[j] = IF j = i THEN bits[j] \cup {o} ELSE bits[j]
    BY Zenon
  <1> HIDE DEF after
  <1>3. Numbers(after) \subseteq Numbers(bits) \cup {(i - 1) * Word + o}
    <2> SUFFICES ASSUME NEW j \in DOMAIN bits, NEW p \in after[j]
                 PROVE  (j - 1) * Word + p \in Numbers(bits) \cup {(i - 1) * Word + o}
      BY <1>1 DEF Numbers
    <2>1. p \in bits[j] \/ (j = i /\ p = o)
      BY Zenon, <1>2
    <2> QED
      BY <2>1 DEF Numbers
  <1>4. Numbers(bits) \subseteq Numbers(after)
    <2>1. \A j \in DOMAIN bits : \A p \in bits[j] : p \in after[j]
      BY Zenon, <1>2
    <2> QED
      BY <1>1, <2>1 DEF Numbers
  <1>5. (i - 1) * Word + o \in Numbers(after)
    <2>1. o \in after[i] /\ i \in DOMAIN after
      BY Zenon, <1>1, <1>2
    <2> QED
      BY <2>1 DEF Numbers
  <1> QED
    BY Zenon, <1>1, <1>3, <1>4, <1>5 DEF after

\* A word more, with its first bit set, adds its first number.
LEMMA AppendWordNumbers ==
    ASSUME NEW bits \in Seq(SUBSET Full)
    PROVE  /\ Append(bits, {0}) \in Seq(SUBSET Full)
           /\ Numbers(Append(bits, {0})) = Numbers(bits) \cup {Len(bits) * Word}
  <1> DEFINE after == Append(bits, {0})
  <1>0. {0} \in SUBSET Full
    BY WordAssumption DEF Full
  <1>1. /\ after \in Seq(SUBSET Full)
        /\ DOMAIN after = DOMAIN bits \cup {Len(bits) + 1}
        /\ \A j \in DOMAIN bits : after[j] = bits[j]
        /\ after[Len(bits) + 1] = {0}
        /\ Len(bits) \in Nat
    BY <1>0
  <1>2. ((Len(bits) + 1) - 1) * Word + 0 = Len(bits) * Word
    BY WordAssumption
  <1> HIDE DEF after
  <1>3. Numbers(after) \subseteq Numbers(bits) \cup {Len(bits) * Word}
    <2> SUFFICES ASSUME NEW j \in DOMAIN after, NEW p \in after[j]
                 PROVE  (j - 1) * Word + p \in Numbers(bits) \cup {Len(bits) * Word}
      BY DEF Numbers
    <2>1. CASE j \in DOMAIN bits
      BY <1>1, <2>1 DEF Numbers
    <2>2. CASE j = Len(bits) + 1
      BY Zenon, <1>1, <1>2, <2>2
    <2> QED
      BY Zenon, <1>1, <2>1, <2>2
  <1>4. Numbers(bits) \subseteq Numbers(after)
    BY <1>1 DEF Numbers
  <1>5. Len(bits) * Word \in Numbers(after)
    <2>1. 0 \in after[Len(bits) + 1] /\ Len(bits) + 1 \in DOMAIN after
      BY Zenon, <1>1
    <2> QED
      BY <1>2, <2>1 DEF Numbers
  <1> QED
    BY Zenon, <1>1, <1>3, <1>4, <1>5 DEF after

\* The lowest number of the first word that is not full is the lowest that is free.
LEMMA FoundIsLowest ==
    ASSUME NEW bits \in Seq(SUBSET Full), NEW i \in DOMAIN bits, bits[i] # Full,
           \A k \in DOMAIN bits : bits[k] # Full => i <= k
    PROVE  LET found == (i - 1) * Word + LowestUnset(bits[i])
           IN  found \in Nat \ Numbers(bits) /\ 0..(found - 1) \subseteq Numbers(bits)
  <1> DEFINE u == LowestUnset(bits[i])
             found == (i - 1) * Word + u
  <1>1. i \in Nat \ {0} /\ bits[i] \in SUBSET Full
    OBVIOUS
  <1>2. u \in Full \ bits[i] /\ \A p \in Full : p < u => p \in bits[i]
    BY Zenon, <1>1, LowestUnsetIsLowest
  <1> HIDE DEF u
  <1>3. found \in Nat
    BY <1>1, <1>2, WordAssumption DEF Full
  <1>4. found \notin Numbers(bits)
    BY Zenon, <1>1, <1>2, NumberIsSet
  <1>5. ASSUME NEW m \in 0..(found - 1) PROVE m \in Numbers(bits)
    <2> DEFINE j == (m \div Word) + 1
               p == m % Word
    <2>1. m \in Nat /\ m < found
      BY <1>3
    <2>2. j \in Nat \ {0} /\ p \in Full /\ m = (j - 1) * Word + p
      BY Zenon, <2>1, WordOfNumber
    <2> HIDE DEF j, p
    <2>3. j < i \/ (j = i /\ p < u)
      BY Zenon, <1>1, <1>2, <2>1, <2>2, WordOrder
    <2>4. j \in DOMAIN bits /\ p \in bits[j]
      <3>1. CASE j < i
        <4>1. j \in DOMAIN bits
          BY <1>1, <2>2, <3>1
        <4>2. bits[j] = Full
          BY <1>1, <2>2, <3>1, <4>1
        <4> QED
          BY Zenon, <2>2, <4>1, <4>2
      <3>2. CASE j = i /\ p < u
        BY Zenon, <1>2, <2>2, <3>2
      <3> QED
        BY Zenon, <2>3, <3>1, <3>2
    <2> QED
      BY Zenon, <2>2, <2>4, NumberIsSet
  <1> HIDE DEF found
  <1>6. found \in Nat \ Numbers(bits) /\ 0..(found - 1) \subseteq Numbers(bits)
    BY Zenon, <1>3, <1>4, <1>5
  <1> QED
    BY Zenon, <1>6 DEF found, u

\* With every word full, all numbers of the words are taken.
LEMMA FullWords ==
    ASSUME NEW bits \in Seq(SUBSET Full), \A k \in DOMAIN bits : bits[k] = Full
    PROVE  /\ Len(bits) * Word \in Nat \ Numbers(bits)
           /\ 0..(Len(bits) * Word - 1) \subseteq Numbers(bits)
  <1> DEFINE i == Len(bits) + 1
  <1>1. i \in Nat \ {0} /\ i \notin DOMAIN bits /\ 0 \in Full
    BY WordAssumption DEF Full
  <1>2. Len(bits) * Word = (i - 1) * Word + 0 /\ Len(bits) * Word \in Nat
    BY <1>1, WordAssumption
  <1>3. Len(bits) * Word \notin Numbers(bits)
    BY Zenon, <1>1, <1>2, NumberIsSet
  <1>4. ASSUME NEW m \in 0..(Len(bits) * Word - 1) PROVE m \in Numbers(bits)
    <2> DEFINE j == (m \div Word) + 1
               p == m % Word
    <2>1. m \in Nat /\ m < Len(bits) * Word
      BY <1>2
    <2>2. j \in Nat \ {0} /\ p \in Full /\ m = (j - 1) * Word + p
      BY Zenon, <2>1, WordOfNumber
    <2> HIDE DEF i, j, p
    <2>3. j < i \/ (j = i /\ p < 0)
      BY <1>1, <1>2, <2>1, <2>2, WordOrder
    <2>4. j < i
      BY <2>2, <2>3, WordAssumption DEF Full
    <2>5. j \in DOMAIN bits /\ p \in bits[j]
      BY <1>1, <2>2, <2>4 DEF i
    <2> QED
      BY Zenon, <2>2, <2>5, NumberIsSet
  <1> QED
    BY Zenon, <1>2, <1>3, <1>4

\* Next takes the lowest number that is free, and fails without any effect if none
\* is left up to max (internal/bitmap, Next).
THEOREM BitNextNumbers ==
    ASSUME NEW bits \in Seq(SUBSET Full), NEW max \in Nat
    PROVE  LET next == BitNext(bits, max)
           IN  /\ next.bits \in Seq(SUBSET Full)
               /\ next.ok \in BOOLEAN
               /\ next.ok => /\ next.next \in (0..max) \ Numbers(bits)
                             /\ 0..(next.next - 1) \subseteq Numbers(bits)
                             /\ Numbers(next.bits) = Numbers(bits) \cup {next.next}
               /\ ~next.ok => next.bits = bits /\ 0..max \subseteq Numbers(bits)
  <1> DEFINE open == {i \in DOMAIN bits : bits[i] # Full}
             i == CHOOSE j \in open : \A k \in open : j <= k
             u == LowestUnset(bits[i])
             found == (i - 1) * Word + u
             set == [bits EXCEPT ![i] = @ \cup {u}]
             next == BitNext(bits, max)
  <1>1. CASE open # {}
    <2>1. open \in SUBSET Nat
      OBVIOUS
    <2>2. \E j \in open : \A k \in open : j <= k
      BY Zenon, <1>1, <2>1, LeastNatural
    <2>3. i \in open /\ \A k \in open : i <= k
      BY Zenon, <2>2
    <2>4. next = IF found > max THEN [bits |-> bits, next |-> found, ok |-> FALSE]
                 ELSE [bits |-> set, next |-> found, ok |-> TRUE]
      BY Zenon, <1>1 DEF BitNext
    <2> HIDE DEF i
    <2>5. i \in DOMAIN bits /\ bits[i] # Full /\ \A k \in DOMAIN bits : bits[k] # Full => i <= k
      BY Zenon, <2>3
    <2>6. found \in Nat \ Numbers(bits) /\ 0..(found - 1) \subseteq Numbers(bits)
      BY Zenon, <2>5, FoundIsLowest
    <2>7. u \in Full
      BY <2>5, LowestUnsetIsLowest
    <2>8. set \in Seq(SUBSET Full) /\ Numbers(set) = Numbers(bits) \cup {found}
      BY Zenon, <2>5, <2>7, SetBitNumbers
    <2> HIDE DEF found, u, set, next
    <2>9. CASE found > max
      BY <2>4, <2>6, <2>9 DEF next
    <2>10. CASE ~(found > max)
      BY <2>4, <2>6, <2>8, <2>10 DEF next
    <2> QED
      BY Zenon, <2>9, <2>10
  <1>2. CASE open = {}
    <2> DEFINE len == Len(bits) * Word
    <2>1. len \in Nat \ Numbers(bits) /\ 0..(len - 1) \subseteq Numbers(bits)
      BY Zenon, <1>2, FullWords
    <2>2. /\ Append(bits, {0}) \in Seq(SUBSET Full)
          /\ Numbers(Append(bits, {0})) = Numbers(bits) \cup {len}
      BY Zenon, AppendWordNumbers
    <2>3. next = IF len > max THEN [bits |-> bits, next |-> 0, ok |-> FALSE]
                 ELSE [bits |-> Append(bits, {0}), next |-> len, ok |-> TRUE]
      BY Zenon, <1>2 DEF BitNext
    <2> HIDE DEF len, next, open
    <2>4. CASE len > max
      BY <2>1, <2>3, <2>4 DEF next
    <2>5. CASE ~(len > max)
      BY <2>1, <2>2, <2>3, <2>5 DEF next
    <2> QED
      BY Zenon, <2>4, <2>5
  <1> QED
    BY Zenon, <1>1, <1>2
=============================================================================
