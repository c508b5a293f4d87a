----------------------------- MODULE DumpsProofs -----------------------------
(***************************************************************************)
(* Proofs about the operators of Cbor (how long a number is when it is     *)
(* written, and that handle_info_bits() reads what tag_aux_out() wrote),   *)
(* and about Dumps, for any objects: the two passes agree, an object that  *)
(* was counted can be written, and fp is given the whole of it.            *)
(*                                                                         *)
(* The argument is that the second pass goes through the same states as    *)
(* the first.  The history variable trail holds those of the first.        *)
(***************************************************************************)
EXTENDS Dumps, SequenceTheorems, FiniteSetTheorems, TLAPS

-----------------------------------------------------------------------------
(* How many bytes a number takes *)

Numeral == Seq(Nat)

(* The first byte and the number after it. *)
LEMMA TagAuxLength ==
  ASSUME NEW t \in Nat, NEW n \in Numeral
  PROVE  /\ TagAuxOut(t, n) \in Numeral
         /\ TagAuxSize(n) \in Nat
         /\ Len(TagAuxOut(t, n)) = TagAuxSize(n)
<1> DEFINE w == Following(InfoBits(n))
<1>0. Len(n) \in Nat /\ \A i \in 1 .. Len(n) : n[i] \in Nat
  BY DEF Numeral
<1>1. Literal(n) \in Nat
  <2>1. CASE n = << >>
    BY <2>1 DEF Literal
  <2>2. CASE n # << >>
    BY <1>0, <2>2 DEF Literal, Numeral
  <2> QED
    BY <2>1, <2>2
<1>2. InfoBits(n) \in Nat /\ w \in {0, 1, 2, 4, 8} /\ TagAuxSize(n) = 1 + w
  <2>1. CASE Tiny(n)
    BY <1>1, <2>1 DEF InfoBits, TagAuxSize, Following, Tiny,
      CBOR_UINT8_FOLLOWS, CBOR_UINT16_FOLLOWS, CBOR_UINT32_FOLLOWS, CBOR_UINT64_FOLLOWS
  <2>2. CASE ~Tiny(n)
    BY <1>0, <2>2 DEF InfoBits, TagAuxSize, Following,
      CBOR_UINT8_FOLLOWS, CBOR_UINT16_FOLLOWS, CBOR_UINT32_FOLLOWS, CBOR_UINT64_FOLLOWS
  <2> QED
    BY <2>1, <2>2
<1>3. Padded(n, w) \in Numeral /\ Len(Padded(n, w)) = w
  <2>1. \A i \in 1 .. w : i > w - Len(n) => i - (w - Len(n)) \in 1 .. Len(n)
    BY <1>0, <1>2
  <2>2. Padded(n, w) \in [1 .. w -> Nat]
    BY <1>0, <2>1 DEF Padded
  <2> QED
    BY <1>2, <2>2 DEF Numeral
<1>4. <<t + InfoBits(n)>> \in Numeral /\ Len(<<t + InfoBits(n)>>) = 1
  BY <1>2 DEF Numeral
<1> HIDE DEF w
<1> QED
  BY <1>2, <1>3, <1>4 DEF TagAuxOut, Numeral, w

LEMMA DigitsType ==
  ASSUME NEW k \in Nat
  PROVE  Digits(k) \in Numeral
<1> DEFINE s == <<k \div 65536, (k \div 256) % 256, k % 256>>
<1>1. s \in Seq(Nat) /\ Len(s) = 3
  OBVIOUS
<1>2. \A i \in 1 .. 4 : SubSeq(s, i, 3) \in Seq(Nat)
  <2> HIDE DEF s
  <2> TAKE i \in 1 .. 4
  <2>1. \A j \in i .. 3 : j \in 1 .. 3
    OBVIOUS
  <2>2. \A j \in i .. 3 : s[j] \in Nat
    BY <1>1, <2>1, ElementOfSeq
  <2> QED
    BY <2>2, SubSeqProperties
<1> QED
  BY <1>2 DEF Digits, Numeral

(* Where the parts of a concatenation are in it. *)
LEMMA ConcatParts ==
  ASSUME NEW s \in Numeral, NEW t \in Numeral
  PROVE  /\ Len(s) \in Nat /\ Len(t) \in Nat /\ Len(s \o t) = Len(s) + Len(t)
         /\ \A i \in 1 .. Len(s) : (s \o t)[i] = s[i]
         /\ \A i \in 1 .. Len(t) : (s \o t)[Len(s) + i] = t[i]
BY DEF Numeral

LEMMA ConcatLength ==
  ASSUME NEW s \in Numeral, NEW t \in Numeral
  PROVE  /\ s \o t \in Numeral /\ Len(s) \in Nat /\ Len(t) \in Nat
         /\ Len(s \o t) = Len(s) + Len(t)
BY DEF Numeral

LEMMA Constants ==
  /\ CBOR_UINT \in Nat /\ CBOR_NEGINT \in Nat /\ CBOR_BYTES \in Nat
  /\ CBOR_TEXT \in Nat /\ CBOR_ARRAY \in Nat /\ CBOR_MAP \in Nat
  /\ CBOR_TAG \in Nat /\ CBOR_7 \in Nat /\ CBOR_UINT64_FOLLOWS \in Nat
  /\ CBOR_NULL \in Nat /\ CBOR_TRUE \in Nat /\ CBOR_FALSE \in Nat
  /\ CBOR_TAG_BIGNUM \in Nat /\ CBOR_TAG_NEGBIGNUM \in Nat
BY DEF CBOR_UINT, CBOR_NEGINT, CBOR_BYTES, CBOR_TEXT, CBOR_ARRAY, CBOR_MAP,
  CBOR_TAG, CBOR_7, CBOR_NULL, CBOR_TRUE, CBOR_FALSE, CBOR_TAG_BIGNUM,
  CBOR_TAG_NEGBIGNUM, CBOR_UINT64_FOLLOWS

-----------------------------------------------------------------------------
(* Reading a number back *)

(* What a number is. *)
LEMMA NumberFacts ==
  ASSUME NEW n \in Number
  PROVE  /\ n \in Numeral /\ Len(n) \in Nat
         /\ \A i \in 1 .. Len(n) : n[i] \in Nat /\ n[i] <= 255
         /\ n # << >> => Len(n) >= 1 /\ n[1] \in Nat /\ n[1] >= 1 /\ n[1] <= 255
         /\ n = << >> <=> Len(n) = 0
<1>1. n \in Seq(Byte) /\ (n # << >> => n[1] # 0)
  BY DEF Number
<1>2. Len(n) \in Nat /\ n \in [1 .. Len(n) -> Byte] /\ (n = << >> <=> Len(n) = 0)
  BY <1>1
<1>3. \A b \in Byte : b \in Nat /\ b <= 255
  BY DEF Byte
<1>4. \A i \in 1 .. Len(n) : n[i] \in Nat /\ n[i] <= 255
  BY <1>2, <1>3
<1>5. n \in Seq(Nat)
  BY <1>2, <1>4
<1>6. n # << >> => Len(n) >= 1 /\ n[1] \in Nat /\ n[1] >= 1 /\ n[1] <= 255
  BY <1>1, <1>2, <1>4
<1> QED
  BY <1>2, <1>4, <1>5, <1>6 DEF Numeral

(* The info bits and how many bytes follow them. *)
LEMMA InfoBitsFacts ==
  ASSUME NEW n \in Number
  PROVE  /\ InfoBits(n) \in 0 .. 27
         /\ Following(InfoBits(n)) \in {0, 1, 2, 4, 8}
         /\ TagAuxSize(n) = 1 + Following(InfoBits(n))
         /\ Tiny(n) => InfoBits(n) = Literal(n) /\ InfoBits(n) <= 23
         /\ ~Tiny(n) => InfoBits(n) >= 24
         /\ ~Tiny(n) /\ Len(n) <= 8 => Len(n) <= Following(InfoBits(n))
<1>0. /\ Len(n) \in Nat /\ \A i \in 1 .. Len(n) : n[i] \in Nat /\ n[i] <= 255
      /\ n # << >> => Len(n) >= 1 /\ n[1] \in Nat /\ n[1] >= 1 /\ n[1] <= 255
      /\ n = << >> <=> Len(n) = 0
  BY NumberFacts
<1> USE DEF CBOR_UINT8_FOLLOWS, CBOR_UINT16_FOLLOWS, CBOR_UINT32_FOLLOWS,
          CBOR_UINT64_FOLLOWS
<1>1. CASE Tiny(n)
  <2>1. Literal(n) \in Nat /\ Literal(n) <= 23
    <3>1. CASE n = << >>
      BY <3>1 DEF Literal
    <3>2. CASE n # << >>
      <4>1. Literal(n) = n[1]
        BY <3>2 DEF Literal
      <4> QED
        BY <1>0, <1>1, <3>2, <4>1 DEF Tiny
    <3> QED
      BY <3>1, <3>2
  <2>2. InfoBits(n) = Literal(n) /\ TagAuxSize(n) = 1
    <3>1. InfoBits(n) = Literal(n)
      BY <1>1 DEF InfoBits, Tiny
    <3>2. TagAuxSize(n) = 1
      BY <1>1 DEF TagAuxSize, Tiny
    <3> QED
      BY <3>1, <3>2
  <2>3. Following(InfoBits(n)) = 0
    BY <2>1, <2>2 DEF Following
  <2> QED
    BY <1>1, <2>1, <2>2, <2>3
<1>2. CASE ~Tiny(n)
  <2>1. CASE Len(n) <= 1
    <3>1. InfoBits(n) = 24 /\ TagAuxSize(n) = 2
      BY <1>0, <1>2, <2>1 DEF InfoBits, TagAuxSize, Tiny
    <3> QED
      BY <1>0, <1>2, <2>1, <3>1 DEF Following
  <2>2. CASE Len(n) = 2
    <3>1. InfoBits(n) = 25 /\ TagAuxSize(n) = 3
      BY <1>0, <1>2, <2>2 DEF InfoBits, TagAuxSize, Tiny
    <3> QED
      BY <1>0, <1>2, <2>2, <3>1 DEF Following
  <2>3. CASE Len(n) = 3 \/ Len(n) = 4
    <3>1. InfoBits(n) = 26 /\ TagAuxSize(n) = 5
      BY <1>0, <1>2, <2>3 DEF InfoBits, TagAuxSize, Tiny
    <3> QED
      BY <1>0, <1>2, <2>3, <3>1 DEF Following
  <2>4. CASE Len(n) > 4
    <3>1. InfoBits(n) = 27 /\ TagAuxSize(n) = 9
      BY <1>0, <1>2, <2>4 DEF InfoBits, TagAuxSize, Tiny
    <3> QED
      BY <1>0, <1>2, <2>4, <3>1 DEF Following
  <2>5. Len(n) <= 1 \/ Len(n) = 2 \/ (Len(n) = 3 \/ Len(n) = 4) \/ Len(n) > 4
    <3>1. \A l \in Nat : l <= 1 \/ l = 2 \/ (l = 3 \/ l = 4) \/ l > 4
      OBVIOUS
    <3> QED
      BY <1>0, <3>1, Zenon
  <2> QED
    BY <2>1, <2>2, <2>3, <2>4, <2>5, Zenon
<1> QED
  BY <1>1, <1>2

(* Min() of a set that has a least element. *)
LEMMA MinIs ==
  ASSUME NEW S \in SUBSET Int, NEW m \in S, \A y \in S : m <= y
  PROVE  Min(S) = m
<1>1. \A x \in S : (\A y \in S : x <= y) => x = m
  OBVIOUS
<1> QED
  BY <1>1 DEF Min

(* Zeros in front of a number change nothing. *)
LEMMA StrippedPadded ==
  ASSUME NEW n \in Number, NEW w \in Nat, Len(n) <= w
  PROVE  Stripped(Padded(n, w)) = n
<1>0. /\ Len(n) \in Nat /\ \A i \in 1 .. Len(n) : n[i] \in Nat /\ n[i] <= 255
      /\ n # << >> => Len(n) >= 1 /\ n[1] \in Nat /\ n[1] >= 1 /\ n[1] <= 255
      /\ n = << >> <=> Len(n) = 0
  BY NumberFacts
<1> DEFINE s == Padded(n, w)
           d == w - Len(n)
           digits == {i \in DOMAIN s : s[i] # 0}
<1>1. d \in Nat /\ DOMAIN s = 1 .. w
      /\ \A i \in 1 .. w : s[i] = IF i > d THEN n[i - d] ELSE 0
  BY DEF Padded
<1>2. s \in Seq(Nat) /\ Len(s) = w
  <2>1. \A i \in 1 .. w : i > d => i - d \in 1 .. Len(n)
    BY <1>1
  <2>2. ASSUME NEW i \in 1 .. w PROVE s[i] \in Nat
    <3>1. CASE i > d
      <4>1. s[i] = n[i - d]
        BY <1>1, <3>1
      <4> QED
        BY <1>0, <2>1, <3>1, <4>1
    <3>2. CASE ~(i > d)
      BY <1>1, <3>2
    <3> QED
      BY <3>1, <3>2
  <2>3. s = [i \in 1 .. w |-> s[i]]
    BY DEF Padded
  <2> HIDE DEF s
  <2> QED
    BY <2>2, <2>3
<1>3. CASE n = << >>
  <2>1. digits = {}
    BY <1>1, <1>3
  <2> QED
    BY <1>3, <2>1 DEF Stripped
<1>4. CASE n # << >>
  <2>1. d + 1 \in digits
    <3>1. d + 1 \in 1 .. w /\ (d + 1) - d = 1
      BY <1>0, <1>1, <1>4
    <3>2. s[d + 1] = n[1]
      BY <1>1, <3>1
    <3> QED
      BY <1>0, <1>1, <1>4, <3>1, <3>2
  <2>2. \A i \in digits : d + 1 <= i
    BY <1>1
  <2>3. digits \in SUBSET Int
    BY <1>1
  <2>4. Min(digits) = d + 1
    <3> HIDE DEF digits, d
    <3> QED
      BY <2>1, <2>2, <2>3, MinIs
  <2>5. Stripped(s) = SubSeq(s, d + 1, w)
    BY <1>2, <2>1, <2>4 DEF Stripped
  <2>6. n \in Seq(Nat)
    BY NumberFacts DEF Numeral
  <2>7. SubSeq(s, d + 1, w) \in Seq(Nat) /\ Len(SubSeq(s, d + 1, w)) = Len(n)
        /\ \A i \in 1 .. Len(n) : SubSeq(s, d + 1, w)[i] = s[d + i]
    <3>1. w = d + Len(n) /\ d + 1 \in Int /\ w \in Int /\ d \in Nat
      BY <1>0, <1>1
    <3>2. \A i \in d + 1 .. w : s[i] \in Nat
      BY <1>2, <3>1
    <3> HIDE DEF s, d
    <3>3. /\ SubSeq(s, d + 1, w) \in Seq(Nat)
          /\ Len(SubSeq(s, d + 1, w)) = IF d + 1 <= w THEN w - (d + 1) + 1 ELSE 0
          /\ \A i \in 1 .. w - (d + 1) + 1 : SubSeq(s, d + 1, w)[i] = s[d + 1 + i - 1]
      BY <3>1, <3>2, SubSeqProperties
    <3> QED
      BY <1>0, <3>1, <3>3
  <2>8. \A i \in 1 .. Len(n) : s[d + i] = n[i]
    <3> TAKE i \in 1 .. Len(n)
    <3>1. d + i \in 1 .. w /\ d + i > d /\ (d + i) - d = i
      BY <1>1
    <3> HIDE DEF s, d
    <3> QED
      BY <1>1, <3>1
  <2>9. SubSeq(s, d + 1, w) = n
    <3> HIDE DEF s, d
    <3> QED
      BY <2>6, <2>7, <2>8, SeqEqual
  <2> QED
    BY <2>5, <2>9
<1> QED
  BY <1>3, <1>4

(* A number has none.                                                      *)
LEMMA StrippedNumber ==
  ASSUME NEW n \in Number
  PROVE  Stripped(n) = n
<1>1. Len(n) \in Nat /\ n \in Seq(Nat)
  BY NumberFacts DEF Numeral
<1>2. Padded(n, Len(n)) = n
  <2>1. Padded(n, Len(n)) = [i \in 1 .. Len(n) |-> n[i]]
    BY <1>1 DEF Padded
  <2> QED
    BY <1>1, <2>1
<1> QED
  BY <1>1, <1>2, StrippedPadded

(* What is left of three digits without the first of them. *)
LEMMA TripleEnds ==
  ASSUME NEW a \in Nat, NEW b \in Nat, NEW c \in Nat
  PROVE  /\ SubSeq(<<a, b, c>>, 4, 3) = << >>
         /\ SubSeq(<<a, b, c>>, 3, 3) = <<c>>
         /\ SubSeq(<<a, b, c>>, 2, 3) = <<b, c>>
         /\ SubSeq(<<a, b, c>>, 1, 3) = <<a, b, c>>
<1> DEFINE s == <<a, b, c>>
<1>1. s \in Seq(Nat) /\ Len(s) = 3 /\ s[1] = a /\ s[2] = b /\ s[3] = c
  OBVIOUS
<1> HIDE DEF s
<1>2. \A i \in 1 .. 4 : SubSeq(s, i, 3) \in Seq(Nat) /\ Len(SubSeq(s, i, 3)) = 4 - i
  BY <1>1
<1>3. SubSeq(s, 4, 3) = << >>
  BY <1>2
<1>4. SubSeq(s, 3, 3)[1] = c /\ SubSeq(s, 2, 3)[1] = b /\ SubSeq(s, 2, 3)[2] = c
      /\ SubSeq(s, 1, 3) = s
  BY <1>1
<1>5. SubSeq(s, 3, 3) = <<c>>
  <2> DEFINE t == SubSeq(s, 3, 3)
  <2>1. t \in Seq(Nat) /\ Len(t) = 1 /\ t[1] = c
    BY <1>2, <1>4
  <2> HIDE DEF t
  <2>2. t = <<c>>
    BY <2>1
  <2> QED
    BY <2>2 DEF t
<1>6. SubSeq(s, 2, 3) = <<b, c>>
  <2> DEFINE t == SubSeq(s, 2, 3)
  <2>1. t \in Seq(Nat) /\ Len(t) = 2 /\ t[1] = b /\ t[2] = c
    BY <1>2, <1>4
  <2> HIDE DEF t
  <2>2. t = <<b, c>>
    BY <2>1
  <2> QED
    BY <2>2 DEF t
<1> QED
  BY <1>3, <1>4, <1>5, <1>6 DEF s

(* A small number is its one digit.                                        *)
LEMMA DigitOfInfo ==
  ASSUME NEW k \in 1 .. 23
  PROVE  Digits(k) = <<k>>
<1>1. Digits(k) = SubSeq(<<k \div 65536, (k \div 256) % 256, k % 256>>, 3, 3)
  BY DEF Digits
<1>2. k \div 65536 \in Nat /\ (k \div 256) % 256 \in Nat /\ k % 256 = k
  OBVIOUS
<1> QED
  BY <1>1, <1>2, TripleEnds

(* A number that fits the info bits. *)
LEMMA DigitsOfLiteral ==
  ASSUME NEW n \in Number, Tiny(n)
  PROVE  Digits(Literal(n)) = n
<1>0. /\ Len(n) \in Nat /\ \A i \in 1 .. Len(n) : n[i] \in Nat /\ n[i] <= 255
      /\ n # << >> => Len(n) >= 1 /\ n[1] \in Nat /\ n[1] >= 1 /\ n[1] <= 255
      /\ n = << >> <=> Len(n) = 0
  BY NumberFacts
<1>1. CASE n = << >>
  <2>1. Literal(n) = 0
    BY <1>1 DEF Literal
  <2>2. SubSeq(<<0 \div 65536, (0 \div 256) % 256, 0 % 256>>, 4, 3) = << >>
    OBVIOUS
  <2> QED
    BY <1>1, <2>1, <2>2 DEF Digits
<1>2. CASE n # << >>
  <2>1. Len(n) = 1 /\ n[1] \in Nat /\ n[1] >= 1 /\ n[1] <= 23 /\ Literal(n) = n[1]
    BY <1>0, <1>2 DEF Tiny, Literal
  <2>2. n = <<n[1]>>
    BY <2>1, NumberFacts DEF Numeral
  <2> QED
    BY <2>1, <2>2, DigitOfInfo
<1> QED
  BY <1>1, <1>2

(* handle_info_bits() of what tag_aux_out() writes of a number of at most  *)
(* 64 bits is that number.                                                 *)
LEMMA AuxReadsBack ==
  ASSUME NEW n \in Number, Len(n) <= 8
  PROVE  HandleInfoBits(InfoBits(n), Padded(n, Following(InfoBits(n)))) = n
<1>1. CASE Tiny(n)
  BY <1>1, InfoBitsFacts, DigitsOfLiteral DEF HandleInfoBits
<1>2. CASE ~Tiny(n)
  <2>1. ~(InfoBits(n) <= 23) /\ Len(n) <= Following(InfoBits(n))
        /\ Following(InfoBits(n)) \in Nat
    BY <1>2, InfoBitsFacts
  <2> QED
    BY <2>1, StrippedPadded DEF HandleInfoBits
<1> QED
  BY <1>1, <1>2

(* The types of items: what the upper three bits of a first byte may be.   *)
MajorTypes ==
  {CBOR_UINT, CBOR_NEGINT, CBOR_BYTES, CBOR_TEXT, CBOR_ARRAY, CBOR_MAP,
   CBOR_TAG, CBOR_7}

(* A first byte is its type and its info bits.                             *)
LEMMA FirstByte ==
  ASSUME NEW t \in MajorTypes, NEW info \in 0 .. 31
  PROVE  (t + info) % 32 = info /\ (t + info) - info = t /\ t + info \in Nat
BY DEF MajorTypes, CBOR_UINT, CBOR_NEGINT, CBOR_BYTES, CBOR_TEXT, CBOR_ARRAY,
  CBOR_MAP, CBOR_TAG, CBOR_7

(* The number that tag_aux_out() writes, in all its bytes.                 *)
LEMMA PaddedType ==
  ASSUME NEW n \in Number
  PROVE  /\ Padded(n, Following(InfoBits(n))) \in Numeral
         /\ Len(Padded(n, Following(InfoBits(n)))) = Following(InfoBits(n))
<1> DEFINE w == Following(InfoBits(n))
           s == Padded(n, w)
<1>0. Len(n) \in Nat /\ \A i \in 1 .. Len(n) : n[i] \in Nat
  BY NumberFacts
<1>1. w \in Nat
  BY InfoBitsFacts
<1> HIDE DEF w
<1>2. ASSUME NEW i \in 1 .. w
      PROVE  (IF i > w - Len(n) THEN n[i - (w - Len(n))] ELSE 0) \in Nat
  <2>1. CASE i > w - Len(n)
    <3>1. i - (w - Len(n)) \in 1 .. Len(n)
      BY <1>0, <1>1, <2>1
    <3> QED
      BY <1>0, <2>1, <3>1
  <2>2. CASE ~(i > w - Len(n))
    BY <2>2
  <2> QED
    BY <2>1, <2>2
<1>3. Padded(n, w) \in [1 .. w -> Nat]
  BY <1>2 DEF Padded
<1> QED
  BY <1>1, <1>3 DEF Numeral, w

-----------------------------------------------------------------------------
(* Lengths *)

(* A length is a number of at most three bytes, and Small() reads it.      *)
LEMMA DigitsOfLength ==
  ASSUME NEW k \in Lengths
  PROVE  Digits(k) \in Number /\ Len(Digits(k)) <= 3 /\ Small(Digits(k)) = k
<1> DEFINE a == k \div 65536
           b == (k \div 256) % 256
           c == k % 256
           s == <<a, b, c>>
           small == 65536 * a + 256 * b + c
<1>0. k \in Nat /\ k \div 65536 <= 255
  BY DEF Lengths
<1>1. a \in 0 .. 255 /\ b \in 0 .. 255 /\ c \in 0 .. 255
  BY <1>0
<1>2. k = 65536 * a + 256 * b + c
  BY <1>0
<1>2a. k = small
  BY <1>2
<1>2b. a = 0 => k = 256 * b + c
  BY <1>1, <1>2
<1>3. /\ k = 0 => Digits(k) = SubSeq(s, 4, 3)
      /\ k # 0 /\ k < 256 => Digits(k) = SubSeq(s, 3, 3)
      /\ k >= 256 /\ k < 65536 => Digits(k) = SubSeq(s, 2, 3)
      /\ k >= 65536 => Digits(k) = SubSeq(s, 1, 3)
  BY <1>0 DEF Digits
<1> HIDE DEF a, b, c
<1>4. /\ SubSeq(s, 4, 3) = << >> /\ SubSeq(s, 3, 3) = <<c>>
      /\ SubSeq(s, 2, 3) = <<b, c>> /\ SubSeq(s, 1, 3) = <<a, b, c>>
  BY <1>1, TripleEnds
<1>5. CASE k = 0
  BY <1>3, <1>4, <1>5 DEF Number, Small, Literal
<1>6. CASE k # 0 /\ k < 256
  <2>1. a = 0 /\ b = 0 /\ c = k
    BY <1>0, <1>1, <1>2, <1>6
  <2>2. Digits(k) = <<c>>
    BY <1>3, <1>4, <1>6
  <2>3. <<c>> \in Number
    BY <1>1, <1>6, <2>1 DEF Number, Byte
  <2> QED
    BY <2>1, <2>2, <2>3 DEF Small, Literal
<1>7. CASE k >= 256 /\ k < 65536
  <2>1. a = 0 /\ b # 0
    BY <1>0, <1>1, <1>2, <1>7
  <2>2. Digits(k) = <<b, c>>
    BY <1>3, <1>4, <1>7
  <2>3. <<b, c>> \in Number
    BY <1>1, <2>1 DEF Number, Byte
  <2>4. Small(<<b, c>>) = 256 * b + c
    BY DEF Small
  <2> QED
    BY <1>2b, <2>1, <2>2, <2>3, <2>4
<1>8. CASE k >= 65536
  <2>1. a # 0
    BY <1>0, <1>1, <1>2, <1>8
  <2>2. Digits(k) = <<a, b, c>>
    BY <1>3, <1>4, <1>8
  <2>3. <<a, b, c>> \in Number
    BY <1>1, <2>1 DEF Number, Byte
  <2>4. Small(<<a, b, c>>) = small /\ Len(<<a, b, c>>) <= 3
    BY DEF Small
  <2> HIDE DEF s, small
  <2>5. Digits(k) \in Number /\ Len(Digits(k)) <= 3
    BY <2>2, <2>3, <2>4
  <2>6. Small(Digits(k)) = k
    BY <1>2a, <2>2, <2>4, Zenon
  <2> QED
    BY <2>5, <2>6
<1> QED
  BY <1>0, <1>5, <1>6, <1>7, <1>8

(* Half a length is a length.                                              *)
LEMMA HalfLength ==
  ASSUME NEW m \in Lengths, m % 2 = 0
  PROVE  m \div 2 \in Lengths /\ 2 * (m \div 2) = m
<1> DEFINE k == m \div 2
<1>1. m \in Nat /\ m \div 65536 <= 255
  BY DEF Lengths
<1>2. k \in Nat /\ 2 * k = m
  BY <1>1
<1>3. k \div 65536 <= 255
  BY <1>1, <1>2
<1> QED
  BY <1>2, <1>3 DEF Lengths

-----------------------------------------------------------------------------
(* The elements of the lists, and what the trail records *)

Elements == Objects \cup {EndOfKeys}

Walks == [todo : Seq(Elements), pos : Nat]

-----------------------------------------------------------------------------
(* How many bytes an object takes *)

LEMMA LowBytesType ==
  ASSUME NEW n \in Numeral
  PROVE  LowBytes(n) \in Numeral
BY DEF LowBytes, Numeral, BigBytes

LEMMA ObjectType ==
  ASSUME NEW x \in Objects
  PROVE  /\ x.number \in Numeral /\ x.data \in Numeral
         /\ x.items \in Seq(Objects)
         /\ x.kind # "end" /\ x # EndOfKeys
         /\ x.kind = "float" => Len(x.data) = 8
         /\ x.kind = "dict" => Sorted(x) \in Seq(Objects)
         /\ Digits(Len(x.data)) \in Numeral /\ Digits(Len(x.items)) \in Numeral
         /\ NumberOf(x) \in Numeral
<1>1. /\ x.number \in Number /\ x.data \in Seq(Byte) /\ x.items \in Seq(Objects)
      /\ x.kind = "float" => Len(x.data) = 8
      /\ x.kind = "dict" => Sorted(x) \in Seq(Objects)
  BY ObjectsAssumption
<1>2. x.kind # "end"
  BY ObjectsAssumption
<1>3. x # EndOfKeys
  BY <1>2 DEF EndOfKeys, Object
<1>4. ASSUME NEW s \in Seq(Byte) PROVE s \in Seq(Nat)
  <2>1. Len(s) \in Nat /\ s \in [1 .. Len(s) -> Byte]
    OBVIOUS
  <2>0. \A b \in Byte : b \in Nat
    BY DEF Byte
  <2>2. \A i \in 1 .. Len(s) : s[i] \in Nat
    BY <2>0, <2>1
  <2> QED
    BY <2>1, <2>2
<1>5. x.number \in Seq(Byte)
  BY <1>1 DEF Number
<1>6. Len(x.items) \in Nat /\ Len(x.data) \in Nat
  BY <1>1
<1>7. Len(x.items) \div 2 \in Nat
  <2>1. \A n \in Nat : n \div 2 \in Nat
    OBVIOUS
  <2> QED
    BY <1>6, <2>1
<1> QED
  BY <1>1, <1>2, <1>3, <1>4, <1>5, <1>6, <1>7, DigitsType DEF Numeral, NumberOf

(* What is counted is what is written. *)
LEMMA SizeIsLength ==
  ASSUME NEW x \in Objects
  PROVE  /\ BytesOf(x) \in Numeral
         /\ SizeOf(x) \in Nat
         /\ Len(BytesOf(x)) = SizeOf(x)
<1> DEFINE Agree == /\ BytesOf(x) \in Numeral /\ SizeOf(x) \in Nat
                    /\ Len(BytesOf(x)) = SizeOf(x)
<1> USE ObjectType, Constants
<1>0. x.kind \in {"none", "true", "false", "int", "float", "bytes", "text",
                 "list", "tuple", "dict", "tag", "other"}
      /\ x.sign \in {"+", "-", "?"}
  BY ObjectsAssumption
<1>1. CASE x.kind \in {"none", "true", "false"}
  <2>1. SizeOf(x) = 1
    BY <1>1 DEF SizeOf, IsBignum
  <2>2. PICK b \in Nat : BytesOf(x) = <<b>>
    BY <1>1 DEF BytesOf, IsBignum
  <2> QED
    BY <2>1, <2>2 DEF Numeral
<1>2. CASE x.kind = "int" /\ ~IsBignum(x)
  <2>1. PICK t \in Nat : BytesOf(x) = TagAuxOut(t, x.number)
    BY <1>2 DEF BytesOf
  <2>2. SizeOf(x) = TagAuxSize(x.number)
    BY <1>2 DEF SizeOf
  <2> QED
    BY <2>1, <2>2, TagAuxLength
<1>3. CASE IsBignum(x)
  <2>1. x.kind = "int"
    BY <1>3 DEF IsBignum
  <2>2. LowBytes(x.number) \in Numeral
    BY LowBytesType
  <2> DEFINE b == CBOR_TAG + (IF x.sign = "+" THEN CBOR_TAG_BIGNUM
                              ELSE CBOR_TAG_NEGBIGNUM)
             n == LowBytes(x.number)
             s == <<b, CBOR_BYTES + Len(n)>>
  <2>3. BytesOf(x) = s \o n
    BY <1>3, <2>1 DEF BytesOf
  <2>4. SizeOf(x) = 2 + Len(n)
    BY <1>3, <2>1 DEF SizeOf
  <2>5. Len(n) \in Nat
    BY <2>2 DEF Numeral
  <2>6. b \in Nat /\ CBOR_BYTES + Len(n) \in Nat
    BY <2>5
  <2>7. s \in Numeral /\ Len(s) = 2
    <3> HIDE DEF b
    <3> QED
      BY <2>6 DEF Numeral
  <2>9. n \in Numeral
    BY <2>2
  <2> HIDE DEF n, s
  <2>8. s \o n \in Numeral /\ Len(s \o n) = 2 + Len(n)
    BY <2>7, <2>9, ConcatLength
  <2> QED
    BY <2>3, <2>4, <2>5, <2>8
<1>4. CASE x.kind = "float"
  <2>1. BytesOf(x) = <<CBOR_7 + CBOR_UINT64_FOLLOWS>> \o x.data
    BY <1>4 DEF BytesOf, IsBignum
  <2>2. SizeOf(x) = 9
    BY <1>4 DEF SizeOf, IsBignum
  <2> DEFINE s == <<CBOR_7 + CBOR_UINT64_FOLLOWS>>
  <2>3. s \in Numeral /\ Len(s) = 1
    BY DEF Numeral
  <2>4. BytesOf(x) = s \o x.data
    BY <2>1
  <2> HIDE DEF s
  <2>5. s \o x.data \in Numeral /\ Len(s \o x.data) = 1 + Len(x.data)
    BY <2>3, ConcatLength
  <2>6. Len(x.data) = 8
    BY <1>4
  <2>7. s \o x.data \in Numeral /\ Len(s \o x.data) = 9 /\ 9 \in Nat
    BY <2>5, <2>6
  <2> QED
    BY <2>2, <2>4, <2>7, Zenon
<1>5. CASE x.kind \in {"bytes", "text"}
  <2>1. PICK t \in Nat : BytesOf(x) = TagAuxOut(t, Digits(Len(x.data))) \o x.data
    BY <1>5 DEF BytesOf, IsBignum
  <2>2. SizeOf(x) = TagAuxSize(Digits(Len(x.data))) + Len(x.data)
    BY <1>5 DEF SizeOf, IsBignum
  <2>3. /\ TagAuxOut(t, Digits(Len(x.data))) \in Numeral
        /\ Len(TagAuxOut(t, Digits(Len(x.data)))) = TagAuxSize(Digits(Len(x.data)))
        /\ TagAuxSize(Digits(Len(x.data))) \in Nat
    BY TagAuxLength
  <2> DEFINE s == TagAuxOut(t, Digits(Len(x.data)))
             w == TagAuxSize(Digits(Len(x.data)))
  <2>4. BytesOf(x) = s \o x.data /\ SizeOf(x) = w + Len(x.data)
    BY <2>1, <2>2
  <2>5. s \in Numeral /\ Len(s) = w /\ w \in Nat /\ x.data \in Numeral
    BY <2>3
  <2> HIDE DEF s, w
  <2>6. /\ s \o x.data \in Numeral /\ Len(s \o x.data) = w + Len(x.data)
        /\ Len(x.data) \in Nat
    BY <2>5, ConcatLength
  <2>7. w + Len(x.data) \in Nat
    BY <2>5, <2>6
  <2> QED
    BY <2>4, <2>6, <2>7, Zenon
<1>6. CASE x.kind \in {"list", "tuple"}
  <2>1. BytesOf(x) = TagAuxOut(CBOR_ARRAY, Digits(Len(x.items)))
    BY <1>6 DEF BytesOf, IsBignum
  <2>2. SizeOf(x) = TagAuxSize(Digits(Len(x.items)))
    BY <1>6 DEF SizeOf, IsBignum
  <2> QED
    BY <2>1, <2>2, TagAuxLength
<1>7. CASE x.kind = "dict"
  <2>1. BytesOf(x) = TagAuxOut(CBOR_MAP, NumberOf(x)) /\ SizeOf(x) = TagAuxSize(NumberOf(x))
    BY <1>7 DEF BytesOf, SizeOf, IsBignum
  <2> QED
    BY <2>1, TagAuxLength
<1>8. CASE x.kind = "tag" /\ x.sign = "+"
  <2>1. BytesOf(x) = TagAuxOut(CBOR_TAG, x.number) /\ SizeOf(x) = TagAuxSize(x.number)
    BY <1>8 DEF BytesOf, SizeOf, IsBignum
  <2> QED
    BY <2>1, TagAuxLength
<1>9. CASE x.kind = "other" \/ (x.kind = "tag" /\ x.sign # "+")
  <2>1. BytesOf(x) = << >> /\ SizeOf(x) = 0
    BY <1>9 DEF BytesOf, SizeOf, IsBignum
  <2> QED
    BY <2>1 DEF Numeral
<1> QED
  BY <1>0, <1>1, <1>2, <1>3, <1>4, <1>5, <1>6, <1>7, <1>8, <1>9

(* So it is of the end of a list of keys, which takes none.                *)
LEMMA SizeOfElement ==
  ASSUME NEW x \in Elements
  PROVE  /\ BytesOf(x) \in Numeral /\ SizeOf(x) \in Nat
         /\ Len(BytesOf(x)) = SizeOf(x)
<1>1. CASE x = EndOfKeys
  <2>1. x.kind = "end"
    BY <1>1 DEF EndOfKeys, Object
  <2>2. BytesOf(x) = << >> /\ SizeOf(x) = 0
    BY <2>1 DEF BytesOf, SizeOf, IsBignum
  <2> QED
    BY <2>2 DEF Numeral
<1> QED
  BY <1>1, SizeIsLength DEF Elements

LEMMA InsideType ==
  ASSUME NEW x \in Elements
  PROVE  Inside(x) \in Seq(Elements)
<1>1. CASE x = EndOfKeys
  <2>1. x.kind = "end"
    BY <1>1 DEF EndOfKeys, Object
  <2> QED
    BY <2>1 DEF Inside
<1>2. CASE x \in Objects
  <2> USE ObjectType
  <2>1. x.items \in Seq(Elements)
    BY <1>2 DEF Elements
  <2>2. CASE x.kind = "dict"
    <3>1. Sorted(x) \in Seq(Elements)
      BY <1>2, <2>2 DEF Elements
    <3>2. InOrder(x) \in Seq(Elements)
      BY <2>1, <3>1 DEF InOrder
    <3>3. KeyList(x) \in Seq(Elements)
      BY <3>2 DEF KeyList, Elements
    <3> QED
      BY <2>2, <3>3 DEF Inside
  <2>3. CASE x.kind # "dict"
    BY <2>1, <2>3 DEF Inside
  <2> QED
    BY <2>2, <2>3
<1> QED
  BY <1>1, <1>2 DEF Elements

-----------------------------------------------------------------------------
(* Counting what is in a list *)

Occurrences(list, S) == Cardinality({i \in DOMAIN list : list[i] \in S})

LEMMA OccurrencesType ==
  ASSUME NEW T, NEW s \in Seq(T), NEW S
  PROVE  /\ IsFiniteSet({i \in DOMAIN s : s[i] \in S})
         /\ Occurrences(s, S) \in Nat
<1>1. DOMAIN s = 1 .. Len(s) /\ Len(s) \in Nat
  OBVIOUS
<1>2. IsFiniteSet(1 .. Len(s))
  BY <1>1, FS_Interval
<1>3. {i \in DOMAIN s : s[i] \in S} \in SUBSET (1 .. Len(s))
  BY <1>1
<1>4. IsFiniteSet({i \in DOMAIN s : s[i] \in S})
  BY <1>2, <1>3, FS_Subset
<1> QED
  BY <1>4, FS_CardinalityType DEF Occurrences

LEMMA OccurrencesConcat ==
  ASSUME NEW T, NEW s \in Seq(T), NEW t \in Seq(T), NEW S
  PROVE  Occurrences(s \o t, S) = Occurrences(s, S) + Occurrences(t, S)
<1> DEFINE A == {i \in DOMAIN s : s[i] \in S}
           B == {i \in DOMAIN t : t[i] \in S}
           C == {i \in DOMAIN (s \o t) : (s \o t)[i] \in S}
           f == [i \in B |-> i + Len(s)]
           D == {i + Len(s) : i \in B}
<1>1. /\ DOMAIN s = 1 .. Len(s) /\ Len(s) \in Nat
      /\ DOMAIN t = 1 .. Len(t) /\ Len(t) \in Nat
      /\ DOMAIN (s \o t) = 1 .. Len(s) + Len(t)
      /\ \A i \in 1 .. Len(s) : (s \o t)[i] = s[i]
      /\ \A i \in 1 .. Len(t) : (s \o t)[i + Len(s)] = t[i]
  OBVIOUS
<1>2. IsFiniteSet(A) /\ IsFiniteSet(B)
  BY OccurrencesType
<1>3. f \in Bijection(B, D)
  <2>1. \A a, b \in B : f[a] = f[b] => a = b
    BY <1>1
  <2>2. f \in [B -> D] /\ \A d \in D : \E a \in B : f[a] = d
    OBVIOUS
  <2> HIDE DEF f, B, D
  <2> QED
    BY <2>1, <2>2 DEF Bijection, Injection, Surjection, IsInjective
<1>4. IsFiniteSet(D) /\ Cardinality(D) = Cardinality(B)
  <2> HIDE DEF f, B, D
  <2> QED
    BY <1>2, <1>3, FS_Bijection DEF ExistsBijection
<1>5. A \cap D = {}
  BY <1>1
<1>6. C = A \cup D
  <2>1. ASSUME NEW i \in C PROVE i \in A \cup D
    <3>1. CASE i <= Len(s)
      BY <1>1, <3>1
    <3>2. CASE ~(i <= Len(s))
      <4>1. i - Len(s) \in 1 .. Len(t) /\ (i - Len(s)) + Len(s) = i
        BY <1>1, <3>2
      <4>2. t[i - Len(s)] = (s \o t)[i]
        BY <1>1, <4>1
      <4>3. i - Len(s) \in B
        BY <1>1, <4>1, <4>2
      <4> QED
        BY <4>1, <4>3
    <3> QED
      BY <3>1, <3>2
  <2>2. ASSUME NEW i \in A PROVE i \in C
    BY <1>1
  <2>3. ASSUME NEW i \in B PROVE i + Len(s) \in C
    BY <1>1
  <2> QED
    BY <2>1, <2>2, <2>3
<1>7. /\ Cardinality(A \cup D) = Cardinality(A) + Cardinality(D) - Cardinality(A \cap D)
      /\ Cardinality({}) = 0 /\ Cardinality(A) \in Nat /\ Cardinality(D) \in Nat
  <2> HIDE DEF A, D
  <2> QED
    BY <1>2, <1>4, FS_Union, FS_EmptySet, FS_CardinalityType
<1> HIDE DEF A, B, C, D
<1>8. Cardinality(C) = Cardinality(A) + Cardinality(B)
  <2>1. Cardinality(A \cap D) = 0
    BY <1>5, <1>7
  <2>2. Cardinality(A \cup D) = Cardinality(A) + Cardinality(D)
    BY <1>7, <2>1
  <2> QED
    BY <1>4, <1>6, <2>2, Zenon
<1> QED
  BY <1>8 DEF Occurrences, A, B, C

LEMMA OccurrencesOne ==
  ASSUME NEW x, NEW S
  PROVE  Occurrences(<<x>>, S) = (IF x \in S THEN 1 ELSE 0)
<1>1. DOMAIN <<x>> = {1} /\ <<x>>[1] = x
  OBVIOUS
<1>2. {i \in DOMAIN <<x>> : <<x>>[i] \in S} = IF x \in S THEN {1} ELSE {}
  BY <1>1
<1> QED
  BY <1>2, FS_Singleton, FS_EmptySet DEF Occurrences

(* Of a list of which everything or nothing counts. *)
LEMMA OccurrencesAll ==
  ASSUME NEW T, NEW s \in Seq(T), NEW S
  PROVE  /\ T \subseteq S => Occurrences(s, S) = Len(s)
         /\ T \cap S = {} => Occurrences(s, S) = 0
<1>1. DOMAIN s = 1 .. Len(s) /\ Len(s) \in Nat /\ \A i \in 1 .. Len(s) : s[i] \in T
  OBVIOUS
<1>2. T \subseteq S => {i \in DOMAIN s : s[i] \in S} = 1 .. Len(s)
  BY <1>1
<1>3. T \cap S = {} => {i \in DOMAIN s : s[i] \in S} = {}
  BY <1>1
<1>4. Cardinality(1 .. Len(s)) = Len(s)
  <2>1. \A n \in Nat : Cardinality(1 .. n) = n
    <3> TAKE n \in Nat
    <3>1. Cardinality(1 .. n) = IF 1 > n THEN 0 ELSE n - 1 + 1
      BY FS_Interval
    <3> QED
      BY <3>1
  <2> QED
    BY <1>1, <2>1, Zenon
<1> QED
  BY <1>2, <1>3, <1>4, FS_EmptySet DEF Occurrences

(* What one step of inner_dumps() does to the list.                        *)
LEMMA OccurrencesStep ==
  ASSUME NEW s \in Seq(Elements), s # << >>, NEW S
  PROVE  Occurrences(Inside(Head(s)) \o Tail(s), S) =
           Occurrences(Inside(Head(s)), S) + Occurrences(s, S)
             - (IF Head(s) \in S THEN 1 ELSE 0)
<1>1. Head(s) \in Elements /\ Tail(s) \in Seq(Elements) /\ <<Head(s)>> \in Seq(Elements)
  OBVIOUS
<1>2. Inside(Head(s)) \in Seq(Elements)
  BY <1>1, InsideType
<1>3. s = <<Head(s)>> \o Tail(s)
  OBVIOUS
<1>4. Occurrences(s, S) = (IF Head(s) \in S THEN 1 ELSE 0) + Occurrences(Tail(s), S)
  <2>1. Occurrences(<<Head(s)>> \o Tail(s), S) =
          Occurrences(<<Head(s)>>, S) + Occurrences(Tail(s), S)
    BY <1>1, OccurrencesConcat
  <2>2. Occurrences(<<Head(s)>>, S) = IF Head(s) \in S THEN 1 ELSE 0
    BY OccurrencesOne
  <2> QED
    BY <1>3, <2>1, <2>2, Zenon
<1>5. Occurrences(Inside(Head(s)) \o Tail(s), S) =
        Occurrences(Inside(Head(s)), S) + Occurrences(Tail(s), S)
  BY <1>1, <1>2, OccurrencesConcat
<1>6. Occurrences(Tail(s), S) \in Nat /\ Occurrences(Inside(Head(s)), S) \in Nat
  BY <1>1, <1>2, OccurrencesType
<1> QED
  BY <1>4, <1>5, <1>6

-----------------------------------------------------------------------------
(* The invariant *)

Walk == [todo |-> todo, pos |-> pos]

LastWalk == trail[Len(trail)]

(* b is where inner_dumps() has come to, one object after a. *)
Follows(a, b) ==
  /\ a.todo # << >> /\ ~Rejected(Head(a.todo))
  /\ b = [todo |-> Inside(Head(a.todo)) \o Tail(a.todo),
          pos |-> a.pos + SizeOf(Head(a.todo))]

Types ==
  /\ ob \in Objects /\ sort_keys \in BOOLEAN /\ fp \in Sinks
  /\ pass \in {"count", "write", "done", "failed", "raised"}
  /\ todo \in Seq(Elements) /\ pos \in Nat /\ outlen \in Nat /\ out \in Numeral
  /\ trail \in Seq(Walks)

(* The trail is one of inner_dumps(), and pos never falls along it. *)
TrailInv ==
  /\ Len(trail) >= 1 /\ trail[1] = [todo |-> <<ob>>, pos |-> 0]
  /\ \A k \in 1 .. Len(trail) - 1 : Follows(trail[k], trail[k + 1])
  /\ \A k \in 1 .. Len(trail) : trail[k].pos <= LastWalk.pos

CountInv == pass = "count" => out = << >> /\ LastWalk = Walk

WriteInv ==
  pass = "write" =>
    /\ LastWalk.todo = << >> /\ LastWalk.pos = outlen /\ Len(out) = pos
    /\ \E k \in 1 .. Len(trail) : trail[k] = Walk

EndInv == pass \in {"done", "raised"} => Len(out) = outlen

SinkInv == DumpIsWhole /\ (pass \in {"count", "write"} => sink = << >>)

DInv == Types /\ TrailInv /\ CountInv /\ WriteInv /\ EndInv

(* What is at the front of the list is an element, and the rest are some.  *)
LEMMA HeadAndTail ==
  ASSUME NEW s \in Seq(Elements), s # << >>
  PROVE  Head(s) \in Elements /\ Tail(s) \in Seq(Elements)
         /\ Inside(Head(s)) \o Tail(s) \in Seq(Elements)
         /\ SizeOf(Head(s)) \in Nat
<1>1. Head(s) \in Elements /\ Tail(s) \in Seq(Elements)
  OBVIOUS
<1>2. Inside(Head(s)) \in Seq(Elements) /\ SizeOf(Head(s)) \in Nat
  BY <1>1, InsideType, SizeOfElement
<1> QED
  BY <1>1, <1>2

(* The second pass is somewhere on the trail, never past its end.          *)
LEMMA OnTheTrail ==
  ASSUME DInv, pass = "write"
  PROVE  /\ Len(out) = pos /\ pos <= outlen
         /\ todo = << >> => pos = outlen
         /\ todo # << >> => /\ ~Rejected(Head(todo))
                            /\ \E k \in 1 .. Len(trail) :
                                 Follows(Walk, trail[k])
<1>1. PICK k \in 1 .. Len(trail) : trail[k] = Walk
  BY DEF DInv, WriteInv
<1>2. Len(trail) \in Nat /\ LastWalk.todo = << >> /\ LastWalk.pos = outlen /\ Len(out) = pos
  BY DEF DInv, Types, WriteInv
<1>3. Walk.todo = todo /\ Walk.pos = pos
  BY DEF Walk
<1>4. pos <= outlen
  BY <1>1, <1>2, <1>3 DEF DInv, TrailInv
<1>5. k # Len(trail) => Follows(Walk, trail[k + 1]) /\ k + 1 \in 1 .. Len(trail)
  BY <1>1, <1>2 DEF DInv, TrailInv
<1>6. Follows(Walk, trail[k + 1]) => todo # << >> /\ ~Rejected(Head(todo))
  BY <1>3 DEF Follows
<1>7. k = Len(trail) => todo = << >> /\ pos = outlen
  BY <1>1, <1>2, <1>3 DEF LastWalk
<1> QED
  BY <1>2, <1>4, <1>5, <1>6, <1>7

(* One object further in either pass. *)
LEMMA EmitStep ==
  ASSUME DInv, Walking, ~Rejected(Head(todo)), Emit(Head(todo))
  PROVE  DInv'
<1> DEFINE x == Head(todo)
<1>0. pass \in {"count", "write"} /\ todo # << >>
  BY DEF Walking
<1>1. x \in Elements /\ Tail(todo) \in Seq(Elements)
      /\ Inside(x) \o Tail(todo) \in Seq(Elements) /\ SizeOf(x) \in Nat
      /\ BytesOf(x) \in Numeral /\ Len(BytesOf(x)) = SizeOf(x)
  BY <1>0, HeadAndTail, SizeOfElement DEF DInv, Types
<1>2. /\ todo' = Inside(x) \o Tail(todo) /\ pos' = pos + SizeOf(x)
      /\ out' = IF pass = "write" THEN out \o BytesOf(x) ELSE out
      /\ trail' = IF pass = "count" THEN Append(trail, Walk') ELSE trail
      /\ ob' = ob /\ sort_keys' = sort_keys /\ fp' = fp /\ pass' = pass
      /\ outlen' = outlen /\ sink' = sink
  BY DEF Emit, argVars, Walk
<1>3. Follows(Walk, Walk')
  BY <1>0, <1>2 DEF Follows, Walk
<1>4. \A a, b : Follows(a, b)' <=> Follows(a, b)
  BY <1>2 DEF Follows, Inside, KeyList, InOrder
<1>5. todo' \in Seq(Elements) /\ pos' \in Nat /\ pos <= pos' /\ Walk' \in Walks
  BY <1>1, <1>2 DEF DInv, Types, Walk, Walks
<1>6. out' \in Numeral /\ (pass = "write" => Len(out') = Len(out) + SizeOf(x))
  BY <1>1, <1>2, ConcatLength DEF DInv, Types
<1> HIDE DEF x
<1>7. CASE pass = "count"
  <2>1. trail' = Append(trail, Walk') /\ out' = out
    BY <1>2, <1>7
  <2>2. trail \in Seq(Walks) /\ Len(trail) \in Nat /\ Len(trail) >= 1
    BY DEF DInv, Types, TrailInv
  <2>3. /\ trail' \in Seq(Walks) /\ Len(trail') = Len(trail) + 1
        /\ trail'[Len(trail) + 1] = Walk'
        /\ \A k \in 1 .. Len(trail) : trail'[k] = trail[k]
    BY <1>5, <2>1, <2>2
  <2>4. LastWalk' = Walk'
    BY <2>3 DEF LastWalk
  <2>5. LastWalk = Walk /\ out = << >>
    BY <1>7 DEF DInv, CountInv
  <2>6. Types'
    BY <1>2, <1>5, <1>6, <2>3 DEF DInv, Types
  <2>7. TrailInv'
    <3>1. Len(trail') >= 1 /\ trail'[1] = [todo |-> <<ob'>>, pos |-> 0]
      BY <1>2, <2>2, <2>3 DEF DInv, TrailInv
    <3>2. ASSUME NEW k \in 1 .. Len(trail') - 1
          PROVE  Follows(trail'[k], trail'[k + 1])
      <4>1. CASE k = Len(trail)
        BY <1>3, <2>2, <2>3, <2>5, <4>1 DEF LastWalk
      <4>2. CASE k # Len(trail)
        <5>1. k \in 1 .. Len(trail) - 1 /\ k + 1 \in 1 .. Len(trail)
              /\ k \in 1 .. Len(trail)
          BY <2>2, <2>3, <4>2
        <5> QED
          BY <2>3, <5>1 DEF DInv, TrailInv
      <4> QED
        BY <4>1, <4>2
    <3>3. ASSUME NEW k \in 1 .. Len(trail')
          PROVE  trail'[k].pos <= LastWalk'.pos
      <4>0. Walk.pos = pos /\ Walk'.pos = pos' /\ pos \in Nat
        BY DEF Walk, DInv, Types
      <4>1. CASE k = Len(trail) + 1
        BY <1>5, <2>3, <2>4, <4>0, <4>1
      <4>2. CASE k # Len(trail) + 1
        <5>1. k \in 1 .. Len(trail)
          BY <2>2, <2>3, <4>2
        <5>2. trail[k].pos <= pos
          BY <2>5, <4>0, <5>1 DEF DInv, TrailInv
        <5>3. trail[k] \in Walks
          BY <2>2, <5>1
        <5>4. trail[k].pos \in Nat
          BY <5>3 DEF Walks
        <5> QED
          BY <1>5, <2>3, <2>4, <4>0, <5>1, <5>2, <5>4
      <4> QED
        BY <4>1, <4>2
    <3> QED
      BY <1>4, <3>1, <3>2, <3>3 DEF TrailInv
  <2> QED
    BY <1>2, <1>7, <2>1, <2>4, <2>5, <2>6, <2>7
      DEF DInv, CountInv, WriteInv, EndInv
<1>8. CASE pass = "write"
  <2>1. trail' = trail
    BY <1>2, <1>8
  <2>2. PICK k \in 1 .. Len(trail) : Follows(Walk, trail[k])
    BY <1>0, <1>8, OnTheTrail
  <2>3. trail[k] = Walk'
    BY <1>3, <2>2 DEF Follows
  <2>4. LastWalk' = LastWalk
    BY <2>1 DEF LastWalk
  <2>5. Types'
    BY <1>2, <1>5, <1>6, <2>1 DEF DInv, Types
  <2>6. TrailInv'
    BY <1>2, <1>4, <2>1, <2>4 DEF DInv, TrailInv
  <2>7. Len(out') = pos'
    BY <1>2, <1>6, <1>8 DEF DInv, WriteInv
  <2> QED
    BY <1>2, <1>8, <2>1, <2>2, <2>3, <2>4, <2>5, <2>6, <2>7
      DEF DInv, CountInv, WriteInv, EndInv
<1> QED
  BY <1>0, <1>7, <1>8

(* A step that leaves the walk and the trail alone keeps what is on it.    *)
LEMMA TrailKept ==
  ASSUME DInv, UNCHANGED <<ob, sort_keys, fp, trail>>
  PROVE  TrailInv' /\ LastWalk' = LastWalk
<1>1. \A a, b : Follows(a, b)' <=> Follows(a, b)
  BY DEF Follows, Inside, KeyList, InOrder
<1>2. LastWalk' = LastWalk
  BY DEF LastWalk
<1> QED
  BY <1>1, <1>2 DEF DInv, TrailInv

-----------------------------------------------------------------------------
(* The theorems *)

LEMMA DumpsInitial == DumpsInit => DInv
<1> SUFFICES ASSUME DumpsInit PROVE DInv
  OBVIOUS
<1>1. ob \in Objects /\ sort_keys \in BOOLEAN /\ fp \in Sinks /\ pass = "count"
      /\ todo = <<ob>> /\ pos = 0 /\ outlen = 0 /\ out = << >>
      /\ trail = <<[todo |-> <<ob>>, pos |-> 0]>>
  BY DEF DumpsInit
<1>2. <<ob>> \in Seq(Elements)
  BY <1>1 DEF Elements
<1>3. Walk = [todo |-> <<ob>>, pos |-> 0] /\ Walk \in Walks
  BY <1>1, <1>2 DEF Walk, Walks
<1>4. Len(trail) = 1 /\ trail[1] = Walk /\ trail \in Seq(Walks) /\ LastWalk = Walk
  BY <1>1, <1>3 DEF LastWalk
<1>5. Types
  BY <1>1, <1>2, <1>4 DEF Types, Numeral
<1>6. TrailInv
  BY <1>1, <1>3, <1>4 DEF TrailInv
<1> QED
  BY <1>1, <1>4, <1>5, <1>6 DEF DInv, CountInv, WriteInv, EndInv

LEMMA DumpsStep == DInv /\ [DumpsNext]_dumpsVars => DInv'
<1> SUFFICES ASSUME DInv, [DumpsNext]_dumpsVars PROVE DInv'
  OBVIOUS
<1>1. CASE DumpsOne
  BY <1>1, EmitStep DEF DumpsOne
<1>2. CASE DumpsDict
  <2>1. ~Rejected(Head(todo))
    BY <1>2 DEF DumpsDict, Rejected
  <2> QED
    BY <1>2, <2>1, EmitStep DEF DumpsDict
<1>3. CASE ReleaseKeys
  <2>1. ~Rejected(Head(todo))
    BY <1>3 DEF ReleaseKeys, Rejected
  <2> QED
    BY <1>3, <2>1, EmitStep DEF ReleaseKeys
<1>4. CASE Reject
  <2>1. UNCHANGED <<ob, sort_keys, fp, trail, todo, pos, out, outlen>>
        /\ pass' = "failed"
    BY <1>4 DEF Reject, argVars, walkVars
  <2> QED
    BY <2>1, TrailKept DEF DInv, Types, CountInv, WriteInv, EndInv
<1>5. CASE SecondPass
  <2>1. /\ UNCHANGED <<ob, sort_keys, fp, trail, out>>
        /\ pass = "count" /\ todo = << >> /\ pass' = "write" /\ outlen' = pos
        /\ todo' = <<ob>> /\ pos' = 0
    BY <1>5 DEF SecondPass, argVars
  <2>2. LastWalk = Walk /\ out = << >>
    BY <2>1 DEF DInv, CountInv
  <2>3. LastWalk'.todo = << >> /\ LastWalk'.pos = outlen'
    BY <2>1, <2>2, TrailKept DEF Walk
  <2>4. todo' \in Seq(Elements) /\ pos' \in Nat /\ outlen' \in Nat
    BY <2>1 DEF DInv, Types, Elements
  <2>5. Types'
    BY <2>1, <2>4 DEF DInv, Types
  <2>6. trail'[1] = Walk' /\ 1 \in 1 .. Len(trail')
    BY <2>1 DEF DInv, Types, TrailInv, Walk
  <2>7. Len(out') = pos'
    BY <2>1, <2>2
  <2> QED
    BY <2>1, <2>3, <2>5, <2>6, <2>7, TrailKept
      DEF DInv, CountInv, WriteInv, EndInv
<1>6. CASE NoMemory
  <2>1. UNCHANGED <<ob, sort_keys, fp, trail, todo, pos, out, outlen>>
        /\ pass' = "failed"
    BY <1>6 DEF NoMemory, argVars, walkVars
  <2> QED
    BY <2>1, TrailKept DEF DInv, Types, CountInv, WriteInv, EndInv
<1>7. CASE Finish
  <2>1. UNCHANGED <<ob, sort_keys, fp, trail, todo, pos, out, outlen>>
        /\ pass = "write" /\ todo = << >>
    BY <1>7 DEF Finish, argVars, walkVars
  <2>2. pass' \in {"done", "failed", "raised"}
    BY <1>7, Zenon DEF Finish, Outcome
  <2>3. Len(out) = outlen
    BY <2>1, OnTheTrail
  <2> QED
    BY <2>1, <2>2, <2>3, TrailKept DEF DInv, Types, CountInv, WriteInv, EndInv
<1>8. CASE UNCHANGED dumpsVars
  <2>1. UNCHANGED <<ob, sort_keys, fp, trail, todo, pos, out, outlen, pass>>
    BY <1>8 DEF dumpsVars, argVars, walkVars
  <2>2. Walk' = Walk
    BY <2>1 DEF Walk
  <2> QED
    BY <2>1, <2>2, TrailKept DEF DInv, Types, CountInv, WriteInv, EndInv
<1> QED
  BY <1>1, <1>2, <1>3, <1>4, <1>5, <1>6, <1>7, <1>8 DEF DumpsNext

LEMMA DumpsInvariant == DumpsSpec => []DInv
BY DumpsInitial, DumpsStep, PTL DEF DumpsSpec

(* cbor_dumps(): whatever the object, and whatever order PyList_Sort()     *)
(* puts keys into, the second pass writes within the buffer that the first *)
(* one measured, and fills it.                                             *)
THEOREM DumpsPassesAgree == DumpsSpec => []PassesAgree
<1>1. DInv => PassesAgree
  <2> SUFFICES ASSUME DInv PROVE PassesAgree
    OBVIOUS
  <2>1. pass = "write" => Len(out) = pos /\ pos <= outlen
                          /\ (todo = << >> => pos = outlen)
    BY OnTheTrail
  <2>2. pass \in {"done", "raised"} => Len(out) = outlen
    BY DEF DInv, EndInv
  <2> QED
    BY <2>1, <2>2 DEF PassesAgree
<1> QED
  BY <1>1, DumpsInvariant, PTL

(* cbor_dumps(): once the bytes have been counted nothing that is still to *)
(* be written is refused, so no half-written buffer is ever given up.      *)
THEOREM DumpsFailsBeforeWriting == DumpsSpec => FailsBeforeWriting
<1>1. DInv /\ [DumpsNext]_dumpsVars =>
        [pass = "write" /\ todo # << >> => pass' = "write"]_dumpsVars
  <2> SUFFICES ASSUME DInv, [DumpsNext]_dumpsVars, pass = "write", todo # << >>
               PROVE  pass' = "write"
    BY DEF dumpsVars
  <2>1. ~Rejected(Head(todo))
    BY OnTheTrail
  <2> QED
    BY <2>1 DEF DumpsNext, DumpsOne, DumpsDict, ReleaseKeys, Reject, SecondPass,
      NoMemory, Finish, Emit, dumpsVars
<1> QED
  BY <1>1, DumpsInvariant, PTL DEF DumpsSpec, FailsBeforeWriting

(* cbor_dump(): fp is given the whole object or, if dump() fails on its    *)
(* own account, nothing.                                                   *)
THEOREM DumpsIsWhole == DumpsSpec => []DumpIsWhole
<1>1. DumpsInit => SinkInv
  BY DEF DumpsInit, SinkInv, DumpIsWhole
<1>2. DInv /\ SinkInv /\ [DumpsNext]_dumpsVars => SinkInv'
  <2> SUFFICES ASSUME DInv, SinkInv, [DumpsNext]_dumpsVars PROVE SinkInv'
    OBVIOUS
  <2>1. CASE Finish
    <3>1. /\ UNCHANGED <<out, outlen, fp, pending>> /\ pass = "write"
          /\ todo = << >> /\ sink = << >>
      BY <2>1 DEF Finish, argVars, walkVars, SinkInv
    <3>2. Len(out) = outlen
      BY <3>1, OnTheTrail
    <3>3. pass' \in {"done", "failed", "raised"} /\ (pass' = "failed" => pending)
      BY <2>1, Zenon DEF Finish, Outcome
    <3>4. out \in Seq(Nat)
      BY DEF DInv, Types, Numeral
    <3>5. out = SubSeq(out, 1, Len(out)) /\ << >> = SubSeq(out, 1, Len(<< >>))
      BY <3>4
    <3>6. \A k \in 0 .. Len(out) :
            SubSeq(out, 1, k) = SubSeq(out, 1, Len(SubSeq(out, 1, k)))
      BY <3>4
    <3>7. sink' = SubSeq(out, 1, Len(sink'))
      BY <2>1, <3>1, <3>5, <3>6 DEF Finish
    <3>8. pass' = "done" /\ fp = "object" => sink' = out
      BY <2>1 DEF Finish, Outcome
    <3>9. pass' = "failed" /\ ~pending => sink' = << >>
      BY <3>3
    <3> QED
      BY <3>1, <3>2, <3>3, <3>7, <3>8, <3>9 DEF SinkInv, DumpIsWhole
  <2>2. CASE UNCHANGED dumpsVars
    BY <2>2 DEF dumpsVars, argVars, walkVars, SinkInv, DumpIsWhole
  <2>3. ASSUME ~Finish, ~UNCHANGED dumpsVars
        PROVE  SinkInv'
    <3>1. sink' = sink /\ pass \in {"count", "write"}
          /\ pass' \in {"count", "write", "failed"}
      BY <2>3 DEF DumpsNext, DumpsOne, DumpsDict, ReleaseKeys, Reject,
        SecondPass, NoMemory, Emit, Walking
    <3>2. sink' = << >>
      BY <3>1 DEF SinkInv
    <3>3. << >> = SubSeq(out', 1, Len(<< >>))
      OBVIOUS
    <3> QED
      BY <3>1, <3>2, <3>3 DEF SinkInv, DumpIsWhole
  <2> QED
    BY <2>1, <2>2, <2>3
<1>3. SinkInv => DumpIsWhole
  BY DEF SinkInv
<1> QED
  BY <1>1, <1>2, <1>3, DumpsInvariant, PTL DEF DumpsSpec

-----------------------------------------------------------------------------
(* What has to be given back *)

KeysInv ==
  /\ keylists \in Nat /\ pending \in BOOLEAN /\ allocated = (pass = "write")
  /\ pass \in {"count", "write"} => keylists = Occurrences(todo, {EndOfKeys})
  /\ pass \in {"done", "raised"} => keylists = 0

(* dumps_dict() makes one list of keys for every dict that it sorts.       *)
LEMMA KeyListsInside ==
  ASSUME NEW x \in Elements
  PROVE  Occurrences(Inside(x), {EndOfKeys}) =
           IF x.kind = "dict" /\ sort_keys THEN 1 ELSE 0
<1>1. EndOfKeys.kind = "end"
  BY DEF EndOfKeys, Object
<1>2. \A s \in Seq(Objects) : Occurrences(s, {EndOfKeys}) = 0
  <2>1. Objects \cap {EndOfKeys} = {}
    BY ObjectType
  <2> QED
    BY <2>1, OccurrencesAll
<1>3. << >> \in Seq(Objects)
  OBVIOUS
<1>4. CASE x = EndOfKeys
  <2>1. Inside(x) = << >> /\ x.kind # "dict"
    BY <1>1, <1>4 DEF Inside
  <2> QED
    BY <1>2, <1>3, <2>1
<1>5. CASE x \in Objects
  <2>1. x.items \in Seq(Objects) /\ (x.kind = "dict" => Sorted(x) \in Seq(Objects))
    BY <1>5, ObjectType
  <2>2. CASE x.kind = "dict"
    <3> DEFINE s == InOrder(x)
    <3>1. s \in Seq(Objects)
      BY <2>1, <2>2 DEF InOrder
    <3>2. Inside(x) = IF sort_keys THEN Append(s, EndOfKeys) ELSE s
      BY <2>2 DEF Inside, KeyList
    <3> HIDE DEF s
    <3>3. Occurrences(s, {EndOfKeys}) = 0
      BY <1>2, <3>1
    <3>4. Append(s, EndOfKeys) = s \o <<EndOfKeys>>
      BY <3>1
    <3>5. s \in Seq(Elements) /\ <<EndOfKeys>> \in Seq(Elements)
      BY <3>1 DEF Elements
    <3>6. Occurrences(s \o <<EndOfKeys>>, {EndOfKeys}) =
            Occurrences(s, {EndOfKeys}) + Occurrences(<<EndOfKeys>>, {EndOfKeys})
      <4>1. \A S : Occurrences(s \o <<EndOfKeys>>, S) =
                    Occurrences(s, S) + Occurrences(<<EndOfKeys>>, S)
        BY <3>5, OccurrencesConcat
      <4> QED
        BY <4>1, Zenon
    <3>7. Occurrences(<<EndOfKeys>>, {EndOfKeys}) = 1
      BY OccurrencesOne
    <3> QED
      BY <2>2, <3>2, <3>3, <3>4, <3>6, <3>7
  <2>3. CASE x.kind # "dict"
    <3>1. Inside(x) = x.items \/ Inside(x) = << >>
      BY <2>3 DEF Inside
    <3> QED
      BY <1>2, <1>3, <2>1, <2>3, <3>1
  <2> QED
    BY <2>2, <2>3
<1> QED
  BY <1>4, <1>5 DEF Elements

(* One object further, the lists of keys are those still to be released.   *)
LEMMA KeysEmit ==
  ASSUME DInv, KeysInv, Walking, Emit(Head(todo)), pending' \in BOOLEAN,
         keylists' = keylists
           + (IF Head(todo).kind = "dict" /\ sort_keys THEN 1 ELSE 0)
           - (IF Head(todo) = EndOfKeys THEN 1 ELSE 0)
  PROVE  KeysInv'
<1> DEFINE x == Head(todo)
           E == {EndOfKeys}
<1>1. /\ todo' = Inside(x) \o Tail(todo) /\ pass' = pass /\ allocated' = allocated
      /\ pass \in {"count", "write"} /\ todo # << >>
  BY DEF Emit, Walking
<1>2. x \in Elements /\ todo \in Seq(Elements) /\ todo' \in Seq(Elements)
  BY <1>1, HeadAndTail DEF DInv, Types
<1>3. Occurrences(todo', E) = Occurrences(Inside(x), E) + Occurrences(todo, E)
                                - (IF x \in E THEN 1 ELSE 0)
  BY <1>1, <1>2, OccurrencesStep
<1>4. Occurrences(Inside(x), E) = IF x.kind = "dict" /\ sort_keys THEN 1 ELSE 0
  BY <1>2, KeyListsInside
<1>5. Occurrences(todo', E) \in Nat /\ Occurrences(todo, E) \in Nat
  BY <1>2, OccurrencesType
<1>6. keylists = Occurrences(todo, E)
  BY <1>1 DEF KeysInv
<1>7. keylists' = Occurrences(todo', E)
  <2>1. x \in E <=> x = EndOfKeys
    OBVIOUS
  <2> HIDE DEF x, E
  <2> QED
    BY <1>3, <1>4, <1>5, <1>6, <2>1 DEF x
<1> QED
  BY <1>1, <1>5, <1>7 DEF KeysInv

LEMMA KeysStep == DInv /\ KeysInv /\ [DumpsNext]_dumpsVars => KeysInv'
<1> SUFFICES ASSUME DInv, KeysInv, [DumpsNext]_dumpsVars PROVE KeysInv'
  OBVIOUS
<1>0. EndOfKeys.kind = "end" /\ (Walking => Head(todo) \in Elements)
  BY HeadAndTail DEF EndOfKeys, Object, Walking, DInv, Types
<1>1. Occurrences(<< >>, {EndOfKeys}) = 0 /\ Occurrences(<<ob>>, {EndOfKeys}) = 0
  <2>1. << >> \in Seq(Objects) /\ <<ob>> \in Seq(Objects)
    BY DEF DInv, Types
  <2>2. Objects \cap {EndOfKeys} = {}
    BY ObjectType
  <2> QED
    BY <2>1, <2>2, OccurrencesAll
<1>2. CASE DumpsOne
  <2>1. Head(todo).kind # "dict" /\ Head(todo) # EndOfKeys
    BY <1>0, <1>2 DEF DumpsOne
  <2>2. keylists' = keylists /\ keylists \in Nat /\ pending' \in BOOLEAN
        /\ Walking /\ Emit(Head(todo))
    BY <1>2 DEF DumpsOne, KeysInv
  <2> QED
    BY <2>1, <2>2, KeysEmit
<1>3. CASE DumpsDict
  <2>1. Head(todo).kind = "dict" /\ Head(todo) # EndOfKeys
    BY <1>0, <1>3 DEF DumpsDict
  <2>2. /\ keylists' = keylists + (IF sort_keys THEN 1 ELSE 0) /\ keylists \in Nat
        /\ pending' \in BOOLEAN /\ Walking /\ Emit(Head(todo))
    BY <1>3 DEF DumpsDict, KeysInv
  <2> QED
    BY <2>1, <2>2, KeysEmit
<1>4. CASE ReleaseKeys
  <2>1. Head(todo).kind = "end" /\ Head(todo) = EndOfKeys
    BY <1>0, <1>4, ObjectType DEF ReleaseKeys, Elements
  <2>2. /\ keylists' = keylists - 1 /\ keylists \in Nat
        /\ pending' \in BOOLEAN /\ Walking /\ Emit(Head(todo))
    BY <1>4 DEF ReleaseKeys, KeysInv
  <2> QED
    BY <2>1, <2>2, KeysEmit
<1>5. CASE Reject \/ NoMemory
  <2>1. /\ pass' = "failed" /\ allocated' = FALSE
        /\ UNCHANGED <<keylists, pending>>
    BY <1>5 DEF Reject, NoMemory, KeysInv
  <2> QED
    BY <2>1 DEF KeysInv
<1>6. CASE SecondPass
  <2>1. /\ pass = "count" /\ pass' = "write" /\ allocated' = TRUE
        /\ todo = << >> /\ todo' = <<ob>> /\ UNCHANGED <<keylists, pending>>
    BY <1>6 DEF SecondPass
  <2> QED
    BY <1>1, <2>1 DEF KeysInv
<1>7. CASE Finish
  <2>1. /\ pass = "write" /\ allocated' = FALSE /\ todo = << >>
        /\ UNCHANGED <<keylists, pending>>
    BY <1>7 DEF Finish
  <2>2. pass' \in {"done", "failed", "raised"}
    BY <1>7, Zenon DEF Finish, Outcome
  <2> QED
    BY <1>1, <2>1, <2>2 DEF KeysInv
<1>8. CASE UNCHANGED dumpsVars
  BY <1>8 DEF dumpsVars, walkVars, KeysInv
<1> QED
  BY <1>2, <1>3, <1>4, <1>5, <1>6, <1>7, <1>8 DEF DumpsNext

LEMMA KeysInvariant == DumpsSpec => []KeysInv
<1>1. DInv /\ DumpsInit => KeysInv
  <2> SUFFICES ASSUME DInv, DumpsInit PROVE KeysInv
    OBVIOUS
  <2>1. ob \in Objects /\ todo = <<ob>> /\ pass = "count" /\ ~allocated
        /\ allocated \in BOOLEAN /\ keylists = 0 /\ pending = FALSE
    BY DEF DumpsInit
  <2>2. Occurrences(<<ob>>, {EndOfKeys}) = 0
    BY <2>1, ObjectType, OccurrencesOne
  <2> QED
    BY <2>1, <2>2 DEF KeysInv
<1> QED
  BY <1>1, KeysStep, DumpsInvariant, PTL DEF DumpsSpec

(* cbor_dumps(): the buffer is freed on every way out, no list of keys is  *)
(* released twice, and none is left over when an encoding was returned.    *)
THEOREM DumpsGivesBack == DumpsSpec => []DumpsReleases
<1>1. DInv /\ KeysInv => DumpsReleases
  BY DEF DInv, Types, KeysInv, DumpsReleases, DumpsTypeOK
<1> QED
  BY <1>1, KeysInvariant, DumpsInvariant, PTL
=============================================================================
