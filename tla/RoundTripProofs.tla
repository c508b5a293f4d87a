--------------------------- MODULE RoundTripProofs ---------------------------
(***************************************************************************)
(* Proofs about RoundTrip, for any objects: loads() returns what dumps()   *)
(* was given, and refuses every part of it.                                *)
(*                                                                         *)
(* The argument has three parts.  Reading at a place where the bytes of an *)
(* object begin returns the item of that object, if they are all there.    *)
(* The second pass of dumps() puts the bytes of every object where the     *)
(* first pass said.  So loads() comes to the objects one by one, in the    *)
(* order in which the first pass did, and needs as many as were left.      *)
(***************************************************************************)
EXTENDS RoundTrip, DumpsProofs, FiniteSetTheorems

-----------------------------------------------------------------------------
(* Reading an item back *)

(* The bytes in the buffer, from the k-th after bpos on, are those of s as *)
(* far as the buffer goes.                                                 *)
Agrees(k, s) ==
  \A i \in 1 .. Len(s) : bpos + k + i <= Len(raw) => raw[bpos + k + i] = s[i]

Reading == raw \in Numeral /\ bpos \in Nat /\ bpos <= Len(raw)

LEMMA AgreesConcat ==
  ASSUME NEW k \in Nat, NEW s \in Numeral, NEW t \in Numeral, Reading,
         Agrees(k, s \o t)
  PROVE  Agrees(k, s) /\ Agrees(k + Len(s), t)
<1>1. /\ Len(s) \in Nat /\ Len(t) \in Nat /\ Len(s \o t) = Len(s) + Len(t)
      /\ \A i \in 1 .. Len(s) : (s \o t)[i] = s[i]
      /\ \A i \in 1 .. Len(t) : (s \o t)[Len(s) + i] = t[i]
  BY ConcatParts
<1>2. bpos \in Nat /\ Len(raw) \in Nat
  BY DEF Reading, Numeral
<1>3. ASSUME NEW i \in 1 .. Len(s), bpos + k + i <= Len(raw)
      PROVE  raw[bpos + k + i] = s[i]
  <2>1. i \in 1 .. Len(s \o t)
    BY <1>1
  <2> QED
    BY <1>1, <1>3, <2>1 DEF Agrees
<1>4. ASSUME NEW i \in 1 .. Len(t), bpos + (k + Len(s)) + i <= Len(raw)
      PROVE  raw[bpos + (k + Len(s)) + i] = t[i]
  <2>1. Len(s) + i \in 1 .. Len(s \o t)
    BY <1>1
  <2>2. bpos + k + (Len(s) + i) = bpos + (k + Len(s)) + i
    BY <1>1, <1>2
  <2>3. bpos + k + (Len(s) + i) <= Len(raw)
    BY <1>4, <2>2
  <2> QED
    BY <1>1, <2>1, <2>2, <2>3 DEF Agrees
<1> QED
  BY <1>3, <1>4 DEF Agrees

(* Where bytes agree and are all there, a read returns them.               *)
LEMMA BytesThere ==
  ASSUME NEW k \in Nat, NEW s \in Numeral, Reading, Agrees(k, s),
         CanRead(k + Len(s))
  PROVE  BytesAt(k, Len(s)) = s
<1>1. bpos \in Nat /\ Len(raw) \in Nat /\ Len(s) \in Nat /\ s \in Seq(Nat)
      /\ raw \in Seq(Nat)
  BY DEF Reading, Numeral
<1> DEFINE b == bpos + k + Len(s)
<1>2. b <= Len(raw) /\ b \in Nat
  BY <1>1 DEF CanRead
<1>3. Min({b, Len(raw)}) = b
  <2> HIDE DEF b
  <2>1. {b, Len(raw)} \in SUBSET Int /\ b \in {b, Len(raw)}
        /\ \A y \in {b, Len(raw)} : b <= y
    BY <1>1, <1>2
  <2> QED
    BY <2>1, MinIs
<1>4. BytesAt(k, Len(s)) = SubSeq(raw, bpos + k + 1, b)
  BY <1>3 DEF BytesAt
<1>5. \A i \in bpos + k + 1 .. b : raw[i] \in Nat
  <2>1. \A i \in bpos + k + 1 .. b : i \in 1 .. Len(raw)
    BY <1>1, <1>2
  <2> QED
    BY <1>1, <2>1, ElementOfSeq
<1>6. bpos + k + 1 \in Int /\ b \in Int /\ b - (bpos + k + 1) + 1 = Len(s)
  BY <1>1
<1> DEFINE r == SubSeq(raw, bpos + k + 1, b)
<1>7. /\ r \in Seq(Nat)
      /\ Len(r) = IF bpos + k + 1 <= b THEN b - (bpos + k + 1) + 1 ELSE 0
      /\ \A i \in 1 .. b - (bpos + k + 1) + 1 : r[i] = raw[bpos + k + 1 + i - 1]
  <2> HIDE DEF b
  <2> QED
    BY <1>5, <1>6, SubSeqProperties
<1>8. Len(r) = Len(s)
  BY <1>1, <1>6, <1>7
<1>9. ASSUME NEW i \in 1 .. Len(s) PROVE r[i] = s[i]
  <2>1. bpos + k + 1 + i - 1 = bpos + k + i /\ bpos + k + i <= Len(raw)
    BY <1>1, <1>2
  <2>2. r[i] = raw[bpos + k + i]
    BY <1>6, <1>7, <2>1
  <2> QED
    BY <2>1, <2>2 DEF Agrees
<1> HIDE DEF r
<1> QED
  BY <1>1, <1>4, <1>7, <1>8, <1>9, SeqEqual DEF r

(* What is read first, if there is anything: type and info bits.           *)
LEMMA FirstRead ==
  ASSUME NEW t \in MajorTypes, NEW info \in 0 .. 31, NEW s \in Numeral, Reading,
         Agrees(0, <<t + info>> \o s), CanRead(1)
  PROVE  Info = info /\ Type = t
<1>1. t + info \in Nat
  BY FirstByte
<1>2. <<t + info>> \in Numeral /\ Len(<<t + info>>) = 1 /\ <<t + info>>[1] = t + info
  BY <1>1 DEF Numeral
<1>3. Agrees(0, <<t + info>>)
  BY <1>2, AgreesConcat
<1>4. bpos + 0 + 1 = bpos + 1 /\ bpos + 1 <= Len(raw)
  BY DEF CanRead, Reading, Numeral
<1>5. raw[bpos + 1] = t + info
  <2>1. 1 \in 1 .. Len(<<t + info>>)
    BY <1>2
  <2>2. bpos + 0 + 1 <= Len(raw)
    BY <1>4
  <2> QED
    BY <1>2, <1>3, <1>4, <2>1, <2>2 DEF Agrees
<1>6. (t + info) % 32 = info /\ (t + info) - info = t
  BY FirstByte
<1>7. Info = info
  BY <1>5, <1>6, Zenon DEF Info
<1>8. Type = t
  BY <1>5, <1>6, <1>7, Zenon DEF Type
<1> QED
  BY <1>7, <1>8

(* A number that tag_aux_out() wrote is read back.                         *)
LEMMA HeadReads ==
  ASSUME NEW t \in MajorTypes, NEW n \in Number, Len(n) <= 8, Reading,
         Agrees(0, TagAuxOut(t, n)), CanRead(1)
  PROVE  /\ Info = InfoBits(n) /\ Type = t /\ Size = TagAuxSize(n)
         /\ CanRead(Size) => Aux = n
<1> DEFINE w == Following(InfoBits(n))
           s == Padded(n, w)
<1>1. InfoBits(n) \in 0 .. 31 /\ w \in Nat /\ TagAuxSize(n) = 1 + w
  BY InfoBitsFacts
<1>2. s \in Numeral /\ Len(s) = w
  BY PaddedType
<1>3. Agrees(0, <<t + InfoBits(n)>> \o s)
  BY DEF TagAuxOut
<1>4. Info = InfoBits(n) /\ Type = t
  <2> HIDE DEF s, w
  <2> QED
    BY <1>1, <1>2, <1>3, FirstRead
<1>5. Size = TagAuxSize(n)
  BY <1>1, <1>4 DEF Size
<1>6. ASSUME CanRead(Size) PROVE Aux = n
  <2>1. <<t + InfoBits(n)>> \in Numeral /\ Len(<<t + InfoBits(n)>>) = 1
    <3>1. t + InfoBits(n) \in Nat
      BY <1>1, FirstByte
    <3> QED
      BY <3>1 DEF Numeral
  <2> HIDE DEF s, w
  <2>2. Agrees(0 + 1, s)
    BY <1>2, <1>3, <2>1, AgreesConcat
  <2>3. CanRead(1 + Len(s))
    BY <1>1, <1>2, <1>5, <1>6
  <2>4. BytesAt(1, Len(s)) = s
    BY <1>2, <2>2, <2>3, BytesThere
  <2> QED
    BY <1>2, <1>4, <2>4, AuxReadsBack DEF Aux, w, s
<1> QED
  BY <1>4, <1>5, <1>6

-----------------------------------------------------------------------------
(* One item *)

(* How many objects are inside one that loads() returns. *)
Members(x) ==
  CASE x.kind \in {"list", "tuple", "dict"} -> Len(x.items)
    [] x.kind = "tag" -> 1
    [] OTHER -> 0

(* What loads() makes of the bytes of x, if they are all there. *)
ReadsAs(x) ==
  /\ SizeOf(x) \in Nat /\ SizeOf(x) >= 1
  /\ Readable <=> CanRead(SizeOf(x))
  /\ Readable => /\ Size + Payload = SizeOf(x)
                 /\ Loaded = ItemOf(x)
                 /\ Within = Members(x)

(* To read more is to read what comes first. *)
LEMMA CanReadLess ==
  ASSUME Reading, NEW m \in Nat, NEW n \in Nat, m <= n, CanRead(n)
  PROVE  CanRead(m)
BY DEF CanRead, Reading, Numeral

(* An item of a type whose first bytes say it all.                         *)
LEMMA NumbersRead ==
  ASSUME Reading, NEW t \in {CBOR_UINT, CBOR_NEGINT, CBOR_ARRAY, CBOR_MAP, CBOR_TAG},
         NEW n \in Number, Len(n) <= 8, Agrees(0, TagAuxOut(t, n)),
         t = CBOR_TAG => n \notin {<<CBOR_TAG_BIGNUM>>, <<CBOR_TAG_NEGBIGNUM>>}
  PROVE  /\ TagAuxSize(n) \in Nat /\ TagAuxSize(n) >= 1
         /\ Readable <=> CanRead(TagAuxSize(n))
         /\ Readable => /\ Type = t /\ Aux = n /\ ~BignumFollows
                        /\ Size + Payload = TagAuxSize(n)
<1>1. TagAuxSize(n) \in Nat /\ TagAuxSize(n) >= 1
  BY InfoBitsFacts
<1>2. t \in MajorTypes
  BY DEF MajorTypes
<1>3. ASSUME CanRead(1)
      PROVE  Type = t /\ Size = TagAuxSize(n) /\ (CanRead(Size) => Aux = n)
  BY <1>2, <1>3, HeadReads
<1>4. ASSUME CanRead(1), CanRead(Size)
      PROVE  ~BignumFollows /\ Payload = 0 /\ Known
  <2>1. Type = t /\ Aux = n
    BY <1>3, <1>4
  <2>2. ~BignumFollows
    BY <2>1 DEF BignumFollows
  <2>3. Type \notin {CBOR_BYTES, CBOR_TEXT} /\ Type # CBOR_7
    BY <2>1 DEF CBOR_UINT, CBOR_NEGINT, CBOR_ARRAY, CBOR_MAP, CBOR_TAG,
      CBOR_BYTES, CBOR_TEXT, CBOR_7
  <2> QED
    BY <2>2, <2>3 DEF Payload, Known
<1>5. Readable <=> CanRead(TagAuxSize(n))
  <2>1. CanRead(TagAuxSize(n)) => CanRead(1)
    BY <1>1, CanReadLess
  <2>2. ASSUME CanRead(1), CanRead(Size)
        PROVE  Size + Payload = Size
    BY <1>1, <1>3, <1>4, <2>2
  <2> QED
    BY <1>3, <1>4, <2>1, <2>2 DEF Readable
<1>6. Readable => CanRead(1) /\ CanRead(Size)
  BY DEF Readable
<1>7. Readable => Size + Payload = TagAuxSize(n)
  BY <1>1, <1>3, <1>4, <1>6
<1> QED
  BY <1>1, <1>3, <1>4, <1>5, <1>6, <1>7

LEMMA IntReads ==
  ASSUME Reading, NEW x \in Objects, x.kind = "int", ~IsBignum(x),
         Agrees(0, BytesOf(x))
  PROVE  ReadsAs(x)
<1> DEFINE t == IF x.sign = "+" THEN CBOR_UINT ELSE CBOR_NEGINT
<1>1. x.number \in Number /\ x.sign \in {"+", "-"}
  BY ObjectsAssumption
<1>2. Len(x.number) <= 8
  BY <1>1, NumberFacts DEF IsBignum, Overflows
<1>3. BytesOf(x) = TagAuxOut(t, x.number) /\ SizeOf(x) = TagAuxSize(x.number)
  BY DEF BytesOf, SizeOf
<1>4. t \in {CBOR_UINT, CBOR_NEGINT} /\ t # CBOR_TAG
  BY DEF CBOR_UINT, CBOR_NEGINT, CBOR_TAG
<1>5. /\ SizeOf(x) \in Nat /\ SizeOf(x) >= 1
      /\ Readable <=> CanRead(SizeOf(x))
      /\ Readable => /\ Type = t /\ Aux = x.number
                     /\ Size + Payload = SizeOf(x)
  <2> HIDE DEF t
  <2> QED
    BY <1>1, <1>2, <1>3, <1>4, NumbersRead
<1>6. Members(x) = 0
  BY DEF Members
<1>7. ItemOf(x) = Item("int", x.number, x.sign, << >>)
  BY DEF ItemOf
<1>8. ASSUME Readable PROVE Loaded = ItemOf(x) /\ Within = 0
  <2>1. CASE x.sign = "+"
    <3>1. Type = CBOR_UINT /\ Aux = x.number
      BY <1>5, <1>8, <2>1
    <3>2. Loaded = Item("int", Aux, "+", << >>)
      BY <3>1 DEF Loaded, CBOR_UINT, CBOR_NEGINT, CBOR_BYTES, CBOR_TEXT, CBOR_ARRAY,
        CBOR_MAP, CBOR_TAG, CBOR_7, BignumFollows, Float, Simple
    <3>3. Within = 0
      BY <3>1 DEF Within, CBOR_UINT, CBOR_ARRAY, CBOR_MAP, CBOR_TAG
    <3> QED
      BY <1>7, <2>1, <3>1, <3>2, <3>3
  <2>2. CASE x.sign = "-"
    <3>1. Type = CBOR_NEGINT /\ Aux = x.number
      BY <1>5, <1>8, <2>2
    <3>2. Loaded = Item("int", Aux, "-", << >>)
      BY <3>1 DEF Loaded, CBOR_UINT, CBOR_NEGINT, CBOR_BYTES, CBOR_TEXT, CBOR_ARRAY,
        CBOR_MAP, CBOR_TAG, CBOR_7, BignumFollows, Float, Simple
    <3>3. Within = 0
      BY <3>1 DEF Within, CBOR_NEGINT, CBOR_ARRAY, CBOR_MAP, CBOR_TAG
    <3> QED
      BY <1>7, <2>2, <3>1, <3>2, <3>3
  <2> QED
    BY <1>1, <2>1, <2>2
<1> QED
  BY <1>5, <1>6, <1>8 DEF ReadsAs

(* A list, a tuple or a dict: how many are inside it.                      *)
LEMMA ContainerReads ==
  ASSUME Reading, NEW x \in Objects, x.kind \in {"list", "tuple", "dict"},
         Agrees(0, BytesOf(x))
  PROVE  ReadsAs(x)
<1>1. Len(x.items) \in Lengths /\ (x.kind = "dict" => Len(x.items) % 2 = 0)
  BY ObjectsAssumption
<1>2. Len(x.items) \in Nat
  BY <1>1 DEF Lengths
<1>3. Members(x) = Len(x.items)
  BY DEF Members
<1>4. CASE x.kind \in {"list", "tuple"}
  <2> DEFINE n == Digits(Len(x.items))
  <2>1. n \in Number /\ Len(n) <= 3 /\ Small(n) = Len(x.items)
    BY <1>1, DigitsOfLength
  <2>2. BytesOf(x) = TagAuxOut(CBOR_ARRAY, n) /\ SizeOf(x) = TagAuxSize(n)
    BY <1>4 DEF BytesOf, SizeOf, IsBignum
  <2>3. ItemOf(x) = Item("list", n, "+", << >>)
    BY <1>4 DEF ItemOf
  <2> HIDE DEF n
  <2>4. Len(n) <= 8
    BY <2>1, NumberFacts
  <2>5. CBOR_ARRAY # CBOR_TAG
    BY DEF CBOR_ARRAY, CBOR_TAG
  <2>6. /\ SizeOf(x) \in Nat /\ SizeOf(x) >= 1
        /\ Readable <=> CanRead(SizeOf(x))
        /\ Readable => Type = CBOR_ARRAY /\ Aux = n /\ Size + Payload = SizeOf(x)
    BY <2>1, <2>2, <2>4, <2>5, NumbersRead
  <2>7. ASSUME Readable PROVE Loaded = ItemOf(x) /\ Within = Len(x.items)
    <3>1. Type = CBOR_ARRAY /\ Aux = n
      BY <2>6, <2>7
    <3>2. Loaded = Item("list", Aux, "+", << >>)
      BY <3>1 DEF Loaded, CBOR_UINT, CBOR_NEGINT, CBOR_BYTES, CBOR_TEXT, CBOR_ARRAY,
        CBOR_MAP, CBOR_TAG, CBOR_7, BignumFollows, Float, Simple
    <3>3. Within = Small(Aux)
      BY <3>1 DEF Within, CBOR_ARRAY, CBOR_MAP, CBOR_TAG, BignumFollows
    <3> QED
      BY <2>1, <2>3, <3>1, <3>2, <3>3
  <2> QED
    BY <1>3, <2>6, <2>7 DEF ReadsAs
<1>5. CASE x.kind = "dict"
  <2> DEFINE k == Len(x.items) \div 2
             n == Digits(k)
  <2>0. k \in Lengths /\ 2 * k = Len(x.items)
    <3>1. Len(x.items) % 2 = 0
      BY <1>1, <1>5
    <3> QED
      BY <1>1, <3>1, HalfLength
  <2>1. n \in Number /\ Len(n) <= 3 /\ Small(n) = k
    BY <2>0, DigitsOfLength
  <2>2. BytesOf(x) = TagAuxOut(CBOR_MAP, n) /\ SizeOf(x) = TagAuxSize(n)
    BY <1>5 DEF BytesOf, SizeOf, IsBignum, NumberOf
  <2>3. ItemOf(x) = Item("dict", n, "+", << >>)
    BY <1>5 DEF ItemOf, NumberOf
  <2> HIDE DEF n, k
  <2>4. Len(n) <= 8
    BY <2>1, NumberFacts
  <2>5. CBOR_MAP # CBOR_TAG
    BY DEF CBOR_MAP, CBOR_TAG
  <2>6. /\ SizeOf(x) \in Nat /\ SizeOf(x) >= 1
        /\ Readable <=> CanRead(SizeOf(x))
        /\ Readable => Type = CBOR_MAP /\ Aux = n /\ Size + Payload = SizeOf(x)
    BY <2>1, <2>2, <2>4, <2>5, NumbersRead
  <2>7. ASSUME Readable PROVE Loaded = ItemOf(x) /\ Within = Len(x.items)
    <3>1. Type = CBOR_MAP /\ Aux = n
      BY <2>6, <2>7
    <3>2. Loaded = Item("dict", Aux, "+", << >>)
      BY <3>1 DEF Loaded, CBOR_UINT, CBOR_NEGINT, CBOR_BYTES, CBOR_TEXT, CBOR_ARRAY,
        CBOR_MAP, CBOR_TAG, CBOR_7, BignumFollows, Float, Simple
    <3>3. Within = 2 * Small(Aux)
      BY <3>1 DEF Within, CBOR_ARRAY, CBOR_MAP, CBOR_TAG, BignumFollows
    <3> QED
      BY <2>0, <2>1, <2>3, <3>1, <3>2, <3>3
  <2> QED
    BY <1>3, <2>6, <2>7 DEF ReadsAs
<1> QED
  BY <1>4, <1>5

(* A Tag, unless its number is one of those that announce a bignum.        *)
LEMMA TagReads ==
  ASSUME Reading, NEW x \in Objects, x.kind = "tag", ~Distorted(x), ~Rejected(x),
         Agrees(0, BytesOf(x))
  PROVE  ReadsAs(x)
<1>1. x.number \in Number /\ x.sign = "+"
  <2>1. x.number \in Number /\ x.sign \in {"+", "-", "?"}
    BY ObjectsAssumption
  <2> QED
    BY <2>1 DEF Distorted, Skipped, Rejected
<1>2. Len(x.number) <= 8
  <2>1. ~Overflows(x.number)
    BY <1>1 DEF Rejected
  <2> QED
    BY <1>1, <2>1, NumberFacts DEF Overflows
<1>3. BytesOf(x) = TagAuxOut(CBOR_TAG, x.number) /\ SizeOf(x) = TagAuxSize(x.number)
  BY <1>1 DEF BytesOf, SizeOf, IsBignum
<1>4. x.number \notin {<<CBOR_TAG_BIGNUM>>, <<CBOR_TAG_NEGBIGNUM>>}
  BY DEF Distorted
<1>5. /\ SizeOf(x) \in Nat /\ SizeOf(x) >= 1
      /\ Readable <=> CanRead(SizeOf(x))
      /\ Readable => /\ Type = CBOR_TAG /\ Aux = x.number /\ ~BignumFollows
                     /\ Size + Payload = SizeOf(x)
  BY <1>1, <1>2, <1>3, <1>4, NumbersRead
<1>6. Members(x) = 1
  BY DEF Members
<1>7. ItemOf(x) = Item("tag", x.number, "+", << >>)
  BY <1>1 DEF ItemOf
<1>8. ASSUME Readable PROVE Loaded = ItemOf(x) /\ Within = 1
  <2>1. Type = CBOR_TAG /\ Aux = x.number /\ ~BignumFollows
    BY <1>5, <1>8
  <2>2. Loaded = Item("tag", Aux, "+", << >>)
    BY <2>1 DEF Loaded, CBOR_UINT, CBOR_NEGINT, CBOR_BYTES, CBOR_TEXT, CBOR_ARRAY,
      CBOR_MAP, CBOR_TAG, CBOR_7, Float, Simple
  <2>3. Within = 1
    BY <2>1 DEF Within, CBOR_ARRAY, CBOR_MAP, CBOR_TAG
  <2> QED
    BY <1>7, <2>1, <2>2, <2>3
<1> QED
  BY <1>5, <1>6, <1>8 DEF ReadsAs

(* Bytes and a str: the string follows its length.                         *)
LEMMA StringReads ==
  ASSUME Reading, NEW x \in Objects, x.kind \in {"bytes", "text"},
         Agrees(0, BytesOf(x))
  PROVE  ReadsAs(x)
<1> DEFINE t == IF x.kind = "bytes" THEN CBOR_BYTES ELSE CBOR_TEXT
           n == Digits(Len(x.data))
           d == x.data
<1>1. d \in Numeral /\ Len(d) \in Lengths
  BY ObjectsAssumption, ObjectType
<1>2. n \in Number /\ Len(n) <= 3 /\ Small(n) = Len(d)
  BY <1>1, DigitsOfLength
<1>3. BytesOf(x) = TagAuxOut(t, n) \o d /\ SizeOf(x) = TagAuxSize(n) + Len(d)
  BY DEF BytesOf, SizeOf, IsBignum
<1>4. ItemOf(x) = Item(x.kind, << >>, "+", d) /\ Members(x) = 0
  BY DEF ItemOf, Members
<1>5. t \in MajorTypes /\ t \in {CBOR_BYTES, CBOR_TEXT}
  BY DEF MajorTypes
<1>6. Len(d) \in Nat
  BY <1>1 DEF Lengths
<1>7. /\ x.kind = "bytes" => t = CBOR_BYTES
      /\ x.kind = "text" => t = CBOR_TEXT
  OBVIOUS
<1> HIDE DEF t, n, d
<1>8. t \in Nat /\ n \in Numeral /\ Len(n) <= 8
  BY <1>2, <1>5, NumberFacts, Constants
<1>9. /\ TagAuxOut(t, n) \in Numeral /\ Len(TagAuxOut(t, n)) = TagAuxSize(n)
      /\ TagAuxSize(n) \in Nat /\ TagAuxSize(n) >= 1
  BY <1>2, <1>8, TagAuxLength, InfoBitsFacts
<1>10. Agrees(0, TagAuxOut(t, n)) /\ Agrees(0 + TagAuxSize(n), d)
  BY <1>1, <1>3, <1>9, AgreesConcat
<1>11. SizeOf(x) \in Nat /\ SizeOf(x) >= 1 /\ TagAuxSize(n) <= SizeOf(x)
  BY <1>3, <1>6, <1>9
<1>12. ASSUME CanRead(1)
       PROVE  Type = t /\ Size = TagAuxSize(n) /\ (CanRead(Size) => Aux = n)
  BY <1>2, <1>5, <1>8, <1>10, <1>12, HeadReads
<1>13. ASSUME CanRead(1), CanRead(Size)
       PROVE  Payload = Len(d) /\ Known
  <2>1. Type = t /\ Aux = n
    BY <1>12, <1>13
  <2>2. Payload = Small(Aux)
    BY <1>5, <2>1 DEF Payload, BignumFollows, BignumFits, CBOR_BYTES, CBOR_TEXT, CBOR_TAG
  <2>3. Type # CBOR_7 /\ Type # CBOR_TAG
    BY <1>5, <2>1 DEF CBOR_BYTES, CBOR_TEXT, CBOR_7, CBOR_TAG
  <2> QED
    BY <1>2, <2>1, <2>2, <2>3 DEF Known, BignumFollows
<1>14. Readable <=> CanRead(SizeOf(x))
  <2>1. CanRead(SizeOf(x)) => CanRead(1) /\ CanRead(TagAuxSize(n))
    BY <1>9, <1>11, CanReadLess
  <2> QED
    BY <1>3, <1>12, <1>13, <2>1 DEF Readable
<1>15. ASSUME Readable
       PROVE  Size + Payload = SizeOf(x) /\ Loaded = ItemOf(x) /\ Within = 0
  <2>1. CanRead(1) /\ CanRead(Size) /\ CanRead(SizeOf(x))
    BY <1>14, <1>15 DEF Readable
  <2>2. Type = t /\ Size = TagAuxSize(n) /\ Payload = Len(d)
    BY <1>12, <1>13, <2>1
  <2>3. BytesAt(Size, Payload) = d
    <3>1. CanRead(TagAuxSize(n) + Len(d)) /\ 0 + TagAuxSize(n) = TagAuxSize(n)
      BY <1>3, <1>9, <2>1
    <3> QED
      BY <1>1, <1>9, <1>10, <2>2, <3>1, BytesThere
  <2>4. CASE x.kind = "bytes"
    <3>1. Type = CBOR_BYTES
      BY <1>7, <2>2, <2>4
    <3>2. Loaded = Item("bytes", << >>, "+", BytesAt(Size, Payload))
      BY <3>1 DEF Loaded, CBOR_UINT, CBOR_NEGINT, CBOR_BYTES, CBOR_TEXT, CBOR_ARRAY,
        CBOR_MAP, CBOR_TAG, CBOR_7, BignumFollows, Float, Simple
    <3>3. Within = 0
      BY <3>1 DEF Within, CBOR_BYTES, CBOR_ARRAY, CBOR_MAP, CBOR_TAG
    <3> QED
      BY <1>3, <1>4, <2>2, <2>3, <2>4, <3>2, <3>3
  <2>5. CASE x.kind = "text"
    <3>1. Type = CBOR_TEXT
      BY <1>7, <2>2, <2>5
    <3>2. Loaded = Item("text", << >>, "+", BytesAt(Size, Payload))
      BY <3>1 DEF Loaded, CBOR_UINT, CBOR_NEGINT, CBOR_BYTES, CBOR_TEXT, CBOR_ARRAY,
        CBOR_MAP, CBOR_TAG, CBOR_7, BignumFollows, Float, Simple
    <3>3. Within = 0
      BY <3>1 DEF Within, CBOR_TEXT, CBOR_ARRAY, CBOR_MAP, CBOR_TAG
    <3> QED
      BY <1>3, <1>4, <2>2, <2>3, <2>5, <3>2, <3>3
  <2> QED
    BY <2>4, <2>5
<1> QED
  BY <1>4, <1>11, <1>14, <1>15 DEF ReadsAs

(* A float: its eight bytes follow.                                        *)
LEMMA FloatReads ==
  ASSUME Reading, NEW x \in Objects, x.kind = "float", Agrees(0, BytesOf(x))
  PROVE  ReadsAs(x)
<1> DEFINE d == x.data
<1>1. d \in Numeral /\ Len(d) = 8
  BY ObjectType
<1>2. BytesOf(x) = <<CBOR_7 + CBOR_UINT64_FOLLOWS>> \o d /\ SizeOf(x) = 9
  BY DEF BytesOf, SizeOf, IsBignum
<1>3. ItemOf(x) = Item("float", << >>, "+", d) /\ Members(x) = 0
  BY DEF ItemOf, Members
<1> HIDE DEF d
<1>4. CBOR_7 \in MajorTypes /\ CBOR_UINT64_FOLLOWS \in 0 .. 31
  BY DEF MajorTypes, CBOR_UINT64_FOLLOWS
<1>5. ASSUME CanRead(1) PROVE Info = CBOR_UINT64_FOLLOWS /\ Type = CBOR_7
  BY <1>1, <1>2, <1>4, <1>5, FirstRead
<1>6. ASSUME CanRead(1) PROVE Size = 9 /\ Payload = 0 /\ Known /\ Float
  <2>1. Info = CBOR_UINT64_FOLLOWS /\ Type = CBOR_7
    BY <1>5, <1>6
  <2>2. Size = 9
    BY <2>1 DEF Size, Following, CBOR_UINT8_FOLLOWS, CBOR_UINT16_FOLLOWS,
      CBOR_UINT32_FOLLOWS, CBOR_UINT64_FOLLOWS
  <2>3. ~BignumFollows
    BY <2>1 DEF BignumFollows, CBOR_TAG, CBOR_7
  <2>4. Payload = 0
    BY <2>1 DEF Payload, BignumFollows, CBOR_TAG, CBOR_7, CBOR_BYTES, CBOR_TEXT
  <2>5. Float
    BY <2>1 DEF Float
  <2> QED
    BY <2>2, <2>3, <2>4, <2>5 DEF Known
<1>7. Readable <=> CanRead(9)
  <2>1. CanRead(9) => CanRead(1)
    BY CanReadLess
  <2>2. CanRead(1) => Size + Payload = 9
    BY <1>6
  <2> QED
    BY <1>6, <2>1, <2>2 DEF Readable
<1>8. ASSUME Readable
      PROVE  Size + Payload = 9 /\ Loaded = ItemOf(x) /\ Within = 0
  <2>1. CanRead(1) /\ CanRead(9)
    BY <1>7, <1>8 DEF Readable
  <2>2. Info = CBOR_UINT64_FOLLOWS /\ Type = CBOR_7 /\ Size = 9 /\ Payload = 0 /\ Float
    BY <1>5, <1>6, <2>1
  <2>3. BytesAt(1, 8) = d
    <3> DEFINE h == <<CBOR_7 + CBOR_UINT64_FOLLOWS>>
    <3>0. BytesOf(x) = h \o d
      BY <1>2
    <3>1. h \in Numeral /\ Len(h) = 1
      BY DEF Numeral, CBOR_7, CBOR_UINT64_FOLLOWS
    <3> HIDE DEF h
    <3>2. Agrees(0, h \o d)
      BY <3>0
    <3>3. Agrees(0 + Len(h), d)
      BY <1>1, <3>1, <3>2, AgreesConcat
    <3>4. 0 + Len(h) = 1 /\ 1 + 8 = 9
      BY <3>1
    <3> QED
      BY <1>1, <2>1, <3>3, <3>4, BytesThere
  <2>4. Loaded = Item("float", << >>, "+", BytesAt(1, 8))
    BY <2>2 DEF Loaded, CBOR_UINT, CBOR_NEGINT, CBOR_BYTES, CBOR_TEXT, CBOR_ARRAY,
      CBOR_MAP, CBOR_TAG, CBOR_7, BignumFollows, Float, Simple
  <2>5. Within = 0
    BY <2>2 DEF Within, CBOR_ARRAY, CBOR_MAP, CBOR_TAG, CBOR_7, BignumFollows
  <2> QED
    BY <1>3, <2>2, <2>3, <2>4, <2>5
<1> QED
  BY <1>2, <1>3, <1>7, <1>8 DEF ReadsAs

(* None, True and False: one byte.                                         *)
LEMMA PlainReads ==
  ASSUME Reading, NEW x \in Objects, x.kind \in {"none", "true", "false"},
         Agrees(0, BytesOf(x))
  PROVE  ReadsAs(x)
<1> DEFINE b == CASE x.kind = "none" -> 22 [] x.kind = "true" -> 21
                  [] x.kind = "false" -> 20
<1>1. b \in 1 .. 23 /\ b \in 0 .. 31
      /\ (x.kind = "none" <=> b = 22) /\ (x.kind = "true" <=> b = 21)
      /\ (x.kind = "false" <=> b = 20)
  OBVIOUS
<1>2. BytesOf(x) = <<CBOR_7 + b>> /\ SizeOf(x) = 1
  BY DEF BytesOf, SizeOf, IsBignum, CBOR_NULL, CBOR_TRUE, CBOR_FALSE
<1>3. ItemOf(x) = Plain(x.kind) /\ Members(x) = 0
  BY DEF ItemOf, Members
<1> HIDE DEF b
<1>4. CBOR_7 \in MajorTypes /\ CBOR_7 + b \in Nat
  BY <1>1 DEF MajorTypes, CBOR_7
<1>5. BytesOf(x) = <<CBOR_7 + b>> \o << >> /\ << >> \in Numeral
  <2>1. <<CBOR_7 + b>> \in Seq(Nat)
    BY <1>4
  <2> QED
    BY <1>2, <2>1, ConcatEmptySeq DEF Numeral
<1>6. ASSUME CanRead(1) PROVE Info = b /\ Type = CBOR_7
  BY <1>1, <1>4, <1>5, <1>6, FirstRead
<1>7. ASSUME CanRead(1)
      PROVE  Size = 1 /\ Aux = <<b>> /\ Payload = 0 /\ Known /\ Simple /\ ~Float
  <2>1. Info = b /\ Type = CBOR_7
    BY <1>6, <1>7
  <2>2. Size = 1
    BY <1>1, <2>1 DEF Size, Following, CBOR_UINT8_FOLLOWS, CBOR_UINT16_FOLLOWS,
      CBOR_UINT32_FOLLOWS, CBOR_UINT64_FOLLOWS
  <2>3. Aux = <<b>>
    BY <1>1, <2>1, DigitOfInfo DEF Aux, HandleInfoBits
  <2>4. ~BignumFollows
    BY <2>1 DEF BignumFollows, CBOR_TAG, CBOR_7
  <2>5. Payload = 0
    BY <2>1 DEF Payload, BignumFollows, CBOR_TAG, CBOR_7, CBOR_BYTES, CBOR_TEXT
  <2>6. ~Float
    BY <1>1, <2>1 DEF Float, CBOR_UINT64_FOLLOWS
  <2>7. <<b>> \in {<<20>>, <<21>>, <<22>>, <<23>>}
    BY <1>1
  <2>8. Simple
    BY <2>1, <2>3, <2>6, <2>7, Zenon DEF Simple
  <2> QED
    BY <2>2, <2>3, <2>4, <2>5, <2>6, <2>8 DEF Known
<1>8. Readable <=> CanRead(1)
  BY <1>7 DEF Readable
<1>9. ASSUME Readable
      PROVE  Size + Payload = 1 /\ Loaded = ItemOf(x) /\ Within = 0
  <2>1. Type = CBOR_7 /\ Size = 1 /\ Aux = <<b>> /\ Payload = 0 /\ Simple /\ ~Float
    BY <1>6, <1>7, <1>8, <1>9
  <2>2. /\ Aux = <<20>> <=> b = 20
        /\ Aux = <<21>> <=> b = 21
        /\ Aux = <<22>> <=> b = 22
        /\ Aux # <<23>>
    BY <1>1, <2>1
  <2>3. /\ b = 20 => Loaded = Plain("false")
        /\ b = 21 => Loaded = Plain("true")
        /\ b = 22 => Loaded = Plain("none")
    BY <2>1, <2>2 DEF Loaded, CBOR_UINT, CBOR_NEGINT, CBOR_BYTES, CBOR_TEXT,
      CBOR_ARRAY, CBOR_MAP, CBOR_TAG, CBOR_7, BignumFollows, Float, Simple
  <2>4. Within = 0
    BY <2>1 DEF Within, CBOR_ARRAY, CBOR_MAP, CBOR_TAG, CBOR_7, BignumFollows
  <2> QED
    BY <1>1, <1>3, <2>1, <2>3, <2>4
<1> QED
  BY <1>2, <1>3, <1>8, <1>9 DEF ReadsAs

(* A bignum that dumps_bignum() has room for.                              *)
LEMMA BignumReads ==
  ASSUME Reading, NEW x \in Objects, IsBignum(x), ~Distorted(x),
         Agrees(0, BytesOf(x))
  PROVE  ReadsAs(x)
<1> DEFINE n == x.number
           tag == IF x.sign = "+" THEN CBOR_TAG_BIGNUM ELSE CBOR_TAG_NEGBIGNUM
           h == <<CBOR_BYTES + Len(n)>>
<1>1. x.kind = "int" /\ n \in Number /\ x.sign \in {"+", "-"}
  BY ObjectsAssumption DEF IsBignum
<1>2. Len(n) \in Nat /\ Len(n) <= 23 /\ n \in Numeral
  BY <1>1, NumberFacts DEF Distorted, BigBytes
<1>3. LowBytes(n) = n
  BY <1>2 DEF LowBytes, BigBytes
<1>4. BytesOf(x) = <<CBOR_TAG + tag, CBOR_BYTES + Len(n)>> \o n
      /\ SizeOf(x) = 2 + Len(n)
  BY <1>1, <1>3 DEF BytesOf, SizeOf
<1>5. ItemOf(x) = Item("int", n, x.sign, << >>) /\ Members(x) = 0
  BY <1>1 DEF ItemOf, Members
<1>6. tag \in 1 .. 23 /\ tag \in 0 .. 31
      /\ tag = (IF x.sign = "+" THEN 2 ELSE 3)
  BY DEF CBOR_TAG_BIGNUM, CBOR_TAG_NEGBIGNUM
<1> HIDE DEF n, tag
<1>7. CBOR_TAG \in MajorTypes /\ CBOR_TAG + tag \in Nat /\ CBOR_BYTES + Len(n) \in Nat
  BY <1>2, <1>6 DEF MajorTypes, CBOR_TAG, CBOR_BYTES
<1>8. h \in Numeral /\ Len(h) = 1 /\ h[1] = CBOR_BYTES + Len(n)
      /\ <<CBOR_TAG + tag>> \in Numeral /\ Len(<<CBOR_TAG + tag>>) = 1
  BY <1>7 DEF Numeral
<1>9. BytesOf(x) = <<CBOR_TAG + tag>> \o (h \o n)
  <2>1. <<CBOR_TAG + tag, CBOR_BYTES + Len(n)>> = <<CBOR_TAG + tag>> \o h
    BY <1>7
  <2> HIDE DEF h
  <2> QED
    BY <1>2, <1>4, <1>8, <2>1, ConcatAssociative DEF Numeral
<1> HIDE DEF h
<1>10. h \o n \in Numeral
  BY <1>2, <1>8, ConcatLength
<1>11. Agrees(1, h \o n)
  <2> DEFINE g == <<CBOR_TAG + tag>>
  <2>0. g \in Numeral /\ Len(g) = 1 /\ BytesOf(x) = g \o (h \o n)
    BY <1>8, <1>9
  <2> HIDE DEF g
  <2>1. Agrees(0, g \o (h \o n))
    BY <2>0
  <2>2. Agrees(0 + Len(g), h \o n)
    BY <1>10, <2>0, <2>1, AgreesConcat
  <2> QED
    BY <2>0, <2>2
<1>12. Agrees(1, h) /\ Agrees(2, n)
  <2>1. Agrees(1, h) /\ Agrees(1 + 1, n)
    BY <1>2, <1>8, <1>11, AgreesConcat
  <2> QED
    BY <2>1
<1>13. ASSUME CanRead(1) PROVE Info = tag /\ Type = CBOR_TAG
  BY <1>6, <1>7, <1>9, <1>10, <1>13, FirstRead
<1>14. ASSUME CanRead(1) PROVE Size = 1 /\ Aux = <<tag>> /\ BignumFollows
  <2>1. Info = tag /\ Type = CBOR_TAG
    BY <1>13, <1>14
  <2>2. Size = 1
    BY <1>6, <2>1 DEF Size, Following, CBOR_UINT8_FOLLOWS, CBOR_UINT16_FOLLOWS,
      CBOR_UINT32_FOLLOWS, CBOR_UINT64_FOLLOWS
  <2>3. Aux = <<tag>>
    BY <1>6, <2>1, DigitOfInfo DEF Aux, HandleInfoBits
  <2>4. tag \in {CBOR_TAG_BIGNUM, CBOR_TAG_NEGBIGNUM}
    BY DEF tag
  <2>5. BignumFollows
    BY <2>1, <2>3, <2>4 DEF BignumFollows
  <2> QED
    BY <2>2, <2>3, <2>5
<1>15. ASSUME CanRead(2)
       PROVE  CanRead(1) /\ BignumFits /\ Payload = 1 + Len(n) /\ Known
  <2>1. CanRead(1)
    BY <1>15, CanReadLess
  <2>2. Size = 1 /\ BignumFollows /\ Type = CBOR_TAG
    BY <1>13, <1>14, <2>1
  <2>3. CanRead(1 + Len(h)) /\ CanRead(Size + 1)
    BY <1>8, <1>15, <2>2
  <2>4. BytesAt(1, 1) = h
    BY <1>8, <1>12, <2>3, BytesThere
  <2>5. BignumHead = CBOR_BYTES + Len(n)
    BY <1>8, <2>2, <2>4 DEF BignumHead
  <2>6. BignumFits
    <3>1. \A m \in Nat : m <= 23 =>
            CBOR_BYTES + m \in CBOR_BYTES .. CBOR_BYTES + CBOR_UINT8_FOLLOWS - 1
      BY DEF CBOR_BYTES, CBOR_UINT8_FOLLOWS
    <3> QED
      BY <1>2, <2>3, <2>5, <3>1, Zenon DEF BignumFits
  <2>7. Type \notin {CBOR_BYTES, CBOR_TEXT} /\ Type # CBOR_7
    BY <2>2 DEF CBOR_TAG, CBOR_BYTES, CBOR_TEXT, CBOR_7
  <2>8. Payload = 1 + (BignumHead - CBOR_BYTES)
    BY <2>2, <2>6, <2>7, Zenon DEF Payload
  <2>9. Payload = 1 + Len(n)
    BY <1>2, <2>5, <2>8 DEF CBOR_BYTES
  <2> QED
    BY <2>1, <2>6, <2>7, <2>9 DEF Known
<1>16. Readable => CanRead(2)
  <2>1. ASSUME CanRead(1), ~BignumFits PROVE ~Known
    BY <1>14, <2>1 DEF Known
  <2>2. ASSUME CanRead(1), BignumFits PROVE CanRead(2)
    BY <1>14, <2>2 DEF BignumFits
  <2> QED
    BY <2>1, <2>2 DEF Readable
<1>17. Readable <=> CanRead(2 + Len(n))
  <2>1. CanRead(2 + Len(n)) => CanRead(2)
    BY <1>2, CanReadLess
  <2>2. ASSUME CanRead(2) PROVE Size = 1 /\ Size + Payload = 2 + Len(n)
    BY <1>2, <1>14, <1>15, <2>2
  <2> QED
    BY <1>15, <1>16, <2>1, <2>2 DEF Readable
<1>18. ASSUME Readable
       PROVE  Size + Payload = 2 + Len(n) /\ Loaded = ItemOf(x) /\ Within = 0
  <2>1. CanRead(1) /\ CanRead(2) /\ CanRead(2 + Len(n))
    BY <1>15, <1>16, <1>17, <1>18
  <2>2. Type = CBOR_TAG /\ Size = 1 /\ Aux = <<tag>> /\ BignumFollows
        /\ Payload = 1 + Len(n)
    BY <1>13, <1>14, <1>15, <2>1
  <2>3. Size + 1 = 2 /\ Payload - 1 = Len(n) /\ Size + Payload = 2 + Len(n)
    BY <1>2, <2>2
  <2>4. BytesAt(Size + 1, Payload - 1) = n
    BY <1>2, <1>12, <2>1, <2>3, BytesThere
  <2>5. Stripped(n) = n
    BY <1>1, StrippedNumber DEF n
  <2>6. Aux = <<CBOR_TAG_BIGNUM>> <=> x.sign = "+"
    BY <1>6, <2>2 DEF CBOR_TAG_BIGNUM
  <2>7. Loaded = Item("int", Stripped(BytesAt(Size + 1, Payload - 1)),
                      IF Aux = <<CBOR_TAG_BIGNUM>> THEN "+" ELSE "-", << >>)
    BY <2>2 DEF Loaded, CBOR_UINT, CBOR_NEGINT, CBOR_BYTES, CBOR_TEXT, CBOR_ARRAY,
      CBOR_MAP, CBOR_TAG, CBOR_7, BignumFollows, Float, Simple
  <2>8. Within = 0
    BY <2>2 DEF Within, CBOR_ARRAY, CBOR_MAP, CBOR_TAG, BignumFollows
  <2> QED
    BY <1>1, <1>5, <2>3, <2>4, <2>5, <2>6, <2>7, <2>8
<1> QED
  BY <1>2, <1>4, <1>5, <1>17, <1>18 DEF ReadsAs

(* Any object that is written, and not known to come back as another one.  *)
LEMMA ReadsBack ==
  ASSUME Reading, NEW x \in Objects, ~Distorted(x), ~Rejected(x),
         Agrees(0, BytesOf(x))
  PROVE  ReadsAs(x)
<1>1. x.kind \in {"none", "true", "false", "int", "float", "bytes", "text",
                 "list", "tuple", "dict", "tag", "other"}
  BY ObjectsAssumption
<1>2. x.kind # "other"
  BY DEF Rejected
<1> QED
  BY <1>1, <1>2, PlainReads, IntReads, BignumReads, FloatReads, StringReads,
    ContainerReads, TagReads

-----------------------------------------------------------------------------
(* The invariant *)

(* Where the k-th object that the first pass came to ends, and how many    *)
(* were then left.                                                         *)
End(k)  == IF k = 0 THEN 0 ELSE visited[k].end
Left(k) == IF k = 0 THEN 1 ELSE visited[k].left

Visits == [ob : Objects, end : Nat, left : Nat]

(* Every visit adds the bytes of its object, and what is inside it.        *)
VisitInv ==
  /\ visited \in Seq(Visits)
  /\ \A k \in 1 .. Len(visited) :
       /\ ~Rejected(visited[k].ob)
       /\ visited[k].end = End(k - 1) + SizeOf(visited[k].ob)
       /\ Left(k - 1) >= 1
       /\ ~Skipped(visited[k].ob) =>
            visited[k].left = Left(k - 1) - 1 + Members(visited[k].ob)
  /\ \A j, k \in 0 .. Len(visited) : j <= k => End(j) <= End(k)

(* How far the first pass has come, and then that it has come to the end.  *)
ProgressInv ==
  /\ pass = "count" => /\ End(Len(visited)) = pos
                       /\ Left(Len(visited)) = Occurrences(todo, Objects)
  /\ pass # "count" => /\ End(Len(visited)) = outlen
                       /\ Left(Len(visited)) = 0

(* What is on the trail was visited.                                       *)
VisitedInv ==
  \A j \in 1 .. Len(trail) - 1 :
    Head(trail[j].todo) \in Objects =>
      \E k \in 1 .. Len(visited) :
        visited[k].ob = Head(trail[j].todo) /\ End(k - 1) = trail[j].pos

(* What has been written is where it was visited.                          *)
WrittenInv ==
  pass # "count" =>
    \A k \in 1 .. Len(visited) :
      visited[k].end <= Len(out) =>
        \A i \in 1 .. SizeOf(visited[k].ob) :
          out[End(k - 1) + i] = BytesOf(visited[k].ob)[i]

WalkInv ==
  pass # "failed" => VisitInv /\ ProgressInv /\ VisitedInv /\ WrittenInv

(* loads() is where the first pass was after j objects.                    *)
InStep(j) ==
  /\ bpos = End(j) /\ bpos <= Len(raw) /\ needed = Left(j)
  /\ items = [i \in 1 .. j |-> ItemOf(visited[i].ob)]
  /\ loading = "done" => needed = 0
  /\ loading = "failed" => Len(raw) < Len(out)

LoadInv ==
  /\ loading \in {"idle", "read", "done", "failed"}
  /\ loading = "idle" => /\ raw = << >> /\ bpos = 0 /\ items = << >>
  /\ loading # "idle" => /\ pass = "done" /\ raw \in Numeral
                         /\ Len(raw) <= Len(out)
                         /\ \A i \in 1 .. Len(raw) : raw[i] = out[i]
                         /\ ~SomeDistorted =>
                              \E j \in 0 .. Len(visited) : InStep(j)
  /\ loading \in {"done", "failed"} /\ raw # << >> => ~reader

RInv == DInv /\ WalkInv /\ LoadInv

LEMMA VisitTypes ==
  ASSUME VisitInv
  PROVE  /\ Len(visited) \in Nat
         /\ \A k \in 0 .. Len(visited) : End(k) \in Nat /\ Left(k) \in Nat
         /\ \A k \in 1 .. Len(visited) :
              visited[k] \in Visits /\ k - 1 \in 0 .. Len(visited)
<1>1. visited \in Seq(Visits) /\ Len(visited) \in Nat
  BY DEF VisitInv
<1>2. \A k \in 1 .. Len(visited) : visited[k] \in Visits
  BY <1>1
<1>3. \A k \in 1 .. Len(visited) : visited[k].end \in Nat /\ visited[k].left \in Nat
  BY <1>2 DEF Visits
<1>4. ASSUME NEW k \in 0 .. Len(visited) PROVE End(k) \in Nat /\ Left(k) \in Nat
  <2>1. k # 0 => k \in 1 .. Len(visited)
    BY <1>1
  <2> QED
    BY <1>3, <2>1 DEF End, Left
<1> QED
  BY <1>1, <1>2, <1>4

(* loads() returns as many objects inside one as dumps() goes through.     *)
LEMMA MembersInside ==
  ASSUME NEW x \in Objects, ~Skipped(x)
  PROVE  Occurrences(Inside(x), Objects) = Members(x)
<1>1. /\ x.items \in Seq(Objects)
      /\ x.kind = "tag" => Len(x.items) = 1
      /\ x.kind = "dict" => /\ Sorted(x) \in Seq(Objects)
                            /\ Len(Sorted(x)) = Len(x.items)
  BY ObjectsAssumption
<1>2. Occurrences(x.items, Objects) = Len(x.items) /\ Len(x.items) \in Nat
  BY <1>1, OccurrencesAll
<1>3. CASE x.kind = "dict"
  <2> DEFINE s == InOrder(x)
  <2>1. s \in Seq(Objects) /\ Len(s) = Len(x.items)
    BY <1>1, <1>3 DEF InOrder
  <2>2. Members(x) = Len(s) /\ Inside(x) = KeyList(x)
    BY <1>3, <2>1 DEF Members, Inside
  <2> HIDE DEF s
  <2>3. Occurrences(s, Objects) = Len(s) /\ Len(s) \in Nat
    BY <2>1, OccurrencesAll
  <2>4. CASE sort_keys
    <3>1. KeyList(x) = Append(s, EndOfKeys)
      BY <2>4 DEF KeyList, s
    <3>2. Append(s, EndOfKeys) = s \o <<EndOfKeys>>
      BY <2>1
    <3>3. s \in Seq(Elements) /\ <<EndOfKeys>> \in Seq(Elements)
      BY <2>1 DEF Elements
    <3>4. EndOfKeys \notin Objects
      BY ObjectType
    <3>5. Occurrences(s \o <<EndOfKeys>>, Objects) =
            Occurrences(s, Objects) + Occurrences(<<EndOfKeys>>, Objects)
      BY <3>3, OccurrencesConcat
    <3>6. Occurrences(<<EndOfKeys>>, Objects) = 0
      BY <3>4, OccurrencesOne
    <3> QED
      BY <2>2, <2>3, <3>1, <3>2, <3>5, <3>6
  <2>5. CASE ~sort_keys
    BY <2>2, <2>3, <2>5 DEF KeyList, s
  <2> QED
    BY <2>4, <2>5
<1>4. CASE x.kind \in {"list", "tuple"} \/ x.kind = "tag"
  BY <1>1, <1>2, <1>4 DEF Members, Inside
<1>5. CASE x.kind \notin {"list", "tuple", "dict", "tag"}
  <2>1. Members(x) = 0 /\ Inside(x) = << >>
    BY <1>5 DEF Members, Inside
  <2>2. << >> \in Seq(Objects) /\ Len(<< >>) = 0
    OBVIOUS
  <2>3. Occurrences(<< >>, Objects) = 0
    BY <2>2, OccurrencesAll
  <2> QED
    BY <2>1, <2>3
<1> QED
  BY <1>3, <1>4, <1>5

(* What one more object leaves to be written. *)
LEMMA LeftAfter ==
  ASSUME NEW s \in Seq(Elements), s # << >>
  PROVE  LET n == Occurrences(Inside(Head(s)) \o Tail(s), Objects)
             m == Occurrences(s, Objects)
         IN  /\ m \in Nat /\ n \in Nat
             /\ Head(s) \in Objects => m >= 1
             /\ Head(s) \in Objects /\ ~Skipped(Head(s)) =>
                  n = m - 1 + Members(Head(s))
             /\ Head(s) = EndOfKeys => n = m
<1> DEFINE x == Head(s)
           n == Occurrences(Inside(x) \o Tail(s), Objects)
           m == Occurrences(s, Objects)
           i == Occurrences(Inside(x), Objects)
<1>1. x \in Elements /\ Tail(s) \in Seq(Elements)
      /\ Inside(x) \o Tail(s) \in Seq(Elements) /\ Inside(x) \in Seq(Elements)
  BY HeadAndTail, InsideType
<1>2. m \in Nat /\ n \in Nat /\ i \in Nat
  BY <1>1, OccurrencesType
<1>3. n = i + m - (IF x \in Objects THEN 1 ELSE 0)
  BY OccurrencesStep
<1>4. x \in Objects /\ ~Skipped(x) => i = Members(x)
  BY MembersInside
<1>5. x = EndOfKeys => x \notin Objects /\ i = 0
  <2>1. EndOfKeys \notin Objects
    BY ObjectType
  <2>2. x = EndOfKeys => x.kind = "end"
    BY DEF EndOfKeys, Object
  <2>3. x.kind = "end" => Inside(x) = << >>
    BY DEF Inside
  <2>4. << >> \in Seq(Objects) /\ Len(<< >>) = 0
    OBVIOUS
  <2>5. Occurrences(<< >>, Objects) = 0
    BY <2>4, OccurrencesAll
  <2> QED
    BY <2>1, <2>2, <2>3, <2>5
<1>6. x \in Objects => m >= 1
  <2>1. <<x>> \in Seq(Elements) /\ s = <<x>> \o Tail(s)
    BY <1>1
  <2> HIDE DEF x
  <2>2. Occurrences(<<x>> \o Tail(s), Objects) =
          Occurrences(<<x>>, Objects) + Occurrences(Tail(s), Objects)
    BY <1>1, <2>1, OccurrencesConcat
  <2>3. Occurrences(<<x>>, Objects) = IF x \in Objects THEN 1 ELSE 0
    BY OccurrencesOne
  <2>4. Occurrences(Tail(s), Objects) \in Nat
    BY <1>1, OccurrencesType
  <2>5. m = Occurrences(<<x>>, Objects) + Occurrences(Tail(s), Objects)
    BY <2>1, <2>2
  <2> HIDE DEF m
  <2> QED
    BY <2>3, <2>4, <2>5
<1> HIDE DEF x, n, m, i
<1>7. /\ m \in Nat /\ n \in Nat
      /\ x \in Objects => m >= 1
      /\ x \in Objects /\ ~Skipped(x) => n = m - 1 + Members(x)
      /\ x = EndOfKeys => n = m
  BY <1>2, <1>3, <1>4, <1>5, <1>6
<1> QED
  BY <1>7 DEF x, n, m

(* The first pass comes to an object. *)
LEMMA ObjectVisited ==
  ASSUME DInv, VisitInv, ProgressInv, VisitedInv, pass = "count",
         todo # << >>, Head(todo) \in Objects, ~Rejected(Head(todo)),
         Emit(Head(todo)), Visit
  PROVE  VisitInv' /\ ProgressInv' /\ VisitedInv'
<1> DEFINE x == Head(todo)
           r == [ob |-> x, end |-> pos', left |-> Occurrences(todo', Objects)]
<1>0. PICK n \in Nat : n = Len(visited)
  BY VisitTypes DEF VisitInv
<1>1. /\ todo' = Inside(x) \o Tail(todo) /\ pos' = pos + SizeOf(x)
      /\ pass' = "count" /\ trail' = Append(trail, Walk')
  BY DEF Emit, Walk
<1>2. todo \in Seq(Elements) /\ pos \in Nat /\ SizeOf(x) \in Nat
      /\ todo' \in Seq(Elements) /\ pos' \in Nat
  BY <1>1, HeadAndTail, SizeOfElement DEF DInv, Types
<1>3. /\ \A k \in 0 .. n : End(k) \in Nat /\ Left(k) \in Nat
      /\ visited \in Seq(Visits)
  BY <1>0, VisitTypes DEF VisitInv
<1>4. /\ Occurrences(todo, Objects) \in Nat /\ Occurrences(todo', Objects) \in Nat
      /\ Occurrences(todo, Objects) >= 1
      /\ ~Skipped(x) => Occurrences(todo', Objects)
                          = Occurrences(todo, Objects) - 1 + Members(x)
  BY <1>1, <1>2, LeftAfter
<1>5. visited' = Append(visited, r) /\ r \in Visits
  BY <1>2, <1>4 DEF Visit, ObjectsIn, Occurrences, Visits
<1>6. /\ visited' \in Seq(Visits) /\ Len(visited') = n + 1
      /\ visited'[n + 1] = r /\ \A k \in 1 .. n : visited'[k] = visited[k]
  BY <1>0, <1>3, <1>5
<1>7. \A k \in 0 .. n : End(k)' = End(k) /\ Left(k)' = Left(k)
  BY <1>3, <1>6 DEF End, Left
<1>8. End(n + 1)' = pos' /\ Left(n + 1)' = Occurrences(todo', Objects)
  BY <1>3, <1>6 DEF End, Left
<1>9. End(n) = pos /\ Left(n) = Occurrences(todo, Objects)
  BY <1>0 DEF ProgressInv
<1>10. r.ob = x /\ r.end = pos' /\ r.left = Occurrences(todo', Objects)
  OBVIOUS
<1> HIDE DEF r
<1>11. VisitInv'
  <2>1. ASSUME NEW k \in 1 .. Len(visited')
        PROVE  /\ ~Rejected(visited'[k].ob)
               /\ visited'[k].end = End(k - 1)' + SizeOf(visited'[k].ob)
               /\ Left(k - 1)' >= 1
               /\ ~Skipped(visited'[k].ob) =>
                    visited'[k].left = Left(k - 1)' - 1 + Members(visited'[k].ob)
    <3>1. CASE k = n + 1
      <4>1. k - 1 = n /\ n \in 0 .. n
        BY <1>3, <3>1
      <4>2. End(k - 1)' = pos /\ Left(k - 1)' = Occurrences(todo, Objects)
        BY <1>7, <1>9, <4>1
      <4> QED
        BY <1>1, <1>4, <1>6, <1>10, <3>1, <4>2
    <3>2. CASE k # n + 1
      <4>1. k \in 1 .. n /\ k - 1 \in 0 .. n
        BY <1>3, <1>6, <3>2
      <4>2. visited'[k] = visited[k] /\ End(k - 1)' = End(k - 1)
            /\ Left(k - 1)' = Left(k - 1)
        BY <1>6, <1>7, <4>1
      <4> QED
        BY <1>0, <4>1, <4>2 DEF VisitInv
    <3> QED
      BY <3>1, <3>2
  <2>2. ASSUME NEW j \in 0 .. Len(visited'), NEW k \in 0 .. Len(visited'), j <= k
        PROVE  End(j)' <= End(k)'
    <3>1. CASE k = n + 1
      <4>1. j # n + 1 => j \in 0 .. n /\ j <= n /\ n \in 0 .. n
        BY <1>3, <1>6
      <4>2. j # n + 1 => End(j)' <= pos /\ End(j)' \in Nat
        BY <1>0, <1>3, <1>7, <1>9, <4>1 DEF VisitInv
      <4>3. pos <= pos'
        BY <1>1, <1>2
      <4> QED
        BY <1>0, <1>2, <1>8, <3>1, <4>2, <4>3
    <3>2. CASE k # n + 1
      <4>1. j \in 0 .. n /\ k \in 0 .. n
        BY <1>3, <1>6, <2>2, <3>2
      <4> QED
        BY <1>0, <1>7, <2>2, <4>1 DEF VisitInv
    <3> QED
      BY <3>1, <3>2
  <2> QED
    BY <1>6, <2>1, <2>2 DEF VisitInv
<1>12. ProgressInv'
  BY <1>0, <1>1, <1>6, <1>10 DEF ProgressInv, End, Left
<1>13. VisitedInv'
  <2> DEFINE m == Len(trail)
  <2>1. trail \in Seq(Walks) /\ m \in Nat /\ m >= 1 /\ trail[m] = Walk
    BY DEF DInv, Types, TrailInv, CountInv, LastWalk
  <2>2. Walk' \in Walks
    BY <1>2 DEF Walk, Walks
  <2>3. Len(trail') = m + 1 /\ \A j \in 1 .. m : trail'[j] = trail[j]
    BY <1>1, <2>1, <2>2
  <2> HIDE DEF m
  <2>4. ASSUME NEW j \in 1 .. Len(trail') - 1, Head(trail'[j].todo) \in Objects
        PROVE  \E k \in 1 .. Len(visited') :
                 visited'[k].ob = Head(trail'[j].todo) /\ End(k - 1)' = trail'[j].pos
    <3>1. j \in 1 .. m /\ trail'[j] = trail[j]
      BY <2>1, <2>3
    <3>2. CASE j = m
      <4>1. trail'[j].todo = todo /\ trail'[j].pos = pos
        BY <2>1, <3>1, <3>2 DEF Walk
      <4>2. n + 1 \in 1 .. Len(visited') /\ (n + 1) - 1 = n /\ n \in 0 .. n
        BY <1>3, <1>6
      <4>3. End((n + 1) - 1)' = pos
        BY <1>7, <1>9, <4>2
      <4> QED
        BY <1>6, <1>10, <4>1, <4>2, <4>3
    <3>3. CASE j # m
      <4>1. j \in 1 .. Len(trail) - 1
        BY <2>1, <3>1, <3>3 DEF m
      <4>2. PICK k \in 1 .. n :
              visited[k].ob = Head(trail[j].todo) /\ End(k - 1) = trail[j].pos
        BY <1>0, <2>4, <3>1, <4>1 DEF VisitedInv
      <4>3. k \in 1 .. Len(visited') /\ k - 1 \in 0 .. n
        BY <1>3, <1>6
      <4>4. visited'[k] = visited[k] /\ End(k - 1)' = End(k - 1)
        BY <1>6, <1>7, <4>3
      <4> QED
        BY <3>1, <4>2, <4>3, <4>4
    <3> QED
      BY <3>2, <3>3
  <2> QED
    BY <2>4 DEF VisitedInv
<1> QED
  BY <1>11, <1>12, <1>13

(* The first pass comes to the end of a list of keys. *)
LEMMA EndVisited ==
  ASSUME DInv, VisitInv, ProgressInv, VisitedInv, pass = "count",
         todo # << >>, Head(todo) = EndOfKeys, Emit(Head(todo)), Visit
  PROVE  VisitInv' /\ ProgressInv' /\ VisitedInv'
<1>1. /\ todo' = Inside(EndOfKeys) \o Tail(todo) /\ pos' = pos + SizeOf(EndOfKeys)
      /\ pass' = "count" /\ trail' = Append(trail, Walk')
  BY DEF Emit, Walk
<1>2. SizeOf(EndOfKeys) = 0
  <2>1. EndOfKeys.kind = "end"
    BY DEF EndOfKeys, Object
  <2> QED
    BY <2>1 DEF SizeOf, IsBignum
<1>3. EndOfKeys \notin Objects
  BY ObjectType
<1>4. visited' = visited /\ pos' = pos
  BY <1>1, <1>2, <1>3 DEF Visit, DInv, Types
<1>5. todo \in Seq(Elements) /\ todo' \in Seq(Elements)
  BY <1>1, HeadAndTail DEF DInv, Types
<1>6. Occurrences(todo', Objects) = Occurrences(todo, Objects)
  BY <1>1, <1>5, LeftAfter
<1>7. \A k : End(k)' = End(k) /\ Left(k)' = Left(k)
  BY <1>4 DEF End, Left
<1>8. VisitInv'
  BY <1>4, <1>7 DEF VisitInv
<1>9. ProgressInv'
  BY <1>1, <1>4, <1>6, <1>7 DEF ProgressInv
<1>10. VisitedInv'
  <2>1. trail \in Seq(Walks) /\ Len(trail) \in Nat /\ trail[Len(trail)] = Walk
    BY DEF DInv, Types, TrailInv, CountInv, LastWalk
  <2>2. Walk' \in Walks
    BY <1>4, <1>5 DEF Walk, Walks, DInv, Types
  <2>3. Len(trail') = Len(trail) + 1 /\ \A j \in 1 .. Len(trail) : trail'[j] = trail[j]
    BY <1>1, <2>1, <2>2
  <2>4. ASSUME NEW j \in 1 .. Len(trail') - 1, Head(trail'[j].todo) \in Objects
        PROVE  j \in 1 .. Len(trail) - 1 /\ trail'[j] = trail[j]
    <3>1. j \in 1 .. Len(trail) /\ trail'[j] = trail[j]
      BY <2>1, <2>3
    <3>2. j # Len(trail)
      BY <1>3, <2>1, <2>4, <3>1 DEF Walk
    <3> QED
      BY <2>1, <3>1, <3>2
  <2> QED
    BY <1>4, <1>7, <2>4 DEF VisitedInv
<1> QED
  BY <1>8, <1>9, <1>10

(* The second pass puts the bytes of an object where the first one came to *)
(* it, and leaves what it has written alone.                               *)
LEMMA ObjectWritten ==
  ASSUME DInv, VisitInv, VisitedInv, WrittenInv, pass = "write",
         todo # << >>, Emit(Head(todo)), visited' = visited
  PROVE  WrittenInv'
<1> DEFINE x == Head(todo)
<1>1. /\ out' = out \o BytesOf(x) /\ pass' = "write"
      /\ BytesOf(x) \in Numeral /\ Len(BytesOf(x)) = SizeOf(x)
      /\ out \in Numeral /\ Len(out) = pos /\ pos \in Nat /\ x \in Elements
  BY HeadAndTail, SizeOfElement DEF Emit, DInv, Types, WriteInv
<1>2. /\ SizeOf(x) \in Nat /\ Len(out') = pos + SizeOf(x)
      /\ \A i \in 1 .. pos : out'[i] = out[i]
      /\ \A i \in 1 .. SizeOf(x) : out'[pos + i] = BytesOf(x)[i]
  <2> DEFINE b == BytesOf(x)
  <2>1. out' = out \o b /\ b \in Numeral /\ out \in Numeral
        /\ Len(b) = SizeOf(x) /\ Len(out) = pos
    BY <1>1
  <2> HIDE DEF b
  <2>2. /\ Len(b) \in Nat /\ Len(out') = Len(out) + Len(b)
        /\ \A i \in 1 .. Len(out) : out'[i] = out[i]
        /\ \A i \in 1 .. Len(b) : out'[Len(out) + i] = b[i]
    BY <2>1, ConcatParts
  <2> QED
    BY <2>1, <2>2 DEF b
<1>3. /\ Len(visited) \in Nat /\ \A k \in 0 .. Len(visited) : End(k) \in Nat
      /\ \A k \in 1 .. Len(visited) : visited[k] \in Visits
  BY VisitTypes
<1>4. \A k : End(k)' = End(k)
  BY DEF End
<1> SUFFICES ASSUME NEW k \in 1 .. Len(visited), visited[k].end <= Len(out'),
                    NEW i \in 1 .. SizeOf(visited[k].ob)
             PROVE  out'[End(k - 1) + i] = BytesOf(visited[k].ob)[i]
  BY <1>4 DEF WrittenInv
<1> DEFINE w == SizeOf(visited[k].ob)
<1>5. w \in Nat /\ k - 1 \in 0 .. Len(visited) /\ k \in 0 .. Len(visited) /\ k # 0
  BY <1>3, SizeIsLength DEF Visits
<1>6. visited[k].end = End(k - 1) + w /\ End(k) = visited[k].end
      /\ End(k - 1) \in Nat /\ End(k) \in Nat
  BY <1>3, <1>5 DEF VisitInv, End
<1>7. CASE visited[k].end <= pos
  <2>1. End(k - 1) + i \in 1 .. pos
    BY <1>1, <1>5, <1>6, <1>7
  <2>2. out[End(k - 1) + i] = BytesOf(visited[k].ob)[i]
    BY <1>1, <1>7 DEF WrittenInv
  <2> QED
    BY <1>2, <2>1, <2>2
<1>8. CASE ~(visited[k].end <= pos)
  <2>1. x \in Objects
    <3>1. SizeOf(x) > 0
      BY <1>1, <1>2, <1>6, <1>8
    <3>2. EndOfKeys.kind = "end"
      BY DEF EndOfKeys, Object
    <3>3. SizeOf(EndOfKeys) = 0
      BY <3>2 DEF SizeOf, IsBignum
    <3> QED
      BY <1>1, <3>1, <3>3 DEF Elements
  <2>2. PICK j \in 1 .. Len(trail) : trail[j] = Walk
    BY DEF DInv, WriteInv
  <2>3. Walk.todo = todo /\ Walk.pos = pos
    BY DEF Walk
  <2>4. j # Len(trail)
    BY <2>2, <2>3 DEF DInv, WriteInv, LastWalk
  <2>5. j \in 1 .. Len(trail) - 1
    BY <2>2, <2>4 DEF DInv, Types
  <2>6. PICK h \in 1 .. Len(visited) : visited[h].ob = x /\ End(h - 1) = pos
    BY <2>1, <2>2, <2>3, <2>5 DEF VisitedInv
  <2>7. h - 1 \in 0 .. Len(visited) /\ h \in 0 .. Len(visited) /\ h # 0
    BY <1>3
  <2>8. End(h) = pos + SizeOf(x)
    BY <2>6, <2>7 DEF VisitInv, End
  <2>9. ~(k <= h - 1)
    <3>1. k <= h - 1 => End(k) <= pos
      BY <1>5, <2>6, <2>7 DEF VisitInv
    <3> QED
      BY <1>6, <1>8, <3>1
  <2>10. ~(h <= k - 1)
    <3>1. h <= k - 1 => pos + SizeOf(x) <= End(k - 1)
      BY <1>5, <2>7, <2>8 DEF VisitInv
    <3>2. End(k - 1) + w <= pos + SizeOf(x) /\ w >= 1
      BY <1>2, <1>5, <1>6
    <3> HIDE DEF w
    <3> QED
      BY <1>1, <1>2, <1>5, <1>6, <3>1, <3>2
  <2>11. k = h
    BY <1>3, <2>9, <2>10
  <2> QED
    BY <1>2, <2>6, <2>11
<1> QED
  BY <1>7, <1>8

(* Any object, in either pass. *)
LEMMA EmitWalks ==
  ASSUME DInv, VisitInv, ProgressInv, VisitedInv, WrittenInv,
         Walking, ~Rejected(Head(todo)), Emit(Head(todo)), Visit
  PROVE  VisitInv' /\ ProgressInv' /\ VisitedInv' /\ WrittenInv'
<1>1. todo # << >> /\ pass' = pass /\ outlen' = outlen
      /\ (pass = "count" \/ pass = "write")
  BY DEF Walking, Emit
<1>2. Head(todo) \in Objects \/ Head(todo) = EndOfKeys
  BY <1>1, HeadAndTail DEF DInv, Types, Elements
<1>3. CASE pass = "count"
  <2>1. WrittenInv'
    BY <1>1, <1>3 DEF WrittenInv
  <2>2. VisitInv' /\ ProgressInv' /\ VisitedInv'
    BY <1>1, <1>2, <1>3, ObjectVisited, EndVisited
  <2> QED
    BY <2>1, <2>2
<1>4. CASE pass = "write"
  <2>1. visited' = visited /\ trail' = trail
    BY <1>4 DEF Visit, Emit
  <2>2. \A k : End(k)' = End(k) /\ Left(k)' = Left(k)
    BY <2>1 DEF End, Left
  <2>3. WrittenInv'
    BY <1>1, <1>4, <2>1, ObjectWritten
  <2>4. VisitInv'
    BY <2>1, <2>2 DEF VisitInv
  <2>5. ProgressInv'
    BY <1>1, <1>4, <2>1, <2>2 DEF ProgressInv
  <2>6. VisitedInv'
    BY <2>1, <2>2 DEF VisitedInv
  <2> QED
    BY <2>3, <2>4, <2>5, <2>6
<1> QED
  BY <1>1, <1>3, <1>4

LEMMA WalkInitial == DumpsInit /\ visited = << >> => WalkInv
<1> SUFFICES ASSUME DumpsInit, visited = << >> PROVE WalkInv
  OBVIOUS
<1>1. /\ ob \in Objects /\ pass = "count" /\ todo = <<ob>> /\ pos = 0
      /\ trail = <<[todo |-> todo, pos |-> pos]>> /\ visited = << >>
      /\ Len(visited) = 0 /\ Len(trail) = 1
  BY DEF DumpsInit
<1>2. VisitInv
  <2>1. \A k \in 0 .. 0 : k = 0
    OBVIOUS
  <2>2. << >> \in Seq(Visits) /\ 1 .. 0 = {}
    OBVIOUS
  <2>3. \A j, k \in 0 .. 0 : End(j) <= End(k)
    BY <2>1 DEF End
  <2> QED
    BY <1>1, <2>2, <2>3 DEF VisitInv
<1>3. ProgressInv
  <2>1. Occurrences(<<ob>>, Objects) = 1
    BY <1>1, OccurrencesOne
  <2> QED
    BY <1>1, <2>1 DEF ProgressInv, End, Left
<1>4. VisitedInv /\ WrittenInv
  BY <1>1 DEF VisitedInv, WrittenInv
<1> QED
  BY <1>2, <1>3, <1>4 DEF WalkInv

LEMMA WalkStep == DInv /\ WalkInv /\ DumpsNext /\ Visit => WalkInv'
<1> SUFFICES ASSUME DInv, WalkInv, DumpsNext, Visit PROVE WalkInv'
  OBVIOUS
<1>0. pass # "failed"
  BY DEF DumpsNext, DumpsOne, DumpsDict, ReleaseKeys, Reject, SecondPass,
    NoMemory, Finish, Walking
<1>1. VisitInv /\ ProgressInv /\ VisitedInv /\ WrittenInv
  BY <1>0 DEF WalkInv
<1>2. CASE DumpsOne \/ DumpsDict \/ ReleaseKeys
  <2>1. Walking /\ ~Rejected(Head(todo)) /\ Emit(Head(todo))
    BY <1>2 DEF DumpsOne, DumpsDict, ReleaseKeys, Rejected
  <2> QED
    BY <1>1, <2>1, EmitWalks DEF WalkInv
<1>3. CASE Reject \/ NoMemory
  BY <1>3 DEF Reject, NoMemory, WalkInv
<1>4. CASE SecondPass
  <2>1. /\ pass = "count" /\ todo = << >> /\ pass' = "write" /\ outlen' = pos
        /\ visited' = visited /\ trail' = trail /\ out' = out /\ out = << >>
    BY <1>4 DEF SecondPass, Visit, DInv, CountInv
  <2>2. \A k : End(k)' = End(k) /\ Left(k)' = Left(k)
    BY <2>1 DEF End, Left
  <2>3. VisitInv' /\ VisitedInv'
    BY <1>1, <2>1, <2>2 DEF VisitInv, VisitedInv
  <2>4. Occurrences(todo, Objects) = 0
    <3>1. << >> \in Seq(Objects) /\ Len(<< >>) = 0
      OBVIOUS
    <3> QED
      BY <2>1, <3>1, OccurrencesAll
  <2>5. ProgressInv'
    BY <1>1, <2>1, <2>2, <2>4 DEF ProgressInv
  <2>6. WrittenInv'
    <3> SUFFICES ASSUME NEW k \in 1 .. Len(visited), visited[k].end <= 0
                 PROVE  ~(\E i \in 1 .. SizeOf(visited[k].ob) : TRUE)
      BY <2>1, <2>2 DEF WrittenInv
    <3>1. visited[k] \in Visits /\ k - 1 \in 0 .. Len(visited) /\ End(k - 1) \in Nat
      BY <1>1, VisitTypes
    <3>2. SizeOf(visited[k].ob) \in Nat
      BY <3>1, SizeIsLength DEF Visits
    <3>3. visited[k].end = End(k - 1) + SizeOf(visited[k].ob)
      BY <1>1 DEF VisitInv
    <3> QED
      BY <3>1, <3>2, <3>3
  <2> QED
    BY <2>3, <2>5, <2>6 DEF WalkInv
<1>5. CASE Finish
  <2>1. /\ pass = "write" /\ pass' \in {"done", "failed", "raised"}
    BY <1>5, Zenon DEF Finish, Outcome
  <2>2. UNCHANGED <<visited, trail, out, outlen>>
    BY <1>5, <2>1 DEF Finish, Visit, walkVars
  <2>3. \A k : End(k)' = End(k) /\ Left(k)' = Left(k)
    BY <2>2 DEF End, Left
  <2>4. VisitInv' /\ VisitedInv'
    BY <1>1, <2>2, <2>3 DEF VisitInv, VisitedInv
  <2>5. ProgressInv'
    BY <1>1, <2>1, <2>2, <2>3 DEF ProgressInv
  <2>6. WrittenInv'
    BY <1>1, <2>1, <2>2, <2>3 DEF WrittenInv
  <2> QED
    BY <2>4, <2>5, <2>6 DEF WalkInv
<1> QED
  BY <1>2, <1>3, <1>4, <1>5 DEF DumpsNext

-----------------------------------------------------------------------------
(* Reading it all *)

(* When dumps() is done, the bytes of every object are in their place.     *)
LEMMA AllWritten ==
  ASSUME DInv, WalkInv, pass = "done"
  PROVE  /\ Len(visited) \in Nat /\ Len(visited) >= 1
         /\ Left(Len(visited)) = 0 /\ End(Len(visited)) = Len(out)
         /\ Len(out) \in Nat
         /\ \A k \in 0 .. Len(visited) :
              End(k) \in Nat /\ End(k) <= Len(out) /\ Left(k) \in Nat
         /\ \A k \in 1 .. Len(visited) :
              /\ visited[k].ob \in Objects /\ ~Rejected(visited[k].ob)
              /\ End(k) = End(k - 1) + SizeOf(visited[k].ob)
              /\ Left(k - 1) >= 1
              /\ ~Skipped(visited[k].ob) =>
                   Left(k) = Left(k - 1) - 1 + Members(visited[k].ob)
              /\ \A i \in 1 .. SizeOf(visited[k].ob) :
                   out[End(k - 1) + i] = BytesOf(visited[k].ob)[i]
<1>1. VisitInv /\ ProgressInv /\ WrittenInv
  BY DEF WalkInv
<1>2. Len(out) = outlen /\ Len(out) \in Nat
  BY DEF DInv, Types, EndInv, Numeral
<1>3. /\ Len(visited) \in Nat /\ Left(Len(visited)) = 0
      /\ End(Len(visited)) = Len(out)
      /\ \A k \in 0 .. Len(visited) : End(k) \in Nat /\ Left(k) \in Nat
      /\ \A k \in 1 .. Len(visited) : visited[k] \in Visits
  BY <1>1, <1>2, VisitTypes DEF ProgressInv
<1>4. Len(visited) >= 1
  BY <1>3 DEF Left
<1>5. \A k \in 0 .. Len(visited) : End(k) <= Len(out)
  BY <1>1, <1>3 DEF VisitInv
<1>6. ASSUME NEW k \in 1 .. Len(visited)
      PROVE  /\ visited[k].ob \in Objects
             /\ End(k) = visited[k].end /\ Left(k) = visited[k].left
             /\ visited[k].end <= Len(out)
  <2>1. k \in 0 .. Len(visited) /\ k # 0
    BY <1>3
  <2> QED
    BY <1>3, <1>5, <2>1 DEF Visits, End, Left
<1> QED
  BY <1>1, <1>2, <1>3, <1>4, <1>5, <1>6 DEF VisitInv, WrittenInv

(* loads() comes to an object that dumps() wrote. *)
LEMMA ComesTo ==
  ASSUME DInv, WalkInv, LoadInv, loading = "read", needed > 0, ~SomeDistorted,
         NEW j \in 0 .. Len(visited), InStep(j)
  PROVE  /\ j + 1 \in 1 .. Len(visited) /\ Reading
         /\ visited[j + 1].ob \in Objects /\ ~Skipped(visited[j + 1].ob)
         /\ ReadsAs(visited[j + 1].ob)
<1> DEFINE x == visited[j + 1].ob
<1>1. /\ pass = "done" /\ raw \in Numeral /\ Len(raw) <= Len(out)
      /\ \A i \in 1 .. Len(raw) : raw[i] = out[i]
      /\ bpos = End(j) /\ bpos <= Len(raw) /\ needed = Left(j)
  BY DEF LoadInv, InStep
<1>2. j # Len(visited) /\ j \in Nat /\ Len(visited) \in Nat /\ End(j) \in Nat
  BY <1>1, AllWritten
<1>3. j + 1 \in 1 .. Len(visited) /\ (j + 1) - 1 = j
  BY <1>2
<1>4. /\ x \in Objects /\ ~Rejected(x)
      /\ \A i \in 1 .. SizeOf(x) : out[End(j) + i] = BytesOf(x)[i]
  <2> HIDE DEF x
  <2>1. \A k \in 1 .. Len(visited) :
          /\ visited[k].ob \in Objects /\ ~Rejected(visited[k].ob)
          /\ \A i \in 1 .. SizeOf(visited[k].ob) :
               out[End(k - 1) + i] = BytesOf(visited[k].ob)[i]
    BY <1>1, AllWritten
  <2> QED
    BY <1>3, <2>1 DEF x
<1>5. ~Distorted(x) /\ ~Skipped(x)
  <2>1. visited \in Seq(Visits)
    BY <1>1 DEF WalkInv, VisitInv
  <2>2. j + 1 \in DOMAIN visited
    BY <1>3, <2>1
  <2> QED
    BY <2>2 DEF SomeDistorted, Distorted
<1>6. Reading
  BY <1>1, <1>2 DEF Reading
<1> HIDE DEF x
<1>7. Agrees(0, BytesOf(x))
  <2>1. Len(BytesOf(x)) = SizeOf(x) /\ SizeOf(x) \in Nat /\ Len(raw) \in Nat
    BY <1>1, <1>4, SizeIsLength DEF Numeral
  <2> SUFFICES ASSUME NEW i \in 1 .. SizeOf(x), bpos + 0 + i <= Len(raw)
               PROVE  raw[bpos + 0 + i] = BytesOf(x)[i]
    BY <2>1 DEF Agrees
  <2>2. bpos + 0 + i = End(j) + i /\ End(j) + i \in 1 .. Len(raw)
    BY <1>1, <1>2, <2>1
  <2> QED
    BY <1>1, <1>4, <2>2
<1>8. ReadsAs(x)
  BY <1>4, <1>5, <1>6, <1>7, ReadsBack
<1> QED
  BY <1>3, <1>4, <1>5, <1>6, <1>8 DEF x

LEMMA LoadInitial == LoadsInit => LoadInv
BY DEF LoadsInit, LoadInv

(* Nothing of dumps() moves while loads() is at work.                      *)
LEMMA DumpsIdle ==
  ASSUME LoadInv, loading # "idle" PROVE ~DumpsNext
BY DEF LoadInv, DumpsNext, DumpsOne, DumpsDict, ReleaseKeys, Reject, SecondPass,
  NoMemory, Finish, Walking

LEMMA DumpsLoads ==
  ASSUME LoadInv, DumpsNext, UNCHANGED loadsVars PROVE LoadInv'
<1>1. loading = "idle"
  BY DumpsIdle
<1> QED
  BY <1>1 DEF LoadInv, loadsVars

LEMMA GiveLoads ==
  ASSUME DInv, WalkInv, LoadInv, GiveToLoads PROVE LoadInv'
<1>1. PICK n \in 0 .. Len(out) : StartLoads(SubSeq(out, 1, n))
  BY DEF GiveToLoads
<1>2. /\ loading = "idle" /\ raw' = SubSeq(out, 1, n) /\ needed' = 1
      /\ loading' = (IF raw' = << >> THEN "failed" ELSE "read")
      /\ bpos' = bpos /\ items' = items /\ bpos = 0 /\ items = << >>
      /\ pass' = "done" /\ pass = "done" /\ out' = out /\ visited' = visited
  BY <1>1 DEF StartLoads, GiveToLoads, LoadInv, dumpsVars, walkVars
<1>3. /\ out \in Numeral /\ Len(out) \in Nat /\ raw' \in Numeral /\ Len(raw') = n
      /\ \A i \in 1 .. n : raw'[i] = out[i]
  BY <1>2 DEF DInv, Types, Numeral
<1>4. ASSUME ~SomeDistorted PROVE Len(out) >= 1
  <2> DEFINE x == visited[1].ob
  <2>1. /\ Len(visited) \in Nat /\ Len(visited) >= 1
        /\ End(1) \in Nat /\ End(1) <= Len(out) /\ End(0) = 0
        /\ x \in Objects /\ ~Rejected(x) /\ End(1) = End(0) + SizeOf(x)
    <3>1. /\ Len(visited) \in Nat /\ Len(visited) >= 1
          /\ \A k \in 0 .. Len(visited) : End(k) \in Nat /\ End(k) <= Len(out)
          /\ \A k \in 1 .. Len(visited) :
               /\ visited[k].ob \in Objects /\ ~Rejected(visited[k].ob)
               /\ End(k) = End(k - 1) + SizeOf(visited[k].ob)
      BY <1>2, AllWritten
    <3>2. 1 \in 0 .. Len(visited) /\ 1 \in 1 .. Len(visited) /\ 1 - 1 = 0
      BY <3>1
    <3> QED
      BY <3>1, <3>2 DEF End
  <2>2. ~Distorted(x)
    <3>1. visited \in Seq(Visits)
      BY <1>2 DEF WalkInv, VisitInv
    <3>2. 1 \in DOMAIN visited
      BY <2>1, <3>1
    <3> QED
      BY <1>4, <3>2 DEF SomeDistorted
  <2> HIDE DEF x
  <2>3. raw = << >> /\ bpos = 0 /\ Len(raw) = 0
    BY <1>2 DEF LoadInv
  <2>4. Reading
    BY <2>3 DEF Reading, Numeral
  <2>5. BytesOf(x) \in Numeral
    BY <2>1, SizeIsLength
  <2>6. Agrees(0, BytesOf(x))
    BY <2>3, <2>5 DEF Agrees, Numeral
  <2>7. SizeOf(x) \in Nat /\ SizeOf(x) >= 1
    BY <2>1, <2>2, <2>4, <2>6, ReadsBack DEF ReadsAs
  <2> QED
    BY <1>3, <2>1, <2>7
<1>5. ~SomeDistorted => InStep(0)'
  <2>1. End(0)' = 0 /\ Left(0)' = 1
    BY DEF End, Left
  <2>2. items' = [i \in 1 .. 0 |-> ItemOf(visited'[i].ob)]
    BY <1>2
  <2>3. bpos' = 0 /\ 0 <= Len(raw') /\ needed' = 1 /\ loading' # "done"
    BY <1>2, <1>3
  <2>4. ~SomeDistorted /\ loading' = "failed" => Len(raw') < Len(out')
    <3>1. loading' = "failed" => Len(raw') = 0
      BY <1>2
    <3> QED
      BY <1>2, <1>3, <1>4, <3>1
  <2> QED
    BY <2>1, <2>2, <2>3, <2>4 DEF InStep
<1>6. 0 \in 0 .. Len(visited')
  BY <1>2, AllWritten
<1>7. SomeDistorted' <=> SomeDistorted
  BY <1>2 DEF SomeDistorted
<1> QED
  BY <1>2, <1>3, <1>5, <1>6, <1>7 DEF LoadInv

LEMMA ItemLoads ==
  ASSUME DInv, WalkInv, LoadInv, LoadsItem, UNCHANGED <<dumpsVars, visited>>
  PROVE  LoadInv'
<1>1. /\ loading = "read" /\ needed > 0 /\ Readable
      /\ bpos' = bpos + (Size + Payload) /\ items' = Append(items, Loaded)
      /\ needed' = needed - 1 + Within
      /\ UNCHANGED <<loading, raw, reader, visited, pass, out>>
  BY DEF LoadsItem, dumpsVars, walkVars
<1>2. SomeDistorted' <=> SomeDistorted
  BY <1>1 DEF SomeDistorted
<1>3. \A k : End(k)' = End(k) /\ Left(k)' = Left(k)
  BY <1>1 DEF End, Left
<1>4. ASSUME ~SomeDistorted PROVE \E j \in 0 .. Len(visited) : InStep(j)'
  <2>1. PICK j \in 0 .. Len(visited) : InStep(j)
    BY <1>1, <1>4 DEF LoadInv
  <2> DEFINE x == visited[j + 1].ob
  <2>2. /\ j + 1 \in 1 .. Len(visited) /\ Reading /\ x \in Objects /\ ~Skipped(x)
        /\ ReadsAs(x)
    BY <1>1, <1>4, <2>1, ComesTo
  <2>3. /\ Size + Payload = SizeOf(x) /\ Loaded = ItemOf(x) /\ Within = Members(x)
        /\ CanRead(SizeOf(x)) /\ SizeOf(x) \in Nat
    BY <1>1, <2>2 DEF ReadsAs
  <2>4. /\ bpos = End(j) /\ needed = Left(j)
        /\ items = [i \in 1 .. j |-> ItemOf(visited[i].ob)]
    BY <2>1 DEF InStep
  <2>5. /\ End(j + 1) = End(j) + SizeOf(x)
        /\ Left(j + 1) = Left(j) - 1 + Members(x)
        /\ Len(visited) \in Nat /\ j \in Nat /\ j + 1 \in 0 .. Len(visited)
    <3>1. pass = "done"
      BY <1>1 DEF LoadInv
    <3>2. (j + 1) - 1 = j /\ j \in Nat
      BY <2>1
    <3>3. /\ Len(visited) \in Nat
          /\ \A k \in 1 .. Len(visited) :
               /\ End(k) = End(k - 1) + SizeOf(visited[k].ob)
               /\ ~Skipped(visited[k].ob) =>
                     Left(k) = Left(k - 1) - 1 + Members(visited[k].ob)
      BY <3>1, AllWritten
    <3>4. j + 1 \in 0 .. Len(visited)
      BY <2>2, <3>3
    <3> QED
      BY <2>2, <3>2, <3>3, <3>4
  <2>6. bpos' = End(j + 1) /\ bpos' <= Len(raw)
    <3>1. bpos \in Nat /\ Len(raw) \in Nat
      BY <2>2 DEF Reading, Numeral
    <3>2. bpos' = bpos + SizeOf(x)
      BY <1>1, <2>3
    <3> QED
      BY <2>3, <2>4, <2>5, <3>1, <3>2 DEF CanRead
  <2>7. needed' = Left(j + 1)
    BY <1>1, <2>3, <2>4, <2>5
  <2>8. items' = [i \in 1 .. j + 1 |-> ItemOf(visited[i].ob)]
    <3> DEFINE f == [i \in 1 .. j |-> ItemOf(visited[i].ob)]
               T == {ItemOf(visited[i].ob) : i \in 1 .. j + 1}
    <3>1. f \in Seq(T) /\ Len(f) = j
      BY <2>5
    <3>2. Loaded = ItemOf(visited[j + 1].ob)
      BY <2>3
    <3>3. items' = Append(f, ItemOf(visited[j + 1].ob))
      BY <1>1, <2>4, <3>2
    <3> QED
      BY <2>5, <3>1, <3>3
  <2>9. InStep(j + 1)'
    BY <1>1, <1>3, <2>6, <2>7, <2>8 DEF InStep
  <2> QED
    BY <2>5, <2>9
<1> QED
  BY <1>1, <1>2, <1>4 DEF LoadInv

LEMMA FailLoads ==
  ASSUME DInv, WalkInv, LoadInv, LoadsFail, UNCHANGED <<dumpsVars, visited>>
  PROVE  LoadInv'
<1>1. /\ loading = "read" /\ needed > 0 /\ ~Readable
      /\ loading' = "failed" /\ reader' = FALSE
      /\ UNCHANGED <<raw, bpos, needed, items, visited, pass, out>>
  BY DEF LoadsFail, dumpsVars, walkVars
<1>2. SomeDistorted' <=> SomeDistorted
  BY <1>1 DEF SomeDistorted
<1>3. \A k : End(k)' = End(k) /\ Left(k)' = Left(k)
  BY <1>1 DEF End, Left
<1>4. ASSUME ~SomeDistorted PROVE \E j \in 0 .. Len(visited) : InStep(j)'
  <2>1. PICK j \in 0 .. Len(visited) : InStep(j)
    BY <1>1, <1>4 DEF LoadInv
  <2> DEFINE x == visited[j + 1].ob
  <2>2. j + 1 \in 1 .. Len(visited) /\ Reading /\ ReadsAs(x)
    BY <1>1, <1>4, <2>1, ComesTo
  <2>3. ~CanRead(SizeOf(x)) /\ SizeOf(x) \in Nat
    BY <1>1, <2>2 DEF ReadsAs
  <2>4. /\ End(j + 1) = End(j) + SizeOf(x) /\ End(j + 1) <= Len(out)
        /\ Len(out) \in Nat
    <3>1. pass = "done"
      BY <1>1 DEF LoadInv
    <3>2. (j + 1) - 1 = j
      BY <2>1
    <3>3. /\ Len(visited) \in Nat /\ Len(out) \in Nat
          /\ \A k \in 0 .. Len(visited) : End(k) <= Len(out)
          /\ \A k \in 1 .. Len(visited) : End(k) = End(k - 1) + SizeOf(visited[k].ob)
      BY <3>1, AllWritten
    <3>4. j + 1 \in 0 .. Len(visited)
      BY <2>2, <3>3
    <3> QED
      BY <2>2, <3>2, <3>3, <3>4
  <2>5. bpos = End(j) /\ bpos \in Nat /\ Len(raw) \in Nat
    BY <2>1, <2>2 DEF InStep, Reading, Numeral
  <2> HIDE DEF x
  <2>6. Len(raw) < Len(out)
    BY <2>3, <2>4, <2>5 DEF CanRead
  <2> QED
    BY <1>1, <1>3, <2>1, <2>6 DEF InStep
<1> QED
  BY <1>1, <1>2, <1>4 DEF LoadInv

LEMMA DoneLoads ==
  ASSUME LoadInv, LoadsDone, UNCHANGED <<dumpsVars, visited>>
  PROVE  LoadInv'
<1>1. /\ loading = "read" /\ needed = 0 /\ loading' = "done" /\ reader' = FALSE
      /\ UNCHANGED <<raw, bpos, needed, items, visited, pass, out>>
  BY DEF LoadsDone, dumpsVars, walkVars
<1>2. SomeDistorted' <=> SomeDistorted
  BY <1>1 DEF SomeDistorted
<1>3. \A k : End(k)' = End(k) /\ Left(k)' = Left(k)
  BY <1>1 DEF End, Left
<1>4. ASSUME NEW j, InStep(j) PROVE InStep(j)'
  BY <1>1, <1>3, <1>4 DEF InStep
<1> QED
  BY <1>1, <1>2, <1>4 DEF LoadInv

-----------------------------------------------------------------------------
(* The theorems *)

LEMMA RoundTripInvariant == Spec => []RInv
<1>1. Init => RInv
  BY DumpsInitial, WalkInitial, LoadInitial DEF Init, RInv
<1>2. RInv /\ [Next]_vars => RInv'
  <2> SUFFICES ASSUME RInv, [Next]_vars PROVE RInv'
    OBVIOUS
  <2>0. DInv /\ WalkInv /\ LoadInv
    BY DEF RInv
  <2>1. CASE DumpsNext /\ Visit /\ UNCHANGED loadsVars
    BY <2>0, <2>1, DumpsStep, WalkStep, DumpsLoads DEF RInv
  <2>2. ASSUME UNCHANGED <<dumpsVars, visited>> PROVE DInv' /\ WalkInv'
    <3>1. DInv'
      BY <2>0, <2>2, DumpsStep
    <3>2. UNCHANGED <<pass, pos, outlen, todo, trail, out, visited>>
      BY <2>2 DEF dumpsVars, walkVars
    <3>3. \A k : End(k)' = End(k) /\ Left(k)' = Left(k)
      BY <3>2 DEF End, Left
    <3>4. /\ VisitInv => VisitInv'
          /\ ProgressInv => ProgressInv'
          /\ VisitedInv => VisitedInv'
          /\ WrittenInv => WrittenInv'
      BY <3>2, <3>3 DEF VisitInv, ProgressInv, VisitedInv, WrittenInv
    <3> QED
      BY <2>0, <3>1, <3>2, <3>4 DEF WalkInv
  <2>3. CASE GiveToLoads
    BY <2>0, <2>2, <2>3, GiveLoads DEF GiveToLoads, RInv
  <2>4. CASE LoadsNext /\ UNCHANGED <<dumpsVars, visited>>
    BY <2>0, <2>2, <2>4, ItemLoads, FailLoads, DoneLoads DEF LoadsNext, RInv
  <2>5. CASE UNCHANGED vars
    <3>1. UNCHANGED <<dumpsVars, visited>> /\ UNCHANGED loadsVars
      BY <2>5 DEF vars
    <3>2. UNCHANGED <<loading, raw, bpos, reader, needed, items, visited, pass, out>>
      BY <3>1 DEF loadsVars, dumpsVars, walkVars
    <3>3. SomeDistorted' <=> SomeDistorted
      BY <3>2 DEF SomeDistorted
    <3>4. \A j : InStep(j)' <=> InStep(j)
      BY <3>2 DEF InStep, End, Left
    <3>5. LoadInv'
      BY <2>0, <3>2, <3>3, <3>4 DEF LoadInv
    <3> QED
      BY <2>2, <3>1, <3>5 DEF RInv
  <2> QED
    BY <2>1, <2>3, <2>4, <2>5 DEF Next
<1> QED
  BY <1>1, <1>2, PTL DEF Spec

(* loads() of what dumps() returned neither fails nor leaves anything      *)
(* unread, and returns the objects that were encoded, nested as they were: *)
(* whatever they are, but for the few that are known to be distorted.      *)
THEOREM RoundTripIsExact == Spec => []RoundTripHolds
<1>1. RInv => RoundTripHolds
  <2> SUFFICES ASSUME RInv, ~SomeDistorted, Whole, loading \in {"done", "failed"}
               PROVE  loading # "failed" /\ bpos = Len(raw) /\ items = Encoded
    BY DEF RoundTripHolds
  <2>1. pass = "done" /\ DInv /\ WalkInv /\ raw = out
    BY DEF RInv, LoadInv, Whole
  <2>2. PICK j \in 0 .. Len(visited) : InStep(j)
    BY DEF RInv, LoadInv
  <2>3. /\ Len(visited) \in Nat /\ Len(out) \in Nat /\ End(Len(visited)) = Len(out)
        /\ \A k \in 1 .. Len(visited) : Left(k - 1) >= 1
    BY <2>1, AllWritten
  <2>4. loading = "done" /\ Left(j) = 0
    BY <2>1, <2>2, <2>3 DEF InStep
  <2>5. j = Len(visited)
    <3>1. j # Len(visited) => j + 1 \in 1 .. Len(visited) /\ (j + 1) - 1 = j
      BY <2>3
    <3> QED
      BY <2>3, <2>4, <3>1
  <2>6. DOMAIN visited = 1 .. Len(visited)
    BY <2>1 DEF WalkInv, VisitInv
  <2> QED
    BY <2>1, <2>2, <2>3, <2>4, <2>5, <2>6 DEF InStep, Encoded
<1> QED
  BY <1>1, RoundTripInvariant, PTL

(* A part of what dumps() returned is never taken for an object, wherever  *)
(* it was cut off, and the reader made for it is freed.                    *)
THEOREM PrefixIsRefused == Spec => []PrefixRefused
<1>1. RInv => PrefixRefused
  <2> SUFFICES ASSUME RInv PROVE PrefixRefused
    OBVIOUS
  <2>1. ASSUME ~SomeDistorted, loading = "done" PROVE Whole
    <3>1. /\ pass = "done" /\ DInv /\ WalkInv /\ raw \in Numeral
          /\ Len(raw) <= Len(out) /\ \A i \in 1 .. Len(raw) : raw[i] = out[i]
      BY <2>1 DEF RInv, LoadInv
    <3>2. PICK j \in 0 .. Len(visited) : InStep(j)
      BY <2>1 DEF RInv, LoadInv
    <3>3. /\ Len(visited) \in Nat /\ Len(out) \in Nat /\ End(Len(visited)) = Len(out)
          /\ \A k \in 1 .. Len(visited) : Left(k - 1) >= 1
      BY <3>1, AllWritten
    <3>4. Left(j) = 0 /\ bpos = End(j) /\ bpos <= Len(raw)
      BY <2>1, <3>2 DEF InStep
    <3>5. j = Len(visited)
      <4>1. j # Len(visited) => j + 1 \in 1 .. Len(visited) /\ (j + 1) - 1 = j
        BY <3>3
      <4> QED
        BY <3>3, <3>4, <4>1
    <3>6. Len(raw) = Len(out) /\ raw \in Seq(Nat) /\ out \in Seq(Nat)
      BY <3>1, <3>3, <3>4, <3>5 DEF DInv, Types, Numeral
    <3> QED
      BY <3>1, <3>6 DEF Whole
  <2>2. loading \in {"done", "failed"} /\ raw # << >> => ~reader
    BY DEF RInv, LoadInv
  <2> QED
    BY <2>1, <2>2 DEF PrefixRefused
<1> QED
  BY <1>1, RoundTripInvariant, PTL

(* What dumps() does is what it does on its own, so all that is proved of  *)
(* DumpsSpec is true here.                                                 *)
THEOREM RoundTripDumps == Spec => DumpsSpec
<1>1. Init => DumpsInit
  BY DEF Init
<1>2. [Next]_vars => [DumpsNext]_dumpsVars
  BY DEF Next, GiveToLoads, vars
<1> QED
  BY <1>1, <1>2, PTL DEF Spec, DumpsSpec
=============================================================================
