---------------------------- MODULE MCRoundTrip -----------------------------
(***************************************************************************)
(* RoundTrip for every kind of object, with numbers and lengths on both    *)
(* sides of each boundary that the code compares them with.                *)
(***************************************************************************)
EXTENDS RoundTrip, PyDumps

(* The order of keys, which are of one kind where they can be sorted:      *)
(* ints, or strings by their bytes.                                        *)
Shorter(s, t) ==
  \E i \in 1 .. Len(t) :
    /\ i <= Len(s) + 1
    /\ \A j \in 1 .. i - 1 : s[j] = t[j]
    /\ i <= Len(s) => s[i] < t[i]

Less(m, n) == Len(m) < Len(n) \/ (Len(m) = Len(n) /\ Shorter(m, n))

(* k < l, for two keys of one kind. *)
KeyLess(k, l) ==
  CASE k.kind # "int" -> Shorter(k.data, l.data)
    [] k.kind = "int" /\ k.sign # l.sign -> k.sign = "-"
    [] k.kind = "int" /\ k.sign = l.sign ->
         IF k.sign = "+" THEN Less(k.number, l.number)
         ELSE Less(l.number, k.number)

MCSorted(d) ==
  FlattenSeq(SetToSortSeq(Pairs(d), LAMBDA p, q : KeyLess(p[1], q[1])))

RECURSIVE MCDepth(_)
MCDepth(x) ==
  IF x.items = << >> THEN 0
  ELSE 1 + Max({MCDepth(x.items[i]) : i \in DOMAIN x.items})

Zeros(k)   == [i \in 1 .. k |-> 0]
Ones(k)    == [i \in 1 .. k |-> 255]
Letters(k) == [i \in 1 .. k |-> 96 + (i % 26)]

MCNumbers ==
  {<< >>, <<23>>, <<24>>, <<255>>, <<1, 0>>, Ones(2), <<1, 0, 0>>, Ones(4),
   <<1>> \o Zeros(4), <<127>> \o Ones(7), <<128>> \o Zeros(7), Ones(8),
   <<1>> \o Zeros(8), Ones(23), <<1>> \o Zeros(23)}

Pos(n)  == Object("int", n, "+", << >>, << >>)
Neg(n)  == Object("int", n, "-", << >>, << >>)
Str(kind, k)   == Object(kind, << >>, "+", Letters(k), << >>)
Text(c)        == Object("text", << >>, "+", c, << >>)
Box(kind, xs)  == Object(kind, << >>, "+", << >>, xs)
Tag(n, s, x)   == Object("tag", n, s, << >>, <<x>>)
Const(kind)    == Object(kind, << >>, "+", << >>, << >>)

None == Const("none")
Pi   == Object("float", << >>, "+", <<64, 9, 33, 251, 84, 68, 45, 24>>, << >>)
Nested == Box("tuple", <<Box("list", << >>), Tag(<<24>>, "+", Str("bytes", 1)), Pi>>)
Mixed  == Box("dict", <<Pos(<<1>>), None, Text(<<97>>), None>>)
Words  == Box("dict", <<Text(<<98>>), None, Text(<<97, 97>>), Nested, Text(<<97>>), Pos(Ones(4))>>)
Counts == Box("dict", <<Neg(<< >>), Pi, Pos(<<9>>), None, Neg(<<8>>), Words, Pos(<<1, 0>>), None>>)
Fails  == Box("dict", <<Text(<<97>>), Const("other")>>)

MCObjects ==
  {Const(kind) : kind \in {"none", "true", "false", "other"}}
  \cup {Pos(n) : n \in MCNumbers} \cup {Neg(n) : n \in MCNumbers}
  \cup {Str(kind, k) : kind \in {"bytes", "text"}, k \in {0, 1, 23, 24, 256}}
  \cup {Tag(n, "+", None) : n \in MCNumbers \ {<<1>> \o Zeros(23)}}
  \cup {Tag(<<1>>, "-", None), Tag(<< >>, "?", None),
        Tag(<<CBOR_TAG_BIGNUM>>, "+", Str("bytes", 1))}
  \cup {Pi, Nested, Mixed, Words, Counts, Fails, Box("dict", << >>),
        Box("list", [i \in 1 .. 24 |-> None]),
        Box("list", <<Words, Tag(<<1, 0>>, "+", Counts), Neg(Ones(23))>>),
        Box("list", <<Words, Mixed, Pos(Ones(23))>>),
        Box("list", <<Tag(<< >>, "?", None), Fails>>),
        Box("list", <<None, Tag(<< >>, "?", None)>>)}
  \cup {Box("list", << >>), Text(<<97>>), Text(<<97, 97>>), Text(<<98>>),
        Pos(<<1>>), Pos(<<9>>), Neg(<<8>>), Tag(<<1, 0>>, "+", Counts),
        Tag(<<24>>, "+", Str("bytes", 1))}
=============================================================================
