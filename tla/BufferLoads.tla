----------------------------- MODULE BufferLoads -----------------------------
(***************************************************************************)
(* cbor_loads() of c/cbormodule.c down to the bytes: a BufferReader, and   *)
(* inner_loads_c() for the items that the encoders write.  (Loads follows  *)
(* the recursion and the items of unknown length.)                         *)
(*                                                                         *)
(* The items are returned in the order in which they are read.  With the   *)
(* number of items inside each that says how they are nested.              *)
(***************************************************************************)
EXTENDS Cbor

VARIABLES
  loading,    \* "idle", "read", "done" or "failed"
  raw, bpos,  \* the buffer, and how much of it was read
  reader,     \* the BufferReader is allocated
  needed,     \* the items that the calls under way have still to read
  items       \* what was read

loadsVars == <<loading, raw, bpos, reader, needed, items>>

Item(kind, number, sign, data) ==
  [kind |-> kind, number |-> number, sign |-> sign, data |-> data]

Plain(kind) == Item(kind, << >>, "+", << >>)

-----------------------------------------------------------------------------
(* The next item, at bpos *)

(* BufferReader_read() and BufferReader_read1() have n bytes more to give. *)
CanRead(n) == n <= Len(raw) - bpos

(* The n bytes after the first k, as far as there are any. *)
BytesAt(k, n) ==
  SubSeq(raw, bpos + k + 1, Min({bpos + k + n, Len(raw)}))

Info == raw[bpos + 1] % 32
Type == raw[bpos + 1] - Info
Size == 1 + Following(Info)
Aux  == HandleInfoBits(Info, BytesAt(1, Following(Info)))

(* loads_tag() and loads_bignum(): the string follows at once. *)
BignumFollows == Type = CBOR_TAG /\ Aux \in {<<CBOR_TAG_BIGNUM>>, <<CBOR_TAG_NEGBIGNUM>>}

BignumHead == BytesAt(Size, 1)[1]

BignumFits ==
  CanRead(Size + 1) /\ BignumHead \in CBOR_BYTES .. CBOR_BYTES + CBOR_UINT8_FOLLOWS - 1

(* The bytes after the head, read before anything else is. *)
Payload ==
  CASE Type \in {CBOR_BYTES, CBOR_TEXT} -> Small(Aux)
    [] BignumFollows -> 1 + (IF BignumFits THEN BignumHead - CBOR_BYTES ELSE 0)
    [] OTHER -> 0

Float == Type = CBOR_7 /\ Info = CBOR_UINT64_FOLLOWS

Simple == Type = CBOR_7 /\ ~Float /\ Aux \in {<<20>>, <<21>>, <<22>>, <<23>>}

Known == (Type = CBOR_7 => Float \/ Simple) /\ (BignumFollows => BignumFits)

(* The item, and the number of items inside it. *)
Loaded ==
  CASE Type = CBOR_UINT -> Item("int", Aux, "+", << >>)
    [] Type = CBOR_NEGINT -> Item("int", Aux, "-", << >>)
    [] Type = CBOR_BYTES -> Item("bytes", << >>, "+", BytesAt(Size, Payload))
    [] Type = CBOR_TEXT -> Item("text", << >>, "+", BytesAt(Size, Payload))
    [] Type = CBOR_ARRAY -> Item("list", Aux, "+", << >>)
    [] Type = CBOR_MAP -> Item("dict", Aux, "+", << >>)
    [] BignumFollows ->
         Item("int", Stripped(BytesAt(Size + 1, Payload - 1)),
              IF Aux = <<CBOR_TAG_BIGNUM>> THEN "+" ELSE "-", << >>)
    [] Type = CBOR_TAG /\ ~BignumFollows -> Item("tag", Aux, "+", << >>)
    [] Float -> Item("float", << >>, "+", BytesAt(1, 8))
    [] Simple /\ Aux = <<20>> -> Plain("false")
    [] Simple /\ Aux = <<21>> -> Plain("true")
    [] Simple /\ Aux \in {<<22>>, <<23>>} -> Plain("none")

Within ==
  CASE Type = CBOR_ARRAY -> Small(Aux)
    [] Type = CBOR_MAP -> 2 * Small(Aux)
    [] Type = CBOR_TAG /\ ~BignumFollows -> 1
    [] OTHER -> 0

-----------------------------------------------------------------------------

LoadsInit ==
  /\ loading = "idle" /\ raw = << >> /\ bpos = 0 /\ reader = FALSE
  /\ needed = 0 /\ items = << >>

(* cbor_loads(), NewBufferReader(): an empty buffer is refused, and the    *)
(* reader made for it is leaked.                                           *)
StartLoads(bytes) ==
  /\ loading = "idle"
  /\ raw' = bytes /\ reader' = TRUE /\ needed' = 1
  /\ loading' = (IF bytes = << >> THEN "failed" ELSE "read")
  /\ UNCHANGED <<bpos, items>>

HeadReadable == CanRead(1) /\ CanRead(Size) /\ Known  \* mutant of Readable

(* Every read finds its bytes, and they are an item. *)
Readable ==
  CanRead(1) /\ CanRead(Size) /\ CanRead(Size + Payload) /\ Known

LoadsItem ==
  /\ loading = "read" /\ needed > 0
  /\ Readable
  /\ bpos' = bpos + (Size + Payload)
  /\ items' = Append(items, Loaded)
  /\ needed' = needed - 1 + Within
  /\ UNCHANGED <<loading, raw, reader>>

(* The buffer is exhausted, or holds something that the decoder does not   *)
(* know.                                                                   *)
LoadsFail ==
  /\ loading = "read" /\ needed > 0
  /\ ~Readable
  /\ loading' = "failed" /\ reader' = FALSE
  /\ UNCHANGED <<raw, bpos, needed, items>>

LoadsDone ==
  /\ loading = "read" /\ needed = 0
  /\ loading' = "done" /\ reader' = FALSE
  /\ UNCHANGED <<raw, bpos, needed, items>>

LoadsNext == LoadsItem \/ LoadsFail \/ LoadsDone
=============================================================================
