-------------------------------- MODULE Cbor ---------------------------------
(***************************************************************************)
(* The numbers and the first bytes of CBOR items, as c/cbormodule.c writes *)
(* and reads them, with the constants of c/cbor.h.                         *)
(*                                                                         *)
(* A number is written as its bytes in base 256, the most significant      *)
(* first and without leading zeros: 0 is << >>.  So a number of any size   *)
(* can be checked, and a comparison with a power of 256 is one of lengths. *)
(***************************************************************************)
EXTENDS Integers, Sequences, FiniteSetsExt

CBOR_UINT   == 0
CBOR_NEGINT == 32
CBOR_BYTES  == 64
CBOR_TEXT   == 96
CBOR_ARRAY  == 128
CBOR_MAP    == 160
CBOR_TAG    == 192
CBOR_7      == 224

CBOR_UINT8_FOLLOWS  == 24
CBOR_UINT16_FOLLOWS == 25
CBOR_UINT32_FOLLOWS == 26
CBOR_UINT64_FOLLOWS == 27

CBOR_FALSE == CBOR_7 + 20
CBOR_TRUE  == CBOR_7 + 21
CBOR_NULL  == CBOR_7 + 22

CBOR_TAG_BIGNUM    == 2
CBOR_TAG_NEGBIGNUM == 3

-----------------------------------------------------------------------------
(* Numbers *)

Byte == 0 .. 255

Number == {n \in Seq(Byte) : n # << >> => n[1] # 0}

(* n in w bytes, and the number that a string of bytes stands for. *)
Padded(n, w) ==
  [i \in 1 .. w |-> IF i > w - Len(n) THEN n[i - (w - Len(n))] ELSE 0]

Stripped(s) ==
  LET digits == {i \in DOMAIN s : s[i] # 0} IN
    IF digits = {} THEN << >> ELSE SubSeq(s, Min(digits), Len(s))

(* The number that a length is. *)
Lengths == {k \in Nat : k \div 65536 <= 255}  \* bound: lengths of 3 bytes

Digits(k) ==
  LET first == IF k = 0 THEN 4 ELSE IF k < 256 THEN 3
               ELSE IF k < 65536 THEN 2 ELSE 1
  IN SubSeq(<<k \div 65536, (k \div 256) % 256, k % 256>>, first, 3)

Literal(n) == IF n = << >> THEN 0 ELSE n[1]

(* And the length that a number is. *)
Small(n) ==
  CASE Len(n) <= 1 -> Literal(n)
    [] Len(n) = 2 -> 256 * n[1] + n[2]
    [] OTHER -> 65536 * n[1] + 256 * n[2] + n[3]  \* bound: see Lengths

(* aux <= 23 *)
Tiny(n) == Len(n) <= 1 /\ Literal(n) <= 23

(* PyLong_AsLongLongAndOverflow() reports an overflow: for n and -1 - n    *)
(* alike, that is from 2^63 on.                                            *)
Overflows(n) == Len(n) > 8 \/ (Len(n) = 8 /\ n[1] >= 128)

-----------------------------------------------------------------------------
(* The first byte of an item, with the number that follows it *)

InfoBits(n) ==
  CASE Tiny(n) -> Literal(n)
    [] ~Tiny(n) /\ Len(n) <= 1 -> CBOR_UINT8_FOLLOWS
    [] Len(n) = 2 -> CBOR_UINT16_FOLLOWS
    [] Len(n) \in 3 .. 4 -> CBOR_UINT32_FOLLOWS
    [] OTHER -> CBOR_UINT64_FOLLOWS

(* How many bytes follow. *)
Following(info) ==
  CASE info = CBOR_UINT8_FOLLOWS -> 1
    [] info = CBOR_UINT16_FOLLOWS -> 2
    [] info = CBOR_UINT32_FOLLOWS -> 4
    [] info = CBOR_UINT64_FOLLOWS -> 8
    [] OTHER -> 0

(* The bytes that tag_aux_out() writes, and what it adds to pos. *)
TagAuxOut(cbor_type, n) ==
  <<cbor_type + InfoBits(n)>> \o Padded(n, Following(InfoBits(n)))

TagAuxSize(n) ==
  CASE Tiny(n) -> 1
    [] ~Tiny(n) /\ Len(n) <= 1 -> 2
    [] Len(n) = 2 -> 3
    [] Len(n) \in 3 .. 4 -> 5
    [] OTHER -> 9

LowByteFirst(info, bytes) ==  \* mutant of HandleInfoBits
  IF info <= 23 THEN Digits(info)
  ELSE Stripped([i \in DOMAIN bytes |-> bytes[Len(bytes) + 1 - i]])

(* handle_info_bits(): info, and the bytes after it.  Info bits without a  *)
(* meaning count as 0.                                                     *)
HandleInfoBits(info, bytes) ==
  IF info <= 23 THEN Digits(info) ELSE Stripped(bytes)
=============================================================================
