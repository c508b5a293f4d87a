------------------------------ MODULE PyDumps -------------------------------
(***************************************************************************)
(* dumps() of cbor/cbor.py, which returns its bytes at once.  Where it     *)
(* raises an exception, Raises stands among them.                          *)
(***************************************************************************)
EXTENDS Dumps, SequencesExt

CONSTANT Depth(_)  \* how deep objects are nested in an object

(* No object is inside itself, or both encoders would run into the limit   *)
(* that the interpreter, or the stack, sets to recursion.                  *)
ASSUME DepthAssumption ==
  \A x \in Objects :
    /\ Depth(x) \in Nat
    /\ \A i \in DOMAIN x.items : Depth(x.items[i]) < Depth(x)

Raises == -1

EncodeTypeNum(cbor_type, n) ==
  IF Len(n) <= 8 THEN TagAuxOut(cbor_type, n) ELSE <<Raises>>

PyBignum(tag, n) ==
  <<CBOR_TAG + tag>> \o EncodeTypeNum(CBOR_BYTES, Digits(Len(n))) \o n

DumpsInt(x) ==
  CASE x.sign = "+" /\ Len(x.number) <= 8 -> TagAuxOut(CBOR_UINT, x.number)
    [] x.sign = "+" /\ Len(x.number) > 8 -> PyBignum(CBOR_TAG_BIGNUM, x.number)
    [] x.sign = "-" /\ ~Overflows(x.number) -> TagAuxOut(CBOR_NEGINT, x.number)
    [] x.sign = "-" /\ Overflows(x.number) -> PyBignum(CBOR_TAG_NEGBIGNUM, x.number)

DumpsString(cbor_type, x) ==
  EncodeTypeNum(cbor_type, Digits(Len(x.data))) \o x.data

(* The bytes before the objects inside.  sorted() raises; the assertion in *)
(* _encode_type_num() and struct.pack() refuse the numbers of Tags that    *)
(* are negative or no integers.                                            *)
PyHead(x, sorting) ==
  CASE x.kind = "none" -> <<CBOR_NULL>>
    [] x.kind = "true" -> <<CBOR_TRUE>>
    [] x.kind = "false" -> <<CBOR_FALSE>>
    [] x.kind = "int" -> DumpsInt(x)
    [] x.kind = "float" -> <<CBOR_7 + CBOR_UINT64_FOLLOWS>> \o x.data
    [] x.kind = "bytes" -> DumpsString(CBOR_BYTES, x)
    [] x.kind = "text" -> DumpsString(CBOR_TEXT, x)
    [] x.kind \in {"list", "tuple"} ->
         EncodeTypeNum(CBOR_ARRAY, Digits(Len(x.items)))
    [] x.kind = "dict" /\ (sorting => Sortable(x)) ->
         EncodeTypeNum(CBOR_MAP, NumberOf(x))
    [] x.kind = "tag" /\ x.sign = "+" -> EncodeTypeNum(CBOR_TAG, x.number)
    [] OTHER -> <<Raises>>

(* The objects whose bytes follow. *)
PyInside(x, sorting) ==
  CASE x.kind \in {"list", "tuple"} -> x.items
    [] x.kind = "dict" /\ (sorting => Sortable(x)) ->
         IF sorting THEN Sorted(x) ELSE x.items
    [] x.kind = "tag" /\ x.sign = "+" -> x.items
    [] OTHER -> << >>

PyBytes(sorting) ==
  LET bytes[x \in Objects] ==
        PyHead(x, sorting)
          \o FlattenSeq([i \in DOMAIN PyInside(x, sorting) |->
                           bytes[PyInside(x, sorting)[i]]])
  IN bytes

PyFails(bytes) == \E i \in DOMAIN bytes : bytes[i] = Raises

-----------------------------------------------------------------------------
(* Properties *)

(* Where C and Python differ: in bignums of more than 23 bytes, in Tags    *)
(* that C does not write, in positive ints between 2^63 and 2^64, and in   *)
(* Tags from 2^63 on.                                                      *)
Differs(x) ==
  \/ IsBignum(x) /\ Len(x.number) > BigBytes
  \/ Skipped(x)
  \/ IsBignum(x) /\ x.sign = "+" /\ Len(x.number) = 8
  \/ x.kind = "tag" /\ Overflows(x.number)

SomeDiffers ==
  \E i \in DOMAIN trail : trail[i].todo # << >> /\ Differs(Head(trail[i].todo))

(* C and Python write the same bytes, and fail for the same objects (of    *)
(* Python 3: fp is no file of Python 2).                                   *)
SameAsPython ==
  fp # "file" /\ ~SomeDiffers =>
    LET py == PyBytes(sort_keys)[ob] IN
      /\ pass = "done" => out = py
      /\ pass = "failed" /\ (todo # << >> \/ pending) => PyFails(py)
=============================================================================
