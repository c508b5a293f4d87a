-------------------------------- MODULE Dumps --------------------------------
(***************************************************************************)
(* cbor_dumps(), cbor_dump() and inner_dumps() of c/cbormodule.c.  They    *)
(* walk through the object twice, to count its bytes and to write them.    *)
(*                                                                         *)
(* The recursion is a list of what is still to be written: inner_dumps()   *)
(* replaces the first object of the list by the objects inside it.         *)
(***************************************************************************)
EXTENDS Cbor

CONSTANTS
  Objects,    \* what the caller may want to encode, and all that is inside
  Sinks,      \* "none" for dumps(), else the fp of dump(): "object" or "file"
  Sorted(_)   \* the keys and values of a dict as PyList_Sort() orders them

VARIABLES
  ob, sort_keys, fp,    \* the arguments
  pass,                 \* "count", "write", "done" or "failed"
  todo,                 \* what the recursion has still to write
  pos, outlen, out,     \* locals of cbor_dumps
  allocated, keylists,  \* memory and lists that have to be given back
  pending,              \* an exception set and overlooked
  sink,                 \* what fp was given
  trail                 \* history: todo and pos throughout the first pass

argVars  == <<ob, sort_keys, fp>>
walkVars == <<todo, pos, out, trail>>
dumpsVars ==
  <<argVars, walkVars, pass, outlen, allocated, keylists, pending, sink>>

-----------------------------------------------------------------------------
(* Objects *)

(* number: of an int n or -1 - n, by its sign, or of a Tag; its sign is    *)
(* "?" if the tag is no integer.  data: the bytes of a float, of bytes, or *)
(* of a str in UTF-8.  items: the objects inside; keys and values in turn. *)
Object(kind, number, sign, data, items) ==
  [kind |-> kind, number |-> number, sign |-> sign, data |-> data,
   items |-> items]

ASSUME ObjectsAssumption ==
  \A x \in Objects :
    /\ x = Object(x.kind, x.number, x.sign, x.data, x.items)
    /\ x.kind \in {"none", "true", "false", "int", "float", "bytes", "text",
                  "list", "tuple", "dict", "tag", "other"}
    /\ x.number \in Number /\ x.sign \in {"+", "-", "?"}
    /\ x.data \in Seq(Byte) /\ Len(x.data) \in Lengths
    /\ x.items \in Seq(Objects) /\ Len(x.items) \in Lengths
    /\ x.kind = "int" => x.sign # "?"
    /\ x.kind = "float" => Len(x.data) = 8
    /\ x.kind = "tag" => Len(x.items) = 1
    /\ x.kind = "dict" => /\ Len(x.items) % 2 = 0
                          /\ Sorted(x) \in Seq(Objects)
                          /\ Len(Sorted(x)) = Len(x.items)
                          /\ \A i \in DOMAIN Sorted(x) :
                               \E j \in DOMAIN x.items : Sorted(x)[i] = x.items[j]

(* Not an object: where dumps_dict() has come to the end of its key list. *)
EndOfKeys == Object("end", << >>, "+", << >>, << >>)

Pairs(d) == {<<d.items[2 * i - 1], d.items[2 * i]>> : i \in 1 .. Len(d.items) \div 2}

NumberOf(k) == Digits(Len(k.items) \div 2)  \* of the entries of a dict

(* PyList_Sort() raises when it meets two keys of which neither is less.   *)
(* Python 2 orders keys of any kinds; which order that is does not matter. *)
Sortable(d) == \A p, q \in Pairs(d) : p[1].kind = q[1].kind

(* Keys and values in the order in which they are written. *)
InOrder(d) == IF sort_keys /\ Sortable(d) THEN Sorted(d) ELSE d.items

-----------------------------------------------------------------------------
(* One object *)

BigBytes == 23  \* bytes that dumps_bignum() has room for

BigFrom64(x) == x.kind = "int" /\ Len(x.number) > 8  \* mutant of IsBignum

IsBignum(x) == x.kind = "int" /\ Overflows(x.number)

WholeBignum(n) == n  \* mutant of LowBytes

(* The bytes of a bignum that dumps_bignum() shifts out of it. *)
LowBytes(n) ==
  IF Len(n) <= BigBytes THEN n ELSE SubSeq(n, Len(n) - BigBytes + 1, Len(n))

(* A Tag that dumps_tag() writes nothing for, though it reports no error. *)
Skipped(x) == x.kind = "tag" /\ x.sign = "?"

(* Mutant of Rejected: counting is believed to need no checks. *)
RejectedWhenWritten(x) == pass = "write" /\ x.kind = "other"

Rejected(x) ==
  \/ x.kind = "other"
  \/ x.kind = "tag" /\ (x.sign = "-" \/ (x.sign = "+" /\ Overflows(x.number)))

(* What inner_dumps() writes before the objects inside x. *)
BytesOf(x) ==
  CASE x.kind = "none" -> <<CBOR_NULL>>
    [] x.kind = "true" -> <<CBOR_TRUE>>
    [] x.kind = "false" -> <<CBOR_FALSE>>
    [] x.kind = "int" /\ ~IsBignum(x) ->
         TagAuxOut(IF x.sign = "+" THEN CBOR_UINT ELSE CBOR_NEGINT, x.number)
    [] IsBignum(x) ->
         <<CBOR_TAG + (IF x.sign = "+" THEN CBOR_TAG_BIGNUM
                       ELSE CBOR_TAG_NEGBIGNUM),
           CBOR_BYTES + Len(LowBytes(x.number))>> \o LowBytes(x.number)
    [] x.kind = "float" -> <<CBOR_7 + CBOR_UINT64_FOLLOWS>> \o x.data
    [] x.kind = "bytes" -> TagAuxOut(CBOR_BYTES, Digits(Len(x.data))) \o x.data
    [] x.kind = "text" -> TagAuxOut(CBOR_TEXT, Digits(Len(x.data))) \o x.data
    [] x.kind \in {"list", "tuple"} ->
         TagAuxOut(CBOR_ARRAY, Digits(Len(x.items)))
    [] x.kind = "dict" -> TagAuxOut(CBOR_MAP, NumberOf(x))
    [] x.kind = "tag" /\ x.sign = "+" -> TagAuxOut(CBOR_TAG, x.number)
    [] OTHER -> << >>

(* Mutant of SizeOf: the room for the number of a bignum is forgotten. *)
SmallSizeOf(x) == IF IsBignum(x) THEN 9 ELSE Len(BytesOf(x))

(* What it adds to pos, in either pass. *)
SizeOf(x) ==
  CASE x.kind \in {"none", "true", "false"} -> 1
    [] x.kind = "int" /\ ~IsBignum(x) -> TagAuxSize(x.number)
    [] IsBignum(x) -> 2 + Len(LowBytes(x.number))
    [] x.kind = "float" -> 9
    [] x.kind \in {"bytes", "text"} ->
         TagAuxSize(Digits(Len(x.data))) + Len(x.data)
    [] x.kind \in {"list", "tuple"} -> TagAuxSize(Digits(Len(x.items)))
    [] x.kind = "dict" -> TagAuxSize(NumberOf(x))
    [] x.kind = "tag" /\ x.sign = "+" -> TagAuxSize(x.number)
    [] OTHER -> 0

NotReleased(x) == InOrder(x)  \* mutant of KeyList

(* What the loops of dumps_dict() run through. *)
KeyList(x) ==
  IF sort_keys THEN Append(InOrder(x), EndOfKeys) ELSE InOrder(x)

Inside(x) ==
  CASE x.kind \in {"list", "tuple"} -> x.items
    [] x.kind = "dict" -> KeyList(x)
    [] x.kind = "tag" /\ ~Skipped(x) -> x.items
    [] OTHER -> << >>

-----------------------------------------------------------------------------

DumpsInit ==
  /\ ob \in Objects /\ sort_keys \in BOOLEAN /\ fp \in Sinks
  /\ pass = "count" /\ todo = <<ob>> /\ pos = 0 /\ outlen = 0 /\ out = << >>
  /\ allocated = FALSE /\ keylists = 0 /\ pending = FALSE
  /\ sink = << >> /\ trail = <<[todo |-> todo, pos |-> pos]>>

Walking == pass \in {"count", "write"} /\ todo # << >>

(* inner_dumps() of the first object of the list, up to its inner objects. *)
Emit(x) ==
  /\ todo' = Inside(x) \o Tail(todo)
  /\ pos' = pos + SizeOf(x)
  /\ out' = IF pass = "write" THEN out \o BytesOf(x) ELSE out
  /\ trail' = IF pass = "count"
              THEN Append(trail, [todo |-> todo', pos |-> pos']) ELSE trail
  /\ UNCHANGED <<argVars, pass, outlen, allocated, sink>>

DumpsOne ==
  /\ Walking
  /\ Head(todo).kind \notin {"dict", "end"} /\ ~Rejected(Head(todo))
  /\ Emit(Head(todo))
  /\ UNCHANGED <<keylists, pending>>

(* The result of PyList_Sort() is not looked at. *)
DumpsDict ==
  /\ Walking /\ Head(todo).kind = "dict"
  /\ Emit(Head(todo))
  /\ keylists' = keylists + (IF sort_keys THEN 1 ELSE 0)
  /\ pending' = (pending \/ (sort_keys /\ fp # "file" /\ ~Sortable(Head(todo))))

ReleaseKeys ==
  /\ Walking /\ Head(todo).kind = "end"
  /\ Emit(Head(todo))
  /\ keylists' = keylists - 1
  /\ UNCHANGED pending

(* The list of keys of a dict around x is not released. *)
Reject ==
  /\ Walking /\ Rejected(Head(todo))
  /\ pass' = "failed" /\ allocated' = FALSE
  /\ UNCHANGED <<argVars, walkVars, outlen, keylists, pending, sink>>

SecondPass ==
  /\ pass = "count" /\ todo = << >>
  /\ pass' = "write" /\ outlen' = pos /\ allocated' = TRUE
  /\ todo' = <<ob>> /\ pos' = 0
  /\ UNCHANGED <<argVars, out, trail, keylists, pending, sink>>

NoMemory ==
  /\ pass = "count" /\ todo = << >>
  /\ pass' = "failed"
  /\ UNCHANGED <<argVars, walkVars, outlen, allocated, keylists, pending, sink>>

WriteIgnored(raised) == "done"  \* mutant of Outcome

(* The interpreter refuses a result that comes with an exception. *)
Outcome(raised) ==
  CASE raised -> "raised"
    [] ~raised /\ pending -> "failed"
    [] ~raised /\ ~pending -> "done"

(* fp.write() takes it all or raises; fwrite() may take less unnoticed.    *)
Finish ==
  /\ pass = "write" /\ todo = << >>
  /\ allocated' = FALSE
  /\ \/ fp = "none" /\ pass' = Outcome(FALSE) /\ sink' = sink
     \/ fp = "object" /\ pass' = Outcome(FALSE) /\ sink' = out
     \/ fp = "object" /\ pass' = Outcome(TRUE) /\ sink' \in {<< >>, out}
     \/ fp = "file" /\ pass' = Outcome(FALSE)
        /\ \E k \in 0 .. Len(out) : sink' = SubSeq(out, 1, k)
  /\ UNCHANGED <<argVars, walkVars, outlen, keylists, pending>>

DumpsNext ==
  DumpsOne \/ DumpsDict \/ ReleaseKeys \/ Reject \/ SecondPass \/ NoMemory
  \/ Finish

DumpsSpec == DumpsInit /\ [][DumpsNext]_dumpsVars

-----------------------------------------------------------------------------
(* Properties *)

(* The variables have their types. *)
DumpsTypeOK ==
  /\ sort_keys \in BOOLEAN /\ fp \in Sinks
  /\ pass \in {"count", "write", "done", "failed", "raised"}
  /\ pos \in Nat /\ outlen \in Nat /\ keylists \in Nat
  /\ allocated \in BOOLEAN /\ pending \in BOOLEAN

(* The two passes of cbor_dumps() agree, though one counts the bytes of    *)
(* every object and the other writes them: out[pos] is always the next     *)
(* byte, within the buffer, and at the end the buffer is full.             *)
PassesAgree ==
  /\ pass = "write" => Len(out) = pos /\ pos <= outlen
  /\ pass = "write" /\ todo = << >> => pos = outlen
  /\ pass \in {"done", "raised"} => Len(out) = outlen

(* An object that was counted can be written: cbor_dumps() finds all that  *)
(* it cannot encode before it allocates the buffer.                        *)
FailsBeforeWriting == [][pass = "write" /\ todo # << >> => pass' = "write"]_dumpsVars

(* The buffer is freed however dumps() and dump() end, and if they return  *)
(* so is every list of keys.  (If they fail inside a sorted dict its list  *)
(* is leaked, and if a sort failed they return to an exception.)  No list  *)
(* is released twice.                                                      *)
DumpsReleases ==
  /\ DumpsTypeOK
  /\ allocated = (pass = "write")
  /\ pass \in {"done", "raised"} => keylists = 0

(* fp is given the whole object or, when dump() fails, nothing, unless     *)
(* fp.write() itself failed, or a sort before it.  fwrite() to a file of   *)
(* Python 2 is the exception: what it returns is not looked at.            *)
DumpIsWhole ==
  /\ sink = SubSeq(out, 1, Len(sink))
  /\ sink # << >> => Len(out) = outlen /\ pass \notin {"count", "write"}
  /\ pass = "done" /\ fp = "object" => sink = out
  /\ pass = "failed" /\ ~pending => sink = << >>
=============================================================================
