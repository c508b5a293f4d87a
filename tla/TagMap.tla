------------------------------- MODULE TagMap -------------------------------
(***************************************************************************)
(* TagMapper of cbor/tagmap.py: an object is encoded, goes through dumps() *)
(* and loads(), and is decoded in place, again if a decode_function has    *)
(* raised an exception.                                                    *)
(*                                                                         *)
(* Objects refer to each other: heap[n] is the object n, and its items are *)
(* objects again.  The recursion is a stack of the containers that are     *)
(* walked through.                                                         *)
(***************************************************************************)
EXTENDS Integers, Sequences, FiniteSetsExt, Functions

CONSTANTS
  Heaps,             \* what the caller has; heap[1] is the variable with ob
  ClassTags,         \* class_tags of the TagMapper
  IsInstance(_, _),  \* isinstance() of an instance of a class
  Depth(_, _),       \* how deep objects are nested in one of them
  MaxRaises          \* bound: exceptions of decode_functions

(* kind: "plain", "instance" of the class type, "tag" with the number type, *)
(* "bytes" in which an object is encoded, "list", "tuple" or "dict".       *)
(* items: what a container holds, the value of a tag, the object encoded   *)
(* in bytes, and what to_cbor() makes of an instance.                      *)
Object(kind, type, items) == [kind |-> kind, type |-> type, items |-> items]

Kinds == {"plain", "instance", "tag", "bytes", "list", "tuple", "dict"}

Holders == {"instance", "tag", "bytes"}  \* of one object

ASSUME TagMapAssumption ==
  /\ MaxRaises \in Nat
  /\ ClassTags \in Seq([tag_number : STRING, class_type : STRING,
                        encode_function : STRING, decode_function : STRING])
  /\ \A objects \in Heaps :
       /\ objects \in Seq([kind : Kinds, type : STRING, items : Seq(Nat)])
       /\ objects # << >>
       /\ \A n \in DOMAIN objects :
            /\ \A i \in DOMAIN objects[n].items :
                 objects[n].items[i] \in DOMAIN objects
            /\ objects[n].kind \in Holders => Len(objects[n].items) = 1

(* An instance of a class is one. *)
ASSUME InstanceAssumption ==
  \A i \in DOMAIN ClassTags :
    IsInstance(ClassTags[i].class_type, ClassTags[i].class_type)

(* No object is inside itself, or encode() would not come to an end. *)
ASSUME NestingAssumption ==
  \A objects \in Heaps :
    /\ objects[1].kind = "list"
    /\ \A n \in DOMAIN objects :
         /\ Depth(objects, n) \in 1 .. Len(objects)
         /\ \A i \in DOMAIN objects[n].items :
              Depth(objects, objects[n].items[i]) < Depth(objects, n)
         /\ objects[n].kind \notin {"instance", "tag"} => objects[n].type = ""

(* loads() makes numbers of the Tags 2 and 3, and cbor.py dates and regular *)
(* expressions of 1 and 35: no class can be mapped to them.                *)
Interpreted == {"1", "2", "3", "35"}

ASSUME TagNumberAssumption ==
  /\ \A i \in DOMAIN ClassTags : ClassTags[i].tag_number \notin Interpreted
  /\ \A objects \in Heaps : \A n \in DOMAIN objects :
       objects[n].kind = "tag" => objects[n].type \notin Interpreted

VARIABLES
  raise_on_unknown_tag,
  heap,
  stack,       \* for each call under way: at, what it walks through,
               \* out, what it fills, and i, the number of items done
  phase,       \* what the caller does, see TypeOK
  sent, got,   \* the variables with encode(ob) and with what loads() returned
  raises, own  \* history: own is the number of objects the caller began with

vars == <<raise_on_unknown_tag, heap, stack, phase, sent, got, raises, own>>

Plain == Object("plain", "", << >>)

ClassTag(tag_number, class_type, encode_function, decode_function) ==
  [tag_number |-> tag_number, class_type |-> class_type,
   encode_function |-> encode_function, decode_function |-> decode_function]

WrappedCBOR == ClassTag("24", "None", "None", "loads")

Last(found) ==  \* mutant of First
  {ClassTags[i] : i \in {j \in found : j = Max(found)}}

(* The first of the class tags that were found: none, or one. *)
First(found) == {ClassTags[i] : i \in {j \in found : j = Min(found)}}

EncodesAs(x) ==
  First({i \in DOMAIN ClassTags :
           /\ ClassTags[i].class_type # "None"
           /\ ClassTags[i].encode_function # "None"
           /\ x.kind = "instance"
           /\ IsInstance(x.type, ClassTags[i].class_type)})

Numbered(number) ==
  First({i \in DOMAIN ClassTags : ClassTags[i].tag_number = number})

DecodesAs(x) == IF x.kind = "tag" THEN Numbered(x.type) ELSE {}

-----------------------------------------------------------------------------

Init ==
  /\ raise_on_unknown_tag \in BOOLEAN
  /\ heap \in Heaps
  /\ stack = << >> /\ phase = "ob" /\ sent = 0 /\ got = 0
  /\ raises = 0 /\ own = Len(heap)

Fresh == Len(heap) + 1

Frame(at, out) == [at |-> at, out |-> out, i |-> 0]

Done(f) == f.i = Len(heap[f.at].items)

(* The item that is to be encoded or decoded next. *)
NextItem == heap[Head(stack).at].items[Head(stack).i + 1]

More(p) == phase = p /\ stack # << >> /\ ~Done(Head(stack))

Advanced == <<[Head(stack) EXCEPT !.i = @ + 1]>> \o Tail(stack)

Return ==
  /\ phase \in {"encode", "decode"} /\ stack # << >> /\ Done(Head(stack))
  /\ stack' = Tail(stack)
  /\ phase' = (IF Len(stack) > 1 THEN phase
               ELSE IF phase = "encode" THEN "encoded" ELSE "decoded")
  /\ UNCHANGED <<raise_on_unknown_tag, heap, sent, got, raises, own>>

(* encode() and decode() end with an exception. *)
Raise(to) ==
  /\ stack' = << >> /\ phase' = to
  /\ UNCHANGED <<raise_on_unknown_tag, heap, sent, got, own>>

-----------------------------------------------------------------------------
(* encode *)

StartEncode ==
  /\ phase = "ob"
  /\ phase' = "encode" /\ sent' = Fresh
  /\ heap' = Append(heap, Object("list", "", << >>))
  /\ stack' = <<Frame(1, Fresh)>>
  /\ UNCHANGED <<raise_on_unknown_tag, got, raises, own>>

(* Mutant of Put: as decode() does it. *)
PutInPlace(x) == [heap EXCEPT ![Head(stack).at].items[Head(stack).i + 1] = x]

(* x is the next item of what is being built. *)
Put(x) == [heap EXCEPT ![Head(stack).out].items = Append(@, x)]

EncodeInstance ==
  /\ More("encode")
  /\ \E ct \in EncodesAs(heap[NextItem]) :
       heap' = Append(Put(Fresh), Object("tag", ct.tag_number, heap[NextItem].items))
  /\ stack' = Advanced
  /\ UNCHANGED <<raise_on_unknown_tag, phase, sent, got, raises, own>>

EncodeRaises ==
  /\ More("encode") /\ EncodesAs(heap[NextItem]) # {}
  /\ Raise("failed")
  /\ UNCHANGED raises

(* The container that is filled with what the items of x are encoded to. *)
Built(x) == Object(IF x.kind = "dict" THEN "dict" ELSE "list", "", << >>)

EncodeContainer ==
  /\ More("encode") /\ heap[NextItem].kind \in {"list", "tuple", "dict"}
  /\ heap' = Append(Put(Fresh), Built(heap[NextItem]))
  /\ stack' = <<Frame(NextItem, Fresh)>> \o Advanced
  /\ UNCHANGED <<raise_on_unknown_tag, phase, sent, got, raises, own>>

(* All that is neither is left to dumps(): Tags too, whatever is in them. *)
EncodeOther ==
  /\ More("encode") /\ EncodesAs(heap[NextItem]) = {}
  /\ heap[NextItem].kind \notin {"list", "tuple", "dict"}
  /\ heap' = Put(NextItem) /\ stack' = Advanced
  /\ UNCHANGED <<raise_on_unknown_tag, phase, sent, got, raises, own>>

-----------------------------------------------------------------------------
(* dumps and loads *)

Reachable(n) ==
  LET reach[m \in DOMAIN heap] ==
        {m} \cup UNION {reach[k] : k \in Range(heap[m].items)}
  IN  reach[n]

(* loads() returns new objects, lists for tuples, and a Tag for each Tag,  *)
(* as none is of those that it interprets.                                 *)
Copied ==
  heap \o [n \in DOMAIN heap |->
    Object(IF heap[n].kind = "tuple" THEN "list" ELSE heap[n].kind,
           heap[n].type,
           [i \in DOMAIN heap[n].items |-> heap[n].items[i] + Len(heap)])]

DumpsAndLoads ==
  /\ phase = "encoded"
  /\ \A n \in Reachable(sent) : heap[n].kind # "instance"
  /\ phase' = "loaded"
  /\ heap' = Copied /\ got' = sent + Len(heap') - Len(heap)
  /\ UNCHANGED <<raise_on_unknown_tag, stack, sent, raises, own>>

DumpsRaises ==
  /\ phase = "encoded"
  /\ \E n \in Reachable(sent) : heap[n].kind = "instance"
  /\ Raise("failed")
  /\ UNCHANGED raises

-----------------------------------------------------------------------------
(* decode *)

StartDecode ==
  /\ phase = "loaded"
  /\ phase' = "decode" /\ stack' = <<Frame(got, got)>>
  /\ UNCHANGED <<raise_on_unknown_tag, heap, sent, got, raises, own>>

(* decode_function(value) can return: None cannot be called, and loads()   *)
(* wants bytes.                                                            *)
CanDecode(ct, x) ==
  /\ ct.decode_function # "None"
  /\ ct.decode_function = "loads" => heap[x.items[1]].kind = "bytes"

(* Mutant of Set: the item is taken out of the list that is walked through. *)
TakeOut(n) ==
  [heap EXCEPT ![Head(stack).at].items =
     SubSeq(@, 1, Head(stack).i) \o SubSeq(@, Head(stack).i + 2, Len(@))]

(* The next item is replaced by n. *)
Set(n) == [heap EXCEPT ![Head(stack).at].items[Head(stack).i + 1] = n]

DecodeTag ==
  /\ More("decode")
  /\ \E ct \in DecodesAs(heap[NextItem]) :
       /\ CanDecode(ct, heap[NextItem])
       /\ heap' = IF ct.decode_function = "loads"
                  THEN Set(heap[heap[NextItem].items[1]].items[1])
                  ELSE Append(Set(Fresh),
                              Object("instance", ct.class_type, heap[NextItem].items))
  /\ stack' = Advanced
  /\ UNCHANGED <<raise_on_unknown_tag, phase, sent, got, raises, own>>

(* What has been decoded stays so. *)
DecodeRaises ==
  /\ More("decode") /\ raises < MaxRaises
  /\ DecodesAs(heap[NextItem]) # {}
  /\ Raise("loaded") /\ raises' = raises + 1

Unknown(x) == x.kind = "tag" /\ DecodesAs(x) = {}

DecodeUnknown ==
  /\ More("decode") /\ Unknown(heap[NextItem]) /\ raise_on_unknown_tag
  /\ Raise("refused")
  /\ UNCHANGED raises

ListsOnly(x) == x.kind = "list"  \* mutant of Descends

Descends(x) == x.kind \in {"list", "dict"}

DecodeContainer ==
  /\ More("decode") /\ Descends(heap[NextItem])
  /\ stack' = <<Frame(NextItem, NextItem)>> \o Advanced
  /\ UNCHANGED <<raise_on_unknown_tag, heap, phase, sent, got, raises, own>>

DecodeOther ==
  /\ More("decode") /\ ~Descends(heap[NextItem])
  /\ heap[NextItem].kind = "tag" => Unknown(heap[NextItem]) /\ ~raise_on_unknown_tag
  /\ stack' = Advanced
  /\ UNCHANGED <<raise_on_unknown_tag, heap, phase, sent, got, raises, own>>

-----------------------------------------------------------------------------

Next ==
  \/ StartEncode \/ EncodeInstance \/ EncodeRaises \/ EncodeContainer
  \/ EncodeOther \/ DumpsAndLoads \/ DumpsRaises \/ StartDecode \/ DecodeTag
  \/ DecodeRaises \/ DecodeUnknown \/ DecodeContainer \/ DecodeOther \/ Return

Spec == Init /\ [][Next]_vars

-----------------------------------------------------------------------------
(* Properties *)

(* Every object refers to objects that there are, and every call walks     *)
(* through one of them.                                                    *)
TypeOK ==
  /\ raise_on_unknown_tag \in BOOLEAN /\ raises \in 0 .. MaxRaises
  /\ phase \in {"ob", "encode", "encoded", "loaded", "decode", "decoded",
               "failed", "refused"}
  /\ stack # << >> <=> phase \in {"encode", "decode"}
  /\ \A n \in DOMAIN heap : Range(heap[n].items) \subseteq DOMAIN heap
  /\ \A i \in DOMAIN stack :
       /\ {stack[i].at, stack[i].out} \subseteq DOMAIN heap
       /\ stack[i].i \in 0 .. Len(heap[stack[i].at].items)
  /\ {sent, got} \subseteq {0} \cup DOMAIN heap

(* encode() and decode() change nothing that belongs to the caller: not    *)
(* what he encodes, although decode() works in place, and not the objects  *)
(* in it, although they go into Tags as they are.                          *)
CallerUntouched == [][\A n \in 1 .. own : heap'[n] = heap[n]]_vars

IsList(x) == x.kind \in {"list", "tuple"}

(* m and n are equal; in CBOR a tuple is a list. *)
Same(m, n) ==
  LET same[k \in DOMAIN heap] == [l \in DOMAIN heap |->
        LET x == heap[k]  y == heap[l] IN
          /\ x.kind = y.kind \/ (IsList(x) /\ IsList(y))
          /\ x.type = y.type
          /\ Len(x.items) = Len(y.items)
          /\ \A i \in DOMAIN x.items : same[x.items[i]][y.items[i]]]
  IN  same[m][n]

(* n is what decode() is to make of m, which is no container. *)
DecodedAlone(m, n) ==
  LET x == heap[m]  y == heap[n] IN
    CASE x.kind = "tag" /\ ~Unknown(x) ->
           \A ct \in DecodesAs(x) :
             IF ct.decode_function = "loads"
             THEN Same(heap[x.items[1]].items[1], n)
             ELSE /\ y.kind = "instance" /\ y.type = ct.class_type
                  /\ Same(x.items[1], y.items[1])
      [] Unknown(x) -> ~raise_on_unknown_tag /\ Same(m, n)
      [] x.kind # "tag" -> Same(m, n)

(* n is what decode() is to make of m: one level of known Tags is taken    *)
(* off wherever it can be reached through lists and dicts.                 *)
Decoded(m, n) ==
  LET decoded[k \in DOMAIN heap] == [l \in DOMAIN heap |->
        LET x == heap[k]  y == heap[l] IN
          /\ x.kind \notin {"list", "dict"} => DecodedAlone(k, l)
          /\ x.kind \in {"list", "dict"} =>
               /\ y.kind = x.kind /\ Len(x.items) = Len(y.items)
               /\ \A i \in DOMAIN x.items : decoded[x.items[i]][y.items[i]]]
  IN  decoded[m][n]

(* Known difference: what WrappedCBOR unpacks is not searched for Tags,    *)
(* but it is when decode() is tried again.                                 *)
Unpacks == \E n \in Reachable(sent) : heap[n].kind = "bytes"

(* decode() takes off each known Tag exactly once, also when it takes      *)
(* several attempts on a list that earlier ones have left half decoded;    *)
(* and when it returns, every unknown Tag is in its place, or there is     *)
(* none if raise_on_unknown_tag.                                           *)
DecodesOnce == phase = "decoded" /\ (Unpacks => raises = 0) => Decoded(sent, got)

(* Instances that the mapper can tell: their class tag encodes and decodes *)
(* them, and none before it fits them as well or has the same number.      *)
Mapped(x) ==
  /\ x.kind \notin {"tag", "bytes"}
  /\ x.kind = "instance" =>
       \E i \in DOMAIN ClassTags :
         /\ ClassTags[i].class_type = x.type /\ x.type # "None"
         /\ ClassTags[i].encode_function # "None"
         /\ ClassTags[i].decode_function # "loads"
         /\ \A j \in 1 .. i - 1 :
              /\ ~IsInstance(x.type, ClassTags[j].class_type)
              /\ ClassTags[j].tag_number # ClassTags[i].tag_number

(* Decoding undoes encoding for objects of classes that the mapper knows,  *)
(* wherever they are in lists, tuples and dicts (_oso of test_objects).    *)
ComesBack ==
  phase = "decoded" /\ (\A n \in Reachable(1) : Mapped(heap[n])) => Same(1, got)

=============================================================================
