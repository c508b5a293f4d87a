----------------------------- MODULE RoundTrip ------------------------------
(***************************************************************************)
(* What dumps() returned is given to loads(), whole or cut short, and      *)
(* compared with what was encoded.                                         *)
(***************************************************************************)
EXTENDS Dumps, BufferLoads

VARIABLE visited  \* history: the objects that the first pass has come to

vars == <<dumpsVars, loadsVars, visited>>

Init == DumpsInit /\ LoadsInit /\ visited = << >>

(* How many of a list are objects, and not ends of lists of keys. *)
ObjectsIn(list) == Cardinality({i \in DOMAIN list : list[i] \in Objects})

(* An object, with where its bytes end and how many objects are to follow. *)
Visit ==
  visited' =
    IF pass = "count" /\ todo # << >> /\ Head(todo) \in Objects
    THEN Append(visited,
                [ob |-> Head(todo), end |-> pos', left |-> ObjectsIn(todo')])
    ELSE visited

GiveToLoads ==
  /\ pass = "done" /\ fp = "none"
  /\ \E k \in 0 .. Len(out) : StartLoads(SubSeq(out, 1, k))
  /\ UNCHANGED <<dumpsVars, visited>>

Next ==
  \/ DumpsNext /\ Visit /\ UNCHANGED loadsVars
  \/ GiveToLoads
  \/ LoadsNext /\ UNCHANGED <<dumpsVars, visited>>

Spec == Init /\ [][Next]_vars

-----------------------------------------------------------------------------
(* What was encoded *)

(* The item that an object becomes; its number is how many are inside it.  *)
ItemOf(x) ==
  CASE x.kind \in {"none", "true", "false"} -> Plain(x.kind)
    [] x.kind \in {"float", "bytes", "text"} ->
         Item(x.kind, << >>, "+", x.data)
    [] x.kind \in {"list", "tuple"} ->
         Item("list", Digits(Len(x.items)), "+", << >>)
    [] x.kind = "dict" -> Item("dict", NumberOf(x), "+", << >>)
    [] x.kind \in {"int", "tag"} -> Item(x.kind, x.number, x.sign, << >>)

Encoded == [i \in DOMAIN visited |-> ItemOf(visited[i].ob)]

(* Known differences: bignums of more than 23 bytes, Tags that are not     *)
(* written, and Tags by which the caller writes a bignum on his own.       *)
Distorted(x) ==
  \/ IsBignum(x) /\ Len(x.number) > BigBytes
  \/ Skipped(x)
  \/ x.kind = "tag" /\ x.number \in {<<CBOR_TAG_BIGNUM>>, <<CBOR_TAG_NEGBIGNUM>>}

SomeDistorted == \E i \in DOMAIN visited : Distorted(visited[i].ob)

Whole == raw = out

-----------------------------------------------------------------------------
(* Properties *)

(* loads() reads of dumps(ob) exactly the bytes there are, and returns     *)
(* objects like those in ob, nested as they were in ob: the property that  *)
(* the tests of the package check by example (_oso).                       *)
RoundTripHolds ==
  ~SomeDistorted /\ Whole =>
    /\ loading # "failed"
    /\ loading = "done" => bpos = Len(raw) /\ items = Encoded

(* The same of every int, as the tests put it. *)
IntsComeBack ==
  ob.kind = "int" /\ Whole =>
    loading # "failed" /\ (loading = "done" => items = Encoded)

(* What dumps() returned, cut off anywhere, is refused, so a reader of a   *)
(* stream never takes a part of an object for an object, and the reader is *)
(* freed, unless the buffer was empty.                                     *)
PrefixRefused ==
  /\ ~SomeDistorted /\ loading = "done" => Whole
  /\ loading \in {"done", "failed"} /\ raw # << >> => ~reader
=============================================================================
