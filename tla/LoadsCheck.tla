----------------------------- MODULE LoadsCheck -----------------------------
(***************************************************************************)
(* Loads against the grammar of CBOR: the tokens that a decoder has read   *)
(* are parsed again by rules written down from the grammar, not from the   *)
(* code, and the two are compared.                                         *)
(***************************************************************************)
EXTENDS Loads, FiniteSets

(* A parse of s ends "ok", "bad" (no continuation can mend it) or "short". *)
Parsed(st, next, items) == [st |-> st, next |-> next, items |-> items]

RECURSIVE Item(_, _), Items(_, _, _), Until(_, _), Chunks(_, _, _)

KeysFit(items) ==
  \A i \in DOMAIN items : i % 2 = 1 /\ i < Len(items) => Hashable(items[i])

RECURSIVE Dict(_)
Dict(items) ==
  IF items = << >> THEN << >>
  ELSE Put(Dict(SubSeq(items, 1, Len(items) - 2)),
           items[Len(items) - 1], items[Len(items)])

(* What the items inside an item t make of it. *)
Made(t, p) ==
  LET isMap == t.kind \in {"map", "map*"}
      Ok(v) == Parsed("ok", p.next, <<v>>)
  IN CASE isMap /\ ~KeysFit(p.items) -> Parsed("bad", 0, << >>)
       [] p.st # "ok" /\ ~(isMap /\ ~KeysFit(p.items)) -> p
       [] p.st = "ok" /\ isMap /\ KeysFit(p.items) ->
            IF Len(p.items) % 2 = 0
            THEN Ok(Value("map", << >>, Dict(p.items)))
            ELSE Parsed("bad", 0, << >>)
       [] p.st = "ok" /\ t.kind \in {"array", "array*"} ->
            Ok(Value("array", << >>, p.items))
       [] p.st = "ok" /\ t.kind = "tag" -> Ok(Value("tag", << >>, p.items))
       [] p.st = "ok" /\ t.kind = "bigtag" -> Ok(Bignum)
       [] p.st = "ok" /\ t.kind = "bytes*" ->
            Ok(Value("bytes", Joined(p.items), << >>))
       [] p.st = "ok" /\ t.kind = "text*" ->
            Ok(Value("text", Joined(p.items), << >>))

(* What the grammar knows of a token. *)
Kind(t) == IF t.form = "proper" \/ t.kind = "cut" THEN t.kind ELSE "odd"

(* The item that starts at s[i]. *)
Item(s, i) ==
  IF i > Len(s) THEN Parsed("short", i, << >>)
  ELSE LET t == s[i]
           kind == Kind(t)
  IN
    CASE kind \in {"int", "text", "bytes"} ->
           Parsed("ok", i + 1, <<Value(kind, t.data, << >>)>>)
      [] kind \in {"break", "simple", "odd"} -> Parsed("bad", 0, << >>)
      [] kind = "cut" -> Parsed("short", i, << >>)
      [] kind \in {"array", "map", "tag"} ->
           Made(t, Items(s, i + 1, Needs(t)))
      [] kind = "bigtag" ->
           IF i < Len(s) /\ Kind(s[i + 1]) \notin {"bytes", "bytes*", "cut"}
           THEN Parsed("bad", 0, << >>)
           ELSE Made(t, Items(s, i + 1, 1))
      [] kind \in {"array*", "map*"} -> Made(t, Until(s, i + 1))
      [] kind = "bytes*" -> Made(t, Chunks(s, i + 1, "bytes"))
      [] kind = "text*" -> Made(t, Chunks(s, i + 1, "text"))

(* The items p, and those of q after them. *)
After(p, q) == [q EXCEPT !.items = p.items \o q.items]

(* n items, items up to a break, and chunks up to a break. *)
Items(s, i, n) ==
  IF n = 0 THEN Parsed("ok", i, << >>)
  ELSE LET p == Item(s, i) IN
         IF p.st = "ok" THEN After(p, Items(s, p.next, n - 1))
         ELSE [p EXCEPT !.items = << >>]

Until(s, i) ==
  IF i <= Len(s) /\ s[i].kind = "break" THEN Parsed("ok", i + 1, << >>)
  ELSE LET p == Item(s, i) IN
         IF p.st = "ok" THEN After(p, Until(s, p.next))
         ELSE [p EXCEPT !.items = << >>]

Chunks(s, i, kind) ==
  CASE i > Len(s) -> Parsed("short", i, << >>)
    [] i <= Len(s) /\ Kind(s[i]) = "break" -> Parsed("ok", i + 1, << >>)
    [] i <= Len(s) /\ Kind(s[i]) = kind ->
         After(Parsed("ok", i, <<Value(kind, s[i].data, << >>)>>),
               Chunks(s, i + 1, kind))
    [] i <= Len(s) /\ Kind(s[i]) = "cut" -> Parsed("short", i, << >>)
    [] i <= Len(s) /\ Kind(s[i]) \notin {"break", kind, "cut"} ->
         Parsed("bad", 0, << >>)

Reference == Item(read, 1)

Nested(kinds) ==
  \E i, j \in DOMAIN read : i < j /\ {read[i].kind, read[j].kind} \subseteq kinds

HasBytes(n) == \E i \in DOMAIN read : read[i].kind = "bytes" /\ read[i].n = n

HasForm(forms) == \E i \in DOMAIN read : read[i].form \in forms

(* What the decoders take though the grammar does not have it: in C info   *)
(* bits that no item has, simple values in two bytes, and strings of       *)
(* unknown length as chunks of a string; in Python integers and tags whose *)
(* number is missing, a payload that was cut off and, for a bignum, a list *)
(* of numbers.                                                             *)
Tolerated ==
  \/ InC /\ (HasForm({"reserved", "open", "long"}) \/ Nested({"text*", "bytes*"}))
  \/ ~InC /\ HasForm({"open"})
  \/ ~InC /\ Has({"cut"})
  \/ ~InC /\ Has({"bigtag"}) /\ Has({"array", "array*", "map", "map*"})

(* What they refuse though the grammar has it: in C a bignum of 24 bytes   *)
(* or in chunks, and an empty chunk that is read from an object.           *)
Refused ==
  /\ InC
  /\ \/ Has({"bigtag"}) /\ (HasBytes(24) \/ Has({"bytes*"}))
     \/ decoder = "c load" /\ Has({"bytes*"}) /\ HasBytes(0)

-----------------------------------------------------------------------------
(* Properties *)


(* No input that is an item, or could still become one, is refused: a      *)
(* decoder that raises has read something no item starts with, or has come *)
(* to the end of the input (inner_loads_c, _loads_tb).                     *)
RefusesOnlyBadInput ==
  status = "failed" /\ ~Refused =>
    /\ Reference.st # "ok"
    /\ Reference.st = "short" => ended

-----------------------------------------------------------------------------
(* Bounds: inputs with two tokens that are not proper, or whose open       *)
(* containers cannot all be ended within MaxTokens tokens, are not read    *)
(* any further.                                                            *)
Missing(f) == IF f.kind \in Open THEN 1 ELSE f.left - 1

Improper == {i \in DOMAIN read : read[i].form # "proper"}

WithinBounds ==
  LET open == FoldSeq(LAMBDA f, n : n + Missing(f), 0, stack)
      top  == IF stack # << >> /\ Last(stack).kind \notin Open THEN 1 ELSE 0
  IN /\ Cardinality(Improper) <= 1
     /\ status = "item" => Len(read) + open + top <= MaxTokens
=============================================================================
