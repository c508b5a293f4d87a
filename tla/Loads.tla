------------------------------- MODULE Loads --------------------------------
(***************************************************************************)
(* The two decoders: inner_loads_c() and loads_tag() of c/cbormodule.c,    *)
(* and _loads_tb() of cbor/cbor.py with the functions it calls.  Both are  *)
(* recursive; a frame of the stack here is a call that waits for the items *)
(* inside the one it decodes.                                              *)
(*                                                                         *)
(* The input is made up as it is read, a token at a time.  A token is an   *)
(* initial byte with the bytes that belong to it: the number that follows  *)
(* it and, for a string, its payload.  "int" stands for every integer,     *)
(* float and simple value the decoders know.  A token that no item has is  *)
(* not of the form "proper": its info bits are 28 to 30 ("reserved") or,   *)
(* where no item is of unknown length, 31 ("open"), or a byte follows that *)
(* should have been the info bits of a simple value ("long").              *)
(***************************************************************************)
EXTENDS Integers, Sequences, SequencesExt

CONSTANTS
  Decoders,  \* "c loads" and "c load" of the C module, "py" for cbor.py
  MaxTokens  \* bound: tokens of the input

ASSUME LoadsAssumption ==
  Decoders \subseteq {"c loads", "c load", "py"} /\ MaxTokens \in Nat

VARIABLES
  decoder,  \* the function that was called
  status,   \* what comes next: "item", "return", "done" or "failed"
  stack,    \* the calls under way
  ret,      \* the value returned by the call that has just ended
  count,    \* and the number of bytes that cbor.py returns with it
  pending,  \* an exception set and overlooked
  error,    \* the kind of exception raised
  read, at, \* history: the tokens read, and how many bytes they are
  ended     \* history: the stream turned out to be at its end

vars == <<decoder, status, stack, ret, count, pending, error, read, at, ended>>

-----------------------------------------------------------------------------
(* Tokens, values and frames *)

Token(kind, n, data, size) ==
  [kind |-> kind, n |-> n, data |-> data, size |-> size, form |-> "proper"]

Odd(form, kind, data, size) ==
  [kind |-> kind, n |-> 0, data |-> data, size |-> size, form |-> form]

Tokens ==
  {Token("int", 0, << >>, 1), Token("array", 0, << >>, 1),
   Token("array", 2, << >>, 1), Token("map", 1, << >>, 1),
   Token("text", 1, <<"a">>, 2), Token("text", 1, <<"b">>, 2),
   Token("bytes", 0, << >>, 1), Token("bytes", 1, <<"a">>, 2),
   Token("bytes", 24, <<"long">>, 26),
   Token("tag", 0, << >>, 1), Token("bigtag", 0, << >>, 1)}
  \cup {Token(kind, 0, << >>, 1) :
         kind \in {"array*", "map*", "text*", "bytes*", "break",
                   "simple"}}
  \cup {Odd("reserved", kind, << >>, 1) :
         kind \in {"int", "text", "bytes", "array", "map", "tag", "simple"}}
  \cup {Odd("open", "int", << >>, 1), Odd("open", "int", <<"-">>, 1),
        Odd("open", "tag", << >>, 1), Odd("long", "int", << >>, 2)}

Open == {"array*", "map*", "text*", "bytes*"}

Value(kind, data, items) == [kind |-> kind, data |-> data, items |-> items]

IntValue == Value("int", << >>, << >>)
Bignum   == Value("bignum", << >>, << >>)
NoValue  == Value("none", << >>, << >>)

(* The items inside an item of a given length. *)
Needs(t) ==
  CASE t.kind = "array" -> t.n
    [] t.kind = "map" -> 2 * t.n
    [] t.kind \in {"tag", "bigtag"} -> 1
    [] OTHER -> 0

(* The call that reads the items inside an item. *)
Call(t) ==
  [kind |-> t.kind, left |-> Needs(t), items |-> << >>, key |-> << >>,
   count |-> t.size]

In(kinds) == stack # << >> /\ Last(stack).kind \in kinds

(* Lists, dicts and, as they define __eq__ only, Tags cannot be keys. *)
Hashable(v) == v.kind \notin {"array", "map", "tag"}

(* d[k] = v, for a dict written as a sequence of keys and values. *)
Put(d, k, v) ==
  LET same == {j \in DOMAIN d : j % 2 = 1 /\ d[j] = k} IN
    IF same = {} THEN d \o <<k, v>>
    ELSE [d EXCEPT ![(CHOOSE j \in same : TRUE) + 1] = v]

Joined(items) == FlattenSeq([i \in DOMAIN items |-> items[i].data])

Init ==
  /\ decoder \in Decoders
  /\ status = "item" /\ stack = << >> /\ ret = NoValue /\ count = 0
  /\ pending = FALSE /\ error = "none"
  /\ read = << >> /\ at = 0 /\ ended = FALSE

-----------------------------------------------------------------------------
(* Steps that several actions share *)

InC == decoder # "py"

Take(t) ==
  /\ status = "item" /\ ~ended /\ Len(read) < MaxTokens
  /\ read' = Append(read, t) /\ at' = at + t.size
  /\ UNCHANGED <<decoder, pending, ended>>

Return(v, n) ==
  /\ status' = "return" /\ ret' = v /\ count' = n
  /\ UNCHANGED error

Fail(why) ==
  /\ status' = "failed" /\ error' = why
  /\ UNCHANGED <<stack, ret, count>>

Await(frames) ==
  /\ status' = "item" /\ stack' = frames
  /\ UNCHANGED <<ret, count, error>>

(* Chunks of a string of unknown length are read in a loop of their own,   *)
(* except that C decodes the chunks of a text as items of any kind.        *)
Chunked ==
  \/ In({"bytes*"})
  \/ ~InC /\ In({"text*"})

(* loads_tag() looks at the string inside a bignum itself. *)
InBignum == InC /\ In({"bigtag"})

Generic == ~Chunked /\ ~InBignum

(* handle_info_bits() takes info bits that it does not know for the number *)
(* 0, and a simple value may be written either way.                        *)
Known(t) == InC \/ t.form = "proper"


BreakEndsNoMap == In({"array*", "text*", "bytes*"})  \* mutant of BreakFits

BreakFits ==
  \/ In({"array*", "text*", "bytes*"})
  \/ In({"map*"}) /\ Last(stack).key = << >>

-----------------------------------------------------------------------------
(* One token *)

ReadScalar(t) ==
  /\ Take(t)
  /\ Generic /\ Known(t) /\ t.kind \in {"int", "text", "bytes"}
  /\ Return(Value(t.kind, t.data, << >>), t.size)
  /\ UNCHANGED stack

(* _tag_aux() refuses 28 to 30; for 31 its number is None, with which only *)
(* a negative integer cannot be made.  A simple value has one byte.        *)
ReadOdd(t) ==
  /\ Take(t)
  /\ Generic /\ ~Known(t)
  /\ CASE t.form = "open" /\ t.kind = "tag" ->
            Await(Append(stack, Call(t)))
       [] t.form = "open" /\ t.kind = "int" /\ t.data = << >> ->
            Return(NoValue, 1) /\ UNCHANGED stack
       [] t.form = "long" -> Fail("value")
       [] OTHER -> Fail("other")

ReadSimple(t) ==
  /\ Take(t)
  /\ Generic /\ Known(t) /\ t.kind = "simple"
  /\ Fail("value")

ReadOpen(t) ==
  /\ Take(t)
  /\ Generic /\ Known(t)
  /\ t.kind \in Open \cup {"array", "map", "tag", "bigtag"}
  /\ IF t.kind \in {"array", "map"} /\ Needs(t) = 0
     THEN Return(Value(t.kind, << >>, << >>), t.size) /\ UNCHANGED stack
     ELSE Await(Append(stack, Call(t)))

(* loads_bignum() has no code for 24 bytes and more. *)
ReadBignum(t) ==
  /\ Take(t)
  /\ InBignum
  /\ IF t.kind = "bytes" /\ t.form = "proper" /\ t.n < 24
     THEN Return(Bignum, 0) /\ stack' = Front(stack)
     ELSE Fail("other")

(* In C a chunk of unknown length counts as one of no bytes; and a chunk   *)
(* of no bytes is a read(0), which an ObjectReader does not survive.       *)
ReadChunk(t) ==
  /\ Take(t)
  /\ Chunked /\ t.kind # "break"
  /\ LET f == Last(stack)
         empty == InC /\ (t.kind = "bytes*" \/ t.n = 0)
         fits  == \/ f.kind = "bytes*" /\ t.kind = "bytes"
                  \/ f.kind = "text*" /\ t.kind = "text"
                  \/ InC /\ t.kind = "bytes*"
     IN IF fits /\ Known(t) /\ ~(empty /\ decoder = "c load")
        THEN Await([stack EXCEPT ![Len(stack)] =
               [f EXCEPT !.items = Append(f.items, Value(t.kind, t.data, << >>)),
                         !.count = f.count + t.size]])
        ELSE Fail("other")

(* The value that a frame stands for. *)
ValueOf(f) ==
  CASE f.kind \in {"array", "array*"} -> Value("array", << >>, f.items)
    [] f.kind \in {"map", "map*"} -> Value("map", << >>, f.items)
    [] f.kind = "bytes*" -> Value("bytes", Joined(f.items), << >>)
    [] f.kind = "text*" -> Value("text", Joined(f.items), << >>)
    [] f.kind = "tag" -> Value("tag", << >>, f.items)
    [] f.kind = "bigtag" -> Bignum

(* PyUnicode_Join() takes strings only; _bytes_to_biguint() anything that  *)
(* gives integers when it is iterated over: bytes, a list or a dict.       *)
CanEnd(f) ==
  CASE f.kind = "text*" -> \A i \in DOMAIN f.items : f.items[i].kind = "text"
    [] f.kind = "bigtag" ->
         LET v == f.items[1] IN
           \/ v.kind = "bytes"
           \/ v.kind = "array" /\ \A i \in DOMAIN v.items :
                v.items[i].kind \in {"int", "bignum"}
           \/ v.kind = "map" /\ \A i \in DOMAIN v.items :
                i % 2 = 1 => v.items[i].kind \in {"int", "bignum"}
    [] OTHER -> TRUE

End(f, n) ==
  IF CanEnd(f) THEN Return(ValueOf(f), n) /\ stack' = Front(stack)
  ELSE Fail("other")

ReadBreak(t) ==
  /\ Take(t)
  /\ ~InBignum /\ t.kind = "break"
  /\ IF BreakFits THEN End(Last(stack), Last(stack).count + 1)
     ELSE Fail("value")

-----------------------------------------------------------------------------
(* One item is complete *)

NotAdded(f) == f.count  \* mutant of Counted

(* cbor.py adds one for the first byte of an element or a key of a         *)
(* container of unknown length, although _loads_tb() has counted it.       *)
Counted(f) ==
  IF f.kind = "array*" \/ (f.kind = "map*" /\ f.key = << >>)
  THEN f.count + 1 + count ELSE f.count + count

OneMore(f) == f.left = 0  \* mutant of Full

(* The loop over i ends. *)
Full(f) == f.left = 1

(* f has taken what was returned to it; it goes on, or ends if its length  *)
(* was given.                                                              *)
Continue(f) ==
  LET Wait(g) == Await([stack EXCEPT ![Len(stack)] = g]) IN
    IF f.kind \in Open THEN Wait(f)
    ELSE IF Full(f) THEN End(f, f.count)
    ELSE Wait([f EXCEPT !.left = f.left - 1])

DeliverElement ==
  /\ status = "return"
  /\ In({"array", "array*", "text*", "tag", "bigtag"})
  /\ LET f == Last(stack) IN
       Continue([f EXCEPT !.items = Append(f.items, ret),
                          !.count = Counted(f)])
  /\ UNCHANGED <<decoder, pending, read, at, ended>>

DeliverKey ==
  /\ status = "return" /\ In({"map", "map*"}) /\ Last(stack).key = << >>
  /\ LET f == Last(stack) IN
       Continue([f EXCEPT !.key = <<ret>>, !.count = Counted(f)])
  /\ UNCHANGED <<decoder, pending, read, at, ended>>

(* C ignores that PyDict_SetItem() failed. *)
DeliverValue ==
  /\ status = "return" /\ In({"map", "map*"}) /\ Last(stack).key # << >>
  /\ LET f == Last(stack)
         k == f.key[1]
         g == [f EXCEPT !.key = << >>, !.count = Counted(f)]
     IN IF Hashable(k)
        THEN /\ Continue([g EXCEPT !.items = Put(f.items, k, ret)])
             /\ UNCHANGED pending
        ELSE /\ IF InC THEN Continue(g) ELSE Fail("other")
             /\ pending' = (InC)
  /\ UNCHANGED <<decoder, read, at, ended>>

(* The interpreter refuses a result that comes with an exception. *)
Done ==
  /\ status = "return" /\ stack = << >>
  /\ IF pending THEN status' = "failed" /\ error' = "other"
     ELSE status' = "done" /\ UNCHANGED error
  /\ UNCHANGED <<decoder, stack, ret, count, pending, read, at, ended>>

-----------------------------------------------------------------------------
(* The end of the input *)

NothingRead == read = << >>  \* read_count = 0

(* cbor_load() tells the end of the stream from an end inside an item;     *)
(* cbor.py does so by accident, between the chunks of a string.            *)
EndOfInput ==
  /\ status = "item"
  /\ ended' = TRUE
  /\ Fail(CASE decoder = "c load" -> IF NothingRead THEN "eof" ELSE "value"
            [] decoder = "c loads" -> "value"
            [] decoder = "py" -> IF Chunked THEN "other" ELSE "eof")
  /\ UNCHANGED <<decoder, pending, read, at>>

(* The input ends within a token.  cbor.py does not notice when that is    *)
(* inside the payload of a string.                                         *)
EndInToken(t) ==
  /\ status = "item" /\ ~ended /\ Len(read) < MaxTokens /\ t.size > 1
  /\ read' = Append(read, [t EXCEPT !.kind = "cut"])
  /\ at' = at + t.size - 1 /\ ended' = TRUE
  /\ \/ Fail("other")
     \/ /\ ~InC /\ Generic /\ t.kind \in {"text", "bytes"}
        /\ Return(Value(t.kind, <<"cut">>, << >>), t.size)
        /\ UNCHANGED stack
  /\ UNCHANGED <<decoder, pending>>

-----------------------------------------------------------------------------

ReadToken(t) ==
  \/ ReadScalar(t) \/ ReadOdd(t) \/ ReadSimple(t) \/ ReadOpen(t)
  \/ ReadBignum(t) \/ ReadChunk(t) \/ ReadBreak(t)

Deliver == DeliverElement \/ DeliverKey \/ DeliverValue \/ Done

Next ==
  \/ \E t \in Tokens : ReadToken(t) \/ EndInToken(t)
  \/ Deliver
  \/ EndOfInput

Spec == Init /\ [][Next]_vars

-----------------------------------------------------------------------------
(* Properties *)

Has(kinds) == \E i \in DOMAIN read : read[i].kind \in kinds

(* The variables have their types, and a call that waits for the items of  *)
(* a container of a given length has some to wait for, in pairs in a map.  *)
TypeOK ==
  /\ status \in {"item", "return", "done", "failed"}
  /\ error \in {"none", "eof", "value", "other"}
  /\ (error # "none") = (status = "failed")
  /\ count \in Nat /\ at \in Nat /\ pending \in BOOLEAN /\ ended \in BOOLEAN
  /\ \A i \in DOMAIN stack :
       LET f == stack[i] IN
         /\ f.kind \in Open \cup {"array", "map", "tag", "bigtag"}
         /\ f.kind \in Open \/ f.left > 0
         /\ f.kind = "map" => f.left % 2 = 1 - (IF f.key = << >> THEN 1 ELSE 0)
         /\ f.kind \notin {"map", "map*"} => f.key = << >>

(* The second result of _loads: "return (object, bytes read)".  Of an item *)
(* with a container of unknown length it is too large: the first byte of   *)
(* each element is counted twice (_loads_var_array, _loads_var_map).       *)
CountsBytes ==
  status = "done" /\ ~InC /\ ~ended /\ ~Has({"array*", "map*"}) =>
    count = at
=============================================================================
