---------------------------- MODULE TagMapProofs ----------------------------
(***************************************************************************)
(* Theorems about TagMap, for every list of class tags and everything that *)
(* a caller may encode.                                                    *)
(***************************************************************************)
EXTENDS TagMap, SequenceTheorems, WellFoundedInduction, TLAPS

Types  == STRING \cup {""}  \* the provers do not know "" for a string
Obj    == [kind : Kinds, type : Types, items : Seq(Nat)]
Phases == {"ob", "encode", "encoded", "loaded", "decode", "decoded", "failed",
           "refused"}
Frames == [at : Nat, out : Nat, i : Nat]

(* Objects refer to objects that there are. *)
Linked(h) ==
  /\ h \in Seq(Obj)
  /\ \A n \in DOMAIN h :
       /\ \A i \in DOMAIN h[n].items : h[n].items[i] \in DOMAIN h
       /\ h[n].kind \in Holders => Len(h[n].items) = 1

(* A call walks through an object that there is, and not beyond its end. *)
OnHeap(f, h) ==
  /\ f.at \in DOMAIN h /\ f.out \in DOMAIN h
  /\ f.i <= Len(h[f.at].items)

(* What is filled while encode() runs is new. *)
Encoding ==
  /\ phase \in {"encode", "encoded"} => sent > own
  /\ phase = "encode" => \A j \in DOMAIN stack :
                           /\ stack[j].out > own
                           /\ heap[stack[j].out].kind \in {"list", "dict"}

(* All that is above b refers only to what is above b. *)
ClosedAbove(h, b) ==
  \A n \in DOMAIN h : n > b => \A i \in DOMAIN h[n].items : h[n].items[i] > b

(* While decode() runs nothing that loads() made, and nothing that decode  *)
(* makes of it, refers to anything older.                                  *)
Decoding ==
  phase \in {"loaded", "decode"} =>
    \E b \in Nat :
      /\ got = sent + b /\ own <= b /\ b < got /\ ClosedAbove(heap, b)
      /\ \A j \in DOMAIN stack : stack[j].at > b

(* What the types are, and where the calls are. *)
Basics ==
  /\ Linked(heap) /\ own \in 1 .. Len(heap)
  /\ raise_on_unknown_tag \in BOOLEAN /\ raises \in 0 .. MaxRaises
  /\ phase \in Phases /\ stack \in Seq(Frames)
  /\ stack # << >> <=> phase \in {"encode", "decode"}
  /\ \A j \in DOMAIN stack : OnHeap(stack[j], heap)
  /\ sent \in 0 .. Len(heap) /\ got \in 0 .. Len(heap)

(* The invariant for what becomes of the caller's objects. *)
MapInv == Basics /\ Encoding /\ Decoding

-----------------------------------------------------------------------------
(* Changing the heap *)

(* g is h, but for the items of n, where x may have come in. *)
Changed(h, g, n, x) ==
  /\ g \in Seq(Obj) /\ Len(g) = Len(h)
  /\ \A m \in DOMAIN h :
       /\ g[m].kind = h[m].kind /\ Len(h[m].items) <= Len(g[m].items)
       /\ h[m].kind \in Holders => Len(g[m].items) = Len(h[m].items)
       /\ \A j \in DOMAIN g[m].items :
            \/ g[m].items[j] = x
            \/ j \in DOMAIN h[m].items /\ g[m].items[j] = h[m].items[j]
       /\ m # n => g[m] = h[m]

(* What an object of a heap is. *)
LEMMA ObjectOf ==
  ASSUME NEW h \in Seq(Obj), NEW n \in DOMAIN h
  PROVE  /\ h[n] \in Obj /\ h[n].items \in Seq(Nat) /\ h[n].kind \in Kinds
         /\ h[n].type \in Types /\ Len(h[n].items) \in Nat
         /\ DOMAIN h[n].items = 1 .. Len(h[n].items)
<1>1. h[n] \in Obj
  OBVIOUS
<1>2. h[n].items \in Seq(Nat) /\ h[n].kind \in Kinds /\ h[n].type \in Types
  BY <1>1 DEF Obj
<1> QED  BY <1>1, <1>2

(* An object with other items is an object. *)
LEMMA WithItems ==
  ASSUME NEW o \in Obj, NEW xs \in Seq(Nat)
  PROVE  /\ [o EXCEPT !.items = xs] \in Obj
         /\ [o EXCEPT !.items = xs].items = xs
         /\ [o EXCEPT !.items = xs].kind = o.kind
         /\ [o EXCEPT !.items = xs].type = o.type
  BY DEF Obj

(* A heap with another object in one place. *)
LEMMA ReplaceObject ==
  ASSUME NEW h \in Seq(Obj), NEW n \in DOMAIN h, NEW o \in Obj
  PROVE  /\ [h EXCEPT ![n] = o] \in Seq(Obj)
         /\ Len([h EXCEPT ![n] = o]) = Len(h)
         /\ [h EXCEPT ![n] = o][n] = o
         /\ \A m \in DOMAIN h : m # n => [h EXCEPT ![n] = o][m] = h[m]
  BY ExceptSeq

(* The item i of n is x now, and all else is as it was. *)
SetIn(h, g, n, i, x) ==
  /\ g \in Seq(Obj) /\ Len(g) = Len(h) /\ DOMAIN g = DOMAIN h
  /\ g[n].kind = h[n].kind /\ g[n].type = h[n].type
  /\ Len(g[n].items) = Len(h[n].items) /\ DOMAIN g[n].items = DOMAIN h[n].items
  /\ g[n].items[i] = x
  /\ \A j \in DOMAIN h[n].items : j # i => g[n].items[j] = h[n].items[j]
  /\ \A m \in DOMAIN h : m # n => g[m] = h[m]

(* x comes after the items of n, and all else is as it was. *)
PutIn(h, g, n, x) ==
  /\ g \in Seq(Obj) /\ Len(g) = Len(h) /\ DOMAIN g = DOMAIN h
  /\ g[n].kind = h[n].kind /\ g[n].type = h[n].type
  /\ Len(g[n].items) = Len(h[n].items) + 1
  /\ g[n].items[Len(h[n].items) + 1] = x
  /\ \A j \in DOMAIN h[n].items : g[n].items[j] = h[n].items[j]
  /\ \A m \in DOMAIN h : m # n => g[m] = h[m]

LEMMA SetExactly ==
  ASSUME NEW h \in Seq(Obj), NEW n \in DOMAIN h, NEW i \in DOMAIN h[n].items,
         NEW x \in Nat
  PROVE  SetIn(h, [h EXCEPT ![n].items[i] = x], n, i, x)
<1> DEFINE xs == [h[n].items EXCEPT ![i] = x]
           o  == [h[n] EXCEPT !.items = xs]
           g  == [h EXCEPT ![n] = o]
<1>1. h[n] \in Obj
  OBVIOUS
<1>2. h[n].items \in Seq(Nat)
  BY <1>1 DEF Obj
<1>3. /\ xs \in Seq(Nat) /\ Len(xs) = Len(h[n].items) /\ xs[i] = x
      /\ \A j \in DOMAIN h[n].items : j # i => xs[j] = h[n].items[j]
  BY <1>2, ExceptSeq
<1>4. DOMAIN xs = DOMAIN h[n].items
  OBVIOUS
<1> HIDE DEF xs
<1>5. o \in Obj /\ o.items = xs /\ o.kind = h[n].kind /\ o.type = h[n].type
  BY <1>1, <1>3, WithItems
<1> HIDE DEF o
<1>6. /\ g \in Seq(Obj) /\ Len(g) = Len(h) /\ g[n] = o
      /\ \A m \in DOMAIN h : m # n => g[m] = h[m]
  BY <1>5, ReplaceObject
<1>7. [h EXCEPT ![n].items[i] = x] = g
  BY DEF o, xs
<1> HIDE DEF g
<1>8. DOMAIN g = DOMAIN h
  BY <1>6
<1>9. SetIn(h, g, n, i, x)
  BY <1>3, <1>4, <1>5, <1>6, <1>8 DEF SetIn
<1> QED  BY <1>7, <1>9

LEMMA PutExactly ==
  ASSUME NEW h \in Seq(Obj), NEW n \in DOMAIN h, NEW x \in Nat
  PROVE  PutIn(h, [h EXCEPT ![n].items = Append(h[n].items, x)], n, x)
<1> DEFINE xs == Append(h[n].items, x)
           o  == [h[n] EXCEPT !.items = xs]
           g  == [h EXCEPT ![n] = o]
<1>1. h[n] \in Obj
  OBVIOUS
<1>2. h[n].items \in Seq(Nat)
  BY <1>1 DEF Obj
<1>3. /\ xs \in Seq(Nat) /\ Len(xs) = Len(h[n].items) + 1
      /\ xs[Len(h[n].items) + 1] = x
      /\ \A j \in DOMAIN h[n].items : xs[j] = h[n].items[j]
  BY <1>2, AppendProperties
<1> HIDE DEF xs
<1>5. o \in Obj /\ o.items = xs /\ o.kind = h[n].kind /\ o.type = h[n].type
  BY <1>1, <1>3, WithItems
<1> HIDE DEF o
<1>6. /\ g \in Seq(Obj) /\ Len(g) = Len(h) /\ g[n] = o
      /\ \A m \in DOMAIN h : m # n => g[m] = h[m]
  BY <1>5, ReplaceObject
<1>7. [h EXCEPT ![n].items = Append(h[n].items, x)] = g
  BY DEF o, xs
<1> HIDE DEF g
<1>8. DOMAIN g = DOMAIN h
  BY <1>6
<1>9. PutIn(h, g, n, x)
  BY <1>3, <1>5, <1>6, <1>8 DEF PutIn
<1> QED  BY <1>7, <1>9

(* Set and Put change the items of one object. *)
LEMMA SetChanges ==
  ASSUME NEW h, Linked(h), NEW n \in DOMAIN h, NEW i \in DOMAIN h[n].items,
         NEW x \in Nat
  PROVE  Changed(h, [h EXCEPT ![n].items[i] = x], n, x)
<1> DEFINE g == [h EXCEPT ![n].items[i] = x]
<1>1. h \in Seq(Obj) /\ \A m \in DOMAIN h : Len(h[m].items) \in Nat
  <2>1. h \in Seq(Obj)
    BY DEF Linked
  <2> QED  BY <2>1, ObjectOf
<1>2. SetIn(h, g, n, i, x)
  BY <1>1, SetExactly
<1> HIDE DEF g
<1>3. Changed(h, g, n, x)
  BY <1>1, <1>2 DEF SetIn, Changed
<1> QED  BY <1>3 DEF g

LEMMA PutChanges ==
  ASSUME NEW h, Linked(h), NEW n \in DOMAIN h, h[n].kind \notin Holders,
         NEW x \in Nat
  PROVE  Changed(h, [h EXCEPT ![n].items = Append(h[n].items, x)], n, x)
<1> DEFINE g == [h EXCEPT ![n].items = Append(h[n].items, x)]
<1>1. /\ h \in Seq(Obj)
      /\ \A m \in DOMAIN h : /\ Len(h[m].items) \in Nat
                            /\ DOMAIN h[m].items = 1 .. Len(h[m].items)
  <2>1. h \in Seq(Obj)
    BY DEF Linked
  <2> QED  BY <2>1, ObjectOf
<1>2. PutIn(h, g, n, x)
  BY <1>1, PutExactly
<1> HIDE DEF g
<1>3. /\ g \in Seq(Obj) /\ g[n] \in Obj /\ DOMAIN g[n].items = 1 .. Len(g[n].items)
  <2>1. g \in Seq(Obj) /\ n \in DOMAIN g
    BY <1>2 DEF PutIn
  <2> QED  BY <2>1, ObjectOf
<1>4. ASSUME NEW j \in DOMAIN g[n].items
      PROVE  \/ g[n].items[j] = x
             \/ j \in DOMAIN h[n].items /\ g[n].items[j] = h[n].items[j]
  BY <1>1, <1>2, <1>3, <1>4 DEF PutIn
<1>5. Changed(h, g, n, x)
  BY <1>1, <1>2, <1>4 DEF PutIn, Changed
<1> QED  BY <1>5 DEF g

(* What comes in may be an object that there is. *)
LEMMA ChangedLinked ==
  ASSUME NEW h, Linked(h), NEW g, NEW n, NEW x \in DOMAIN h, Changed(h, g, n, x)
  PROVE  Linked(g)
<1>1. /\ h \in Seq(Obj) /\ g \in Seq(Obj) /\ DOMAIN g = DOMAIN h
  BY DEF Linked, Changed
<1>2. ASSUME NEW m \in DOMAIN g
      PROVE  /\ \A j \in DOMAIN g[m].items : g[m].items[j] \in DOMAIN g
             /\ g[m].kind \in Holders => Len(g[m].items) = 1
  BY <1>1, <1>2 DEF Linked, Changed
<1> QED  BY <1>1, <1>2 DEF Linked

(* Or a new one. *)
LEMMA AddedLinked ==
  ASSUME NEW h, Linked(h), NEW g, NEW n, Changed(h, g, n, Len(h) + 1),
         NEW o \in Obj,
         \A i \in DOMAIN o.items : o.items[i] \in DOMAIN h,
         o.kind \in Holders => Len(o.items) = 1
  PROVE  Linked(Append(g, o))
<1> DEFINE a == Append(g, o)
<1>1. /\ h \in Seq(Obj) /\ g \in Seq(Obj) /\ DOMAIN g = DOMAIN h
      /\ Len(h) \in Nat /\ Len(g) = Len(h) /\ DOMAIN h = 1 .. Len(h)
  BY DEF Linked, Changed
<1>2. /\ a \in Seq(Obj) /\ Len(a) = Len(h) + 1 /\ a[Len(h) + 1] = o
      /\ DOMAIN a = 1 .. Len(h) + 1
      /\ \A m \in DOMAIN h : a[m] = g[m]
  BY <1>1, AppendProperties
<1> HIDE DEF a
<1>3. DOMAIN h \subseteq DOMAIN a /\ Len(h) + 1 \in DOMAIN a
  BY <1>1, <1>2
<1>4. ASSUME NEW m \in DOMAIN h
      PROVE  /\ \A j \in DOMAIN a[m].items : a[m].items[j] \in DOMAIN a
             /\ a[m].kind \in Holders => Len(a[m].items) = 1
  BY <1>2, <1>3, <1>4 DEF Linked, Changed
<1>5. ASSUME NEW m \in DOMAIN a
      PROVE  /\ \A j \in DOMAIN a[m].items : a[m].items[j] \in DOMAIN a
             /\ a[m].kind \in Holders => Len(a[m].items) = 1
  <2>1. CASE m \in DOMAIN h
    BY <1>4, <2>1
  <2>2. CASE m = Len(h) + 1
    BY <1>2, <1>3, <2>2
  <2> QED  BY <1>1, <1>2, <1>5, <2>1, <2>2
<1>6. Linked(a)
  BY <1>2, <1>5 DEF Linked
<1> QED  BY <1>6 DEF a

(* g is h, some steps later. *)
Later(h, g) ==
  /\ Len(h) <= Len(g)
  /\ \A m \in DOMAIN h :
       /\ g[m].kind = h[m].kind /\ Len(h[m].items) <= Len(g[m].items)

(* A call stays where it is while the heap grows. *)
LEMMA LaterOnHeap ==
  ASSUME NEW h, NEW g, Linked(h), Linked(g), Later(h, g),
         NEW f \in Frames, OnHeap(f, h)
  PROVE  OnHeap(f, g)
<1>1. f.at \in DOMAIN h /\ f.out \in DOMAIN h /\ f.i <= Len(h[f.at].items)
  BY DEF OnHeap
<1>2. h \in Seq(Obj) /\ g \in Seq(Obj)
  BY DEF Linked
<1>3. f.at \in DOMAIN g /\ f.out \in DOMAIN g
  BY <1>1, <1>2 DEF Later
<1>4. h[f.at].items \in Seq(Nat) /\ g[f.at].items \in Seq(Nat)
  BY <1>1, <1>2, <1>3, ObjectOf
<1>5. Len(h[f.at].items) \in Nat /\ Len(g[f.at].items) \in Nat /\ f.i \in Nat
  BY <1>4 DEF Frames
<1>6. Len(h[f.at].items) <= Len(g[f.at].items)
  BY <1>1 DEF Later
<1>7. f.i <= Len(g[f.at].items)
  BY <1>1, <1>5, <1>6
<1> QED  BY <1>3, <1>7 DEF OnHeap

LEMMA ChangedLater ==
  ASSUME NEW h, NEW g, NEW n, NEW x, Linked(h), Changed(h, g, n, x)
  PROVE  Later(h, g)
<1>1. Len(h) \in Nat /\ Len(g) = Len(h)
  BY DEF Linked, Changed
<1> QED  BY <1>1 DEF Changed, Later

LEMMA AppendLater ==
  ASSUME NEW h, NEW g \in Seq(Obj), NEW o \in Obj, h \in Seq(Obj), Later(h, g)
  PROVE  /\ Later(h, Append(g, o))
         /\ \A m \in DOMAIN h : Append(g, o)[m] = g[m]
<1>1. /\ Len(h) \in Nat /\ Len(g) \in Nat /\ Len(h) <= Len(g)
      /\ Len(Append(g, o)) = Len(g) + 1
  BY DEF Later
<1>2. \A m \in DOMAIN h : m \in 1 .. Len(g)
  BY <1>1
<1>3. \A m \in DOMAIN h : Append(g, o)[m] = g[m]
  BY <1>2, AppendProperties
<1> QED  BY <1>1, <1>3 DEF Later

(* Nothing above the border refers below it if what comes in does not. *)
LEMMA ChangedClosed ==
  ASSUME NEW h, NEW g, NEW n, NEW x, Linked(h), Changed(h, g, n, x),
         NEW b \in Nat, ClosedAbove(h, b), x > b
  PROVE  ClosedAbove(g, b)
<1>1. DOMAIN g = DOMAIN h
  BY DEF Linked, Changed
<1> SUFFICES ASSUME NEW m \in DOMAIN h, m > b, NEW j \in DOMAIN g[m].items
             PROVE  g[m].items[j] > b
  BY <1>1 DEF ClosedAbove
<1>2. \/ g[m].items[j] = x
      \/ j \in DOMAIN h[m].items /\ g[m].items[j] = h[m].items[j]
  BY DEF Changed
<1> QED  BY <1>2 DEF ClosedAbove

LEMMA AppendClosed ==
  ASSUME NEW g \in Seq(Obj), NEW o \in Obj, NEW b \in Nat, ClosedAbove(g, b),
         \A i \in DOMAIN o.items : o.items[i] > b
  PROVE  ClosedAbove(Append(g, o), b)
<1> DEFINE a == Append(g, o)
<1>1. /\ \A m \in DOMAIN g : a[m] = g[m]
      /\ a[Len(g) + 1] = o
      /\ \A m \in DOMAIN a : m \in DOMAIN g \/ m = Len(g) + 1
  BY AppendProperties
<1> HIDE DEF a
<1>2. ClosedAbove(a, b)
  BY <1>1 DEF ClosedAbove
<1> QED  BY <1>2 DEF a

(* loads() puts a copy of the heap behind it, which refers to itself. *)
(* loads() makes y of the object n. *)
IsCopy(y, n) ==
  /\ y.kind = (IF heap[n].kind = "tuple" THEN "list" ELSE heap[n].kind)
  /\ y.type = heap[n].type /\ Len(y.items) = Len(heap[n].items)
  /\ DOMAIN y.items = DOMAIN heap[n].items
  /\ \A i \in DOMAIN heap[n].items : y.items[i] = heap[n].items[i] + Len(heap)

(* What loads() returns refers to copies only. *)
LEMMA CopiedHeap ==
  ASSUME Linked(heap)
  PROVE  /\ Linked(Copied) /\ Later(heap, Copied)
         /\ Len(Copied) = Len(heap) + Len(heap)
         /\ \A n \in DOMAIN heap : Copied[n] = heap[n]
         /\ \A n \in DOMAIN heap : IsCopy(Copied[n + Len(heap)], n)
         /\ ClosedAbove(Copied, Len(heap))
<1> DEFINE L == Len(heap)
           xs(n) == [i \in DOMAIN heap[n].items |-> heap[n].items[i] + L]
           kind(n) == IF heap[n].kind = "tuple" THEN "list" ELSE heap[n].kind
           o(n) == Object(kind(n), heap[n].type, xs(n))
           copy == [n \in DOMAIN heap |-> o(n)]
           c == heap \o copy
<1>0. Copied = c
  BY DEF Copied
<1>1. L \in Nat /\ heap \in Seq(Obj) /\ DOMAIN heap = 1 .. L
  BY DEF Linked
<1>2. ASSUME NEW n \in DOMAIN heap
      PROVE  /\ o(n) \in Obj /\ o(n).items = xs(n) /\ o(n).kind = kind(n)
             /\ IsCopy(o(n), n)
             /\ Len(xs(n)) = Len(heap[n].items)
             /\ \A i \in DOMAIN xs(n) : xs(n)[i] > L /\ xs(n)[i] <= L + L
             /\ kind(n) \in Holders => Len(heap[n].items) = 1
  <2>1. /\ heap[n] \in Obj /\ heap[n].items \in Seq(Nat)
        /\ \A i \in DOMAIN heap[n].items : heap[n].items[i] \in 1 .. L
        /\ heap[n].kind \in Holders => Len(heap[n].items) = 1
    BY <1>1, ObjectOf DEF Linked
  <2>2. /\ xs(n) \in Seq(Nat) /\ Len(xs(n)) = Len(heap[n].items)
        /\ \A i \in DOMAIN xs(n) : xs(n)[i] > L /\ xs(n)[i] <= L + L
    <3>1. DOMAIN heap[n].items = 1 .. Len(heap[n].items)
      BY <2>1
    <3>2. \A i \in 1 .. Len(heap[n].items) :
            /\ heap[n].items[i] + L \in Nat
            /\ heap[n].items[i] + L > L /\ heap[n].items[i] + L <= L + L
      <4> SUFFICES ASSUME NEW i \in 1 .. Len(heap[n].items)
                   PROVE  /\ heap[n].items[i] + L \in Nat
                          /\ heap[n].items[i] + L > L
                          /\ heap[n].items[i] + L <= L + L
        OBVIOUS
      <4>1. heap[n].items[i] \in 1 .. L
        BY <2>1, <3>1
      <4>2. L \in Nat
        BY <1>1
      <4> HIDE DEF L
      <4> QED  BY <4>1, <4>2
    <3> QED  BY <2>1, <3>1, <3>2
  <2>3. kind(n) \in Kinds /\ (kind(n) \in Holders => kind(n) = heap[n].kind)
    BY <2>1 DEF Obj, Kinds, Holders
  <2> HIDE DEF xs, kind
  <2>4. o(n) \in Obj /\ o(n).items = xs(n) /\ o(n).kind = kind(n)
    BY <2>1, <2>2, <2>3 DEF Obj, Object
  <2>5. o(n).type = heap[n].type
    BY DEF Object
  <2>6. /\ DOMAIN xs(n) = DOMAIN heap[n].items
        /\ \A i \in DOMAIN heap[n].items : xs(n)[i] = heap[n].items[i] + Len(heap)
    BY DEF xs
  <2>7. IsCopy(o(n), n)
    BY <2>2, <2>4, <2>5, <2>6 DEF IsCopy, kind
  <2> QED  BY <2>1, <2>2, <2>3, <2>4, <2>7
<1> HIDE DEF o
<1>3. /\ copy \in Seq(Obj) /\ Len(copy) = L
      /\ \A n \in DOMAIN heap : copy[n] = o(n)
  <2>1. \A n \in 1 .. L : o(n) \in Obj
    BY <1>1, <1>2
  <2>2. copy = [n \in 1 .. L |-> o(n)]
    BY <1>1
  <2> HIDE DEF L
  <2> QED  BY <1>1, <2>1, <2>2
<1> HIDE DEF copy
<1>4. /\ c \in Seq(Obj) /\ Len(c) = L + L /\ DOMAIN c = 1 .. L + L
      /\ \A n \in DOMAIN heap : c[n] = heap[n]
      /\ \A n \in DOMAIN c : n \notin DOMAIN heap =>
            n - L \in DOMAIN heap /\ c[n] = copy[n - L]
  <2>1. c \in Seq(Obj) /\ Len(c) = L + L
    BY <1>1, <1>3, ConcatProperties
  <2>2. DOMAIN c = 1 .. L + L
    BY <1>1, <2>1
  <2>3. \A n \in 1 .. L + L : c[n] = IF n <= L THEN heap[n] ELSE copy[n - L]
    BY <1>1, <1>3, ConcatProperties
  <2>4. \A n \in 1 .. L + L : n \notin 1 .. L => ~(n <= L) /\ n - L \in 1 .. L
    BY <1>1
  <2>5. \A n \in 1 .. L : n \in 1 .. L + L /\ n <= L
    BY <1>1
  <2> HIDE DEF c, L
  <2> QED  BY <1>1, <2>1, <2>2, <2>3, <2>4, <2>5
<1> HIDE DEF c
<1>5. ASSUME NEW n \in DOMAIN c, n \notin DOMAIN heap
      PROVE  /\ \A i \in DOMAIN c[n].items : c[n].items[i] > L /\ c[n].items[i] \in DOMAIN c
             /\ c[n].kind \in Holders => Len(c[n].items) = 1
  <2>1. PICK m \in DOMAIN heap : c[n] = o(m)
    BY <1>3, <1>4, <1>5
  <2>2. /\ c[n].items = xs(m) /\ c[n].kind = kind(m) /\ Len(xs(m)) = Len(heap[m].items)
        /\ \A i \in DOMAIN xs(m) : xs(m)[i] > L /\ xs(m)[i] <= L + L
        /\ kind(m) \in Holders => Len(heap[m].items) = 1
    BY <1>2, <2>1
  <2>3. c[n].items \in Seq(Nat)
    BY <1>4, ObjectOf
  <2>4. \A i \in DOMAIN c[n].items : c[n].items[i] \in Nat
    BY <2>3
  <2>5. \A k \in Nat : k > L /\ k <= L + L => k \in 1 .. L + L
    BY <1>1
  <2> HIDE DEF xs, kind, L
  <2> QED  BY <1>4, <2>2, <2>4, <2>5
<1>6. \A n \in DOMAIN heap : n \in DOMAIN c /\ ~(n > L)
  BY <1>1, <1>4
<1>7. ASSUME NEW n \in DOMAIN c
      PROVE  /\ \A i \in DOMAIN c[n].items : c[n].items[i] \in DOMAIN c
             /\ c[n].kind \in Holders => Len(c[n].items) = 1
  <2>1. CASE n \in DOMAIN heap
    BY <1>4, <1>6, <2>1 DEF Linked
  <2>2. CASE n \notin DOMAIN heap
    BY <1>5, <2>2
  <2> QED  BY <2>1, <2>2
<1>8. Linked(c)
  BY <1>4, <1>7 DEF Linked
<1>9. Later(heap, c)
  <2>1. Len(heap) <= Len(c)
    BY <1>1, <1>4
  <2>2. \A n \in DOMAIN heap : Len(heap[n].items) \in Nat
    BY <1>1 DEF Obj
  <2>3. \A n \in DOMAIN heap : c[n].kind = heap[n].kind /\ Len(heap[n].items) <= Len(c[n].items)
    BY <1>4, <2>2
  <2> QED  BY <2>1, <2>3 DEF Later
<1>10. ClosedAbove(c, L)
  BY <1>5, <1>6 DEF ClosedAbove
<1>11. ASSUME NEW n \in DOMAIN heap
       PROVE  IsCopy(c[n + L], n)
  <2>1. n + L \in DOMAIN c /\ n + L \notin DOMAIN heap /\ (n + L) - L = n
    BY <1>1, <1>4
  <2> HIDE DEF L
  <2>2. c[n + L] = o(n)
    BY <1>3, <1>4, <2>1
  <2> QED  BY <1>2, <2>2
<1> QED  BY <1>0, <1>4, <1>8, <1>9, <1>10, <1>11

-----------------------------------------------------------------------------
(* Walking through the heap *)

(* A frame that was on the stack, perhaps one item further. *)
Known(f) ==
  \E k \in DOMAIN stack : /\ f.at = stack[k].at /\ f.out = stack[k].out
                         /\ f.i <= Len(heap[f.at].items)

(* There is a next item, and a call that deals with it. *)
LEMMA NextItemThere ==
  ASSUME Basics, NEW p, More(p)
  PROVE  /\ 1 \in DOMAIN stack /\ Head(stack) = stack[1]
         /\ Head(stack) \in Frames
         /\ Head(stack).at \in DOMAIN heap /\ Head(stack).out \in DOMAIN heap
         /\ Head(stack).i + 1 \in DOMAIN heap[Head(stack).at].items
         /\ NextItem \in DOMAIN heap
<1>1. stack \in Seq(Frames) /\ stack # << >> /\ heap \in Seq(Obj)
  BY DEF Basics, Linked, More
<1>2. 1 \in DOMAIN stack /\ Head(stack) = stack[1] /\ Head(stack) \in Frames
  BY <1>1, HeadTailProperties
<1>3. OnHeap(Head(stack), heap)
  BY <1>2 DEF Basics
<1>4. Head(stack).at \in DOMAIN heap /\ Head(stack).out \in DOMAIN heap
  BY <1>3 DEF OnHeap
<1>5. Head(stack).i + 1 \in DOMAIN heap[Head(stack).at].items
  <2>1. /\ Len(heap[Head(stack).at].items) \in Nat
        /\ DOMAIN heap[Head(stack).at].items = 1 .. Len(heap[Head(stack).at].items)
    BY <1>1, <1>4, ObjectOf
  <2>2. Head(stack).i \in Nat
    BY <1>2 DEF Frames
  <2>3. /\ Head(stack).i <= Len(heap[Head(stack).at].items)
        /\ Head(stack).i # Len(heap[Head(stack).at].items)
    BY <1>3 DEF OnHeap, More, Done
  <2> QED  BY <2>1, <2>2, <2>3
<1>6. NextItem \in DOMAIN heap
  BY <1>4, <1>5 DEF NextItem, Basics, Linked
<1> QED  BY <1>2, <1>4, <1>5, <1>6

(* The stack after an item was dealt with. *)
LEMMA AdvancedFrames ==
  ASSUME Basics, NEW p, More(p)
  PROVE  /\ Advanced \in Seq(Frames) /\ Len(Advanced) = Len(stack)
         /\ DOMAIN Advanced = DOMAIN stack
         /\ Advanced[1] \in Frames /\ Advanced[1].at = stack[1].at
         /\ Advanced[1].out = stack[1].out /\ Advanced[1].i = stack[1].i + 1
         /\ \A j \in DOMAIN stack : j # 1 => Advanced[j] = stack[j]
<1> DEFINE f == [Head(stack) EXCEPT !.i = Head(stack).i + 1]
<1>1. 1 \in DOMAIN stack /\ Head(stack) = stack[1] /\ Head(stack) \in Frames
  BY NextItemThere
<1>2. stack \in Seq(Frames) /\ stack # << >>
  BY DEF Basics, More
<1>3. /\ f \in Frames /\ f.at = stack[1].at /\ f.out = stack[1].out
      /\ f.i = stack[1].i + 1
  BY <1>1 DEF Frames
<1>4. Advanced = <<f>> \o Tail(stack)
  BY DEF Advanced
<1> HIDE DEF f
<1>5. /\ Tail(stack) \in Seq(Frames) /\ Len(Tail(stack)) = Len(stack) - 1
      /\ \A j \in 1 .. Len(Tail(stack)) : Tail(stack)[j] = stack[j + 1]
      /\ Len(stack) \in Nat
  BY <1>2, HeadTailProperties
<1>6. <<f>> \in Seq(Frames) /\ Len(<<f>>) = 1 /\ <<f>>[1] = f
  BY <1>3
<1>7. Advanced \in Seq(Frames) /\ Len(Advanced) = Len(stack)
  BY <1>4, <1>5, <1>6, ConcatProperties
<1>8. \A j \in 1 .. Len(stack) :
        Advanced[j] = IF j <= 1 THEN <<f>>[j] ELSE Tail(stack)[j - 1]
  BY <1>4, <1>5, <1>6, ConcatProperties
<1>9. DOMAIN Advanced = 1 .. Len(stack) /\ DOMAIN stack = 1 .. Len(stack)
  BY <1>2, <1>7
<1>10. \A j \in DOMAIN stack : j # 1 => Advanced[j] = stack[j]
  <2> SUFFICES ASSUME NEW j \in DOMAIN stack, j # 1
               PROVE  Advanced[j] = stack[j]
    OBVIOUS
  <2>1. j - 1 \in 1 .. Len(Tail(stack)) /\ (j - 1) + 1 = j
        /\ ~(j <= 1) /\ j \in 1 .. Len(stack)
    BY <1>5, <1>9
  <2> QED  BY <1>5, <1>8, <2>1
<1>11. Advanced[1] = f
  <2>1. 1 \in 1 .. Len(stack)
    BY <1>1, <1>2
  <2> QED  BY <1>6, <1>8, <2>1
<1> QED  BY <1>3, <1>7, <1>9, <1>10, <1>11

(* Every call goes on where it was, the first perhaps with its next item. *)
LEMMA AdvancedKnown ==
  ASSUME Basics, NEW p, More(p)
  PROVE  /\ Advanced \in Seq(Frames) /\ Advanced # << >>
         /\ \A j \in DOMAIN Advanced : Known(Advanced[j])
<1>1. /\ 1 \in DOMAIN stack /\ Head(stack) = stack[1] /\ stack[1].i \in Nat
      /\ stack[1].i + 1 \in DOMAIN heap[stack[1].at].items
      /\ stack[1].at \in DOMAIN heap
  BY NextItemThere DEF Frames
<1>2. heap \in Seq(Obj)
  BY DEF Basics, Linked
<1>3. stack[1].i + 1 <= Len(heap[stack[1].at].items)
  <2>1. /\ DOMAIN heap[stack[1].at].items = 1 .. Len(heap[stack[1].at].items)
        /\ Len(heap[stack[1].at].items) \in Nat
    BY <1>1, <1>2, ObjectOf
  <2>2. stack[1].i + 1 \in 1 .. Len(heap[stack[1].at].items)
    BY <1>1, <2>1
  <2> QED  BY <2>1, <2>2
<1>4. Known(Advanced[1])
  BY <1>1, <1>3, AdvancedFrames DEF Known
<1>5. ASSUME NEW j \in DOMAIN Advanced
      PROVE  Known(Advanced[j])
  <2>1. CASE j = 1
    BY <1>4, <2>1
  <2>2. CASE j # 1
    <3>1. j \in DOMAIN stack /\ Advanced[j] = stack[j]
      BY <1>5, <2>2, AdvancedFrames
    <3>2. stack[j].i <= Len(heap[stack[j].at].items)
      BY <3>1 DEF Basics, OnHeap
    <3> QED  BY <3>1, <3>2 DEF Known
  <2> QED  BY <2>1, <2>2
<1>6. Advanced # << >>
  <2>1. Advanced \in Seq(Frames) /\ 1 \in DOMAIN Advanced
    BY <1>1, AdvancedFrames
  <2> QED  BY <2>1
<1> QED  BY <1>5, <1>6, AdvancedFrames

(* The stack when a call has returned. *)
LEMMA Popped ==
  ASSUME Basics, stack # << >>
  PROVE  /\ Tail(stack) \in Seq(Frames)
         /\ \A j \in DOMAIN Tail(stack) :
              j + 1 \in DOMAIN stack /\ Tail(stack)[j] = stack[j + 1]
         /\ \A j \in DOMAIN stack :
              j # 1 => j - 1 \in DOMAIN Tail(stack) /\ stack[j] = Tail(stack)[j - 1]
         /\ 1 \in DOMAIN stack /\ Head(stack) = stack[1]
<1>1. stack \in Seq(Frames)
  BY DEF Basics
<1>2. /\ Tail(stack) \in Seq(Frames) /\ Len(Tail(stack)) = Len(stack) - 1
      /\ \A j \in 1 .. Len(Tail(stack)) : Tail(stack)[j] = stack[j + 1]
      /\ Len(stack) \in Nat /\ 1 \in DOMAIN stack /\ Head(stack) = stack[1]
  BY <1>1, HeadTailProperties
<1>3. DOMAIN stack = 1 .. Len(stack) /\ DOMAIN Tail(stack) = 1 .. Len(stack) - 1
  BY <1>1, <1>2
<1>4. ASSUME NEW j \in DOMAIN Tail(stack)
      PROVE  j + 1 \in DOMAIN stack /\ Tail(stack)[j] = stack[j + 1]
  BY <1>2, <1>3
<1>5. ASSUME NEW j \in DOMAIN stack, j # 1
      PROVE  j - 1 \in DOMAIN Tail(stack) /\ stack[j] = Tail(stack)[j - 1]
  <2>1. j - 1 \in DOMAIN Tail(stack) /\ (j - 1) + 1 = j
    BY <1>2, <1>3, <1>5
  <2> QED  BY <1>4, <2>1
<1> QED  BY <1>2, <1>4, <1>5

LEMMA TailKnown ==
  ASSUME Basics, stack # << >>
  PROVE  /\ Tail(stack) \in Seq(Frames)
         /\ \A j \in DOMAIN Tail(stack) : Known(Tail(stack)[j])
         /\ Tail(stack) # << >> <=> Len(stack) > 1
<1>1. ASSUME NEW j \in DOMAIN Tail(stack)
      PROVE  Known(Tail(stack)[j])
  <2>1. j + 1 \in DOMAIN stack /\ Tail(stack)[j] = stack[j + 1]
    BY <1>1, Popped
  <2>2. stack[j + 1].i <= Len(heap[stack[j + 1].at].items)
    BY <2>1 DEF Basics, OnHeap
  <2> QED  BY <2>1, <2>2 DEF Known
<1>2. Tail(stack) # << >> <=> Len(stack) > 1
  <2>1. /\ Tail(stack) \in Seq(Frames) /\ Len(Tail(stack)) = Len(stack) - 1
        /\ Len(stack) \in Nat
    BY HeadTailProperties DEF Basics
  <2>2. Tail(stack) = << >> <=> Len(Tail(stack)) = 0
    BY <2>1, EmptySeq
  <2>3. Len(Tail(stack)) # 0 <=> Len(stack) > 1
    <3> DEFINE n == Len(stack)
    <3>1. n \in Nat /\ n > 0 /\ Len(Tail(stack)) = n - 1
      BY <2>1, HeadTailProperties DEF Basics
    <3> HIDE DEF n
    <3>2. n - 1 # 0 <=> n > 1
      BY <3>1
    <3> QED  BY <3>1, <3>2 DEF n
  <2> QED  BY <2>2, <2>3
<1> QED  BY <1>1, <1>2, Popped

(* The stack with one more call. *)
LEMMA OnTop ==
  ASSUME NEW f \in Frames, NEW s \in Seq(Frames)
  PROVE  /\ <<f>> \o s \in Seq(Frames) /\ Len(<<f>> \o s) = Len(s) + 1
         /\ 1 \in DOMAIN (<<f>> \o s) /\ (<<f>> \o s)[1] = f
         /\ \A j \in DOMAIN (<<f>> \o s) :
              j # 1 => j - 1 \in DOMAIN s /\ (<<f>> \o s)[j] = s[j - 1]
         /\ \A j \in DOMAIN s :
              j + 1 \in DOMAIN (<<f>> \o s) /\ (<<f>> \o s)[j + 1] = s[j]
<1> DEFINE t == <<f>> \o s
<1>1. <<f>> \in Seq(Frames) /\ Len(<<f>>) = 1 /\ <<f>>[1] = f /\ Len(s) \in Nat
  OBVIOUS
<1>2. t \in Seq(Frames) /\ Len(t) = 1 + Len(s)
  BY <1>1, ConcatProperties
<1>3. \A j \in 1 .. 1 + Len(s) : t[j] = IF j <= 1 THEN <<f>>[j] ELSE s[j - 1]
  BY <1>1, ConcatProperties
<1> HIDE DEF t
<1>4. DOMAIN t = 1 .. 1 + Len(s) /\ DOMAIN s = 1 .. Len(s)
  BY <1>2
<1>5. 1 \in DOMAIN t /\ t[1] = f
  <2>1. 1 \in 1 .. 1 + Len(s)
    BY <1>1
  <2> QED  BY <1>1, <1>3, <1>4, <2>1
<1>6. ASSUME NEW j \in DOMAIN t, j # 1
      PROVE  j - 1 \in DOMAIN s /\ t[j] = s[j - 1]
  <2>1. j - 1 \in DOMAIN s /\ ~(j <= 1)
    BY <1>1, <1>4, <1>6
  <2> QED  BY <1>3, <1>4, <2>1
<1>7. ASSUME NEW j \in DOMAIN s
      PROVE  j + 1 \in DOMAIN t /\ t[j + 1] = s[j]
  <2>1. j + 1 \in DOMAIN t /\ j + 1 # 1 /\ (j + 1) - 1 = j
    BY <1>1, <1>4
  <2> QED  BY <1>6, <2>1
<1>8. Len(t) = Len(s) + 1
  BY <1>1, <1>2
<1> QED  BY <1>2, <1>5, <1>6, <1>7, <1>8 DEF t

LEMMA PushedFrames ==
  ASSUME NEW f \in Frames, NEW s \in Seq(Frames)
  PROVE  /\ <<f>> \o s \in Seq(Frames) /\ <<f>> \o s # << >>
         /\ \A j \in DOMAIN (<<f>> \o s) :
              (<<f>> \o s)[j] = f \/ \E k \in DOMAIN s : (<<f>> \o s)[j] = s[k]
<1> DEFINE t == <<f>> \o s
<1>1. /\ t \in Seq(Frames) /\ 1 \in DOMAIN t /\ t[1] = f
      /\ \A j \in DOMAIN t : j # 1 => j - 1 \in DOMAIN s /\ t[j] = s[j - 1]
  BY OnTop
<1> HIDE DEF t
<1>2. t # << >>
  BY <1>1
<1> QED  BY <1>1, <1>2 DEF t

-----------------------------------------------------------------------------
(* What each step does to the heap *)

(* Nothing of the caller's is touched, and the heap stays one. *)
Kept(g) ==
  /\ Linked(g) /\ Later(heap, g)
  /\ \A n \in 1 .. own : g[n] = heap[n]

LEMMA OwnObjects ==
  ASSUME Basics
  PROVE  \A n \in 1 .. own : n \in DOMAIN heap
  BY DEF Basics, Linked

(* The next item of decode() when it is a known Tag. *)
LEMMA FoundTag ==
  ASSUME NEW x, NEW ct, ct \in EncodesAs(x) \/ ct \in DecodesAs(x)
  PROVE  /\ ct \in EncodesAs(x) => x.kind = "instance"
         /\ ct \in DecodesAs(x) => x.kind = "tag"
         /\ ct.tag_number \in STRING /\ ct.class_type \in STRING
<1>1. ASSUME NEW found, found \subseteq DOMAIN ClassTags, ct \in First(found)
      PROVE  ct.tag_number \in STRING /\ ct.class_type \in STRING /\ found # {}
  <2>1. PICK i \in found : ct = ClassTags[i]
    BY <1>1 DEF First
  <2> DEFINE T == [tag_number : STRING, class_type : STRING,
                   encode_function : STRING, decode_function : STRING]
  <2>2. ClassTags \in Seq(T)
    BY TagMapAssumption
  <2>3. ct \in T
    <3> HIDE DEF T
    <3> QED  BY <1>1, <2>1, <2>2
  <2> QED  BY <2>1, <2>3
<1>2. CASE ct \in EncodesAs(x)
  <2> DEFINE found == {i \in DOMAIN ClassTags :
                        /\ ClassTags[i].class_type # "None"
                        /\ ClassTags[i].encode_function # "None"
                        /\ x.kind = "instance"
                        /\ IsInstance(x.type, ClassTags[i].class_type)}
  <2>1. found \subseteq DOMAIN ClassTags /\ (found # {} => x.kind = "instance")
    OBVIOUS
  <2>2. ct \in First(found)
    BY <1>2 DEF EncodesAs
  <2> HIDE DEF found
  <2>3. x.kind = "instance" /\ ct.tag_number \in STRING /\ ct.class_type \in STRING
    BY <1>1, <2>1, <2>2
  <2> QED  BY <2>3 DEF DecodesAs
<1>3. CASE ct \in DecodesAs(x)
  <2> DEFINE found == {i \in DOMAIN ClassTags : ClassTags[i].tag_number = x.type}
  <2>1. found \subseteq DOMAIN ClassTags
    OBVIOUS
  <2>2. x.kind = "tag" /\ ct \in First(found)
    BY <1>3 DEF DecodesAs, Numbered
  <2> HIDE DEF found
  <2>3. ct.tag_number \in STRING /\ ct.class_type \in STRING
    BY <1>1, <2>1, <2>2
  <2>4. ct \notin EncodesAs(x)
    <3>1. ~(x.kind = "instance")
      BY <2>2
    <3> QED  BY <3>1 DEF EncodesAs, First
  <2> QED  BY <2>2, <2>3, <2>4
<1> QED  BY <1>2, <1>3

(* encode() puts an item where nothing is the caller's. *)
LEMMA PutStep ==
  ASSUME MapInv, More("encode"), NEW x \in Nat
  PROVE  /\ Changed(heap, Put(x), Head(stack).out, x)
         /\ Later(heap, Put(x)) /\ \A n \in 1 .. own : Put(x)[n] = heap[n]
<1> DEFINE n == Head(stack).out
<1>1. Linked(heap) /\ n \in DOMAIN heap
  BY NextItemThere DEF MapInv, Basics
<1>2. n > own /\ heap[n].kind \notin Holders
  <2>1. 1 \in DOMAIN stack /\ Head(stack) = stack[1]
    BY NextItemThere DEF MapInv
  <2> QED  BY <2>1 DEF MapInv, Encoding, More, Holders
<1>3. Put(x) = [heap EXCEPT ![n].items = Append(heap[n].items, x)]
  BY DEF Put
<1> HIDE DEF n
<1>4. Changed(heap, Put(x), n, x)
  <2>1. Changed(heap, [heap EXCEPT ![n].items = Append(heap[n].items, x)], n, x)
    BY <1>1, <1>2, PutChanges
  <2> QED  BY <1>3, <2>1
<1>5. \A m \in 1 .. own : m \in DOMAIN heap /\ m # n
  <2>1. Basics
    BY DEF MapInv
  <2>2. own \in Nat /\ n \in Nat
    BY <1>1, <2>1 DEF Basics, Linked
  <2> QED  BY <1>2, <2>1, <2>2, OwnObjects
<1>6. \A m \in 1 .. own : Put(x)[m] = heap[m]
  BY <1>4, <1>5 DEF Changed
<1>7. Later(heap, Put(x))
  BY <1>1, <1>4, ChangedLater
<1> QED  BY <1>4, <1>6, <1>7 DEF n

(* decode() replaces an item where nothing is the caller's. *)
LEMMA SetStep ==
  ASSUME MapInv, More("decode"), NEW x \in Nat
  PROVE  /\ Changed(heap, Set(x), Head(stack).at, x)
         /\ Later(heap, Set(x)) /\ \A n \in 1 .. own : Set(x)[n] = heap[n]
<1> DEFINE n == Head(stack).at
           i == Head(stack).i + 1
<1>1. Linked(heap) /\ n \in DOMAIN heap /\ i \in DOMAIN heap[n].items
  BY NextItemThere DEF MapInv, Basics
<1>2. n > own
  <2>1. 1 \in DOMAIN stack /\ Head(stack) = stack[1]
    BY NextItemThere DEF MapInv
  <2>2. PICK b \in Nat : own <= b /\ stack[1].at > b
    BY <2>1 DEF MapInv, Decoding, More
  <2>3. own \in Nat /\ n \in Nat
    BY <1>1 DEF MapInv, Basics, Linked
  <2> QED  BY <2>1, <2>2, <2>3
<1>3. Set(x) = [heap EXCEPT ![n].items[i] = x]
  BY DEF Set
<1> HIDE DEF n, i
<1>4. Changed(heap, Set(x), n, x)
  <2>1. Changed(heap, [heap EXCEPT ![n].items[i] = x], n, x)
    BY <1>1, SetChanges
  <2> QED  BY <1>3, <2>1
<1>5. \A m \in 1 .. own : m \in DOMAIN heap /\ m # n
  <2>1. Basics
    BY DEF MapInv
  <2>2. own \in Nat /\ n \in Nat
    BY <1>1, <2>1 DEF Basics, Linked
  <2> QED  BY <1>2, <2>1, <2>2, OwnObjects
<1>6. \A m \in 1 .. own : Set(x)[m] = heap[m]
  BY <1>4, <1>5 DEF Changed
<1>7. Later(heap, Set(x))
  BY <1>1, <1>4, ChangedLater
<1> QED  BY <1>4, <1>6, <1>7 DEF n

(* A changed heap with an object added to it. *)
LEMMA AddedKept ==
  ASSUME MapInv, NEW g, NEW n, Changed(heap, g, n, Fresh), Later(heap, g),
         \A m \in 1 .. own : g[m] = heap[m],
         NEW o \in Obj, \A i \in DOMAIN o.items : o.items[i] \in DOMAIN heap,
         o.kind \in Holders => Len(o.items) = 1
  PROVE  Kept(Append(g, o))
<1>1. Linked(heap) /\ heap \in Seq(Obj) /\ g \in Seq(Obj)
  BY DEF MapInv, Basics, Linked, Changed
<1>2. Linked(Append(g, o))
  BY <1>1, AddedLinked DEF Fresh
<1>3. /\ Later(heap, Append(g, o))
      /\ \A m \in DOMAIN heap : Append(g, o)[m] = g[m]
  BY <1>1, AppendLater
<1>4. \A m \in 1 .. own : Append(g, o)[m] = heap[m]
  BY <1>3, OwnObjects DEF MapInv
<1> QED  BY <1>2, <1>3, <1>4 DEF Kept

(* The items of an object, in a tag or an instance of their own. *)
LEMMA Rewrapped ==
  ASSUME Linked(heap), NEW n \in DOMAIN heap, heap[n].kind \in Holders,
         NEW kind \in Kinds, NEW type \in STRING
  PROVE  LET o == Object(kind, type, heap[n].items) IN
           /\ o \in Obj /\ o.items = heap[n].items /\ Len(o.items) = 1
           /\ \A i \in DOMAIN o.items : o.items[i] \in DOMAIN heap
<1>1. heap[n].items \in Seq(Nat)
  BY ObjectOf DEF Linked
<1>2. /\ Len(heap[n].items) = 1
      /\ \A i \in DOMAIN heap[n].items : heap[n].items[i] \in DOMAIN heap
  BY DEF Linked
<1>3. Object(kind, type, heap[n].items) \in Obj
  BY <1>1 DEF Object, Obj, Types
<1>4. Object(kind, type, heap[n].items).items = heap[n].items
  BY DEF Object
<1> QED  BY <1>2, <1>3, <1>4

LEMMA EmptyObject ==
  ASSUME NEW kind \in {"list", "dict"}
  PROVE  LET o == Object(kind, "", << >>) IN
           /\ o \in Obj /\ o.items = << >> /\ o.kind \notin Holders
           /\ \A S : \A i \in DOMAIN o.items : o.items[i] \in S
<1>1. << >> \in Seq(Nat) /\ DOMAIN << >> = {}
  BY EmptySeq
<1>2. Object(kind, "", << >>).items = << >> /\ Object(kind, "", << >>).kind = kind
  BY DEF Object
<1>3. Object(kind, "", << >>) \in Obj
  <2>1. kind \in Kinds
    BY DEF Kinds
  <2>2. \A type \in Types : Object(kind, type, << >>) \in Obj
    BY <1>1, <2>1 DEF Object, Obj
  <2>3. "" \in Types
    BY DEF Types
  <2> QED  BY <2>2, <2>3
<1> QED  BY <1>1, <1>2, <1>3 DEF Holders

(* The steps of encode() leave the caller's objects alone. *)
LEMMA EncodeKeeps ==
  ASSUME MapInv, StartEncode \/ EncodeInstance \/ EncodeContainer \/ EncodeOther
  PROVE  /\ Kept(heap') /\ UNCHANGED own
         /\ StartEncode \/ EncodeContainer =>
               /\ Fresh \in DOMAIN heap' /\ Fresh > own
               /\ heap'[Fresh].kind \in {"list", "dict"}
<1>0. /\ Basics /\ Linked(heap) /\ heap \in Seq(Obj)
      /\ Len(heap) \in Nat /\ Fresh \in Nat /\ own \in 1 .. Len(heap)
      /\ Fresh > own
  BY DEF MapInv, Basics, Linked, Fresh
<1>1. CASE StartEncode
  <2> DEFINE o == Object("list", "", << >>)
  <2>1. /\ o \in Obj /\ o.kind \notin Holders
        /\ \A i \in DOMAIN o.items : o.items[i] \in DOMAIN heap
    BY EmptyObject
  <2>2. o.kind = "list"
    BY DEF Object
  <2>3. heap' = Append(heap, o) /\ UNCHANGED own
    BY <1>1 DEF StartEncode
  <2> HIDE DEF o
  <2>4. Changed(heap, heap, 0, Fresh) /\ Later(heap, heap)
    <3>1. \A m \in DOMAIN heap : Len(heap[m].items) \in Nat
      BY <1>0, ObjectOf
    <3> QED  BY <1>0, <3>1 DEF Changed, Later
  <2>5. Kept(Append(heap, o))
    BY <2>1, <2>4, AddedKept
  <2>6. Fresh \in DOMAIN Append(heap, o) /\ Append(heap, o)[Fresh] = o
    BY <1>0, <2>1, AppendProperties DEF Fresh
  <2> QED  BY <1>0, <2>2, <2>3, <2>5, <2>6
<1>2. ASSUME More("encode"), NEW o \in Obj,
             \A i \in DOMAIN o.items : o.items[i] \in DOMAIN heap,
             o.kind \in Holders => Len(o.items) = 1,
             heap' = Append(Put(Fresh), o)
      PROVE  /\ Kept(heap') /\ Fresh \in DOMAIN heap' /\ heap'[Fresh] = o
  <2>1. /\ Changed(heap, Put(Fresh), Head(stack).out, Fresh)
        /\ Later(heap, Put(Fresh))
        /\ \A n \in 1 .. own : Put(Fresh)[n] = heap[n]
    BY <1>0, <1>2, PutStep
  <2>2. Kept(Append(Put(Fresh), o))
    BY <1>2, <2>1, AddedKept
  <2>3. Put(Fresh) \in Seq(Obj) /\ Len(Put(Fresh)) = Len(heap)
    BY <2>1 DEF Changed
  <2>4. /\ Fresh \in DOMAIN Append(Put(Fresh), o)
        /\ Append(Put(Fresh), o)[Fresh] = o
    BY <1>0, <2>3, AppendProperties DEF Fresh
  <2> QED  BY <1>2, <2>2, <2>4
<1>3. CASE EncodeInstance
  <2>1. PICK ct \in EncodesAs(heap[NextItem]) :
          heap' = Append(Put(Fresh), Object("tag", ct.tag_number, heap[NextItem].items))
    BY <1>3 DEF EncodeInstance
  <2>2. More("encode") /\ UNCHANGED own /\ NextItem \in DOMAIN heap
    BY <1>0, <1>3, NextItemThere DEF EncodeInstance
  <2>3. heap[NextItem].kind \in Holders /\ ct.tag_number \in STRING
    BY <2>1, FoundTag DEF Holders
  <2> DEFINE o == Object("tag", ct.tag_number, heap[NextItem].items)
  <2>4. /\ o \in Obj /\ Len(o.items) = 1
        /\ \A i \in DOMAIN o.items : o.items[i] \in DOMAIN heap
    <3>1. "tag" \in Kinds
      BY DEF Kinds
    <3> QED  BY <1>0, <2>2, <2>3, <3>1, Rewrapped
  <2>5. heap' = Append(Put(Fresh), o)
    BY <2>1
  <2> HIDE DEF o
  <2>6. Kept(heap')
    BY <1>2, <2>2, <2>4, <2>5
  <2>7. ~StartEncode /\ ~EncodeContainer
    <3>1. heap[NextItem].kind = "instance" /\ phase = "encode"
      BY <2>1, <2>2, FoundTag DEF More
    <3> QED  BY <3>1 DEF StartEncode, EncodeContainer
  <2> QED  BY <2>2, <2>6, <2>7
<1>4. CASE EncodeContainer
  <2> DEFINE o == Built(heap[NextItem])
  <2>1. /\ o \in Obj /\ o.kind \notin Holders
        /\ \A i \in DOMAIN o.items : o.items[i] \in DOMAIN heap
        /\ o.kind \in {"list", "dict"}
    <3>1. PICK kind \in {"list", "dict"} : o = Object(kind, "", << >>)
      BY DEF Built
    <3>2. Object(kind, "", << >>).kind = kind
      BY DEF Object
    <3> HIDE DEF o
    <3>3. o.kind = kind
      BY <3>1, <3>2
    <3> QED  BY <3>1, <3>3, EmptyObject
  <2>2. More("encode") /\ UNCHANGED own /\ heap' = Append(Put(Fresh), o)
    BY <1>4 DEF EncodeContainer
  <2> HIDE DEF o
  <2> QED  BY <1>0, <1>2, <2>1, <2>2
<1>5. CASE EncodeOther
  <2>1. /\ More("encode") /\ UNCHANGED own /\ heap' = Put(NextItem)
        /\ heap[NextItem].kind \notin {"list", "tuple", "dict"}
    BY <1>5 DEF EncodeOther
  <2>2. NextItem \in DOMAIN heap /\ NextItem \in Nat
    BY <1>0, <2>1, NextItemThere
  <2>3. /\ Changed(heap, Put(NextItem), Head(stack).out, NextItem)
        /\ Later(heap, Put(NextItem))
        /\ \A n \in 1 .. own : Put(NextItem)[n] = heap[n]
    BY <2>1, <2>2, PutStep
  <2>4. Linked(Put(NextItem))
    BY <1>0, <2>2, <2>3, ChangedLinked
  <2>5. ~StartEncode /\ ~EncodeContainer
    BY <2>1 DEF StartEncode, EncodeContainer, More
  <2> QED  BY <2>1, <2>3, <2>4, <2>5 DEF Kept
<1> QED  BY <1>1, <1>3, <1>4, <1>5

(* So does taking off a Tag. *)
LEMMA DecodeTagKeeps ==
  ASSUME MapInv, DecodeTag
  PROVE  /\ Kept(heap') /\ UNCHANGED own
         /\ \A b \in Nat :
              /\ own <= b /\ ClosedAbove(heap, b)
              /\ \A j \in DOMAIN stack : stack[j].at > b
              => ClosedAbove(heap', b)
<1>0. /\ Basics /\ Linked(heap) /\ heap \in Seq(Obj)
      /\ Len(heap) \in Nat /\ Fresh \in Nat
      /\ More("decode") /\ UNCHANGED own
  BY DEF MapInv, Basics, Linked, Fresh, DecodeTag
<1> DEFINE n == NextItem
           x == heap[n]
           at == Head(stack).at
           Apart(b) == /\ own <= b /\ ClosedAbove(heap, b)
                       /\ \A j \in DOMAIN stack : stack[j].at > b
<1>1. /\ n \in DOMAIN heap /\ at \in DOMAIN heap
      /\ Head(stack).i + 1 \in DOMAIN heap[at].items
      /\ 1 \in DOMAIN stack /\ at = stack[1].at
  BY <1>0, NextItemThere
<1>2. \A b \in Nat : Apart(b) => n > b
  BY <1>1 DEF ClosedAbove, NextItem
<1>3. PICK ct \in DecodesAs(x) :
        /\ CanDecode(ct, x)
        /\ heap' = IF ct.decode_function = "loads"
                   THEN Set(heap[x.items[1]].items[1])
                   ELSE Append(Set(Fresh), Object("instance", ct.class_type, x.items))
  BY DEF DecodeTag
<1>4. x.kind = "tag" /\ ct.class_type \in STRING
  BY <1>3, FoundTag
<1>5. /\ Len(x.items) = 1 /\ 1 \in DOMAIN x.items
      /\ \A i \in DOMAIN x.items : x.items[i] \in DOMAIN heap
  <2>1. Len(x.items) = 1 /\ \A i \in DOMAIN x.items : x.items[i] \in DOMAIN heap
    BY <1>0, <1>1, <1>4 DEF Linked, Holders
  <2>2. DOMAIN x.items = 1 .. Len(x.items)
    BY <1>0, <1>1, ObjectOf
  <2> QED  BY <2>1, <2>2
<1>6. \A b \in Nat : Apart(b) => \A i \in DOMAIN x.items : x.items[i] > b
  BY <1>1, <1>2 DEF ClosedAbove
<1>7. CASE ct.decode_function = "loads"
  <2> DEFINE m == x.items[1]
             y == heap[m].items[1]
  <2>1. m \in DOMAIN heap /\ heap[m].kind = "bytes"
    BY <1>3, <1>5, <1>7 DEF CanDecode
  <2>2. Len(heap[m].items) = 1 /\ DOMAIN heap[m].items = 1 .. Len(heap[m].items)
    BY <1>0, <2>1, ObjectOf DEF Linked, Holders
  <2>3. 1 \in DOMAIN heap[m].items
    BY <2>2
  <2>4. y \in DOMAIN heap
    BY <1>0, <2>1, <2>3 DEF Linked
  <2>5. \A b \in Nat : Apart(b) => y > b
    <3>1. \A b \in Nat : Apart(b) => m > b
      BY <1>5, <1>6
    <3> HIDE DEF m, x, n
    <3> QED  BY <2>1, <2>3, <3>1 DEF ClosedAbove
  <2>6. heap' = Set(y)
    BY <1>3, <1>7
  <2> HIDE DEF y
  <2>7. /\ Changed(heap, Set(y), at, y) /\ Later(heap, Set(y))
        /\ \A k \in 1 .. own : Set(y)[k] = heap[k]
    BY <1>0, <2>4, SetStep
  <2>8. Linked(Set(y))
    BY <1>0, <2>4, <2>7, ChangedLinked
  <2>9. \A b \in Nat : Apart(b) => ClosedAbove(Set(y), b)
    BY <1>0, <2>5, <2>7, ChangedClosed
  <2> QED  BY <1>0, <2>6, <2>7, <2>8, <2>9 DEF Kept
<1>8. CASE ct.decode_function # "loads"
  <2> DEFINE o == Object("instance", ct.class_type, x.items)
  <2>1. /\ o \in Obj /\ o.items = x.items /\ Len(o.items) = 1
        /\ \A i \in DOMAIN o.items : o.items[i] \in DOMAIN heap
    <3>1. "instance" \in Kinds /\ x.kind \in Holders
      BY <1>4 DEF Kinds, Holders
    <3> QED  BY <1>0, <1>1, <1>4, <3>1, Rewrapped
  <2>2. heap' = Append(Set(Fresh), o)
    BY <1>3, <1>8
  <2> HIDE DEF o
  <2>3. /\ Changed(heap, Set(Fresh), at, Fresh) /\ Later(heap, Set(Fresh))
        /\ \A k \in 1 .. own : Set(Fresh)[k] = heap[k]
    BY <1>0, SetStep
  <2>4. Kept(Append(Set(Fresh), o))
    BY <2>1, <2>3, AddedKept
  <2>5. \A b \in Nat : Apart(b) => Fresh > b
    <3>1. n \in Nat /\ n <= Len(heap)
      BY <1>0, <1>1
    <3> QED  BY <1>0, <1>2, <3>1 DEF Fresh
  <2>6. \A b \in Nat : Apart(b) => ClosedAbove(Set(Fresh), b)
    BY <1>0, <2>3, <2>5, ChangedClosed
  <2>7. Set(Fresh) \in Seq(Obj)
    BY <2>3 DEF Changed
  <2>8. \A b \in Nat : Apart(b) => ClosedAbove(Append(Set(Fresh), o), b)
    BY <1>6, <2>1, <2>6, <2>7, AppendClosed
  <2> QED  BY <1>0, <2>2, <2>4, <2>8
<1> QED  BY <1>7, <1>8

LEMMA SameKept ==
  ASSUME MapInv
  PROVE  Kept(heap)
<1>1. Linked(heap) /\ heap \in Seq(Obj)
  BY DEF MapInv, Basics, Linked
<1>2. \A m \in DOMAIN heap : Len(heap[m].items) \in Nat
  BY <1>1, ObjectOf
<1>3. Later(heap, heap)
  BY <1>1, <1>2 DEF Later
<1> QED  BY <1>1, <1>3 DEF Kept

(* So does every step. *)
LEMMA HeapStep ==
  ASSUME MapInv, Next
  PROVE  Kept(heap') /\ UNCHANGED own
<1>1. CASE StartEncode \/ EncodeInstance \/ EncodeContainer \/ EncodeOther
  BY <1>1, EncodeKeeps
<1>2. CASE DecodeTag
  BY <1>2, DecodeTagKeeps
<1>3. CASE DumpsAndLoads
  <2>1. heap' = Copied /\ UNCHANGED own
    BY <1>3 DEF DumpsAndLoads
  <2>2. Linked(heap)
    BY DEF MapInv, Basics
  <2>3. /\ Linked(Copied) /\ Later(heap, Copied)
        /\ \A n \in DOMAIN heap : Copied[n] = heap[n]
    BY <2>2, CopiedHeap
  <2>4. \A n \in 1 .. own : Copied[n] = heap[n]
    BY <2>3, OwnObjects DEF MapInv
  <2> QED  BY <2>1, <2>3, <2>4 DEF Kept
<1>4. CASE \/ EncodeRaises \/ DumpsRaises \/ StartDecode \/ DecodeRaises
           \/ DecodeUnknown \/ DecodeContainer \/ DecodeOther \/ Return
  <2>1. heap' = heap /\ own' = own
    BY <1>4 DEF EncodeRaises, DumpsRaises, StartDecode, DecodeRaises,
                DecodeUnknown, DecodeContainer, DecodeOther, Return, Raise
  <2> QED  BY <2>1, SameKept
<1> QED  BY <1>1, <1>2, <1>3, <1>4 DEF Next

-----------------------------------------------------------------------------
(* What each step does to the stack *)

(* A frame that this step pushes. *)
Pushed(f) ==
  /\ f.i = 0
  /\ \/ StartEncode /\ f.at = 1 /\ f.out = Fresh
     \/ EncodeContainer /\ f.at = NextItem /\ f.out = Fresh
     \/ StartDecode /\ f.at = got /\ f.out = got
     \/ DecodeContainer /\ f.at = NextItem /\ f.out = NextItem

LEMMA NewFrame ==
  ASSUME NEW at \in Nat, NEW out \in Nat
  PROVE  /\ Frame(at, out) \in Frames /\ Frame(at, out).i = 0
         /\ Frame(at, out).at = at /\ Frame(at, out).out = out
  BY DEF Frame, Frames

(* Each call was on the stack, or this step has pushed it. *)
LEMMA StackStep ==
  ASSUME MapInv, Next
  PROVE  /\ stack' \in Seq(Frames)
         /\ \A j \in DOMAIN stack' : Known(stack'[j]) \/ Pushed(stack'[j])
         /\ phase' \in Phases
         /\ stack' # << >> <=> phase' \in {"encode", "decode"}
<1> DEFINE Framed == /\ stack' \in Seq(Frames)
                     /\ \A j \in DOMAIN stack' : Known(stack'[j]) \/ Pushed(stack'[j])
<1>0. /\ Basics /\ stack \in Seq(Frames) /\ Fresh \in Nat /\ got \in Nat
      /\ DOMAIN heap \subseteq Nat
  BY DEF MapInv, Basics, Linked, Fresh
<1>1. ASSUME stack' = << >>
      PROVE  Framed
  BY <1>1, EmptySeq
<1>2. ASSUME NEW p, More(p), stack' = Advanced
      PROVE  Framed /\ stack' # << >>
  BY <1>0, <1>2, AdvancedKnown
<1>3. ASSUME NEW f \in Frames, Pushed(f), stack' = <<f>>
      PROVE  Framed /\ stack' # << >>
  BY <1>3
<1>4. ASSUME NEW p, More(p), NEW f \in Frames, Pushed(f),
             stack' = <<f>> \o Advanced
      PROVE  Framed /\ stack' # << >>
  <2>1. /\ Advanced \in Seq(Frames)
        /\ \A j \in DOMAIN Advanced : Known(Advanced[j])
    BY <1>0, <1>4, AdvancedKnown
  <2>2. /\ <<f>> \o Advanced \in Seq(Frames) /\ <<f>> \o Advanced # << >>
        /\ \A j \in DOMAIN (<<f>> \o Advanced) :
             \/ (<<f>> \o Advanced)[j] = f
             \/ \E k \in DOMAIN Advanced : (<<f>> \o Advanced)[j] = Advanced[k]
    BY <2>1, PushedFrames
  <2>3. stack' \in Seq(Frames) /\ stack' # << >>
    BY <1>4, <2>2
  <2>4. \A j \in DOMAIN stack' :
          stack'[j] = f \/ \E k \in DOMAIN Advanced : stack'[j] = Advanced[k]
    BY <1>4, <2>2
  <2>5. ASSUME NEW j \in DOMAIN stack'
        PROVE  Known(stack'[j]) \/ Pushed(stack'[j])
    BY <1>4, <2>1, <2>4, Zenon
  <2> QED  BY <2>3, <2>5
<1> HIDE DEF Framed
<1>5. CASE EncodeInstance \/ EncodeOther \/ DecodeTag \/ DecodeOther
  <2>1. PICK p \in {"encode", "decode"} :
          More(p) /\ stack' = Advanced /\ phase' = phase
    BY <1>5 DEF EncodeInstance, EncodeOther, DecodeTag, DecodeOther
  <2>2. phase = p
    BY <2>1 DEF More
  <2> QED  BY <1>2, <2>1, <2>2 DEF Phases, Framed
<1>6. CASE EncodeContainer
  <2>1. /\ More("encode") /\ phase = "encode" /\ phase' = phase
        /\ stack' = <<Frame(NextItem, Fresh)>> \o Advanced
    BY <1>6 DEF EncodeContainer, More
  <2>2. NextItem \in Nat
    BY <1>0, <2>1, NextItemThere
  <2>3. Frame(NextItem, Fresh) \in Frames /\ Pushed(Frame(NextItem, Fresh))
    BY <1>0, <1>6, <2>2, NewFrame DEF Pushed
  <2>4. Framed /\ stack' # << >>
    BY <1>4, <2>1, <2>3
  <2> QED  BY <2>1, <2>4 DEF Phases, Framed
<1>7. CASE DecodeContainer
  <2>1. /\ More("decode") /\ phase = "decode" /\ phase' = phase
        /\ stack' = <<Frame(NextItem, NextItem)>> \o Advanced
    BY <1>7 DEF DecodeContainer, More
  <2>2. NextItem \in Nat
    BY <1>0, <2>1, NextItemThere
  <2>3. Frame(NextItem, NextItem) \in Frames /\ Pushed(Frame(NextItem, NextItem))
    BY <1>7, <2>2, NewFrame DEF Pushed
  <2>4. Framed /\ stack' # << >>
    BY <1>4, <2>1, <2>3
  <2> QED  BY <2>1, <2>4 DEF Phases, Framed
<1>8. CASE StartEncode
  <2>1. phase' = "encode" /\ stack' = <<Frame(1, Fresh)>>
    BY <1>8 DEF StartEncode
  <2>2. Frame(1, Fresh) \in Frames /\ Pushed(Frame(1, Fresh))
    BY <1>0, <1>8, NewFrame DEF Pushed
  <2>3. Framed /\ stack' # << >>
    BY <1>3, <2>1, <2>2
  <2> QED  BY <2>1, <2>3 DEF Phases, Framed
<1>9. CASE StartDecode
  <2>1. phase' = "decode" /\ stack' = <<Frame(got, got)>>
    BY <1>9 DEF StartDecode
  <2>2. Frame(got, got) \in Frames /\ Pushed(Frame(got, got))
    BY <1>0, <1>9, NewFrame DEF Pushed
  <2>3. Framed /\ stack' # << >>
    BY <1>3, <2>1, <2>2
  <2> QED  BY <2>1, <2>3 DEF Phases, Framed
<1>10. CASE EncodeRaises \/ DumpsRaises \/ DecodeRaises \/ DecodeUnknown
  <2>1. stack' = << >> /\ phase' \in {"failed", "loaded", "refused"}
    BY <1>10 DEF EncodeRaises, DumpsRaises, DecodeRaises, DecodeUnknown, Raise
  <2> QED  BY <1>1, <2>1 DEF Phases, Framed
<1>11. CASE DumpsAndLoads
  <2>1. phase = "encoded" /\ phase' = "loaded" /\ stack' = stack
    BY <1>11 DEF DumpsAndLoads
  <2>2. stack = << >>
    BY <1>0, <2>1 DEF Basics
  <2> QED  BY <1>1, <2>1, <2>2 DEF Phases, Framed
<1>12. CASE Return
  <2>1. /\ phase \in {"encode", "decode"} /\ stack # << >> /\ stack' = Tail(stack)
        /\ phase' = (IF Len(stack) > 1 THEN phase
                     ELSE IF phase = "encode" THEN "encoded" ELSE "decoded")
    BY <1>12 DEF Return
  <2>2. /\ Tail(stack) \in Seq(Frames)
        /\ \A j \in DOMAIN Tail(stack) : Known(Tail(stack)[j])
        /\ Tail(stack) # << >> <=> Len(stack) > 1
    BY <1>0, <2>1, TailKnown
  <2>3. Framed
    BY <2>1, <2>2 DEF Framed
  <2>4. stack' # << >> <=> Len(stack) > 1
    BY <2>1, <2>2
  <2>5. CASE Len(stack) > 1
    BY <2>1, <2>3, <2>4, <2>5 DEF Phases, Framed
  <2>6. CASE ~(Len(stack) > 1)
    BY <2>1, <2>3, <2>4, <2>6 DEF Phases, Framed
  <2> QED  BY <2>5, <2>6
<1> QED  BY <1>5, <1>6, <1>7, <1>8, <1>9, <1>10, <1>11, <1>12 DEF Next

LEMMA KnownFrame ==
  ASSUME Basics, NEW g, Linked(g), Later(heap, g), NEW f \in Frames, Known(f)
  PROVE  OnHeap(f, g)
<1>1. PICK k \in DOMAIN stack :
        f.at = stack[k].at /\ f.out = stack[k].out /\ f.i <= Len(heap[f.at].items)
  BY DEF Known
<1>2. OnHeap(stack[k], heap) /\ Linked(heap)
  BY DEF Basics
<1>3. OnHeap(f, heap)
  BY <1>1, <1>2 DEF OnHeap
<1> QED  BY <1>2, <1>3, LaterOnHeap

(* And it is on the heap. *)
LEMMA FramesStep ==
  ASSUME MapInv, Next
  PROVE  \A j \in DOMAIN stack' : OnHeap(stack'[j], heap')
<1>0. /\ Basics /\ Linked(heap) /\ heap \in Seq(Obj) /\ DOMAIN heap = 1 .. Len(heap)
      /\ Len(heap) \in Nat /\ own \in 1 .. Len(heap)
  BY DEF MapInv, Basics, Linked
<1>1. /\ Linked(heap') /\ Later(heap, heap') /\ heap' \in Seq(Obj)
  BY HeapStep DEF Kept, Linked
<1>2. DOMAIN heap \subseteq DOMAIN heap'
  BY <1>0, <1>1 DEF Later
<1>3. ASSUME NEW f, Pushed(f)
      PROVE  OnHeap(f, heap')
  <2>1. /\ f.at \in DOMAIN heap /\ f.out \in DOMAIN heap'
    <3>1. CASE StartEncode /\ f.at = 1 /\ f.out = Fresh
      BY <1>0, <3>1, EncodeKeeps
    <3>2. CASE EncodeContainer /\ f.at = NextItem /\ f.out = Fresh
      <4>1. NextItem \in DOMAIN heap
        BY <1>0, <3>2, NextItemThere DEF EncodeContainer
      <4>2. Fresh \in DOMAIN heap'
        BY <3>2, EncodeKeeps
      <4> QED  BY <3>2, <4>1, <4>2
    <3>3. CASE StartDecode /\ f.at = got /\ f.out = got
      <4>1. PICK b \in Nat : b < got
        BY <3>3 DEF StartDecode, MapInv, Decoding
      <4>2. got \in DOMAIN heap
        BY <1>0, <4>1 DEF Basics
      <4> QED  BY <1>2, <3>3, <4>2
    <3>4. CASE DecodeContainer /\ f.at = NextItem /\ f.out = NextItem
      <4>1. NextItem \in DOMAIN heap
        BY <1>0, <3>4, NextItemThere DEF DecodeContainer
      <4> QED  BY <1>2, <3>4, <4>1
    <3> QED  BY <1>3, <3>1, <3>2, <3>3, <3>4 DEF Pushed
  <2>2. f.at \in DOMAIN heap'
    BY <1>2, <2>1
  <2>3. Len(heap'[f.at].items) \in Nat
    BY <1>1, <2>2, ObjectOf
  <2>4. f.i <= Len(heap'[f.at].items)
    BY <1>3, <2>3 DEF Pushed
  <2> QED  BY <2>1, <2>2, <2>4 DEF OnHeap
<1>4. ASSUME NEW j \in DOMAIN stack'
      PROVE  OnHeap(stack'[j], heap')
  <2>1. /\ stack'[j] \in Frames
        /\ Known(stack'[j]) \/ Pushed(stack'[j])
    BY <1>4, StackStep
  <2>2. CASE Known(stack'[j])
    BY <1>0, <1>1, <2>1, <2>2, KnownFrame
  <2>3. CASE Pushed(stack'[j])
    BY <1>3, <2>3
  <2> QED  BY <2>1, <2>2, <2>3
<1> QED  BY <1>4

(* The variables with numbers. *)
LEMMA NumbersStep ==
  ASSUME MapInv, Next
  PROVE  /\ own' \in 1 .. Len(heap')
         /\ raise_on_unknown_tag' \in BOOLEAN /\ raises' \in 0 .. MaxRaises
         /\ sent' \in 0 .. Len(heap') /\ got' \in 0 .. Len(heap')
<1>0. /\ Basics /\ Len(heap) \in Nat /\ own \in 1 .. Len(heap) /\ MaxRaises \in Nat
      /\ sent \in 0 .. Len(heap) /\ got \in 0 .. Len(heap)
      /\ raises \in 0 .. MaxRaises /\ raise_on_unknown_tag \in BOOLEAN
  BY TagMapAssumption DEF MapInv, Basics, Linked
<1>1. /\ Linked(heap') /\ Len(heap) <= Len(heap') /\ own' = own
  BY HeapStep DEF Kept, Later
<1>2. Len(heap') \in Nat
  BY <1>1 DEF Linked
<1>3. \A n \in 0 .. Len(heap) : n \in 0 .. Len(heap')
  BY <1>0, <1>1, <1>2
<1>4. own' \in 1 .. Len(heap')
  BY <1>0, <1>1, <1>2
<1>5. CASE StartEncode
  <2>1. /\ sent' = Fresh /\ got' = got /\ raises' = raises
        /\ raise_on_unknown_tag' = raise_on_unknown_tag
    BY <1>5 DEF StartEncode
  <2>2. Fresh \in DOMAIN heap' /\ heap' \in Seq(Obj)
    BY <1>1, <1>5, EncodeKeeps DEF Linked
  <2>3. Fresh \in 0 .. Len(heap')
    BY <1>2, <2>2
  <2> QED  BY <1>0, <1>3, <1>4, <2>1, <2>3
<1>6. CASE DumpsAndLoads
  <2>1. /\ sent' = sent /\ got' = sent + Len(heap') - Len(heap) /\ raises' = raises
        /\ heap' = Copied /\ raise_on_unknown_tag' = raise_on_unknown_tag
    BY <1>6 DEF DumpsAndLoads
  <2>2. Len(heap') = Len(heap) + Len(heap)
    BY <1>0, <2>1, CopiedHeap DEF Basics
  <2>3. sent + Len(heap') - Len(heap) \in 0 .. Len(heap')
    BY <1>0, <2>2
  <2> QED  BY <1>0, <1>3, <1>4, <2>1, <2>3
<1>7. CASE DecodeRaises
  <2>1. /\ sent' = sent /\ got' = got /\ raises < MaxRaises /\ raises' = raises + 1
        /\ raise_on_unknown_tag' = raise_on_unknown_tag
    BY <1>7 DEF DecodeRaises, Raise
  <2>2. raises + 1 \in 0 .. MaxRaises
    BY <1>0, <2>1
  <2> QED  BY <1>0, <1>3, <1>4, <2>1, <2>2
<1>8. CASE \/ EncodeInstance \/ EncodeRaises \/ EncodeContainer \/ EncodeOther
           \/ DumpsRaises \/ StartDecode \/ DecodeTag \/ DecodeUnknown
           \/ DecodeContainer \/ DecodeOther \/ Return
  <2>1. /\ sent' = sent /\ got' = got /\ raises' = raises
        /\ raise_on_unknown_tag' = raise_on_unknown_tag
    BY <1>8 DEF EncodeInstance, EncodeRaises, EncodeContainer, EncodeOther,
                DumpsRaises, StartDecode, DecodeTag, DecodeUnknown,
                DecodeContainer, DecodeOther, Return, Raise
  <2> QED  BY <1>0, <1>3, <1>4, <2>1
<1> QED  BY <1>5, <1>6, <1>7, <1>8 DEF Next

(* The containers that encode() fills are still new. *)
LEMMA EncodingStep ==
  ASSUME MapInv, Next
  PROVE  Encoding'
<1>0. /\ Basics /\ Encoding /\ own \in Nat /\ DOMAIN heap \subseteq Nat
  BY DEF MapInv, Basics, Linked
<1>1. /\ Later(heap, heap') /\ own' = own
  BY HeapStep DEF Kept
<1>2. CASE StartEncode
  <2>1. /\ sent' = Fresh /\ phase' = "encode" /\ stack' = <<Frame(1, Fresh)>>
    BY <1>2 DEF StartEncode
  <2>2. Fresh > own /\ heap'[Fresh].kind \in {"list", "dict"}
    BY <1>2, EncodeKeeps
  <2>3. \A j \in DOMAIN stack' : stack'[j].out = Fresh
    BY <2>1 DEF Frame
  <2> QED  BY <1>1, <2>1, <2>2, <2>3 DEF Encoding
<1>3. CASE ~StartEncode
  <2>1. phase' \in {"encode", "encoded"} =>
          /\ phase \in {"encode", "encoded"}
          /\ phase' = "encode" => phase = "encode"
          /\ sent' = sent
    BY <1>3 DEF Next, EncodeInstance, EncodeRaises, EncodeContainer, EncodeOther,
       DumpsAndLoads, DumpsRaises, StartDecode, DecodeTag, DecodeRaises,
       DecodeUnknown, DecodeContainer, DecodeOther, Return, Raise, More
  <2>2. ASSUME phase' = "encode", NEW j \in DOMAIN stack'
        PROVE  /\ stack'[j].out > own
               /\ heap'[stack'[j].out].kind \in {"list", "dict"}
    <3>1. phase = "encode"
      BY <2>1, <2>2
    <3>2. CASE Known(stack'[j])
      <4>1. PICK k \in DOMAIN stack : stack'[j].out = stack[k].out
        BY <3>2 DEF Known
      <4>2. stack[k].out > own /\ heap[stack[k].out].kind \in {"list", "dict"}
        BY <1>0, <3>1 DEF Encoding
      <4>3. stack[k].out \in DOMAIN heap
        BY <1>0 DEF Basics, OnHeap
      <4>4. heap'[stack[k].out].kind = heap[stack[k].out].kind
        BY <1>1, <4>3 DEF Later
      <4> QED  BY <4>1, <4>2, <4>4
    <3>3. CASE Pushed(stack'[j])
      <4>1. EncodeContainer /\ stack'[j].out = Fresh
        BY <1>3, <3>1, <3>3 DEF Pushed, StartDecode, DecodeContainer, More
      <4>2. Fresh > own /\ heap'[Fresh].kind \in {"list", "dict"}
        BY <4>1, EncodeKeeps
      <4> QED  BY <4>1, <4>2
    <3> QED  BY <2>2, <3>2, <3>3, StackStep
  <2> QED  BY <1>0, <1>1, <2>1, <2>2 DEF Encoding
<1> QED  BY <1>2, <1>3

(* The border is still one. *)
LEMMA DecodingStep ==
  ASSUME MapInv, Next
  PROVE  Decoding'
<1>0. /\ Basics /\ Encoding /\ Decoding /\ own \in 1 .. Len(heap)
      /\ Len(heap) \in Nat /\ sent \in Nat /\ Linked(heap)
  BY DEF MapInv, Basics, Linked
<1>1. own' = own
  BY HeapStep
<1>2. CASE DumpsAndLoads
  <2>1. /\ phase = "encoded" /\ heap' = Copied /\ stack' = stack
        /\ got' = sent + Len(heap') - Len(heap) /\ sent' = sent
    BY <1>2 DEF DumpsAndLoads
  <2>2. Len(heap') = Len(heap) + Len(heap) /\ ClosedAbove(heap', Len(heap))
    BY <1>0, <2>1, CopiedHeap
  <2>3. got' = sent' + Len(heap) /\ Len(heap) < got'
    <3>1. sent > own
      BY <1>0, <2>1 DEF Encoding
    <3> QED  BY <1>0, <2>1, <2>2, <3>1
  <2>4. \A j \in DOMAIN stack' : stack'[j].at > Len(heap)
    <3>1. stack' = << >>
      BY <1>0, <2>1 DEF Basics
    <3> QED  BY <3>1, EmptySeq
  <2>5. own' <= Len(heap)
    BY <1>0, <1>1
  <2> QED  BY <1>0, <2>2, <2>3, <2>4, <2>5 DEF Decoding
<1>3. CASE ~DumpsAndLoads /\ phase' \in {"loaded", "decode"}
  <2>1. phase \in {"loaded", "decode"} /\ got' = got /\ sent' = sent
    BY <1>3 DEF Next, StartEncode, EncodeInstance, EncodeRaises, EncodeContainer,
       EncodeOther, DumpsRaises, StartDecode, DecodeTag, DecodeRaises,
       DecodeUnknown, DecodeContainer, DecodeOther, Return, Raise, More
  <2>2. PICK b \in Nat : /\ got = sent + b
                         /\ own <= b /\ b < got /\ ClosedAbove(heap, b)
                         /\ \A j \in DOMAIN stack : stack[j].at > b
    BY <1>0, <2>1 DEF Decoding
  <2>3. ClosedAbove(heap', b)
    <3>1. CASE DecodeTag
      BY <2>2, <3>1, DecodeTagKeeps
    <3>2. CASE ~DecodeTag
      <4>1. heap' = heap
        BY <1>3, <2>1, <3>2 DEF Next, StartEncode, EncodeInstance, EncodeRaises,
           EncodeContainer, EncodeOther, DumpsRaises, StartDecode, DecodeRaises,
           DecodeUnknown, DecodeContainer, DecodeOther, Return, Raise, More
      <4> QED  BY <2>2, <4>1
    <3> QED  BY <3>1, <3>2
  <2>4. ASSUME NEW j \in DOMAIN stack'
        PROVE  stack'[j].at > b
    <3>1. CASE Known(stack'[j])
      BY <2>2, <3>1 DEF Known
    <3>2. CASE Pushed(stack'[j])
      <4>1. \/ StartDecode /\ stack'[j].at = got
            \/ DecodeContainer /\ stack'[j].at = NextItem
        BY <2>1, <3>2 DEF Pushed, StartEncode, EncodeContainer, More
      <4>2. DecodeContainer => NextItem > b
        <5> SUFFICES ASSUME DecodeContainer
                     PROVE  NextItem > b
          OBVIOUS
        <5>1. /\ 1 \in DOMAIN stack /\ Head(stack) = stack[1]
              /\ Head(stack).at \in DOMAIN heap
              /\ Head(stack).i + 1 \in DOMAIN heap[Head(stack).at].items
          BY <1>0, NextItemThere DEF DecodeContainer
        <5>2. Head(stack).at > b
          BY <2>2, <5>1
        <5> QED  BY <2>2, <5>1, <5>2 DEF ClosedAbove, NextItem
      <4> QED  BY <2>2, <4>1, <4>2
    <3> QED  BY <2>4, <3>1, <3>2, StackStep
  <2> QED  BY <1>1, <2>1, <2>2, <2>3, <2>4 DEF Decoding
<1> QED  BY <1>2, <1>3 DEF Decoding

-----------------------------------------------------------------------------

(* MapInv is an inductive invariant. *)
LEMMA MapInit ==
  Init => MapInv
<1> SUFFICES ASSUME Init
             PROVE  MapInv
  OBVIOUS
<1>1. /\ raise_on_unknown_tag \in BOOLEAN /\ heap \in Heaps /\ stack = << >>
      /\ phase = "ob" /\ sent = 0 /\ got = 0 /\ raises = 0 /\ own = Len(heap)
  BY DEF Init
<1>2. /\ MaxRaises \in Nat /\ heap # << >>
      /\ heap \in Seq([kind : Kinds, type : STRING, items : Seq(Nat)])
      /\ \A n \in DOMAIN heap :
           /\ \A i \in DOMAIN heap[n].items : heap[n].items[i] \in DOMAIN heap
           /\ heap[n].kind \in Holders => Len(heap[n].items) = 1
  BY <1>1, TagMapAssumption
<1>3. heap \in Seq(Obj)
  <2> DEFINE O == [kind : Kinds, type : STRING, items : Seq(Nat)]
  <2>1. \A o \in O : o \in Obj
    BY DEF Obj, Types
  <2> HIDE DEF O
  <2>2. heap \in Seq(O)
    BY <1>2 DEF O
  <2> QED  BY <2>1, <2>2
<1>4. Linked(heap)
  BY <1>2, <1>3 DEF Linked
<1>5. own \in 1 .. Len(heap) /\ Len(heap) \in Nat
  <2>1. Len(heap) \in Nat /\ Len(heap) # 0
    BY <1>2, <1>3, EmptySeq
  <2> QED  BY <1>1, <2>1
<1>6. stack \in Seq(Frames) /\ DOMAIN stack = {}
  BY <1>1, EmptySeq
<1>7. Basics
  BY <1>1, <1>2, <1>4, <1>5, <1>6 DEF Basics, Phases
<1>8. Encoding /\ Decoding
  BY <1>1 DEF Encoding, Decoding
<1> QED  BY <1>7, <1>8 DEF MapInv

LEMMA MapStep ==
  MapInv /\ [Next]_vars => MapInv'
<1> SUFFICES ASSUME MapInv, [Next]_vars
             PROVE  MapInv'
  OBVIOUS
<1>1. CASE Next
  <2>1. Linked(heap')
    BY <1>1, HeapStep DEF Kept
  <2>2. /\ stack' \in Seq(Frames) /\ phase' \in Phases
        /\ stack' # << >> <=> phase' \in {"encode", "decode"}
    BY <1>1, StackStep
  <2>3. \A j \in DOMAIN stack' : OnHeap(stack'[j], heap')
    BY <1>1, FramesStep
  <2>4. /\ own' \in 1 .. Len(heap')
        /\ raise_on_unknown_tag' \in BOOLEAN /\ raises' \in 0 .. MaxRaises
        /\ sent' \in 0 .. Len(heap') /\ got' \in 0 .. Len(heap')
    BY <1>1, NumbersStep
  <2>5. Basics'
    BY <2>1, <2>2, <2>3, <2>4 DEF Basics
  <2> QED  BY <1>1, <2>5, EncodingStep, DecodingStep DEF MapInv
<1>2. CASE UNCHANGED vars
  BY <1>2 DEF vars, MapInv, Basics, Encoding, Decoding
<1> QED  BY <1>1, <1>2

LEMMA MapInvariant ==
  Spec => []MapInv
  BY MapInit, MapStep, PTL DEF Spec

(* Every object refers to objects that there are, and every call of        *)
(* encode() or decode() walks through one of them, whatever is encoded and *)
(* whichever attempt of decode() it is.                                    *)
THEOREM TagMapTypes ==
  Spec => []TypeOK
<1>1. MapInv => TypeOK
  <2> SUFFICES ASSUME MapInv
               PROVE  TypeOK
    OBVIOUS
  <2>1. Basics /\ Linked(heap) /\ heap \in Seq(Obj) /\ DOMAIN heap = 1 .. Len(heap)
    BY DEF MapInv, Basics, Linked
  <2>2. \A n \in DOMAIN heap : Range(heap[n].items) \subseteq DOMAIN heap
    BY <2>1 DEF Linked, Range
  <2>3. ASSUME NEW j \in DOMAIN stack
        PROVE  /\ {stack[j].at, stack[j].out} \subseteq DOMAIN heap
               /\ stack[j].i \in 0 .. Len(heap[stack[j].at].items)
    <3>1. stack[j] \in Frames /\ OnHeap(stack[j], heap)
      BY <2>1 DEF Basics
    <3>2. /\ stack[j].at \in DOMAIN heap /\ stack[j].out \in DOMAIN heap
          /\ stack[j].i \in Nat /\ stack[j].i <= Len(heap[stack[j].at].items)
      BY <3>1 DEF Frames, OnHeap
    <3>3. Len(heap[stack[j].at].items) \in Nat
      BY <2>1, <3>2, ObjectOf
    <3> QED  BY <3>2, <3>3
  <2>4. {sent, got} \subseteq {0} \cup DOMAIN heap
    BY <2>1 DEF Basics
  <2> QED  BY <2>1, <2>2, <2>3, <2>4 DEF Basics, Phases, TypeOK
<1> QED  BY <1>1, MapInvariant, PTL

(* encode() and decode() change nothing that belongs to the caller: what   *)
(* encode() fills is always new, and what decode() changes in place is     *)
(* always something that loads() has made, or that decode() has.           *)
THEOREM CallerKept ==
  Spec => CallerUntouched
<1>1. MapInv /\ [Next]_vars => [\A n \in 1 .. own : heap'[n] = heap[n]]_vars
  BY HeapStep DEF Kept
<1> QED  BY <1>1, MapInvariant, PTL DEF Spec, CallerUntouched

-----------------------------------------------------------------------------
(* Recursion on the heap *)

(* Any numbers have a least one. *)
LEMMA LeastNumber ==
  ASSUME NEW T \in SUBSET Nat, T # {}
  PROVE  \E x \in T : \A y \in T : x <= y
<1>1. \E x \in T : \A y \in T : <<y, x>> \notin OpToRel(<, Nat)
  BY NatLessThanWellFounded, WFMin
<1>2. \A x, y \in Nat : x < y => <<x, y>> \in OpToRel(<, Nat)
  BY DEF OpToRel
<1>3. \E x \in T : \A y \in T : ~(y < x)
  BY <1>1, <1>2, Zenon
<1> QED  BY <1>3

(* Induction, for a set of numbers. *)
LEMMA NumbersFromZero ==
  ASSUME NEW T, 0 \in T, \A n \in Nat : n \in T => n + 1 \in T
  PROVE  \A n \in Nat : n \in T
<1> SUFFICES ASSUME Nat \ T # {} PROVE FALSE
  OBVIOUS
<1>1. PICK x \in Nat \ T : \A y \in Nat \ T : x <= y
  BY LeastNumber
<1>2. x \in Nat /\ x # 0 /\ x - 1 \in Nat
  BY <1>1
<1>3. x - 1 \in T
  BY <1>1, <1>2
<1>4. (x - 1) + 1 \in T
  BY <1>2, <1>3
<1> QED  BY <1>1, <1>2, <1>4

(* r says how deep objects are nested: those in an object less than it is. *)
Ranks(h, r) ==
  /\ r \in [DOMAIN h -> Nat]
  /\ \A n \in DOMAIN h : \A i \in DOMAIN h[n].items : r[h[n].items[i]] < r[n]
  /\ \E top \in Nat : \A n \in DOMAIN h : r[n] < top

(* Induction on the nesting of objects. *)
LEMMA FromTheInside ==
  ASSUME NEW h, NEW r, Ranks(h, r), NEW S,
         \A n \in DOMAIN h : (\A m \in DOMAIN h : r[m] < r[n] => m \in S) => n \in S
  PROVE  DOMAIN h \subseteq S
<1> DEFINE Bad == {k \in Nat : \E n \in DOMAIN h : r[n] = k /\ n \notin S}
<1> SUFFICES ASSUME Bad # {} PROVE FALSE
  BY DEF Ranks
<1>1. PICK k \in Bad : \A l \in Bad : k <= l
  BY LeastNumber
<1>2. PICK n \in DOMAIN h : r[n] = k /\ n \notin S
  BY <1>1
<1>3. \A m \in DOMAIN h : r[m] < r[n] => m \in S
  <2> TAKE m \in DOMAIN h
  <2>1. r[m] \in Nat /\ k \in Nat
    BY <1>1 DEF Ranks
  <2>2. m \notin S => r[m] \in Bad
    BY <2>1
  <2> HIDE DEF Bad
  <2> QED  BY <1>1, <1>2, <2>1, <2>2
<1> QED  BY <1>2, <1>3

(* What is inside the members of D is in D and does not go on for ever. *)
Nested(D, inner) ==
  \E r \in [D -> Nat] :
    /\ \E top \in Nat : \A k \in D : r[k] < top
    /\ \A k \in D : \A i \in DOMAIN inner[k] :
         inner[k][i] \in D /\ r[inner[k][i]] < r[k]

(* f compares: fits says what counts besides the objects inside. *)
Compares(f, D, fits, inner, items) ==
  f = [k \in D |-> [l \in D |->
        /\ fits[k][l]
        /\ \A i \in DOMAIN inner[k] : f[inner[k][i]][items[l][i]]]]

(* Two objects are compared by comparing what is inside them. *)
LEMMA PairRecursion ==
  ASSUME NEW D, NEW inner, NEW items, NEW fits, Nested(D, inner)
  PROVE  \E f : Compares(f, D, fits, inner, items)
<1>0. PICK r \in [D -> Nat] :
        /\ \E top \in Nat : \A k \in D : r[k] < top
        /\ \A k \in D : \A i \in DOMAIN inner[k] :
             inner[k][i] \in D /\ r[inner[k][i]] < r[k]
  BY DEF Nested
<1>a. PICK top \in Nat : \A k \in D : r[k] < top
  BY <1>0
<1> DEFINE Row(g, k) == [l \in D |->
                          /\ fits[k][l]
                          /\ \A i \in DOMAIN inner[k] : g[inner[k][i]][items[l][i]]]
           Upto(n, g) == \A k \in D : r[k] < n => g[k] = Row(g, k)
           T == {n \in Nat : \E g : Upto(n, g)}
<1>1. 0 \in T
  <2>1. \A k \in D : ~(r[k] < 0)
    OBVIOUS
  <2>2. Upto(0, <<>>)
    BY <2>1
  <2> QED  BY <2>2
<1>2. ASSUME NEW n \in Nat, n \in T
      PROVE  n + 1 \in T
  <2>1. PICK g : Upto(n, g)
    BY <1>2
  <2> DEFINE h == [k \in D |-> Row(g, k)]
  <2>2. ASSUME NEW k \in D, r[k] < n + 1
        PROVE  h[k] = Row(h, k)
    <3>1. ASSUME NEW i \in DOMAIN inner[k]
          PROVE  g[inner[k][i]] = h[inner[k][i]]
      <4> DEFINE j == inner[k][i]
      <4>1. j \in D /\ r[j] < r[k] /\ r[j] \in Nat /\ r[k] \in Nat
        BY <1>0
      <4> HIDE DEF j
      <4>2. r[j] < n
        BY <2>2, <4>1
      <4> HIDE DEF Row
      <4> QED  BY <2>1, <4>1, <4>2 DEF j
    <3>2. Row(g, k) = Row(h, k)
      BY <3>1
    <3> HIDE DEF Row
    <3> QED  BY <3>2
  <2> HIDE DEF h, Row
  <2>3. Upto(n + 1, h)
    BY <2>2
  <2> QED  BY <2>3
<1>3. top \in T
  <2> HIDE DEF T
  <2> QED  BY <1>1, <1>2, NumbersFromZero
<1>4. PICK g : \A k \in D : g[k] = Row(g, k)
  <2> HIDE DEF Row
  <2> QED  BY <1>3, <1>a
<1> DEFINE f == [k \in D |-> g[k]]
<1>5. \A k \in D : Row(f, k) = Row(g, k)
  <2> TAKE k \in D
  <2>1. \A i \in DOMAIN inner[k] : f[inner[k][i]] = g[inner[k][i]]
    BY <1>0
  <2> HIDE DEF f
  <2> QED  BY <2>1
<1>6. f = [k \in D |-> Row(f, k)]
  <2> HIDE DEF Row
  <2> QED  BY <1>4, <1>5
<1> HIDE DEF f
<1> QED  BY <1>6 DEF Compares
(* Equal objects have equal objects in them. *)
SameObject(k, l) ==
  /\ heap[k].kind = heap[l].kind \/ (IsList(heap[k]) /\ IsList(heap[l]))
  /\ heap[k].type = heap[l].type
  /\ Len(heap[k].items) = Len(heap[l].items)

(* Two objects are equal if what is in them is. *)
LEMMA SameEquation ==
  ASSUME Linked(heap), NEW r, Ranks(heap, r),
         NEW k \in DOMAIN heap, NEW l \in DOMAIN heap
  PROVE  Same(k, l) <=>
           /\ SameObject(k, l)
           /\ \A i \in DOMAIN heap[k].items : Same(heap[k].items[i], heap[l].items[i])
<1> DEFINE D == DOMAIN heap
           Body(f, m, n) ==
             LET x == heap[m]  y == heap[n] IN
               /\ x.kind = y.kind \/ (IsList(x) /\ IsList(y))
               /\ x.type = y.type
               /\ Len(x.items) = Len(y.items)
               /\ \A i \in DOMAIN x.items : f[x.items[i]][y.items[i]]
           Equation(f) == f = [m \in D |-> [n \in D |-> Body(f, m, n)]]
           F == CHOOSE f : Equation(f)
           fits == [m \in D |-> [n \in D |-> SameObject(m, n)]]
           inner == [m \in D |-> heap[m].items]
           Plan(f, m, n) == /\ fits[m][n]
                            /\ \A i \in DOMAIN inner[m] : f[inner[m][i]][inner[n][i]]
<1>1. Nested(D, inner)
  BY DEF Nested, Ranks, Linked
<1>2. PICK f : Compares(f, D, fits, inner, inner)
  <2> HIDE DEF inner, fits, D
  <2> QED  BY <1>1, PairRecursion, Zenon
<1>3. f = [m \in D |-> [n \in D |-> Plan(f, m, n)]]
  BY <1>2 DEF Compares
<1>4. ASSUME NEW m \in D, NEW n \in D
      PROVE  Plan(f, m, n) = Body(f, m, n)
  <2>1. fits[m][n] = SameObject(m, n) /\ inner[m] = heap[m].items /\ inner[n] = heap[n].items
    BY <1>4
  <2> HIDE DEF fits, inner
  <2>2. Plan(f, m, n) <=> Body(f, m, n)
    BY <2>1, Zenon DEF SameObject
  <2> QED  BY <2>2
<1>5. Equation(f)
  <2> HIDE DEF Plan, Body, D
  <2>1. \A m \in D : [n \in D |-> Plan(f, m, n)] = [n \in D |-> Body(f, m, n)]
    BY <1>4
  <2>2. f = [m \in D |-> [n \in D |-> Body(f, m, n)]]
    BY <1>3, <2>1
  <2> QED  BY <2>2
<1>6. Equation(F)
  <2> HIDE DEF Equation
  <2> QED  BY <1>5, Zenon
<1>7. \A m, n : Same(m, n) <=> F[m][n]
  BY DEF Same
<1> HIDE DEF F
<1>8. F[k][l] = Body(F, k, l)
  <2> HIDE DEF Body
  <2>1. k \in D /\ l \in D
    OBVIOUS
  <2> HIDE DEF D
  <2>2. F[k] = [n \in D |-> Body(F, k, n)]
    BY <1>6, <2>1
  <2> QED  BY <2>1, <2>2
<1>9. F[k][l] <=> /\ SameObject(k, l)
                  /\ \A i \in DOMAIN heap[k].items :
                        F[heap[k].items[i]][heap[l].items[i]]
  BY <1>8, Zenon DEF SameObject
<1> HIDE DEF Equation, Body
<1> QED  BY <1>7, <1>9, Zenon

(* What is decoded, by what is inside. *)
LEMMA DecodedEquation ==
  ASSUME Linked(heap), NEW r, Ranks(heap, r),
         NEW k \in DOMAIN heap, NEW l \in DOMAIN heap
  PROVE  /\ heap[k].kind \notin {"list", "dict"} =>
              (Decoded(k, l) <=> DecodedAlone(k, l))
         /\ heap[k].kind \in {"list", "dict"} =>
              (Decoded(k, l) <=>
                 /\ heap[l].kind = heap[k].kind
                 /\ Len(heap[k].items) = Len(heap[l].items)
                 /\ \A i \in DOMAIN heap[k].items :
                      Decoded(heap[k].items[i], heap[l].items[i]))
<1> DEFINE D == DOMAIN heap
           Box(m) == heap[m].kind \in {"list", "dict"}
           Body(f, m, n) ==
             LET x == heap[m]  y == heap[n] IN
               /\ x.kind \notin {"list", "dict"} => DecodedAlone(m, n)
               /\ x.kind \in {"list", "dict"} =>
                    /\ y.kind = x.kind /\ Len(x.items) = Len(y.items)
                    /\ \A i \in DOMAIN x.items : f[x.items[i]][y.items[i]]
           Equation(f) == f = [m \in D |-> [n \in D |-> Body(f, m, n)]]
           F == CHOOSE f : Equation(f)
           Fit(m, n) == IF Box(m)
                        THEN /\ heap[n].kind = heap[m].kind
                             /\ Len(heap[m].items) = Len(heap[n].items)
                        ELSE DecodedAlone(m, n)
           fits == [m \in D |-> [n \in D |-> Fit(m, n)]]
           items == [m \in D |-> heap[m].items]
           inner == [m \in D |-> IF Box(m) THEN heap[m].items ELSE << >>]
           Plan(f, m, n) == /\ fits[m][n]
                            /\ \A i \in DOMAIN inner[m] : f[inner[m][i]][items[n][i]]
<1>1. Nested(D, inner)
  <2>1. \A m \in D : \A i \in DOMAIN inner[m] :
          i \in DOMAIN heap[m].items /\ inner[m][i] = heap[m].items[i]
    BY EmptySeq
  <2> HIDE DEF inner
  <2> QED  BY <2>1 DEF Nested, Ranks, Linked
<1>2. PICK f : Compares(f, D, fits, inner, items)
  <2> HIDE DEF inner, fits, items, D
  <2> QED  BY <1>1, PairRecursion, Zenon
<1>3. f = [m \in D |-> [n \in D |-> Plan(f, m, n)]]
  BY <1>2 DEF Compares
<1>4. ASSUME NEW m \in D, NEW n \in D
      PROVE  Plan(f, m, n) = Body(f, m, n)
  <2>1. fits[m][n] = Fit(m, n) /\ items[n] = heap[n].items
    BY <1>4
  <2>2. /\ Box(m) => inner[m] = heap[m].items
        /\ ~Box(m) => DOMAIN inner[m] = {}
    BY <1>4, EmptySeq
  <2> HIDE DEF fits, inner, items
  <2>3. CASE Box(m)
    <3>1. Plan(f, m, n) <=> Body(f, m, n)
      BY <2>1, <2>2, <2>3, Zenon
    <3> QED  BY <3>1
  <2>4. CASE ~Box(m)
    <3>1. Plan(f, m, n) <=> Body(f, m, n)
      BY <2>1, <2>2, <2>4, Zenon
    <3> QED  BY <3>1
  <2> QED  BY <2>3, <2>4
<1>5. Equation(f)
  <2> HIDE DEF Plan, Body, D
  <2>1. \A m \in D : [n \in D |-> Plan(f, m, n)] = [n \in D |-> Body(f, m, n)]
    BY <1>4
  <2>2. f = [m \in D |-> [n \in D |-> Body(f, m, n)]]
    BY <1>3, <2>1
  <2> QED  BY <2>2
<1>6. Equation(F)
  <2> HIDE DEF Equation
  <2> QED  BY <1>5, Zenon
<1>7. \A m, n : Decoded(m, n) <=> F[m][n]
  BY DEF Decoded
<1> HIDE DEF F
<1>8. F[k][l] = Body(F, k, l)
  <2> HIDE DEF Body
  <2>1. k \in D /\ l \in D
    OBVIOUS
  <2> HIDE DEF D
  <2>2. F[k] = [n \in D |-> Body(F, k, n)]
    BY <1>6, <2>1
  <2> QED  BY <2>1, <2>2
<1> HIDE DEF Equation
<1>9. Box(k) =>
        (Body(F, k, l) <=> /\ heap[l].kind = heap[k].kind
                           /\ Len(heap[k].items) = Len(heap[l].items)
                           /\ \A i \in DOMAIN heap[k].items :
                                F[heap[k].items[i]][heap[l].items[i]])
  BY Zenon
<1>10. ~Box(k) => (Body(F, k, l) <=> DecodedAlone(k, l))
  BY Zenon
<1> HIDE DEF Body
<1> QED  BY <1>7, <1>8, <1>9, <1>10, Zenon

(* What can be reached is collected from what is inside. *)
LEMMA ReachRecursion ==
  ASSUME NEW D, NEW inner, Nested(D, inner)
  PROVE  \E f : f = [k \in D |-> {k} \cup UNION {f[j] : j \in Range(inner[k])}]
<1>1. PICK r \in [D -> Nat] :
        /\ \E top \in Nat : \A k \in D : r[k] < top
        /\ \A k \in D : \A i \in DOMAIN inner[k] :
             inner[k][i] \in D /\ r[inner[k][i]] < r[k]
  BY DEF Nested
<1>2. PICK top \in Nat : \A k \in D : r[k] < top
  BY <1>1
<1> DEFINE Set1(g, k) == {k} \cup UNION {g[j] : j \in Range(inner[k])}
           Upto(n, g) == \A k \in D : r[k] < n => g[k] = Set1(g, k)
           T == {n \in Nat : \E g : Upto(n, g)}
<1>3. \A k \in D : \A j \in Range(inner[k]) : j \in D /\ r[j] \in Nat /\ r[j] < r[k]
  BY <1>1 DEF Range
<1>4. ASSUME NEW k \in D, NEW g, NEW h, \A j \in Range(inner[k]) : g[j] = h[j]
      PROVE  Set1(g, k) = Set1(h, k)
  <2>1. {g[j] : j \in Range(inner[k])} = {h[j] : j \in Range(inner[k])}
    BY <1>4
  <2> QED  BY <2>1
<1>5. 0 \in T
  <2>1. \A k \in D : ~(r[k] < 0)
    BY <1>1
  <2>2. Upto(0, << >>)
    BY <2>1
  <2> QED  BY <2>2
<1>6. ASSUME NEW n \in Nat, n \in T
      PROVE  n + 1 \in T
  <2>1. PICK g : Upto(n, g)
    BY <1>6
  <2> DEFINE h == [k \in D |-> Set1(g, k)]
  <2>2. ASSUME NEW k \in D, r[k] < n + 1
        PROVE  h[k] = Set1(h, k)
    <3>1. ASSUME NEW j \in Range(inner[k])
          PROVE  g[j] = h[j]
      <4>1. j \in D /\ r[j] < n
        <5>1. j \in D /\ r[j] \in Nat /\ r[j] < r[k] /\ r[k] \in Nat
          BY <1>1, <1>3, <3>1
        <5> QED  BY <2>2, <5>1
      <4> HIDE DEF Set1
      <4> QED  BY <2>1, <4>1
    <3>2. h[k] = Set1(g, k)
      OBVIOUS
    <3> HIDE DEF Set1, h
    <3> QED  BY <1>4, <3>1, <3>2
  <2> HIDE DEF h, Set1
  <2>3. Upto(n + 1, h)
    BY <2>2
  <2> QED  BY <2>3
<1>7. top \in T
  <2> HIDE DEF T
  <2> QED  BY <1>2, <1>5, <1>6, NumbersFromZero
<1>8. PICK g : \A k \in D : g[k] = Set1(g, k)
  <2> HIDE DEF Set1
  <2> QED  BY <1>2, <1>7
<1> DEFINE f == [k \in D |-> g[k]]
<1>9. ASSUME NEW k \in D
      PROVE  g[k] = Set1(f, k)
  <2>1. \A j \in Range(inner[k]) : g[j] = f[j]
    BY <1>3
  <2> HIDE DEF f, Set1
  <2> QED  BY <1>4, <1>8, <2>1
<1>10. f = [k \in D |-> Set1(f, k)]
  <2> HIDE DEF Set1
  <2> QED  BY <1>9
<1> HIDE DEF f
<1> QED  BY <1>10

(* What can be reached from an object is itself and all that can be        *)
(* reached from it.                                                        *)
LEMMA ReachableClosed ==
  ASSUME Linked(heap), NEW r, Ranks(heap, r), NEW n \in DOMAIN heap
  PROVE  /\ n \in Reachable(n) /\ Reachable(n) \subseteq DOMAIN heap
         /\ \A m \in Reachable(n) : \A i \in DOMAIN heap[m].items :
              heap[m].items[i] \in Reachable(n)
<1> DEFINE D == DOMAIN heap
           inner == [m \in D |-> heap[m].items]
           Equation(f) ==
             f = [m \in D |-> {m} \cup UNION {f[k] : k \in Range(heap[m].items)}]
           F == CHOOSE f : Equation(f)
<1>1. Nested(D, inner)
  BY DEF Nested, Ranks, Linked
<1>2. PICK f : f = [m \in D |-> {m} \cup UNION {f[k] : k \in Range(inner[m])}]
  <2> HIDE DEF inner, D
  <2> QED  BY <1>1, ReachRecursion
<1>3. Equation(f)
  <2>1. \A m \in D : inner[m] = heap[m].items
    OBVIOUS
  <2> HIDE DEF inner, D
  <2>2. \A m \in D : {m} \cup UNION {f[k] : k \in Range(inner[m])}
                       = {m} \cup UNION {f[k] : k \in Range(heap[m].items)}
    BY <2>1
  <2> QED  BY <1>2, <2>2
<1>4. Equation(F)
  <2> HIDE DEF Equation
  <2> QED  BY <1>3, Zenon
<1>5. \A m : Reachable(m) = F[m]
  BY DEF Reachable
<1> HIDE DEF F
<1>6. \A m \in D : F[m] = {m} \cup UNION {F[k] : k \in Range(heap[m].items)}
  BY <1>4
<1> HIDE DEF Equation
<1> DEFINE S == {m \in D : /\ m \in F[m] /\ F[m] \subseteq D
                           /\ \A k \in F[m] : \A i \in DOMAIN heap[k].items :
                                heap[k].items[i] \in F[m]}
<1>7. ASSUME NEW m \in D, \A k \in D : r[k] < r[m] => k \in S
      PROVE  m \in S
  <2>1. \A i \in DOMAIN heap[m].items : heap[m].items[i] \in S
    <3> HIDE DEF S
    <3> QED  BY <1>7 DEF Ranks, Linked
  <2>2. \A k \in Range(heap[m].items) : k \in S
    BY <2>1 DEF Range
  <2>3. \A k : k \in F[m] <=> k = m \/ \E j \in Range(heap[m].items) : k \in F[j]
    BY <1>6
  <2>4. \A i \in DOMAIN heap[m].items : heap[m].items[i] \in F[m]
    <3>1. \A i \in DOMAIN heap[m].items :
            /\ heap[m].items[i] \in Range(heap[m].items)
            /\ heap[m].items[i] \in F[heap[m].items[i]]
      BY <2>1 DEF Range
    <3> QED  BY <2>3, <3>1
  <2>5. ASSUME NEW k \in F[m], NEW i \in DOMAIN heap[k].items
        PROVE  heap[k].items[i] \in F[m]
    <3>1. CASE k = m
      BY <2>4, <2>5, <3>1
    <3>2. CASE \E j \in Range(heap[m].items) : k \in F[j]
      <4>1. PICK j \in Range(heap[m].items) : k \in F[j]
        BY <3>2
      <4>2. heap[k].items[i] \in F[j]
        BY <2>2, <2>5, <4>1
      <4> QED  BY <2>3, <4>1, <4>2
    <3> QED  BY <2>3, <2>5, <3>1, <3>2
  <2>6. m \in F[m] /\ F[m] \subseteq D
    BY <2>2, <2>3
  <2> QED  BY <2>5, <2>6
<1>8. DOMAIN heap \subseteq S
  <2> HIDE DEF S
  <2> QED  BY <1>7, FromTheInside
<1>9. n \in S
  <2> HIDE DEF S
  <2> QED  BY <1>8
<1> QED  BY <1>5, <1>9

-----------------------------------------------------------------------------
(* What encode() makes of an object, and what loads() and decode() make of *)
(* that.                                                                   *)

(* The caller's objects refer only to each other. *)
CallerInv ==
  /\ heap[1].kind = "list"
  /\ \A n \in 1 .. own :
       /\ heap[n].kind \notin {"instance", "tag"} => heap[n].type = ""
       /\ \A i \in DOMAIN heap[n].items : heap[n].items[i] <= own

(* s[n] is what the object n was made from, of those up to b. *)
Sources(b, s) ==
  /\ b \in Nat /\ own \in Nat \ {0} /\ sent = own + 1 /\ sent <= b
  /\ s \in [1 .. b -> 1 .. own]
  /\ s[sent] = 1 /\ \A n \in 1 .. own : s[n] = n

(* encode() makes o of k. *)
EncodesTo(h, s, o, k) ==
  \/ o = k /\ EncodesAs(h[k]) = {} /\ h[k].kind \notin {"list", "tuple", "dict"}
  \/ o > own /\ s[o] = k

(* n is the Tag for the instance k. *)
EncodedInstance(h, n, k) ==
  \E ct \in EncodesAs(h[k]) : h[n] = Object("tag", ct.tag_number, h[k].items)

(* n is the list or dict for as much of k as was encoded. *)
EncodedBox(h, s, n, k) ==
  /\ h[k].kind \in {"list", "tuple", "dict"}
  /\ h[n].kind = (IF h[k].kind = "dict" THEN "dict" ELSE "list") /\ h[n].type = ""
  /\ Len(h[n].items) <= Len(h[k].items)
  /\ \A i \in DOMAIN h[n].items : EncodesTo(h, s, h[n].items[i], h[k].items[i])

(* encode() has made all that is new, each once, except for sent. *)
Encoded(h, b, s) ==
  /\ Sources(b, s)
  /\ \A n \in own + 1 .. b :
       /\ EncodedInstance(h, n, s[n]) \/ EncodedBox(h, s, n, s[n])
       /\ \A i \in DOMAIN h[n].items : h[n].items[i] <= b /\ h[n].items[i] # sent

(* Nothing is left to be encoded. *)
Whole(h, b, s) ==
  \A n \in own + 1 .. b : Len(h[n].items) = Len(h[s[n]].items)

(* The containers that encode() has made. *)
Boxes(h, b) == {n \in own + 1 .. b : h[n].kind \in {"list", "dict"}}

(* loads() has made n + b of n. *)
CopyOf(h, b, n) ==
  /\ h[n + b].kind = (IF h[n].kind = "tuple" THEN "list" ELSE h[n].kind)
  /\ h[n + b].type = h[n].type /\ Len(h[n + b].items) = Len(h[n].items)
  /\ n \notin Boxes(h, b) =>
       \A i \in DOMAIN h[n].items : h[n + b].items[i] = h[n].items[i] + b

(* decode() has put l where the copy of o was. *)
Replaces(h, b, o, l) ==
  \E ct \in DecodesAs(h[o]) :
    IF ct.decode_function = "loads"
    THEN /\ h[h[o].items[1]].kind = "bytes"
         /\ l = h[h[o].items[1]].items[1] + b
    ELSE h[l] = Object("instance", ct.class_type, <<h[o].items[1] + b>>)

(* decode() is through with an item: l is there for o. *)
Settled(h, b, E, o, l) ==
  \/ Replaces(h, b, o, l)
  \/ /\ l = o + b /\ DecodesAs(h[o]) = {}
     /\ h[o].kind = "tag" => ~raise_on_unknown_tag
     /\ o \in Boxes(h, b) => o \in E

(* decode() is through with all items of the containers in E. *)
AllSettled(h, b, E) ==
  /\ E \subseteq Boxes(h, b) /\ sent \in E
  /\ \A p \in E : \A i \in DOMAIN h[p].items :
       Settled(h, b, E, h[p].items[i], h[p + b].items[i])

(* encode() has come so far, and there is a copy of all that. *)
Made(b, s) ==
  Linked(heap) /\ CallerInv /\ Encoded(heap, b, s) /\ b + b <= Len(heap)

(* What decode() leaves alone: all that loads() was given. *)
Static(r, b, s) ==
  Made(b, s) /\ Ranks(heap, r) /\ \A n \in 1 .. b : CopyOf(heap, b, n)

-----------------------------------------------------------------------------

(* Where the caller's objects, those of encode() and their copies are. *)
LEMMA MadeDomains ==
  ASSUME NEW b, NEW s, Made(b, s)
  PROVE  /\ b \in Nat /\ own \in Nat /\ own < b /\ heap \in Seq(Obj)
         /\ \A n \in 1 .. b : n \in DOMAIN heap /\ n + b \in DOMAIN heap
         /\ \A n \in 1 .. own : n \in 1 .. b /\ n \notin Boxes(heap, b)
         /\ Boxes(heap, b) \subseteq 1 .. b
<1>1. /\ b \in Nat /\ own \in Nat /\ own < b /\ heap \in Seq(Obj) /\ b + b <= Len(heap)
  BY DEF Made, Encoded, Sources, Linked
<1>2. DOMAIN heap = 1 .. Len(heap) /\ Len(heap) \in Nat
  BY <1>1
<1>3. \A n \in 1 .. b : n \in 1 .. Len(heap) /\ n + b \in 1 .. Len(heap)
  BY <1>1, <1>2
<1>4. \A n \in 1 .. own : n \in 1 .. b /\ n \notin own + 1 .. b
  BY <1>1
<1>5. \A n \in own + 1 .. b : n \in 1 .. b
  BY <1>1
<1> QED  BY <1>1, <1>2, <1>3, <1>4, <1>5 DEF Boxes

(* What is no container, or the caller's, refers only to what is the       *)
(* caller's.                                                               *)
LEMMA OwnItems ==
  ASSUME NEW b, NEW s, Made(b, s), NEW n \in 1 .. b,
         n \notin Boxes(heap, b), NEW i \in DOMAIN heap[n].items
  PROVE  heap[n].items[i] \in 1 .. own
<1>0. /\ b \in Nat /\ own \in Nat /\ n \in DOMAIN heap /\ DOMAIN heap \subseteq Nat \ {0}
  BY MadeDomains
<1>1. heap[n].items[i] \in DOMAIN heap
  BY <1>0 DEF Made, Linked
<1>2. CASE n \in 1 .. own
  <2>1. heap[n].items[i] <= own
    BY <1>2 DEF Made, CallerInv
  <2> DEFINE m == heap[n].items[i]
  <2>2. m \in Nat /\ m # 0 /\ m <= own
    BY <1>0, <1>1, <2>1
  <2> HIDE DEF m
  <2>3. m \in 1 .. own
    BY <1>0, <2>2
  <2> QED  BY <2>3 DEF m
<1>3. CASE n \in own + 1 .. b
  <2> DEFINE k == s[n]
  <2>1. k \in 1 .. own
    BY <1>3 DEF Made, Encoded, Sources
  <2>2. heap[n].kind \notin {"list", "dict"}
    BY <1>3 DEF Boxes
  <2>3. EncodedInstance(heap, n, k)
    BY <1>3, <2>2 DEF Made, Encoded, EncodedBox
  <2> HIDE DEF k
  <2>4. heap[n].items = heap[k].items
    BY <2>3 DEF EncodedInstance, Object
  <2>5. heap[k].items[i] <= own
    BY <2>1, <2>4 DEF Made, CallerInv
  <2> DEFINE m == heap[n].items[i]
  <2>6. m \in Nat /\ m # 0 /\ m <= own
    BY <1>0, <1>1, <2>4, <2>5
  <2> HIDE DEF m
  <2>7. m \in 1 .. own
    BY <1>0, <2>6
  <2> QED  BY <2>7 DEF m
<1> QED  BY <1>0, <1>2, <1>3

(* A Tag that encode() has made is for an instance. *)
LEMMA TagMade ==
  ASSUME NEW h, NEW n, NEW k, EncodedInstance(h, n, k)
  PROVE  /\ h[n].kind = "tag" /\ h[n].items = h[k].items
         /\ \E ct \in EncodesAs(h[k]) : h[n].type = ct.tag_number
<1>1. PICK ct \in EncodesAs(h[k]) : h[n] = Object("tag", ct.tag_number, h[k].items)
  BY DEF EncodedInstance
<1>2. /\ h[n].kind = "tag" /\ h[n].items = h[k].items
      /\ h[n].type = ct.tag_number
  BY <1>1 DEF Object
<1> QED  BY <1>2

(* A container in what encode() has made is made of one, and what is in it *)
(* of what is in that.                                                     *)
LEMMA BoxMade ==
  ASSUME NEW b, NEW s, Made(b, s), NEW p \in Boxes(heap, b)
  PROVE  s[p] \in 1 .. own /\ EncodedBox(heap, s, p, s[p])
<1>1. p \in own + 1 .. b /\ heap[p].kind \in {"list", "dict"}
  BY DEF Boxes
<1>2. s[p] \in 1 .. own
  BY <1>1, MadeDomains DEF Made, Encoded, Sources, Boxes
<1>3. ~EncodedInstance(heap, p, s[p])
  BY <1>1, TagMade
<1> QED  BY <1>1, <1>2, <1>3 DEF Made, Encoded

(* And its items are what the items were encoded to. *)
LEMMA BoxItems ==
  ASSUME NEW b, NEW s, Made(b, s), NEW p \in Boxes(heap, b),
         NEW i \in DOMAIN heap[p].items
  PROVE  /\ heap[p].items[i] \in 1 .. b /\ heap[p].items[i] # sent
         /\ i \in DOMAIN heap[s[p]].items
         /\ EncodesTo(heap, s, heap[p].items[i], heap[s[p]].items[i])
<1>1. s[p] \in 1 .. own /\ EncodedBox(heap, s, p, s[p])
  BY BoxMade
<1>2. p \in own + 1 .. b /\ p \in DOMAIN heap /\ s[p] \in DOMAIN heap /\ heap \in Seq(Obj)
  BY <1>1, MadeDomains DEF Boxes
<1>3. heap[p].items[i] <= b /\ heap[p].items[i] # sent
  BY <1>2 DEF Made, Encoded
<1>4. heap[p].items[i] \in 1 .. b
  <2> DEFINE o == heap[p].items[i]
  <2>1. o \in DOMAIN heap /\ DOMAIN heap = 1 .. Len(heap) /\ Len(heap) \in Nat /\ b \in Nat
    BY <1>2, MadeDomains DEF Made, Linked
  <2>2. o <= b
    BY <1>3
  <2> HIDE DEF o
  <2>3. o \in 1 .. b
    BY <2>1, <2>2
  <2> QED  BY <2>3 DEF o
<1>5. i \in DOMAIN heap[s[p]].items
  <2>1. /\ Len(heap[p].items) \in Nat /\ DOMAIN heap[p].items = 1 .. Len(heap[p].items)
        /\ Len(heap[s[p]].items) \in Nat
        /\ DOMAIN heap[s[p]].items = 1 .. Len(heap[s[p]].items)
    BY <1>2, ObjectOf
  <2>2. Len(heap[p].items) <= Len(heap[s[p]].items)
    BY <1>1 DEF EncodedBox
  <2> QED  BY <2>1, <2>2
<1> QED  BY <1>1, <1>3, <1>4, <1>5 DEF EncodedBox

(* The containers in what encode() has made are new, too. *)
LEMMA BoxInside ==
  ASSUME NEW b, NEW s, Made(b, s), NEW p \in Boxes(heap, b),
         NEW i \in DOMAIN heap[p].items,
         heap[heap[p].items[i]].kind \in {"list", "tuple", "dict"}
  PROVE  heap[p].items[i] \in Boxes(heap, b)
<1> DEFINE o == heap[p].items[i]
           k == heap[s[p]].items[i]
<1>1. o \in 1 .. b /\ EncodesTo(heap, s, o, k)
  BY BoxItems
<1>2. heap[o].kind \in {"list", "tuple", "dict"}
  OBVIOUS
<1> HIDE DEF o, k
<1>3. o > own /\ s[o] = k
  BY <1>1, <1>2 DEF EncodesTo
<1>4. o \in own + 1 .. b
  BY <1>1, <1>3, MadeDomains
<1>5. EncodedInstance(heap, o, s[o]) \/ EncodedBox(heap, s, o, s[o])
  BY <1>4 DEF Made, Encoded
<1>6. EncodedBox(heap, s, o, s[o])
  BY <1>2, <1>5, TagMade
<1>7. heap[o].kind \in {"list", "dict"}
  BY <1>6 DEF EncodedBox
<1> QED  BY <1>4, <1>7 DEF Boxes, o

(* What is no container is equal to its copy. *)
LEMMA CopySame ==
  ASSUME NEW r, NEW b, NEW s, Static(r, b, s),
         NEW n \in 1 .. b, n \notin Boxes(heap, b)
  PROVE  Same(n, n + b)
<1> DEFINE S == {k \in DOMAIN heap :
                  k \in 1 .. b /\ k \notin Boxes(heap, b) => Same(k, k + b)}
<1>1. Linked(heap) /\ Ranks(heap, r)
  BY DEF Static, Made
<1>2. ASSUME NEW k \in DOMAIN heap, \A m \in DOMAIN heap : r[m] < r[k] => m \in S
      PROVE  k \in S
  <2> SUFFICES ASSUME k \in 1 .. b, k \notin Boxes(heap, b)
               PROVE  Same(k, k + b)
    OBVIOUS
  <2>1. CopyOf(heap, b, k) /\ k + b \in DOMAIN heap
    BY MadeDomains DEF Static
  <2>2. SameObject(k, k + b)
    BY <2>1 DEF CopyOf, SameObject, IsList
  <2>3. ASSUME NEW i \in DOMAIN heap[k].items
        PROVE  Same(heap[k].items[i], heap[k + b].items[i])
    <3> DEFINE m == heap[k].items[i]
    <3>1. m \in 1 .. own
      BY <2>3, OwnItems DEF Static
    <3>2. m \in 1 .. b /\ m \notin Boxes(heap, b) /\ m \in DOMAIN heap
      BY <3>1, MadeDomains DEF Static
    <3>3. r[m] < r[k]
      BY <1>1, <2>3 DEF Ranks
    <3>4. heap[k + b].items[i] = m + b
      BY <2>1, <2>3 DEF CopyOf
    <3> HIDE DEF m
    <3>5. Same(m, m + b)
      BY <1>2, <3>2, <3>3
    <3> QED  BY <3>4, <3>5 DEF m
  <2> HIDE DEF S
  <2> QED  BY <1>1, <2>1, <2>2, <2>3, SameEquation
<1>3. DOMAIN heap \subseteq S
  <2> HIDE DEF S
  <2> QED  BY <1>1, <1>2, FromTheInside
<1>4. n \in DOMAIN heap
  BY MadeDomains DEF Static
<1> QED  BY <1>3, <1>4

-----------------------------------------------------------------------------
(* What decode() returns *)

(* There is only one class tag for a Tag. *)
LEMMA OneTag ==
  ASSUME NEW x, NEW ct \in DecodesAs(x), NEW other \in DecodesAs(x)
  PROVE  ct = other /\ x.kind = "tag" /\ ~Unknown(x)
<1>1. x.kind = "tag" /\ ct \in Numbered(x.type) /\ other \in Numbered(x.type)
  BY DEF DecodesAs
<1>2. ct = other
  BY <1>1 DEF Numbered, First
<1> QED  BY <1>1, <1>2 DEF Unknown

(* A known Tag is decoded to what it stands for. *)
LEMMA TagDecoded ==
  ASSUME NEW r, NEW b, NEW s, Static(r, b, s), NEW o \in 1 .. b, NEW l,
         Replaces(heap, b, o, l)
  PROVE  heap[o].kind = "tag" /\ DecodedAlone(o, l)
<1>0. Made(b, s) /\ heap \in Seq(Obj) /\ o \in DOMAIN heap
  BY MadeDomains DEF Static
<1>1. PICK ct \in DecodesAs(heap[o]) :
        IF ct.decode_function = "loads"
        THEN /\ heap[heap[o].items[1]].kind = "bytes"
             /\ l = heap[heap[o].items[1]].items[1] + b
        ELSE heap[l] = Object("instance", ct.class_type, <<heap[o].items[1] + b>>)
  BY DEF Replaces
<1>2. heap[o].kind = "tag" /\ ~Unknown(heap[o])
  BY OneTag
<1>3. \A other \in DecodesAs(heap[o]) : other = ct
  BY OneTag
<1> DEFINE m == heap[o].items[1]
<1>4. m \in 1 .. own
  <2>1. o \notin Boxes(heap, b) /\ 1 \in DOMAIN heap[o].items
    <3>1. Len(heap[o].items) = 1 /\ DOMAIN heap[o].items = 1 .. Len(heap[o].items)
      BY <1>0, <1>2, ObjectOf DEF Made, Linked, Holders
    <3>2. heap[o].kind \notin {"list", "dict"}
      BY <1>2
    <3> QED  BY <3>1, <3>2 DEF Boxes
  <2> QED  BY <1>0, <2>1, OwnItems
<1>5. m \in 1 .. b /\ m \notin Boxes(heap, b) /\ m \in DOMAIN heap
  BY <1>0, <1>4, MadeDomains
<1> HIDE DEF m
<1>6. CASE ct.decode_function = "loads"
  <2> DEFINE k == heap[m].items[1]
  <2>1. heap[m].kind = "bytes" /\ l = k + b
    BY <1>1, <1>6 DEF m
  <2>2. 1 \in DOMAIN heap[m].items
    <3>1. Len(heap[m].items) = 1 /\ DOMAIN heap[m].items = 1 .. Len(heap[m].items)
      BY <1>0, <1>5, <2>1, ObjectOf DEF Made, Linked, Holders
    <3> QED  BY <3>1
  <2>3. k \in 1 .. own
    BY <1>0, <1>5, <2>2, OwnItems
  <2>4. k \in 1 .. b /\ k \notin Boxes(heap, b)
    BY <1>0, <2>3, MadeDomains
  <2> HIDE DEF k
  <2>5. Same(k, l)
    BY <2>1, <2>4, CopySame
  <2>6. \A other \in DecodesAs(heap[o]) :
          /\ other.decode_function = "loads"
          /\ Same(heap[heap[o].items[1]].items[1], l)
    BY <1>3, <1>6, <2>5 DEF k, m
  <2>7. DecodedAlone(o, l)
    BY <1>2, <2>6 DEF DecodedAlone
  <2> QED  BY <1>2, <2>7
<1>7. CASE ct.decode_function # "loads"
  <2>1. heap[l] = Object("instance", ct.class_type, <<m + b>>)
    BY <1>1, <1>7 DEF m
  <2>2. /\ heap[l].kind = "instance" /\ heap[l].type = ct.class_type
        /\ heap[l].items[1] = m + b
    BY <2>1 DEF Object
  <2>3. Same(m, m + b)
    BY <1>5, CopySame
  <2>4. \A other \in DecodesAs(heap[o]) :
          /\ other.decode_function # "loads"
          /\ heap[l].kind = "instance" /\ heap[l].type = other.class_type
          /\ Same(heap[o].items[1], heap[l].items[1])
    BY <1>3, <1>7, <2>2, <2>3 DEF m
  <2>5. DecodedAlone(o, l)
    BY <1>2, <2>4 DEF DecodedAlone
  <2> QED  BY <1>2, <2>5
<1> QED  BY <1>6, <1>7

(* decode() takes off the Tags that it knows, and changes nothing else. *)
LEMMA AllDecoded ==
  ASSUME NEW r, NEW b, NEW s, Static(r, b, s), NEW E, AllSettled(heap, b, E),
         NEW p \in E
  PROVE  Decoded(p, p + b)
<1> DEFINE S == {k \in DOMAIN heap : k \in E => Decoded(k, k + b)}
<1>1. Made(b, s) /\ Linked(heap) /\ Ranks(heap, r) /\ E \subseteq Boxes(heap, b)
  BY DEF Static, Made, AllSettled
<1>2. ASSUME NEW k \in DOMAIN heap, \A m \in DOMAIN heap : r[m] < r[k] => m \in S
      PROVE  k \in S
  <2> SUFFICES ASSUME k \in E
               PROVE  Decoded(k, k + b)
    OBVIOUS
  <2>1. /\ k \in Boxes(heap, b) /\ k \in 1 .. b /\ k + b \in DOMAIN heap
        /\ heap[k].kind \in {"list", "dict"} /\ CopyOf(heap, b, k)
    BY <1>1, MadeDomains DEF Static, Boxes
  <2>2. heap[k + b].kind = heap[k].kind /\ Len(heap[k + b].items) = Len(heap[k].items)
    BY <2>1 DEF CopyOf
  <2>3. ASSUME NEW i \in DOMAIN heap[k].items
        PROVE  Decoded(heap[k].items[i], heap[k + b].items[i])
    <3> DEFINE o == heap[k].items[i]
               l == heap[k + b].items[i]
    <3>1. o \in 1 .. b /\ o \in DOMAIN heap
      BY <1>1, <2>1, BoxItems, MadeDomains
    <3>2. l \in DOMAIN heap
      <4>1. DOMAIN heap[k + b].items = DOMAIN heap[k].items
        BY <1>1, <2>1, <2>2, ObjectOf DEF Linked
      <4> QED  BY <1>1, <2>1, <4>1 DEF Linked
    <3>3. Settled(heap, b, E, o, l)
      BY DEF AllSettled
    <3>4. r[o] < r[k]
      BY <1>1 DEF Ranks
    <3>5. heap[o].kind \in {"list", "dict"} => o \in Boxes(heap, b)
      BY <1>1, <2>1, BoxInside
    <3> HIDE DEF o, l
    <3>6. heap[o].kind \notin {"list", "dict"} =>
            (Decoded(o, l) <=> DecodedAlone(o, l))
      BY <1>1, <3>1, <3>2, DecodedEquation
    <3>7. CASE Replaces(heap, b, o, l)
      <4>1. heap[o].kind = "tag" /\ DecodedAlone(o, l)
        BY <3>1, <3>7, TagDecoded
      <4> QED  BY <3>6, <4>1 DEF o, l
    <3>8. CASE /\ l = o + b /\ DecodesAs(heap[o]) = {}
               /\ heap[o].kind = "tag" => ~raise_on_unknown_tag
               /\ o \in Boxes(heap, b) => o \in E
      <4>1. CASE heap[o].kind \in {"list", "dict"}
        <5>1. o \in E
          BY <3>5, <3>8, <4>1
        <5>2. o \in S
          BY <1>2, <3>1, <3>4
        <5> QED  BY <3>8, <5>1, <5>2 DEF o, l
      <4>2. CASE heap[o].kind \notin {"list", "dict"}
        <5>1. o \notin Boxes(heap, b)
          BY <4>2 DEF Boxes
        <5>2. Same(o, l)
          BY <3>1, <3>8, <5>1, CopySame
        <5>3. heap[o].kind = "tag" <=> Unknown(heap[o])
          BY <3>8 DEF Unknown
        <5>4. DecodedAlone(o, l)
          BY <3>8, <5>2, <5>3 DEF DecodedAlone
        <5> QED  BY <3>6, <4>2, <5>4 DEF o, l
      <4> QED  BY <4>1, <4>2
    <3> QED  BY <3>3, <3>7, <3>8 DEF Settled
  <2> HIDE DEF S
  <2> QED  BY <1>1, <2>1, <2>2, <2>3, DecodedEquation
<1>3. DOMAIN heap \subseteq S
  <2> HIDE DEF S
  <2> QED  BY <1>1, <1>2, FromTheInside
<1>4. p \in DOMAIN heap
  BY <1>1, MadeDomains
<1> QED  BY <1>3, <1>4

-----------------------------------------------------------------------------
(* Decoding undoes encoding *)

(* What is found first is found. *)
LEMMA FirstFound ==
  ASSUME NEW found \in SUBSET DOMAIN ClassTags, NEW i \in found,
         \A j \in 1 .. i - 1 : j \notin found
  PROVE  First(found) = {ClassTags[i]}
<1>1. DOMAIN ClassTags = 1 .. Len(ClassTags) /\ Len(ClassTags) \in Nat
  BY TagMapAssumption
<1>2. i \in Nat /\ \A j \in found : j \in Nat /\ j >= 1
  BY <1>1
<1>3. \A j \in found : i <= j
  BY <1>2
<1>4. Min(found) = i
  <2>1. \A j \in found : (\A k \in found : j <= k) => j = i
    BY <1>2, <1>3
  <2> QED  BY <1>3, <2>1 DEF Min
<1> QED  BY <1>4 DEF First

(* An instance that the mapper can tell is encoded and decoded as what it  *)
(* is.                                                                     *)
LEMMA MappedTag ==
  ASSUME NEW x, Mapped(x), x.kind = "instance"
  PROVE  \E ct : /\ ct.class_type = x.type /\ ct.decode_function # "loads"
                 /\ EncodesAs(x) = {ct} /\ Numbered(ct.tag_number) = {ct}
<1>1. PICK i \in DOMAIN ClassTags :
         /\ ClassTags[i].class_type = x.type /\ x.type # "None"
         /\ ClassTags[i].encode_function # "None"
         /\ ClassTags[i].decode_function # "loads"
         /\ \A j \in 1 .. i - 1 :
              /\ ~IsInstance(x.type, ClassTags[j].class_type)
              /\ ClassTags[j].tag_number # ClassTags[i].tag_number
  BY DEF Mapped
<1>2. IsInstance(x.type, ClassTags[i].class_type)
  BY <1>1, InstanceAssumption
<1>3. EncodesAs(x) = {ClassTags[i]}
  <2> DEFINE found == {j \in DOMAIN ClassTags :
                         /\ ClassTags[j].class_type # "None"
                         /\ ClassTags[j].encode_function # "None"
                         /\ x.kind = "instance"
                         /\ IsInstance(x.type, ClassTags[j].class_type)}
  <2>1. found \in SUBSET DOMAIN ClassTags /\ i \in found
    BY <1>1, <1>2
  <2>2. \A j \in 1 .. i - 1 : j \notin found
    BY <1>1
  <2>3. EncodesAs(x) = First(found)
    BY DEF EncodesAs
  <2> HIDE DEF found
  <2> QED  BY <2>1, <2>2, <2>3, FirstFound
<1>4. Numbered(ClassTags[i].tag_number) = {ClassTags[i]}
  <2> DEFINE found == {j \in DOMAIN ClassTags :
                         ClassTags[j].tag_number = ClassTags[i].tag_number}
  <2>1. found \in SUBSET DOMAIN ClassTags /\ i \in found
    BY <1>1
  <2>2. \A j \in 1 .. i - 1 : j \notin found
    BY <1>1
  <2>3. Numbered(ClassTags[i].tag_number) = First(found)
    BY DEF Numbered
  <2> HIDE DEF found
  <2> QED  BY <2>1, <2>2, <2>3, FirstFound
<1> QED  BY <1>1, <1>3, <1>4

(* Objects with one item are equal if the items are. *)
LEMMA SingleEquation ==
  ASSUME Linked(heap), NEW r, Ranks(heap, r),
         NEW k \in DOMAIN heap, NEW l \in DOMAIN heap, SameObject(k, l),
         heap[k].kind \in Holders, Same(heap[k].items[1], heap[l].items[1])
  PROVE  Same(k, l)
<1>1. DOMAIN heap[k].items = 1 .. 1
  BY ObjectOf DEF Linked
<1> QED  BY <1>1, SameEquation

(* decode() makes of each item what it was before encode(). *)
LEMMA ItemBack ==
  ASSUME NEW r, NEW b, NEW s, Static(r, b, s), NEW E,
         NEW c \in 1 .. own, Mapped(heap[c]),
         NEW o \in 1 .. b, EncodesTo(heap, s, o, c),
         NEW l \in DOMAIN heap, Settled(heap, b, E, o, l),
         o \in E /\ s[o] = c => Same(c, o + b)
  PROVE  Same(c, l)
<1>0. /\ Made(b, s) /\ Linked(heap) /\ Ranks(heap, r) /\ heap \in Seq(Obj)
      /\ c \in DOMAIN heap /\ o \in DOMAIN heap /\ c \in 1 .. b
      /\ c \notin Boxes(heap, b)
  BY MadeDomains DEF Static, Made
<1>1. heap[c].kind = "instance" => EncodesAs(heap[c]) # {}
  BY MappedTag
<1>2. CASE /\ o = c /\ EncodesAs(heap[c]) = {}
           /\ heap[c].kind \notin {"list", "tuple", "dict"}
  <2>1. heap[c].kind # "tag"
    BY DEF Mapped
  <2>2. ~Replaces(heap, b, o, l)
    BY <1>2, <2>1, TagDecoded
  <2>3. l = c + b
    BY <1>2, <2>2 DEF Settled
  <2> QED  BY <1>0, <2>3, CopySame
<1>3. CASE o > own /\ s[o] = c
  <2>1. o \in own + 1 .. b
    BY <1>0, <1>3, MadeDomains
  <2>2. CASE EncodedInstance(heap, o, c)
    <3>1. /\ heap[o].kind = "tag" /\ heap[o].items = heap[c].items
          /\ \E ct \in EncodesAs(heap[c]) : heap[o].type = ct.tag_number
      BY <2>2, TagMade
    <3>2. heap[c].kind = "instance"
      BY <3>1, FoundTag
    <3>3. PICK ct : /\ ct.class_type = heap[c].type /\ ct.decode_function # "loads"
                    /\ EncodesAs(heap[c]) = {ct} /\ Numbered(ct.tag_number) = {ct}
      BY <3>2, MappedTag
    <3>4. DecodesAs(heap[o]) = {ct}
      BY <3>1, <3>3 DEF DecodesAs
    <3>5. Replaces(heap, b, o, l)
      BY <3>4 DEF Settled
    <3> DEFINE m == heap[c].items[1]
    <3>6. heap[l] = Object("instance", heap[c].type, <<m + b>>)
      BY <3>1, <3>3, <3>4, <3>5 DEF Replaces
    <3>7. Len(heap[c].items) = 1 /\ 1 \in DOMAIN heap[c].items
      <4>1. Len(heap[c].items) = 1 /\ DOMAIN heap[c].items = 1 .. Len(heap[c].items)
        BY <1>0, <3>2, ObjectOf DEF Linked, Holders
      <4> QED  BY <4>1
    <3>8. m \in 1 .. own
      BY <1>0, <3>7, OwnItems
    <3>9. m \in 1 .. b /\ m \notin Boxes(heap, b)
      BY <1>0, <3>8, MadeDomains
    <3> HIDE DEF m
    <3>10. Same(m, m + b)
      BY <3>9, CopySame
    <3>11. /\ heap[l].kind = "instance" /\ heap[l].type = heap[c].type
           /\ heap[l].items[1] = m + b /\ Len(heap[l].items) = 1
      BY <3>6 DEF Object
    <3>12. SameObject(c, l)
      BY <3>2, <3>7, <3>11 DEF SameObject
    <3> QED  BY <1>0, <3>2, <3>10, <3>11, <3>12, SingleEquation DEF m, Holders
  <2>3. CASE EncodedBox(heap, s, o, c)
    <3>1. heap[o].kind \in {"list", "dict"}
      BY <2>3 DEF EncodedBox
    <3>2. o \in Boxes(heap, b)
      BY <2>1, <3>1 DEF Boxes
    <3>3. ~Replaces(heap, b, o, l)
      BY <3>1, TagDecoded
    <3>4. l = o + b /\ o \in E
      BY <3>2, <3>3 DEF Settled
    <3> QED  BY <1>3, <3>4
  <2> QED  BY <1>0, <1>3, <2>1, <2>2, <2>3 DEF Made, Encoded
<1> QED  BY <1>2, <1>3 DEF EncodesTo

(* decode() makes of each container what it was before encode(). *)
LEMMA AllBack ==
  ASSUME NEW r, NEW b, NEW s, Static(r, b, s), Whole(heap, b, s),
         NEW E, AllSettled(heap, b, E),
         \A n \in Reachable(1) : Mapped(heap[n]), 1 \in DOMAIN heap
  PROVE  Same(1, sent + b)
<1> DEFINE R == Reachable(1)
           S == {p \in DOMAIN heap : p \in E /\ s[p] \in R => Same(s[p], p + b)}
<1>1. /\ Made(b, s) /\ Linked(heap) /\ Ranks(heap, r) /\ heap \in Seq(Obj)
      /\ E \subseteq Boxes(heap, b) /\ sent \in E /\ s[sent] = 1
  BY DEF Static, Made, AllSettled, Linked, Encoded, Sources
<1>2. /\ 1 \in R /\ R \subseteq DOMAIN heap
      /\ \A m \in R : \A i \in DOMAIN heap[m].items : heap[m].items[i] \in R
  BY <1>1, ReachableClosed
<1>3. \A n \in R : Mapped(heap[n])
  OBVIOUS
<1> HIDE DEF R
<1>4. ASSUME NEW p \in DOMAIN heap, \A m \in DOMAIN heap : r[m] < r[p] => m \in S
      PROVE  p \in S
  <2> SUFFICES ASSUME p \in E, s[p] \in R
               PROVE  Same(s[p], p + b)
    OBVIOUS
  <2> DEFINE k == s[p]
  <2>1. /\ p \in Boxes(heap, b) /\ p \in 1 .. b /\ p + b \in DOMAIN heap
        /\ p \in own + 1 .. b /\ CopyOf(heap, b, p)
    BY <1>1, MadeDomains DEF Static, Boxes
  <2>2. k \in 1 .. own /\ EncodedBox(heap, s, p, k) /\ k \in DOMAIN heap
    BY <1>1, <2>1, BoxMade, MadeDomains
  <2>3. Len(heap[p].items) = Len(heap[k].items)
    BY <2>1 DEF Whole
  <2>4. heap[k].type = ""
    <3>1. heap[k].kind \notin {"instance", "tag"}
      BY <2>2 DEF EncodedBox
    <3> QED  BY <1>1, <2>2, <3>1 DEF Made, CallerInv
  <2>5. SameObject(k, p + b)
    <3>1. /\ heap[p + b].kind = heap[p].kind /\ heap[p + b].type = heap[p].type
          /\ Len(heap[p + b].items) = Len(heap[p].items)
      BY <2>1 DEF CopyOf, Boxes
    <3>2. /\ heap[k].kind \in {"list", "tuple", "dict"}
          /\ heap[p].kind = (IF heap[k].kind = "dict" THEN "dict" ELSE "list")
          /\ heap[p].type = ""
      BY <2>2 DEF EncodedBox
    <3> HIDE DEF k
    <3> QED  BY <2>3, <2>4, <3>1, <3>2 DEF SameObject, IsList
  <2>6. ASSUME NEW i \in DOMAIN heap[k].items
        PROVE  Same(heap[k].items[i], heap[p + b].items[i])
    <3> DEFINE c == heap[k].items[i]
               o == heap[p].items[i]
               l == heap[p + b].items[i]
    <3>1. i \in DOMAIN heap[p].items /\ i \in DOMAIN heap[p + b].items
      <4>1. Len(heap[p + b].items) = Len(heap[p].items)
        BY <2>1 DEF CopyOf
      <4>2. /\ DOMAIN heap[p].items = 1 .. Len(heap[p].items)
            /\ DOMAIN heap[p + b].items = 1 .. Len(heap[p + b].items)
            /\ DOMAIN heap[k].items = 1 .. Len(heap[k].items)
        BY <1>1, <2>1, <2>2, ObjectOf, MadeDomains
      <4> QED  BY <2>3, <4>1, <4>2
    <3>2. o \in 1 .. b /\ EncodesTo(heap, s, o, c) /\ o \in DOMAIN heap
      BY <1>1, <2>1, <3>1, BoxItems, MadeDomains
    <3>3. l \in DOMAIN heap /\ Settled(heap, b, E, o, l)
      BY <1>1, <2>1, <3>1 DEF AllSettled, Linked
    <3>4. c \in 1 .. own
      BY <1>1, <2>2, MadeDomains, OwnItems
    <3>5. c \in R /\ Mapped(heap[c])
      BY <1>2, <1>3
    <3>6. r[o] < r[p]
      BY <1>1, <3>1 DEF Ranks
    <3> HIDE DEF c, o, l, k
    <3>7. o \in S
      BY <1>4, <3>2, <3>6
    <3>8. o \in E /\ s[o] = c => Same(c, o + b)
      BY <3>5, <3>7
    <3>9. Same(c, l)
      BY <3>2, <3>3, <3>4, <3>5, <3>8, ItemBack
    <3> QED  BY <3>9 DEF c, l
  <2> HIDE DEF k
  <2>7. Same(k, p + b)
    BY <1>1, <2>1, <2>2, <2>5, <2>6, SameEquation
  <2> QED  BY <2>7 DEF k
<1>5. DOMAIN heap \subseteq S
  <2> HIDE DEF S
  <2> QED  BY <1>1, <1>4, FromTheInside
<1>6. sent \in DOMAIN heap
  BY <1>1, MadeDomains
<1> QED  BY <1>1, <1>2, <1>5, <1>6

-----------------------------------------------------------------------------
(* Nothing to unpack *)

(* S is closed, has what encode() has returned, and nothing to unpack. *)
NoBytes(h, b, S) ==
  /\ S \subseteq 1 .. b /\ sent \in S
  /\ \A n \in S : /\ h[n].kind # "bytes"
                  /\ \A i \in DOMAIN h[n].items : h[n].items[i] \in S

(* What encode() has made refers to nothing that comes later. *)
LEMMA MadeItems ==
  ASSUME NEW b, NEW s, Made(b, s), NEW n \in 1 .. b, NEW i \in DOMAIN heap[n].items
  PROVE  heap[n].items[i] \in 1 .. b
<1>1. CASE n \in Boxes(heap, b)
  BY <1>1, BoxItems
<1>2. CASE n \notin Boxes(heap, b)
  BY <1>2, OwnItems, MadeDomains
<1> QED  BY <1>1, <1>2

(* Without bytes in what encode() has returned there is none to unpack. *)
LEMMA NothingToUnpack ==
  ASSUME NEW r, NEW b, NEW s, Made(b, s), Ranks(heap, r), ~Unpacks
  PROVE  NoBytes(heap, b, Reachable(sent) \cap 1 .. b)
<1>1. Linked(heap) /\ sent \in 1 .. b /\ sent \in DOMAIN heap
  <2>1. sent \in 1 .. b
    BY DEF Made, Encoded, Sources
  <2> QED  BY <2>1, MadeDomains DEF Made
<1>2. /\ sent \in Reachable(sent)
      /\ \A m \in Reachable(sent) : \A i \in DOMAIN heap[m].items :
           heap[m].items[i] \in Reachable(sent)
  BY <1>1, ReachableClosed
<1>3. \A n \in Reachable(sent) : heap[n].kind # "bytes"
  BY DEF Unpacks
<1> QED  BY <1>1, <1>2, <1>3, MadeItems DEF NoBytes

(* Nor is there if the mapper can tell all that is in the object. *)
LEMMA MappedNoBytes ==
  ASSUME NEW r, NEW b, NEW s, Made(b, s), Ranks(heap, r), 1 \in DOMAIN heap,
         \A n \in Reachable(1) : Mapped(heap[n])
  PROVE  NoBytes(heap, b, {n \in 1 .. b : s[n] \in Reachable(1)})
<1> DEFINE R == Reachable(1)
           S == {n \in 1 .. b : s[n] \in R}
<1>1. /\ Linked(heap) /\ heap \in Seq(Obj) /\ sent \in 1 .. b /\ s[sent] = 1
      /\ \A n \in 1 .. own : s[n] = n
      /\ \A n \in 1 .. own : n \in 1 .. b /\ n \notin Boxes(heap, b)
  <2>1. sent \in 1 .. b /\ s[sent] = 1 /\ \A n \in 1 .. own : s[n] = n
    BY DEF Made, Encoded, Sources
  <2> QED  BY <2>1, MadeDomains DEF Made
<1>2. /\ 1 \in R
      /\ \A m \in R : \A i \in DOMAIN heap[m].items : heap[m].items[i] \in R
  BY <1>1, ReachableClosed
<1>3. \A n \in R : Mapped(heap[n])
  OBVIOUS
<1> HIDE DEF R
<1>4. ASSUME NEW n \in S
      PROVE  /\ heap[n].kind # "bytes"
             /\ \A i \in DOMAIN heap[n].items : s[heap[n].items[i]] \in R
  <2>1. n \in 1 .. b /\ s[n] \in R
    OBVIOUS
  <2> HIDE DEF S
  <2>2. CASE n \in 1 .. own
    <3>1. n \in R /\ heap[n].kind # "bytes"
      BY <1>1, <1>3, <2>1, <2>2 DEF Mapped
    <3>2. ASSUME NEW i \in DOMAIN heap[n].items
          PROVE  s[heap[n].items[i]] \in R
      <4>1. heap[n].items[i] \in 1 .. own
        BY <1>1, <2>2, OwnItems
      <4>2. heap[n].items[i] \in R
        BY <1>2, <3>1
      <4> QED  BY <1>1, <4>1, <4>2
    <3> QED  BY <3>1, <3>2
  <2>3. CASE n \in Boxes(heap, b)
    <3>1. heap[n].kind # "bytes"
      BY <2>3 DEF Boxes
    <3>2. ASSUME NEW i \in DOMAIN heap[n].items
          PROVE  s[heap[n].items[i]] \in R
      <4> DEFINE c == heap[s[n]].items[i]
                 o == heap[n].items[i]
      <4>1. EncodesTo(heap, s, o, c) /\ i \in DOMAIN heap[s[n]].items
        BY <2>3, BoxItems
      <4>2. c \in R
        BY <1>2, <2>1, <4>1
      <4>3. c \in 1 .. own
        BY <1>1, <2>3, <4>1, BoxMade, OwnItems
      <4> HIDE DEF c, o
      <4>4. s[o] = c
        BY <1>1, <4>1, <4>3 DEF EncodesTo
      <4> QED  BY <4>2, <4>4 DEF o
    <3> QED  BY <3>1, <3>2
  <2>4. CASE n \notin 1 .. own /\ n \notin Boxes(heap, b)
    <3>1. n \in own + 1 .. b
      BY <2>1, <2>4, MadeDomains
    <3>2. heap[n].kind \notin {"list", "dict"}
      BY <2>4, <3>1 DEF Boxes
    <3>3. EncodedInstance(heap, n, s[n])
      BY <3>1, <3>2 DEF Made, Encoded, EncodedBox
    <3>4. heap[n].kind = "tag" /\ heap[n].items = heap[s[n]].items
      BY <3>3, TagMade
    <3>5. ASSUME NEW i \in DOMAIN heap[n].items
          PROVE  s[heap[n].items[i]] \in R
      <4>1. heap[n].items[i] \in 1 .. own
        BY <2>1, <2>4, OwnItems
      <4>2. heap[n].items[i] \in R
        BY <1>2, <2>1, <3>4
      <4> QED  BY <1>1, <4>1, <4>2
    <3> QED  BY <3>4, <3>5
  <2> QED  BY <2>2, <2>3, <2>4
<1>5. NoBytes(heap, b, S)
  BY <1>1, <1>2, <1>4, MadeItems DEF NoBytes
<1> QED  BY <1>5 DEF R

(* Replaced: what stands for the Tag t is the item i of n now. *)
TagTaken(h, g, n, i, t) ==
  \E ct \in DecodesAs(h[t]) :
    \E e \in Seq(Obj) :
      IF ct.decode_function = "loads"
      THEN /\ h[h[t].items[1]].kind = "bytes"
           /\ SetIn(h, g, n, i, h[h[t].items[1]].items[1])
      ELSE /\ SetIn(h, e, n, i, Len(h) + 1)
           /\ g = Append(e, Object("instance", ct.class_type, h[t].items))
           /\ Object("instance", ct.class_type, h[t].items) \in Obj

(* The step takes off the Tag that is the next item. *)
LEMMA DecodeTagDoes ==
  ASSUME MapInv, DecodeTag
  PROVE  /\ TagTaken(heap, heap', Head(stack).at, Head(stack).i + 1, NextItem)
         /\ More("decode") /\ stack' = Advanced
<1> DEFINE n == Head(stack).at
           i == Head(stack).i + 1
           t == NextItem
<1>1. /\ Basics /\ Linked(heap) /\ heap \in Seq(Obj) /\ More("decode")
      /\ Len(heap) \in Nat /\ DOMAIN heap \subseteq Nat /\ Fresh = Len(heap) + 1
  BY DEF MapInv, Basics, Linked, DecodeTag, Fresh
<1>2. n \in DOMAIN heap /\ i \in DOMAIN heap[n].items /\ t \in DOMAIN heap
  BY <1>1, NextItemThere
<1>3. PICK ct \in DecodesAs(heap[t]) :
        /\ CanDecode(ct, heap[t])
        /\ heap' = IF ct.decode_function = "loads"
                   THEN Set(heap[heap[t].items[1]].items[1])
                   ELSE Append(Set(Fresh), Object("instance", ct.class_type, heap[t].items))
  BY DEF DecodeTag
<1>4. heap[t].kind = "tag" /\ ct.class_type \in STRING
  BY <1>3, FoundTag
<1>5. Len(heap[t].items) = 1 /\ heap[t].items[1] \in DOMAIN heap
  <2>1. Len(heap[t].items) = 1 /\ DOMAIN heap[t].items = 1 .. Len(heap[t].items)
    BY <1>1, <1>2, <1>4, ObjectOf DEF Linked, Holders
  <2>2. 1 \in DOMAIN heap[t].items
    BY <2>1
  <2> QED  BY <1>1, <1>2, <2>1, <2>2 DEF Linked
<1>6. \A x \in Nat : SetIn(heap, Set(x), n, i, x)
  <2>1. \A x : Set(x) = [heap EXCEPT ![n].items[i] = x]
    BY DEF Set
  <2> HIDE DEF n, i
  <2> QED  BY <1>1, <1>2, <2>1, SetExactly
<1> HIDE DEF n, i, t
<1>7. CASE ct.decode_function = "loads"
  <2> DEFINE m == heap[t].items[1]
             x == heap[m].items[1]
  <2>1. heap[m].kind = "bytes"
    BY <1>3, <1>7 DEF CanDecode
  <2>2. 1 \in DOMAIN heap[m].items
    <3>1. Len(heap[m].items) = 1 /\ DOMAIN heap[m].items = 1 .. Len(heap[m].items)
      BY <1>1, <1>5, <2>1, ObjectOf DEF Linked, Holders
    <3> QED  BY <3>1
  <2>3. x \in DOMAIN heap /\ x \in Nat
    BY <1>1, <1>5, <2>2 DEF Linked
  <2>4. SetIn(heap, heap', n, i, x)
    BY <1>3, <1>6, <1>7, <2>3
  <2>5. TagTaken(heap, heap', n, i, t)
    BY <1>1, <1>3, <1>7, <2>1, <2>4 DEF TagTaken
  <2> QED  BY <1>1, <2>5 DEF DecodeTag, n, i, t
<1>8. CASE ct.decode_function # "loads"
  <2> DEFINE o == Object("instance", ct.class_type, heap[t].items)
             e == Set(Fresh)
  <2>1. o \in Obj
    <3>1. "instance" \in Kinds /\ heap[t].kind \in Holders
      BY <1>4 DEF Kinds, Holders
    <3> QED  BY <1>1, <1>2, <1>4, <3>1, Rewrapped
  <2>2. heap' = Append(e, o)
    BY <1>3, <1>8
  <2>3. SetIn(heap, e, n, i, Len(heap) + 1) /\ e \in Seq(Obj)
    BY <1>1, <1>6 DEF SetIn
  <2> HIDE DEF e
  <2>4. TagTaken(heap, heap', n, i, t)
    BY <1>3, <1>8, <2>1, <2>2, <2>3 DEF TagTaken
  <2> QED  BY <1>1, <2>4 DEF DecodeTag, n, i, t
<1> QED  BY <1>7, <1>8

-----------------------------------------------------------------------------
(* Decoding a Tag *)

(* g is h apart from the item i of n, and may have more objects. *)
ElseSame(h, g, n, i) ==
  /\ DOMAIN h \subseteq DOMAIN g /\ Len(h) <= Len(g)
  /\ g[n].kind = h[n].kind /\ g[n].type = h[n].type
  /\ Len(g[n].items) = Len(h[n].items)
  /\ DOMAIN g[n].items = DOMAIN h[n].items
  /\ \A j \in DOMAIN h[n].items : j # i => g[n].items[j] = h[n].items[j]
  /\ \A m \in DOMAIN h : m # n => g[m] = h[m]

(* It changes nothing else. *)
LEMMA TakenRest ==
  ASSUME NEW h \in Seq(Obj), NEW g, NEW n \in DOMAIN h, NEW i, NEW t,
         TagTaken(h, g, n, i, t)
  PROVE  ElseSame(h, g, n, i)
<1>1. PICK ct \in DecodesAs(h[t]), e \in Seq(Obj) :
        IF ct.decode_function = "loads"
        THEN /\ h[h[t].items[1]].kind = "bytes"
             /\ SetIn(h, g, n, i, h[h[t].items[1]].items[1])
        ELSE /\ SetIn(h, e, n, i, Len(h) + 1)
             /\ g = Append(e, Object("instance", ct.class_type, h[t].items))
             /\ Object("instance", ct.class_type, h[t].items) \in Obj
  BY DEF TagTaken
<1>2. CASE ct.decode_function = "loads"
  <2>1. SetIn(h, g, n, i, h[h[t].items[1]].items[1]) /\ Len(h) \in Nat
    BY <1>1, <1>2
  <2> QED  BY <2>1 DEF SetIn, ElseSame
<1>3. CASE ct.decode_function # "loads"
  <2> DEFINE o == Object("instance", ct.class_type, h[t].items)
  <2>1. SetIn(h, e, n, i, Len(h) + 1) /\ g = Append(e, o) /\ o \in Obj
    BY <1>1, <1>3
  <2> HIDE DEF o
  <2>2. /\ Len(e) = Len(h) /\ DOMAIN e = DOMAIN h /\ Len(h) \in Nat
    BY <2>1 DEF SetIn
  <2>3. /\ \A m \in DOMAIN h : m \in DOMAIN g /\ g[m] = e[m]
        /\ Len(g) = Len(h) + 1
    <3>1. /\ \A m \in 1 .. Len(e) : Append(e, o)[m] = e[m]
          /\ Len(Append(e, o)) = Len(e) + 1 /\ Append(e, o) \in Seq(Obj)
      BY <2>1, AppendProperties
    <3>2. DOMAIN g = 1 .. Len(h) + 1 /\ DOMAIN h = 1 .. Len(h)
      BY <2>1, <2>2, <3>1
    <3> QED  BY <2>1, <2>2, <3>1, <3>2
  <2> QED  BY <2>1, <2>2, <2>3 DEF SetIn, ElseSame
<1> QED  BY <1>2, <1>3

(* It nests nothing in itself. *)
LEMMA RanksTaken ==
  ASSUME NEW h, Linked(h), NEW r, Ranks(h, r), NEW g,
         NEW n \in DOMAIN h, NEW i \in DOMAIN h[n].items,
         h[h[n].items[i]].kind = "tag",
         TagTaken(h, g, n, i, h[n].items[i])
  PROVE  \E q : Ranks(g, q)
<1> DEFINE t == h[n].items[i]
<1>1. /\ h \in Seq(Obj) /\ Len(h) \in Nat /\ DOMAIN h = 1 .. Len(h)
      /\ t \in DOMAIN h /\ r[t] < r[n] /\ r \in [DOMAIN h -> Nat]
  BY DEF Linked, Ranks
<1>2. Len(h[t].items) = 1 /\ h[t].items[1] \in DOMAIN h /\ r[h[t].items[1]] < r[t]
  <2>1. Len(h[t].items) = 1 /\ DOMAIN h[t].items = 1 .. Len(h[t].items)
    BY <1>1, ObjectOf DEF Linked, Holders
  <2>2. 1 \in DOMAIN h[t].items
    BY <2>1
  <2> QED  BY <1>1, <2>1, <2>2 DEF Linked, Ranks
<1>3. PICK ct \in DecodesAs(h[t]), e \in Seq(Obj) :
        IF ct.decode_function = "loads"
        THEN /\ h[h[t].items[1]].kind = "bytes"
             /\ SetIn(h, g, n, i, h[h[t].items[1]].items[1])
        ELSE /\ SetIn(h, e, n, i, Len(h) + 1)
             /\ g = Append(e, Object("instance", ct.class_type, h[t].items))
             /\ Object("instance", ct.class_type, h[t].items) \in Obj
  BY DEF TagTaken
<1>4. PICK top \in Nat : \A m \in DOMAIN h : r[m] < top
  BY DEF Ranks
<1> HIDE DEF t
<1>5. CASE ct.decode_function = "loads"
  <2> DEFINE m == h[t].items[1]
             x == h[m].items[1]
  <2>1. SetIn(h, g, n, i, x) /\ h[m].kind = "bytes"
    BY <1>3, <1>5
  <2>2. 1 \in DOMAIN h[m].items
    <3>1. Len(h[m].items) = 1 /\ DOMAIN h[m].items = 1 .. Len(h[m].items)
      BY <1>1, <1>2, <2>1, ObjectOf DEF Linked, Holders
    <3> QED  BY <3>1
  <2>3. x \in DOMAIN h /\ r[x] < r[m]
    BY <1>2, <2>2 DEF Linked, Ranks
  <2>4. r[x] < r[n]
    <3>1. r[x] \in Nat /\ r[m] \in Nat /\ r[t] \in Nat /\ r[n] \in Nat
      BY <1>1, <1>2, <2>3
    <3> QED  BY <1>1, <1>2, <2>3, <3>1
  <2> HIDE DEF x
  <2>5. ASSUME NEW k \in DOMAIN g, NEW j \in DOMAIN g[k].items
        PROVE  r[g[k].items[j]] < r[k]
    BY <2>1, <2>4 DEF SetIn, Ranks
  <2>6. DOMAIN g = DOMAIN h
    BY <2>1 DEF SetIn
  <2> QED  BY <1>1, <1>4, <2>5, <2>6 DEF Ranks
<1>6. CASE ct.decode_function # "loads"
  <2> DEFINE o == Object("instance", ct.class_type, h[t].items)
             q == [k \in DOMAIN g |-> IF k = Len(h) + 1 THEN r[t] ELSE r[k]]
  <2>1. SetIn(h, e, n, i, Len(h) + 1) /\ g = Append(e, o) /\ o \in Obj
    BY <1>3, <1>6
  <2>2. o.items = h[t].items
    BY DEF Object
  <2> HIDE DEF o
  <2>3. /\ Len(e) = Len(h) /\ DOMAIN e = DOMAIN h
    BY <2>1 DEF SetIn
  <2>4. /\ \A m \in DOMAIN h : m \in DOMAIN g /\ g[m] = e[m] /\ m # Len(h) + 1
        /\ Len(h) + 1 \in DOMAIN g /\ g[Len(h) + 1] = o
        /\ \A m \in DOMAIN g : m # Len(h) + 1 => m \in DOMAIN h
    <3>1. /\ \A m \in 1 .. Len(e) : Append(e, o)[m] = e[m]
          /\ Append(e, o)[Len(e) + 1] = o
          /\ Len(Append(e, o)) = Len(e) + 1 /\ Append(e, o) \in Seq(Obj)
      BY <2>1, AppendProperties
    <3>2. DOMAIN g = 1 .. Len(h) + 1
      BY <2>1, <2>3, <3>1
    <3> QED  BY <1>1, <2>1, <2>3, <3>1, <3>2
  <2>5. /\ q[Len(h) + 1] = r[t] /\ \A m \in DOMAIN h : q[m] = r[m]
        /\ q \in [DOMAIN g -> Nat] /\ \A m \in DOMAIN g : q[m] < top
    BY <1>1, <1>4, <2>4
  <2> HIDE DEF q
  <2>6. ASSUME NEW k \in DOMAIN g, NEW j \in DOMAIN g[k].items
        PROVE  q[g[k].items[j]] < q[k]
    <3>1. CASE k = Len(h) + 1
      <4>1. h[t].items[j] \in DOMAIN h /\ r[h[t].items[j]] < r[t]
        BY <1>1, <2>2, <2>4, <2>6, <3>1 DEF Linked, Ranks
      <4> QED  BY <2>2, <2>4, <2>5, <3>1, <4>1
    <3>2. CASE k = n
      <4>1. g[n] = e[n] /\ j \in DOMAIN h[n].items /\ q[n] = r[n]
        BY <2>1, <2>4, <2>5, <2>6, <3>2 DEF SetIn
      <4>2. CASE j = i
        BY <1>1, <2>1, <2>5, <3>2, <4>1, <4>2 DEF SetIn
      <4>3. CASE j # i
        <5>1. g[n].items[j] = h[n].items[j]
          BY <2>1, <4>1, <4>3 DEF SetIn
        <5>2. h[n].items[j] \in DOMAIN h /\ r[h[n].items[j]] < r[n]
          BY <4>1 DEF Linked, Ranks
        <5> QED  BY <2>5, <3>2, <4>1, <5>1, <5>2
      <4> QED  BY <4>2, <4>3
    <3>3. CASE k # Len(h) + 1 /\ k # n
      <4>1. k \in DOMAIN h /\ g[k] = h[k] /\ q[k] = r[k]
        BY <2>1, <2>4, <2>5, <2>6, <3>3 DEF SetIn
      <4>2. h[k].items[j] \in DOMAIN h /\ r[h[k].items[j]] < r[k]
        BY <2>6, <4>1 DEF Linked, Ranks
      <4> QED  BY <2>5, <4>1, <4>2
    <3> QED  BY <3>1, <3>2, <3>3
  <2>7. Ranks(g, q)
    BY <2>5, <2>6 DEF Ranks
  <2> QED  BY <2>7
<1> QED  BY <1>5, <1>6

-----------------------------------------------------------------------------
(* The walk of decode() *)

(* encode() puts what it makes in one place only. *)
Unshared(h, b) ==
  \A n, m \in own + 1 .. b :
    \A i \in DOMAIN h[n].items, j \in DOMAIN h[m].items :
      h[n].items[i] = h[m].items[j] /\ h[n].items[i] > own => n = m /\ i = j

(* decode() has nothing done yet to an item. *)
Original(h, b, p, i) == h[p + b].items[i] = h[p].items[i] + b

(* What loads() has made is a copy still, apart from Tags taken off. *)
Copies(h, b) ==
  /\ \A n \in 1 .. b : CopyOf(h, b, n)
  /\ \A p \in Boxes(h, b) : \A i \in DOMAIN h[p].items :
       Original(h, b, p, i) \/ Replaces(h, b, h[p].items[i], h[p + b].items[i])

(* The walk is not at the copy of p, or past its item i. *)
Passed(stk, b, p, i) == \A j \in DOMAIN stk : stk[j].at = p + b => i <= stk[j].i

(* E are the containers whose copies decode() has come to. *)
Walk(h, stk, b, E) ==
  /\ E \subseteq Boxes(h, b) /\ sent \in E
  /\ \A j \in DOMAIN stk : \E p \in E : stk[j].at = p + b
  /\ \A p \in E : \A i \in DOMAIN h[p].items :
       Passed(stk, b, p, i) => Settled(h, b, E, h[p].items[i], h[p + b].items[i])

(* The first attempt comes to everything once. *)
Once(h, stk, b, E) ==
  /\ \A p \in Boxes(h, b) : \A i \in DOMAIN h[p].items :
       /\ Original(h, b, p, i) \/ (p \in E /\ Passed(stk, b, p, i))
       /\ h[p].items[i] \in E => p \in E /\ Passed(stk, b, p, i)
  /\ \A j, k \in DOMAIN stk : stk[j].at = stk[k].at => j = k

(* loads() was given all that encode() was to make, and has copied it. *)
Loaded(b, s) ==
  /\ Made(b, s) /\ Unshared(heap, b) /\ Whole(heap, b, s)
  /\ \E r : Ranks(heap, r)

(* decode() cannot come to what it has unpacked. *)
Certain(b) == raises = 0 \/ \E S : NoBytes(heap, b, S)

(* Where decode() is, and in the first attempt, what it has not come to. *)
Walking(b, E) ==
  /\ Walk(heap, stack, b, E)
  /\ raises = 0 => Once(heap, stack, b, E)
  /\ \A S : NoBytes(heap, b, S) => E \subseteq S

-----------------------------------------------------------------------------

(* What decode() comes to in the copy of p. *)
Visits(b, E, p) ==
  LET i == Head(stack).i + 1  o == heap[p].items[i] IN
    /\ p \in E /\ p \in Boxes(heap, b) /\ Head(stack).at = p + b
    /\ i \in DOMAIN heap[p].items /\ o \in 1 .. b
    /\ NextItem = heap[p + b].items[i]
    /\ \/ NextItem = o + b
       \/ Replaces(heap, b, o, NextItem) /\ heap[NextItem].kind = "instance"

(* A copy has as many items. *)
LEMMA CopyItems ==
  ASSUME NEW b, NEW s, Made(b, s), NEW p \in 1 .. b, CopyOf(heap, b, p)
  PROVE  DOMAIN heap[p + b].items = DOMAIN heap[p].items
<1>1. /\ heap \in Seq(Obj) /\ p \in DOMAIN heap /\ p + b \in DOMAIN heap
  BY MadeDomains
<1>2. Len(heap[p + b].items) = Len(heap[p].items)
  BY DEF CopyOf
<1> QED  BY <1>1, <1>2, ObjectOf

(* A Tag has one item. *)
LEMMA TagItem ==
  ASSUME Linked(heap), NEW o \in DOMAIN heap, heap[o].kind \in Holders
  PROVE  1 \in DOMAIN heap[o].items /\ heap[o].items[1] \in DOMAIN heap
<1>1. Len(heap[o].items) = 1 /\ DOMAIN heap[o].items = 1 .. Len(heap[o].items)
  BY ObjectOf DEF Linked
<1>2. 1 \in DOMAIN heap[o].items
  BY <1>1
<1> QED  BY <1>2 DEF Linked

(* Either that is the copy of an item, or an instance that an earlier      *)
(* attempt has put there.                                                  *)
LEMMA NextVisit ==
  ASSUME Basics, NEW b, NEW s, Made(b, s), Copies(heap, b), Certain(b),
         NEW E, Walking(b, E), More("decode")
  PROVE  \E p \in E : Visits(b, E, p)
<1> DEFINE i == Head(stack).i + 1
<1>1. /\ 1 \in DOMAIN stack /\ Head(stack) = stack[1]
      /\ i \in DOMAIN heap[Head(stack).at].items /\ stack[1] \in Frames
      /\ NextItem = heap[Head(stack).at].items[i]
  BY NextItemThere DEF NextItem
<1>2. PICK p \in E : stack[1].at = p + b
  BY <1>1 DEF Walking, Walk
<1>3. p \in Boxes(heap, b) /\ p \in 1 .. b /\ Linked(heap)
  BY MadeDomains DEF Walking, Walk, Made
<1>4. DOMAIN heap[p + b].items = DOMAIN heap[p].items
  BY <1>3, CopyItems DEF Copies
<1> DEFINE o == heap[p].items[i]
           l == heap[p + b].items[i]
<1>5. i \in DOMAIN heap[p].items /\ NextItem = l
  BY <1>1, <1>2, <1>4
<1>6. o \in 1 .. b
  BY <1>3, <1>5, BoxItems
<1>7. CASE raises = 0
  <2>1. ~Passed(stack, b, p, i)
    <3>1. ~(i <= stack[1].i)
      BY <1>1 DEF Frames
    <3> HIDE DEF i
    <3> QED  BY <1>1, <1>2, <3>1 DEF Passed
  <2>2. Original(heap, b, p, i)
    <3> HIDE DEF i
    <3> QED  BY <1>3, <1>5, <1>7, <2>1 DEF Walking, Once
  <2>3. l = o + b
    BY <2>2 DEF Original
  <2> QED  BY <1>1, <1>2, <1>3, <1>5, <1>6, <2>3 DEF Visits
<1>8. CASE raises # 0
  <2>1. PICK S : NoBytes(heap, b, S)
    BY <1>8 DEF Certain
  <2>2. p \in S /\ o \in S
    <3>1. p \in S
      BY <2>1 DEF Walking
    <3> QED  BY <1>5, <2>1, <3>1 DEF NoBytes
  <2> HIDE DEF i, l, o
  <2>3. l = o + b \/ Replaces(heap, b, o, l)
    BY <1>3, <1>5 DEF Copies, Original, o, l
  <2>4. CASE Replaces(heap, b, o, l)
    <3>1. PICK ct \in DecodesAs(heap[o]) :
            IF ct.decode_function = "loads"
            THEN /\ heap[heap[o].items[1]].kind = "bytes"
                 /\ l = heap[heap[o].items[1]].items[1] + b
            ELSE heap[l] = Object("instance", ct.class_type, <<heap[o].items[1] + b>>)
      BY <2>4 DEF Replaces
    <3>2. heap[o].kind = "tag" /\ o \in DOMAIN heap
      BY <1>6, OneTag, MadeDomains
    <3>3. 1 \in DOMAIN heap[o].items
      BY <1>3, <3>2, TagItem DEF Holders
    <3>4. heap[heap[o].items[1]].kind # "bytes"
      BY <2>1, <2>2, <3>3 DEF NoBytes
    <3>5. heap[l].kind = "instance"
      BY <3>1, <3>4 DEF Object
    <3> QED  BY <1>1, <1>2, <1>3, <1>5, <1>6, <2>4, <3>5 DEF Visits, i, o, l
  <2>5. CASE l = o + b
    BY <1>1, <1>2, <1>3, <1>5, <1>6, <2>5 DEF Visits, i, o, l
  <2> QED  BY <2>3, <2>4, <2>5
<1> QED  BY <1>7, <1>8

(* Moving on *)
LEMMA AdvancedPassed ==
  ASSUME Basics, More("decode"), NEW b, NEW p, NEW i \in Nat
  PROVE  /\ Passed(stack, b, p, i) => Passed(Advanced, b, p, i)
         /\ Passed(Advanced, b, p, i) =>
              \/ Passed(stack, b, p, i)
              \/ Head(stack).at = p + b /\ i = Head(stack).i + 1
<1>1. /\ DOMAIN Advanced = DOMAIN stack /\ Advanced[1].at = stack[1].at
      /\ Advanced[1].i = stack[1].i + 1
      /\ \A j \in DOMAIN stack : j # 1 => Advanced[j] = stack[j]
  BY AdvancedFrames
<1>2. /\ 1 \in DOMAIN stack /\ Head(stack) = stack[1] /\ stack[1].i \in Nat
  BY NextItemThere DEF Frames
<1>3. i <= stack[1].i => i <= Advanced[1].i
  BY <1>1, <1>2
<1>4. i <= Advanced[1].i => i <= stack[1].i \/ i = stack[1].i + 1
  BY <1>1, <1>2
<1> QED  BY <1>1, <1>2, <1>3, <1>4 DEF Passed

(* g is the heap but for the item i of the copy of p, and what is new. *)
Alike(g, b, p, i) ==
  /\ \A m \in DOMAIN heap : m # p + b => g[m] = heap[m]
  /\ g[p + b].kind = heap[p + b].kind /\ g[p + b].type = heap[p + b].type
  /\ Len(g[p + b].items) = Len(heap[p + b].items)
  /\ \A j \in DOMAIN heap[p].items :
       j # i => g[p + b].items[j] = heap[p + b].items[j]

(* What loads() was given is as it was. *)
LEMMA AlikeBelow ==
  ASSUME NEW b, NEW s, Made(b, s), NEW p \in Boxes(heap, b), NEW i, NEW g,
         Alike(g, b, p, i)
  PROVE  /\ \A n \in 1 .. b : g[n] = heap[n]
         /\ Boxes(g, b) = Boxes(heap, b)
         /\ \A n \in 1 .. b : n # p => g[n + b] = heap[n + b]
<1>1. p \in 1 .. b /\ b \in Nat
  BY MadeDomains
<1>2. \A n \in 1 .. b : n # p + b /\ n \in DOMAIN heap /\ n + b \in DOMAIN heap
  <2>1. \A n \in 1 .. b : n # p + b
    BY <1>1
  <2>2. \A n \in 1 .. b : n \in DOMAIN heap /\ n + b \in DOMAIN heap
    BY MadeDomains
  <2> QED  BY <2>1, <2>2
<1>3. \A n \in 1 .. b : n # p => n + b # p + b
  BY <1>1
<1>4. \A n \in 1 .. b : g[n] = heap[n]
  BY <1>2 DEF Alike
<1>5. \A n \in own + 1 .. b : n \in 1 .. b
  BY MadeDomains
<1>6. Boxes(g, b) = Boxes(heap, b)
  BY <1>4, <1>5 DEF Boxes
<1> QED  BY <1>2, <1>3, <1>4, <1>6 DEF Alike

(* What was taken off stays so, *)
LEMMA ReplacesStays ==
  ASSUME NEW b, NEW s, Made(b, s), NEW p \in Boxes(heap, b), NEW i, NEW g,
         Alike(g, b, p, i), CopyOf(heap, b, p),
         NEW o \in 1 .. b, NEW l \in DOMAIN heap, Replaces(heap, b, o, l)
  PROVE  Replaces(g, b, o, l)
<1>1. PICK ct \in DecodesAs(heap[o]) :
        IF ct.decode_function = "loads"
        THEN /\ heap[heap[o].items[1]].kind = "bytes"
             /\ l = heap[heap[o].items[1]].items[1] + b
        ELSE heap[l] = Object("instance", ct.class_type, <<heap[o].items[1] + b>>)
  BY DEF Replaces
<1>2. heap[o].kind = "tag" /\ o \in DOMAIN heap /\ Linked(heap)
  BY OneTag, MadeDomains DEF Made
<1>3. heap[o].items[1] \in 1 .. b
  BY <1>2, TagItem, MadeItems DEF Holders
<1>4. g[o] = heap[o] /\ g[heap[o].items[1]] = heap[heap[o].items[1]]
  BY <1>3, AlikeBelow
<1>5. heap[p + b].kind \in {"list", "dict"}
  BY DEF CopyOf, Boxes
<1>6. heap[l].kind = "instance" => g[l] = heap[l]
  BY <1>5 DEF Alike
<1>7. CASE ct.decode_function = "loads"
  BY <1>1, <1>4, <1>7 DEF Replaces
<1>8. CASE ct.decode_function # "loads"
  <2>1. heap[l] = Object("instance", ct.class_type, <<heap[o].items[1] + b>>)
    BY <1>1, <1>8
  <2>2. heap[l].kind = "instance"
    BY <2>1 DEF Object
  <2>3. g[l] = Object("instance", ct.class_type, <<g[o].items[1] + b>>)
    BY <1>4, <1>6, <2>1, <2>2
  <2> QED  BY <1>4, <1>8, <2>3 DEF Replaces
<1> QED  BY <1>7, <1>8

(* and what decode() is through with, *)
LEMMA SettledStays ==
  ASSUME NEW b, NEW s, Made(b, s), NEW p \in Boxes(heap, b), NEW i, NEW g,
         Alike(g, b, p, i), CopyOf(heap, b, p), NEW E, NEW F, E \subseteq F,
         NEW o \in 1 .. b, NEW l \in DOMAIN heap, Settled(heap, b, E, o, l)
  PROVE  Settled(g, b, F, o, l)
<1>1. g[o] = heap[o] /\ Boxes(g, b) = Boxes(heap, b)
  BY AlikeBelow
<1> QED  BY <1>1, ReplacesStays DEF Settled

(* and all else is a copy still. *)
LEMMA CopiesStay ==
  ASSUME NEW b, NEW s, Made(b, s), Copies(heap, b),
         NEW p \in Boxes(heap, b), NEW i \in DOMAIN heap[p].items, NEW g,
         Alike(g, b, p, i),
         \/ g[p + b].items[i] = heap[p].items[i] + b
         \/ Replaces(g, b, heap[p].items[i], g[p + b].items[i])
  PROVE  Copies(g, b)
<1>1. /\ \A n \in 1 .. b : g[n] = heap[n]
      /\ Boxes(g, b) = Boxes(heap, b)
      /\ \A n \in 1 .. b : n # p => g[n + b] = heap[n + b]
      /\ Boxes(heap, b) \subseteq 1 .. b
  BY AlikeBelow, MadeDomains
<1>2. \A n \in 1 .. b : CopyOf(heap, b, n)
  BY DEF Copies
<1>3. CopyOf(g, b, p)
  BY <1>1, <1>2 DEF CopyOf, Alike
<1>4. ASSUME NEW n \in 1 .. b, n # p
      PROVE  CopyOf(g, b, n)
  BY <1>1, <1>2, <1>4 DEF CopyOf
<1>5. ASSUME NEW q \in Boxes(heap, b), NEW j \in DOMAIN heap[q].items,
             ~(q = p /\ j = i)
      PROVE  Original(g, b, q, j) \/ Replaces(g, b, g[q].items[j], g[q + b].items[j])
  <2> DEFINE o == heap[q].items[j]
             l == heap[q + b].items[j]
  <2>1. g[q + b].items[j] = l /\ g[q] = heap[q]
    BY <1>1, <1>5 DEF Alike
  <2>2. l = o + b \/ Replaces(heap, b, o, l)
    BY DEF Copies, Original
  <2>3. o \in 1 .. b
    BY BoxItems
  <2>4. l \in DOMAIN heap
    <3>1. j \in DOMAIN heap[q + b].items /\ q + b \in DOMAIN heap
      BY <1>1, <1>2, CopyItems, MadeDomains
    <3> QED  BY <3>1 DEF Made, Linked
  <2>5. CopyOf(heap, b, p)
    BY <1>1, <1>2
  <2> HIDE DEF o, l
  <2>6. Replaces(heap, b, o, l) => Replaces(g, b, o, l)
    BY <2>3, <2>4, <2>5, ReplacesStays
  <2> QED  BY <2>1, <2>2, <2>6 DEF Original, o, l
<1>6. Original(g, b, p, i) \/ Replaces(g, b, g[p].items[i], g[p + b].items[i])
  BY <1>1 DEF Original
<1>7. \A q \in Boxes(heap, b) : \A j \in DOMAIN heap[q].items :
        Original(g, b, q, j) \/ Replaces(g, b, g[q].items[j], g[q + b].items[j])
  BY <1>5, <1>6
<1> QED  BY <1>1, <1>3, <1>4, <1>7 DEF Copies

-----------------------------------------------------------------------------
(* decode() moves on *)

(* The items of the copies are objects that there are. *)
LEMMA LiveItem ==
  ASSUME NEW b, NEW s, Made(b, s), NEW p \in Boxes(heap, b),
         CopyOf(heap, b, p), NEW i \in DOMAIN heap[p].items
  PROVE  heap[p + b].items[i] \in DOMAIN heap
<1>1. p \in 1 .. b /\ p + b \in DOMAIN heap
  BY MadeDomains
<1>2. i \in DOMAIN heap[p + b].items
  BY <1>1, CopyItems
<1> QED  BY <1>1, <1>2 DEF Made, Linked

(* The next item is done, and the walk goes on. *)
LEMMA WalkAdvances ==
  ASSUME Basics, NEW b, NEW s, Made(b, s), Copies(heap, b),
         More("decode"), NEW E, Walk(heap, stack, b, E),
         NEW p \in E, Visits(b, E, p), NEW g, Alike(g, b, p, Head(stack).i + 1),
         Settled(g, b, E, heap[p].items[Head(stack).i + 1],
                          g[p + b].items[Head(stack).i + 1])
  PROVE  Walk(g, Advanced, b, E)
<1> DEFINE i == Head(stack).i + 1
<1>1. /\ p \in Boxes(heap, b) /\ p \in 1 .. b /\ CopyOf(heap, b, p) /\ Head(stack).at = p + b
      /\ Linked(heap)
  BY MadeDomains DEF Visits, Copies, Made
<1>2. /\ \A n \in 1 .. b : g[n] = heap[n]
      /\ Boxes(g, b) = Boxes(heap, b)
      /\ \A n \in 1 .. b : n # p => g[n + b] = heap[n + b]
      /\ Boxes(heap, b) \subseteq 1 .. b
  BY <1>1, AlikeBelow, MadeDomains
<1>3. E \subseteq Boxes(heap, b) /\ sent \in E
  BY DEF Walk
<1>4. \A j \in DOMAIN Advanced : \E q \in E : Advanced[j].at = q + b
  <2>1. /\ DOMAIN Advanced = DOMAIN stack /\ Advanced[1].at = stack[1].at
        /\ \A j \in DOMAIN stack : j # 1 => Advanced[j] = stack[j]
    BY AdvancedFrames
  <2> QED  BY <2>1 DEF Walk
<1>5. ASSUME NEW q \in E, NEW j \in DOMAIN g[q].items, Passed(Advanced, b, q, j)
      PROVE  Settled(g, b, E, g[q].items[j], g[q + b].items[j])
  <2>1. /\ q \in Boxes(heap, b) /\ q \in 1 .. b /\ g[q] = heap[q] /\ q \in DOMAIN heap
        /\ b \in Nat
    BY <1>2, <1>3, MadeDomains
  <2>2. j \in DOMAIN heap[q].items /\ j \in Nat
    <3>1. heap \in Seq(Obj)
      BY <1>1 DEF Linked
    <3> QED  BY <1>5, <2>1, <3>1, ObjectOf
  <2>3. CASE q = p /\ j = i
    BY <2>1, <2>3
  <2>4. CASE ~(q = p /\ j = i)
    <3>1. ~(Head(stack).at = q + b /\ j = i)
      BY <1>1, <2>1, <2>4
    <3>2. Passed(stack, b, q, j)
      BY <1>5, <2>2, <3>1, AdvancedPassed
    <3>3. Settled(heap, b, E, heap[q].items[j], heap[q + b].items[j])
      BY <2>2, <3>2 DEF Walk
    <3>4. heap[q].items[j] \in 1 .. b
      BY <2>1, <2>2, BoxItems
    <3>5. heap[q + b].items[j] \in DOMAIN heap
      BY <2>1, <2>2, LiveItem DEF Copies
    <3>6. Settled(g, b, E, heap[q].items[j], heap[q + b].items[j])
      BY <1>1, <3>3, <3>4, <3>5, SettledStays
    <3>7. g[q + b].items[j] = heap[q + b].items[j]
      BY <1>2, <2>1, <2>2, <2>4 DEF Alike
    <3> QED  BY <2>1, <3>6, <3>7
  <2> QED  BY <2>3, <2>4
<1> QED  BY <1>2, <1>3, <1>4, <1>5 DEF Walk

(* The first attempt has not come to the items that are left. *)
LEMMA OnceAdvances ==
  ASSUME Basics, NEW b, NEW s, Made(b, s), Copies(heap, b),
         More("decode"), NEW E, Once(heap, stack, b, E),
         NEW p \in E, Visits(b, E, p), NEW g, Alike(g, b, p, Head(stack).i + 1)
  PROVE  Once(g, Advanced, b, E)
<1> DEFINE i == Head(stack).i + 1
<1>1. /\ p \in Boxes(heap, b) /\ p \in 1 .. b /\ Head(stack).at = p + b
      /\ Linked(heap) /\ i \in DOMAIN heap[p].items
  BY MadeDomains DEF Visits, Made
<1>2. /\ \A n \in 1 .. b : g[n] = heap[n]
      /\ Boxes(g, b) = Boxes(heap, b)
      /\ \A n \in 1 .. b : n # p => g[n + b] = heap[n + b]
      /\ Boxes(heap, b) \subseteq 1 .. b /\ b \in Nat
  BY <1>1, AlikeBelow, MadeDomains
<1>3. /\ DOMAIN Advanced = DOMAIN stack /\ Advanced[1].at = stack[1].at
      /\ Advanced[1].i = stack[1].i + 1
      /\ \A j \in DOMAIN stack : j # 1 => Advanced[j] = stack[j]
  BY AdvancedFrames
<1>4. /\ 1 \in DOMAIN stack /\ Head(stack) = stack[1] /\ stack[1].i \in Nat
  BY NextItemThere DEF Frames
<1>5. \A j, k \in DOMAIN Advanced : Advanced[j].at = Advanced[k].at => j = k
  <2>1. \A j \in DOMAIN stack : Advanced[j].at = stack[j].at
    BY <1>3
  <2> QED  BY <1>3, <2>1 DEF Once
<1>6. Passed(Advanced, b, p, i)
  <2>1. \A j \in DOMAIN stack : stack[j].at = p + b => j = 1
    BY <1>1, <1>4 DEF Once
  <2>2. \A j \in DOMAIN stack : Advanced[j].at = stack[j].at
    BY <1>3
  <2>3. i <= Advanced[1].i
    BY <1>3, <1>4
  <2> QED  BY <1>3, <2>1, <2>2, <2>3 DEF Passed
<1>7. ASSUME NEW q \in Boxes(heap, b), NEW j \in DOMAIN heap[q].items
      PROVE  /\ Original(g, b, q, j) \/ (q \in E /\ Passed(Advanced, b, q, j))
             /\ heap[q].items[j] \in E => q \in E /\ Passed(Advanced, b, q, j)
  <2>1. q \in 1 .. b /\ q \in DOMAIN heap /\ g[q] = heap[q]
    BY <1>2, MadeDomains
  <2>2. j \in Nat
    <3>1. heap \in Seq(Obj)
      BY <1>1 DEF Linked
    <3> QED  BY <2>1, <3>1, ObjectOf
  <2>3. CASE q = p /\ j = i
    BY <1>6, <2>3
  <2>4. CASE ~(q = p /\ j = i)
    <3>1. g[q + b].items[j] = heap[q + b].items[j]
      BY <1>2, <2>1, <2>4 DEF Alike
    <3>2. Original(heap, b, q, j) => Original(g, b, q, j)
      BY <2>1, <3>1 DEF Original
    <3>3. Passed(stack, b, q, j) => Passed(Advanced, b, q, j)
      BY <2>2, AdvancedPassed
    <3> QED  BY <3>2, <3>3 DEF Once
  <2> QED  BY <2>3, <2>4
<1>8. \A q \in Boxes(g, b) : \A j \in DOMAIN g[q].items :
        /\ Original(g, b, q, j) \/ (q \in E /\ Passed(Advanced, b, q, j))
        /\ g[q].items[j] \in E => q \in E /\ Passed(Advanced, b, q, j)
  <2>1. \A q \in Boxes(heap, b) : g[q] = heap[q]
    BY <1>2
  <2> QED  BY <1>2, <1>7, <2>1
<1> QED  BY <1>5, <1>8 DEF Once

(* A container that the walk comes to. *)
LEMMA PushedPassed ==
  ASSUME NEW stk \in Seq(Frames), NEW c \in Nat, NEW b \in Nat, NEW q \in Nat,
         NEW j \in Nat \ {0}
  PROVE  Passed(<<Frame(c + b, c + b)>> \o stk, b, q, j) <=>
           q # c /\ Passed(stk, b, q, j)
<1> DEFINE f == Frame(c + b, c + b)
           t == <<f>> \o stk
<1>1. f \in Frames /\ f.at = c + b /\ f.i = 0
  BY NewFrame
<1> HIDE DEF f
<1>2. /\ 1 \in DOMAIN t /\ t[1] = f
      /\ \A k \in DOMAIN t : k # 1 => k - 1 \in DOMAIN stk /\ t[k] = stk[k - 1]
      /\ \A k \in DOMAIN stk : k + 1 \in DOMAIN t /\ t[k + 1] = stk[k]
  BY <1>1, OnTop
<1> HIDE DEF t
<1>3. ~(j <= f.i)
  BY <1>1
<1>4. q + b = c + b <=> q = c
  OBVIOUS
<1>5. ASSUME Passed(t, b, q, j)
      PROVE  q # c /\ Passed(stk, b, q, j)
  BY <1>1, <1>2, <1>3, <1>4, <1>5 DEF Passed
<1>6. ASSUME q # c, Passed(stk, b, q, j)
      PROVE  Passed(t, b, q, j)
  BY <1>1, <1>2, <1>4, <1>6 DEF Passed
<1> QED  BY <1>5, <1>6 DEF t, f

(* decode() goes into a container that it comes to. *)
LEMMA WalkDescends ==
  ASSUME Basics, NEW b, NEW s, Made(b, s), Copies(heap, b),
         More("decode"), NEW E, Walk(heap, stack, b, E),
         NEW p \in E, Visits(b, E, p),
         NEW c \in Boxes(heap, b), c = heap[p].items[Head(stack).i + 1],
         NextItem = c + b
  PROVE  Walk(heap, <<Frame(NextItem, NextItem)>> \o Advanced, b, E \cup {c})
<1> DEFINE i == Head(stack).i + 1
           F == E \cup {c}
           t == <<Frame(c + b, c + b)>> \o Advanced
<1>1. /\ p \in Boxes(heap, b) /\ p \in 1 .. b /\ Head(stack).at = p + b
      /\ Linked(heap) /\ i \in DOMAIN heap[p].items /\ b \in Nat /\ c \in 1 .. b
      /\ NextItem = heap[p + b].items[i]
  BY MadeDomains DEF Visits, Made
<1>2. /\ Advanced \in Seq(Frames) /\ DOMAIN Advanced = DOMAIN stack
      /\ Advanced[1].at = stack[1].at
      /\ \A j \in DOMAIN stack : j # 1 => Advanced[j] = stack[j]
  BY AdvancedFrames
<1>3. E \subseteq Boxes(heap, b) /\ sent \in E /\ Boxes(heap, b) \subseteq 1 .. b
  BY MadeDomains DEF Walk
<1>4. \A j \in DOMAIN t : \E q \in F : t[j].at = q + b
  <2>1. Frame(c + b, c + b) \in Frames /\ Frame(c + b, c + b).at = c + b
    BY <1>1, NewFrame
  <2>2. \A j \in DOMAIN t : j # 1 => j - 1 \in DOMAIN Advanced /\ t[j] = Advanced[j - 1]
    BY <1>2, <2>1, OnTop
  <2>3. t[1] = Frame(c + b, c + b)
    BY <1>2, <2>1, OnTop
  <2>4. \A j \in DOMAIN Advanced : \E q \in E : Advanced[j].at = q + b
    BY <1>2 DEF Walk
  <2> HIDE DEF t
  <2> QED  BY <2>1, <2>2, <2>3, <2>4
<1>5. Alike(heap, b, p, i) /\ CopyOf(heap, b, p)
  BY <1>1 DEF Alike, Copies
<1>6. Settled(heap, b, F, heap[p].items[i], heap[p + b].items[i])
  <2>1. DecodesAs(heap[c]) = {} /\ heap[c].kind # "tag"
    <3>1. heap[c].kind # "tag"
      BY DEF Boxes
    <3> QED  BY <3>1 DEF DecodesAs
  <2>2. c \in F /\ heap[p + b].items[i] = c + b
    BY <1>1
  <2> QED  BY <2>1, <2>2 DEF Settled
<1>7. ASSUME NEW q \in F, NEW j \in DOMAIN heap[q].items, Passed(t, b, q, j)
      PROVE  Settled(heap, b, F, heap[q].items[j], heap[q + b].items[j])
  <2>1. q \in Boxes(heap, b) /\ q \in 1 .. b /\ q \in DOMAIN heap
    BY <1>3, MadeDomains
  <2>2. j \in Nat \ {0}
    <3>1. heap \in Seq(Obj)
      BY <1>1 DEF Linked
    <3> QED  BY <2>1, <3>1, ObjectOf
  <2>3. q # c /\ Passed(Advanced, b, q, j)
    BY <1>1, <1>2, <1>7, <2>1, <2>2, PushedPassed
  <2>4. CASE q = p /\ j = i
    BY <1>6, <2>4
  <2>5. CASE ~(q = p /\ j = i)
    <3>1. ~(Head(stack).at = q + b /\ j = i)
      BY <1>1, <2>1, <2>5
    <3>2. Passed(stack, b, q, j)
      BY <2>2, <2>3, <3>1, AdvancedPassed
    <3>3. Settled(heap, b, E, heap[q].items[j], heap[q + b].items[j])
      BY <2>3, <3>2 DEF Walk
    <3> QED  BY <3>3 DEF Settled
  <2> QED  BY <2>4, <2>5
<1> HIDE DEF t
<1>8. Walk(heap, t, b, F)
  BY <1>3, <1>4, <1>7 DEF Walk
<1> QED  BY <1>8 DEF t

(* The first attempt has not come to it before. *)
LEMMA OnceDescends ==
  ASSUME Basics, NEW b, NEW s, Made(b, s), Copies(heap, b), Unshared(heap, b),
         More("decode"), NEW E, Walk(heap, stack, b, E), Once(heap, stack, b, E),
         NEW p \in E, Visits(b, E, p),
         NEW c \in Boxes(heap, b), c = heap[p].items[Head(stack).i + 1],
         NextItem = c + b
  PROVE  Once(heap, <<Frame(NextItem, NextItem)>> \o Advanced, b, E \cup {c})
<1> DEFINE i == Head(stack).i + 1
           F == E \cup {c}
           t == <<Frame(c + b, c + b)>> \o Advanced
<1>1. /\ p \in Boxes(heap, b) /\ p \in 1 .. b /\ Head(stack).at = p + b
      /\ Linked(heap) /\ i \in DOMAIN heap[p].items /\ b \in Nat /\ c \in 1 .. b
      /\ i \in Nat \ {0}
  <2>1. /\ p \in Boxes(heap, b) /\ p \in 1 .. b /\ Head(stack).at = p + b
        /\ Linked(heap) /\ i \in DOMAIN heap[p].items /\ b \in Nat /\ c \in 1 .. b
    BY MadeDomains DEF Visits, Made
  <2>2. heap \in Seq(Obj) /\ p \in DOMAIN heap
    BY <2>1, MadeDomains
  <2> HIDE DEF i
  <2>3. DOMAIN heap[p].items = 1 .. Len(heap[p].items)
    BY <2>2, ObjectOf
  <2>4. i \in Nat \ {0}
    BY <2>1, <2>3
  <2> QED  BY <2>1, <2>4
<1>2. /\ Advanced \in Seq(Frames) /\ DOMAIN Advanced = DOMAIN stack
      /\ Advanced[1].at = stack[1].at
      /\ \A j \in DOMAIN stack : j # 1 => Advanced[j] = stack[j]
  BY AdvancedFrames
<1>3. E \subseteq Boxes(heap, b) /\ Boxes(heap, b) \subseteq 1 .. b
  BY MadeDomains DEF Walk
<1>4. c \notin E
  <2>1. ~Passed(stack, b, p, i)
    <3>1. 1 \in DOMAIN stack /\ Head(stack) = stack[1] /\ stack[1].i \in Nat
      BY NextItemThere DEF Frames
    <3>2. ~(i <= stack[1].i)
      BY <3>1
    <3> HIDE DEF i
    <3> QED  BY <1>1, <3>1, <3>2 DEF Passed
  <2> QED  BY <1>1, <2>1 DEF Once
<1>5. Once(heap, Advanced, b, E)
  <2>1. Alike(heap, b, p, i)
    BY DEF Alike
  <2> QED  BY <2>1, OnceAdvances
<1>6. Passed(Advanced, b, p, i)
  <2>1. /\ 1 \in DOMAIN stack /\ Head(stack) = stack[1] /\ stack[1].i \in Nat
        /\ Advanced[1].i = stack[1].i + 1
    BY NextItemThere, AdvancedFrames DEF Frames
  <2>2. \A j \in DOMAIN stack : stack[j].at = p + b => j = 1
    BY <1>1, <2>1 DEF Once
  <2>3. \A j \in DOMAIN stack : Advanced[j].at = stack[j].at
    BY <1>2
  <2>4. i <= Advanced[1].i
    BY <2>1
  <2> QED  BY <1>2, <2>2, <2>3, <2>4 DEF Passed
<1>7. ASSUME NEW q \in Boxes(heap, b), NEW j \in DOMAIN heap[q].items
      PROVE  /\ Original(heap, b, q, j) \/ (q \in F /\ Passed(t, b, q, j))
             /\ heap[q].items[j] \in F => q \in F /\ Passed(t, b, q, j)
  <2>1. q \in 1 .. b /\ q \in DOMAIN heap
    BY <1>3, MadeDomains
  <2>2. j \in Nat \ {0}
    <3>1. heap \in Seq(Obj)
      BY <1>1 DEF Linked
    <3> QED  BY <2>1, <3>1, ObjectOf
  <2>3. q \in E /\ Passed(Advanced, b, q, j) => q \in F /\ Passed(t, b, q, j)
    BY <1>1, <1>2, <1>4, <2>1, <2>2, PushedPassed
  <2>4. Original(heap, b, q, j) \/ (q \in F /\ Passed(t, b, q, j))
    BY <1>5, <2>3 DEF Once
  <2>5. CASE heap[q].items[j] = c
    <3>1. q \in own + 1 .. b /\ p \in own + 1 .. b /\ c > own
      <4>1. \A n \in Boxes(heap, b) : n \in own + 1 .. b
        BY DEF Boxes
      <4>2. \A n \in own + 1 .. b : n > own
        BY MadeDomains
      <4> QED  BY <1>1, <4>1, <4>2
    <3>2. q = p /\ j = i
      BY <1>1, <2>5, <3>1 DEF Unshared
    <3>3. p \in F /\ Passed(t, b, p, i)
      BY <1>6, <2>3, <3>2
    <3> QED  BY <2>4, <3>2, <3>3
  <2>6. CASE heap[q].items[j] # c
    BY <1>5, <2>3, <2>4, <2>6 DEF Once
  <2> QED  BY <2>5, <2>6
<1>8. \A j, k \in DOMAIN t : t[j].at = t[k].at => j = k
  <2>1. Frame(c + b, c + b) \in Frames /\ Frame(c + b, c + b).at = c + b
    BY <1>1, NewFrame
  <2>2. /\ t[1] = Frame(c + b, c + b) /\ t \in Seq(Frames)
        /\ \A j \in DOMAIN t : j # 1 => j - 1 \in DOMAIN Advanced /\ t[j] = Advanced[j - 1]
    BY <1>2, <2>1, OnTop
  <2> HIDE DEF t
  <2>3. \A j \in DOMAIN Advanced : Advanced[j].at # c + b
    <3>1. \A j \in DOMAIN Advanced : \E q \in E : Advanced[j].at = q + b
      BY <1>2 DEF Walk
    <3>2. \A q \in E : q + b # c + b
      BY <1>1, <1>3, <1>4
    <3> QED  BY <3>1, <3>2
  <2>4. ASSUME NEW j \in DOMAIN t, NEW k \in DOMAIN t, t[j].at = t[k].at
        PROVE  j = k
    <3>1. j \in Nat /\ k \in Nat
      BY <2>2
    <3>2. CASE j = 1 \/ k = 1
      BY <2>1, <2>2, <2>3, <2>4, <3>2
    <3>3. CASE j # 1 /\ k # 1
      <4>1. j - 1 = k - 1
        BY <1>5, <2>2, <2>4, <3>3 DEF Once
      <4> QED  BY <3>1, <4>1
    <3> QED  BY <3>2, <3>3
  <2> QED  BY <2>4
<1> HIDE DEF t
<1>9. Once(heap, t, b, F)
  BY <1>7, <1>8 DEF Once
<1> QED  BY <1>9 DEF t

(* A container that the walk is through with. *)
LEMMA WalkReturns ==
  ASSUME Basics, NEW b, NEW s, Made(b, s), Copies(heap, b),
         NEW E, Walk(heap, stack, b, E), stack # << >>, Done(Head(stack))
  PROVE  /\ Walk(heap, Tail(stack), b, E)
         /\ Once(heap, stack, b, E) => Once(heap, Tail(stack), b, E)
<1>1. /\ \A j \in DOMAIN Tail(stack) :
           j + 1 \in DOMAIN stack /\ Tail(stack)[j] = stack[j + 1]
      /\ \A j \in DOMAIN stack :
           j # 1 => j - 1 \in DOMAIN Tail(stack) /\ stack[j] = Tail(stack)[j - 1]
      /\ 1 \in DOMAIN stack /\ Head(stack) = stack[1]
      /\ Tail(stack) \in Seq(Frames)
  BY Popped
<1>2. E \subseteq Boxes(heap, b) /\ Boxes(heap, b) \subseteq 1 .. b /\ heap \in Seq(Obj)
  BY MadeDomains DEF Walk
<1>3. ASSUME NEW q \in Boxes(heap, b), NEW i \in DOMAIN heap[q].items
      PROVE  Passed(Tail(stack), b, q, i) <=> Passed(stack, b, q, i)
  <2>1. q \in DOMAIN heap /\ q + b \in DOMAIN heap /\ CopyOf(heap, b, q)
    BY <1>2, MadeDomains DEF Copies
  <2>2. i <= Len(heap[q + b].items)
    <3>1. i \in 1 .. Len(heap[q].items) /\ Len(heap[q].items) \in Nat
      BY <1>2, <2>1, ObjectOf
    <3>2. Len(heap[q + b].items) = Len(heap[q].items)
      BY <2>1 DEF CopyOf
    <3> QED  BY <3>1, <3>2
  <2>3. stack[1].at = q + b => i <= stack[1].i
    BY <1>1, <2>2 DEF Done
  <2> QED  BY <1>1, <2>3 DEF Passed
<1>4. \A j \in DOMAIN Tail(stack) : \E q \in E : Tail(stack)[j].at = q + b
  BY <1>1 DEF Walk
<1>5. Walk(heap, Tail(stack), b, E)
  <2>1. sent \in E
    BY DEF Walk
  <2>2. \A q \in E : \A i \in DOMAIN heap[q].items :
          Passed(Tail(stack), b, q, i) =>
            Settled(heap, b, E, heap[q].items[i], heap[q + b].items[i])
    BY <1>2, <1>3 DEF Walk
  <2> QED  BY <1>2, <1>4, <2>1, <2>2 DEF Walk
<1>6. ASSUME Once(heap, stack, b, E)
      PROVE  Once(heap, Tail(stack), b, E)
  <2>1. \A j, k \in DOMAIN Tail(stack) : Tail(stack)[j].at = Tail(stack)[k].at => j = k
    <3> SUFFICES ASSUME NEW j \in DOMAIN Tail(stack), NEW k \in DOMAIN Tail(stack),
                        Tail(stack)[j].at = Tail(stack)[k].at
                 PROVE  j = k
      OBVIOUS
    <3>1. j + 1 = k + 1 /\ j \in Nat /\ k \in Nat
      BY <1>1, <1>6 DEF Once
    <3> QED  BY <3>1
  <2> QED  BY <1>3, <1>6, <2>1 DEF Once
<1> QED  BY <1>5, <1>6

-----------------------------------------------------------------------------
(* decode() takes off a Tag *)

(* What a known Tag is replaced by is what the Tag that it was copied from *)
(* stands for.                                                             *)
LEMMA TagSettles ==
  ASSUME NEW b, NEW s, Made(b, s), Copies(heap, b), NEW E, NEW p \in E,
         Visits(b, E, p), NEW g,
         TagTaken(heap, g, Head(stack).at, Head(stack).i + 1, NextItem)
  PROVE  /\ Alike(g, b, p, Head(stack).i + 1)
         /\ Replaces(g, b, heap[p].items[Head(stack).i + 1],
                           g[p + b].items[Head(stack).i + 1])
<1> DEFINE i == Head(stack).i + 1
           o == heap[p].items[i]
           l == g[p + b].items[i]
<1>1. /\ p \in Boxes(heap, b) /\ Head(stack).at = p + b /\ i \in DOMAIN heap[p].items
      /\ o \in 1 .. b
      /\ NextItem = o + b \/ heap[NextItem].kind = "instance"
  BY DEF Visits
<1>2. /\ Linked(heap) /\ heap \in Seq(Obj) /\ p \in 1 .. b /\ p + b \in DOMAIN heap
      /\ o \in DOMAIN heap /\ o + b \in DOMAIN heap
      /\ b \in Nat /\ Len(heap) \in Nat
  BY <1>1, MadeDomains DEF Made, Linked
<1>3. TagTaken(heap, g, p + b, i, NextItem)
  BY <1>1
<1> HIDE DEF i, o
<1>4. DOMAIN heap[p + b].items = DOMAIN heap[p].items
  BY <1>2, CopyItems DEF Copies
<1>5. Alike(g, b, p, i)
  <2> DEFINE n == p + b
  <2>1. n \in DOMAIN heap /\ TagTaken(heap, g, n, i, NextItem)
    BY <1>2, <1>3
  <2> HIDE DEF n
  <2>2. ElseSame(heap, g, n, i)
    BY <1>2, <2>1, TakenRest, Zenon
  <2> QED  BY <1>4, <2>2 DEF Alike, ElseSame, n
<1>6. PICK ct \in DecodesAs(heap[NextItem]), e \in Seq(Obj) :
        IF ct.decode_function = "loads"
        THEN /\ heap[heap[NextItem].items[1]].kind = "bytes"
             /\ SetIn(heap, g, p + b, i, heap[heap[NextItem].items[1]].items[1])
        ELSE /\ SetIn(heap, e, p + b, i, Len(heap) + 1)
             /\ g = Append(e, Object("instance", ct.class_type, heap[NextItem].items))
             /\ Object("instance", ct.class_type, heap[NextItem].items) \in Obj
  BY <1>3 DEF TagTaken
<1>7. heap[NextItem].kind = "tag" /\ NextItem = o + b
  <2>1. heap[NextItem].kind = "tag"
    BY <1>6, OneTag
  <2> QED  BY <1>1, <2>1
<1>8. CopyOf(heap, b, o)
  BY <1>1 DEF Copies
<1>9. heap[o].kind = "tag" /\ heap[o].type = heap[o + b].type
  BY <1>7, <1>8 DEF CopyOf
<1>10. ct \in DecodesAs(heap[o])
  BY <1>6, <1>7, <1>9 DEF DecodesAs
<1> DEFINE m == heap[o].items[1]
<1>11. /\ o \notin Boxes(heap, b) /\ 1 \in DOMAIN heap[o].items
       /\ Len(heap[o + b].items) = 1
  <2>1. o \notin Boxes(heap, b)
    BY <1>9 DEF Boxes
  <2>2. Len(heap[o + b].items) = 1
    BY <1>2, <1>7 DEF Linked, Holders
  <2> QED  BY <1>2, <1>9, <2>1, <2>2, TagItem DEF Holders
<1>12. m \in 1 .. own /\ heap[o + b].items[1] = m + b
  <2>1. m \in 1 .. own
    BY <1>1, <1>11, OwnItems
  <2> QED  BY <1>8, <1>11, <2>1 DEF CopyOf
<1>13. m \in 1 .. b /\ m \notin Boxes(heap, b) /\ m \in DOMAIN heap /\ CopyOf(heap, b, m)
  BY <1>12, MadeDomains DEF Copies
<1> HIDE DEF m
<1>14. g[o] = heap[o] /\ g[m] = heap[m]
  BY <1>1, <1>5, <1>13, AlikeBelow
<1>15. CASE ct.decode_function = "loads"
  <2>1. heap[m + b].kind = "bytes" /\ SetIn(heap, g, p + b, i, heap[m + b].items[1])
    BY <1>6, <1>7, <1>12, <1>15
  <2>2. heap[m].kind = "bytes"
    BY <1>13, <2>1 DEF CopyOf
  <2>3. 1 \in DOMAIN heap[m].items
    BY <1>2, <1>13, <2>2, TagItem DEF Holders
  <2>4. heap[m + b].items[1] = heap[m].items[1] + b
    BY <1>13, <2>3 DEF CopyOf
  <2>5. l = heap[m].items[1] + b
    BY <2>1, <2>4 DEF SetIn
  <2>6. Replaces(g, b, o, l)
    BY <1>10, <1>14, <1>15, <2>2, <2>5 DEF Replaces, m
  <2> QED  BY <1>5, <2>6 DEF o, i
<1>16. CASE ct.decode_function # "loads"
  <2> DEFINE x == Object("instance", ct.class_type, heap[o + b].items)
  <2>1. SetIn(heap, e, p + b, i, Len(heap) + 1) /\ g = Append(e, x) /\ x \in Obj
    BY <1>6, <1>7, <1>16
  <2>2. heap[o + b].items = <<m + b>>
    <3>1. heap[o + b].items \in Seq(Nat)
      BY <1>2, ObjectOf
    <3> QED  BY <1>11, <1>12, <3>1
  <2>3. x = Object("instance", ct.class_type, <<m + b>>)
    BY <2>2
  <2> HIDE DEF x
  <2>4. Len(e) = Len(heap) /\ e[p + b].items[i] = Len(heap) + 1 /\ p + b \in DOMAIN e
    BY <1>2, <2>1 DEF SetIn
  <2>5. g[p + b] = e[p + b] /\ g[Len(heap) + 1] = x
    BY <2>1, <2>4, AppendProperties
  <2>6. l = Len(heap) + 1
    BY <2>4, <2>5
  <2>7. Replaces(g, b, o, l)
    BY <1>10, <1>14, <1>16, <2>3, <2>5, <2>6 DEF Replaces, m
  <2> QED  BY <1>5, <2>7 DEF o, i
<1> QED  BY <1>15, <1>16

-----------------------------------------------------------------------------

(* decode() leaves alone what encode() has made. *)
LEMMA EncodedStays ==
  ASSUME NEW b \in Nat, NEW s, own' = own, sent' = sent, Linked(heap), CallerInv,
         Encoded(heap, b, s), b <= Len(heap), \A n \in 1 .. b : heap'[n] = heap[n]
  PROVE  Encoded(heap, b, s)' /\ CallerInv'
<1>1. /\ own \in Nat \ {0} /\ s \in [1 .. b -> 1 .. own] /\ heap \in Seq(Obj)
      /\ own <= b /\ Len(heap) \in Nat /\ DOMAIN heap = 1 .. Len(heap)
  <2>1. own \in Nat \ {0} /\ sent = own + 1 /\ sent <= b /\ s \in [1 .. b -> 1 .. own]
    BY DEF Encoded, Sources
  <2>2. own <= b
    BY <2>1
  <2> QED  BY <2>1, <2>2 DEF Linked
<1>2. /\ \A n \in 1 .. own : n \in 1 .. b
      /\ \A n \in 1 .. b : n \in DOMAIN heap
      /\ \A n \in own + 1 .. b : n \in 1 .. b /\ s[n] \in 1 .. own
  BY <1>1
<1>3. CallerInv'
  <2>1. 1 \in 1 .. own
    BY <1>1
  <2> QED  BY <1>2, <2>1 DEF CallerInv
<1>4. Sources(b, s)'
  BY DEF Encoded, Sources
<1>5. ASSUME NEW n \in own + 1 .. b
      PROVE  /\ EncodedInstance(heap, n, s[n])' \/ EncodedBox(heap, s, n, s[n])'
             /\ \A i \in DOMAIN heap'[n].items :
                  heap'[n].items[i] <= b /\ heap'[n].items[i] # sent'
  <2>1. heap'[n] = heap[n] /\ heap'[s[n]] = heap[s[n]]
    BY <1>2
  <2>2. EncodedInstance(heap, n, s[n]) => EncodedInstance(heap, n, s[n])'
    BY <2>1 DEF EncodedInstance
  <2>3. EncodedBox(heap, s, n, s[n]) => EncodedBox(heap, s, n, s[n])'
    <3> SUFFICES ASSUME EncodedBox(heap, s, n, s[n])
                 PROVE  EncodedBox(heap, s, n, s[n])'
      OBVIOUS
    <3>1. ASSUME NEW i \in DOMAIN heap[n].items
          PROVE  EncodesTo(heap, s, heap[n].items[i], heap[s[n]].items[i])'
      <4> DEFINE k == heap[s[n]].items[i]
                 o == heap[n].items[i]
      <4>1. EncodesTo(heap, s, o, k)
        BY DEF EncodedBox
      <4>2. i \in DOMAIN heap[s[n]].items
        <5>1. Len(heap[n].items) <= Len(heap[s[n]].items)
          BY DEF EncodedBox
        <5>2. /\ DOMAIN heap[n].items = 1 .. Len(heap[n].items)
              /\ DOMAIN heap[s[n]].items = 1 .. Len(heap[s[n]].items)
              /\ Len(heap[n].items) \in Nat /\ Len(heap[s[n]].items) \in Nat
          BY <1>1, <1>2, ObjectOf
        <5> QED  BY <5>1, <5>2
      <4>3. k \in 1 .. Len(heap) /\ k <= own
        BY <1>1, <1>2, <4>2 DEF Linked, CallerInv
      <4> HIDE DEF k, o
      <4>4. k \in 1 .. own
        BY <1>1, <4>3
      <4>5. heap'[k] = heap[k]
        BY <1>2, <4>4
      <4>6. \/ /\ o = k /\ EncodesAs(heap[k]) = {}
               /\ heap[k].kind \notin {"list", "tuple", "dict"}
            \/ o > own' /\ s[o] = k
        BY <4>1 DEF EncodesTo
      <4>7. heap'[n].items[i] = o /\ heap'[s[n]].items[i] = k
        BY <2>1 DEF o, k
      <4> QED  BY <4>5, <4>6, <4>7 DEF EncodesTo
    <3> QED  BY <2>1, <3>1 DEF EncodedBox
  <2>4. EncodedInstance(heap, n, s[n]) \/ EncodedBox(heap, s, n, s[n])
    BY DEF Encoded
  <2>5. \A i \in DOMAIN heap[n].items : heap[n].items[i] <= b /\ heap[n].items[i] # sent
    BY DEF Encoded
  <2> QED  BY <2>1, <2>2, <2>3, <2>4, <2>5
<1> QED  BY <1>3, <1>4, <1>5 DEF Encoded

(* And it nests nothing in itself. *)
LEMMA LoadedKept ==
  ASSUME NEW b, NEW s, Loaded(b, s), own' = own, sent' = sent,
         Linked(heap'), Len(heap) <= Len(heap'),
         \A n \in 1 .. b : heap'[n] = heap[n],
         \E r : Ranks(heap', r)
  PROVE  /\ Loaded(b, s)'
         /\ \A S : NoBytes(heap, b, S)' <=> NoBytes(heap, b, S)
<1>0. Made(b, s) /\ Encoded(heap, b, s) /\ b + b <= Len(heap) /\ Linked(heap)
  BY DEF Loaded, Made
<1>1. /\ b \in Nat /\ own \in Nat /\ b + b <= Len(heap) /\ s \in [1 .. b -> 1 .. own]
      /\ Len(heap) \in Nat /\ Len(heap') \in Nat
      /\ \A n \in 1 .. own : n \in 1 .. b
      /\ Made(b, s) /\ Encoded(heap, b, s)
  <2>1. b \in Nat /\ own \in Nat /\ \A n \in 1 .. own : n \in 1 .. b
    BY <1>0, MadeDomains
  <2>2. s \in [1 .. b -> 1 .. own]
    BY <1>0 DEF Encoded, Sources
  <2>3. Len(heap) \in Nat /\ Len(heap') \in Nat
    BY <1>0 DEF Linked
  <2> QED  BY <1>0, <2>1, <2>2, <2>3
<1>2. \A n \in own + 1 .. b : n \in 1 .. b /\ s[n] \in 1 .. b /\ s[n] \in 1 .. own
  BY <1>1
<1>3. CallerInv' /\ Encoded(heap, b, s)'
  <2>1. b <= Len(heap)
    BY <1>1
  <2> QED  BY <1>0, <1>1, <2>1, EncodedStays DEF Made
<1>4. Made(b, s)'
  <2>1. b + b <= Len(heap')
    BY <1>1
  <2> QED  BY <1>3, <2>1 DEF Made
<1>5. Unshared(heap, b)'
  BY <1>2 DEF Loaded, Unshared
<1>6. Whole(heap, b, s)'
  BY <1>2 DEF Loaded, Whole
<1>7. ASSUME NEW S
      PROVE  NoBytes(heap, b, S)' <=> NoBytes(heap, b, S)
  BY DEF NoBytes
<1> QED  BY <1>4, <1>5, <1>6, <1>7 DEF Loaded

-----------------------------------------------------------------------------
(* The steps of decode() *)

(* What decode() has done so far. *)
Progress(b) ==
  Certain(b) =>
    /\ Copies(heap, b)
    /\ phase = "loaded" /\ raises = 0 =>
         \A p \in Boxes(heap, b) : \A i \in DOMAIN heap[p].items : Original(heap, b, p, i)
    /\ phase \in {"decode", "decoded"} => \E E : Walking(b, E)

(* The invariant of decode(), in every attempt. *)
DecodeInv ==
  phase \in {"loaded", "decode", "decoded"} =>
    \E b \in Nat : \E s : got = sent + b /\ Loaded(b, s) /\ Progress(b)

-----------------------------------------------------------------------------

(* Steps that leave the heap alone. *)
LEMMA Steady ==
  ASSUME NEW b, NEW s, Loaded(b, s), own' = own, sent' = sent, heap' = heap,
         raise_on_unknown_tag' = raise_on_unknown_tag
  PROVE  /\ Loaded(b, s)'
         /\ \A S : NoBytes(heap, b, S)' <=> NoBytes(heap, b, S)
         /\ Copies(heap, b)' <=> Copies(heap, b)
         /\ \A E : Walk(heap, stack', b, E) => Walk(heap, stack, b, E)'
         /\ \A E : Once(heap, stack', b, E) => Once(heap, stack, b, E)'
<1>1. Linked(heap') /\ Len(heap) <= Len(heap') /\ \E r : Ranks(heap', r)
  <2>1. Linked(heap) /\ Len(heap) \in Nat /\ \E r : Ranks(heap, r)
    BY DEF Loaded, Made, Linked
  <2> QED  BY <2>1
<1>2. Loaded(b, s)' /\ \A S : NoBytes(heap, b, S)' <=> NoBytes(heap, b, S)
  BY <1>1, LoadedKept
<1>3. Copies(heap, b)' <=> Copies(heap, b)
  BY DEF Copies, CopyOf, Boxes, Original, Replaces
<1>4. ASSUME NEW E, Walk(heap, stack', b, E)
      PROVE  Walk(heap, stack, b, E)'
  BY <1>4 DEF Walk, Boxes, Settled, Replaces, Passed
<1>5. ASSUME NEW E, Once(heap, stack', b, E)
      PROVE  Once(heap, stack, b, E)'
  BY <1>5 DEF Once, Boxes, Original, Passed
<1> QED  BY <1>2, <1>3, <1>4, <1>5

(* encode() has made a list for the variable with the object. *)
LEMMA ListBox ==
  ASSUME NEW b, NEW s, Made(b, s)
  PROVE  sent \in Boxes(heap, b)
<1>1. sent \in own + 1 .. b /\ s[sent] = 1
  BY DEF Made, Encoded, Sources
<1>2. heap[1].kind = "list"
  BY DEF Made, CallerInv
<1>3. ~EncodedInstance(heap, sent, 1)
  BY <1>2, FoundTag DEF EncodedInstance
<1>4. EncodedBox(heap, s, sent, 1)
  BY <1>1, <1>3 DEF Made, Encoded
<1> QED  BY <1>1, <1>4 DEF EncodedBox, Boxes

LEMMA StartDecodeStep ==
  ASSUME MapInv, NEW b \in Nat, NEW s, got = sent + b, Loaded(b, s), Progress(b),
         StartDecode
  PROVE  Loaded(b, s)' /\ Progress(b)'
<1>1. /\ phase = "loaded" /\ phase' = "decode" /\ stack' = <<Frame(got, got)>>
      /\ own' = own /\ sent' = sent /\ heap' = heap /\ raises' = raises
      /\ raise_on_unknown_tag' = raise_on_unknown_tag
  BY DEF StartDecode
<1>2. /\ Loaded(b, s)'
      /\ \A S : NoBytes(heap, b, S)' <=> NoBytes(heap, b, S)
      /\ Copies(heap, b)' <=> Copies(heap, b)
      /\ \A E : Walk(heap, stack', b, E) => Walk(heap, stack, b, E)'
      /\ \A E : Once(heap, stack', b, E) => Once(heap, stack, b, E)'
  BY <1>1, Steady
<1>3. Made(b, s) /\ sent \in Boxes(heap, b) /\ heap \in Seq(Obj)
  BY ListBox, MadeDomains DEF Loaded
<1>4. ASSUME Certain(b)'
      PROVE  Certain(b)
  BY <1>1, <1>2, <1>4 DEF Certain
<1>5. ASSUME Certain(b)
      PROVE  Copies(heap, b)' /\ \E E : Walking(b, E)'
  <2> DEFINE E == {sent}
  <2>1. Copies(heap, b)'
    BY <1>2, <1>5 DEF Progress
  <2>2. sent \in Nat /\ got \in Nat /\ Frame(got, got).at = sent + b /\ Frame(got, got).i = 0
    BY <1>3, NewFrame DEF MapInv, Basics
  <2>3. /\ DOMAIN stack' = {1} /\ stack'[1].at = sent + b /\ stack'[1].i = 0
    BY <1>1, <2>2
  <2>4. \A i \in Nat \ {0} : ~Passed(stack', b, sent, i)
    BY <2>3 DEF Passed
  <2>5. \A i \in DOMAIN heap[sent].items : i \in Nat \ {0}
    <3>1. sent \in DOMAIN heap
      BY <1>3, MadeDomains
    <3> QED  BY <1>3, <3>1, ObjectOf
  <2>6. Walk(heap, stack', b, E)
    BY <1>3, <2>3, <2>4, <2>5 DEF Walk
  <2>7. ASSUME raises = 0
        PROVE  Once(heap, stack', b, E)
    <3>1. \A p \in Boxes(heap, b) : \A i \in DOMAIN heap[p].items :
            Original(heap, b, p, i) /\ heap[p].items[i] # sent
      BY <1>1, <1>3, <1>5, <2>7, BoxItems DEF Progress
    <3> QED  BY <2>3, <3>1 DEF Once
  <2>8. \A S : NoBytes(heap, b, S) => E \subseteq S
    BY DEF NoBytes
  <2> HIDE DEF E
  <2>9. raises = 0 => Once(heap, stack', b, E)
    BY <2>7
  <2>10. PICK G : /\ Walk(heap, stack', b, G)
                  /\ raises = 0 => Once(heap, stack', b, G)
                  /\ \A S : NoBytes(heap, b, S) => G \subseteq S
    BY <2>6, <2>9, <2>8
  <2>11. Walking(b, G)'
    BY <1>1, <1>2, <2>10 DEF Walking
  <2> QED  BY <2>1, <2>11
<1>6. Progress(b)'
  BY <1>1, <1>4, <1>5 DEF Progress
<1> QED  BY <1>2, <1>6

LEMMA DecodeRaisesStep ==
  ASSUME MapInv, NEW b \in Nat, NEW s, got = sent + b, Loaded(b, s), Progress(b),
         DecodeRaises
  PROVE  Loaded(b, s)' /\ Progress(b)'
<1>1. /\ phase' = "loaded" /\ raises' = raises + 1 /\ raises \in Nat
      /\ own' = own /\ sent' = sent /\ heap' = heap
      /\ raise_on_unknown_tag' = raise_on_unknown_tag
  BY DEF DecodeRaises, Raise, MapInv, Basics
<1>2. /\ Loaded(b, s)'
      /\ \A S : NoBytes(heap, b, S)' <=> NoBytes(heap, b, S)
      /\ Copies(heap, b)' <=> Copies(heap, b)
  BY <1>1, Steady
<1>3. raises' # 0
  BY <1>1
<1>4. Certain(b)' => Certain(b)
  BY <1>2, <1>3 DEF Certain
<1>5. Progress(b)'
  BY <1>1, <1>2, <1>3, <1>4 DEF Progress
<1> QED  BY <1>2, <1>5

LEMMA ReturnStep ==
  ASSUME MapInv, NEW b \in Nat, NEW s, got = sent + b, Loaded(b, s), Progress(b),
         Return, phase = "decode"
  PROVE  Loaded(b, s)' /\ Progress(b)'
<1>1. /\ phase' \in {"decode", "decoded"} /\ raises' = raises
      /\ own' = own /\ sent' = sent /\ heap' = heap
      /\ raise_on_unknown_tag' = raise_on_unknown_tag
      /\ stack # << >> /\ Done(Head(stack)) /\ stack' = Tail(stack)
  BY DEF Return
<1>2. /\ Loaded(b, s)'
      /\ \A S : NoBytes(heap, b, S)' <=> NoBytes(heap, b, S)
      /\ Copies(heap, b)' <=> Copies(heap, b)
      /\ \A E : Walk(heap, stack', b, E) => Walk(heap, stack, b, E)'
      /\ \A E : Once(heap, stack', b, E) => Once(heap, stack, b, E)'
  BY <1>1, Steady
<1>3. Certain(b)' => Certain(b)
  BY <1>1, <1>2 DEF Certain
<1>4. ASSUME Certain(b)
      PROVE  Copies(heap, b)' /\ \E E : Walking(b, E)'
  <2>1. PICK E : Walking(b, E)
    BY <1>4 DEF Progress
  <2>2. Copies(heap, b) /\ Basics /\ Made(b, s)
    BY <1>4 DEF Progress, MapInv, Loaded
  <2>3. Walk(heap, stack', b, E) /\ (raises = 0 => Once(heap, stack', b, E))
    BY <1>1, <2>1, <2>2, WalkReturns DEF Walking
  <2>4. \A S : NoBytes(heap, b, S) => E \subseteq S
    BY <2>1 DEF Walking
  <2>5. Walking(b, E)'
    BY <1>1, <1>2, <2>3, <2>4 DEF Walking
  <2> QED  BY <1>2, <2>2, <2>5
<1>5. Progress(b)'
  BY <1>1, <1>3, <1>4 DEF Progress
<1> QED  BY <1>2, <1>5

LEMMA DecodeContainerStep ==
  ASSUME MapInv, NEW b \in Nat, NEW s, got = sent + b, Loaded(b, s), Progress(b),
         DecodeContainer
  PROVE  Loaded(b, s)' /\ Progress(b)'
<1>1. /\ phase = "decode" /\ phase' = "decode" /\ raises' = raises
      /\ own' = own /\ sent' = sent /\ heap' = heap
      /\ raise_on_unknown_tag' = raise_on_unknown_tag
      /\ More("decode") /\ heap[NextItem].kind \in {"list", "dict"}
      /\ stack' = <<Frame(NextItem, NextItem)>> \o Advanced
  BY DEF DecodeContainer, More, Descends
<1>2. /\ Loaded(b, s)'
      /\ \A S : NoBytes(heap, b, S)' <=> NoBytes(heap, b, S)
      /\ Copies(heap, b)' <=> Copies(heap, b)
      /\ \A E : Walk(heap, stack', b, E) => Walk(heap, stack, b, E)'
      /\ \A E : Once(heap, stack', b, E) => Once(heap, stack, b, E)'
  BY <1>1, Steady
<1>3. Certain(b)' => Certain(b)
  BY <1>1, <1>2 DEF Certain
<1>4. ASSUME Certain(b)
      PROVE  Copies(heap, b)' /\ \E E : Walking(b, E)'
  <2>1. PICK E : Walking(b, E)
    BY <1>1, <1>4 DEF Progress
  <2>2. Copies(heap, b) /\ Basics /\ Made(b, s) /\ Unshared(heap, b)
    BY <1>4 DEF Progress, MapInv, Loaded
  <2>3. PICK p \in E : Visits(b, E, p)
    BY <1>1, <1>4, <2>1, <2>2, NextVisit
  <2> DEFINE i == Head(stack).i + 1
             c == heap[p].items[i]
             F == E \cup {c}
  <2>4. NextItem = c + b /\ c \in 1 .. b /\ p \in Boxes(heap, b) /\ i \in DOMAIN heap[p].items
    <3>1. heap[NextItem].kind # "instance"
      BY <1>1
    <3> QED  BY <2>3, <3>1 DEF Visits
  <2>5. c \in Boxes(heap, b)
    <3>1. CopyOf(heap, b, c)
      BY <2>2, <2>4 DEF Copies
    <3>2. heap[c].kind \in {"list", "tuple", "dict"}
      <4>1. heap[c + b].kind \in {"list", "dict"}
        BY <1>1, <2>4
      <4> HIDE DEF c
      <4> QED  BY <3>1, <4>1 DEF CopyOf
    <3> QED  BY <2>2, <2>4, <3>2, BoxInside
  <2>6. Walk(heap, stack', b, F)
    BY <1>1, <2>1, <2>2, <2>3, <2>4, <2>5, WalkDescends DEF Walking
  <2>7. raises = 0 => Once(heap, stack', b, F)
    BY <1>1, <2>1, <2>2, <2>3, <2>4, <2>5, OnceDescends DEF Walking
  <2>8. ASSUME NEW S, NoBytes(heap, b, S)
        PROVE  F \subseteq S
    <3>1. E \subseteq S
      BY <2>1, <2>8 DEF Walking
    <3>2. c \in S
      BY <2>4, <2>8, <3>1 DEF NoBytes
    <3> QED  BY <3>1, <3>2
  <2> HIDE DEF F
  <2>9. \A S : NoBytes(heap, b, S) => F \subseteq S
    BY <2>8
  <2>10. PICK G : /\ Walk(heap, stack', b, G)
                  /\ raises = 0 => Once(heap, stack', b, G)
                  /\ \A S : NoBytes(heap, b, S) => G \subseteq S
    BY <2>6, <2>7, <2>9
  <2>11. Walking(b, G)'
    BY <1>1, <1>2, <2>10 DEF Walking
  <2> QED  BY <1>2, <2>2, <2>11
<1>5. Progress(b)'
  BY <1>1, <1>3, <1>4 DEF Progress
<1> QED  BY <1>2, <1>5

LEMMA DecodeOtherStep ==
  ASSUME MapInv, NEW b \in Nat, NEW s, got = sent + b, Loaded(b, s), Progress(b),
         DecodeOther
  PROVE  Loaded(b, s)' /\ Progress(b)'
<1>1. /\ phase = "decode" /\ phase' = "decode" /\ raises' = raises
      /\ own' = own /\ sent' = sent /\ heap' = heap
      /\ raise_on_unknown_tag' = raise_on_unknown_tag
      /\ More("decode") /\ heap[NextItem].kind \notin {"list", "dict"}
      /\ heap[NextItem].kind = "tag" =>
           DecodesAs(heap[NextItem]) = {} /\ ~raise_on_unknown_tag
      /\ stack' = Advanced
  BY DEF DecodeOther, More, Descends, Unknown
<1>2. /\ Loaded(b, s)'
      /\ \A S : NoBytes(heap, b, S)' <=> NoBytes(heap, b, S)
      /\ Copies(heap, b)' <=> Copies(heap, b)
      /\ \A E : Walk(heap, stack', b, E) => Walk(heap, stack, b, E)'
      /\ \A E : Once(heap, stack', b, E) => Once(heap, stack, b, E)'
  BY <1>1, Steady
<1>3. Certain(b)' => Certain(b)
  BY <1>1, <1>2 DEF Certain
<1>4. ASSUME Certain(b)
      PROVE  Copies(heap, b)' /\ \E E : Walking(b, E)'
  <2>1. PICK E : Walking(b, E)
    BY <1>1, <1>4 DEF Progress
  <2>2. Copies(heap, b) /\ Basics /\ Made(b, s)
    BY <1>4 DEF Progress, MapInv, Loaded
  <2>3. PICK p \in E : Visits(b, E, p)
    BY <1>1, <1>4, <2>1, <2>2, NextVisit
  <2> DEFINE i == Head(stack).i + 1
             o == heap[p].items[i]
             l == heap[p + b].items[i]
  <2>4. /\ o \in 1 .. b /\ NextItem = l
        /\ l = o + b \/ Replaces(heap, b, o, l)
    BY <2>3 DEF Visits
  <2>5. Alike(heap, b, p, i)
    BY DEF Alike
  <2> HIDE DEF o, l, i
  <2>6. Settled(heap, b, E, o, l)
    <3>1. CASE l = o + b
      <4>1. CopyOf(heap, b, o)
        BY <2>2, <2>4 DEF Copies
      <4>2. heap[o].kind \notin {"list", "dict"}
        BY <1>1, <2>4, <3>1, <4>1 DEF CopyOf
      <4>3. heap[o].kind = "tag" =>
              heap[l].kind = "tag" /\ heap[l].type = heap[o].type
        BY <3>1, <4>1 DEF CopyOf
      <4>4. DecodesAs(heap[o]) = {} /\ (heap[o].kind = "tag" => ~raise_on_unknown_tag)
        BY <1>1, <2>4, <4>3 DEF DecodesAs
      <4>5. o \notin Boxes(heap, b)
        BY <4>2 DEF Boxes
      <4> QED  BY <3>1, <4>4, <4>5 DEF Settled
    <3> QED  BY <2>4, <3>1 DEF Settled
  <2>7. Walk(heap, stack', b, E)
    BY <1>1, <2>1, <2>2, <2>3, <2>5, <2>6, WalkAdvances DEF Walking, i, o, l
  <2>8. raises = 0 => Once(heap, stack', b, E)
    BY <1>1, <2>1, <2>2, <2>3, <2>5, OnceAdvances DEF Walking, i
  <2>9. \A S : NoBytes(heap, b, S) => E \subseteq S
    BY <2>1 DEF Walking
  <2>10. Walking(b, E)'
    BY <1>1, <1>2, <2>7, <2>8, <2>9 DEF Walking
  <2> QED  BY <1>2, <2>2, <2>10
<1>5. Progress(b)'
  BY <1>1, <1>3, <1>4 DEF Progress
<1> QED  BY <1>2, <1>5

LEMMA DecodeTagStep ==
  ASSUME MapInv, NEW b \in Nat, NEW s, got = sent + b, Loaded(b, s), Progress(b),
         DecodeTag
  PROVE  Loaded(b, s)' /\ Progress(b)'
<1> DEFINE n == Head(stack).at
           i == Head(stack).i + 1
<1>1. /\ phase = "decode" /\ phase' = "decode" /\ raises' = raises
      /\ own' = own /\ sent' = sent
      /\ raise_on_unknown_tag' = raise_on_unknown_tag
      /\ More("decode") /\ stack' = Advanced
  BY DEF DecodeTag, More
<1>2. TagTaken(heap, heap', n, i, NextItem)
  BY DecodeTagDoes
<1>3. /\ Linked(heap) /\ heap \in Seq(Obj) /\ n \in DOMAIN heap /\ i \in DOMAIN heap[n].items
      /\ NextItem = heap[n].items[i] /\ Made(b, s) /\ Basics
  BY <1>1, NextItemThere DEF MapInv, Basics, Linked, NextItem, Loaded
<1>4. n > b /\ Linked(heap')
  <2>1. 1 \in DOMAIN stack /\ Head(stack) = stack[1] /\ sent \in Nat
    BY <1>1, <1>3, NextItemThere DEF Basics
  <2>2. PICK a \in Nat : got = sent + a /\ \A j \in DOMAIN stack : stack[j].at > a
    BY <1>1 DEF MapInv, Decoding
  <2>3. a = b
    BY <2>1, <2>2
  <2> QED  BY <2>1, <2>2, <2>3, DecodeTagKeeps DEF Kept
<1> HIDE DEF n, i
<1>5. ElseSame(heap, heap', n, i)
  BY <1>2, <1>3, TakenRest, Zenon
<1>6. Len(heap) <= Len(heap') /\ \A m \in 1 .. b : heap'[m] = heap[m]
  <2>1. \A m \in 1 .. b : m \in DOMAIN heap
    BY <1>3, MadeDomains
  <2>2. n \in Nat
    BY <1>3
  <2>3. \A m \in 1 .. b : m # n
    BY <1>4, <2>2
  <2> QED  BY <1>5, <2>1, <2>3 DEF ElseSame
<1>7. \E r : Ranks(heap', r)
  <2>1. PICK r : Ranks(heap, r)
    BY DEF Loaded
  <2>2. heap[NextItem].kind = "tag"
    BY OneTag DEF DecodeTag
  <2> QED  BY <1>2, <1>3, <2>1, <2>2, RanksTaken
<1>8. Loaded(b, s)' /\ \A S : NoBytes(heap, b, S)' <=> NoBytes(heap, b, S)
  BY <1>1, <1>4, <1>6, <1>7, LoadedKept
<1>9. Certain(b)' => Certain(b)
  BY <1>1, <1>8 DEF Certain
<1>10. ASSUME Certain(b)
       PROVE  Copies(heap, b)' /\ \E E : Walking(b, E)'
  <2>1. PICK E : Walking(b, E)
    BY <1>1, <1>10 DEF Progress
  <2>2. Copies(heap, b)
    BY <1>10 DEF Progress
  <2>3. PICK p \in E : Visits(b, E, p)
    BY <1>1, <1>3, <1>10, <2>1, <2>2, NextVisit
  <2> DEFINE o == heap[p].items[i]
             l == heap'[p + b].items[i]
  <2>4. /\ Alike(heap', b, p, i) /\ Replaces(heap', b, o, l)
    BY <1>2, <1>3, <2>2, <2>3, TagSettles DEF n, i
  <2>5. p \in Boxes(heap, b) /\ i \in DOMAIN heap[p].items
    BY <2>3 DEF Visits, i
  <2>6. Copies(heap', b)
    BY <1>3, <2>2, <2>4, <2>5, CopiesStay
  <2>7. Settled(heap', b, E, o, l)
    BY <2>4 DEF Settled
  <2>8. Walk(heap', stack', b, E)
    BY <1>1, <1>3, <2>1, <2>2, <2>3, <2>4, <2>7, WalkAdvances DEF Walking, i
  <2>9. raises = 0 => Once(heap', stack', b, E)
    BY <1>1, <1>3, <2>1, <2>2, <2>3, <2>4, OnceAdvances DEF Walking, i
  <2>10. \A S : NoBytes(heap, b, S) => E \subseteq S
    BY <2>1 DEF Walking
  <2> HIDE DEF o, l
  <2>11. Copies(heap, b)'
    BY <1>1, <2>6 DEF Copies, CopyOf, Boxes, Original, Replaces
  <2>12. Walk(heap, stack, b, E)'
    BY <1>1, <2>8 DEF Walk, Boxes, Settled, Replaces, Passed
  <2>13. raises = 0 => Once(heap, stack, b, E)'
    BY <1>1, <2>9 DEF Once, Boxes, Original, Passed
  <2>14. Walking(b, E)'
    BY <1>1, <1>8, <2>10, <2>12, <2>13 DEF Walking
  <2> QED  BY <2>11, <2>14
<1>11. Progress(b)'
  BY <1>1, <1>9, <1>10 DEF Progress
<1> QED  BY <1>8, <1>11

-----------------------------------------------------------------------------
(* What encode() has made so far *)

(* What the caller has is one of the Heaps. *)
Given ==
  \E objects \in Heaps :
    own = Len(objects) /\ \A n \in 1 .. own : heap[n] = objects[n]

(* d says how deep the caller's objects are nested. *)
Deep(d) ==
  \A n \in 1 .. own :
    /\ d[n] \in 1 .. own
    /\ \A i \in DOMAIN heap[n].items : d[heap[n].items[i]] < d[n]

(* What is assumed of what a caller may encode. *)
LEMMA CallerKnown ==
  ASSUME Basics, Given
  PROVE  CallerInv /\ \E d : Deep(d)
<1>1. PICK objects \in Heaps :
        own = Len(objects) /\ \A n \in 1 .. own : heap[n] = objects[n]
  BY DEF Given
<1>2. /\ objects \in Seq([kind : Kinds, type : STRING, items : Seq(Nat)])
      /\ \A n \in DOMAIN objects : \A i \in DOMAIN objects[n].items :
           objects[n].items[i] \in DOMAIN objects
  BY TagMapAssumption
<1>3. DOMAIN objects = 1 .. own /\ own \in Nat \ {0} /\ 1 \in 1 .. own
  BY <1>1, <1>2 DEF Basics, Linked
<1>4. /\ objects[1].kind = "list"
      /\ \A n \in 1 .. own :
           /\ Depth(objects, n) \in 1 .. own
           /\ \A i \in DOMAIN objects[n].items :
                Depth(objects, objects[n].items[i]) < Depth(objects, n)
           /\ objects[n].kind \notin {"instance", "tag"} => objects[n].type = ""
  BY <1>1, <1>3, NestingAssumption
<1>5. CallerInv
  <2>1. \A n \in 1 .. own : \A i \in DOMAIN objects[n].items : objects[n].items[i] <= own
    <3> SUFFICES ASSUME NEW n \in 1 .. own, NEW i \in DOMAIN objects[n].items
                 PROVE  objects[n].items[i] <= own
      OBVIOUS
    <3>1. objects[n].items[i] \in 1 .. own
      BY <1>2, <1>3
    <3> QED  BY <1>3, <3>1
  <2> QED  BY <1>1, <1>3, <1>4, <2>1 DEF CallerInv
<1>6. Deep([n \in 1 .. own |-> Depth(objects, n)])
  <2>1. \A n \in 1 .. own : \A i \in DOMAIN objects[n].items : objects[n].items[i] \in 1 .. own
    BY <1>2, <1>3
  <2> QED  BY <1>1, <1>4, <2>1 DEF Deep
<1> QED  BY <1>5, <1>6

(* The caller's objects stay as they are. *)
LEMMA GivenKept ==
  ASSUME MapInv, Given, Next
  PROVE  Given'
<1>1. own' = own /\ \A n \in 1 .. own : heap'[n] = heap[n]
  BY HeapStep DEF Kept
<1> QED  BY <1>1 DEF Given

-----------------------------------------------------------------------------
(* Every call of encode() fills what it makes of the container that it     *)
(* walks through, and what no call fills is complete.                      *)
Filling(h, b, stk, s) ==
  /\ \A j \in DOMAIN stk :
       /\ stk[j].out \in own + 1 .. b /\ stk[j].at = s[stk[j].out]
       /\ stk[j].i = Len(h[stk[j].out].items)
       /\ h[stk[j].at].kind \in {"list", "tuple", "dict"}
  /\ \A j, k \in DOMAIN stk : stk[j].out = stk[k].out => j = k
  /\ \A n \in own + 1 .. b :
       \/ Len(h[n].items) = Len(h[s[n]].items)
       \/ \E j \in DOMAIN stk : stk[j].out = n

(* The invariant of encode(). *)
EncodeInv ==
  /\ phase = "ob" => own = Len(heap)
  /\ phase \in {"encode", "encoded"} =>
       \E s : /\ Encoded(heap, Len(heap), s) /\ Unshared(heap, Len(heap))
              /\ Filling(heap, Len(heap), stack, s)

(* The items that encode() walks through are the caller's. *)
LEMMA NextOwn ==
  ASSUME Basics, CallerInv, More("encode"), NEW s,
         Encoded(heap, Len(heap), s), Filling(heap, Len(heap), stack, s)
  PROVE  LET out == Head(stack).out  at == Head(stack).at  i == Head(stack).i + 1 IN
           /\ out \in own + 1 .. Len(heap) /\ out \in DOMAIN heap
           /\ at = s[out] /\ at \in 1 .. own
           /\ i = Len(heap[out].items) + 1 /\ i \in DOMAIN heap[at].items
           /\ EncodedBox(heap, s, out, at)
           /\ NextItem = heap[at].items[i] /\ NextItem \in 1 .. own
<1> DEFINE out == Head(stack).out
           at  == Head(stack).at
           i   == Head(stack).i + 1
<1>1. /\ 1 \in DOMAIN stack /\ Head(stack) = stack[1]
      /\ at \in DOMAIN heap /\ out \in DOMAIN heap
      /\ i \in DOMAIN heap[at].items /\ NextItem \in DOMAIN heap
      /\ NextItem = heap[at].items[i]
  BY NextItemThere DEF NextItem
<1>2. /\ out \in own + 1 .. Len(heap) /\ at = s[out]
      /\ i = Len(heap[out].items) + 1
      /\ heap[at].kind \in {"list", "tuple", "dict"}
  BY <1>1 DEF Filling
<1>3. /\ Len(heap) \in Nat /\ own \in Nat /\ DOMAIN heap = 1 .. Len(heap)
  BY DEF Basics, Linked
<1>4. at \in 1 .. own
  <2>1. s \in [1 .. Len(heap) -> 1 .. own] /\ out \in 1 .. Len(heap)
    BY <1>1, <1>3 DEF Encoded, Sources
  <2> QED  BY <1>2, <2>1
<1>5. EncodedBox(heap, s, out, at)
  <2>1. ~EncodedInstance(heap, out, at)
    <3>1. \A ct \in EncodesAs(heap[at]) : heap[at].kind = "instance"
      BY FoundTag
    <3> QED  BY <1>2, <3>1 DEF EncodedInstance
  <2>2. EncodedInstance(heap, out, s[out]) \/ EncodedBox(heap, s, out, s[out])
    BY <1>2 DEF Encoded
  <2> QED  BY <1>2, <2>1, <2>2
<1>6. NextItem \in 1 .. own
  <2>1. NextItem <= own
    BY <1>1, <1>4 DEF CallerInv
  <2> DEFINE k == NextItem
  <2>2. k \in 1 .. Len(heap) /\ k <= own
    BY <1>1, <1>3, <2>1
  <2> HIDE DEF k
  <2>3. k \in 1 .. own
    BY <1>3, <2>2
  <2> QED  BY <2>3 DEF k
<1> QED  BY <1>1, <1>2, <1>4, <1>5, <1>6

-----------------------------------------------------------------------------
(* encode() puts something in a container *)

(* An item of a container that encode() has made, and what it is made of. *)
LEMMA NewItem ==
  ASSUME Basics, CallerInv, NEW s, Encoded(heap, Len(heap), s),
         NEW n \in own + 1 .. Len(heap), EncodedBox(heap, s, n, s[n]),
         NEW i \in DOMAIN heap[n].items
  PROVE  /\ n \in DOMAIN heap /\ s[n] \in 1 .. own
         /\ i \in DOMAIN heap[s[n]].items
         /\ heap[n].items[i] \in 1 .. Len(heap) /\ heap[s[n]].items[i] \in 1 .. own
         /\ EncodesTo(heap, s, heap[n].items[i], heap[s[n]].items[i])
<1>1. /\ Len(heap) \in Nat /\ own \in Nat /\ own <= Len(heap) /\ DOMAIN heap = 1 .. Len(heap)
      /\ heap \in Seq(Obj) /\ Linked(heap)
  BY DEF Basics, Linked
<1>2. n \in 1 .. Len(heap) /\ \A k \in 1 .. own : k \in 1 .. Len(heap)
  BY <1>1
<1>3. s[n] \in 1 .. own
  BY <1>2 DEF Encoded, Sources
<1>4. i \in DOMAIN heap[s[n]].items
  <2>1. Len(heap[n].items) <= Len(heap[s[n]].items)
    BY DEF EncodedBox
  <2>2. /\ DOMAIN heap[n].items = 1 .. Len(heap[n].items)
        /\ DOMAIN heap[s[n]].items = 1 .. Len(heap[s[n]].items)
        /\ Len(heap[n].items) \in Nat /\ Len(heap[s[n]].items) \in Nat
    BY <1>1, <1>2, <1>3, ObjectOf
  <2> QED  BY <2>1, <2>2
<1>5. heap[n].items[i] \in 1 .. Len(heap)
  BY <1>1, <1>2 DEF Linked
<1>6. heap[s[n]].items[i] \in 1 .. own
  <2> DEFINE k == heap[s[n]].items[i]
  <2>1. k \in 1 .. Len(heap) /\ k <= own
    BY <1>1, <1>2, <1>3, <1>4 DEF Linked, CallerInv
  <2> HIDE DEF k
  <2>2. k \in 1 .. own
    BY <1>1, <2>1
  <2> QED  BY <2>2 DEF k
<1> QED  BY <1>1, <1>2, <1>3, <1>4, <1>5, <1>6 DEF EncodedBox

(* g is h with x after the items of n, and with one object more or none. *)
Grown(h, g, n, x) ==
  /\ g \in Seq(Obj)
  /\ Len(h) <= Len(g) /\ Len(g) <= Len(h) + 1
  /\ g[n].kind = h[n].kind /\ g[n].type = h[n].type
  /\ Len(g[n].items) = Len(h[n].items) + 1
  /\ g[n].items[Len(h[n].items) + 1] = x
  /\ \A j \in DOMAIN h[n].items : g[n].items[j] = h[n].items[j]
  /\ \A m \in DOMAIN h : m # n => g[m] = h[m]

(* The old objects are where they were. *)
LEMMA GrownDomains ==
  ASSUME Basics, NEW g, NEW n \in DOMAIN heap, n > own, NEW x, Grown(heap, g, n, x)
  PROVE  /\ Len(heap) \in Nat /\ own \in Nat /\ own <= Len(heap)
         /\ DOMAIN heap = 1 .. Len(heap) /\ heap \in Seq(Obj)
         /\ \A k \in 1 .. own : k \in DOMAIN heap /\ g[k] = heap[k]
         /\ \A m \in DOMAIN heap : m \in DOMAIN g
         /\ DOMAIN g = 1 .. Len(g) /\ Len(g) \in Nat
         /\ \A m \in DOMAIN g : m \in DOMAIN heap \/ (m = Len(heap) + 1 /\ m = Len(g))
         /\ DOMAIN heap[n].items = 1 .. Len(heap[n].items) /\ Len(heap[n].items) \in Nat
         /\ \A j \in DOMAIN g[n].items :
              j \in DOMAIN heap[n].items \/ j = Len(heap[n].items) + 1
<1>1. /\ Len(heap) \in Nat /\ own \in Nat /\ own <= Len(heap)
      /\ DOMAIN heap = 1 .. Len(heap) /\ heap \in Seq(Obj) /\ n \in Nat
  BY DEF Basics, Linked
<1>2. /\ g \in Seq(Obj)
      /\ Len(heap) <= Len(g) /\ Len(g) <= Len(heap) + 1
      /\ Len(g[n].items) = Len(heap[n].items) + 1
      /\ \A m \in DOMAIN heap : m # n => g[m] = heap[m]
  BY DEF Grown
<1>3. \A k \in 1 .. own : k \in DOMAIN heap /\ k # n
  BY <1>1
<1>4. DOMAIN g = 1 .. Len(g) /\ Len(g) \in Nat
  BY <1>2
<1>5. /\ \A m \in DOMAIN heap : m \in DOMAIN g
      /\ \A m \in DOMAIN g : m \in DOMAIN heap \/ (m = Len(heap) + 1 /\ m = Len(g))
  <2> DEFINE L == Len(heap)  M == Len(g)
  <2>1. /\ L \in Nat /\ M \in Nat /\ L <= M /\ M <= L + 1
        /\ DOMAIN heap = 1 .. L /\ DOMAIN g = 1 .. M
    BY <1>1, <1>2, <1>4
  <2> HIDE DEF L, M
  <2>2. \A m \in 1 .. M : m \in 1 .. L \/ (m = L + 1 /\ m = M)
    BY <2>1
  <2>3. \A m \in 1 .. L : m \in 1 .. M
    BY <2>1
  <2> QED  BY <2>1, <2>2, <2>3 DEF L, M
<1>7. DOMAIN heap[n].items = 1 .. Len(heap[n].items) /\ Len(heap[n].items) \in Nat
  BY <1>1, ObjectOf
<1>8. \A j \in DOMAIN g[n].items : j \in DOMAIN heap[n].items \/ j = Len(heap[n].items) + 1
  <2>1. DOMAIN g[n].items = 1 .. Len(g[n].items)
    BY <1>2, <1>5, ObjectOf
  <2> QED  BY <1>2, <1>7, <2>1
<1> QED  BY <1>1, <1>2, <1>3, <1>4, <1>5, <1>7, <1>8

(* What encode() makes next is as it should be, if what it puts into the   *)
(* container and what is new are.                                          *)
NewAsWell(g, t) ==
  Len(g) = Len(heap) + 1 =>
    /\ EncodedInstance(g, Len(g), t[Len(g)]) \/ EncodedBox(g, t, Len(g), t[Len(g)])
    /\ \A i \in DOMAIN g[Len(g)].items : g[Len(g)].items[i] <= own

(* t says what the old objects and the new one were made from. *)
Extends(g, t, s) ==
  t \in [1 .. Len(g) -> 1 .. own] /\ \A n \in 1 .. Len(heap) : t[n] = s[n]

(* What was encoded stays so. *)
LEMMA EncodesToStays ==
  ASSUME NEW s, NEW g, NEW t, Extends(g, t, s), \A k \in 1 .. own : g[k] = heap[k],
         NEW o \in 1 .. Len(heap), NEW k \in 1 .. own, EncodesTo(heap, s, o, k)
  PROVE  EncodesTo(g, t, o, k)
<1>1. g[k] = heap[k] /\ t[o] = s[o]
  BY DEF Extends
<1> QED  BY <1>1 DEF EncodesTo

(* An item put where it belongs continues what encode() makes. *)
LEMMA EncodedGrows ==
  ASSUME Basics, CallerInv, More("encode"), NEW s,
         Encoded(heap, Len(heap), s), Filling(heap, Len(heap), stack, s),
         NEW g, NEW x, Grown(heap, g, Head(stack).out, x),
         NEW t, Extends(g, t, s), EncodesTo(g, t, x, NextItem),
         x \in 1 .. own \/ (x = Len(g) /\ x > Len(heap)), NewAsWell(g, t)
  PROVE  Encoded(g, Len(g), t)
<1> DEFINE out == Head(stack).out
           at  == Head(stack).at
           L   == Len(heap)
<1>1. /\ out \in own + 1 .. L /\ out \in DOMAIN heap /\ at = s[out] /\ at \in 1 .. own
      /\ Len(heap[out].items) + 1 \in DOMAIN heap[at].items
      /\ EncodedBox(heap, s, out, at)
      /\ NextItem = heap[at].items[Len(heap[out].items) + 1] /\ NextItem \in 1 .. own
  BY NextOwn
<1>2. Grown(heap, g, out, x) /\ out > own
  <2>1. own \in Nat /\ L \in Nat
    BY DEF Basics, Linked
  <2> HIDE DEF out, at, L
  <2>2. out > own
    BY <1>1, <2>1
  <2> QED  BY <2>2 DEF out
<1> HIDE DEF out, at
<1>3. /\ L \in Nat /\ own \in Nat /\ own <= L /\ DOMAIN heap = 1 .. L /\ heap \in Seq(Obj)
      /\ \A k \in 1 .. own : k \in DOMAIN heap /\ g[k] = heap[k]
      /\ DOMAIN g = 1 .. Len(g) /\ Len(g) \in Nat
      /\ \A m \in DOMAIN heap : m \in DOMAIN g
      /\ \A m \in DOMAIN g : m \in DOMAIN heap \/ (m = L + 1 /\ m = Len(g))
      /\ DOMAIN heap[out].items = 1 .. Len(heap[out].items) /\ Len(heap[out].items) \in Nat
      /\ \A j \in DOMAIN g[out].items :
           j \in DOMAIN heap[out].items \/ j = Len(heap[out].items) + 1
  BY <1>1, <1>2, GrownDomains
<1>4. sent = own + 1 /\ sent <= L /\ s[sent] = 1 /\ own # 0
      /\ \A n \in 1 .. own : s[n] = n
  BY DEF Encoded, Sources
<1>5. x <= Len(g) /\ x # sent /\ L <= Len(g)
  <2>1. L <= Len(g)
    BY <1>2 DEF Grown
  <2> QED  BY <1>3, <1>4, <2>1
<1>6. Sources(Len(g), t)
  <2>1. sent \in 1 .. L /\ \A n \in 1 .. own : n \in 1 .. L
    BY <1>3, <1>4
  <2>2. own \in Nat \ {0}
    BY <1>3, <1>4
  <2>3. sent <= Len(g)
    BY <1>3, <1>4, <1>5
  <2> QED  BY <1>3, <1>4, <2>1, <2>2, <2>3 DEF Sources, Extends
<1>7. ASSUME NEW o \in 1 .. L, NEW k \in 1 .. own, EncodesTo(heap, s, o, k)
      PROVE  EncodesTo(g, t, o, k)
  BY <1>3, <1>7, EncodesToStays
<1>8. ASSUME NEW n \in own + 1 .. L, n # out
      PROVE  /\ EncodedInstance(g, n, t[n]) \/ EncodedBox(g, t, n, t[n])
             /\ \A i \in DOMAIN g[n].items : g[n].items[i] <= Len(g) /\ g[n].items[i] # sent
  <2>1. n \in 1 .. L /\ n \in DOMAIN heap
    BY <1>3
  <2>2. g[n] = heap[n] /\ t[n] = s[n]
    BY <1>2, <1>8, <2>1 DEF Grown, Extends
  <2>3. s[n] \in 1 .. own /\ g[s[n]] = heap[s[n]]
    BY <1>3, <2>1 DEF Encoded, Sources
  <2>4. EncodedInstance(heap, n, s[n]) => EncodedInstance(g, n, t[n])
    BY <2>2, <2>3 DEF EncodedInstance
  <2>5. EncodedBox(heap, s, n, s[n]) => EncodedBox(g, t, n, t[n])
    <3> SUFFICES ASSUME EncodedBox(heap, s, n, s[n])
                 PROVE  EncodedBox(g, t, n, t[n])
      OBVIOUS
    <3>1. \A i \in DOMAIN heap[n].items :
            EncodesTo(g, t, heap[n].items[i], heap[s[n]].items[i])
      BY <1>7, NewItem
    <3> QED  BY <2>2, <2>3, <3>1 DEF EncodedBox
  <2>6. \A i \in DOMAIN heap[n].items : heap[n].items[i] <= Len(g) /\ heap[n].items[i] # sent
    <3> SUFFICES ASSUME NEW i \in DOMAIN heap[n].items
                 PROVE  heap[n].items[i] <= Len(g) /\ heap[n].items[i] # sent
      OBVIOUS
    <3> DEFINE o == heap[n].items[i]
    <3>1. o <= L /\ o # sent /\ o \in DOMAIN heap
      BY <2>1 DEF Encoded, Basics, Linked
    <3> HIDE DEF o
    <3>2. o <= Len(g) /\ o # sent
      BY <1>3, <1>5, <3>1
    <3> QED  BY <3>2 DEF o
  <2> QED  BY <2>2, <2>4, <2>5, <2>6 DEF Encoded
<1>9. /\ EncodedBox(g, t, out, t[out])
      /\ \A i \in DOMAIN g[out].items : g[out].items[i] <= Len(g) /\ g[out].items[i] # sent
  <2>1. t[out] = at /\ g[at] = heap[at]
    BY <1>1, <1>3 DEF Extends
  <2>2. /\ g[out].kind = heap[out].kind /\ g[out].type = heap[out].type
        /\ Len(g[out].items) = Len(heap[out].items) + 1
        /\ g[out].items[Len(heap[out].items) + 1] = x
        /\ \A j \in DOMAIN heap[out].items : g[out].items[j] = heap[out].items[j]
    BY <1>2 DEF Grown
  <2>3. Len(g[out].items) <= Len(heap[at].items)
    <3>1. at \in DOMAIN heap
      BY <1>1, <1>3
    <3>2. DOMAIN heap[at].items = 1 .. Len(heap[at].items) /\ Len(heap[at].items) \in Nat
      BY <1>3, <3>1, ObjectOf
    <3> QED  BY <1>1, <1>3, <2>2, <3>2
  <2>4. \A i \in DOMAIN heap[out].items :
          EncodesTo(g, t, heap[out].items[i], heap[at].items[i])
    BY <1>1, <1>7, NewItem
  <2>5. \A i \in DOMAIN g[out].items :
          EncodesTo(g, t, g[out].items[i], heap[at].items[i])
    BY <1>1, <1>3, <2>2, <2>4
  <2>6. EncodedBox(g, t, out, t[out])
    BY <1>1, <2>1, <2>2, <2>3, <2>5 DEF EncodedBox
  <2>7. ASSUME NEW i \in DOMAIN heap[out].items
        PROVE  heap[out].items[i] <= Len(g) /\ heap[out].items[i] # sent
    <3> DEFINE o == heap[out].items[i]
    <3>1. o <= L /\ o # sent /\ o \in DOMAIN heap
      BY <1>1 DEF Encoded, Basics, Linked
    <3> HIDE DEF o
    <3>2. o <= Len(g) /\ o # sent
      BY <1>3, <1>5, <3>1
    <3> QED  BY <3>2 DEF o
  <2>8. \A i \in DOMAIN g[out].items : g[out].items[i] <= Len(g) /\ g[out].items[i] # sent
    BY <1>3, <1>5, <2>2, <2>7
  <2> QED  BY <2>6, <2>8
<1>10. ASSUME NEW n \in own + 1 .. Len(g), n = Len(g), Len(g) = L + 1
       PROVE  /\ EncodedInstance(g, n, t[n]) \/ EncodedBox(g, t, n, t[n])
              /\ \A i \in DOMAIN g[n].items : g[n].items[i] <= Len(g) /\ g[n].items[i] # sent
  <2>1. /\ EncodedInstance(g, n, t[n]) \/ EncodedBox(g, t, n, t[n])
        /\ \A i \in DOMAIN g[n].items : g[n].items[i] <= own
    BY <1>10 DEF NewAsWell
  <2>2. \A i \in DOMAIN g[n].items : g[n].items[i] \in Nat
    <3>1. g[n] \in Obj /\ n \in DOMAIN g
      BY <1>2, <1>3, <1>10 DEF Grown
    <3>2. g[n].items \in Seq(Nat)
      BY <3>1 DEF Obj
    <3> QED  BY <3>2
  <2>3. \A m \in Nat : m <= own => m <= Len(g) /\ m # sent
    BY <1>3, <1>4, <1>5
  <2> QED  BY <2>1, <2>2, <2>3
<1>11. \A n \in own + 1 .. Len(g) : n \in own + 1 .. L \/ (n = Len(g) /\ Len(g) = L + 1)
  <2> DEFINE M == Len(g)
  <2>1. L <= M /\ M <= L + 1 /\ M \in Nat
    BY <1>2, <1>3 DEF Grown
  <2> HIDE DEF L, M
  <2>2. \A n \in own + 1 .. M : n \in own + 1 .. L \/ (n = M /\ M = L + 1)
    BY <1>3, <2>1
  <2> QED  BY <2>2 DEF L, M
<1>12. \A n \in own + 1 .. Len(g) :
         /\ EncodedInstance(g, n, t[n]) \/ EncodedBox(g, t, n, t[n])
         /\ \A i \in DOMAIN g[n].items : g[n].items[i] <= Len(g) /\ g[n].items[i] # sent
  BY <1>8, <1>9, <1>10, <1>11
<1> QED  BY <1>6, <1>12 DEF Encoded

(* The item is the caller's or new, so nothing is put in two places. *)
LEMMA UnsharedGrows ==
  ASSUME Basics, CallerInv, More("encode"), NEW s,
         Encoded(heap, Len(heap), s), Filling(heap, Len(heap), stack, s), Unshared(heap, Len(heap)),
         NEW g, NEW x, Grown(heap, g, Head(stack).out, x),
         NEW t, x \in 1 .. own \/ (x = Len(g) /\ x > Len(heap)), NewAsWell(g, t)
  PROVE  Unshared(g, Len(g))
<1> DEFINE out == Head(stack).out
           L   == Len(heap)
           M   == Len(g)
           e   == Len(heap[out].items) + 1
           Old(n, i) == /\ n \in own + 1 .. L /\ i \in DOMAIN heap[n].items
                        /\ g[n].items[i] = heap[n].items[i] /\ heap[n].items[i] <= L
<1>1. out \in own + 1 .. L /\ out \in DOMAIN heap
  BY NextOwn
<1>2. Grown(heap, g, out, x) /\ out > own
  <2>1. own \in Nat /\ L \in Nat
    BY DEF Basics, Linked
  <2> HIDE DEF out, L
  <2>2. out > own
    BY <1>1, <2>1
  <2> QED  BY <2>2 DEF out
<1> HIDE DEF out
<1>3. /\ L \in Nat /\ own \in Nat /\ own <= L /\ DOMAIN heap = 1 .. L
      /\ DOMAIN g = 1 .. M /\ M \in Nat
      /\ \A m \in DOMAIN g : m \in DOMAIN heap \/ (m = L + 1 /\ m = M)
      /\ \A j \in DOMAIN g[out].items : j \in DOMAIN heap[out].items \/ j = e
  BY <1>1, <1>2, GrownDomains
<1>4. ASSUME NEW n \in own + 1 .. M, NEW i \in DOMAIN g[n].items,
             g[n].items[i] > own
      PROVE  Old(n, i) \/ (n = out /\ i = e /\ g[n].items[i] > L)
  <2>1. n \in DOMAIN heap \/ (n = L + 1 /\ n = M)
    BY <1>3
  <2>2. CASE n = L + 1 /\ n = M
    <3>1. g[n].items[i] <= own
      BY <2>2 DEF NewAsWell
    <3>2. g[n].items[i] \in Nat
      <4>1. g[n] \in Obj
        BY <1>2, <1>3 DEF Grown
      <4>2. g[n].items \in Seq(Nat)
        BY <4>1 DEF Obj
      <4> QED  BY <4>2
    <3> QED  BY <1>3, <1>4, <3>1, <3>2
  <2>3. CASE n \in DOMAIN heap
    <3>1. n \in own + 1 .. L
      BY <1>3, <2>3
    <3>2. ASSUME NEW j \in DOMAIN heap[n].items
          PROVE  heap[n].items[j] <= L
      BY <2>3, <3>1 DEF Encoded
    <3>3. CASE n # out
      <4>1. g[n] = heap[n]
        BY <1>2, <2>3, <3>3 DEF Grown
      <4> QED  BY <3>1, <3>2, <4>1
    <3>4. CASE n = out /\ i \in DOMAIN heap[out].items
      <4>1. g[n].items[i] = heap[n].items[i]
        BY <1>2, <3>4 DEF Grown
      <4> QED  BY <3>1, <3>2, <3>4, <4>1
    <3>5. CASE n = out /\ i = e
      <4>1. g[n].items[i] = x
        BY <1>2, <3>5 DEF Grown
      <4>2. x > L
        <5>1. x > own
          BY <1>4, <4>1
        <5>2. x \notin 1 .. own
          BY <1>3, <5>1
        <5> QED  BY <5>2
      <4> QED  BY <3>5, <4>1, <4>2
    <3> QED  BY <1>3, <3>3, <3>4, <3>5
  <2> QED  BY <2>1, <2>2, <2>3
<1>5. ASSUME NEW n, NEW i, Old(n, i)
      PROVE  g[n].items[i] <= L /\ g[n].items[i] \in Nat
  <2>1. n \in DOMAIN heap
    BY <1>3, <1>5
  <2>2. heap[n].items[i] \in DOMAIN heap
    BY <1>5, <2>1 DEF Basics, Linked
  <2> QED  BY <1>3, <1>5, <2>2
<1>6. ASSUME NEW n \in own + 1 .. M, NEW m \in own + 1 .. M,
             NEW i \in DOMAIN g[n].items, NEW j \in DOMAIN g[m].items,
             g[n].items[i] = g[m].items[j], g[n].items[i] > own
      PROVE  n = m /\ i = j
  <2>1. Old(n, i) \/ (n = out /\ i = e /\ g[n].items[i] > L)
    BY <1>4, <1>6
  <2>2. Old(m, j) \/ (m = out /\ j = e /\ g[m].items[j] > L)
    BY <1>4, <1>6
  <2>3. CASE Old(n, i) /\ Old(m, j)
    <3>1. /\ n \in own + 1 .. L /\ i \in DOMAIN heap[n].items
          /\ m \in own + 1 .. L /\ j \in DOMAIN heap[m].items
          /\ heap[n].items[i] = heap[m].items[j] /\ heap[n].items[i] > own
      BY <1>6, <2>3
    <3> QED  BY <3>1 DEF Unshared
  <2>4. CASE Old(n, i) /\ g[m].items[j] > L
    BY <1>3, <1>5, <1>6, <2>4
  <2>5. CASE Old(m, j) /\ g[n].items[i] > L
    BY <1>3, <1>5, <1>6, <2>5
  <2> HIDE DEF Old
  <2> QED  BY <2>1, <2>2, <2>3, <2>4, <2>5
<1> QED  BY <1>6 DEF Unshared

(* Moving on: the container that is filled has as many items as are done.  *)
LEMMA FillingAdvances ==
  ASSUME Basics, CallerInv, More("encode"), NEW s,
         Encoded(heap, Len(heap), s), Filling(heap, Len(heap), stack, s),
         NEW g, NEW x, Grown(heap, g, Head(stack).out, x),
         NEW t, Extends(g, t, s)
  PROVE  Filling(g, Len(heap), Advanced, t)
<1> DEFINE out == Head(stack).out
           L   == Len(heap)
<1>1. out \in own + 1 .. L /\ out \in DOMAIN heap /\ Head(stack).i + 1 = Len(heap[out].items) + 1
  BY NextOwn
<1>2. Grown(heap, g, out, x) /\ out > own
  <2>1. own \in Nat /\ L \in Nat
    BY DEF Basics, Linked
  <2> HIDE DEF out, L
  <2>2. out > own
    BY <1>1, <2>1
  <2> QED  BY <2>2 DEF out
<1>3. /\ L \in Nat /\ own \in Nat /\ own <= L /\ DOMAIN heap = 1 .. L
      /\ \A k \in 1 .. own : k \in DOMAIN heap /\ g[k] = heap[k]
  BY <1>1, <1>2, GrownDomains
<1>4. /\ DOMAIN Advanced = DOMAIN stack /\ 1 \in DOMAIN stack /\ Head(stack) = stack[1]
      /\ Advanced[1].at = stack[1].at /\ Advanced[1].out = stack[1].out
      /\ Advanced[1].i = stack[1].i + 1
      /\ \A j \in DOMAIN stack : j # 1 => Advanced[j] = stack[j]
  BY AdvancedFrames, NextItemThere
<1>5. \A j \in DOMAIN stack : Advanced[j].at = stack[j].at /\ Advanced[j].out = stack[j].out
  BY <1>4
<1>6. /\ \A j \in DOMAIN stack :
           /\ stack[j].out \in own + 1 .. L /\ stack[j].at = s[stack[j].out]
           /\ stack[j].i = Len(heap[stack[j].out].items)
           /\ heap[stack[j].at].kind \in {"list", "tuple", "dict"}
      /\ \A j, k \in DOMAIN stack : stack[j].out = stack[k].out => j = k
      /\ \A n \in own + 1 .. L :
           \/ Len(heap[n].items) = Len(heap[s[n]].items)
           \/ \E j \in DOMAIN stack : stack[j].out = n
  BY DEF Filling
<1>7. \A n \in own + 1 .. L : n \in 1 .. L /\ t[n] = s[n] /\ s[n] \in 1 .. own
  <2>1. s \in [1 .. L -> 1 .. own]
    BY DEF Encoded, Sources
  <2>2. \A n \in own + 1 .. L : n \in 1 .. L
    BY <1>3
  <2> QED  BY <2>1, <2>2 DEF Extends
<1> HIDE DEF L
<1>8. ASSUME NEW j \in DOMAIN stack
      PROVE  /\ Advanced[j].out \in own + 1 .. L
             /\ Advanced[j].at = t[Advanced[j].out]
             /\ Advanced[j].i = Len(g[Advanced[j].out].items)
             /\ g[Advanced[j].at].kind \in {"list", "tuple", "dict"}
  <2>1. Advanced[j].out \in own + 1 .. L /\ Advanced[j].at = t[Advanced[j].out]
    BY <1>5, <1>6, <1>7
  <2>2. g[Advanced[j].at].kind \in {"list", "tuple", "dict"}
    <3>1. Advanced[j].at \in 1 .. own
      BY <1>5, <1>6, <1>7
    <3> QED  BY <1>3, <1>5, <1>6, <3>1
  <2>3. Advanced[j].i = Len(g[Advanced[j].out].items)
    <3>1. CASE j = 1
      <4>1. Advanced[1].out = out /\ Advanced[1].i = Head(stack).i + 1
        BY <1>4
      <4>2. Len(g[out].items) = Len(heap[out].items) + 1
        BY <1>2 DEF Grown
      <4> HIDE DEF out
      <4> QED  BY <1>1, <3>1, <4>1, <4>2
    <3>2. CASE j # 1
      <4>1. Advanced[j] = stack[j] /\ stack[j].out # out
        BY <1>4, <1>6, <3>2
      <4>2. stack[j].out \in DOMAIN heap
        BY <1>3, <1>6, <1>7
      <4>3. g[stack[j].out] = heap[stack[j].out]
        BY <1>2, <4>1, <4>2 DEF Grown
      <4> QED  BY <1>6, <4>1, <4>3
    <3> QED  BY <3>1, <3>2
  <2> QED  BY <2>1, <2>2, <2>3
<1>9. \A j, k \in DOMAIN Advanced : Advanced[j].out = Advanced[k].out => j = k
  BY <1>4, <1>5, <1>6
<1>10. ASSUME NEW n \in own + 1 .. L
       PROVE  \/ Len(g[n].items) = Len(g[t[n]].items)
              \/ \E j \in DOMAIN Advanced : Advanced[j].out = n
  <2>1. CASE n = out
    BY <1>4, <2>1
  <2>2. CASE n # out
    <3>1. g[n] = heap[n] /\ g[t[n]] = heap[s[n]]
      BY <1>2, <1>3, <1>7, <2>2 DEF Grown, L
    <3> QED  BY <1>4, <1>5, <1>6, <3>1
  <2> QED  BY <2>1, <2>2
<1> QED  BY <1>4, <1>8, <1>9, <1>10 DEF L, Filling

-----------------------------------------------------------------------------
(* The steps of encode() *)

(* Put makes a heap grow by an item, and by a new object. *)
LEMMA PutGrown ==
  ASSUME Basics, More("encode"), NEW x \in Nat
  PROVE  LET out == Head(stack).out IN
           /\ Grown(heap, Put(x), out, x) /\ Len(Put(x)) = Len(heap)
           /\ \A o \in Obj :
                /\ Grown(heap, Append(Put(x), o), out, x)
                /\ Len(Append(Put(x), o)) = Len(heap) + 1
                /\ Append(Put(x), o)[Len(heap) + 1] = o
<1> DEFINE out == Head(stack).out
           g   == Put(x)
<1>1. /\ heap \in Seq(Obj) /\ out \in DOMAIN heap /\ Len(heap) \in Nat
      /\ DOMAIN heap = 1 .. Len(heap)
  BY NextItemThere DEF Basics, Linked
<1>2. g = [heap EXCEPT ![out].items = Append(heap[out].items, x)]
  BY DEF Put
<1> HIDE DEF out, g
<1>3. PutIn(heap, g, out, x)
  BY <1>1, <1>2, PutExactly
<1>4. /\ g \in Seq(Obj) /\ Len(g) = Len(heap)
      /\ g[out].kind = heap[out].kind /\ g[out].type = heap[out].type
      /\ Len(g[out].items) = Len(heap[out].items) + 1
      /\ g[out].items[Len(heap[out].items) + 1] = x
      /\ \A j \in DOMAIN heap[out].items : g[out].items[j] = heap[out].items[j]
      /\ \A m \in DOMAIN heap : m # out => g[m] = heap[m]
  BY <1>3 DEF PutIn
<1>5. Grown(heap, g, out, x)
  <2>1. Len(heap) <= Len(heap) + 1
    BY <1>1
  <2> QED  BY <1>4, <2>1 DEF Grown
<1>6. ASSUME NEW o \in Obj
      PROVE  /\ Grown(heap, Append(g, o), out, x)
             /\ Len(Append(g, o)) = Len(heap) + 1
             /\ Append(g, o)[Len(heap) + 1] = o
  <2> DEFINE a == Append(g, o)
  <2>1. /\ a \in Seq(Obj) /\ Len(a) = Len(heap) + 1 /\ a[Len(heap) + 1] = o
        /\ \A m \in 1 .. Len(heap) : a[m] = g[m]
    <3>1. g \in Seq(Obj)
      BY <1>4
    <3>2. /\ a \in Seq(Obj) /\ Len(a) = Len(g) + 1 /\ a[Len(g) + 1] = o
          /\ \A m \in 1 .. Len(g) : a[m] = g[m]
      BY <3>1, AppendProperties
    <3>3. Len(g) = Len(heap)
      BY <1>4
    <3> HIDE DEF a
    <3> QED  BY <3>2, <3>3
  <2>2. Len(heap) <= Len(heap) + 1
    BY <1>1
  <2> HIDE DEF a
  <2>3. Grown(heap, a, out, x)
    BY <1>1, <1>4, <2>1, <2>2 DEF Grown
  <2> QED  BY <2>1, <2>3 DEF a
<1> QED  BY <1>4, <1>5, <1>6 DEF out, g

LEMMA StartEncodeStep ==
  ASSUME MapInv, Given, EncodeInv, StartEncode
  PROVE  EncodeInv'
<1> DEFINE o == Object("list", "", << >>)
<1>0. Basics
  BY DEF MapInv
<1>1. CallerInv
  BY <1>0, CallerKnown
<1>2. /\ heap \in Seq(Obj) /\ own \in Nat \ {0} /\ Len(heap) = own
      /\ DOMAIN heap = 1 .. own
  <2>1. /\ heap \in Seq(Obj) /\ own \in 1 .. Len(heap)
    BY <1>0 DEF Basics, Linked
  <2>2. Len(heap) = own
    BY DEF EncodeInv, StartEncode
  <2> QED  BY <2>1, <2>2
<1>3. /\ phase' = "encode" /\ sent' = own + 1 /\ own' = own
      /\ heap' = Append(heap, o) /\ stack' = <<Frame(1, own + 1)>>
  BY <1>2 DEF StartEncode, Fresh
<1>4. o \in Obj /\ o.items = << >> /\ o.kind = "list" /\ o.type = ""
  BY EmptyObject DEF Object
<1> HIDE DEF o
<1>5. /\ heap' \in Seq(Obj) /\ Len(heap') = own + 1 /\ heap'[own + 1] = o
      /\ \A n \in 1 .. own : heap'[n] = heap[n]
  <2>0. heap \in Seq(Obj) /\ o \in Obj
    BY <1>2, <1>4
  <2>1. /\ Append(heap, o) \in Seq(Obj) /\ Len(Append(heap, o)) = Len(heap) + 1
        /\ \A n \in 1 .. Len(heap) : Append(heap, o)[n] = heap[n]
        /\ Append(heap, o)[Len(heap) + 1] = o
    BY <2>0, AppendProperties
  <2> QED  BY <1>2, <1>3, <2>1
<1>6. PICK t : /\ t \in [1 .. own + 1 -> 1 .. own] /\ t[own + 1] = 1
               /\ \A n \in 1 .. own : t[n] = n
  <2> DEFINE f == [n \in 1 .. own + 1 |-> IF n = own + 1 THEN 1 ELSE n]
  <2>1. /\ f \in [1 .. own + 1 -> 1 .. own] /\ f[own + 1] = 1
        /\ \A n \in 1 .. own : f[n] = n
    BY <1>2
  <2> QED  BY <2>1
<1>7. Sources(Len(heap), t)'
  BY <1>2, <1>3, <1>5, <1>6 DEF Sources
<1>8. \A n \in own' + 1 .. Len(heap') : n = own + 1
  BY <1>2, <1>3, <1>5
<1>9. DOMAIN heap'[own + 1].items = {} /\ Len(heap'[own + 1].items) = 0
  <2>1. DOMAIN << >> = {} /\ Len(<< >>) = 0
    OBVIOUS
  <2>2. heap'[own + 1].items = << >>
    BY <1>4, <1>5
  <2> QED  BY <2>1, <2>2
<1>10. EncodedBox(heap, t, own + 1, 1)'
  <2>0. 1 \in 1 .. own
    BY <1>2
  <2>1. heap'[1] = heap[1] /\ heap[1].kind = "list" /\ 1 \in DOMAIN heap
    BY <1>1, <1>2, <1>5, <2>0 DEF CallerInv
  <2>2. Len(heap[1].items) \in Nat
    BY <1>2, <2>1, ObjectOf
  <2>3. 0 <= Len(heap[1].items)
    BY <2>2
  <2>4. /\ heap'[1].kind \in {"list", "tuple", "dict"}
        /\ heap'[own + 1].kind = (IF heap'[1].kind = "dict" THEN "dict" ELSE "list")
        /\ heap'[own + 1].type = ""
    BY <1>4, <1>5, <2>1
  <2> QED  BY <1>3, <1>9, <2>1, <2>3, <2>4 DEF EncodedBox
<1>11. Encoded(heap, Len(heap), t)'
  <2>1. \A n \in own' + 1 .. Len(heap') :
          /\ EncodedBox(heap, t, n, t[n])'
          /\ \A i \in DOMAIN heap'[n].items :
               heap'[n].items[i] <= Len(heap') /\ heap'[n].items[i] # sent'
    BY <1>3, <1>6, <1>8, <1>9, <1>10
  <2> QED  BY <1>7, <2>1 DEF Encoded
<1>12. Unshared(heap, Len(heap))'
  BY <1>3, <1>8, <1>9 DEF Unshared
<1>13. Filling(heap, Len(heap), stack, t)'
  <2>1. /\ Frame(1, own + 1).at = 1 /\ Frame(1, own + 1).out = own + 1
        /\ Frame(1, own + 1).i = 0
    BY <1>2, NewFrame
  <2>2. /\ DOMAIN stack' = {1} /\ stack'[1].at = 1 /\ stack'[1].out = own + 1
        /\ stack'[1].i = 0
    BY <1>3, <2>1
  <2>3. own + 1 \in own' + 1 .. Len(heap')
    BY <1>2, <1>3, <1>5
  <2>4. heap'[1].kind = "list"
    <3>1. 1 \in 1 .. own
      BY <1>2
    <3> QED  BY <1>1, <1>5, <3>1 DEF CallerInv
  <2> QED  BY <1>3, <1>6, <1>8, <1>9, <2>2, <2>3, <2>4 DEF Filling
<1> QED  BY <1>3, <1>11, <1>12, <1>13 DEF EncodeInv

(* What encode() knows when it comes to an item. *)
LEMMA AtWork ==
  ASSUME MapInv, Given, EncodeInv, More("encode")
  PROVE  /\ Basics /\ CallerInv /\ heap \in Seq(Obj) /\ Len(heap) \in Nat
         /\ own \in Nat /\ NextItem \in 1 .. own /\ NextItem \in DOMAIN heap
         /\ \A k \in 1 .. own : k \in Nat
         /\ \E s : /\ Encoded(heap, Len(heap), s) /\ Unshared(heap, Len(heap))
                   /\ Filling(heap, Len(heap), stack, s) /\ Extends(heap, s, s)
<1>1. Basics /\ heap \in Seq(Obj) /\ Len(heap) \in Nat /\ own \in Nat
  BY DEF MapInv, Basics, Linked
<1>2. CallerInv
  BY <1>1, CallerKnown
<1>3. PICK s : /\ Encoded(heap, Len(heap), s) /\ Unshared(heap, Len(heap))
               /\ Filling(heap, Len(heap), stack, s)
  BY DEF EncodeInv, More
<1>4. NextItem \in 1 .. own /\ NextItem \in DOMAIN heap
  BY <1>1, <1>2, <1>3, NextOwn, NextItemThere
<1>5. Extends(heap, s, s)
  BY <1>3 DEF Extends, Encoded, Sources
<1> QED  BY <1>1, <1>2, <1>3, <1>4, <1>5

(* The parts of the invariant of encode(), after a step. *)
LEMMA EncodesOn ==
  ASSUME own' = own, sent' = sent, phase' \in {"encode", "encoded"}, NEW s,
         Encoded(heap', Len(heap'), s), Unshared(heap', Len(heap')),
         Filling(heap', Len(heap'), stack', s)
  PROVE  EncodeInv'
<1>1. Encoded(heap, Len(heap), s)'
  BY DEF Encoded, Sources, EncodedInstance, EncodedBox, EncodesTo
<1>2. Unshared(heap, Len(heap))' /\ Filling(heap, Len(heap), stack, s)'
  BY DEF Unshared, Filling
<1> QED  BY <1>1, <1>2 DEF EncodeInv

LEMMA EncodeOtherStep ==
  ASSUME MapInv, Given, EncodeInv, EncodeOther
  PROVE  EncodeInv'
<1> DEFINE k == NextItem
<1>1. /\ More("encode") /\ phase = "encode" /\ phase' = phase /\ own' = own /\ sent' = sent
      /\ heap' = Put(k) /\ stack' = Advanced
      /\ EncodesAs(heap[k]) = {} /\ heap[k].kind \notin {"list", "tuple", "dict"}
  BY DEF EncodeOther, More
<1>2. /\ Basics /\ CallerInv /\ k \in 1 .. own /\ k \in Nat /\ k \in DOMAIN heap
  BY <1>1, AtWork
<1>3. PICK s : /\ Encoded(heap, Len(heap), s) /\ Unshared(heap, Len(heap))
               /\ Filling(heap, Len(heap), stack, s) /\ Extends(heap, s, s)
  BY <1>1, AtWork
<1>4. Grown(heap, heap', Head(stack).out, k) /\ Len(heap') = Len(heap)
  BY <1>1, <1>2, PutGrown
<1>5. heap'[k] = heap[k]
  BY <1>2, HeapStep DEF Kept, Next
<1>6. Extends(heap', s, s)
  BY <1>3, <1>4 DEF Extends
<1>7. NewAsWell(heap', s)
  <2>1. Len(heap') # Len(heap) + 1
    BY <1>2, <1>4 DEF Basics, Linked
  <2> QED  BY <2>1 DEF NewAsWell
<1>8. EncodesTo(heap', s, k, NextItem)
  BY <1>1, <1>5 DEF EncodesTo
<1>9. Encoded(heap', Len(heap'), s)
  BY <1>1, <1>2, <1>3, <1>4, <1>6, <1>7, <1>8, EncodedGrows
<1>10. Unshared(heap', Len(heap'))
  BY <1>1, <1>2, <1>3, <1>4, <1>7, UnsharedGrows
<1>11. Filling(heap', Len(heap'), stack', s)
  BY <1>1, <1>2, <1>3, <1>4, <1>6, FillingAdvances
<1> QED  BY <1>1, <1>9, <1>10, <1>11, EncodesOn

(* Longer by one: the new object is made of k. *)
LEMMA OneMore ==
  ASSUME NEW s, Extends(heap, s, s), Len(heap) \in Nat, NEW k \in 1 .. own,
         NEW g, Len(g) = Len(heap) + 1
  PROVE  \E t : Extends(g, t, s) /\ t[Len(g)] = k
<1> DEFINE t == [n \in 1 .. Len(g) |-> IF n = Len(g) THEN k ELSE s[n]]
<1>1. s \in [1 .. Len(heap) -> 1 .. own]
  BY DEF Extends
<1>2. \A n \in 1 .. Len(g) : n = Len(g) \/ n \in 1 .. Len(heap)
  OBVIOUS
<1>3. \A n \in 1 .. Len(heap) : n \in 1 .. Len(g) /\ n # Len(g)
  OBVIOUS
<1>4. Len(g) \in 1 .. Len(g)
  OBVIOUS
<1>5. Extends(g, t, s) /\ t[Len(g)] = k
  BY <1>1, <1>2, <1>3, <1>4 DEF Extends
<1> QED  BY <1>5

LEMMA EncodeInstanceStep ==
  ASSUME MapInv, Given, EncodeInv, EncodeInstance
  PROVE  EncodeInv'
<1> DEFINE k == NextItem
           M == Len(heap')
<1>1. /\ More("encode") /\ phase = "encode" /\ phase' = phase /\ own' = own /\ sent' = sent
      /\ stack' = Advanced
  BY DEF EncodeInstance, More
<1>2. PICK ct \in EncodesAs(heap[k]) :
        heap' = Append(Put(Fresh), Object("tag", ct.tag_number, heap[k].items))
  BY DEF EncodeInstance
<1>3. /\ Basics /\ CallerInv /\ k \in 1 .. own /\ k \in DOMAIN heap /\ Len(heap) \in Nat
      /\ Fresh = Len(heap) + 1 /\ Fresh \in Nat
  BY <1>1, AtWork DEF Fresh
<1>4. PICK s : /\ Encoded(heap, Len(heap), s) /\ Unshared(heap, Len(heap))
               /\ Filling(heap, Len(heap), stack, s) /\ Extends(heap, s, s)
  BY <1>1, AtWork
<1> DEFINE o == Object("tag", ct.tag_number, heap[k].items)
<1>5. o \in Obj /\ o.items = heap[k].items
  <2>1. heap[k].kind \in Holders /\ "tag" \in Kinds /\ ct.tag_number \in STRING
    BY <1>2, FoundTag DEF Holders, Kinds
  <2> QED  BY <1>3, <2>1, Rewrapped DEF Basics
<1>6. /\ Grown(heap, heap', Head(stack).out, Fresh) /\ M = Len(heap) + 1
      /\ heap'[M] = o
  <2> HIDE DEF o
  <2>1. heap' = Append(Put(Fresh), o)
    BY <1>2 DEF o
  <2> QED  BY <1>1, <1>3, <1>5, <2>1, PutGrown
<1>7. heap'[k] = heap[k]
  BY <1>3, HeapStep DEF Kept, Next
<1>8. PICK t : Extends(heap', t, s) /\ t[M] = k
  BY <1>3, <1>4, <1>6, OneMore
<1> HIDE DEF M
<1>9. EncodedInstance(heap', M, t[M])
  BY <1>2, <1>6, <1>7, <1>8 DEF EncodedInstance
<1>10. NewAsWell(heap', t)
  <2>1. \A i \in DOMAIN heap'[M].items : heap'[M].items[i] <= own
    BY <1>3, <1>5, <1>6 DEF CallerInv
  <2> QED  BY <1>9, <2>1 DEF NewAsWell, M
<1>11. EncodesTo(heap', t, Fresh, NextItem)
  <2>1. Fresh > own
    BY <1>3 DEF Basics
  <2> QED  BY <1>3, <1>6, <1>8, <2>1 DEF EncodesTo
<1>12. Fresh = Len(heap') /\ Fresh > Len(heap)
  BY <1>3, <1>6 DEF M
<1>13. Encoded(heap', Len(heap'), t)
  BY <1>1, <1>3, <1>4, <1>6, <1>8, <1>10, <1>11, <1>12, EncodedGrows
<1>14. Unshared(heap', Len(heap'))
  BY <1>1, <1>3, <1>4, <1>6, <1>10, <1>12, UnsharedGrows
<1>15. Filling(heap', Len(heap'), stack', t)
  <2>1. \A n \in own + 1 .. Len(heap') : n \in own + 1 .. Len(heap) \/ n = M
    BY <1>3, <1>6 DEF M
  <2>2. \A n \in own + 1 .. Len(heap) : n \in own + 1 .. Len(heap')
    BY <1>3, <1>6 DEF M
  <2>3. Len(heap'[M].items) = Len(heap'[t[M]].items)
    BY <1>5, <1>6, <1>7, <1>8
  <2>4. Filling(heap', Len(heap), stack', t)
    BY <1>1, <1>3, <1>4, <1>6, <1>8, FillingAdvances
  <2> QED  BY <2>1, <2>2, <2>3, <2>4 DEF Filling
<1> QED  BY <1>1, <1>13, <1>14, <1>15, EncodesOn

(* A container begins empty. *)
LEMMA BuiltEmpty ==
  ASSUME NEW x
  PROVE  /\ Built(x) \in Obj /\ Built(x).type = ""
         /\ Built(x).kind = (IF x.kind = "dict" THEN "dict" ELSE "list")
         /\ DOMAIN Built(x).items = {} /\ Len(Built(x).items) = 0
<1> DEFINE kind == IF x.kind = "dict" THEN "dict" ELSE "list"
<1>1. kind \in {"list", "dict"} /\ Built(x) = Object(kind, "", << >>)
  BY DEF Built
<1>2. DOMAIN << >> = {} /\ Len(<< >>) = 0
  OBVIOUS
<1> HIDE DEF kind
<1>3. Built(x) \in Obj
  BY <1>1, EmptyObject
<1>4. Built(x).type = "" /\ Built(x).kind = kind /\ Built(x).items = << >>
  <2>1. \A xs : /\ Object(kind, "", xs).type = "" /\ Object(kind, "", xs).kind = kind
               /\ Object(kind, "", xs).items = xs
    BY DEF Object
  <2> QED  BY <1>1, <2>1
<1> QED  BY <1>2, <1>3, <1>4 DEF kind

(* One more call fills one more container. *)
LEMMA FillingDescends ==
  ASSUME NEW g, NEW L \in Nat, NEW M, M = L + 1, NEW stk \in Seq(Frames), NEW t,
         Filling(g, L, stk, t), own \in Nat, own <= L,
         NEW f \in Frames, f.out = M, f.at = t[M], f.i = Len(g[M].items),
         g[f.at].kind \in {"list", "tuple", "dict"}
  PROVE  Filling(g, M, <<f>> \o stk, t)
<1> DEFINE new == <<f>> \o stk
<1>1. /\ 1 \in DOMAIN new /\ new[1] = f
      /\ \A j \in DOMAIN new : j # 1 => j - 1 \in DOMAIN stk /\ new[j] = stk[j - 1]
      /\ \A j \in DOMAIN stk : j + 1 \in DOMAIN new /\ new[j + 1] = stk[j]
      /\ new \in Seq(Frames)
  BY OnTop
<1> HIDE DEF new
<1>2. /\ M \in own + 1 .. M /\ \A n \in own + 1 .. L : n \in own + 1 .. M /\ n # M
      /\ \A n \in own + 1 .. M : n \in own + 1 .. L \/ n = M
      /\ DOMAIN new \subseteq Nat
  BY <1>1
<1>3. \A j \in DOMAIN new :
        /\ new[j].out \in own + 1 .. M /\ new[j].at = t[new[j].out]
        /\ new[j].i = Len(g[new[j].out].items)
        /\ g[new[j].at].kind \in {"list", "tuple", "dict"}
  BY <1>1, <1>2 DEF Filling
<1>4. ASSUME NEW j \in DOMAIN new, NEW k \in DOMAIN new, new[j].out = new[k].out
      PROVE  j = k
  <2>1. ASSUME NEW i \in DOMAIN new, i # 1
        PROVE  new[i].out # M
    <3>1. i - 1 \in DOMAIN stk /\ new[i] = stk[i - 1]
      BY <1>1, <2>1
    <3>2. stk[i - 1].out \in own + 1 .. L
      BY <3>1 DEF Filling
    <3> QED  BY <1>2, <3>1, <3>2
  <2>2. CASE j # 1 /\ k # 1
    <3>1. j - 1 \in DOMAIN stk /\ k - 1 \in DOMAIN stk
          /\ stk[j - 1].out = stk[k - 1].out
      BY <1>1, <1>4, <2>2
    <3>2. j - 1 = k - 1
      BY <3>1 DEF Filling
    <3>3. j \in Nat /\ k \in Nat
      BY <1>2
    <3> QED  BY <3>2, <3>3
  <2> QED  BY <1>1, <1>4, <2>1, <2>2
<1>5. \A n \in own + 1 .. M :
        \/ Len(g[n].items) = Len(g[t[n]].items)
        \/ \E j \in DOMAIN new : new[j].out = n
  <2>1. ASSUME NEW n \in own + 1 .. L
        PROVE  \/ Len(g[n].items) = Len(g[t[n]].items)
               \/ \E j \in DOMAIN new : new[j].out = n
    <3>1. CASE Len(g[n].items) = Len(g[t[n]].items)
      BY <3>1
    <3>2. CASE \E j \in DOMAIN stk : stk[j].out = n
      <4>1. PICK j \in DOMAIN stk : stk[j].out = n
        BY <3>2
      <4>2. j + 1 \in DOMAIN new /\ new[j + 1].out = n
        BY <1>1, <4>1
      <4> QED  BY <4>2
    <3> QED  BY <3>1, <3>2 DEF Filling
  <2> QED  BY <1>1, <1>2, <2>1
<1> QED  BY <1>3, <1>4, <1>5 DEF Filling, new

LEMMA EncodeContainerStep ==
  ASSUME MapInv, Given, EncodeInv, EncodeContainer
  PROVE  EncodeInv'
<1> DEFINE k == NextItem
           M == Len(heap')
           o == Built(heap[k])
<1>1. /\ More("encode") /\ phase = "encode" /\ phase' = phase /\ own' = own /\ sent' = sent
      /\ stack' = <<Frame(k, Fresh)>> \o Advanced
      /\ heap[k].kind \in {"list", "tuple", "dict"}
      /\ heap' = Append(Put(Fresh), o)
  BY DEF EncodeContainer, More
<1>2. /\ Basics /\ CallerInv /\ k \in 1 .. own /\ k \in DOMAIN heap /\ Len(heap) \in Nat
      /\ Fresh = Len(heap) + 1 /\ Fresh \in Nat /\ k \in Nat /\ own \in Nat
      /\ heap \in Seq(Obj)
  BY <1>1, AtWork DEF Fresh
<1>3. PICK s : /\ Encoded(heap, Len(heap), s) /\ Unshared(heap, Len(heap))
               /\ Filling(heap, Len(heap), stack, s) /\ Extends(heap, s, s)
  BY <1>1, AtWork
<1>4. /\ o \in Obj /\ o.type = "" /\ DOMAIN o.items = {} /\ Len(o.items) = 0
      /\ o.kind = (IF heap[k].kind = "dict" THEN "dict" ELSE "list")
  BY BuiltEmpty
<1> HIDE DEF o
<1>5. /\ Grown(heap, heap', Head(stack).out, Fresh) /\ M = Len(heap) + 1
      /\ heap'[M] = o
  BY <1>1, <1>2, <1>4, PutGrown
<1>6. heap'[k] = heap[k]
  BY <1>2, HeapStep DEF Kept, Next
<1>7. PICK t : Extends(heap', t, s) /\ t[M] = k
  BY <1>2, <1>3, <1>5, OneMore
<1> HIDE DEF M
<1>8. EncodedBox(heap', t, M, t[M])
  <2>1. Len(heap[k].items) \in Nat
    BY <1>2, ObjectOf
  <2>2. Len(heap'[M].items) <= Len(heap'[k].items)
    <3>1. Len(heap'[M].items) = 0 /\ Len(heap'[k].items) = Len(heap[k].items)
      BY <1>4, <1>5, <1>6
    <3> QED  BY <2>1, <3>1
  <2> QED  BY <1>1, <1>4, <1>5, <1>6, <1>7, <2>2 DEF EncodedBox
<1>9. NewAsWell(heap', t)
  BY <1>4, <1>5, <1>8 DEF NewAsWell, M
<1>10. own <= Len(heap)
  BY <1>2 DEF Basics
<1>11. EncodesTo(heap', t, Fresh, NextItem)
  <2>1. Fresh > own
    BY <1>2, <1>10
  <2> QED  BY <1>2, <1>5, <1>7, <2>1 DEF EncodesTo
<1>12. Fresh = Len(heap') /\ Fresh > Len(heap)
  BY <1>2, <1>5 DEF M
<1>13. Encoded(heap', Len(heap'), t)
  BY <1>1, <1>2, <1>3, <1>5, <1>7, <1>9, <1>11, <1>12, EncodedGrows
<1>14. Unshared(heap', Len(heap'))
  BY <1>1, <1>2, <1>3, <1>5, <1>9, <1>12, UnsharedGrows
<1>15. Filling(heap', Len(heap'), stack', t)
  <2>1. Filling(heap', Len(heap), Advanced, t)
    BY <1>1, <1>2, <1>3, <1>5, <1>7, FillingAdvances
  <2>2. Advanced \in Seq(Frames)
    BY <1>1, <1>2, AdvancedFrames
  <2>3. /\ Frame(k, Fresh) \in Frames /\ Frame(k, Fresh).at = k
        /\ Frame(k, Fresh).out = Fresh /\ Frame(k, Fresh).i = 0
    BY <1>2, NewFrame
  <2> DEFINE f == Frame(k, Fresh)
  <2>4. /\ f \in Frames /\ f.out = M /\ f.at = t[M] /\ f.i = Len(heap'[M].items)
        /\ heap'[f.at].kind \in {"list", "tuple", "dict"}
    BY <1>1, <1>2, <1>4, <1>5, <1>6, <1>7, <2>3
  <2> HIDE DEF f
  <2>5. Filling(heap', M, <<f>> \o Advanced, t)
    BY <1>2, <1>5, <1>10, <2>1, <2>2, <2>4, FillingDescends
  <2> QED  BY <1>1, <2>5 DEF f, M
<1> QED  BY <1>1, <1>13, <1>14, <1>15, EncodesOn

(* A container is complete when encode() returns from it. *)
LEMMA EncodeReturnStep ==
  ASSUME MapInv, Given, EncodeInv, Return, phase = "encode"
  PROVE  EncodeInv'
<1>1. /\ phase' \in {"encode", "encoded"} /\ own' = own /\ sent' = sent /\ heap' = heap
      /\ stack # << >> /\ Done(Head(stack)) /\ stack' = Tail(stack)
  BY DEF Return
<1>2. Basics
  BY DEF MapInv
<1>3. PICK s : /\ Encoded(heap, Len(heap), s) /\ Unshared(heap, Len(heap))
               /\ Filling(heap, Len(heap), stack, s)
  BY DEF EncodeInv
<1>4. /\ \A j \in DOMAIN Tail(stack) :
           j + 1 \in DOMAIN stack /\ Tail(stack)[j] = stack[j + 1] /\ j \in Nat
      /\ \A j \in DOMAIN stack :
           j # 1 => j - 1 \in DOMAIN Tail(stack) /\ stack[j] = Tail(stack)[j - 1]
      /\ 1 \in DOMAIN stack /\ Head(stack) = stack[1]
  BY <1>1, <1>2, Popped
<1>5. Len(heap[stack[1].out].items) = Len(heap[s[stack[1].out]].items)
  BY <1>1, <1>3, <1>4 DEF Filling, Done
<1>6. Filling(heap, Len(heap), Tail(stack), s)
  <2>1. \A j, k \in DOMAIN Tail(stack) : Tail(stack)[j].out = Tail(stack)[k].out => j = k
    <3> SUFFICES ASSUME NEW j \in DOMAIN Tail(stack), NEW k \in DOMAIN Tail(stack),
                        Tail(stack)[j].out = Tail(stack)[k].out
                 PROVE  j = k
      OBVIOUS
    <3>1. j + 1 = k + 1 /\ j \in Nat /\ k \in Nat
      BY <1>3, <1>4 DEF Filling
    <3> QED  BY <3>1
  <2>2. ASSUME NEW n \in own + 1 .. Len(heap)
        PROVE  \/ Len(heap[n].items) = Len(heap[s[n]].items)
               \/ \E j \in DOMAIN Tail(stack) : Tail(stack)[j].out = n
    <3>1. CASE Len(heap[n].items) = Len(heap[s[n]].items)
      BY <3>1
    <3>2. CASE \E j \in DOMAIN stack : stack[j].out = n
      <4>1. PICK j \in DOMAIN stack : stack[j].out = n
        BY <3>2
      <4>2. CASE j = 1
        BY <1>5, <4>1, <4>2
      <4>3. CASE j # 1
        BY <1>4, <4>1, <4>3
      <4> QED  BY <4>2, <4>3
    <3> QED  BY <1>3, <3>1, <3>2 DEF Filling
  <2> QED  BY <1>3, <1>4, <2>1, <2>2 DEF Filling
<1> QED  BY <1>1, <1>3, <1>6, EncodesOn

(* EncodeInv is preserved by each step. *)
LEMMA EncodeKept ==
  ASSUME MapInv, Given, EncodeInv, Next
  PROVE  EncodeInv'
<1>1. CASE StartEncode \/ EncodeInstance \/ EncodeContainer \/ EncodeOther
  BY <1>1, StartEncodeStep, EncodeInstanceStep, EncodeContainerStep, EncodeOtherStep
<1>2. CASE Return
  <2>1. CASE phase = "encode"
    BY <1>2, <2>1, EncodeReturnStep
  <2>2. CASE phase # "encode"
    BY <1>2, <2>2 DEF Return, EncodeInv
  <2> QED  BY <2>1, <2>2
<1>3. CASE EncodeRaises \/ DumpsRaises
  BY <1>3 DEF EncodeRaises, DumpsRaises, Raise, EncodeInv
<1>4. CASE DumpsAndLoads
  BY <1>4 DEF DumpsAndLoads, EncodeInv
<1>5. CASE StartDecode \/ DecodeTag \/ DecodeContainer \/ DecodeOther
  BY <1>5 DEF StartDecode, DecodeTag, DecodeContainer, DecodeOther, More, EncodeInv
<1>6. CASE DecodeRaises \/ DecodeUnknown
  BY <1>6 DEF DecodeRaises, DecodeUnknown, Raise, EncodeInv
<1> QED  BY <1>1, <1>2, <1>3, <1>4, <1>5, <1>6 DEF Next

-----------------------------------------------------------------------------
(* dumps() and loads() *)

(* What encode() has made is nested no deeper than what it was made from.  *)
LEMMA LessDeep ==
  ASSUME Basics, CallerInv, NEW d, Deep(d), NEW s, Encoded(heap, Len(heap), s),
         NEW n \in DOMAIN heap, NEW i \in DOMAIN heap[n].items
  PROVE  /\ heap[n].items[i] \in DOMAIN heap
         /\ s[n] \in 1 .. own /\ s[heap[n].items[i]] \in 1 .. own
         /\ d[s[heap[n].items[i]]] < d[s[n]]
<1>1. /\ Linked(heap) /\ heap \in Seq(Obj) /\ own \in Nat /\ Len(heap) \in Nat
      /\ DOMAIN heap = 1 .. Len(heap) /\ own <= Len(heap)
  BY DEF Basics, Linked
<1>2. /\ s \in [1 .. Len(heap) -> 1 .. own] /\ \A k \in 1 .. own : s[k] = k
  BY DEF Encoded, Sources
<1>3. heap[n].items[i] \in DOMAIN heap
  BY <1>1 DEF Linked
<1>4. ASSUME NEW k \in 1 .. own, NEW j \in DOMAIN heap[k].items
      PROVE  heap[k].items[j] \in 1 .. own /\ d[heap[k].items[j]] < d[k]
  <2> DEFINE m == heap[k].items[j]
  <2>1. k \in DOMAIN heap
    BY <1>1
  <2>2. m \in 1 .. Len(heap) /\ m <= own
    BY <1>1, <2>1 DEF Linked, CallerInv
  <2>3. d[m] < d[k]
    BY DEF Deep
  <2> HIDE DEF m
  <2>4. m \in 1 .. own
    BY <1>1, <2>2
  <2> QED  BY <2>3, <2>4 DEF m
<1>5. CASE n \in 1 .. own
  BY <1>2, <1>3, <1>4, <1>5
<1>6. CASE n \in own + 1 .. Len(heap)
  <2>1. CASE EncodedInstance(heap, n, s[n])
    <3>1. heap[n].items = heap[s[n]].items /\ s[n] \in 1 .. own
      BY <1>1, <1>2, <2>1, TagMade
    <3> QED  BY <1>2, <1>3, <1>4, <3>1
  <2>2. CASE EncodedBox(heap, s, n, s[n])
    <3> DEFINE o == heap[n].items[i]
               k == heap[s[n]].items[i]
    <3>1. /\ s[n] \in 1 .. own /\ i \in DOMAIN heap[s[n]].items
          /\ k \in 1 .. own /\ EncodesTo(heap, s, o, k)
      BY <1>6, <2>2, NewItem
    <3>2. d[k] < d[s[n]]
      BY <1>4, <3>1
    <3> HIDE DEF o, k
    <3>3. s[o] = k
      BY <1>2, <3>1 DEF EncodesTo
    <3> QED  BY <1>3, <3>1, <3>2, <3>3 DEF o
  <2> QED  BY <1>6, <2>1, <2>2 DEF Encoded
<1> QED  BY <1>1, <1>5, <1>6

(* and a copy no deeper than the original. *)
LEMMA CopiedRanks ==
  ASSUME Basics, CallerInv, NEW d, Deep(d), NEW s, Encoded(heap, Len(heap), s)
  PROVE  \E r : Ranks(Copied, r)
<1> DEFINE L == Len(heap)
           org(m) == IF m \in DOMAIN heap THEN m ELSE m - L
           r == [m \in DOMAIN Copied |-> d[s[org(m)]]]
<1>1. /\ Linked(heap) /\ own \in Nat /\ L \in Nat /\ DOMAIN heap = 1 .. L
      /\ s \in [1 .. L -> 1 .. own]
  BY DEF Basics, Linked, Encoded, Sources
<1>2. /\ \A n \in DOMAIN heap : Copied[n] = heap[n]
      /\ \A n \in DOMAIN heap : IsCopy(Copied[n + L], n)
      /\ Copied \in Seq(Obj) /\ Len(Copied) = L + L
  BY <1>1, CopiedHeap DEF Linked
<1>3. DOMAIN Copied = 1 .. L + L
  BY <1>2
<1>4. /\ \A m \in DOMAIN Copied : org(m) \in DOMAIN heap
      /\ \A m \in DOMAIN Copied : m \in DOMAIN heap \/ m = org(m) + L
      /\ \A n \in DOMAIN heap : n \in DOMAIN Copied /\ n + L \in DOMAIN Copied
      /\ \A n \in DOMAIN heap : org(n) = n /\ org(n + L) = n
  BY <1>1, <1>3
<1> HIDE DEF org
<1>5. \A m \in DOMAIN heap : s[m] \in 1 .. own /\ d[s[m]] \in 1 .. own /\ d[s[m]] \in Nat
  BY <1>1 DEF Deep
<1>6. /\ r \in [DOMAIN Copied -> Nat] /\ \A m \in DOMAIN Copied : r[m] = d[s[org(m)]]
      /\ \A m \in DOMAIN Copied : r[m] < own + 1
  BY <1>1, <1>4, <1>5
<1> HIDE DEF r
<1>7. ASSUME NEW m \in DOMAIN Copied, NEW i \in DOMAIN Copied[m].items
      PROVE  r[Copied[m].items[i]] < r[m]
  <2> DEFINE n == org(m)
  <2>1. n \in DOMAIN heap
    BY <1>4
  <2>2. i \in DOMAIN heap[n].items
    BY <1>2, <1>4, <1>7 DEF IsCopy
  <2>3. heap[n].items[i] \in DOMAIN heap /\ d[s[heap[n].items[i]]] < d[s[n]]
    BY <2>1, <2>2, LessDeep
  <2>4. \/ Copied[m].items[i] = heap[n].items[i]
        \/ Copied[m].items[i] = heap[n].items[i] + L
    BY <1>2, <1>4, <2>1, <2>2 DEF IsCopy
  <2>5. /\ org(Copied[m].items[i]) = heap[n].items[i]
        /\ Copied[m].items[i] \in DOMAIN Copied
    BY <1>4, <2>3, <2>4
  <2> QED  BY <1>6, <2>3, <2>5
<1>8. Ranks(Copied, r)
  <2>1. own + 1 \in Nat
    BY <1>1
  <2> QED  BY <1>6, <1>7, <2>1 DEF Ranks
<1> QED  BY <1>8

(* loads() returns a copy of all that encode() has made. *)
LEMMA DumpsAndLoadsStep ==
  ASSUME MapInv, Given, EncodeInv, DumpsAndLoads
  PROVE  DecodeInv'
<1> DEFINE b == Len(heap)
<1>1. /\ Basics /\ Linked(heap) /\ heap \in Seq(Obj) /\ b \in Nat /\ stack = << >>
      /\ DOMAIN heap = 1 .. b /\ sent \in Nat /\ own \in Nat
  BY DEF MapInv, Basics, Linked, DumpsAndLoads
<1>2. CallerInv /\ \E d : Deep(d)
  BY <1>1, CallerKnown
<1>3. PICK s : /\ Encoded(heap, b, s) /\ Unshared(heap, b)
               /\ Filling(heap, b, stack, s)
  BY DEF EncodeInv, DumpsAndLoads
<1>4. /\ phase' = "loaded" /\ own' = own /\ sent' = sent /\ heap' = Copied
  BY DEF DumpsAndLoads
<1>5. /\ Linked(heap') /\ Len(heap') = b + b
      /\ \A n \in 1 .. b : heap'[n] = heap[n]
      /\ \A n \in 1 .. b : IsCopy(heap'[n + b], n)
  BY <1>1, <1>4, CopiedHeap
<1>6. got' = sent' + b
  <2>1. got' = sent + Len(heap') - Len(heap)
    BY DEF DumpsAndLoads
  <2> QED  BY <1>1, <1>4, <1>5, <2>1
<1>7. PICK B \in Nat : B = b
  BY <1>1
<1> HIDE DEF b
<1>8. Encoded(heap, B, s)' /\ CallerInv'
  <2>1. B <= Len(heap)
    BY <1>1, <1>7 DEF b
  <2> QED  BY <1>1, <1>2, <1>3, <1>4, <1>5, <1>7, <2>1, EncodedStays
<1>9. Made(B, s)'
  BY <1>1, <1>5, <1>7, <1>8 DEF Made
<1>10. \A n \in own + 1 .. B : n \in 1 .. B /\ s[n] \in 1 .. B
  <2>1. s \in [1 .. B -> 1 .. own] /\ own <= B
    BY <1>1, <1>3, <1>7 DEF Encoded, Sources
  <2> QED  BY <1>1, <2>1
<1>11. Unshared(heap, B)'
  BY <1>3, <1>4, <1>5, <1>7, <1>10 DEF Unshared
<1>12. Whole(heap, B, s)'
  <2>1. \A n \in own + 1 .. B : Len(heap[n].items) = Len(heap[s[n]].items)
    BY <1>1, <1>3, <1>7 DEF Filling
  <2> QED  BY <1>4, <1>5, <1>7, <1>10, <2>1 DEF Whole
<1>13. \E r : Ranks(heap', r)
  BY <1>1, <1>2, <1>3, <1>4, CopiedRanks DEF b
<1>14. Loaded(B, s)'
  BY <1>9, <1>11, <1>12, <1>13 DEF Loaded
<1>15. \A n \in 1 .. B : CopyOf(heap, B, n)'
  BY <1>5, <1>7 DEF CopyOf, IsCopy, b
<1>16. \A p \in Boxes(heap, B)' : \A i \in DOMAIN heap'[p].items :
         Original(heap, B, p, i)'
  <2>1. \A p \in Boxes(heap, B)' : p \in 1 .. B
    BY <1>4, <1>10 DEF Boxes
  <2> SUFFICES ASSUME NEW p \in Boxes(heap, B)', NEW i \in DOMAIN heap'[p].items
               PROVE  heap'[p + B].items[i] = heap'[p].items[i] + B
    BY DEF Original
  <2>2. p \in 1 .. b /\ heap'[p] = heap[p] /\ IsCopy(heap'[p + b], p)
    BY <1>5, <1>7, <2>1
  <2> QED  BY <1>7, <2>2 DEF IsCopy, b
<1>17. Progress(B)'
  <2>1. Copies(heap, B)'
    BY <1>15, <1>16 DEF Copies
  <2> QED  BY <1>4, <1>16, <2>1 DEF Progress
<1> QED  BY <1>6, <1>7, <1>14, <1>17 DEF DecodeInv

-----------------------------------------------------------------------------
(* Together *)

LEMMA DecodeIdles ==
  ASSUME NEW b, NEW s, Loaded(b, s), Progress(b), UNCHANGED vars
  PROVE  Loaded(b, s)' /\ Progress(b)'
<1>1. /\ raise_on_unknown_tag' = raise_on_unknown_tag /\ heap' = heap /\ stack' = stack
      /\ phase' = phase /\ sent' = sent /\ raises' = raises /\ own' = own
  BY DEF vars
<1>2. /\ Loaded(b, s)'
      /\ \A S : NoBytes(heap, b, S)' <=> NoBytes(heap, b, S)
      /\ Copies(heap, b)' <=> Copies(heap, b)
      /\ \A E : Walk(heap, stack', b, E) => Walk(heap, stack, b, E)'
      /\ \A E : Once(heap, stack', b, E) => Once(heap, stack, b, E)'
  BY <1>1, Steady
<1>3. Certain(b)' => Certain(b)
  BY <1>1, <1>2 DEF Certain
<1>4. ASSUME NEW E, Walking(b, E)
      PROVE  Walking(b, E)'
  BY <1>1, <1>2, <1>4 DEF Walking
<1>5. (\A p \in Boxes(heap, b) : \A i \in DOMAIN heap[p].items : Original(heap, b, p, i))' <=>
        \A p \in Boxes(heap, b) : \A i \in DOMAIN heap[p].items : Original(heap, b, p, i)
  BY <1>1 DEF Boxes, Original
<1>6. Progress(b)'
  BY <1>1, <1>2, <1>3, <1>4, <1>5 DEF Progress
<1> QED  BY <1>2, <1>6

(* DecodeInv is preserved by each step. *)
LEMMA DecodeKept ==
  ASSUME MapInv, Given, EncodeInv, DecodeInv, [Next]_vars
  PROVE  DecodeInv'
<1>1. CASE DumpsAndLoads
  BY <1>1, DumpsAndLoadsStep
<1>2. ASSUME phase \in {"loaded", "decode", "decoded"}, UNCHANGED <<sent, got>>,
             \A b \in Nat : \A s :
               got = sent + b /\ Loaded(b, s) /\ Progress(b) =>
                 Loaded(b, s)' /\ Progress(b)'
      PROVE  DecodeInv'
  <2>0. PICK b \in Nat : \E s : got = sent + b /\ Loaded(b, s) /\ Progress(b)
    BY <1>2 DEF DecodeInv
  <2>1. PICK s : got = sent + b /\ Loaded(b, s) /\ Progress(b)
    BY <2>0
  <2>2. got' = sent' + b /\ Loaded(b, s)' /\ Progress(b)'
    BY <1>2, <2>1
  <2> QED  BY <2>2 DEF DecodeInv
<1>3. CASE StartDecode
  <2>1. phase = "loaded" /\ UNCHANGED <<sent, got>>
    BY <1>3 DEF StartDecode
  <2> QED  BY <1>2, <1>3, <2>1, StartDecodeStep
<1>4. CASE DecodeTag
  <2>1. phase = "decode" /\ UNCHANGED <<sent, got>>
    BY <1>4 DEF DecodeTag, More
  <2> QED  BY <1>2, <1>4, <2>1, DecodeTagStep
<1>5. CASE DecodeRaises
  <2>1. phase = "decode" /\ UNCHANGED <<sent, got>>
    BY <1>5 DEF DecodeRaises, Raise, More
  <2> QED  BY <1>2, <1>5, <2>1, DecodeRaisesStep
<1>6. CASE DecodeContainer
  <2>1. phase = "decode" /\ UNCHANGED <<sent, got>>
    BY <1>6 DEF DecodeContainer, More
  <2> QED  BY <1>2, <1>6, <2>1, DecodeContainerStep
<1>7. CASE DecodeOther
  <2>1. phase = "decode" /\ UNCHANGED <<sent, got>>
    BY <1>7 DEF DecodeOther, More
  <2> QED  BY <1>2, <1>7, <2>1, DecodeOtherStep
<1>8. CASE Return /\ phase = "decode"
  <2>1. UNCHANGED <<sent, got>>
    BY <1>8 DEF Return
  <2> QED  BY <1>2, <1>8, <2>1, ReturnStep
<1>9. CASE Return /\ phase # "decode"
  BY <1>9 DEF Return, DecodeInv
<1>10. CASE StartEncode \/ EncodeInstance \/ EncodeContainer \/ EncodeOther
  BY <1>10 DEF StartEncode, EncodeInstance, EncodeContainer, EncodeOther, More, DecodeInv
<1>11. CASE EncodeRaises \/ DumpsRaises \/ DecodeUnknown
  BY <1>11 DEF EncodeRaises, DumpsRaises, DecodeUnknown, Raise, DecodeInv
<1>12. CASE UNCHANGED vars
  <2>1. CASE phase \in {"loaded", "decode", "decoded"}
    <3>1. UNCHANGED <<sent, got>>
      BY <1>12 DEF vars
    <3> QED  BY <1>2, <1>12, <2>1, <3>1, DecodeIdles
  <2>2. CASE phase \notin {"loaded", "decode", "decoded"}
    BY <1>12, <2>2 DEF vars, DecodeInv
  <2> QED  BY <2>1, <2>2
<1> QED  BY <1>1, <1>3, <1>4, <1>5, <1>6, <1>7, <1>8, <1>9, <1>10, <1>11, <1>12 DEF Next

LEMMA EncodeIdles ==
  ASSUME EncodeInv, UNCHANGED vars
  PROVE  EncodeInv'
<1>1. /\ heap' = heap /\ stack' = stack /\ phase' = phase /\ sent' = sent /\ own' = own
  BY DEF vars
<1>2. CASE phase \in {"encode", "encoded"}
  BY <1>1, <1>2, EncodesOn DEF EncodeInv
<1>3. CASE phase \notin {"encode", "encoded"}
  BY <1>1, <1>3 DEF EncodeInv
<1> QED  BY <1>2, <1>3

-----------------------------------------------------------------------------

(* The invariant of the whole way, from encode() to what decode() returns. *)
TripInv == MapInv /\ Given /\ EncodeInv /\ DecodeInv

(* TripInv is an inductive invariant. *)
LEMMA TripInit ==
  Init => TripInv
<1> SUFFICES ASSUME Init
             PROVE  TripInv
  OBVIOUS
<1>1. Given /\ EncodeInv /\ DecodeInv
  BY DEF Init, Given, EncodeInv, DecodeInv
<1> QED  BY <1>1, MapInit DEF TripInv

LEMMA TripStep ==
  TripInv /\ [Next]_vars => TripInv'
<1> SUFFICES ASSUME TripInv, [Next]_vars
             PROVE  TripInv'
  OBVIOUS
<1>1. MapInv /\ Given /\ EncodeInv /\ DecodeInv
  BY DEF TripInv
<1>2. MapInv'
  BY <1>1, MapStep
<1>3. DecodeInv'
  BY <1>1, DecodeKept
<1>4. Given' /\ EncodeInv'
  <2>1. CASE Next
    BY <1>1, <2>1, GivenKept, EncodeKept
  <2>2. CASE UNCHANGED vars
    <3>1. Given'
      BY <1>1, <2>2 DEF vars, Given
    <3> QED  BY <1>1, <2>2, <3>1, EncodeIdles
  <2> QED  BY <2>1, <2>2
<1> QED  BY <1>2, <1>3, <1>4 DEF TripInv

LEMMA TripInvariant ==
  Spec => []TripInv
  BY TripInit, TripStep, PTL DEF Spec

(* When decode() has returned, nothing is left to be done. *)
LEMMA TripDone ==
  ASSUME TripInv, phase = "decoded"
  PROVE  \E b, s, r : /\ got = sent + b /\ Made(b, s) /\ Whole(heap, b, s)
                      /\ Ranks(heap, r)
                      /\ Certain(b) => /\ Static(r, b, s)
                                       /\ \E E : AllSettled(heap, b, E)
<1>0. PICK b \in Nat : \E s : got = sent + b /\ Loaded(b, s) /\ Progress(b)
  BY DEF TripInv, DecodeInv
<1>1. PICK s : got = sent + b /\ Loaded(b, s) /\ Progress(b)
  BY <1>0
<1>2. PICK r : Ranks(heap, r)
  BY <1>1 DEF Loaded
<1>3. Made(b, s) /\ Whole(heap, b, s)
  BY <1>1 DEF Loaded
<1>4. ASSUME Certain(b)
      PROVE  Static(r, b, s) /\ \E E : AllSettled(heap, b, E)
  <2>1. Copies(heap, b) /\ \E E : Walking(b, E)
    BY <1>1, <1>4 DEF Progress
  <2>2. PICK E : Walk(heap, stack, b, E)
    BY <2>1 DEF Walking
  <2>3. stack = << >>
    BY DEF TripInv, MapInv, Basics
  <2>4. \A p, i : Passed(stack, b, p, i)
    BY <2>3 DEF Passed
  <2>5. AllSettled(heap, b, E)
    BY <2>2, <2>4 DEF Walk, AllSettled
  <2> QED  BY <1>2, <1>3, <2>1, <2>5 DEF Static, Copies
<1> QED  BY <1>1, <1>2, <1>3, <1>4

(* decode() takes off each known Tag exactly once, wherever lists and      *)
(* dicts lead to it, in whatever number of attempts, and leaves unknown    *)
(* Tags in their places or refuses them: when it returns, it is through    *)
(* with every container that it has come to, and what it has come to       *)
(* before it does not decode again.                                        *)
THEOREM DecodedOnce ==
  Spec => []DecodesOnce
<1>1. TripInv => DecodesOnce
  <2> SUFFICES ASSUME TripInv, phase = "decoded", Unpacks => raises = 0
               PROVE  Decoded(sent, got)
    BY DEF DecodesOnce
  <2>1. PICK b, s, r : /\ got = sent + b /\ Made(b, s) /\ Whole(heap, b, s)
                       /\ Ranks(heap, r)
                       /\ Certain(b) => /\ Static(r, b, s)
                                        /\ \E E : AllSettled(heap, b, E)
    BY TripDone
  <2>2. Certain(b)
    <3>1. CASE raises = 0
      BY <3>1 DEF Certain
    <3>2. CASE raises # 0
      <4>1. ~Unpacks
        BY <3>2
      <4>2. \E S : NoBytes(heap, b, S)
        BY <2>1, <4>1, NothingToUnpack
      <4> QED  BY <4>2 DEF Certain
    <3> QED  BY <3>1, <3>2
  <2>3. PICK E : AllSettled(heap, b, E)
    BY <2>1, <2>2
  <2>4. sent \in E
    BY <2>3 DEF AllSettled
  <2> QED  BY <2>1, <2>2, <2>3, <2>4, AllDecoded
<1> QED  BY <1>1, TripInvariant, PTL

(* Decoding undoes encoding: if the mapper can tell every instance in an   *)
(* object, then decode() makes of what encode() has made an equal object,  *)
(* however often a decode_function raises an exception in between.         *)
THEOREM InstancesComeBack ==
  Spec => []ComesBack
<1>1. TripInv => ComesBack
  <2> SUFFICES ASSUME TripInv, phase = "decoded",
                      \A n \in Reachable(1) : Mapped(heap[n])
               PROVE  Same(1, got)
    BY DEF ComesBack
  <2>1. PICK b, s, r : /\ got = sent + b /\ Made(b, s) /\ Whole(heap, b, s)
                       /\ Ranks(heap, r)
                       /\ Certain(b) => /\ Static(r, b, s)
                                        /\ \E E : AllSettled(heap, b, E)
    BY TripDone
  <2>2. 1 \in DOMAIN heap
    BY DEF TripInv, MapInv, Basics, Linked
  <2>3. Certain(b)
    <3>1. \E S : NoBytes(heap, b, S)
      BY <2>1, <2>2, MappedNoBytes
    <3> QED  BY <3>1 DEF Certain
  <2>4. PICK E : AllSettled(heap, b, E)
    BY <2>1, <2>3
  <2> QED  BY <2>1, <2>2, <2>3, <2>4, AllBack
<1> QED  BY <1>1, TripInvariant, PTL

=============================================================================
